------------------------------- MODULE TextTime -------------------------------
(***************************************************************************)
(* Times as the tables keep them: RFC 3339 texts with a fraction of a      *)
(* second whose trailing zeros are dropped, compared as texts by the       *)
(* statements that ask whether a session, an invitation or a lease has run *)
(* out.  All of a time above the seconds is the same here.                 *)
(***************************************************************************)
EXTENDS Naturals, Sequences, FiniteSets

CONSTANTS Base,          \* digits are 0 to Base - 1
          Places         \* the digits of a fraction

ASSUME DigitsAssumption == Base \in Nat \ {0} /\ Places \in Nat

Digits == 0..(Base - 1)
Times  == [tens: Digits, ones: Digits, fraction: [1..Places -> Digits]]

SecondsOf(t) == Base * t.tens + t.ones

\* Characters by their order: the point before the digits, the Z after them.
Point == 0
Digit(d) == 1 + d
Zulu == 1 + Base

Significant(f) == {i \in 1..Places : \E j \in i..Places : f[j] # 0}
Fraction(f) ==
    IF Significant(f) = {} THEN <<>>
    ELSE <<Point>> \o [i \in 1..Cardinality(Significant(f)) |-> Digit(f[i])]

Unpadded(t) == IF t.tens = 0 THEN <<Digit(t.ones)>> ELSE <<Digit(t.tens), Digit(t.ones)>>
Padded(t) == <<Digit(t.tens), Digit(t.ones)>>

Text(t) == Padded(t) \o Fraction(t.fraction) \o <<Zulu>>

\* The order of texts; none of these is the beginning of another.
Before(s, t) ==
    \E i \in DOMAIN s \cap DOMAIN t :
        s[i] < t[i] /\ \A j \in 1..(i - 1) : s[j] = t[j]

\* The condition expires_at > now.
Lasts(now, expiry) == Before(Text(now), Text(expiry))

\* What runs out is refused within a second of its expiry, and not a second before: the
\* order of two texts can only be wrong within one second, where a time with fewer digits
\* comes after those that it begins.
TextOrder ==
    \A now, expiry \in Times :
        IF Lasts(now, expiry) THEN SecondsOf(now) <= SecondsOf(expiry)
        ELSE SecondsOf(now) >= SecondsOf(expiry)
=============================================================================
