------------------------------ MODULE AccessProofs ------------------------------
(***************************************************************************)
(* The team, its sessions and the order of their times, for any number of  *)
(* accounts, people, tokens, requests and applications, any digits and any *)
(* length of a fraction: the order of two texts is that of their seconds   *)
(* unless these are equal; a token and a request always stand for whoever  *)
(* holds the account they name; and what the requests of a team do         *)
(* together is what its operations do one by one, which never leaves it    *)
(* without an owner.                                                       *)
(***************************************************************************)
EXTENDS Access, FiniteSetTheorems, SequenceTheorems, TLAPS

-----------------------------------------------------------------------------
(* The team by itself.                                                     *)

TeamInv == TeamTypeOK /\ OwnerRemains

\* With more than one owner, one of them is somebody else.
LEMMA AnotherOwner ==
    ASSUME NEW c \in Clients, Cardinality(owners) > 1, owners # {}
    PROVE  \E d \in owners : d # c
<1> SUFFICES ASSUME \A d \in owners : d = c
             PROVE  FALSE
    OBVIOUS
<1>1. owners = {c}
    OBVIOUS
<1>2. Cardinality({c}) = 1
    BY FS_Singleton
<1> QED
    BY <1>1, <1>2, SMT

LEMMA TeamInitially == TeamInit => TeamInv
BY SMT DEF TeamInit, TeamInv, TeamTypeOK, OwnerRemains, owners, Roles

\* An account that keeps its role keeps the workspace an owner, if it is one.
LEMMA TeamStep == TeamInv /\ [TeamNext]_teamVars => TeamInv'
<1> SUFFICES ASSUME TeamInv, [TeamNext]_teamVars
             PROVE  TeamInv'
    OBVIOUS
<1> USE DEF TeamInv, TeamTypeOK, OwnerRemains, owners, members, Roles
<1>1. ASSUME NEW actor \in Clients, NEW c \in Clients, NEW role \in Roles,
             CreateInvitation(actor, c, role)
      PROVE  TeamInv'
    BY <1>1, SMT DEF CreateInvitation
<1>2. ASSUME NEW actor \in Clients, NEW c \in Clients, NEW role \in Roles,
             ChangeRole(actor, c, role)
      PROVE  TeamInv'
    <2>1. TeamTypeOK'
        BY <1>2, SMT DEF ChangeRole
    <2>2. CASE role = "owner"
        BY <1>2, <2>1, <2>2, SMT DEF ChangeRole
    <2>3. CASE role = "member" /\ roles[c] = "owner"
        <3>1. PICK d \in owners : d # c
            BY <1>2, <2>3, AnotherOwner DEF ChangeRole, OtherOwner
        <3> QED
            BY <1>2, <2>1, <3>1, SMT DEF ChangeRole
    <2>4. CASE role = "member" /\ roles[c] # "owner"
        BY <1>2, <2>1, <2>4, SMT DEF ChangeRole
    <2> QED
        BY <2>2, <2>3, <2>4
<1>3. ASSUME NEW actor \in Clients, NEW c \in Clients, RemoveMember(actor, c)
      PROVE  TeamInv'
    <2>1. TeamTypeOK'
        BY <1>3, SMT DEF RemoveMember
    <2>2. CASE roles[c] = "owner"
        <3>1. PICK d \in owners : d # c
            BY <1>3, <2>2, AnotherOwner DEF RemoveMember, OtherOwner
        <3> QED
            BY <1>3, <2>1, <3>1, SMT DEF RemoveMember
    <2>3. CASE roles[c] # "owner"
        BY <1>3, <2>1, <2>3, SMT DEF RemoveMember
    <2> QED
        BY <2>2, <2>3
<1>4. ASSUME NEW c \in Clients, Expire(c)
      PROVE  TeamInv'
    BY <1>4, SMT DEF Expire
<1>5. ASSUME NEW c \in Clients, AcceptInvitation(c)
      PROVE  TeamInv'
    BY <1>5, SMT DEF AcceptInvitation
<1>6. CASE UNCHANGED teamVars
    BY <1>6, SMT DEF teamVars
<1> QED
    BY <1>1, <1>2, <1>3, <1>4, <1>5, <1>6 DEF TeamNext

\* Whoever is removed or demoted, and in whatever order, the workspace keeps an owner
\* (ChangeRole and RemoveMember count the owners in the transaction that changes them).
THEOREM AlwaysOwned == TeamSpec => []OwnerRemains
<1>1. TeamInv => OwnerRemains
    BY DEF TeamInv
<1> QED
    BY TeamInitially, TeamStep, <1>1, PTL DEF TeamSpec

-----------------------------------------------------------------------------
(* Times as texts.                                                         *)

LEMMA SecondsAreNumbers == ASSUME NEW t \in Times PROVE SecondsOf(t) \in Nat
<1>1. t.tens \in Nat /\ t.ones \in Nat
    BY DigitsAssumption, SMT DEF Times, Digits
<1> QED
    BY <1>1, DigitsAssumption, SMT DEF SecondsOf

LEMMA Scaled ==
    ASSUME NEW b \in Nat, NEW x \in Nat, NEW y \in Nat, x < y
    PROVE  b * x + b <= b * y
BY SMT

LEMMA SignificantCounted ==
    ASSUME NEW f PROVE Cardinality(Significant(f)) \in Nat
<1>1. IsFiniteSet(1..Places)
    BY FS_Interval, DigitsAssumption, SMT
<1>2. IsFiniteSet(Significant(f))
    BY <1>1, FS_Subset DEF Significant
<1> QED
    BY <1>2, FS_CardinalityType

\* A text begins with the digits of its seconds.
LEMMA TextBegins ==
    ASSUME NEW t \in Times
    PROVE  /\ 1 \in DOMAIN Text(t) /\ Text(t)[1] = Digit(t.tens)
           /\ 2 \in DOMAIN Text(t) /\ Text(t)[2] = Digit(t.ones)
           /\ DOMAIN Text(t) \subseteq Nat \ {0}
<1> DEFINE f == t.fraction
           n == Cardinality(Significant(f))
           digits == [i \in 1..n |-> Digit(f[i])]
           Char == {Digit(f[i]) : i \in Nat} \cup {Digit(t.tens), Digit(t.ones), Point, Zulu}
<1>1. n \in Nat
    BY SignificantCounted
<1>2. digits \in Seq(Char)
    BY <1>1, SMT
<1>3. Fraction(f) \in Seq(Char)
    <2> HIDE DEF digits
    <2> SUFFICES (IF Significant(f) = {} THEN <<>> ELSE <<Point>> \o digits) \in Seq(Char)
        BY DEF Fraction, digits
    <2>1. <<Point>> \in Seq(Char)
        BY SMT
    <2> HIDE DEF Char
    <2>2. <<Point>> \o digits \in Seq(Char)
        BY <1>2, <2>1, ConcatProperties
    <2> HIDE DEF digits
    <2> QED
        BY <2>2, EmptySeq
<1>4. Padded(t) \in Seq(Char) /\ Len(Padded(t)) = 2
    BY SMT DEF Padded
<1>5. <<Zulu>> \in Seq(Char)
    BY SMT
<1> HIDE DEF Char, f
<1> DEFINE p == Padded(t)
           q == Fraction(f)
<1>6. p[1] = Digit(t.tens) /\ p[2] = Digit(t.ones)
    BY SMT DEF Padded
<1>7. Text(t) = (p \o q) \o <<Zulu>>
    BY DEF Text, f
<1> HIDE DEF p, q
<1>8. p \in Seq(Char) /\ Len(p) = 2 /\ q \in Seq(Char)
    BY <1>3, <1>4 DEF p, q
<1>9. /\ p \o q \in Seq(Char) /\ Len(p \o q) = 2 + Len(q) /\ Len(q) \in Nat
      /\ (p \o q)[1] = p[1] /\ (p \o q)[2] = p[2]
    <2>1. Len(q) \in Nat
        BY <1>8, LenProperties
    <2>2. /\ p \o q \in Seq(Char) /\ Len(p \o q) = Len(p) + Len(q)
          /\ \A i \in 1..(Len(p) + Len(q)) :
                 (p \o q)[i] = IF i <= Len(p) THEN p[i] ELSE q[i - Len(p)]
        BY <1>8, ConcatProperties
    <2> QED
        BY <1>8, <2>1, <2>2, SMT
<1>10. /\ Text(t) \in Seq(Char) /\ Len(Text(t)) = 3 + Len(q)
       /\ Text(t)[1] = p[1] /\ Text(t)[2] = p[2]
    <2> DEFINE r == p \o q
    <2> HIDE DEF r
    <2>1. r \in Seq(Char) /\ Len(r) = 2 + Len(q) /\ Len(q) \in Nat /\ Len(<<Zulu>>) = 1
        BY <1>9, SMT DEF r
    <2>2. Text(t) = r \o <<Zulu>>
        BY <1>7 DEF r
    <2> QED
        BY <1>5, <1>9, <2>1, <2>2, ConcatProperties, SMT DEF r
<1>11. DOMAIN Text(t) = 1..(3 + Len(q))
    BY <1>10, LenProperties
<1> QED
    BY <1>6, <1>9, <1>10, <1>11, SMT

\* An earlier second comes first: the tens decide, or the ones do.
LEMMA EarlierBefore ==
    ASSUME NEW s \in Times, NEW t \in Times, SecondsOf(s) < SecondsOf(t)
    PROVE  Lasts(s, t)
<1>1. /\ s.tens \in 0..(Base - 1) /\ s.ones \in 0..(Base - 1)
      /\ t.tens \in 0..(Base - 1) /\ t.ones \in 0..(Base - 1)
    BY SMT DEF Times, Digits
<1>2. s.tens < t.tens \/ (s.tens = t.tens /\ s.ones < t.ones)
    <2>1. CASE t.tens < s.tens
        BY <1>1, <2>1, Scaled, DigitsAssumption, SMT DEF SecondsOf
    <2> QED
        BY <1>1, <2>1, DigitsAssumption, SMT DEF SecondsOf
<1>3. CASE s.tens < t.tens
    BY <1>1, <1>3, TextBegins, SMT DEF Lasts, Before, Digit
<1>4. CASE s.tens = t.tens /\ s.ones < t.ones
    BY <1>1, <1>4, TextBegins, SMT DEF Lasts, Before, Digit
<1> QED
    BY <1>2, <1>3, <1>4

\* What comes first is no later than in the same second.
LEMMA BeforeNotLater ==
    ASSUME NEW s \in Times, NEW t \in Times, Lasts(s, t)
    PROVE  SecondsOf(s) <= SecondsOf(t)
<1>1. /\ s.tens \in 0..(Base - 1) /\ s.ones \in 0..(Base - 1)
      /\ t.tens \in 0..(Base - 1) /\ t.ones \in 0..(Base - 1)
    BY SMT DEF Times, Digits
<1>2. PICK i \in DOMAIN Text(s) \cap DOMAIN Text(t) :
          Text(s)[i] < Text(t)[i] /\ \A j \in 1..(i - 1) : Text(s)[j] = Text(t)[j]
    BY DEF Lasts, Before
<1>3. i \in Nat /\ i >= 1
    BY TextBegins, SMT
<1>4. s.tens < t.tens \/ (s.tens = t.tens /\ s.ones <= t.ones)
    <2>1. CASE i = 1
        BY <1>1, <1>2, <2>1, TextBegins, SMT DEF Digit
    <2>2. CASE i = 2
        BY <1>1, <1>2, <2>2, TextBegins, SMT DEF Digit
    <2>3. CASE i > 2
        <3>1. Text(s)[1] = Text(t)[1] /\ Text(s)[2] = Text(t)[2]
            BY <1>2, <1>3, <2>3, SMT
        <3> QED
            BY <1>1, <3>1, TextBegins, SMT DEF Digit
    <2> QED
        BY <1>3, <2>1, <2>2, <2>3, SMT
<1>5. CASE s.tens < t.tens
    BY <1>1, <1>5, Scaled, DigitsAssumption, SMT DEF SecondsOf
<1>6. CASE s.tens = t.tens /\ s.ones <= t.ones
    BY <1>1, <1>6, DigitsAssumption, SMT DEF SecondsOf
<1> QED
    BY <1>4, <1>5, <1>6

\* The order of two texts is wrong within one second at most, whatever the digits and
\* however long the fractions (formatTime, and the conditions on expires_at).
THEOREM TextsOrderSeconds == TextOrder
<1> SUFFICES ASSUME NEW now \in Times, NEW expiry \in Times
             PROVE  IF Lasts(now, expiry) THEN SecondsOf(now) <= SecondsOf(expiry)
                    ELSE SecondsOf(now) >= SecondsOf(expiry)
    BY DEF TextOrder
<1>1. Lasts(now, expiry) => SecondsOf(now) <= SecondsOf(expiry)
    BY BeforeNotLater
<1>2. ~Lasts(now, expiry) => ~(SecondsOf(now) < SecondsOf(expiry))
    BY EarlierBefore
<1> QED
    BY <1>1, <1>2, SecondsAreNumbers, SMT

LEMMA NeverOverdue == Overdue \subseteq {FALSE}
<1> SUFFICES ASSUME NEW overdue \in Overdue
             PROVE  overdue = FALSE
    OBVIOUS
<1>1. PICK q \in {q \in Times \X Times : Lasts(q[1], q[2])} :
          overdue = (SecondsOf(q[1]) > SecondsOf(q[2]))
    BY DEF Overdue
<1>2. q[1] \in Times /\ q[2] \in Times /\ Lasts(q[1], q[2])
    OBVIOUS
<1>3. ~(SecondsOf(q[1]) > SecondsOf(q[2]))
    BY <1>2, BeforeNotLater, SecondsAreNumbers, SMT
<1>4. (SecondsOf(q[1]) > SecondsOf(q[2])) = FALSE
    BY <1>3
<1> QED
    BY <1>1, <1>4

-----------------------------------------------------------------------------
(* Sessions.                                                               *)

\* A request that has an account has the one its person registered; one that is admitted
\* is neither late nor overdue; and a token is logged out by somebody who was told it.
Standing(q) ==
    /\ q.at \in {"insert", "issue", "act"} => q.person \in People /\ q.address \in Addresses
    /\ q.at \in {"issue", "act"} => holder[q.realm][q.address] = q.person
    /\ q.at = "act" => ~q.late /\ ~q.overdue
    /\ q.at = "delete" => q.token \in Tokens /\ knows[q.token] # None

\* A token nobody was given yet is unknown; a known one is for its person's account.
Told(t) ==
    /\ session[t].state = "unused" => session[t] = NoSession /\ knows[t] = None
    /\ knows[t] # None => /\ session[t].address \in Addresses
                          /\ holder[session[t].realm][session[t].address] = knows[t]

\* What was logged out is over, and so never live again: a token is only issued once.
Ended(t) == session[t].state = "over"

SessionInv ==
    /\ SessionTypeOK
    /\ \A r \in Requests : Standing(request[r])
    /\ \A t \in Tokens : Told(t)
    /\ \A t \in out : Ended(t)

AccessInv == SessionInv /\ TeamInv

-----------------------------------------------------------------------------
(* What one step leaves: an account is never given to somebody else, and   *)
(* only one request or one token is concerned.                             *)

AccountsKept == \A realm \in Realms, a \in Addresses :
                    holder[realm][a] # None => holder'[realm][a] = holder[realm][a]

LEMMA AccountsStay ==
    ASSUME SessionTypeOK, NEW p \in People, NEW realm \in Realms, NEW a \in Addresses,
           ~Taken(realm, a), Inserted(p, realm, a)
    PROVE  /\ holder' \in [Realms -> [Addresses -> People \cup {None}]]
           /\ holder'[realm][a] = p
           /\ AccountsKept
BY SMT DEF SessionTypeOK, Taken, Inserted, AccountsKept

LEMMA OneRequest ==
    ASSUME SessionInv, NEW r \in Requests, NEW q \in Request,
           request' = [request EXCEPT ![r] = q],
           Standing(q)', AccountsKept,
           \A t \in Tokens : knows[t] # None => knows'[t] # None
    PROVE  request' \in [Requests -> Request] /\ \A s \in Requests : Standing(request[s])'
<1> USE DEF SessionInv, SessionTypeOK
<1>1. request' \in [Requests -> Request]
    BY SMT
<1>2. ASSUME NEW s \in Requests, s # r
      PROVE  Standing(request[s])'
    <2>1. Standing(request[s]) /\ request'[s] = request[s] /\ request[s] \in Request
        BY <1>2, SMT
    <2>2. \A a \in Addresses : holder[request[s].realm][a] # None =>
                                   holder'[request[s].realm][a] = holder[request[s].realm][a]
        BY <2>1, SMT DEF AccountsKept, Request
    <2> QED
        BY <2>1, <2>2, NoneAssumption, SMT DEF Standing, Request
<1>3. Standing(request[r])'
    <2>1. request'[r] = q
        BY SMT
    <2> QED
        BY <2>1, Zenon DEF Standing
<1> QED
    BY <1>1, <1>2, <1>3

\* A request may also be given up, whatever became of its tables.
LEMMA IdleStands == Idle \in Request /\ Standing(Idle)'
BY SMT DEF Idle, Request, Standing, Realms

LEMMA TokensStay ==
    ASSUME SessionInv, AccountsKept, UNCHANGED <<session, knows, out>>
    PROVE  (\A t \in Tokens : Told(t)') /\ \A t \in out' : Ended(t)'
<1> USE DEF SessionInv, SessionTypeOK
<1>1. ASSUME NEW t \in Tokens
      PROVE  Told(t)'
    <2>1. Told(t) /\ session[t] \in Session /\ session'[t] = session[t] /\ knows'[t] = knows[t]
        BY SMT
    <2>2. \A a \in Addresses : holder[session[t].realm][a] # None =>
                                   holder'[session[t].realm][a] = holder[session[t].realm][a]
        BY <2>1, SMT DEF AccountsKept, Session
    <2> QED
        BY <2>1, <2>2, SMT DEF Told
<1>2. \A t \in out' : Ended(t)'
    BY SMT DEF Ended
<1> QED
    BY <1>1, <1>2

\* A request goes on with the account it names, or ends.
LEMMA GoesOn ==
    ASSUME SessionInv, AccountsKept, NEW r \in Requests, NEW at \in {"insert", "issue"},
           NEW p \in People, NEW realm \in Realms, NEW a \in Addresses,
           Goto(r, at, p, realm, a), at = "issue" => holder'[realm][a] = p, UNCHANGED knows
    PROVE  request' \in [Requests -> Request] /\ \A s \in Requests : Standing(request[s])'
<1>1. [at |-> at, person |-> p, realm |-> realm, address |-> a, token |-> None,
       late |-> None \in out, overdue |-> FALSE] \in Request
    BY SMT DEF Request
<1>2. PICK q \in Request :
          q = [at |-> at, person |-> p, realm |-> realm, address |-> a, token |-> None,
               late |-> None \in out, overdue |-> FALSE]
    BY <1>1
<1>3. request' = [request EXCEPT ![r] = q]
    BY <1>2 DEF Goto, Admit
<1>4. Standing(q)'
    BY <1>2, SMT DEF Standing
<1> QED
    BY <1>3, <1>4, OneRequest

LEMMA Ends ==
    ASSUME SessionInv, AccountsKept, NEW r \in Requests, Done(r),
           \A t \in Tokens : knows[t] # None => knows'[t] # None
    PROVE  request' \in [Requests -> Request] /\ \A s \in Requests : Standing(request[s])'
BY IdleStands, OneRequest DEF Done

LEMMA SameAccounts == ASSUME UNCHANGED holder PROVE AccountsKept
BY DEF AccountsKept

-----------------------------------------------------------------------------
(* The steps of the accounts.                                              *)

LEMMA StepRegister ==
    ASSUME SessionInv, NEW r \in Requests, NEW p \in People, NEW a \in Addresses,
           Register(r, p, a)
    PROVE  SessionInv'
<1>1. /\ ~Taken(Platform, a) /\ Inserted(p, Platform, a) /\ Goto(r, "issue", p, Platform, a)
      /\ UNCHANGED <<session, knows, out>> /\ Platform \in Realms
    BY DEF Register, Realms
<1>2. /\ holder' \in [Realms -> [Addresses -> People \cup {None}]]
      /\ holder'[Platform][a] = p /\ AccountsKept
    BY <1>1, AccountsStay DEF SessionInv
<1>3. request' \in [Requests -> Request] /\ \A s \in Requests : Standing(request[s])'
    BY <1>1, <1>2, GoesOn
<1> QED
    BY <1>1, <1>2, <1>3, TokensStay DEF SessionInv, SessionTypeOK

LEMMA StepLook ==
    ASSUME SessionInv, NEW r \in Requests, NEW p \in People, NEW app \in Apps,
           NEW a \in Addresses, Look(r, p, app, a)
    PROVE  SessionInv'
<1>1. Goto(r, "insert", p, app, a) /\ UNCHANGED <<holder, session, knows, out>> /\ app \in Realms
    BY DEF Look, Realms
<1>2. request' \in [Requests -> Request] /\ \A s \in Requests : Standing(request[s])'
    BY <1>1, SameAccounts, GoesOn
<1> QED
    BY <1>1, <1>2, SameAccounts, TokensStay DEF SessionInv, SessionTypeOK

LEMMA StepInsert ==
    ASSUME SessionInv, NEW r \in Requests, Insert(r)
    PROVE  SessionInv'
<1> DEFINE q == request[r]
<1>1. /\ q.person \in People /\ q.realm \in Realms /\ q.address \in Addresses
      /\ UNCHANGED <<session, knows, out>>
    <2>1. q \in Request /\ Standing(q) /\ q.at = "insert"
        BY DEF SessionInv, SessionTypeOK, Insert, At
    <2> QED
        BY <2>1 DEF Standing, Request, Insert
<1>2. CASE Taken(q.realm, q.address)
    <2>1. Done(r) /\ UNCHANGED holder
        BY <1>2 DEF Insert
    <2>2. request' \in [Requests -> Request] /\ \A s \in Requests : Standing(request[s])'
        BY <1>1, <2>1, SameAccounts, Ends
    <2> QED
        BY <1>1, <2>1, <2>2, SameAccounts, TokensStay DEF SessionInv, SessionTypeOK
<1>3. CASE ~Taken(q.realm, q.address)
    <2>1. Inserted(q.person, q.realm, q.address) /\ Goto(r, "issue", q.person, q.realm, q.address)
        BY <1>3 DEF Insert
    <2>2. /\ holder' \in [Realms -> [Addresses -> People \cup {None}]]
          /\ holder'[q.realm][q.address] = q.person /\ AccountsKept
        BY <1>1, <1>3, <2>1, AccountsStay DEF SessionInv
    <2>3. request' \in [Requests -> Request] /\ \A s \in Requests : Standing(request[s])'
        BY <1>1, <2>1, <2>2, GoesOn
    <2> QED
        BY <1>1, <2>2, <2>3, TokensStay DEF SessionInv, SessionTypeOK
<1> QED
    BY <1>2, <1>3

LEMMA StepLogin ==
    ASSUME SessionInv, NEW r \in Requests, NEW p \in People, NEW realm \in Realms,
           NEW a \in Addresses, Login(r, p, realm, a)
    PROVE  SessionInv'
<1>1. /\ Goto(r, "issue", p, realm, a) /\ UNCHANGED <<holder, session, knows, out>>
      /\ holder'[realm][a] = p
    BY DEF Login
<1>2. request' \in [Requests -> Request] /\ \A s \in Requests : Standing(request[s])'
    BY <1>1, SameAccounts, GoesOn
<1> QED
    BY <1>1, <1>2, SameAccounts, TokensStay DEF SessionInv, SessionTypeOK

-----------------------------------------------------------------------------
(* The steps of the sessions.                                              *)

LEMMA StepIssue ==
    ASSUME SessionInv, NEW r \in Requests, Issue(r)
    PROVE  SessionInv'
<1> DEFINE q == request[r]
<1> USE DEF SessionInv, SessionTypeOK
<1>1. PICK t \in Tokens :
          /\ session[t] = NoSession
          /\ session' = [session EXCEPT ![t] = [state |-> "live", realm |-> q.realm,
                                                 address |-> q.address]]
          /\ knows' \in {knows, [knows EXCEPT ![t] = q.person]}
    BY DEF Issue
<1>2. Done(r) /\ UNCHANGED <<holder, out>>
    BY DEF Issue
<1>3. /\ q.person \in People /\ q.realm \in Realms /\ q.address \in Addresses
      /\ holder[q.realm][q.address] = q.person
    <2>1. q \in Request /\ Standing(q) /\ q.at = "issue"
        BY DEF Issue, At
    <2> QED
        BY <2>1 DEF Standing, Request
<1>4. knows[t] = None /\ t \notin out
    <2>1. session[t].state = "unused"
        BY <1>1 DEF NoSession
    <2> QED
        BY <2>1 DEF Told, Ended
<1> HIDE DEF q
<1>5. session' \in [Tokens -> Session] /\ knows' \in [Tokens -> People \cup {None}]
    BY <1>1, <1>3, SMT DEF Session
<1>6. \A u \in Tokens : knows[u] # None => knows'[u] # None
    BY <1>1, <1>4, SMT
<1>7. request' \in [Requests -> Request] /\ \A s \in Requests : Standing(request[s])'
    BY <1>2, <1>6, SameAccounts, Ends
<1>8. ASSUME NEW u \in Tokens
      PROVE  Told(u)'
    <2>1. CASE u = t
        <3>1. /\ session'[u].state = "live" /\ session'[u].realm = q.realm
              /\ session'[u].address = q.address /\ knows'[u] \in {None, q.person}
            BY <1>1, <1>4, <2>1, SMT
        <3> QED
            BY <1>2, <1>3, <3>1, SMT DEF Told
    <2>2. CASE u # t
        <3>1. session'[u] = session[u] /\ knows'[u] = knows[u] /\ Told(u)
            BY <1>1, <2>2, SMT
        <3> QED
            BY <1>2, <3>1, SMT DEF Told
    <2> QED
        BY <2>1, <2>2
<1>9. \A u \in out' : Ended(u)'
    BY <1>1, <1>2, <1>4, SMT DEF Ended
<1> QED
    BY <1>2, <1>5, <1>7, <1>8, <1>9

\* Only who was told a token can have it resolved, and then only while it is live.
LEMMA StepResolve ==
    ASSUME SessionInv, NEW r \in Requests, NEW p \in People, NEW realm \in Realms,
           NEW t \in Tokens, Resolve(r, p, realm, t)
    PROVE  SessionInv'
<1>1. /\ knows[t] = p /\ session[t].state = "live" /\ session[t].realm = realm
      /\ UNCHANGED <<holder, session, knows, out>>
    BY DEF Resolve, Admits
<1>2. PICK overdue \in Overdue, at \in {"act", "delete"} :
          Admit(r, at, p, realm, session[t].address, t, overdue)
    BY DEF Resolve
<1>3. PICK a \in Addresses : a = session[t].address /\ holder[realm][a] = p
    BY <1>1, NoneAssumption DEF SessionInv, Told
<1>4. t \notin out /\ overdue = FALSE
    BY <1>1, <1>2, NeverOverdue DEF SessionInv, Ended
<1>5. [at |-> at, person |-> p, realm |-> realm, address |-> a,
       token |-> t, late |-> FALSE, overdue |-> FALSE] \in Request
    BY SMT DEF Request
<1>6. PICK q \in Request :
          q = [at |-> at, person |-> p, realm |-> realm, address |-> a,
               token |-> t, late |-> FALSE, overdue |-> FALSE]
    BY <1>5
<1>7. request' = [request EXCEPT ![r] = q]
    <2>1. (t \in out) = FALSE
        BY <1>4
    <2> QED
        BY <1>2, <1>3, <1>4, <1>6, <2>1, Zenon DEF Admit
<1>8. Standing(q)'
    <2>1. /\ q.person = p /\ q.realm = realm /\ q.token = t /\ ~q.late /\ ~q.overdue
          /\ q.address = a /\ q.at \in {"act", "delete"}
        BY <1>2, <1>4, <1>6, SMT
    <2>2. holder' = holder /\ knows' = knows /\ knows[t] # None
        BY <1>1, NoneAssumption
    <2> QED
        BY <1>3, <2>1, <2>2, SMT DEF Standing
<1>9. request' \in [Requests -> Request] /\ \A s \in Requests : Standing(request[s])'
    BY <1>1, <1>7, <1>8, SameAccounts, OneRequest
<1> QED
    BY <1>1, <1>9, SameAccounts, TokensStay DEF SessionInv, SessionTypeOK

\* A token that is logged out was in use, so its row is never issued again.
LEMMA TokenDeleted ==
    ASSUME SessionInv, NEW t \in Tokens, NEW realm \in Realms, knows[t] # None,
           Deleted(realm, t), UNCHANGED <<holder, knows>>
    PROVE  /\ session' \in [Tokens -> Session] /\ out' \subseteq Tokens
           /\ (\A u \in Tokens : Told(u)') /\ \A u \in out' : Ended(u)'
<1> USE DEF SessionInv, SessionTypeOK
<1>1. CASE session[t].realm = realm
    <2>1. session' = [session EXCEPT ![t].state = "over"] /\ out' \subseteq out \cup {t}
        BY <1>1 DEF Deleted, Deletes
    <2>2. \A u \in Tokens : u # t => session'[u] = session[u]
        BY <2>1, SMT
    <2> DEFINE row == session[t]
    <2>3. row \in Session /\ session'[t] = [row EXCEPT !.state = "over"]
        <3>1. session \in [Tokens -> Session]
            BY Zenon
        <3> HIDE DEF SessionInv, SessionTypeOK
        <3> QED
            BY <2>1, <3>1, SMT
    <2> HIDE DEF row
    <2>4. /\ session'[t].state = "over" /\ session'[t].realm = row.realm
          /\ session'[t].address = row.address /\ session'[t] \in Session
        <3> HIDE DEF SessionInv, SessionTypeOK
        <3>1. /\ row.realm \in Realms /\ row.address \in Addresses \cup {None}
              /\ row = [state |-> row.state, realm |-> row.realm, address |-> row.address]
            BY <2>3, SMT DEF Session
        <3>2. session'[t] = [state |-> "over", realm |-> row.realm, address |-> row.address]
            BY <2>3, <3>1, SMT
        <3> QED
            BY <3>1, <3>2, SMT DEF Session
    <2>5. /\ session'[t].state = "over" /\ session'[t].realm = session[t].realm
          /\ session'[t].address = session[t].address /\ session'[t] \in Session
        BY <2>4 DEF row
    <2>6. session' \in [Tokens -> Session]
        BY <2>1, <2>2, <2>5, SMT
    <2>7. Told(t)'
        BY <2>5, SMT DEF Told
    <2>8. \A u \in Tokens : u # t => Told(u)'
        BY <2>2, SMT DEF Told
    <2>9. \A u \in out' : Ended(u)'
        BY <2>1, <2>2, <2>5, SMT DEF Ended
    <2> QED
        BY <2>1, <2>6, <2>7, <2>8, <2>9
<1>2. CASE session[t].realm # realm
    <2>1. UNCHANGED <<session, out>>
        BY <1>2 DEF Deleted, Deletes
    <2> QED
        BY <2>1, SameAccounts, TokensStay
<1> QED
    BY <1>1, <1>2

LEMMA StepLogout ==
    ASSUME SessionInv, NEW r \in Requests, Logout(r)
    PROVE  SessionInv'
<1>1. request[r].token \in Tokens /\ knows[request[r].token] # None
    BY DEF Logout, At, SessionInv, Standing
<1>2. Deleted(Platform, request[r].token) /\ Done(r) /\ UNCHANGED <<holder, knows>>
    BY DEF Logout
<1>3. request' \in [Requests -> Request] /\ \A s \in Requests : Standing(request[s])'
    BY <1>2, SameAccounts, Ends
<1>4. Platform \in Realms
    BY DEF Realms
<1> QED
    BY <1>1, <1>2, <1>3, <1>4, TokenDeleted DEF SessionInv, SessionTypeOK

LEMMA StepAppLogout ==
    ASSUME SessionInv, NEW t \in Tokens, NEW app \in Apps, AppLogout(app, t)
    PROVE  SessionInv'
<1>1. knows[t] # None /\ Deleted(app, t) /\ UNCHANGED <<holder, knows, request>> /\ app \in Realms
    BY DEF AppLogout, Realms
<1>2. \A s \in Requests : Standing(request[s])'
    BY <1>1, SMT DEF SessionInv, Standing
<1> QED
    BY <1>1, <1>2, TokenDeleted DEF SessionInv, SessionTypeOK

LEMMA StepEnds ==
    ASSUME SessionInv, NEW r \in Requests, Lose(r) \/ Act(r)
    PROVE  SessionInv'
<1>1. Done(r) /\ UNCHANGED <<holder, session, knows, out>>
    BY DEF Lose, Act
<1>2. request' \in [Requests -> Request] /\ \A s \in Requests : Standing(request[s])'
    BY <1>1, SameAccounts, Ends
<1> QED
    BY <1>1, <1>2, SameAccounts, TokensStay DEF SessionInv, SessionTypeOK

-----------------------------------------------------------------------------
(* What holds of every behaviour.                                          *)

LEMMA SessionsInitially == Init => AccessInv
<1> SUFFICES ASSUME Init PROVE SessionInv /\ TeamInv
    BY DEF AccessInv
<1>1. PICK p \in People :
          SessionInit([realm \in Realms |-> [a \in Addresses |->
                          IF realm = Platform /\ a \in owners THEN p ELSE None]])
    BY DEF Init
<1>2. SessionTypeOK
    BY <1>1, IdleStands, SMT DEF SessionInit, SessionTypeOK, NoSession, Session, Realms
<1>3. \A r \in Requests : Standing(request[r])
    BY <1>1, SMT DEF SessionInit, Standing, Idle
<1>4. (\A t \in Tokens : Told(t)) /\ \A t \in out : Ended(t)
    BY <1>1, SMT DEF SessionInit, Told
<1>5. TeamInv
    BY TeamInitially DEF Init
<1> QED
    BY <1>2, <1>3, <1>4, <1>5 DEF SessionInv

LEMMA SessionStep == SessionInv /\ (SessionNext \/ \E r \in Requests : Act(r)) => SessionInv'
<1> SUFFICES ASSUME SessionInv, SessionNext \/ \E r \in Requests : Act(r)
             PROVE  SessionInv'
    OBVIOUS
<1>1. ASSUME NEW r \in Requests, Arrives(r)
      PROVE  SessionInv'
    <2>1. PICK p \in People :
              \/ \E a \in Addresses : \/ Register(r, p, a)
                                    \/ \E app \in Apps : Look(r, p, app, a)
                                    \/ \E realm \in Realms : Login(r, p, realm, a)
              \/ \E realm \in Realms, t \in Tokens : Resolve(r, p, realm, t)
        BY <1>1 DEF Arrives
    <2> QED
        BY <2>1, StepRegister, StepLook, StepLogin, StepResolve
<1>2. ASSUME NEW r \in Requests, Continues(r)
      PROVE  SessionInv'
    BY <1>2, StepInsert, StepIssue, StepLogout, StepEnds DEF Continues
<1>3. ASSUME NEW r \in Requests, Act(r)
      PROVE  SessionInv'
    BY <1>3, StepEnds
<1>4. ASSUME NEW t \in Tokens, NEW app \in Apps, AppLogout(app, t)
      PROVE  SessionInv'
    BY <1>4, StepAppLogout
<1> QED
    BY <1>1, <1>2, <1>3, <1>4 DEF SessionNext

\* Only a request that acts as one of the accounts changes the team.
LEMMA StepOfTheTeam == SessionInv /\ [Next]_vars => [TeamNext]_teamVars
<1> SUFFICES ASSUME SessionInv, [Next]_vars
             PROVE  [TeamNext]_teamVars
    OBVIOUS
<1>1. ASSUME NEW r \in Requests, Perform(r)
      PROVE  [TeamNext]_teamVars
    <2>1. request[r].address \in Clients
        BY <1>1, AddressAssumption DEF Perform, Act, At, SessionInv, Standing
    <2>2. CASE TeamAct(r)
        <3> DEFINE actor == request[r].address
        <3>1. CASE AcceptInvitation(actor)
            BY <2>1, <3>1 DEF TeamNext
        <3>2. CASE \E c \in Clients : RemoveMember(actor, c)
            BY <2>1, <3>2 DEF TeamNext
        <3>3. CASE \E c \in Clients, role \in Roles :
                       CreateInvitation(actor, c, role) \/ ChangeRole(actor, c, role)
            BY <2>1, <3>3 DEF TeamNext
        <3> QED
            BY <2>2, <3>1, <3>2, <3>3 DEF TeamAct
    <2> QED
        BY <1>1, <2>2 DEF Perform
<1>2. CASE RunsOut
    BY <1>2 DEF RunsOut, TeamNext
<1>3. CASE (SessionNext /\ UNCHANGED teamVars) \/ UNCHANGED vars
    BY <1>3 DEF vars
<1> QED
    BY <1>1, <1>2, <1>3 DEF Next

LEMMA AccessStep == AccessInv /\ [Next]_vars => AccessInv'
<1> SUFFICES ASSUME SessionInv, TeamInv, [Next]_vars
             PROVE  SessionInv' /\ TeamInv'
    BY DEF AccessInv
<1>1. TeamInv'
    BY StepOfTheTeam, TeamStep
<1>2. CASE SessionNext \/ \E r \in Requests : Perform(r)
    <2>1. SessionNext \/ \E r \in Requests : Act(r)
        BY <1>2 DEF Perform
    <2> QED
        BY <1>1, <2>1, SessionStep
<1>3. CASE RunsOut \/ UNCHANGED vars
    <2>1. UNCHANGED sessionVars
        BY <1>3 DEF RunsOut, vars
    <2>2. (\A t \in Tokens : Told(t)') /\ \A t \in out' : Ended(t)'
        BY <2>1, SameAccounts, TokensStay DEF sessionVars
    <2>3. SessionTypeOK'
        BY <2>1, SMT DEF sessionVars, SessionInv, SessionTypeOK
    <2>4. \A r \in Requests : Standing(request[r])'
        BY <2>1, SMT DEF sessionVars, SessionInv, Standing
    <2> QED
        BY <1>1, <2>2, <2>3, <2>4 DEF SessionInv
<1> QED
    BY <1>2, <1>3 DEF Next

\* Accounts, sessions, requests and the team keep their shape.
THEOREM AccessTypeCorrect == Spec => []TypeOK
<1>1. AccessInv => TypeOK
    BY DEF AccessInv, SessionInv, TeamInv, TypeOK
<1> QED
    BY SessionsInitially, AccessStep, <1>1, PTL DEF Spec

\* Whoever acts as an address registered it, however requests of the same address meet
\* and wherever one is lost between its account and its session (Register, Authenticate).
THEOREM PeopleActForThemselves == Spec => []ActsForItself
<1>1. AccessInv => ActsForItself
    BY DEF AccessInv, SessionInv, ActsForItself, Standing, At
<1> QED
    BY SessionsInitially, AccessStep, <1>1, PTL DEF Spec

\* A request that was sent after its log-out was answered, or after the second its session
\* ended in, is not admitted, whatever the digits of the two times (Authenticate).
THEOREM LogoutsHold == Spec => []LoggedOutStaysOut
<1>1. AccessInv => LoggedOutStaysOut
    BY DEF AccessInv, SessionInv, LoggedOutStaysOut, Standing, At
<1> QED
    BY SessionsInitially, AccessStep, <1>1, PTL DEF Spec

\* What requests do to a team, each behind a token that was resolved earlier, is what
\* its operations do one at a time.
THEOREM TeamBehindSessions == Spec => TeamSpec
<1>1. Init => TeamInit
    BY DEF Init
<1> QED
    BY <1>1, SessionsInitially, AccessStep, StepOfTheTeam, PTL DEF Spec, TeamSpec, AccessInv

\* So it keeps an owner, whose request was admitted before another took their role away.
THEOREM AlwaysOwnedBehindSessions == Spec => []OwnerRemains
BY TeamBehindSessions, AlwaysOwned
=============================================================================
