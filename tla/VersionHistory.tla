--------------------------- MODULE VersionHistory ---------------------------
(***************************************************************************)
(* What the commit path promises to the users of one project: a history of *)
(* immutable versions that grows only at its end, each version built on    *)
(* the one before it; a candidate that was turned down never appears in    *)
(* it; and a commit that was acknowledged to a client names a position the *)
(* history really has.                                                     *)
(***************************************************************************)
EXTENDS Naturals, Sequences

CONSTANT Candidates      \* the stored results of agent runs

VARIABLES history,       \* the versions, oldest first: [candidate, parent]
          discarded,     \* the candidates turned down for good
          acked          \* [candidate, parent] of every acknowledged commit

historyVars == <<history, discarded, acked>>

Entry == [candidate: Candidates, parent: Nat]

HistoryTypeOK == /\ history \in Seq(Entry)
                 /\ discarded \subseteq Candidates
                 /\ acked \subseteq Entry

Published == {history[i].candidate : i \in 1..Len(history)}

HistoryInit == history = <<>> /\ discarded = {} /\ acked = {}

\* A candidate becomes the newest version, and its client may be told at once.
Publish(c) ==
    LET entry == [candidate |-> c, parent |-> Len(history)]
    IN  /\ c \notin Published \cup discarded
        /\ history' = Append(history, entry)
        /\ acked' \in {acked, acked \cup {entry}}
        /\ UNCHANGED discarded

\* Candidates are superseded, or lose against a newer version.
Discard(C) ==
    /\ C \cap Published = {}
    /\ discarded' = discarded \cup C
    /\ UNCHANGED <<history, acked>>

\* A client repeats a commit whose version exists, and is told about that one.
Acknowledge(i) ==
    /\ acked' = acked \cup {history[i]}
    /\ UNCHANGED <<history, discarded>>

HistoryNext ==
    \/ \E c \in Candidates : Publish(c)
    \/ \E C \in SUBSET Candidates : Discard(C)
    \/ \E i \in 1..Len(history) : Acknowledge(i)

HistorySpec == HistoryInit /\ [][HistoryNext]_historyVars
=============================================================================
