------------------------- MODULE MCCandidateCommit --------------------------
(* Small instances of CandidateCommit. *)
EXTENDS CandidateCommit, TLC

CONSTANTS s1, s2

\* The first policy accepts everything, the second refuses s2.
MCAccepted == {<<1, s1>>, <<1, s2>>, <<2, s1>>}

\* One policy that accepts everything.
MCAcceptAll == (1..MaxPolicy) \X Snapshots

\* Nothing tells them apart, as long as every snapshot is accepted.
Interchangeable == Permutations(Candidates) \cup Permutations(Requests)
              \cup Permutations(Snapshots)
============================================================================
