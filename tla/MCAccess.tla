------------------------------- MODULE MCAccess -------------------------------
(* A small instance of Access. *)
EXTENDS Access, TLC

\* Addresses, people, tokens and requests are alike.
Alike == Permutations(Addresses) \cup Permutations(People) \cup Permutations(Tokens)
         \cup Permutations(Requests)
=============================================================================
