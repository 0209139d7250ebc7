-------------------------- MODULE MCProjectDocument --------------------------
(* Small instances of ProjectDocument. *)
EXTENDS ProjectDocument

\* Nothing tells two clients apart.
Interchangeable == Permutations(Clients)
=============================================================================
