----------------------------- MODULE MCAppRuntime -----------------------------
(* Small instances of AppRuntime. *)
EXTENDS AppRuntime, TLC

CONSTANTS tasks, title, note, short, long, many

\* Two texts and a number.
MCTypeOf == short :> "text" @@ long :> "text" @@ many :> "number"

Tasks(access, fields) ==
    [auth |-> IF access = "owner" THEN "email_password" ELSE "none",
     collections |-> tasks :> [access |-> access, fields |-> fields]]

Of(type, required) == [type |-> type, required |-> required]

\* One schema, and what a builder may want next: an optional field, a required one,
\* another type, another access, and no collection at all.
MCBackends ==
    { Tasks("owner", title :> Of("text", TRUE)),
      Tasks("owner", title :> Of("text", TRUE) @@ note :> Of("text", FALSE)),
      Tasks("owner", title :> Of("text", TRUE) @@ note :> Of("text", TRUE)),
      Tasks("owner", title :> Of("number", TRUE)),
      Tasks("public", title :> Of("text", TRUE)),
      [auth |-> "none", collections |-> [n \in {} |-> {}]] }

\* One schema with two fields of text.
MCTwoFields == { Tasks("owner", title :> Of("text", TRUE) @@ note :> Of("text", FALSE)) }

\* Nothing tells two requests or two users apart.
Interchangeable == Permutations(Requests) \cup Permutations(Users)
=============================================================================
