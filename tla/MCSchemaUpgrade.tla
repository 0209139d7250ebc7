--------------------------- MODULE MCSchemaUpgrade ---------------------------
(* A small instance of SchemaUpgrade. *)
EXTENDS SchemaUpgrade
=============================================================================
