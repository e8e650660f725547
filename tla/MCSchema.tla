------------------------------ MODULE MCSchema ------------------------------
(* SchemaAdoption for TLC. *)
EXTENDS SchemaAdoption
=============================================================================
