---------------------------- MODULE MCMigration ----------------------------
(* Finite instances of SchemaMigration. *)
EXTENDS SchemaMigration

\* Facts of the oldest and of two younger kinds, and a younger kind without a value.
MCRows ==
  {[kind |-> 1, available |-> TRUE, valued |-> TRUE],
   [kind |-> 2, available |-> TRUE, valued |-> TRUE],
   [kind |-> 2, available |-> FALSE, valued |-> FALSE],
   [kind |-> 4, available |-> TRUE, valued |-> TRUE]}
MCOneRow == {[kind |-> 1, available |-> TRUE, valued |-> TRUE]}
=============================================================================
