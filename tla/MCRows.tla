------------------------------- MODULE MCRows -------------------------------
(* A finite instance of CollectionRows. *)
EXTENDS CollectionRows, MCCollection, TLC

\* Two bodies that bind the same object and differ, one that binds none, one that is no text.
MCBodies ==
  {[text |-> TRUE, bound |-> TRUE, object |-> "one", fact |-> "false"],
   [text |-> TRUE, bound |-> TRUE, object |-> "one", fact |-> "true"],
   [text |-> TRUE, bound |-> FALSE, object |-> "one", fact |-> "true"],
   [text |-> FALSE, bound |-> FALSE, object |-> "one", fact |-> "true"]}

TimeSymmetry == Permutations(AttemptTimes)
=============================================================================
