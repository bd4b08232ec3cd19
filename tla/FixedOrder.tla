----------------------------- MODULE FixedOrder -----------------------------
(***************************************************************************)
(* A list that one pass over a fixed order builds.  It is SelectSeq of the *)
(* standard module Sequences with a set for the test, written as a         *)
(* recursive function so that proofs can say what it contains.             *)
(***************************************************************************)
EXTENDS Integers, Sequences

\* The members of S in the given order.
InOrder(order, S) ==
  LET chosen[n \in 0..Len(order)] ==
        IF n = 0 THEN <<>>
        ELSE IF order[n] \in S THEN Append(chosen[n - 1], order[n])
        ELSE chosen[n - 1]
  IN chosen[Len(order)]
=============================================================================
