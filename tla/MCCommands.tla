----------------------------- MODULE MCCommands -----------------------------
(* A finite instance of CommandLine. *)
EXTENDS CommandLine, MCAssessment

\* An assessment and a request that is rejected, each to be drawn once.
MCCommandInputs ==
  {MCInput("a", "c1", 1),
   [assessment |-> "b", request |-> InvalidRequest, attemptedAt |-> 1]}
MCCommandResponses == {MCResponse("available", "late"), MCResponse("failed_retryable", "late")}

\* Assessments of one repository, so that their rows differ in nothing but the identifier.
MCBothAssessments == {MCInput(a, "c1", 1) : a \in Assessments}

MCAllInputs == MCCommandInputs \union MCBothAssessments

\* A reviewer who cannot make up their mind.
MCDisputed ==
  {MCSubmission("lead", "approve", "why", FALSE, FALSE, {}),
   MCSubmission("lead", "reject", "why", FALSE, FALSE, {})}

-----------------------------------------------------------------------------
(* Every behaviour is one of two pairs of terminals.  What a terminal meets is a row, or   *)
(* another terminal between two steps, and a pair has both.                                *)

AssessBesideDecide ==
  [terminals |-> {CHOOSE e \in Executors : TRUE} \union Reviewers, inputs |-> MCCommandInputs]
AssessBesideAssess == [terminals |-> Executors, inputs |-> MCBothAssessments]

VARIABLE pair

PairInit == CommandInit /\ pair \in {AssessBesideDecide, AssessBesideAssess}

\* Only terminals of the pair start commands, so what has started is never held up.
PairNext ==
  /\ CommandNext
  /\ \A p \in Terminals : command'[p] # "none" => p \in pair.terminals
  /\ \A e \in Executors : command'[e] = "assess" => input'[e] \in pair.inputs
  /\ UNCHANGED pair

PairSpec ==
  /\ PairInit
  /\ [][PairNext]_<<commandVars, pair>>
  /\ CommandFairness
=============================================================================
