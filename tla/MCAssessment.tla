---------------------------- MODULE MCAssessment ----------------------------
(* Finite instances of AssessmentSystem: what the configurations substitute. *)
EXTENDS AssessmentSystem, TLC

Symmetric == Permutations(Executors) \union Permutations(Reviewers)

\* Two of the four kinds: one that bears a Boolean and the one that bears an instant.
MCOrder == <<"archived", "commit">>
MCKinds == {"archived", "commit"}
MCIds == Assessments \X Kinds
MCWorkflowIds == [a \in Assessments |-> [k \in Kinds |-> <<a, k>>]]

\* "late" reports a commit at instant 2; "bad" is a fact the policy does not pass.
MCSourceTime == [v \in Values |-> IF v = "late" THEN 2 ELSE 0]
MCPasses(kind, context, collection, t) ==
  collection.outcome = "available" /\ collection.value # "bad"

MCRequest(c) == [repository |-> "repo", reviewer |-> "lead", context |-> c]
MCInput(a, c, t) == [assessment |-> a, request |-> MCRequest(c), attemptedAt |-> t]
MCResponse(o, v) == [outcome |-> o, value |-> v]

\* Concurrent executions of one assessment that differ in request and in time.
MCInputs ==
  {MCInput("a", "c1", 1), MCInput("a", "c1", 2), MCInput("a", "c2", 1),
   [assessment |-> "a", request |-> InvalidRequest, attemptedAt |-> 1]}
MCResponses ==
  {MCResponse("available", "good"), MCResponse("available", "late"),
   MCResponse("unavailable", "good"), MCResponse("failed_retryable", "good")}

MCSubmission(m, d, w, c, i, k) ==
  [maker |-> m, disposition |-> d, rationale |-> w, conditions |-> c,
   informationRequests |-> i, acknowledged |-> k]

\* Concurrent decisions: two rationales of one approval, an approval that acknowledges a
\* nonpassing finding, and a rejection by the wrong actor.
MCSubmissions ==
  {MCSubmission("lead", "approve", "why", FALSE, FALSE, {}),
   MCSubmission("lead", "approve", "since", FALSE, FALSE, {}),
   MCSubmission("lead", "approve_with_conditions", "why", TRUE, FALSE, {"commit"}),
   MCSubmission("other", "reject", "why", FALSE, FALSE, {})}

MCOneInput == {MCInput("a", "c1", 1)}
MCOneResponse == {MCResponse("available", "good")}
MCDecideResponses == {MCResponse("available", "good"), MCResponse("unavailable", "good")}

\* Direct persister calls: a second attempt, a reused number under another identifier, an
\* identifier reused by another assessment, and another repository.
MCCollection(i, a, k, n, p) ==
  [id |-> i, assessment |-> a, kind |-> k, number |-> n, repository |-> p,
   attemptedAt |-> 1, outcome |-> "available", value |-> "good"]
MCLibraryCollections ==
  {MCCollection(<<"caller", "x">>, "a", "archived", 2, "repo"),
   MCCollection(<<"caller", "y">>, "a", "archived", 1, "repo"),
   MCCollection(<<"caller", "x">>, "b", "archived", 2, "repo"),
   MCCollection(<<"caller", "z">>, "a", "commit", 2, "fork")}
MCLibraryIds == MCIds \union ({"caller"} \X {"x", "y", "z"})
MCLibraryResponses ==
  {MCResponse("available", "good"), MCResponse("unavailable", "good"),
   MCResponse("failed_retryable", "good")}
MCTwoAssessments == {MCInput("a", "c1", 1), MCInput("b", "c1", 1)}
=============================================================================
