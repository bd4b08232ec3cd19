------------------------ MODULE AssessmentExecution ------------------------
(***************************************************************************)
(* execute_assessment of workflow.py: any number of executors, each a      *)
(* process that validates one input, stores the request, collects and      *)
(* stores the evidence kinds in their fixed order, and then evaluates once *)
(* or replays the stored evaluation.  Executors share only the database.   *)
(***************************************************************************)
EXTENDS AssessmentDatabase, Sequences

CONSTANTS
  Executors,
  CollectionOrder,     \* the kinds in canonical evaluator order
  WorkflowAttemptId,   \* the derived identifier of attempt 1, by assessment and kind
  Responses,           \* terminal outcomes a collector can reach
  ExecutionInputs,     \* what callers submit
  InvalidRequest,      \* a request the validation rejects
  NoValue              \* a local that is not set

ASSUME OrderCoversKinds ==
  /\ CollectionOrder \in Seq(Kinds)
  /\ \A k \in Kinds : \E i \in 1..Len(CollectionOrder) : CollectionOrder[i] = k
  /\ \A i, j \in 1..Len(CollectionOrder) :
       CollectionOrder[i] = CollectionOrder[j] => i = j
  /\ Len(CollectionOrder) >= 1

ASSUME AttemptIdsAreDigests ==
  /\ WorkflowAttemptId \in [Assessments -> [Kinds -> AttemptIds]]
  /\ \A a, b \in Assessments : \A k, l \in Kinds :
       WorkflowAttemptId[a][k] = WorkflowAttemptId[b][l] => a = b /\ k = l

ASSUME InputsAreTyped ==
  /\ Responses \subseteq [outcome : Outcomes, value : Values]
  /\ ExecutionInputs \subseteq
       [assessment : Assessments, request : Request \union {InvalidRequest},
        attemptedAt : Times]
  /\ InvalidRequest \notin Request

ASSUME NoValueIsNoValue ==
  NoValue \notin Collection \union Evaluation \union ExecutionInputs

VARIABLES
  pc,         \* where an executor is
  input,      \* the AssessmentExecutionInput it runs
  step,       \* index of the collection step
  collected,  \* the collector's result in hand
  proposed,   \* the evaluation in hand
  replaying,  \* did the last write find its row already there
  verdict     \* how the last execution ended

executorState == <<pc, input, step, collected, proposed, replaying, verdict>>

Labels ==
  {"idle",               \* Begin
   "persist_request",    \* PersistRequest
   "verify_request",     \* VerifyRequest
   "collect",            \* Collect
   "persist_collection", \* PersistCollection
   "verify_collection",  \* VerifyCollection, back to collect or on to load
   "load_snapshot",      \* LoadSnapshot
   "evaluate",           \* EvaluateFirst: no stored evaluation was found
   "persist_snapshot",   \* PersistSnapshot
   "verify_snapshot",    \* VerifySnapshot
   "reevaluate"}         \* EvaluateAgain: a stored evaluation was found

Errors ==
  {"conflicting_replay", "verification_failed", "invalid_input", "request_not_found",
   "evidence_set_ambiguous", "evidence_set_incomplete", "evaluation_not_found",
   "evaluation_error",
   "schema_incompatible", "storage_error", "crashed"}

Verdicts == {"none", "invalid_request", "collection_failed", "complete"} \union Errors

Steps == 1..Len(CollectionOrder)

ExecutorTypeOK ==
  /\ pc \in [Executors -> Labels]
  /\ input \in [Executors -> ExecutionInputs \union {NoValue}]
  /\ step \in [Executors -> Steps]
  /\ collected \in [Executors -> Collection \union {NoValue}]
  /\ proposed \in [Executors -> Evaluation \union {NoValue}]
  /\ replaying \in [Executors -> BOOLEAN]
  /\ verdict \in [Executors -> Verdicts]

ExecutorInit ==
  /\ pc = [e \in Executors |-> "idle"]
  /\ input = [e \in Executors |-> NoValue]
  /\ step = [e \in Executors |-> 1]
  /\ collected = [e \in Executors |-> NoValue]
  /\ proposed = [e \in Executors |-> NoValue]
  /\ replaying = [e \in Executors |-> FALSE]
  /\ verdict = [e \in Executors |-> "none"]

-----------------------------------------------------------------------------
(* Moves of one executor. *)

KindAt(e) == CollectionOrder[step[e]]

\* The execution goes on at label l.
Goto(e, l) ==
  /\ pc' = [pc EXCEPT ![e] = l]
  /\ UNCHANGED verdict

\* The execution returns or raises; its locals are gone.
End(e, v) ==
  /\ pc' = [pc EXCEPT ![e] = "idle"]
  /\ verdict' = [verdict EXCEPT ![e] = v]
  /\ step' = [step EXCEPT ![e] = 1]
  /\ collected' = [collected EXCEPT ![e] = NoValue]
  /\ replaying' = [replaying EXCEPT ![e] = FALSE]

Raise(e, error) ==
  /\ End(e, error)
  /\ proposed' = [proposed EXCEPT ![e] = NoValue]
  /\ UNCHANGED input

\* Validation is pure: a rejected request returns before the store is opened.
Begin(e, i) ==
  /\ pc[e] = "idle"
  /\ input' = [input EXCEPT ![e] = i]
  /\ proposed' = [proposed EXCEPT ![e] = NoValue]
  /\ \/ /\ i.request = InvalidRequest
        /\ verdict' = [verdict EXCEPT ![e] = "invalid_request"]
        /\ UNCHANGED pc
     \/ /\ i.request # InvalidRequest
        /\ pc' = [pc EXCEPT ![e] = "persist_request"]
        /\ verdict' = [verdict EXCEPT ![e] = "none"]
  /\ UNCHANGED <<step, collected, replaying, database>>

\* The first opening of the file loses the race of its creation.
OpenRefused(e) ==
  /\ pc[e] = "persist_request"
  /\ NothingStored
  /\ Raise(e, "schema_incompatible")
  /\ UNCHANGED database

PersistRequest(e) ==
  LET status == RequestWrite(input[e].assessment, input[e].request) IN
  /\ pc[e] = "persist_request"
  /\ WriteRequest(input[e].assessment, input[e].request)
  /\ \/ /\ status = "conflicting_replay"
        /\ Raise(e, status)
     \/ /\ status # "conflicting_replay"
        /\ Goto(e, "verify_request")
        /\ UNCHANGED <<input, step, collected, proposed, replaying>>

VerifyRequest(e) ==
  /\ pc[e] = "verify_request"
  /\ \/ /\ requests[input[e].assessment] = input[e].request
        /\ Goto(e, "collect")
        /\ UNCHANGED <<input, step, collected, proposed, replaying>>
     \/ /\ requests[input[e].assessment] # input[e].request
        /\ Raise(e, "verification_failed")
  /\ UNCHANGED database

\* The network call: the remote answers with anything, and differently each time.
Collect(e, response) ==
  /\ pc[e] = "collect"
  /\ collected' = [collected EXCEPT ![e] =
       [id |-> WorkflowAttemptId[input[e].assessment][KindAt(e)],
        assessment |-> input[e].assessment, kind |-> KindAt(e), number |-> 1,
        repository |-> input[e].request.repository,
        attemptedAt |-> input[e].attemptedAt,
        outcome |-> response.outcome, value |-> response.value]]
  /\ Goto(e, "persist_collection")
  /\ UNCHANGED <<input, step, proposed, replaying, database>>

PersistCollection(e) ==
  LET status == CollectionWrite(collected[e]) IN
  /\ pc[e] = "persist_collection"
  /\ WriteCollection(collected[e])
  /\ \/ /\ status \in {"inserted", "replayed"}
        /\ replaying' = [replaying EXCEPT ![e] = (status = "replayed")]
        /\ Goto(e, "verify_collection")
        /\ UNCHANGED <<input, step, collected, proposed>>
     \/ /\ status \notin {"inserted", "replayed"}
        /\ Raise(e, status)

\* Only an outcome with evidence lets the next collector start.
VerifyCollection(e) ==
  LET status == CollectionReread(collected[e]) IN
  /\ pc[e] = "verify_collection"
  /\ \/ /\ status = "verified"
        /\ HasEvidence(collected[e])
        /\ \/ /\ step[e] < Len(CollectionOrder)
              /\ Goto(e, "collect")
              /\ step' = [step EXCEPT ![e] = @ + 1]
           \/ /\ step[e] = Len(CollectionOrder)
              /\ Goto(e, "load_snapshot")
              /\ UNCHANGED step
        /\ collected' = [collected EXCEPT ![e] = NoValue]
        /\ replaying' = [replaying EXCEPT ![e] = FALSE]
        /\ UNCHANGED <<input, proposed>>
     \/ /\ status = "verified"
        /\ ~HasEvidence(collected[e])
        /\ Raise(e, "collection_failed")
     \/ /\ status = "different"
        /\ Raise(e, IF replaying[e] THEN "conflicting_replay" ELSE "verification_failed")
     \/ /\ status = "verification_failed"
        /\ Raise(e, status)
  /\ UNCHANGED database

LoadSnapshot(e) ==
  LET a == input[e].assessment IN
  /\ pc[e] = "load_snapshot"
  /\ \/ /\ SnapshotStatus(a) = "verified"
        /\ proposed' = [proposed EXCEPT ![e] = snapshots[a]]
        /\ Goto(e, "reevaluate")
        /\ UNCHANGED <<input, step, collected, replaying>>
     \/ /\ SnapshotStatus(a) = "evaluation_not_found"
        /\ Goto(e, "evaluate")
        /\ UNCHANGED <<input, step, collected, proposed, replaying>>
     \/ /\ SnapshotStatus(a) \notin {"verified", "evaluation_not_found"}
        /\ Raise(e, SnapshotStatus(a))
  /\ UNCHANGED database

\* The clock is read once and need not be ahead of anything read before it.
EvaluateFirst(e, t) ==
  LET a == input[e].assessment IN
  /\ pc[e] = "evaluate"
  /\ \/ /\ EvidenceStatus(a) = "verified"
        /\ CanEvaluate(EvidenceSet(a), t)
        /\ proposed' = [proposed EXCEPT ![e] = Evaluate(a, EvidenceSet(a), t)]
        /\ Goto(e, "persist_snapshot")
        /\ UNCHANGED <<input, step, collected, replaying>>
     \/ /\ EvidenceStatus(a) = "verified"
        /\ ~CanEvaluate(EvidenceSet(a), t)
        /\ Raise(e, "evaluation_error")
     \/ /\ EvidenceStatus(a) # "verified"
        /\ Raise(e, EvidenceStatus(a))
  /\ UNCHANGED database

PersistSnapshot(e) ==
  LET status == SnapshotWrite(proposed[e]) IN
  /\ pc[e] = "persist_snapshot"
  /\ WriteSnapshot(proposed[e])
  /\ \/ /\ status \in {"inserted", "replayed"}
        /\ replaying' = [replaying EXCEPT ![e] = (status = "replayed")]
        /\ Goto(e, "verify_snapshot")
        /\ UNCHANGED <<input, step, collected, proposed>>
     \/ /\ status \notin {"inserted", "replayed"}
        /\ Raise(e, status)

Complete(e) ==
  /\ End(e, "complete")
  /\ UNCHANGED <<input, proposed>>

VerifySnapshot(e) ==
  LET a == input[e].assessment IN
  /\ pc[e] = "verify_snapshot"
  /\ \/ /\ SnapshotStatus(a) = "verified"
        /\ snapshots[a] = proposed[e]
        /\ Complete(e)
     \/ /\ SnapshotStatus(a) = "verified"
        /\ snapshots[a] # proposed[e]
        /\ Raise(e, IF replaying[e] THEN "conflicting_replay" ELSE "verification_failed")
     \/ /\ SnapshotStatus(a) # "verified"
        /\ Raise(e, SnapshotStatus(a))
  /\ UNCHANGED database

\* An existing evaluation is recomputed at its own instant, without reading the clock.
EvaluateAgain(e) ==
  LET a == input[e].assessment IN
  /\ pc[e] = "reevaluate"
  /\ \/ /\ EvidenceStatus(a) = "verified"
        /\ CanEvaluate(EvidenceSet(a), proposed[e].evaluatedAt)
        /\ Evaluate(a, EvidenceSet(a), proposed[e].evaluatedAt) = proposed[e]
        /\ Complete(e)
     \/ /\ EvidenceStatus(a) = "verified"
        /\ ~ /\ CanEvaluate(EvidenceSet(a), proposed[e].evaluatedAt)
             /\ Evaluate(a, EvidenceSet(a), proposed[e].evaluatedAt) = proposed[e]
        /\ Raise(e, "evaluation_error")
     \/ /\ EvidenceStatus(a) # "verified"
        /\ Raise(e, EvidenceStatus(a))
  /\ UNCHANGED database

\* A transaction that cannot run (locked file, I/O error) leaves the store as it was.  The
\* category of the code depends on the statement that SQLite fails in.
StorageFault(e) ==
  /\ pc[e] \in Labels \ {"idle", "collect"}
  /\ Raise(e, "storage_error")
  /\ UNCHANGED database

\* The process dies anywhere; the store keeps what was committed.
Crash(e) ==
  /\ pc[e] # "idle"
  /\ Raise(e, "crashed")
  /\ UNCHANGED database

Advance(e) ==
  \/ OpenRefused(e)
  \/ PersistRequest(e)
  \/ VerifyRequest(e)
  \/ \E response \in Responses : Collect(e, response)
  \/ PersistCollection(e)
  \/ VerifyCollection(e)
  \/ LoadSnapshot(e)
  \/ \E t \in Times : EvaluateFirst(e, t)
  \/ PersistSnapshot(e)
  \/ VerifySnapshot(e)
  \/ EvaluateAgain(e)
=============================================================================
