------------------------------ MODULE RunProofs ------------------------------
(***************************************************************************)
(* What callers are told is true, and stays true whatever others commit:   *)
(* a completed execution's evaluation is the stored one, and a decision    *)
(* reported as recorded is the stored one and reported so to one reviewer. *)
(* Behind an execution, the attempts it leaves form one run through the    *)
(* collection order, and the rereads that follow its writes never meet     *)
(* anything that it takes for damage.                                      *)
(***************************************************************************)
EXTENDS AssessmentProofs

-----------------------------------------------------------------------------
(* Executors. *)

\* What executor e has seen in the database, which no later commit takes back.
Witnessed(e) ==
  /\ pc[e] # "idle" => verdict[e] = "none"
  /\ pc[e] \notin {"idle", "persist_request", "verify_request"} =>
       requests[input[e].assessment] = input[e].request
  /\ pc[e] = "reevaluate" => snapshots[input[e].assessment] = proposed[e]
  /\ verdict[e] = "complete" =>
       /\ input[e].assessment \in Assessments
       /\ input[e].request \in Request
       /\ proposed[e] \in Evaluation
       /\ snapshots[input[e].assessment] = proposed[e]
       /\ requests[input[e].assessment] = input[e].request

CompletionInv == \A e \in Executors : Witnessed(e)

\* What an executor has seen survives the steps of all others.
LEMMA WitnessSurvives ==
  ASSUME ExecutorInv, AppendOnly, NEW e \in Executors, Witnessed(e),
         pc'[e] = pc[e], input'[e] = input[e], proposed'[e] = proposed[e],
         verdict'[e] = verdict[e]
  PROVE  Witnessed(e)'
<1>1. pc[e] # "idle" => input[e].assessment \in Assessments /\ input[e].request \in Request
  BY InputFields
<1>2. pc[e] = "reevaluate" => proposed[e] \in Evaluation
  BY DEF ExecutorInv, EvaluationInHand
<1>3. \A r \in Request : r # NoRow
  BY NoRowIsNoRow
<1>4. \A v \in Evaluation : v # NoRow
  BY NoRowIsNoRow
<1> QED BY <1>1, <1>2, <1>3, <1>4 DEF Witnessed, AppendOnly

\* An execution that ends without completing has nothing to witness.
LEMMA RaiseWitnesses ==
  ASSUME ExecutorInv, NEW e \in Executors,
         NEW error \in Errors \union {"collection_failed"}, Raise(e, error)
  PROVE  Witnessed(e)'
<1>1. pc'[e] = "idle" /\ verdict'[e] # "complete"
  BY DEF ExecutorInv, ExecutorTypeOK, Raise, End, Errors
<1> QED BY <1>1 DEF Witnessed

\* An execution moves on; beyond verify_request its request is stored.
LEMMA GotoWitnesses ==
  ASSUME ExecutorInv, AppendOnly, NEW e \in Executors, NEW l, Goto(e, l), Witnessed(e),
         pc[e] # "idle", UNCHANGED input,
         l \notin {"persist_request", "verify_request"} =>
           requests[input[e].assessment] = input[e].request,
         l = "reevaluate" => snapshots'[input[e].assessment] = proposed'[e]
  PROVE  Witnessed(e)'
<1>1. pc'[e] = l /\ verdict'[e] = "none"
  BY DEF ExecutorInv, ExecutorTypeOK, Goto, Witnessed
<1>2. input[e].assessment \in Assessments /\ input[e].request # NoRow
  BY InputFields, NoRowIsNoRow
<1> QED BY <1>1, <1>2 DEF Witnessed, AppendOnly

\* An execution completes on a verified snapshot that is the one in hand.
LEMMA CompleteWitnesses ==
  ASSUME ExecutorInv, NEW e \in Executors, Complete(e), UNCHANGED database,
         Witnessed(e), pc[e] \in {"verify_snapshot", "reevaluate"},
         snapshots[input[e].assessment] = proposed[e]
  PROVE  Witnessed(e)'
<1>1. /\ pc'[e] = "idle"
      /\ input' = input /\ proposed' = proposed
      /\ requests' = requests /\ snapshots' = snapshots
  BY DEF ExecutorInv, ExecutorTypeOK, Complete, End, database
<1>2. /\ input[e].assessment \in Assessments
      /\ input[e].request \in Request
      /\ proposed[e] \in Evaluation
      /\ requests[input[e].assessment] = input[e].request
  BY InputFields DEF ExecutorInv, EvaluationInHand, Witnessed
<1> QED BY <1>1, <1>2 DEF Witnessed

LEMMA BeginWitnesses ==
  ASSUME ExecutorInv, NEW e \in Executors, NEW i \in ExecutionInputs, Begin(e, i),
         Witnessed(e)
  PROVE  Witnessed(e)'
<1>1. \/ pc'[e] = "idle" /\ verdict'[e] = "invalid_request"
      \/ pc'[e] = "persist_request" /\ verdict'[e] = "none"
  BY DEF ExecutorInv, ExecutorTypeOK, Begin
<1> QED BY <1>1 DEF Witnessed

LEMMA AdvanceWitnesses ==
  ASSUME DatabaseTypeOK, ExecutorInv, AppendOnly, NEW e \in Executors, Advance(e),
         Witnessed(e)
  PROVE  Witnessed(e)'
<1> DEFINE a == input[e].assessment
           Raises == \E error \in Errors \union {"collection_failed"} : Raise(e, error)
<1> USE DEF ReadErrors
<1>0. Raises => Witnessed(e)'
  BY RaiseWitnesses
<1>1. CASE PersistRequest(e)
  <2>1. Raise(e, "conflicting_replay")
          \/ (pc[e] # "idle" /\ Goto(e, "verify_request") /\ UNCHANGED input)
    BY <1>1 DEF PersistRequest
  <2> QED BY <1>0, <2>1, GotoWitnesses DEF Errors
<1>2. CASE VerifyRequest(e)
  <2>1. Raise(e, "verification_failed")
          \/ (/\ pc[e] # "idle" /\ Goto(e, "collect") /\ UNCHANGED input
              /\ requests[a] = input[e].request)
    BY <1>2 DEF VerifyRequest
  <2> QED BY <1>0, <2>1, GotoWitnesses DEF Errors
<1>3. CASE \E response \in Responses : Collect(e, response)
  <2>1. /\ pc[e] = "collect" /\ Goto(e, "persist_collection") /\ UNCHANGED input
    BY <1>3 DEF Collect
  <2>2. requests[a] = input[e].request
    BY <2>1 DEF Witnessed
  <2> QED BY <2>1, <2>2, GotoWitnesses
<1>4. CASE PersistCollection(e)
  <2>1. pc[e] = "persist_collection"
    BY <1>4 DEF PersistCollection
  <2>2. \/ Goto(e, "verify_collection") /\ UNCHANGED input
        \/ /\ CollectionWrite(collected[e]) \notin {"inserted", "replayed"}
           /\ Raise(e, CollectionWrite(collected[e]))
    BY <1>4 DEF PersistCollection
  <2>3. CollectionWrite(collected[e]) \notin {"inserted", "replayed"} =>
          CollectionWrite(collected[e]) \in Errors
    BY CollectionWriteRange DEF Errors
  <2>4. requests[a] = input[e].request
    BY <2>1 DEF Witnessed
  <2> QED BY <1>0, <2>1, <2>2, <2>3, <2>4, GotoWitnesses
<1>5. CASE VerifyCollection(e)
  <2>1. pc[e] = "verify_collection"
    BY <1>5 DEF VerifyCollection
  <2>2. \/ Goto(e, "collect") /\ UNCHANGED input
        \/ Goto(e, "load_snapshot") /\ UNCHANGED input
        \/ Raise(e, "collection_failed")
        \/ Raise(e, "conflicting_replay")
        \/ Raise(e, "verification_failed")
    BY <1>5 DEF VerifyCollection
  <2>3. requests[a] = input[e].request
    BY <2>1 DEF Witnessed
  <2> QED BY <1>0, <2>1, <2>2, <2>3, GotoWitnesses DEF Errors
<1>6. CASE LoadSnapshot(e)
  <2>1. pc[e] = "load_snapshot" /\ a \in Assessments
    BY <1>6, InputFields DEF LoadSnapshot
  <2>2. \/ /\ Goto(e, "reevaluate") /\ UNCHANGED <<input, database>>
           /\ proposed' = [proposed EXCEPT ![e] = snapshots[a]]
        \/ Goto(e, "evaluate") /\ UNCHANGED input
        \/ /\ SnapshotStatus(a) \notin {"verified", "evaluation_not_found"}
           /\ Raise(e, SnapshotStatus(a))
    BY <1>6 DEF LoadSnapshot
  <2>3. SnapshotStatus(a) \notin {"verified", "evaluation_not_found"} =>
          SnapshotStatus(a) \in Errors
    BY SnapshotStatusRange, ErrorsCoverReads
  <2>4. requests[a] = input[e].request
    BY <2>1 DEF Witnessed
  <2>5. CASE /\ Goto(e, "reevaluate") /\ UNCHANGED <<input, database>>
             /\ proposed' = [proposed EXCEPT ![e] = snapshots[a]]
    <3>1. snapshots'[a] = proposed'[e]
      BY <2>5 DEF ExecutorInv, ExecutorTypeOK, database
    <3> QED BY <2>1, <2>4, <2>5, <3>1, GotoWitnesses
  <2> QED BY <1>0, <2>1, <2>2, <2>3, <2>4, <2>5, GotoWitnesses
<1>7. CASE \E t \in Times : EvaluateFirst(e, t)
  <2>1. pc[e] = "evaluate"
    BY <1>7 DEF EvaluateFirst
  <2>2. \/ Goto(e, "persist_snapshot") /\ UNCHANGED input
        \/ Raise(e, "evaluation_error")
        \/ EvidenceStatus(a) # "verified" /\ Raise(e, EvidenceStatus(a))
    BY <1>7 DEF EvaluateFirst
  <2>3. EvidenceStatus(a) # "verified" => EvidenceStatus(a) \in Errors
    BY EvidenceStatusRange, ErrorsCoverReads
  <2>4. requests[a] = input[e].request
    BY <2>1 DEF Witnessed
  <2> QED BY <1>0, <2>1, <2>2, <2>3, <2>4, GotoWitnesses DEF Errors
<1>8. CASE PersistSnapshot(e)
  <2>1. pc[e] = "persist_snapshot"
    BY <1>8 DEF PersistSnapshot
  <2>2. \/ Goto(e, "verify_snapshot") /\ UNCHANGED input
        \/ /\ SnapshotWrite(proposed[e]) \notin {"inserted", "replayed"}
           /\ Raise(e, SnapshotWrite(proposed[e]))
    BY <1>8 DEF PersistSnapshot
  <2>3. SnapshotWrite(proposed[e]) \notin {"inserted", "replayed"} =>
          SnapshotWrite(proposed[e]) \in Errors
    BY SnapshotWriteRange DEF Errors
  <2>4. requests[a] = input[e].request
    BY <2>1 DEF Witnessed
  <2> QED BY <1>0, <2>1, <2>2, <2>3, <2>4, GotoWitnesses
<1>9. CASE VerifySnapshot(e)
  <2>1. pc[e] = "verify_snapshot" /\ UNCHANGED database
    BY <1>9 DEF VerifySnapshot
  <2>2. \/ Complete(e) /\ snapshots[a] = proposed[e]
        \/ Raise(e, "conflicting_replay") \/ Raise(e, "verification_failed")
        \/ SnapshotStatus(a) # "verified" /\ Raise(e, SnapshotStatus(a))
    BY <1>9 DEF VerifySnapshot
  <2>3. SnapshotStatus(a) # "verified" => SnapshotStatus(a) \in Errors
    BY SnapshotStatusRange, ErrorsCoverReads
  <2> QED BY <1>0, <2>1, <2>2, <2>3, CompleteWitnesses DEF Errors
<1>10. CASE EvaluateAgain(e)
  <2>1. pc[e] = "reevaluate" /\ UNCHANGED database
    BY <1>10 DEF EvaluateAgain
  <2>2. \/ Complete(e)
        \/ Raise(e, "evaluation_error")
        \/ EvidenceStatus(a) # "verified" /\ Raise(e, EvidenceStatus(a))
    BY <1>10 DEF EvaluateAgain
  <2>3. EvidenceStatus(a) # "verified" => EvidenceStatus(a) \in Errors
    BY EvidenceStatusRange, ErrorsCoverReads
  <2>4. snapshots[a] = proposed[e]
    BY <2>1 DEF Witnessed
  <2> QED BY <1>0, <2>1, <2>2, <2>3, <2>4, CompleteWitnesses DEF Errors
<1>11. CASE OpenRefused(e)
  BY <1>0, <1>11 DEF OpenRefused, Errors
<1> QED BY <1>1, <1>2, <1>3, <1>4, <1>5, <1>6, <1>7, <1>8, <1>9, <1>10, <1>11 DEF Advance

\* What Witnessed reads of an executor.
Same(f) ==
  pc'[f] = pc[f] /\ input'[f] = input[f] /\ proposed'[f] = proposed[f]
    /\ verdict'[f] = verdict[f]

LEMMA MoveKeepsOthers ==
  ASSUME ExecutorInv, NEW e \in Executors, NEW f \in Executors, e # f
  PROVE  /\ \A error : Raise(e, error) => Same(f)
         /\ Complete(e) => Same(f)
         /\ \A l : Goto(e, l) /\ UNCHANGED <<input, proposed>> => Same(f)
         /\ \A l, v : Goto(e, l) /\ UNCHANGED input
                        /\ proposed' = [proposed EXCEPT ![e] = v] => Same(f)
BY DEF ExecutorInv, ExecutorTypeOK, Raise, Complete, End, Goto, Same

\* An executor's step leaves the locals of every other executor alone.
LEMMA StepKeepsOthers ==
  ASSUME ExecutorInv, NEW e \in Executors, NEW f \in Executors, e # f,
         ExecutorStep(e) \/ ExecutorFault(e)
  PROVE  Same(f)
<1> USE MoveKeepsOthers
<1>1. CASE \E i \in ExecutionInputs : Begin(e, i)
  BY <1>1 DEF Begin, ExecutorInv, ExecutorTypeOK, Same
<1>2. CASE PersistRequest(e)
  BY <1>2 DEF PersistRequest
<1>3. CASE VerifyRequest(e)
  BY <1>3 DEF VerifyRequest
<1>4. CASE \E response \in Responses : Collect(e, response)
  BY <1>4 DEF Collect
<1>5. CASE PersistCollection(e)
  BY <1>5 DEF PersistCollection
<1>6. CASE VerifyCollection(e)
  BY <1>6 DEF VerifyCollection
<1>7. CASE LoadSnapshot(e)
  BY <1>7 DEF LoadSnapshot
<1>8. CASE \E t \in Times : EvaluateFirst(e, t)
  BY <1>8 DEF EvaluateFirst
<1>9. CASE PersistSnapshot(e)
  BY <1>9 DEF PersistSnapshot
<1>10. CASE VerifySnapshot(e)
  BY <1>10 DEF VerifySnapshot
<1>11. CASE EvaluateAgain(e)
  BY <1>11 DEF EvaluateAgain
<1>12. CASE ExecutorFault(e)
  BY <1>12 DEF ExecutorFault, StorageFault, Crash
<1>13. CASE OpenRefused(e)
  BY <1>13 DEF OpenRefused
<1> QED BY <1>1, <1>2, <1>3, <1>4, <1>5, <1>6, <1>7, <1>8, <1>9, <1>10, <1>11, <1>12, <1>13
        DEF ExecutorStep, Advance

LEMMA CompletionInvIsInductive ==
  ASSUME Inv, CompletionInv, [Next]_vars
  PROVE  CompletionInv'
<1>1. AppendOnly /\ ExecutorInv /\ DatabaseTypeOK
  BY InvIsInductive DEF Inv, DatabaseInv
<1>2. ASSUME NEW f \in Executors, Same(f)
      PROVE  Witnessed(f)'
  BY <1>1, <1>2, WitnessSurvives DEF CompletionInv, Same
<1>3. ASSUME NEW e \in Executors, ExecutorStep(e) \/ ExecutorFault(e)
      PROVE  CompletionInv'
  <2>1. Witnessed(e)
    BY DEF CompletionInv
  <2>2. Witnessed(e)'
    <3>1. CASE \E i \in ExecutionInputs : Begin(e, i)
      BY <1>1, <2>1, <3>1, BeginWitnesses
    <3>2. CASE Advance(e)
      BY <1>1, <2>1, <3>2, AdvanceWitnesses
    <3>3. CASE ExecutorFault(e)
      <4>1. Raise(e, "storage_error") \/ Raise(e, "crashed")
        BY <3>3 DEF ExecutorFault, StorageFault, Crash
      <4> QED BY <1>1, <4>1, RaiseWitnesses DEF Errors
    <3> QED BY <1>3, <3>1, <3>2, <3>3 DEF ExecutorStep
  <2>3. ASSUME NEW f \in Executors, f # e
        PROVE  Witnessed(f)'
    BY <1>1, <1>2, <1>3, <2>3, StepKeepsOthers
  <2> QED BY <2>2, <2>3 DEF CompletionInv
<1>4. CASE UNCHANGED executorState
  <2>1. \A f \in Executors : Same(f)
    BY <1>4 DEF executorState, Same
  <2> QED BY <1>2, <2>1 DEF CompletionInv
<1>5. \/ \E e \in Executors : ExecutorStep(e) \/ ExecutorFault(e)
      \/ UNCHANGED executorState
  BY DEF Next, vars, ReviewerStep, ReviewFault, LibraryPersist
<1> QED BY <1>3, <1>4, <1>5

\* execute_assessment reports completion only with the evaluation that is stored, for the
\* request that is stored; both stay stored whatever other callers do next.
THEOREM CompletionsAreDurable == Spec => []CompletionIsDurable
<1>1. Init => CompletionInv
  BY DEF Init, ExecutorInit, CompletionInv, Witnessed
<1>2. Inv /\ CompletionInv /\ [Next]_vars => CompletionInv'
  BY CompletionInvIsInductive
<1>3. CompletionInv => CompletionIsDurable
  BY NoValueIsNoValue DEF CompletionInv, Witnessed, CompletionIsDurable
<1> QED BY <1>1, <1>2, <1>3, SpecKeepsInv, PTL DEF Spec

-----------------------------------------------------------------------------
(* Reviewers. *)

\* Reviewer r has recorded the decision on its subject, and is about to report it or has.
Recorder(r) ==
  \/ at[r] = "verify" /\ ~repeated[r]
  \/ answer[r] = "recorded"

\* What reviewer r knows of the stored decision.
Informed(r) ==
  /\ at[r] # "idle" =>
       answer[r] = "none" /\ subject[r] \in Assessments
         /\ submitted[r].assessment = subject[r]
  /\ at[r] = "verify" \/ answer[r] \in {"recorded", "exact_replay"} =>
       /\ subject[r] \in Assessments
       /\ held[r] \in Decision
       /\ decisions[subject[r]] = held[r]

OneRecorder ==
  \A r, q \in Reviewers :
    Recorder(r) /\ Recorder(q) /\ subject[r] = subject[q] => r = q

RecordInv == OneRecorder /\ \A r \in Reviewers : Informed(r)

\* The local state of a reviewer.
Still(q) ==
  /\ at'[q] = at[q] /\ subject'[q] = subject[q] /\ submitted'[q] = submitted[q]
  /\ held'[q] = held[q] /\ repeated'[q] = repeated[q] /\ answer'[q] = answer[q]

LEMMA InformedSurvives ==
  ASSUME AppendOnly, NEW q \in Reviewers, Informed(q), Still(q)
  PROVE  Informed(q)' /\ (Recorder(q)' => Recorder(q))
<1>1. \A d \in Decision : d # NoRow
  BY NoRowIsNoRow
<1> QED BY <1>1 DEF Informed, Recorder, Still, AppendOnly

\* A step by which r does not become a recorder keeps the invariant if r stays informed.
LEMMA RecordSurvives ==
  ASSUME AppendOnly, RecordInv, NEW r \in Reviewers, Informed(r)',
         Recorder(r)' => Recorder(r) /\ subject'[r] = subject[r],
         \A q \in Reviewers : q # r => Still(q)
  PROVE  RecordInv'
<1>1. \A q \in Reviewers : q # r => Informed(q)' /\ (Recorder(q)' => Recorder(q))
  BY InformedSurvives DEF RecordInv
<1>2. \A q \in Reviewers : Informed(q)'
  BY <1>1
<1>3. \A q \in Reviewers : Recorder(q)' => Recorder(q) /\ subject'[q] = subject[q]
  BY <1>1 DEF Still
<1>4. OneRecorder'
  BY <1>3 DEF RecordInv, OneRecorder
<1> QED BY <1>2, <1>4 DEF RecordInv

\* A command that fails tells nothing that could become false.
LEMMA RefuseInforms ==
  ASSUME ReviewerInv, NEW r \in Reviewers,
         NEW error \in Answers \ {"recorded", "exact_replay"}, Refuse(r, error)
  PROVE  Informed(r)' /\ ~Recorder(r)'
<1>1. at'[r] = "idle" /\ answer'[r] = error
  BY DEF ReviewerInv, ReviewerTypeOK, Refuse, Reply
<1> QED BY <1>1 DEF Informed, Recorder

LEMMA FailuresAreRefusals ==
  {"decision_not_found", "evaluation_not_found", "verification_failed",
   "conflicting_replay", "invalid_input", "schema_incompatible", "storage_error",
   "crashed"} \union ReadErrors
    \subseteq Answers \ {"recorded", "exact_replay"}
BY DEF ReadErrors, Answers

LEMMA ReviewInforms ==
  ASSUME ReviewerInv, NEW r \in Reviewers, NEW a \in Assessments, Review(r, a)
  PROVE  Informed(r)' /\ ~Recorder(r)'
<1>1. ReviewStatus(a) \notin {"recorded", "exact_replay"}
  BY SnapshotStatusRange, DecisionStatusRange DEF ReviewStatus, ReadErrors
<1>2. at'[r] = "idle" /\ answer'[r] \notin {"recorded", "exact_replay"}
  BY <1>1 DEF ReviewerInv, ReviewerTypeOK, Review
<1> QED BY <1>2 DEF Informed, Recorder

LEMMA BeginDecideInforms ==
  ASSUME ReviewerInv, NEW r \in Reviewers, NEW s \in Submissions,
         NEW v \in {seen[r], NoRow}, BeginDecide(r, s, v)
  PROVE  Informed(r)' /\ ~Recorder(r)'
<1>1. /\ at'[r] \in {"load", "persist"}
      /\ answer'[r] = "none"
      /\ subject'[r] = subject[r] /\ subject[r] \in Assessments
      /\ submitted'[r].assessment = subject[r]
  BY DEF ReviewerInv, ReviewerTypeOK, BeginDecide
<1> QED BY <1>1 DEF Informed, Recorder

LEMMA LoadInforms ==
  ASSUME ReviewerInv, NEW r \in Reviewers, Informed(r), LoadForDecision(r)
  PROVE  Informed(r)' /\ ~Recorder(r)'
<1> DEFINE a == submitted[r].assessment
<1>1. SnapshotStatus(a) # "verified" =>
        SnapshotStatus(a) \in Answers \ {"recorded", "exact_replay"}
  BY SnapshotStatusRange, FailuresAreRefusals
<1>2. CASE Refuse(r, "invalid_input")
             \/ (SnapshotStatus(a) # "verified" /\ Refuse(r, SnapshotStatus(a)))
  BY <1>1, <1>2, RefuseInforms, FailuresAreRefusals
<1>3. CASE /\ at[r] = "load"
           /\ at' = [at EXCEPT ![r] = "persist"]
           /\ UNCHANGED <<subject, seen, submitted, held, repeated, answer>>
  BY <1>3 DEF ReviewerInv, ReviewerTypeOK, Informed, Recorder
<1> QED BY <1>2, <1>3 DEF LoadForDecision

\* A transaction that succeeds holds the stored decision; if it inserted it, no decision
\* was there, and so no other reviewer recorded one.
LEMMA PersistInforms ==
  ASSUME DatabaseTypeOK, ReviewerInv, RecordInv, NEW r \in Reviewers, NEW t \in Times,
         PersistDecision(r, t), ReviewerInv'
  PROVE  /\ Informed(r)'
         /\ Recorder(r)' => \A q \in Reviewers : Recorder(q) => subject[q] # subject[r]
         /\ subject' = subject
<1> DEFINE a == submitted[r].assessment
           status == DecisionWrite(submitted[r], t)
<1>1. /\ at[r] = "persist" /\ a = subject[r] /\ subject[r] \in Assessments
      /\ answer[r] = "none"
  BY DEF PersistDecision, RecordInv, Informed
<1>2. CASE status \in {"inserted", "replayed"}
  <2>1. /\ held' = [held EXCEPT ![r] = decisions'[a]]
        /\ repeated' = [repeated EXCEPT ![r] = (status = "replayed")]
        /\ at' = [at EXCEPT ![r] = "verify"]
        /\ UNCHANGED <<subject, seen, submitted, answer>>
    BY <1>2 DEF PersistDecision
  <2>2. at'[r] = "verify" /\ held'[r] = decisions'[a] /\ repeated'[r] = (status = "replayed")
    BY <2>1 DEF ReviewerInv, ReviewerTypeOK
  <2>3. held'[r] \in Decision
    BY <2>2 DEF ReviewerInv, DecisionInHand
  <2>4. Informed(r)'
    BY <1>1, <2>1, <2>2, <2>3 DEF Informed
  <2>5. ASSUME Recorder(r)', NEW q \in Reviewers, Recorder(q)
        PROVE  subject[q] # subject[r]
    <3>1. status = "inserted"
      BY <1>1, <1>2, <2>1, <2>2, <2>5 DEF Recorder
    <3>2. decisions[subject[r]] = NoRow
      BY <1>1, <3>1, InsertedDecision
    <3>3. decisions[subject[q]] # NoRow
      BY <2>5, NoRowIsNoRow DEF RecordInv, Informed, Recorder
    <3> QED BY <3>2, <3>3
  <2> QED BY <2>1, <2>4, <2>5
<1>3. CASE status \notin {"inserted", "replayed"}
  <2>1. status \in Answers \ {"recorded", "exact_replay"}
    BY <1>3, DecisionWriteRange, FailuresAreRefusals
  <2>2. Refuse(r, status)
    BY <1>3 DEF PersistDecision
  <2>3. UNCHANGED subject
    BY <2>2 DEF Refuse, Reply
  <2> QED BY <2>1, <2>2, <2>3, RefuseInforms
<1> QED BY <1>2, <1>3

LEMMA VerifyInforms ==
  ASSUME ReviewerInv, NEW r \in Reviewers, Informed(r), VerifyDecision(r)
  PROVE  Informed(r)' /\ (Recorder(r)' => Recorder(r) /\ subject'[r] = subject[r])
<1> DEFINE a == submitted[r].assessment
<1>1. DecisionStatus(a) # "verified" =>
        DecisionStatus(a) \in Answers \ {"recorded", "exact_replay"}
  BY DecisionStatusRange, FailuresAreRefusals
<1>2. CASE \/ Refuse(r, "conflicting_replay") \/ Refuse(r, "verification_failed")
           \/ DecisionStatus(a) # "verified" /\ Refuse(r, DecisionStatus(a))
  BY <1>1, <1>2, RefuseInforms, FailuresAreRefusals
<1>3. CASE /\ at[r] = "verify"
           /\ Reply(r, IF repeated[r] THEN "exact_replay" ELSE "recorded")
           /\ UNCHANGED <<held, database>>
  <2>1. /\ at'[r] = "idle"
        /\ answer'[r] = IF repeated[r] THEN "exact_replay" ELSE "recorded"
        /\ UNCHANGED <<subject, held, decisions>>
    BY <1>3 DEF ReviewerInv, ReviewerTypeOK, Reply, database
  <2> QED BY <1>3, <2>1 DEF Informed, Recorder
<1> QED BY <1>2, <1>3 DEF VerifyDecision

\* Every command writes the locals of its own reviewer only.
LEMMA OthersAreStill ==
  ASSUME ReviewerInv, NEW r \in Reviewers, NEW q \in Reviewers, q # r,
         ReviewerStep(r) \/ ReviewFault(r)
  PROVE  Still(q)
<1>1. \A error : Refuse(r, error) => Still(q)
  BY DEF ReviewerInv, ReviewerTypeOK, Refuse, Reply, Still
<1>2. CASE \E a \in Assessments : Review(r, a)
  BY <1>2 DEF Review, ReviewerInv, ReviewerTypeOK, Still
<1>3. CASE \E s \in Submissions : \E v \in {seen[r], NoRow} : BeginDecide(r, s, v)
  BY <1>3 DEF BeginDecide, ReviewerInv, ReviewerTypeOK, Still
<1>4. CASE LoadForDecision(r)
  <2>1. (\E error : Refuse(r, error))
          \/ (/\ at' = [at EXCEPT ![r] = "persist"]
              /\ UNCHANGED <<subject, seen, submitted, held, repeated, answer>>)
    BY <1>4 DEF LoadForDecision
  <2> QED BY <1>1, <2>1 DEF ReviewerInv, ReviewerTypeOK, Still
<1>5. CASE \E t \in Times : PersistDecision(r, t)
  <2>1. (\E error : Refuse(r, error))
          \/ (\E d, b : /\ held' = [held EXCEPT ![r] = d]
                        /\ repeated' = [repeated EXCEPT ![r] = b]
                        /\ at' = [at EXCEPT ![r] = "verify"]
                        /\ UNCHANGED <<subject, seen, submitted, answer>>)
    BY <1>5 DEF PersistDecision
  <2> QED BY <1>1, <2>1 DEF ReviewerInv, ReviewerTypeOK, Still
<1>6. CASE VerifyDecision(r)
  <2>1. (\E error : Refuse(r, error)) \/ (\E reply : Reply(r, reply) /\ UNCHANGED held)
    BY <1>6 DEF VerifyDecision
  <2> QED BY <1>1, <2>1 DEF ReviewerInv, ReviewerTypeOK, Reply, Still
<1>7. CASE ReviewFault(r)
  BY <1>1, <1>7 DEF ReviewFault, ReviewerFault
<1>8. CASE DecideRefused(r)
  BY <1>1, <1>8 DEF DecideRefused
<1> QED BY <1>2, <1>3, <1>4, <1>5, <1>6, <1>7, <1>8 DEF ReviewerStep, ReviewerAdvance

LEMMA RecordInvIsInductive ==
  ASSUME Inv, RecordInv, [Next]_vars
  PROVE  RecordInv'
<1>1. /\ AppendOnly /\ DatabaseTypeOK /\ ReviewerInv /\ ReviewerInv'
  BY InvIsInductive DEF Inv, DatabaseInv
<1>2. ASSUME NEW r \in Reviewers, ReviewerStep(r) \/ ReviewFault(r)
      PROVE  RecordInv'
  <2>1. \A q \in Reviewers : q # r => Still(q)
    BY <1>1, <1>2, OthersAreStill
  <2>2. Informed(r)
    BY DEF RecordInv
  <2>3. CASE \E t \in Times : PersistDecision(r, t)
    <3>1. /\ Informed(r)' /\ subject' = subject
          /\ Recorder(r)' => \A q \in Reviewers : Recorder(q) => subject[q] # subject[r]
      BY <1>1, <2>3, PersistInforms
    <3>2. \A q \in Reviewers : q # r => Informed(q)' /\ (Recorder(q)' => Recorder(q))
      BY <1>1, <2>1, InformedSurvives DEF RecordInv
    <3>3. OneRecorder'
      BY <3>1, <3>2 DEF RecordInv, OneRecorder
    <3> QED BY <3>1, <3>2, <3>3 DEF RecordInv
  <2>4. CASE ~\E t \in Times : PersistDecision(r, t)
    <3>1. Informed(r)' /\ (Recorder(r)' => Recorder(r) /\ subject'[r] = subject[r])
      <4>1. CASE \E a \in Assessments : Review(r, a)
        BY <1>1, <4>1, ReviewInforms
      <4>2. CASE \E s \in Submissions : \E v \in {seen[r], NoRow} : BeginDecide(r, s, v)
        BY <1>1, <4>2, BeginDecideInforms
      <4>3. CASE LoadForDecision(r)
        BY <1>1, <2>2, <4>3, LoadInforms
      <4>4. CASE VerifyDecision(r)
        BY <1>1, <2>2, <4>4, VerifyInforms
      <4>5. CASE ReviewFault(r)
        <5>1. \E error \in {"storage_error", "crashed"} : Refuse(r, error)
          BY <4>5 DEF ReviewFault, ReviewerFault
        <5> QED BY <1>1, <5>1, RefuseInforms, FailuresAreRefusals
      <4>6. CASE DecideRefused(r)
        BY <1>1, <4>6, RefuseInforms, FailuresAreRefusals DEF DecideRefused
      <4> QED BY <1>2, <2>4, <4>1, <4>2, <4>3, <4>4, <4>5, <4>6
              DEF ReviewerStep, ReviewerAdvance
    <3> QED BY <1>1, <2>1, <3>1, RecordSurvives
  <2> QED BY <2>3, <2>4
<1>3. CASE UNCHANGED reviewerState
  <2>1. \A q \in Reviewers : Still(q)
    BY <1>3 DEF reviewerState, Still
  <2>2. \A q \in Reviewers : Informed(q)' /\ (Recorder(q)' => Recorder(q))
    BY <1>1, <2>1, InformedSurvives DEF RecordInv
  <2>3. OneRecorder'
    BY <1>3, <2>2 DEF reviewerState, RecordInv, OneRecorder
  <2> QED BY <2>2, <2>3 DEF RecordInv
<1>4. \/ \E r \in Reviewers : ReviewerStep(r) \/ ReviewFault(r)
      \/ UNCHANGED reviewerState
  BY DEF Next, vars, ExecutorStep, ExecutorFault, LibraryPersist
<1> QED BY <1>2, <1>3, <1>4

\* decide tells at most one reviewer of an assessment that its decision is recorded, and
\* what it tells any reviewer was recorded is, and stays, the stored decision.
THEOREM DecisionsAreRecordedOnce == Spec => []RecordedOnce
<1>1. Init => RecordInv
  BY DEF Init, ReviewerInit, RecordInv, OneRecorder, Recorder, Informed
<1>2. Inv /\ RecordInv /\ [Next]_vars => RecordInv'
  BY RecordInvIsInductive
<1>3. RecordInv => RecordedOnce
  BY DEF RecordInv, OneRecorder, Recorder, Informed, RecordedOnce
<1> QED BY <1>1, <1>2, <1>3, SpecKeepsInv, PTL DEF Spec

-----------------------------------------------------------------------------
(* Runs. *)

\* Library callers derive no identifier the way the workflow does, ...
LibraryNamesItsOwn ==
  \A c \in LibraryCollections : \A a \in Assessments : \A k \in Kinds :
    c.id # WorkflowAttemptId[a][k]

\* ... and submit no first attempts.
LibraryRetries == \A c \in LibraryCollections : c.number # 1

-----------------------------------------------------------------------------
(* Nothing that the code stored fails its verification. *)

\* What an evaluation computes rests on the stored evidence.
LEMMA ComputedRests ==
  ASSUME NEW a \in Assessments, NEW t \in Times, EvidenceStatus(a) = "verified",
         CanEvaluate(EvidenceSet(a), t), NEW v, v = Evaluate(a, EvidenceSet(a), t)
  PROVE  v.assessment = a /\ \A k \in Kinds : RestsOn(v.evidence[k], k, a, v)
<1>1. /\ v.assessment = a /\ v.evaluatedAt = t /\ v.evidence = EvidenceSet(a)
      /\ v.nonPassing = NonPassing(requests[a].context, EvidenceSet(a), t)
  BY DEF Evaluate
<1>2. ASSUME NEW k \in Kinds
      PROVE  RestsOn(v.evidence[k], k, a, v)
  <2>1. v.evidence[k] \in EvidenceRows(a, k)
    BY <1>1, EvidenceSetIsStored
  <2>2. k \in v.nonPassing <=> ~Passes(k, requests[a].context, v.evidence[k], t)
    BY <1>1 DEF NonPassing
  <2> QED BY <1>1, <2>1, <2>2 DEF RestsOn, EvidenceRows, HasEvidence, EvidenceOutcomes,
             CanEvaluate
<1> QED BY <1>1, <1>2

LEMMA NoSnapshotFails ==
  ASSUME DatabaseInv, NEW a \in Assessments
  PROVE  SnapshotStatus(a) \in {"verified", "evaluation_not_found"} \union ReadErrors
<1>1. CASE snapshots[a] # NoRow /\ EvidenceStatus(a) = "verified"
  <2>1. /\ snapshots[a] \in Evaluation /\ snapshots[a].assessment = a
        /\ \A k \in Kinds : RestsOn(snapshots[a].evidence[k], k, a, snapshots[a])
    BY <1>1 DEF DatabaseInv, DatabaseTypeOK, EvaluationRestsOnEvidence
  <2> QED BY <1>1, <2>1, RestingIsRecomputed DEF SnapshotStatus
<1> QED BY <1>1, EvidenceStatusRange DEF SnapshotStatus

LEMMA NoDecisionFails ==
  ASSUME DatabaseInv, NEW a \in Assessments
  PROVE  DecisionStatus(a) # "verification_failed"
<1>1. SnapshotStatus(a) # "verification_failed"
  BY NoSnapshotFails DEF ReadErrors
<1>2. decisions[a] # NoRow =>
        /\ ContentValid(decisions[a].content, requests[a], snapshots[a])
        /\ decisions[a].recordedAt >= snapshots[a].evaluatedAt
  BY DEF DatabaseInv, DecisionsAreValid
<1> QED BY <1>1, <1>2 DEF DecisionStatus

\* An evaluation that rests on stored evidence is not refused as invalid or damaged.
LEMMA RestingIsAccepted ==
  ASSUME DatabaseInv, NEW a \in Assessments, NEW v \in Evaluation, v.assessment = a,
         \A k \in Kinds : RestsOn(v.evidence[k], k, a, v)
  PROVE  SnapshotWrite(v) \notin {"verification_failed", "invalid_input"}
<1>1. CASE EvidenceStatus(a) # "verified"
  BY <1>1, EvidenceStatusRange DEF SnapshotWrite, ReadErrors
<1>2. CASE EvidenceStatus(a) = "verified"
  <2>1. /\ CanEvaluate(EvidenceSet(a), v.evaluatedAt)
        /\ v = Evaluate(a, EvidenceSet(a), v.evaluatedAt)
    BY <1>2, RestingIsRecomputed
  <2>2. RepeatedEvaluation(v) \notin {"verification_failed", "invalid_input"}
    BY NoSnapshotFails DEF RepeatedEvaluation, ReadErrors
  <2> QED BY <1>2, <2>1, <2>2 DEF SnapshotWrite
<1> QED BY <1>1, <1>2

LEMMA NoDecisionWriteFails ==
  ASSUME DatabaseInv, NEW content, content.assessment \in Assessments, NEW t
  PROVE  DecisionWrite(content, t) # "verification_failed"
<1>1. SnapshotStatus(content.assessment) # "verification_failed"
  BY NoSnapshotFails DEF ReadErrors
<1>2. RepeatedDecision(content) # "verification_failed"
  BY NoDecisionFails DEF RepeatedDecision
<1> QED BY <1>1, <1>2 DEF DecisionWrite, FirstDecision

-----------------------------------------------------------------------------
(* Reviewers. *)

NoReviewerMisled == \A r \in Reviewers : answer[r] # "verification_failed"

LEMMA ReviewersStayTold ==
  ASSUME Inv, RecordInv, NoReviewerMisled, [Next]_vars
  PROVE  NoReviewerMisled'
<1>0. DatabaseInv /\ ReviewerInv
  BY DEF Inv
<1>1. ASSUME NEW r \in Reviewers, NEW error, error # "verification_failed", Refuse(r, error)
      PROVE  NoReviewerMisled'
  BY <1>0, <1>1 DEF Refuse, Reply, ReviewerInv, ReviewerTypeOK, NoReviewerMisled
<1>2. ASSUME NEW r \in Reviewers, ReviewerStep(r) \/ ReviewFault(r)
      PROVE  NoReviewerMisled'
  <2> DEFINE b == submitted[r].assessment
  <2>1. at[r] # "idle" => b = subject[r] /\ b \in Assessments
    BY DEF RecordInv, Informed
  <2>2. CASE \E a \in Assessments : Review(r, a)
    <3>1. PICK a \in Assessments : Review(r, a)
      BY <2>2
    <3>2. ReviewStatus(a) # "verification_failed"
      BY <1>0, NoSnapshotFails, NoDecisionFails DEF ReviewStatus, ReadErrors
    <3> QED BY <1>0, <3>1, <3>2 DEF Review, ReviewerInv, ReviewerTypeOK, NoReviewerMisled
  <2>3. CASE \E s \in Submissions : \E v \in {seen[r], NoRow} : BeginDecide(r, s, v)
    BY <1>0, <2>3 DEF BeginDecide, ReviewerInv, ReviewerTypeOK, NoReviewerMisled
  <2>4. CASE LoadForDecision(r)
    <3>1. \/ answer' = answer
          \/ Refuse(r, "invalid_input")
          \/ Refuse(r, SnapshotStatus(b))
      BY <2>4 DEF LoadForDecision
    <3>2. SnapshotStatus(b) # "verification_failed"
      BY <1>0, <2>1, <2>4, NoSnapshotFails DEF LoadForDecision, ReadErrors
    <3> QED BY <1>1, <3>1, <3>2 DEF NoReviewerMisled
  <2>5. CASE \E t \in Times : PersistDecision(r, t)
    <3>1. PICK t \in Times : PersistDecision(r, t)
      BY <2>5
    <3>2. answer' = answer \/ Refuse(r, DecisionWrite(submitted[r], t))
      BY <3>1 DEF PersistDecision
    <3>3. DecisionWrite(submitted[r], t) # "verification_failed"
      BY <1>0, <2>1, <3>1, NoDecisionWriteFails DEF PersistDecision
    <3> QED BY <1>1, <3>2, <3>3 DEF NoReviewerMisled
  <2>6. CASE VerifyDecision(r)
    <3>1. at[r] = "verify"
      BY <2>6 DEF VerifyDecision
    <3>2. decisions[b] = held[r] /\ DecisionStatus(b) # "verification_failed"
      BY <1>0, <2>1, <3>1, NoDecisionFails DEF RecordInv, Informed
    <3>3. \/ Reply(r, IF repeated[r] THEN "exact_replay" ELSE "recorded")
          \/ Refuse(r, DecisionStatus(b))
      BY <2>6, <3>2 DEF VerifyDecision
    <3>4. CASE Reply(r, IF repeated[r] THEN "exact_replay" ELSE "recorded")
      BY <1>0, <3>4 DEF Reply, ReviewerInv, ReviewerTypeOK, NoReviewerMisled
    <3> QED BY <1>1, <3>2, <3>3, <3>4
  <2>7. CASE ReviewFault(r)
    <3>1. \E error \in {"storage_error", "crashed"} : Refuse(r, error)
      BY <2>7 DEF ReviewFault, ReviewerFault
    <3> QED BY <1>1, <3>1
  <2>8. CASE DecideRefused(r)
    BY <1>1, <2>8 DEF DecideRefused
  <2> QED BY <1>2, <2>2, <2>3, <2>4, <2>5, <2>6, <2>7, <2>8 DEF ReviewerStep, ReviewerAdvance
<1>3. \/ \E r \in Reviewers : ReviewerStep(r) \/ ReviewFault(r)
      \/ UNCHANGED answer
  BY DEF Next, vars, reviewerState, ExecutorStep, ExecutorFault, LibraryPersist
<1> QED BY <1>2, <1>3 DEF NoReviewerMisled

-----------------------------------------------------------------------------
(* Executors. *)

\* A derived identifier belongs to the first attempt it was derived for.
DerivedIdsAreFirst ==
  \A c \in attempts : \A a \in Assessments : \A k \in Kinds :
    c.id = WorkflowAttemptId[a][k] => c.assessment = a /\ c.kind = k

\* The first attempt of kind k for a, submitted at t, is stored and has evidence.
Gathered(a, k, t) ==
  \E d \in attempts :
    /\ d.assessment = a /\ d.number = 1
    /\ d.kind = k
    /\ d.outcome \in {"available", "unavailable"}
    /\ d.attemptedAt = t

\* What is in hand between the collector and the reread is the executor's own attempt.
OwnAttempt(e) ==
  /\ collected[e].id = WorkflowAttemptId[input[e].assessment][KindAt(e)]
  /\ collected[e].assessment = input[e].assessment
  /\ collected[e].kind = KindAt(e)
  /\ collected[e].number = 1
  /\ collected[e].repository = input[e].request.repository
  /\ collected[e].attemptedAt = input[e].attemptedAt

\* What executor e left behind on its way to where it is.
Travelled(e) ==
  /\ pc[e] \in {"idle", "persist_request", "verify_request"} => step[e] = 1
  /\ pc[e] = "verify_request" => requests[input[e].assessment] = input[e].request
  /\ pc[e] \in {"collect", "persist_collection", "verify_collection"} =>
       \A j \in Steps : j < step[e] =>
         Gathered(input[e].assessment, CollectionOrder[j], input[e].attemptedAt)
  /\ pc[e] \in {"persist_collection", "verify_collection"} => OwnAttempt(e)
  /\ pc[e] = "verify_collection" =>
       /\ IdTaken(collected[e])
       /\ replaying[e] \/ collected[e] \in attempts
  /\ pc[e] = "persist_snapshot" =>
       /\ proposed[e].assessment = input[e].assessment
       /\ \A k \in Kinds : RestsOn(proposed[e].evidence[k], k, input[e].assessment, proposed[e])
  /\ pc[e] = "verify_snapshot" => snapshots[input[e].assessment] = proposed[e]
  /\ verdict[e] \notin {"verification_failed", "invalid_input"}

\* The whole local state of an executor.
LocalsKept(f) ==
  /\ pc'[f] = pc[f] /\ input'[f] = input[f] /\ step'[f] = step[f]
  /\ collected'[f] = collected[f] /\ proposed'[f] = proposed[f]
  /\ replaying'[f] = replaying[f] /\ verdict'[f] = verdict[f]

LEMMA KeptTravelled ==
  ASSUME Inv, CompletionInv, AppendOnly, NEW f \in Executors, Travelled(f), LocalsKept(f)
  PROVE  Travelled(f)'
<1> DEFINE a == input[f].assessment
<1>1. ExecutorInv
  BY DEF Inv
<1>2. pc[f] # "idle" => a \in Assessments /\ input[f].request # NoRow
  BY <1>1, InputFields, NoRowIsNoRow
<1>3. KindAt(f)' = KindAt(f)
  BY DEF KindAt, LocalsKept
<1>4. pc[f] = "verify_request" => requests'[a] = input[f].request
  BY <1>2 DEF Travelled, AppendOnly
<1>5. \A j \in Steps :
        Gathered(a, CollectionOrder[j], input[f].attemptedAt)
          => Gathered(a, CollectionOrder[j], input[f].attemptedAt)'
  BY DEF Gathered, AppendOnly, LocalsKept
<1>6. OwnAttempt(f) => OwnAttempt(f)'
  BY <1>3 DEF OwnAttempt, LocalsKept
<1>7. IdTaken(collected[f]) => IdTaken(collected[f])'
  BY DEF IdTaken, AppendOnly, LocalsKept
<1>8. collected[f] \in attempts => collected'[f] \in attempts'
  BY DEF AppendOnly, LocalsKept
<1>9. ASSUME pc[f] = "persist_snapshot", NEW k \in Kinds
      PROVE  RestsOn(proposed[f].evidence[k], k, a, proposed[f])'
  <2>1. requests[a] # NoRow
    BY <1>2, <1>9 DEF CompletionInv, Witnessed
  <2>2. RestsOn(proposed[f].evidence[k], k, a, proposed[f])
    BY <1>9 DEF Travelled
  <2> QED BY <1>2, <1>9, <2>1, <2>2 DEF AppendOnly, RestsOn, LocalsKept
<1>10. pc[f] = "verify_snapshot" => snapshots'[a] = proposed[f]
  <2>1. pc[f] = "verify_snapshot" => proposed[f] # NoRow
    BY <1>1, NoRowIsNoRow DEF ExecutorInv, EvaluationInHand
  <2> QED BY <1>2, <2>1 DEF Travelled, AppendOnly
<1> QED BY <1>3, <1>4, <1>5, <1>6, <1>7, <1>8, <1>9, <1>10 DEF Travelled, LocalsKept

\* An execution that ends has its locals reset.
LEMMA EndTravelled ==
  ASSUME ExecutorInv, NEW e \in Executors, NEW v, End(e, v),
         v \notin {"verification_failed", "invalid_input"}
  PROVE  Travelled(e)'
<1>1. pc'[e] = "idle" /\ step'[e] = 1 /\ verdict'[e] = v
  BY DEF ExecutorInv, ExecutorTypeOK, End
<1> QED BY <1>1 DEF Travelled

LEMMA RaiseTravelled ==
  ASSUME ExecutorInv, NEW e \in Executors, NEW v, Raise(e, v),
         v \notin {"verification_failed", "invalid_input"}
  PROVE  Travelled(e)'
BY EndTravelled DEF Raise

LEMMA BeginTravelled ==
  ASSUME ExecutorInv, NEW e \in Executors, NEW i \in ExecutionInputs, Begin(e, i),
         Travelled(e)
  PROVE  Travelled(e)'
<1>1. /\ pc'[e] \in {"idle", "persist_request"}
      /\ verdict'[e] \in {"none", "invalid_request"}
      /\ step'[e] = step[e] /\ pc[e] = "idle"
  BY DEF ExecutorInv, ExecutorTypeOK, Begin
<1> QED BY <1>1 DEF Travelled

LEMMA PersistRequestTravelled ==
  ASSUME Inv, AppendOnly, NEW e \in Executors, PersistRequest(e), Travelled(e), CompletionInv
  PROVE  Travelled(e)'
<1> DEFINE a == input[e].assessment
           r == input[e].request
<1>0. ExecutorInv /\ DatabaseTypeOK
  BY DEF Inv, DatabaseInv
<1>1. CASE Raise(e, RequestWrite(a, r)) /\ RequestWrite(a, r) = "conflicting_replay"
  BY <1>0, <1>1, RaiseTravelled
<1>2. CASE /\ RequestWrite(a, r) # "conflicting_replay"
           /\ Goto(e, "verify_request")
           /\ UNCHANGED <<input, step, collected, proposed, replaying>>
  <2>1. pc[e] = "persist_request" /\ WriteRequest(a, r)
    BY DEF PersistRequest
  <2>2. pc'[e] = "verify_request" /\ verdict'[e] = "none" /\ step'[e] = 1
    BY <1>0, <1>2, <2>1 DEF ExecutorInv, ExecutorTypeOK, Goto, Travelled, CompletionInv,
       Witnessed
  <2>3. a \in Assessments
    BY <1>0, <2>1, InputFields
  <2>4. requests'[a] = r
    BY <1>0, <1>2, <2>1, <2>3 DEF WriteRequest, RequestWrite, DatabaseTypeOK
  <2> QED BY <1>2, <2>2, <2>4 DEF Travelled
<1> QED BY <1>1, <1>2 DEF PersistRequest

LEMMA VerifyRequestTravelled ==
  ASSUME Inv, CompletionInv, NEW e \in Executors, VerifyRequest(e), Travelled(e)
  PROVE  Travelled(e)'
<1>0. ExecutorInv
  BY DEF Inv
<1>1. /\ Goto(e, "collect")
      /\ pc[e] = "verify_request"
      /\ UNCHANGED <<input, step, collected, proposed, replaying>>
  BY DEF VerifyRequest, Travelled
<1>2. pc'[e] = "collect" /\ verdict'[e] = "none" /\ step'[e] = 1
  BY <1>0, <1>1 DEF ExecutorInv, ExecutorTypeOK, Goto, Travelled, CompletionInv, Witnessed
<1>3. \A j \in Steps : ~(j < 1)
  BY FirstStep DEF Steps
<1> QED BY <1>2, <1>3 DEF Travelled

LEMMA CollectTravelled ==
  ASSUME Inv, NEW e \in Executors, NEW response \in Responses, Collect(e, response),
         Travelled(e)
  PROVE  Travelled(e)'
<1>0. ExecutorInv
  BY DEF Inv
<1>1. /\ pc[e] = "collect" /\ pc'[e] = "persist_collection"
      /\ verdict'[e] = verdict[e]
      /\ UNCHANGED <<input, step, attempts>>
  BY <1>0 DEF Collect, Goto, ExecutorInv, ExecutorTypeOK, database
<1>2. OwnAttempt(e)'
  BY <1>0 DEF Collect, OwnAttempt, KindAt, ExecutorInv, ExecutorTypeOK
<1>3. \A j \in Steps :
        Gathered(input[e].assessment, CollectionOrder[j], input[e].attemptedAt)
          => Gathered(input[e].assessment, CollectionOrder[j], input[e].attemptedAt)'
  BY <1>1 DEF Gathered
<1> QED BY <1>1, <1>2, <1>3 DEF Travelled

LEMMA OwnAttemptIsAccepted ==
  ASSUME Inv, CompletionInv, NEW e \in Executors, pc[e] = "persist_collection",
         Travelled(e)
  PROVE  CollectionWrite(collected[e]) \notin {"verification_failed", "invalid_input"}
<1>1. requests[input[e].assessment] = input[e].request
  BY DEF CompletionInv, Witnessed
<1>2. RepositoryMatches(collected[e])
  BY <1>1 DEF RepositoryMatches, Travelled, OwnAttempt
<1> QED BY <1>2 DEF CollectionWrite

LEMMA PersistCollectionTravelled ==
  ASSUME Inv, CompletionInv, AppendOnly, NEW e \in Executors, PersistCollection(e),
         Travelled(e)
  PROVE  Travelled(e)'
<1> DEFINE c == collected[e]
           status == CollectionWrite(c)
<1>0. ExecutorInv
  BY DEF Inv
<1>1. pc[e] = "persist_collection" /\ WriteCollection(c) /\ OwnAttempt(e)
  BY DEF PersistCollection, Travelled
<1>2. CASE Raise(e, status)
  BY <1>0, <1>1, <1>2, OwnAttemptIsAccepted, RaiseTravelled
<1>3. CASE /\ status \in {"inserted", "replayed"}
           /\ replaying' = [replaying EXCEPT ![e] = (status = "replayed")]
           /\ Goto(e, "verify_collection")
           /\ UNCHANGED <<input, step, collected, proposed>>
  <2>1. /\ pc'[e] = "verify_collection" /\ verdict'[e] = verdict[e]
        /\ replaying'[e] = (status = "replayed")
    BY <1>0, <1>3 DEF Goto, ExecutorInv, ExecutorTypeOK
  <2>2. OwnAttempt(e)'
    BY <1>1, <1>3 DEF OwnAttempt, KindAt
  <2>3. \A j \in Steps : j < step[e] =>
          Gathered(input[e].assessment, CollectionOrder[j], input[e].attemptedAt)'
    BY <1>1, <1>3 DEF Gathered, AppendOnly, Travelled
  <2>4. status = "inserted" => c \in attempts'
    BY <1>1 DEF WriteCollection
  <2>5. status = "replayed" => IdTaken(c)
    BY DEF CollectionWrite
  <2>6. IdTaken(c)'
    BY <1>3, <2>4, <2>5 DEF IdTaken, AppendOnly
  <2>7. replaying'[e] \/ collected'[e] \in attempts'
    <3>1. CASE status = "inserted"
      BY <1>3, <2>4, <3>1
    <3>2. CASE status = "replayed"
      BY <2>1, <3>2
    <3> QED BY <1>3, <3>1, <3>2
  <2> QED BY <1>3, <2>1, <2>2, <2>3, <2>6, <2>7 DEF Travelled
<1> QED BY <1>2, <1>3 DEF PersistCollection

\* What stands under the derived identifier is of the same kind, and is the attempt in
\* hand if the write inserted it.
LEMMA RereadFindsOwn ==
  ASSUME Inv, DerivedIdsAreFirst, NEW e \in Executors, pc[e] = "verify_collection",
         Travelled(e)
  PROVE  /\ CollectionReread(collected[e]) # "verification_failed"
         /\ CollectionReread(collected[e]) = "different" => replaying[e]
         /\ CollectionReread(collected[e]) = "verified" => collected[e] \in attempts
<1>1. KindAt(e) \in Kinds /\ input[e].assessment \in Assessments
  <2>1. step[e] \in 1..Len(CollectionOrder) /\ input[e].assessment \in Assessments
    BY InputFields DEF Inv, ExecutorInv, ExecutorTypeOK, Steps
  <2> QED BY <2>1, OrderCoversKinds DEF KindAt
<1>2. OwnAttempt(e) /\ IdTaken(collected[e])
  BY DEF Travelled
<1>3. PICK d \in attempts : d.id = collected[e].id
  BY <1>2 DEF IdTaken
<1>4. d.kind = collected[e].kind
  BY <1>1, <1>2, <1>3 DEF DerivedIdsAreFirst, OwnAttempt
<1>5. CollectionReread(collected[e]) # "verification_failed"
  BY <1>3, <1>4 DEF CollectionReread
<1>6. CollectionReread(collected[e]) = "verified" <=> collected[e] \in attempts
  BY DEF CollectionReread
<1> QED BY <1>5, <1>6 DEF Travelled

LEMMA VerifyCollectionTravelled ==
  ASSUME Inv, CompletionInv, DerivedIdsAreFirst, NEW e \in Executors, VerifyCollection(e),
         Travelled(e)
  PROVE  Travelled(e)'
<1> DEFINE c == collected[e]
           status == CollectionReread(c)
           a == input[e].assessment
           t == input[e].attemptedAt
<1>0. ExecutorInv /\ attempts' = attempts
  BY DEF Inv, VerifyCollection, database
<1>1. pc[e] = "verify_collection" /\ OwnAttempt(e)
  BY DEF VerifyCollection, Travelled
<1>2. /\ status # "verification_failed"
      /\ status = "different" => replaying[e]
      /\ status = "verified" => c \in attempts
  BY <1>1, RereadFindsOwn
<1>3. CASE Raise(e, "collection_failed") \/ Raise(e, "conflicting_replay")
  BY <1>0, <1>3, RaiseTravelled
<1>4. CASE status = "verified" /\ HasEvidence(c) /\ UNCHANGED <<input, proposed>>
             /\ Goto(e, "load_snapshot")
  <2>1. pc'[e] = "load_snapshot" /\ verdict'[e] = verdict[e]
    BY <1>0, <1>4 DEF Goto, ExecutorInv, ExecutorTypeOK
  <2> QED BY <1>1, <2>1 DEF Travelled
<1>5. CASE /\ status = "verified" /\ HasEvidence(c) /\ UNCHANGED <<input, proposed>>
           /\ Goto(e, "collect")
           /\ step' = [step EXCEPT ![e] = @ + 1]
  <2>1. pc'[e] = "collect" /\ verdict'[e] = verdict[e] /\ step'[e] = step[e] + 1
    BY <1>0, <1>5 DEF Goto, ExecutorInv, ExecutorTypeOK
  <2>2. Gathered(a, CollectionOrder[step[e]], t)
    BY <1>1, <1>2, <1>5 DEF Gathered, OwnAttempt, KindAt, HasEvidence, EvidenceOutcomes
  <2>3. ASSUME NEW j \in Steps, j < step'[e]
        PROVE  Gathered(a, CollectionOrder[j], t)'
    <3>1. j < step[e] \/ j = step[e]
      BY <1>0, <2>1, <2>3, FirstStep DEF ExecutorInv, ExecutorTypeOK
    <3>2. Gathered(a, CollectionOrder[j], t)
      BY <1>1, <2>2, <3>1 DEF Travelled
    <3> QED BY <1>0, <1>5, <3>2 DEF Gathered
  <2> QED BY <1>1, <1>5, <2>1, <2>3 DEF Travelled
<1> QED BY <1>2, <1>3, <1>4, <1>5 DEF VerifyCollection

\* A label at which nothing is asked of an execution but its verdict.
LEMMA GotoTravelled ==
  ASSUME ExecutorInv, NEW e \in Executors, NEW l \in {"load_snapshot", "evaluate", "reevaluate"},
         Goto(e, l), Travelled(e)
  PROVE  Travelled(e)'
<1>1. pc'[e] = l /\ verdict'[e] = verdict[e]
  BY DEF Goto, ExecutorInv, ExecutorTypeOK
<1> QED BY <1>1 DEF Travelled

LEMMA ReadErrorsAreHarmless ==
  {"verification_failed", "invalid_input"} \intersect ReadErrors = {}
BY DEF ReadErrors

LEMMA LoadSnapshotTravelled ==
  ASSUME Inv, NEW e \in Executors, LoadSnapshot(e), Travelled(e)
  PROVE  Travelled(e)'
<1> DEFINE a == input[e].assessment
<1>0. ExecutorInv /\ DatabaseInv
  BY DEF Inv
<1>1. a \in Assessments
  BY <1>0, InputFields DEF LoadSnapshot
<1>2. \/ Goto(e, "reevaluate") \/ Goto(e, "evaluate")
      \/ /\ SnapshotStatus(a) \notin {"verified", "evaluation_not_found"}
         /\ Raise(e, SnapshotStatus(a))
  BY DEF LoadSnapshot
<1>3. SnapshotStatus(a) \notin {"verification_failed", "invalid_input"}
  BY <1>0, <1>1, NoSnapshotFails, ReadErrorsAreHarmless
<1> QED BY <1>0, <1>2, <1>3, GotoTravelled, RaiseTravelled

LEMMA EvaluateFirstTravelled ==
  ASSUME Inv, NEW e \in Executors, NEW t \in Times, EvaluateFirst(e, t), Travelled(e)
  PROVE  Travelled(e)'
<1> DEFINE a == input[e].assessment
           v == Evaluate(a, EvidenceSet(a), t)
<1>0. ExecutorInv /\ UNCHANGED database
  BY DEF Inv, EvaluateFirst
<1>1. a \in Assessments
  BY <1>0, InputFields DEF EvaluateFirst
<1>2. EvidenceStatus(a) \notin {"verification_failed", "invalid_input"}
  BY EvidenceStatusRange, ReadErrorsAreHarmless
<1>3. CASE Raise(e, "evaluation_error") \/ Raise(e, EvidenceStatus(a))
  BY <1>0, <1>2, <1>3, RaiseTravelled
<1>4. CASE /\ EvidenceStatus(a) = "verified"
           /\ CanEvaluate(EvidenceSet(a), t)
           /\ proposed' = [proposed EXCEPT ![e] = v]
           /\ Goto(e, "persist_snapshot")
           /\ UNCHANGED <<input, step, collected, replaying>>
  <2>1. pc'[e] = "persist_snapshot" /\ verdict'[e] = verdict[e] /\ proposed'[e] = v
    BY <1>0, <1>4 DEF Goto, ExecutorInv, ExecutorTypeOK
  <2>2. v.assessment = a /\ \A k \in Kinds : RestsOn(v.evidence[k], k, a, v)
    BY <1>1, <1>4, ComputedRests
  <2> HIDE DEF v
  <2>3. ASSUME NEW k \in Kinds
        PROVE  RestsOn(proposed[e].evidence[k], k, input[e].assessment, proposed[e])'
    <3>1. RestsOn(v.evidence[k], k, a, v)
      BY <2>2
    <3>2. requests' = requests /\ attempts' = attempts /\ input' = input
      BY <1>0, <1>4 DEF database
    <3> QED BY <2>1, <3>1, <3>2 DEF RestsOn
  <2> QED BY <1>4, <2>1, <2>2, <2>3 DEF Travelled
<1> QED BY <1>3, <1>4 DEF EvaluateFirst

LEMMA PersistSnapshotTravelled ==
  ASSUME Inv, NEW e \in Executors, PersistSnapshot(e), Travelled(e)
  PROVE  Travelled(e)'
<1> DEFINE a == input[e].assessment
           v == proposed[e]
           status == SnapshotWrite(v)
<1>0. ExecutorInv /\ DatabaseInv /\ DatabaseTypeOK
  BY DEF Inv, DatabaseInv
<1>1. /\ pc[e] = "persist_snapshot" /\ WriteSnapshot(v) /\ v \in Evaluation
      /\ a \in Assessments /\ v.assessment = a
      /\ \A k \in Kinds : RestsOn(v.evidence[k], k, a, v)
  BY <1>0, InputFields DEF PersistSnapshot, ExecutorInv, EvaluationInHand, Travelled
<1>2. status \notin {"verification_failed", "invalid_input"}
  BY <1>0, <1>1, RestingIsAccepted
<1>3. CASE Raise(e, status)
  BY <1>0, <1>2, <1>3, RaiseTravelled
<1>4. CASE /\ status \in {"inserted", "replayed"}
           /\ Goto(e, "verify_snapshot")
           /\ UNCHANGED <<input, step, collected, proposed>>
  <2>1. pc'[e] = "verify_snapshot" /\ verdict'[e] = verdict[e]
    BY <1>0, <1>4 DEF Goto, ExecutorInv, ExecutorTypeOK
  <2>2. CASE status = "inserted"
    <3>1. snapshots'[a] = v
      BY <1>0, <1>1, <2>2 DEF WriteSnapshot, DatabaseTypeOK
    <3> QED BY <1>4, <2>1, <3>1 DEF Travelled
  <2>3. CASE status = "replayed"
    <3>1. RepeatedEvaluation(v) = "replayed"
      BY <2>3, EvidenceStatusRange DEF SnapshotWrite, ReadErrors
    <3>2. snapshots[a] = v
      BY <1>1, <3>1, SnapshotStatusRange DEF RepeatedEvaluation, ReadErrors
    <3>3. snapshots' = snapshots
      BY <1>1, <2>3 DEF WriteSnapshot
    <3> QED BY <1>4, <2>1, <3>2, <3>3 DEF Travelled
  <2> QED BY <1>4, <2>2, <2>3
<1> QED BY <1>3, <1>4 DEF PersistSnapshot

LEMMA EndingsTravelled ==
  ASSUME Inv, NEW e \in Executors, VerifySnapshot(e) \/ EvaluateAgain(e), Travelled(e)
  PROVE  Travelled(e)'
<1> DEFINE a == input[e].assessment
<1>0. ExecutorInv /\ DatabaseInv
  BY DEF Inv
<1>1. a \in Assessments
  BY <1>0, InputFields DEF VerifySnapshot, EvaluateAgain
<1>2. /\ SnapshotStatus(a) \notin {"verification_failed", "invalid_input"}
      /\ EvidenceStatus(a) \notin {"verification_failed", "invalid_input"}
  BY <1>0, <1>1, NoSnapshotFails, EvidenceStatusRange, ReadErrorsAreHarmless
<1>3. \/ End(e, "complete") \/ Raise(e, "evaluation_error")
      \/ Raise(e, SnapshotStatus(a)) \/ Raise(e, EvidenceStatus(a))
  <2>1. CASE VerifySnapshot(e)
    <3>1. snapshots[a] = proposed[e]
      BY <2>1 DEF VerifySnapshot, Travelled
    <3> QED BY <2>1, <3>1 DEF VerifySnapshot, Complete
  <2>2. CASE EvaluateAgain(e)
    BY <2>2 DEF EvaluateAgain, Complete
  <2> QED BY <2>1, <2>2
<1> QED BY <1>0, <1>2, <1>3, EndTravelled, RaiseTravelled

LEMMA StepTravelled ==
  ASSUME Inv, CompletionInv, DerivedIdsAreFirst, AppendOnly,
         NEW e \in Executors, ExecutorStep(e) \/ ExecutorFault(e), Travelled(e)
  PROVE  Travelled(e)'
<1>0. ExecutorInv
  BY DEF Inv
<1>1. CASE ExecutorFault(e)
  <2>1. Raise(e, "storage_error") \/ Raise(e, "crashed")
    BY <1>1 DEF ExecutorFault, StorageFault, Crash
  <2> QED BY <1>0, <2>1, RaiseTravelled
<1>2. CASE \E i \in ExecutionInputs : Begin(e, i)
  BY <1>0, <1>2, BeginTravelled
<1>3. CASE PersistRequest(e) \/ VerifyRequest(e)
             \/ \E response \in Responses : Collect(e, response)
  BY <1>3, PersistRequestTravelled, VerifyRequestTravelled, CollectTravelled
<1>4. CASE PersistCollection(e) \/ VerifyCollection(e)
  BY <1>4, PersistCollectionTravelled, VerifyCollectionTravelled
<1>5. CASE LoadSnapshot(e) \/ \E t \in Times : EvaluateFirst(e, t)
  BY <1>5, LoadSnapshotTravelled, EvaluateFirstTravelled
<1>6. CASE PersistSnapshot(e) \/ VerifySnapshot(e) \/ EvaluateAgain(e)
  BY <1>6, PersistSnapshotTravelled, EndingsTravelled
<1>7. CASE OpenRefused(e)
  BY <1>0, <1>7, RaiseTravelled DEF OpenRefused
<1> QED BY <1>1, <1>2, <1>3, <1>4, <1>5, <1>6, <1>7 DEF ExecutorStep, Advance

LEMMA OthersKeepLocals ==
  ASSUME ExecutorInv, NEW e \in Executors, NEW f \in Executors, e # f,
         ExecutorStep(e) \/ ExecutorFault(e)
  PROVE  LocalsKept(f)
<1> USE DEF ExecutorInv, ExecutorTypeOK, LocalsKept
<1>1. ASSUME NEW v, End(e, v), input' = input,
             proposed' = proposed \/ proposed' = [proposed EXCEPT ![e] = NoValue]
      PROVE  LocalsKept(f)
  BY <1>1 DEF End
<1>2. ASSUME NEW v, Raise(e, v) \/ Complete(e)
      PROVE  LocalsKept(f)
  BY <1>1, <1>2 DEF Raise, Complete
<1>3. ASSUME NEW l, Goto(e, l), input' = input, NEW m, NEW c, NEW v, NEW b,
             step' = step \/ step' = [step EXCEPT ![e] = m],
             collected' = collected \/ collected' = [collected EXCEPT ![e] = c],
             proposed' = proposed \/ proposed' = [proposed EXCEPT ![e] = v],
             replaying' = replaying \/ replaying' = [replaying EXCEPT ![e] = b]
      PROVE  LocalsKept(f)
  BY <1>3 DEF Goto
<1> DEFINE Moves ==
      \E l, m, c, v, b :
        /\ Goto(e, l) /\ input' = input
        /\ step' = step \/ step' = [step EXCEPT ![e] = m]
        /\ collected' = collected \/ collected' = [collected EXCEPT ![e] = c]
        /\ proposed' = proposed \/ proposed' = [proposed EXCEPT ![e] = v]
        /\ replaying' = replaying \/ replaying' = [replaying EXCEPT ![e] = b]
           Ends == \E v : Raise(e, v) \/ Complete(e)
<1>4. Moves \/ Ends => LocalsKept(f)
  BY <1>2, <1>3
<1> HIDE DEF ExecutorInv, ExecutorTypeOK, LocalsKept
<1>5. CASE \E i \in ExecutionInputs : Begin(e, i)
  BY <1>5 DEF Begin, ExecutorInv, ExecutorTypeOK, LocalsKept
<1>6. CASE PersistRequest(e)
  BY <1>4, <1>6 DEF PersistRequest
<1>7. CASE VerifyRequest(e)
  BY <1>4, <1>7 DEF VerifyRequest
<1>8. CASE \E response \in Responses : Collect(e, response)
  BY <1>8 DEF Collect, Goto, ExecutorInv, ExecutorTypeOK, LocalsKept
<1>9. CASE PersistCollection(e)
  BY <1>4, <1>9 DEF PersistCollection
<1>10. CASE VerifyCollection(e)
  BY <1>4, <1>10 DEF VerifyCollection
<1>11. CASE LoadSnapshot(e)
  BY <1>4, <1>11 DEF LoadSnapshot
<1>12. CASE \E t \in Times : EvaluateFirst(e, t)
  BY <1>4, <1>12 DEF EvaluateFirst
<1>13. CASE PersistSnapshot(e)
  BY <1>4, <1>13 DEF PersistSnapshot
<1>14. CASE VerifySnapshot(e)
  BY <1>4, <1>14 DEF VerifySnapshot
<1>15. CASE EvaluateAgain(e)
  BY <1>4, <1>15 DEF EvaluateAgain
<1>16. CASE ExecutorFault(e)
  BY <1>4, <1>16 DEF ExecutorFault, StorageFault, Crash
<1>17. CASE OpenRefused(e)
  BY <1>4, <1>17 DEF OpenRefused
<1> HIDE DEF Moves, Ends
<1> QED BY <1>5, <1>6, <1>7, <1>8, <1>9, <1>10, <1>11, <1>12, <1>13, <1>14, <1>15, <1>16, <1>17
        DEF ExecutorStep, Advance

-----------------------------------------------------------------------------
(* The database: which attempts are stored. *)

\* What an execution collected, and what a library caller named by itself.
Collected(d) == \E e \in Executors : pc[e] = "persist_collection" /\ d = collected[e]

ForeignId(d) == \A a \in Assessments : \A k \in Kinds : d.id # WorkflowAttemptId[a][k]

LEMMA ExecutorsStoreCollected ==
  ASSUME NEW e \in Executors, ExecutorStep(e) \/ ExecutorFault(e)
  PROVE  /\ \A d \in attempts' \ attempts : Collected(d)
         /\ pc[e] # "persist_collection" => UNCHANGED attempts
<1>1. \/ UNCHANGED attempts
      \/ pc[e] = "persist_collection" /\ WriteCollection(collected[e])
  BY DEF ExecutorStep, ExecutorFault, Advance, Begin, OpenRefused, PersistRequest,
     WriteRequest, VerifyRequest, Collect, PersistCollection, VerifyCollection, LoadSnapshot,
     EvaluateFirst, PersistSnapshot, WriteSnapshot, VerifySnapshot, EvaluateAgain,
     StorageFault, Crash, database
<1> QED BY <1>1 DEF WriteCollection, Collected

LEMMA ReviewersOnlyDecide ==
  ASSUME NEW r \in Reviewers, ReviewerStep(r) \/ ReviewFault(r)
  PROVE  UNCHANGED <<requests, attempts, snapshots, executorState>>
BY DEF ReviewerStep, ReviewFault, Review, BeginDecide, ReviewerAdvance,
   DecideRefused, LoadForDecision, PersistDecision, WriteDecision, VerifyDecision, ReviewerFault, database

\* An attempt is stored by the execution that collected it, or by a library caller.
LEMMA NewAttempts ==
  ASSUME [Next]_vars, NEW d \in attempts' \ attempts
  PROVE  Collected(d) \/ d \in LibraryCollections
<1>1. CASE UNCHANGED attempts
  BY <1>1
<1>2. CASE \E c \in LibraryCollections : LibraryPersist(c)
  BY <1>2 DEF LibraryPersist, WriteCollection
<1> QED BY <1>1, <1>2, ExecutorsStoreCollected, ReviewersOnlyDecide DEF Next, vars, database

LEMMA DerivedIdsStayFirst ==
  ASSUME Inv, DerivedIdsAreFirst, \A e \in Executors : Travelled(e),
         \A d \in attempts' \ attempts : Collected(d) \/ ForeignId(d)
  PROVE  DerivedIdsAreFirst'
<1> SUFFICES ASSUME NEW c \in attempts', NEW a \in Assessments, NEW k \in Kinds,
                    c.id = WorkflowAttemptId[a][k]
             PROVE  c.assessment = a /\ c.kind = k
  BY DEF DerivedIdsAreFirst
<1>1. CASE c \in attempts
  BY <1>1 DEF DerivedIdsAreFirst
<1>2. CASE Collected(c)
  <2>1. PICK e \in Executors : pc[e] = "persist_collection" /\ c = collected[e]
    BY <1>2 DEF Collected
  <2>2. KindAt(e) \in Kinds /\ input[e].assessment \in Assessments
    <3>1. step[e] \in 1..Len(CollectionOrder) /\ input[e].assessment \in Assessments
      BY <2>1, InputFields DEF Inv, ExecutorInv, ExecutorTypeOK, Steps
    <3> QED BY <3>1, OrderCoversKinds DEF KindAt
  <2>3. OwnAttempt(e)
    BY <2>1 DEF Travelled
  <2> QED BY <2>1, <2>2, <2>3, AttemptIdsAreDigests DEF OwnAttempt
<1>3. CASE ForeignId(c)
  BY <1>3 DEF ForeignId
<1> QED BY <1>1, <1>2, <1>3

LEMMA CollectionsStayOneRun ==
  ASSUME LibraryRetries, Inv, AppendOnly, OneCollectionRun, [Next]_vars,
         \A e \in Executors : Travelled(e)
  PROVE  OneCollectionRun'
<1> SUFFICES ASSUME NEW c \in attempts', c.number = 1, NEW i \in Steps, NEW j \in Steps,
                    CollectionOrder[i] = c.kind, j < i
             PROVE  Gathered(c.assessment, CollectionOrder[j], c.attemptedAt)'
  BY DEF OneCollectionRun, Gathered
<1>1. CASE c \in attempts
  <2>1. Gathered(c.assessment, CollectionOrder[j], c.attemptedAt)
    BY <1>1 DEF OneCollectionRun, Gathered
  <2> QED BY <2>1 DEF Gathered, AppendOnly
<1>2. CASE Collected(c)
  <2>1. PICK e \in Executors : pc[e] = "persist_collection" /\ c = collected[e]
    BY <1>2 DEF Collected
  <2>2. step[e] \in Steps
    BY DEF Inv, ExecutorInv, ExecutorTypeOK
  <2>3. OwnAttempt(e)
    BY <2>1 DEF Travelled
  <2>4. step[e] = i
    <3>1. CollectionOrder[step[e]] = CollectionOrder[i]
      BY <2>1, <2>3 DEF OwnAttempt, KindAt
    <3>2. \A m, n \in Steps : CollectionOrder[m] = CollectionOrder[n] => m = n
      BY OrderCoversKinds DEF Steps
    <3> QED BY <2>2, <3>1, <3>2
  <2>5. Gathered(c.assessment, CollectionOrder[j], c.attemptedAt)
    BY <2>1, <2>3, <2>4 DEF Travelled, OwnAttempt
  <2> QED BY <2>5 DEF Gathered, AppendOnly
<1>3. CASE c \in LibraryCollections
  BY <1>3 DEF LibraryRetries
<1> QED BY <1>1, <1>2, <1>3, NewAttempts

-----------------------------------------------------------------------------
(* The system. *)

RunInv == DerivedIdsAreFirst /\ \A e \in Executors : Travelled(e)

LEMMA RunInvHoldsInitially ==
  ASSUME Init
  PROVE  RunInv /\ NoReviewerMisled /\ OneCollectionRun
<1>1. DerivedIdsAreFirst /\ OneCollectionRun
  BY DEF Init, DatabaseInit, DerivedIdsAreFirst, OneCollectionRun
<1>2. \A e \in Executors : Travelled(e)
  BY DEF Init, ExecutorInit, Travelled
<1>3. NoReviewerMisled
  BY DEF Init, ReviewerInit, NoReviewerMisled
<1> QED BY <1>1, <1>2, <1>3 DEF RunInv

LEMMA RunInvIsInductive ==
  ASSUME Inv, CompletionInv, RunInv, [Next]_vars,
         \A d \in attempts' \ attempts : Collected(d) \/ ForeignId(d)
  PROVE  RunInv'
<1>1. AppendOnly /\ ExecutorInv
  BY InvIsInductive DEF Inv
<1>2. DerivedIdsAreFirst'
  BY DerivedIdsStayFirst DEF RunInv
<1>3. ASSUME NEW f \in Executors, LocalsKept(f)
      PROVE  Travelled(f)'
  BY <1>1, <1>3, KeptTravelled DEF RunInv
<1>4. ASSUME NEW e \in Executors, ExecutorStep(e) \/ ExecutorFault(e)
      PROVE  \A f \in Executors : Travelled(f)'
  <2>1. Travelled(e)'
    BY <1>1, <1>4, StepTravelled DEF RunInv
  <2>2. ASSUME NEW f \in Executors, f # e
        PROVE  Travelled(f)'
    BY <1>1, <1>3, <1>4, <2>2, OthersKeepLocals
  <2> QED BY <2>1, <2>2
<1>5. ASSUME UNCHANGED executorState
      PROVE  \A f \in Executors : Travelled(f)'
  <2>1. \A f \in Executors : LocalsKept(f)
    BY <1>5 DEF executorState, LocalsKept
  <2> QED BY <1>3, <2>1
<1>6. \/ \E e \in Executors : ExecutorStep(e) \/ ExecutorFault(e)
      \/ UNCHANGED executorState
  BY DEF Next, vars, ReviewerStep, ReviewFault, LibraryPersist
<1>7. \A f \in Executors : Travelled(f)'
  BY <1>4, <1>5, <1>6
<1> QED BY <1>2, <1>7 DEF RunInv

LEMMA SpecKeepsCompletionInv == Spec => []CompletionInv
<1>1. Init => CompletionInv
  BY DEF Init, ExecutorInit, CompletionInv, Witnessed
<1> QED BY <1>1, CompletionInvIsInductive, SpecKeepsInv, PTL DEF Spec

LEMMA SpecKeepsRecordInv == Spec => []RecordInv
<1>1. Init => RecordInv
  BY DEF Init, ReviewerInit, RecordInv, OneRecorder, Recorder, Informed
<1> QED BY <1>1, RecordInvIsInductive, SpecKeepsInv, PTL DEF Spec

\* Whoever else works on the file, neither an execution nor a decision reports damage: every
\* reread of persistence.py finds what its write, or an earlier one, left there.
THEOREM NothingIsTakenForDamage == LibraryNamesItsOwn => (Spec => []NoFalseCorruption)
<1> SUFFICES ASSUME LibraryNamesItsOwn PROVE Spec => []NoFalseCorruption
  OBVIOUS
<1>1. Init => RunInv /\ NoReviewerMisled
  BY RunInvHoldsInitially
<1>2. Inv /\ CompletionInv /\ RunInv /\ [Next]_vars => RunInv'
  BY RunInvIsInductive, NewAttempts DEF LibraryNamesItsOwn, ForeignId
<1>3. Inv /\ RecordInv /\ NoReviewerMisled /\ [Next]_vars => NoReviewerMisled'
  BY ReviewersStayTold
<1>4. RunInv /\ NoReviewerMisled => NoFalseCorruption
  BY DEF RunInv, Travelled, NoReviewerMisled, NoFalseCorruption
<1> QED BY <1>1, <1>2, <1>3, <1>4, SpecKeepsInv, SpecKeepsCompletionInv,
           SpecKeepsRecordInv, PTL DEF Spec

\* However many executors share an assessment and wherever they stop, the attempts that
\* execute_assessment stores are one run through the collection order.
THEOREM CollectionsAreOneRun ==
  LibraryNamesItsOwn /\ LibraryRetries => (Spec => []OneCollectionRun)
<1> SUFFICES ASSUME LibraryNamesItsOwn, LibraryRetries PROVE Spec => []OneCollectionRun
  OBVIOUS
<1>1. Init => RunInv /\ OneCollectionRun
  BY RunInvHoldsInitially
<1>2. Inv /\ CompletionInv /\ RunInv /\ [Next]_vars => RunInv'
  BY RunInvIsInductive, NewAttempts DEF LibraryNamesItsOwn, ForeignId
<1>3. Inv /\ RunInv /\ OneCollectionRun /\ [Next]_vars => OneCollectionRun'
  BY InvIsInductive, CollectionsStayOneRun DEF RunInv
<1> QED BY <1>1, <1>2, <1>3, SpecKeepsInv, SpecKeepsCompletionInv, PTL DEF Spec
=============================================================================
