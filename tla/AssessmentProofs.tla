-------------------------- MODULE AssessmentProofs --------------------------
(***************************************************************************)
(* Theorems of AssessmentSystem for every set of executors, reviewers,     *)
(* assessments, kinds and values.  Everything about the database follows   *)
(* from one fact: a step of the system either leaves the database alone or *)
(* is one of its four write transactions on well typed arguments.  Each of *)
(* these is a step of AssessmentLedger or leaves it alone.                 *)
(***************************************************************************)
EXTENDS AssessmentSystem, TLAPS

-----------------------------------------------------------------------------
(* Strengthening of the type invariant: what a process holds at its label. *)

\* A running executor holds a request that passed validation.
InputInHand ==
  \A e \in Executors : pc[e] # "idle" =>
    input[e] \in ExecutionInputs /\ input[e].request \in Request

\* A collection is in hand from the collector to the reread.
CollectionInHand ==
  \A e \in Executors :
    pc[e] \in {"persist_collection", "verify_collection"} => collected[e] \in Collection

\* An evaluation is in hand from its calculation, or its load, to the end.
EvaluationInHand ==
  \A e \in Executors :
    pc[e] \in {"persist_snapshot", "verify_snapshot", "reevaluate"} =>
      proposed[e] \in Evaluation

\* A command that decides has complete content, and a transaction that succeeded a decision.
DecisionInHand ==
  \A r \in Reviewers :
    /\ at[r] # "idle" => submitted[r] \in DecisionContent
    /\ at[r] = "verify" => held[r] \in Decision

ExecutorInv == ExecutorTypeOK /\ InputInHand /\ CollectionInHand /\ EvaluationInHand

ReviewerInv == ReviewerTypeOK /\ DecisionInHand

-----------------------------------------------------------------------------
(* What the reads and the statuses return. *)

ReadErrors ==
  {"request_not_found", "evidence_set_ambiguous", "evidence_set_incomplete"}

LEMMA ChoiceIsMember ==
  ASSUME NEW S, S # {}
  PROVE  (CHOOSE c \in S : TRUE) \in S
OBVIOUS

\* The status of an evidence set is "verified" or one of its three errors.
LEMMA EvidenceStatusRange ==
  ASSUME NEW a
  PROVE  EvidenceStatus(a) \in {"verified"} \union ReadErrors
BY DEF EvidenceStatus, ReadErrors

LEMMA SnapshotStatusRange ==
  ASSUME NEW a
  PROVE  SnapshotStatus(a) \in
           {"verified", "evaluation_not_found", "verification_failed"} \union ReadErrors
BY EvidenceStatusRange DEF SnapshotStatus

LEMMA DecisionStatusRange ==
  ASSUME NEW a
  PROVE  DecisionStatus(a) \in
           {"verified", "decision_not_found", "evaluation_not_found",
            "verification_failed"} \union ReadErrors
BY SnapshotStatusRange DEF DecisionStatus

LEMMA CollectionWriteRange ==
  ASSUME NEW c
  PROVE  CollectionWrite(c) \in
           {"request_not_found", "invalid_input", "replayed", "conflicting_replay",
            "inserted"}
BY DEF CollectionWrite

LEMMA SnapshotWriteRange ==
  ASSUME NEW v
  PROVE  SnapshotWrite(v) \in
           {"inserted", "replayed", "conflicting_replay", "invalid_input",
            "evaluation_not_found", "verification_failed"} \union ReadErrors
<1>1. RepeatedEvaluation(v) \in
        {"replayed", "conflicting_replay", "evaluation_not_found",
         "verification_failed"} \union ReadErrors
  BY SnapshotStatusRange DEF RepeatedEvaluation
<1> QED BY <1>1, EvidenceStatusRange DEF SnapshotWrite

LEMMA DecisionWriteRange ==
  ASSUME NEW content, NEW t
  PROVE  DecisionWrite(content, t) \in
           {"inserted", "replayed", "conflicting_replay", "invalid_input",
            "decision_not_found", "evaluation_not_found",
            "verification_failed"} \union ReadErrors
<1>1. RepeatedDecision(content) \in
        {"replayed", "conflicting_replay", "decision_not_found", "evaluation_not_found",
         "verification_failed"} \union ReadErrors
  BY DecisionStatusRange DEF RepeatedDecision
<1>2. FirstDecision(content, t) \in {"inserted", "invalid_input"}
  BY DEF FirstDecision
<1>3. SnapshotStatus(content.assessment) \in
        {"verified", "evaluation_not_found", "verification_failed"} \union ReadErrors
  BY SnapshotStatusRange
<1> QED BY <1>1, <1>2, <1>3 DEF DecisionWrite, ReadErrors

-----------------------------------------------------------------------------
(* The evidence set and the evaluation of a verified assessment. *)

\* A verified evidence set holds, for each kind, an attempt that the store has.
LEMMA EvidenceSetIsStored ==
  ASSUME NEW a, EvidenceStatus(a) = "verified"
  PROVE  /\ requests[a] # NoRow
         /\ EvidenceSet(a) = [k \in Kinds |-> EvidenceSet(a)[k]]
         /\ \A k \in Kinds : EvidenceSet(a)[k] \in EvidenceRows(a, k)
<1>1. \A k \in Kinds : EvidenceRows(a, k) # {}
  BY DEF EvidenceStatus
<1>2. ASSUME NEW k \in Kinds
      PROVE  (CHOOSE c \in EvidenceRows(a, k) : TRUE) \in EvidenceRows(a, k)
  BY <1>1, ChoiceIsMember
<1>3. requests[a] # NoRow
  BY DEF EvidenceStatus
<1>4. EvidenceSet(a) = [k \in Kinds |-> CHOOSE c \in EvidenceRows(a, k) : TRUE]
  BY DEF EvidenceSet
<1>5. \A k \in Kinds : EvidenceSet(a)[k] = CHOOSE c \in EvidenceRows(a, k) : TRUE
  BY <1>4
<1>6. EvidenceSet(a) = [k \in Kinds |-> EvidenceSet(a)[k]]
  BY <1>4
<1> QED BY <1>2, <1>3, <1>5, <1>6

LEMMA EvaluationIsTyped ==
  ASSUME DatabaseTypeOK, NEW a \in Assessments, NEW t \in Times,
         EvidenceStatus(a) = "verified"
  PROVE  Evaluate(a, EvidenceSet(a), t) \in Evaluation
<1>1. \A k \in Kinds : EvidenceSet(a)[k] \in Collection
  BY EvidenceSetIsStored DEF EvidenceRows, DatabaseTypeOK
<1>2. EvidenceSet(a) \in [Kinds -> Collection]
  BY <1>1, EvidenceSetIsStored
<1>3. NonPassing(requests[a].context, EvidenceSet(a), t) \in SUBSET Kinds
  BY DEF NonPassing
<1> QED BY <1>2, <1>3 DEF Evaluate, Evaluation

-----------------------------------------------------------------------------
(* The four write transactions. *)

DatabaseStep ==
  \/ UNCHANGED database
  \/ \E a \in Assessments, r \in Request : WriteRequest(a, r)
  \/ \E c \in Collection : WriteCollection(c)
  \/ \E v \in Evaluation : WriteSnapshot(v)
  \/ \E content \in DecisionContent, t \in Times : WriteDecision(content, t)

LEMMA DatabaseStaysTyped ==
  ASSUME DatabaseTypeOK, DatabaseStep
  PROVE  DatabaseTypeOK'
<1>1. CASE UNCHANGED database
  BY <1>1 DEF DatabaseTypeOK, database
<1>2. CASE \E a \in Assessments, r \in Request : WriteRequest(a, r)
  BY <1>2 DEF DatabaseTypeOK, WriteRequest
<1>3. CASE \E c \in Collection : WriteCollection(c)
  BY <1>3 DEF DatabaseTypeOK, WriteCollection
<1>4. CASE \E v \in Evaluation : WriteSnapshot(v)
  <2>1. PICK v \in Evaluation : WriteSnapshot(v)
    BY <1>4
  <2>2. v.assessment \in Assessments
    BY DEF Evaluation
  <2> QED BY <2>1, <2>2 DEF DatabaseTypeOK, WriteSnapshot
<1>5. CASE \E content \in DecisionContent, t \in Times : WriteDecision(content, t)
  <2>1. PICK content \in DecisionContent, t \in Times : WriteDecision(content, t)
    BY <1>5
  <2>2. /\ content.assessment \in Assessments
        /\ [content |-> content, recordedAt |-> t] \in Decision
    BY DEF DecisionContent, Decision
  <2> QED BY <2>1, <2>2 DEF DatabaseTypeOK, WriteDecision
<1> QED BY <1>1, <1>2, <1>3, <1>4, <1>5 DEF DatabaseStep

\* An evaluation is inserted only where none is, and only as the store yields it.
LEMMA InsertedEvaluation ==
  ASSUME NEW v, SnapshotWrite(v) = "inserted"
  PROVE  /\ EvidenceStatus(v.assessment) = "verified"
         /\ CanEvaluate(EvidenceSet(v.assessment), v.evaluatedAt)
         /\ v = Evaluate(v.assessment, EvidenceSet(v.assessment), v.evaluatedAt)
         /\ snapshots[v.assessment] = NoRow
<1>1. RepeatedEvaluation(v) # "inserted"
  <2>1. SnapshotStatus(v.assessment) # "inserted"
    BY SnapshotStatusRange DEF ReadErrors
  <2> QED BY <2>1 DEF RepeatedEvaluation
<1>2. EvidenceStatus(v.assessment) # "inserted"
  BY EvidenceStatusRange DEF ReadErrors
<1> QED BY <1>1, <1>2 DEF SnapshotWrite

\* A decision is inserted only where none is, on a verified evaluation, and not before it.
LEMMA InsertedDecision ==
  ASSUME NEW content, NEW t, DecisionWrite(content, t) = "inserted"
  PROVE  /\ requests[content.assessment] # NoRow
         /\ snapshots[content.assessment] # NoRow
         /\ SnapshotStatus(content.assessment) = "verified"
         /\ decisions[content.assessment] = NoRow
         /\ ContentValid(content, requests[content.assessment],
                         snapshots[content.assessment])
         /\ t >= snapshots[content.assessment].evaluatedAt
<1>1. RepeatedDecision(content) # "inserted"
  <2>1. DecisionStatus(content.assessment) # "inserted"
    BY DecisionStatusRange DEF ReadErrors
  <2> QED BY <2>1 DEF RepeatedDecision
<1>2. SnapshotStatus(content.assessment) # "inserted"
  BY SnapshotStatusRange DEF ReadErrors
<1>3. SnapshotStatus(content.assessment) = "verified" => snapshots[content.assessment] # NoRow
  BY DEF SnapshotStatus
<1> QED BY <1>1, <1>2, <1>3 DEF DecisionWrite, FirstDecision

\* No write transaction changes a row that is there.
LEMMA StepsAppend ==
  ASSUME DatabaseTypeOK, DatabaseStep
  PROVE  AppendOnly
<1>1. CASE UNCHANGED database
  BY <1>1 DEF AppendOnly, database
<1>2. CASE \E a \in Assessments, r \in Request : WriteRequest(a, r)
  <2>1. PICK a \in Assessments, r \in Request : WriteRequest(a, r)
    BY <1>2
  <2>2. RequestWrite(a, r) = "inserted" => requests[a] = NoRow
    BY DEF RequestWrite
  <2> QED BY <2>1, <2>2 DEF AppendOnly, WriteRequest, DatabaseTypeOK
<1>3. CASE \E c \in Collection : WriteCollection(c)
  BY <1>3 DEF AppendOnly, WriteCollection
<1>4. CASE \E v \in Evaluation : WriteSnapshot(v)
  <2>1. PICK v \in Evaluation : WriteSnapshot(v)
    BY <1>4
  <2>2. SnapshotWrite(v) = "inserted" => snapshots[v.assessment] = NoRow
    BY InsertedEvaluation
  <2> QED BY <2>1, <2>2 DEF AppendOnly, WriteSnapshot, DatabaseTypeOK
<1>5. CASE \E content \in DecisionContent, t \in Times : WriteDecision(content, t)
  <2>1. PICK content \in DecisionContent, t \in Times : WriteDecision(content, t)
    BY <1>5
  <2>2. DecisionWrite(content, t) = "inserted" => decisions[content.assessment] = NoRow
    BY InsertedDecision
  <2> QED BY <2>1, <2>2 DEF AppendOnly, WriteDecision, DatabaseTypeOK
<1> QED BY <1>1, <1>2, <1>3, <1>4, <1>5 DEF DatabaseStep

-----------------------------------------------------------------------------
(* The database invariant: no part of it speaks of a process. *)

\* Stored decision content passes the validation that admitted it.
DecisionsAreValid ==
  \A a \in Assessments : decisions[a] # NoRow =>
    /\ requests[a] # NoRow
    /\ snapshots[a] # NoRow
    /\ decisions[a].content.assessment = a
    /\ ContentValid(decisions[a].content, requests[a], snapshots[a])
    /\ decisions[a].recordedAt >= snapshots[a].evaluatedAt

DatabaseInv ==
  /\ DatabaseTypeOK
  /\ AttemptsAreUnique
  /\ EvaluationRestsOnEvidence
  /\ DecisionsAreValid

\* Only WriteCollection adds an attempt, and it refuses a used identifier or number.
LEMMA AttemptsStayUnique ==
  ASSUME DatabaseInv, DatabaseStep
  PROVE  AttemptsAreUnique'
<1> USE DEF DatabaseInv
<1>1. CASE UNCHANGED database
  BY <1>1 DEF AttemptsAreUnique, database
<1>2. CASE \E a \in Assessments, r \in Request : WriteRequest(a, r)
  <2>1. attempts' = attempts
    BY <1>2 DEF WriteRequest
  <2>2. \A c \in attempts : c.assessment \in Assessments
    BY DEF DatabaseTypeOK, Collection
  <2> QED BY <2>1, <2>2, StepsAppend DEF AppendOnly, AttemptsAreUnique
<1>3. CASE \E c \in Collection : WriteCollection(c)
  <2>1. PICK c \in Collection : WriteCollection(c)
    BY <1>3
  <2>2. CASE CollectionWrite(c) = "inserted"
    <3>1. /\ requests[c.assessment] # NoRow
          /\ requests[c.assessment].repository = c.repository
          /\ \A d \in attempts : d.id # c.id
          /\ \A d \in attempts :
               ~(d.assessment = c.assessment /\ d.kind = c.kind /\ d.number = c.number)
      BY <2>2 DEF CollectionWrite, RepositoryMatches, IdTaken, SlotTaken
    <3>2. attempts' = attempts \union {c} /\ requests' = requests
      BY <2>1, <2>2 DEF WriteCollection
    <3> QED BY <3>1, <3>2 DEF AttemptsAreUnique
  <2>3. CASE CollectionWrite(c) # "inserted"
    BY <2>1, <2>3 DEF WriteCollection, AttemptsAreUnique
  <2> QED BY <2>2, <2>3
<1>4. CASE \E v \in Evaluation : WriteSnapshot(v)
  BY <1>4 DEF WriteSnapshot, AttemptsAreUnique
<1>5. CASE \E content \in DecisionContent, t \in Times : WriteDecision(content, t)
  BY <1>5 DEF WriteDecision, AttemptsAreUnique
<1> QED BY <1>1, <1>2, <1>3, <1>4, <1>5 DEF DatabaseStep

\* An evaluation computed from the store rests on what the store has.
LEMMA NewEvaluationRests ==
  ASSUME DatabaseTypeOK, NEW v \in Evaluation, SnapshotWrite(v) = "inserted"
  PROVE  /\ requests[v.assessment] # NoRow
         /\ \A k \in Kinds : RestsOn(v.evidence[k], k, v.assessment, v)
<1> DEFINE a == v.assessment
           evidence == EvidenceSet(a)
<1>1. /\ EvidenceStatus(a) = "verified"
      /\ CanEvaluate(evidence, v.evaluatedAt)
      /\ v = Evaluate(a, evidence, v.evaluatedAt)
  BY InsertedEvaluation
<1>2. requests[a] # NoRow /\ \A k \in Kinds : evidence[k] \in EvidenceRows(a, k)
  BY <1>1, EvidenceSetIsStored
<1>3. v.evidence = evidence /\ v.nonPassing = NonPassing(requests[a].context, evidence, v.evaluatedAt)
  BY <1>1 DEF Evaluate
<1>4. ASSUME NEW k \in Kinds
      PROVE  RestsOn(evidence[k], k, a, v)
  <2>1. /\ evidence[k] \in attempts
        /\ evidence[k].assessment = a
        /\ evidence[k].kind = k
        /\ evidence[k].outcome \in {"available", "unavailable"}
    BY <1>2 DEF EvidenceRows, HasEvidence, EvidenceOutcomes
  <2>2. /\ evidence[k].attemptedAt <= v.evaluatedAt
        /\ evidence[k].outcome = "available" => SourceTime[evidence[k].value] <= v.evaluatedAt
    BY <1>1 DEF CanEvaluate
  <2>3. k \in v.nonPassing <=> ~Passes(k, requests[a].context, evidence[k], v.evaluatedAt)
    BY <1>3 DEF NonPassing
  <2> QED BY <2>1, <2>2, <2>3 DEF RestsOn
<1> QED BY <1>2, <1>3, <1>4

LEMMA EvaluationsStayFounded ==
  ASSUME DatabaseInv, DatabaseStep
  PROVE  EvaluationRestsOnEvidence'
<1>1. AppendOnly
  BY StepsAppend DEF DatabaseInv
<1>2. ASSUME NEW a \in Assessments, snapshots'[a] # NoRow
      PROVE  (/\ requests[a] # NoRow
              /\ snapshots[a].assessment = a
              /\ \A k \in Kinds : RestsOn(snapshots[a].evidence[k], k, a, snapshots[a]))'
  <2>1. CASE snapshots[a] # NoRow
    <3>1. snapshots'[a] = snapshots[a] /\ requests'[a] = requests[a] /\ requests[a] # NoRow
      BY <1>1, <2>1 DEF AppendOnly, DatabaseInv, EvaluationRestsOnEvidence
    <3>2. ASSUME NEW k \in Kinds
          PROVE  RestsOn(snapshots[a].evidence[k], k, a, snapshots[a])'
      <4>1. RestsOn(snapshots[a].evidence[k], k, a, snapshots[a])
        BY <2>1 DEF DatabaseInv, EvaluationRestsOnEvidence
      <4> QED BY <4>1, <1>1, <3>1 DEF RestsOn, AppendOnly
    <3>3. snapshots[a].assessment = a
      BY <2>1 DEF DatabaseInv, EvaluationRestsOnEvidence
    <3> QED BY <3>1, <3>2, <3>3
  <2>2. CASE snapshots[a] = NoRow
    <3>1. PICK v \in Evaluation : WriteSnapshot(v)
      BY <2>2, <1>2 DEF DatabaseStep, database, WriteRequest, WriteCollection, WriteDecision
    <3>2. SnapshotWrite(v) = "inserted" /\ a = v.assessment /\ snapshots'[a] = v
      BY <1>2, <2>2, <3>1 DEF WriteSnapshot, DatabaseInv, DatabaseTypeOK
    <3>3. requests' = requests /\ attempts' = attempts
      BY <3>1 DEF WriteSnapshot
    <3>4. /\ requests[a] # NoRow
          /\ \A k \in Kinds : RestsOn(v.evidence[k], k, a, v)
      BY <3>2, NewEvaluationRests DEF DatabaseInv
    <3>5. ASSUME NEW k \in Kinds
          PROVE  RestsOn(snapshots[a].evidence[k], k, a, snapshots[a])'
      BY <3>2, <3>3, <3>4 DEF RestsOn
    <3> QED BY <3>2, <3>3, <3>4, <3>5
  <2> QED BY <2>1, <2>2
<1> QED BY <1>2 DEF EvaluationRestsOnEvidence

LEMMA DecisionsStayValid ==
  ASSUME DatabaseInv, DatabaseStep
  PROVE  DecisionsAreValid'
<1>1. AppendOnly
  BY StepsAppend DEF DatabaseInv
<1>2. ASSUME NEW a \in Assessments, decisions'[a] # NoRow
      PROVE  (/\ requests[a] # NoRow
              /\ snapshots[a] # NoRow
              /\ decisions[a].content.assessment = a
              /\ ContentValid(decisions[a].content, requests[a], snapshots[a])
              /\ decisions[a].recordedAt >= snapshots[a].evaluatedAt)'
  <2>1. CASE decisions[a] # NoRow
    <3>1. /\ requests[a] # NoRow /\ requests'[a] = requests[a]
          /\ snapshots[a] # NoRow /\ snapshots'[a] = snapshots[a]
          /\ decisions'[a] = decisions[a]
      BY <1>1, <2>1 DEF AppendOnly, DatabaseInv, DecisionsAreValid
    <3>2. /\ decisions[a].content.assessment = a
          /\ ContentValid(decisions[a].content, requests[a], snapshots[a])
          /\ decisions[a].recordedAt >= snapshots[a].evaluatedAt
      BY <2>1 DEF DatabaseInv, DecisionsAreValid
    <3> QED BY <3>1, <3>2 DEF ContentValid, ContentShapeOK
  <2>2. CASE decisions[a] = NoRow
    <3>1. PICK content \in DecisionContent, t \in Times : WriteDecision(content, t)
      BY <2>2, <1>2 DEF DatabaseStep, database, WriteRequest, WriteCollection, WriteSnapshot
    <3>2. /\ DecisionWrite(content, t) = "inserted"
          /\ a = content.assessment
          /\ decisions'[a] = [content |-> content, recordedAt |-> t]
      BY <1>2, <2>2, <3>1 DEF WriteDecision, DatabaseInv, DatabaseTypeOK
    <3>3. requests' = requests /\ snapshots' = snapshots
      BY <3>1 DEF WriteDecision
    <3>4. /\ requests[a] # NoRow /\ snapshots[a] # NoRow
          /\ ContentValid(content, requests[a], snapshots[a])
          /\ t >= snapshots[a].evaluatedAt
      BY <3>2, InsertedDecision
    <3>5. decisions'[a].content = content /\ decisions'[a].recordedAt = t
      BY <3>2
    <3> QED BY <3>2, <3>3, <3>4, <3>5 DEF ContentValid, ContentShapeOK
  <2> QED BY <2>1, <2>2
<1> QED BY <1>2 DEF DecisionsAreValid

\* Every write transaction keeps the database invariant.
LEMMA DatabaseInvIsInductive ==
  ASSUME DatabaseInv, DatabaseStep
  PROVE  DatabaseInv'
BY DatabaseStaysTyped, AttemptsStayUnique, EvaluationsStayFounded, DecisionsStayValid
   DEF DatabaseInv

LEMMA EmptyDatabase ==
  ASSUME DatabaseInit
  PROVE  DatabaseInv
BY DEF DatabaseInit, DatabaseInv, DatabaseTypeOK, AttemptsAreUnique,
       EvaluationRestsOnEvidence, DecisionsAreValid

LEMMA ValidDecisionsBind ==
  ASSUME DatabaseInv
  PROVE  DecisionBindsEvaluation
<1>1. ASSUME NEW a \in Assessments, decisions[a] # NoRow
      PROVE  /\ requests[a] # NoRow
             /\ snapshots[a] # NoRow
             /\ decisions[a].content.assessment = a
             /\ ContentValid(decisions[a].content, requests[a], snapshots[a])
             /\ decisions[a].recordedAt >= snapshots[a].evaluatedAt
  BY <1>1 DEF DatabaseInv, DecisionsAreValid
<1> QED BY <1>1 DEF DecisionBindsEvaluation, ContentValid, ContentShapeOK

-----------------------------------------------------------------------------
(* What is stored stays readable: a consequence of the invariant in every state. *)

\* An evaluation that rests on stored evidence is what a recomputation yields, as long as
\* the evidence is unambiguous.
LEMMA RestingIsRecomputed ==
  ASSUME NEW a \in Assessments, NEW v \in Evaluation, v.assessment = a,
         \A k \in Kinds : RestsOn(v.evidence[k], k, a, v),
         EvidenceStatus(a) = "verified"
  PROVE  /\ CanEvaluate(EvidenceSet(a), v.evaluatedAt)
         /\ v = Evaluate(a, EvidenceSet(a), v.evaluatedAt)
<1>1. ASSUME NEW k \in Kinds
      PROVE  EvidenceSet(a)[k] = v.evidence[k]
  <2>1. v.evidence[k] \in EvidenceRows(a, k)
    BY DEF RestsOn, EvidenceRows, HasEvidence, EvidenceOutcomes
  <2>2. EvidenceSet(a)[k] \in EvidenceRows(a, k)
    BY EvidenceSetIsStored
  <2>3. \A c, d \in EvidenceRows(a, k) : c = d
    BY DEF EvidenceStatus
  <2> QED BY <2>1, <2>2, <2>3
<1>2. v.evidence = [k \in Kinds |-> v.evidence[k]]
  BY DEF Evaluation
<1>3. EvidenceSet(a) = v.evidence
  BY <1>1, <1>2, EvidenceSetIsStored
<1>4. CanEvaluate(v.evidence, v.evaluatedAt)
  BY DEF CanEvaluate, RestsOn
<1>5. v.nonPassing = NonPassing(requests[a].context, v.evidence, v.evaluatedAt)
  <2>1. v.nonPassing \subseteq Kinds
    BY DEF Evaluation
  <2> QED BY <2>1 DEF NonPassing, RestsOn
<1>6. v = [assessment |-> v.assessment, evaluatedAt |-> v.evaluatedAt,
           evidence |-> v.evidence, nonPassing |-> v.nonPassing]
  BY DEF Evaluation
<1> QED BY <1>3, <1>4, <1>5, <1>6 DEF Evaluate

\* A second attempt with evidence is all that can come between an evaluation and its reader,
\* because two attempts of one kind have different numbers.
LEMMA EvidenceIsAmbiguousByRepetition ==
  ASSUME DatabaseInv, NEW a \in Assessments, snapshots[a] # NoRow
  PROVE  \/ EvidenceStatus(a) = "verified"
         \/ EvidenceStatus(a) = "evidence_set_ambiguous" /\ HasLaterEvidence(a)
<1> DEFINE v == snapshots[a]
<1>1. requests[a] # NoRow
  BY DEF DatabaseInv, EvaluationRestsOnEvidence
<1>2. \A k \in Kinds : v.evidence[k] \in EvidenceRows(a, k)
  BY DEF DatabaseInv, EvaluationRestsOnEvidence, RestsOn, EvidenceRows, HasEvidence,
         EvidenceOutcomes
<1>3. ASSUME NEW k \in Kinds, NEW c \in EvidenceRows(a, k), NEW d \in EvidenceRows(a, k), c # d
      PROVE  HasLaterEvidence(a)
  <2>1. /\ c \in attempts /\ c.assessment = a /\ c.kind = k /\ HasEvidence(c)
        /\ d \in attempts /\ d.assessment = a /\ d.kind = k /\ HasEvidence(d)
    BY DEF EvidenceRows
  <2>2. <<c.assessment, c.kind, c.number>> # <<d.assessment, d.kind, d.number>>
    BY <1>3, <2>1 DEF DatabaseInv, AttemptsAreUnique
  <2>3. c.number # 1 \/ d.number # 1
    BY <2>1, <2>2
  <2> QED BY <2>1, <2>3 DEF HasLaterEvidence
<1> QED BY <1>1, <1>2, <1>3 DEF EvidenceStatus

LEMMA StoredIsReadable ==
  ASSUME DatabaseInv
  PROVE  StoredEvaluationStaysReadable
<1> DEFINE Reads(status, a) ==
             \/ status = "verified"
             \/ status = "evidence_set_ambiguous" /\ HasLaterEvidence(a)
<1>1. ASSUME NEW a \in Assessments, snapshots[a] # NoRow
      PROVE  Reads(SnapshotStatus(a), a)
  <2>1. CASE EvidenceStatus(a) = "verified"
    <3>1. /\ snapshots[a] \in Evaluation /\ snapshots[a].assessment = a
          /\ \A k \in Kinds : RestsOn(snapshots[a].evidence[k], k, a, snapshots[a])
      BY <1>1 DEF DatabaseInv, DatabaseTypeOK, EvaluationRestsOnEvidence
    <3> QED BY <1>1, <2>1, <3>1, RestingIsRecomputed DEF SnapshotStatus
  <2>2. CASE EvidenceStatus(a) # "verified"
    BY <1>1, <2>2, EvidenceIsAmbiguousByRepetition DEF SnapshotStatus
  <2> QED BY <2>1, <2>2
<1>2. ASSUME NEW a \in Assessments, decisions[a] # NoRow
      PROVE  Reads(DecisionStatus(a), a)
  <2>1. /\ snapshots[a] # NoRow
        /\ ContentValid(decisions[a].content, requests[a], snapshots[a])
        /\ decisions[a].recordedAt >= snapshots[a].evaluatedAt
    BY <1>2 DEF DatabaseInv, DecisionsAreValid
  <2> QED BY <1>1, <1>2, <2>1 DEF DecisionStatus
<1> QED BY <1>1, <1>2 DEF StoredEvaluationStaysReadable

-----------------------------------------------------------------------------
(* Steps of an executor: they keep its locals typed and are database steps. *)

LEMMA FirstStep ==
  1 \in Steps /\ Steps \subseteq Nat
BY OrderCoversKinds DEF Steps

LEMMA ErrorsCoverReads ==
  ReadErrors \union {"evaluation_not_found", "verification_failed"} \subseteq Errors
BY DEF ReadErrors, Errors

\* A process that ends with an error holds nothing.
LEMMA RaiseKeepsExecutor ==
  ASSUME ExecutorInv, NEW e \in Executors,
         NEW error \in Errors \union {"collection_failed"}, Raise(e, error)
  PROVE  ExecutorInv'
<1>1. ExecutorTypeOK'
  BY FirstStep DEF ExecutorInv, ExecutorTypeOK, Raise, End, Verdicts, Labels
<1>2. InputInHand'
  BY DEF ExecutorInv, ExecutorTypeOK, InputInHand, Raise, End
<1>3. CollectionInHand'
  BY DEF ExecutorInv, ExecutorTypeOK, CollectionInHand, Raise, End
<1>4. EvaluationInHand'
  BY DEF ExecutorInv, ExecutorTypeOK, EvaluationInHand, Raise, End
<1> QED BY <1>1, <1>2, <1>3, <1>4 DEF ExecutorInv

LEMMA CompleteKeepsExecutor ==
  ASSUME ExecutorInv, NEW e \in Executors, Complete(e)
  PROVE  ExecutorInv'
<1>1. ExecutorTypeOK'
  BY FirstStep DEF ExecutorInv, ExecutorTypeOK, Complete, End, Verdicts, Labels
<1>2. InputInHand'
  BY DEF ExecutorInv, ExecutorTypeOK, InputInHand, Complete, End
<1>3. CollectionInHand'
  BY DEF ExecutorInv, ExecutorTypeOK, CollectionInHand, Complete, End
<1>4. EvaluationInHand'
  BY DEF ExecutorInv, ExecutorTypeOK, EvaluationInHand, Complete, End
<1> QED BY <1>1, <1>2, <1>3, <1>4 DEF ExecutorInv

LEMMA BeginKeepsExecutor ==
  ASSUME ExecutorInv, NEW e \in Executors, NEW i \in ExecutionInputs, Begin(e, i)
  PROVE  ExecutorInv' /\ UNCHANGED database
<1>1. i.request # InvalidRequest => i.request \in Request
  BY InputsAreTyped
<1>2. ExecutorTypeOK'
  BY DEF ExecutorInv, ExecutorTypeOK, Begin, Verdicts, Labels
<1>3. InputInHand'
  BY <1>1 DEF ExecutorInv, ExecutorTypeOK, InputInHand, Begin
<1>4. CollectionInHand'
  BY DEF ExecutorInv, ExecutorTypeOK, CollectionInHand, Begin
<1>5. EvaluationInHand'
  BY DEF ExecutorInv, ExecutorTypeOK, EvaluationInHand, Begin
<1> QED BY <1>2, <1>3, <1>4, <1>5 DEF ExecutorInv, Begin

LEMMA InputFields ==
  ASSUME ExecutorInv, NEW e \in Executors, pc[e] # "idle"
  PROVE  /\ input[e].assessment \in Assessments
         /\ input[e].request \in Request
         /\ input[e].attemptedAt \in Times
BY InputsAreTyped DEF ExecutorInv, InputInHand

\* A process that moves on with the same locals; what it must hold at l, it holds.
LEMMA GotoKeepsExecutor ==
  ASSUME ExecutorInv, NEW e \in Executors, NEW l \in Labels, Goto(e, l),
         pc[e] # "idle",
         UNCHANGED <<input, step, collected, proposed>>,
         replaying' \in [Executors -> BOOLEAN],
         l \in {"persist_collection", "verify_collection"} => collected[e] \in Collection,
         l \in {"persist_snapshot", "verify_snapshot", "reevaluate"} =>
           proposed[e] \in Evaluation
  PROVE  ExecutorInv'
<1>1. ExecutorTypeOK'
  BY DEF ExecutorInv, ExecutorTypeOK, Goto
<1>2. InputInHand'
  BY DEF ExecutorInv, ExecutorTypeOK, InputInHand, Goto
<1>3. CollectionInHand'
  BY DEF ExecutorInv, ExecutorTypeOK, CollectionInHand, Goto
<1>4. EvaluationInHand'
  BY DEF ExecutorInv, ExecutorTypeOK, EvaluationInHand, Goto
<1> QED BY <1>1, <1>2, <1>3, <1>4 DEF ExecutorInv

LEMMA PersistRequestKeeps ==
  ASSUME ExecutorInv, NEW e \in Executors, PersistRequest(e)
  PROVE  ExecutorInv' /\ DatabaseStep
<1> DEFINE status == RequestWrite(input[e].assessment, input[e].request)
<1>1. DatabaseStep
  BY InputFields DEF PersistRequest, DatabaseStep
<1> SUFFICES ExecutorInv'
  BY <1>1
<1>2. CASE status = "conflicting_replay"
  <2>1. Raise(e, status) /\ status \in Errors
    BY <1>2 DEF PersistRequest, Errors
  <2> QED BY <2>1, RaiseKeepsExecutor
<1>3. CASE status # "conflicting_replay"
  <2>1. /\ Goto(e, "verify_request")
        /\ UNCHANGED <<input, step, collected, proposed, replaying>>
        /\ pc[e] # "idle"
    BY <1>3 DEF PersistRequest
  <2>2. replaying' \in [Executors -> BOOLEAN]
    BY <2>1 DEF ExecutorInv, ExecutorTypeOK
  <2> QED BY <2>1, <2>2, GotoKeepsExecutor DEF Labels
<1> QED BY <1>2, <1>3

LEMMA VerifyRequestKeeps ==
  ASSUME ExecutorInv, NEW e \in Executors, VerifyRequest(e)
  PROVE  ExecutorInv' /\ DatabaseStep
<1>1. DatabaseStep
  BY DEF VerifyRequest, DatabaseStep
<1> SUFFICES ExecutorInv'
  BY <1>1
<1>2. CASE Raise(e, "verification_failed")
  BY <1>2, RaiseKeepsExecutor DEF Errors
<1>3. CASE ~Raise(e, "verification_failed")
  <2>1. /\ Goto(e, "collect")
        /\ UNCHANGED <<input, step, collected, proposed, replaying>>
        /\ pc[e] # "idle"
    BY <1>3 DEF VerifyRequest
  <2>2. replaying' \in [Executors -> BOOLEAN]
    BY <2>1 DEF ExecutorInv, ExecutorTypeOK
  <2> QED BY <2>1, <2>2, GotoKeepsExecutor DEF Labels
<1> QED BY <1>2, <1>3 DEF VerifyRequest

LEMMA CollectKeeps ==
  ASSUME ExecutorInv, 1 \in AttemptNumbers,
         NEW e \in Executors, NEW response \in Responses, Collect(e, response)
  PROVE  ExecutorInv' /\ DatabaseStep
<1> DEFINE c == [id |-> WorkflowAttemptId[input[e].assessment][KindAt(e)],
                 assessment |-> input[e].assessment, kind |-> KindAt(e), number |-> 1,
                 repository |-> input[e].request.repository,
                 attemptedAt |-> input[e].attemptedAt,
                 outcome |-> response.outcome, value |-> response.value]
<1>1. pc[e] # "idle"
  BY DEF Collect
<1>2. /\ input[e].assessment \in Assessments
      /\ input[e].request.repository \in Repositories
      /\ input[e].attemptedAt \in Times
  BY <1>1, InputFields DEF Request
<1>3. KindAt(e) \in Kinds
  BY OrderCoversKinds DEF KindAt, ExecutorInv, ExecutorTypeOK, Steps
<1>4. response.outcome \in Outcomes /\ response.value \in Values
  BY InputsAreTyped
<1>5. WorkflowAttemptId[input[e].assessment][KindAt(e)] \in AttemptIds
  BY <1>2, <1>3, AttemptIdsAreDigests
<1>6. c \in Collection
  BY <1>2, <1>3, <1>4, <1>5 DEF Collection
<1>7. /\ collected' = [collected EXCEPT ![e] = c]
      /\ pc' = [pc EXCEPT ![e] = "persist_collection"]
      /\ UNCHANGED <<input, step, proposed, replaying, verdict, database>>
  BY DEF Collect, Goto
<1>8. ExecutorTypeOK'
  BY <1>6, <1>7 DEF ExecutorInv, ExecutorTypeOK, Labels
<1>9. InputInHand' /\ EvaluationInHand'
  BY <1>1, <1>7 DEF ExecutorInv, ExecutorTypeOK, InputInHand, EvaluationInHand
<1>10. CollectionInHand'
  BY <1>6, <1>7 DEF ExecutorInv, ExecutorTypeOK, CollectionInHand
<1> QED BY <1>7, <1>8, <1>9, <1>10 DEF ExecutorInv, DatabaseStep

LEMMA PersistCollectionKeeps ==
  ASSUME ExecutorInv, NEW e \in Executors, PersistCollection(e)
  PROVE  ExecutorInv' /\ DatabaseStep
<1> DEFINE status == CollectionWrite(collected[e])
<1>1. collected[e] \in Collection
  BY DEF ExecutorInv, CollectionInHand, PersistCollection
<1>2. DatabaseStep
  BY <1>1 DEF PersistCollection, DatabaseStep
<1> SUFFICES ExecutorInv'
  BY <1>2
<1>3. CASE status \in {"inserted", "replayed"}
  <2>1. /\ Goto(e, "verify_collection")
        /\ UNCHANGED <<input, step, collected, proposed>>
        /\ pc[e] # "idle"
        /\ replaying' = [replaying EXCEPT ![e] = (status = "replayed")]
    BY <1>3 DEF PersistCollection
  <2>2. replaying' \in [Executors -> BOOLEAN]
    BY <2>1 DEF ExecutorInv, ExecutorTypeOK
  <2> QED BY <1>1, <2>1, <2>2, GotoKeepsExecutor DEF Labels
<1>4. CASE status \notin {"inserted", "replayed"}
  <2>1. status \in Errors
    BY <1>4, CollectionWriteRange DEF Errors
  <2>2. Raise(e, status)
    BY <1>4 DEF PersistCollection
  <2> QED BY <2>1, <2>2, RaiseKeepsExecutor
<1> QED BY <1>3, <1>4

\* A verified collection with evidence takes the executor to its next step.
LEMMA NextCollectionKeeps ==
  ASSUME ExecutorInv, NEW e \in Executors, NEW l \in {"collect", "load_snapshot"},
         NEW n \in Steps, pc[e] # "idle",
         Goto(e, l),
         step' = [step EXCEPT ![e] = n],
         collected' = [collected EXCEPT ![e] = NoValue],
         replaying' = [replaying EXCEPT ![e] = FALSE],
         UNCHANGED <<input, proposed>>
  PROVE  ExecutorInv'
<1>1. ExecutorTypeOK'
  BY DEF ExecutorInv, ExecutorTypeOK, Goto, Labels
<1>2. InputInHand'
  BY DEF ExecutorInv, ExecutorTypeOK, InputInHand, Goto
<1>3. CollectionInHand'
  BY DEF ExecutorInv, ExecutorTypeOK, CollectionInHand, Goto
<1>4. EvaluationInHand'
  BY DEF ExecutorInv, ExecutorTypeOK, EvaluationInHand, Goto
<1> QED BY <1>1, <1>2, <1>3, <1>4 DEF ExecutorInv

LEMMA VerifyCollectionKeeps ==
  ASSUME ExecutorInv, NEW e \in Executors, VerifyCollection(e)
  PROVE  ExecutorInv' /\ DatabaseStep
<1>1. DatabaseStep
  BY DEF VerifyCollection, DatabaseStep
<1> SUFFICES ExecutorInv'
  BY <1>1
<1> DEFINE Raises ==
      Raise(e, "conflicting_replay") \/ Raise(e, "verification_failed")
        \/ Raise(e, "collection_failed")
<1>2. CASE Raises
  BY <1>2, RaiseKeepsExecutor DEF Errors
<1>3. CASE ~Raises
  <2>1. /\ pc[e] # "idle"
        /\ \/ /\ step[e] < Len(CollectionOrder)
              /\ Goto(e, "collect")
              /\ step' = [step EXCEPT ![e] = @ + 1]
           \/ /\ Goto(e, "load_snapshot")
              /\ UNCHANGED step
        /\ collected' = [collected EXCEPT ![e] = NoValue]
        /\ replaying' = [replaying EXCEPT ![e] = FALSE]
        /\ UNCHANGED <<input, proposed>>
    BY <1>3 DEF VerifyCollection, CollectionReread
  <2>2. step \in [Executors -> Steps] /\ step[e] \in Steps
    BY DEF ExecutorInv, ExecutorTypeOK
  <2>3. CASE /\ step[e] < Len(CollectionOrder)
             /\ Goto(e, "collect")
             /\ step' = [step EXCEPT ![e] = @ + 1]
    <3>1. step[e] + 1 \in Steps
      BY <2>2, <2>3, OrderCoversKinds DEF Steps
    <3>2. step' = [step EXCEPT ![e] = step[e] + 1]
      BY <2>3
    <3>3. Goto(e, "collect")
      BY <2>3
    <3> QED BY <2>1, <3>1, <3>2, <3>3, NextCollectionKeeps
  <2>4. CASE Goto(e, "load_snapshot") /\ UNCHANGED step
    <3>1. step' = [step EXCEPT ![e] = step[e]]
      BY <2>2, <2>4
    <3>2. Goto(e, "load_snapshot")
      BY <2>4
    <3> QED BY <2>1, <2>2, <3>1, <3>2, NextCollectionKeeps
  <2> QED BY <2>1, <2>3, <2>4
<1> QED BY <1>2, <1>3

\* An executor that moves on with an evaluation that it read or calculated.
LEMMA ProposalKeepsExecutor ==
  ASSUME ExecutorInv, NEW e \in Executors, NEW v \in Evaluation,
         NEW l \in {"persist_snapshot", "reevaluate"}, pc[e] # "idle",
         Goto(e, l),
         proposed' = [proposed EXCEPT ![e] = v],
         UNCHANGED <<input, step, collected, replaying>>
  PROVE  ExecutorInv'
<1>1. ExecutorTypeOK'
  BY DEF ExecutorInv, ExecutorTypeOK, Goto, Labels
<1>2. InputInHand'
  BY DEF ExecutorInv, ExecutorTypeOK, InputInHand, Goto
<1>3. CollectionInHand'
  BY DEF ExecutorInv, ExecutorTypeOK, CollectionInHand, Goto
<1>4. EvaluationInHand'
  BY DEF ExecutorInv, ExecutorTypeOK, EvaluationInHand, Goto
<1> QED BY <1>1, <1>2, <1>3, <1>4 DEF ExecutorInv

LEMMA LoadSnapshotKeeps ==
  ASSUME DatabaseTypeOK, ExecutorInv, NEW e \in Executors, LoadSnapshot(e)
  PROVE  ExecutorInv' /\ DatabaseStep
<1> DEFINE a == input[e].assessment
<1>1. DatabaseStep
  BY DEF LoadSnapshot, DatabaseStep
<1> SUFFICES ExecutorInv'
  BY <1>1
<1>2. pc[e] # "idle" /\ a \in Assessments
  BY InputFields DEF LoadSnapshot
<1>3. CASE SnapshotStatus(a) = "verified"
  <2>1. /\ proposed' = [proposed EXCEPT ![e] = snapshots[a]]
        /\ Goto(e, "reevaluate")
        /\ UNCHANGED <<input, step, collected, replaying>>
    BY <1>3 DEF LoadSnapshot
  <2>2. snapshots[a] \in Evaluation
    BY <1>2, <1>3 DEF SnapshotStatus, DatabaseTypeOK
  <2> QED BY <1>2, <2>1, <2>2, ProposalKeepsExecutor
<1>4. CASE SnapshotStatus(a) = "evaluation_not_found"
  <2>1. /\ Goto(e, "evaluate")
        /\ UNCHANGED <<input, step, collected, proposed, replaying>>
    BY <1>4 DEF LoadSnapshot
  <2>2. replaying' \in [Executors -> BOOLEAN]
    BY <2>1 DEF ExecutorInv, ExecutorTypeOK
  <2> QED BY <1>2, <2>1, <2>2, GotoKeepsExecutor DEF Labels
<1>5. CASE SnapshotStatus(a) \notin {"verified", "evaluation_not_found"}
  <2>1. Raise(e, SnapshotStatus(a))
    BY <1>5 DEF LoadSnapshot
  <2>2. SnapshotStatus(a) \in Errors
    BY <1>5, SnapshotStatusRange, ErrorsCoverReads
  <2> QED BY <2>1, <2>2, RaiseKeepsExecutor
<1> QED BY <1>3, <1>4, <1>5

LEMMA EvaluateFirstKeeps ==
  ASSUME DatabaseTypeOK, ExecutorInv, NEW e \in Executors, NEW t \in Times,
         EvaluateFirst(e, t)
  PROVE  ExecutorInv' /\ DatabaseStep
<1> DEFINE a == input[e].assessment
<1>1. DatabaseStep
  BY DEF EvaluateFirst, DatabaseStep
<1> SUFFICES ExecutorInv'
  BY <1>1
<1>2. pc[e] # "idle" /\ a \in Assessments
  BY InputFields DEF EvaluateFirst
<1>3. CASE EvidenceStatus(a) = "verified" /\ CanEvaluate(EvidenceSet(a), t)
  <2>1. /\ proposed' = [proposed EXCEPT ![e] = Evaluate(a, EvidenceSet(a), t)]
        /\ Goto(e, "persist_snapshot")
        /\ UNCHANGED <<input, step, collected, replaying>>
    BY <1>3 DEF EvaluateFirst
  <2>2. Evaluate(a, EvidenceSet(a), t) \in Evaluation
    BY <1>2, <1>3, EvaluationIsTyped
  <2> QED BY <1>2, <2>1, <2>2, ProposalKeepsExecutor
<1>4. CASE EvidenceStatus(a) = "verified" /\ ~CanEvaluate(EvidenceSet(a), t)
  <2>1. Raise(e, "evaluation_error")
    BY <1>4 DEF EvaluateFirst
  <2> QED BY <2>1, RaiseKeepsExecutor DEF Errors
<1>5. CASE EvidenceStatus(a) # "verified"
  <2>1. Raise(e, EvidenceStatus(a))
    BY <1>5 DEF EvaluateFirst
  <2>2. EvidenceStatus(a) \in Errors
    BY <1>5, EvidenceStatusRange, ErrorsCoverReads
  <2> QED BY <2>1, <2>2, RaiseKeepsExecutor
<1> QED BY <1>3, <1>4, <1>5

LEMMA PersistSnapshotKeeps ==
  ASSUME ExecutorInv, NEW e \in Executors, PersistSnapshot(e)
  PROVE  ExecutorInv' /\ DatabaseStep
<1> DEFINE status == SnapshotWrite(proposed[e])
<1>1. proposed[e] \in Evaluation
  BY DEF ExecutorInv, EvaluationInHand, PersistSnapshot
<1>2. DatabaseStep
  BY <1>1 DEF PersistSnapshot, DatabaseStep
<1> SUFFICES ExecutorInv'
  BY <1>2
<1>3. CASE status \in {"inserted", "replayed"}
  <2>1. /\ Goto(e, "verify_snapshot")
        /\ UNCHANGED <<input, step, collected, proposed>>
        /\ pc[e] # "idle"
        /\ replaying' = [replaying EXCEPT ![e] = (status = "replayed")]
    BY <1>3 DEF PersistSnapshot
  <2>2. replaying' \in [Executors -> BOOLEAN]
    BY <2>1 DEF ExecutorInv, ExecutorTypeOK
  <2> QED BY <1>1, <2>1, <2>2, GotoKeepsExecutor DEF Labels
<1>4. CASE status \notin {"inserted", "replayed"}
  <2>1. status \in Errors
    <3>1. status \in {"conflicting_replay", "invalid_input", "evaluation_not_found",
                      "verification_failed"} \union ReadErrors
      BY <1>4, SnapshotWriteRange
    <3> QED BY <3>1, ErrorsCoverReads DEF Errors
  <2>2. Raise(e, status)
    BY <1>4 DEF PersistSnapshot
  <2> QED BY <2>1, <2>2, RaiseKeepsExecutor
<1> QED BY <1>3, <1>4

LEMMA VerifySnapshotKeeps ==
  ASSUME ExecutorInv, NEW e \in Executors, VerifySnapshot(e)
  PROVE  ExecutorInv' /\ DatabaseStep
<1> DEFINE a == input[e].assessment
<1>1. DatabaseStep
  BY DEF VerifySnapshot, DatabaseStep
<1>2. Complete(e) \/ Raise(e, "conflicting_replay") \/ Raise(e, "verification_failed")
        \/ (SnapshotStatus(a) # "verified" /\ Raise(e, SnapshotStatus(a)))
  BY DEF VerifySnapshot
<1>3. SnapshotStatus(a) # "verified" => SnapshotStatus(a) \in Errors
  BY SnapshotStatusRange, ErrorsCoverReads
<1>4. {"conflicting_replay", "verification_failed"} \subseteq Errors
  BY DEF Errors
<1>5. ExecutorInv'
  BY <1>2, <1>3, <1>4, RaiseKeepsExecutor, CompleteKeepsExecutor
<1> QED BY <1>1, <1>5

LEMMA EvaluateAgainKeeps ==
  ASSUME ExecutorInv, NEW e \in Executors, EvaluateAgain(e)
  PROVE  ExecutorInv' /\ DatabaseStep
<1> DEFINE a == input[e].assessment
<1>1. DatabaseStep
  BY DEF EvaluateAgain, DatabaseStep
<1>2. Complete(e) \/ Raise(e, "evaluation_error")
        \/ (EvidenceStatus(a) # "verified" /\ Raise(e, EvidenceStatus(a)))
  BY DEF EvaluateAgain
<1>3. EvidenceStatus(a) # "verified" => EvidenceStatus(a) \in Errors
  BY EvidenceStatusRange, ErrorsCoverReads
<1>4. "evaluation_error" \in Errors
  BY DEF Errors
<1>5. ExecutorInv'
  BY <1>2, <1>3, <1>4, RaiseKeepsExecutor, CompleteKeepsExecutor
<1> QED BY <1>1, <1>5

LEMMA OpenRefusedKeeps ==
  ASSUME ExecutorInv, NEW e \in Executors, OpenRefused(e)
  PROVE  ExecutorInv' /\ DatabaseStep
<1>1. Raise(e, "schema_incompatible") /\ UNCHANGED database
  BY DEF OpenRefused
<1>2. "schema_incompatible" \in Errors
  BY DEF Errors
<1> QED BY <1>1, <1>2, RaiseKeepsExecutor DEF DatabaseStep

LEMMA ExecutorStepKeeps ==
  ASSUME DatabaseTypeOK, ExecutorInv, NEW e \in Executors, ExecutorStep(e)
  PROVE  ExecutorInv' /\ DatabaseStep
<1>1. CASE \E i \in ExecutionInputs : Begin(e, i)
  BY <1>1, BeginKeepsExecutor DEF DatabaseStep
<1>2. CASE PersistRequest(e) \/ VerifyRequest(e) \/ PersistCollection(e)
             \/ VerifyCollection(e) \/ LoadSnapshot(e)
  BY <1>2, PersistRequestKeeps, VerifyRequestKeeps, PersistCollectionKeeps,
     VerifyCollectionKeeps, LoadSnapshotKeeps
<1>3. CASE PersistSnapshot(e) \/ VerifySnapshot(e) \/ EvaluateAgain(e)
  BY <1>3, PersistSnapshotKeeps, VerifySnapshotKeeps, EvaluateAgainKeeps
<1>4. CASE \E response \in Responses : Collect(e, response)
  BY <1>4, CollectKeeps, NumbersStartAtOne
<1>5. CASE \E t \in Times : EvaluateFirst(e, t)
  BY <1>5, EvaluateFirstKeeps
<1>6. CASE OpenRefused(e)
  BY <1>6, OpenRefusedKeeps
<1> QED BY <1>1, <1>2, <1>3, <1>4, <1>5, <1>6 DEF ExecutorStep, Advance

LEMMA ExecutorFaultKeeps ==
  ASSUME ExecutorInv, NEW e \in Executors, ExecutorFault(e)
  PROVE  ExecutorInv' /\ DatabaseStep
<1>1. /\ Raise(e, "storage_error") \/ Raise(e, "crashed")
      /\ UNCHANGED database
  BY DEF ExecutorFault, StorageFault, Crash
<1>2. {"storage_error", "crashed"} \subseteq Errors
  BY DEF Errors
<1> QED BY <1>1, <1>2, RaiseKeepsExecutor DEF DatabaseStep

-----------------------------------------------------------------------------
(* Steps of a reviewer, and of a library caller. *)

LEMMA AnswersCoverReads ==
  {"decision_not_found", "evaluation_not_found", "verification_failed"}
    \union ReadErrors \subseteq Answers
BY DEF ReadErrors, Answers

LEMMA RefuseKeepsReviewer ==
  ASSUME ReviewerInv, NEW r \in Reviewers, NEW error \in Answers, Refuse(r, error)
  PROVE  ReviewerInv'
<1>1. ReviewerTypeOK'
  BY DEF ReviewerInv, ReviewerTypeOK, Refuse, Reply
<1>2. DecisionInHand'
  BY DEF ReviewerInv, ReviewerTypeOK, DecisionInHand, Refuse, Reply
<1> QED BY <1>1, <1>2 DEF ReviewerInv

LEMMA ReviewKeeps ==
  ASSUME DatabaseTypeOK, ReviewerInv, NEW r \in Reviewers, NEW a \in Assessments,
         Review(r, a)
  PROVE  ReviewerInv' /\ DatabaseStep
<1> DEFINE status == ReviewStatus(a)
           shown == IF status = "verified" THEN snapshots[a] ELSE NoRow
           found == IF status = "verified" /\ decisions[a] # NoRow
                    THEN decisions[a] ELSE NoDecision
           reported == IF status = "verified" THEN "reviewed" ELSE status
<1>1. status \in {"verified", "request_not_found", "decision_not_found",
                  "evaluation_not_found", "verification_failed"} \union ReadErrors
  BY SnapshotStatusRange, DecisionStatusRange DEF ReviewStatus
<1>2. reported \in Answers
  BY <1>1, AnswersCoverReads DEF Answers
<1>3. /\ shown \in Evaluation \union {NoRow}
      /\ found \in Decision \union {NoDecision}
  BY DEF DatabaseTypeOK
<1>4. /\ subject' = [subject EXCEPT ![r] = a]
      /\ held' = [held EXCEPT ![r] = found]
      /\ seen' = [seen EXCEPT ![r] = shown]
      /\ answer' = [answer EXCEPT ![r] = reported]
      /\ at[r] = "idle"
      /\ UNCHANGED <<at, submitted, repeated, database>>
  BY DEF Review
<1> HIDE DEF status, shown, found, reported
<1>5. ReviewerTypeOK'
  BY <1>2, <1>3, <1>4 DEF ReviewerInv, ReviewerTypeOK
<1>6. DecisionInHand'
  BY <1>4 DEF ReviewerInv, ReviewerTypeOK, DecisionInHand
<1> QED BY <1>4, <1>5, <1>6 DEF ReviewerInv, DatabaseStep

LEMMA BeginDecideKeeps ==
  ASSUME ReviewerInv, NEW r \in Reviewers, NEW s \in Submissions,
         NEW v \in {seen[r], NoRow}, BeginDecide(r, s, v)
  PROVE  ReviewerInv' /\ DatabaseStep
<1> DEFINE content ==
      [assessment |-> subject[r], evaluation |-> v, maker |-> s.maker,
       disposition |-> s.disposition, rationale |-> s.rationale,
       conditions |-> s.conditions, informationRequests |-> s.informationRequests,
       acknowledged |-> s.acknowledged]
<1>1. content \in DecisionContent
  <2>1. s \in Submission
    BY SubmissionsAreTyped
  <2>2. subject[r] \in Assessments /\ v \in Evaluation \union {NoRow}
    BY DEF ReviewerInv, ReviewerTypeOK, BeginDecide
  <2> QED BY <2>1, <2>2 DEF Submission, DecisionContent
<1>2. PICK label \in {"load", "persist"} : at' = [at EXCEPT ![r] = label]
  BY DEF BeginDecide
<1>3. /\ submitted' = [submitted EXCEPT ![r] = content]
      /\ held' = [held EXCEPT ![r] = NoDecision]
      /\ answer' = [answer EXCEPT ![r] = "none"]
      /\ UNCHANGED <<subject, seen, repeated, database>>
  BY DEF BeginDecide
<1> HIDE DEF content
<1>4. ReviewerTypeOK'
  BY <1>1, <1>2, <1>3 DEF ReviewerInv, ReviewerTypeOK, Answers
<1>5. DecisionInHand'
  BY <1>1, <1>2, <1>3 DEF ReviewerInv, ReviewerTypeOK, DecisionInHand
<1> QED BY <1>3, <1>4, <1>5 DEF ReviewerInv, DatabaseStep

LEMMA LoadForDecisionKeeps ==
  ASSUME ReviewerInv, NEW r \in Reviewers, LoadForDecision(r)
  PROVE  ReviewerInv' /\ DatabaseStep
<1> DEFINE a == submitted[r].assessment
<1>1. DatabaseStep
  BY DEF LoadForDecision, DatabaseStep
<1> SUFFICES ReviewerInv'
  BY <1>1
<1>2. SnapshotStatus(a) # "verified" => SnapshotStatus(a) \in Answers
  BY SnapshotStatusRange, AnswersCoverReads
<1>3. CASE SnapshotStatus(a) # "verified" /\ Refuse(r, SnapshotStatus(a))
  BY <1>2, <1>3, RefuseKeepsReviewer
<1>4. CASE Refuse(r, "invalid_input")
  BY <1>4, RefuseKeepsReviewer DEF Answers
<1>5. CASE /\ at[r] = "load"
           /\ at' = [at EXCEPT ![r] = "persist"]
           /\ UNCHANGED <<subject, seen, submitted, held, repeated, answer>>
  <2>1. ReviewerTypeOK'
    BY <1>5 DEF ReviewerInv, ReviewerTypeOK
  <2>2. DecisionInHand'
    BY <1>5 DEF ReviewerInv, ReviewerTypeOK, DecisionInHand
  <2> QED BY <2>1, <2>2 DEF ReviewerInv
<1> QED BY <1>3, <1>4, <1>5 DEF LoadForDecision

LEMMA PersistDecisionKeeps ==
  ASSUME DatabaseTypeOK, ReviewerInv, NEW r \in Reviewers, NEW t \in Times,
         PersistDecision(r, t)
  PROVE  ReviewerInv' /\ DatabaseStep
<1> DEFINE a == submitted[r].assessment
           status == DecisionWrite(submitted[r], t)
<1>1. /\ at[r] = "persist"
      /\ submitted[r] \in DecisionContent
      /\ a \in Assessments
      /\ WriteDecision(submitted[r], t)
  BY DEF ReviewerInv, DecisionInHand, PersistDecision, DecisionContent
<1>2. DatabaseStep
  BY <1>1 DEF DatabaseStep
<1> SUFFICES ReviewerInv'
  BY <1>2
<1>3. CASE status \in {"inserted", "replayed"}
  <2>1. decisions'[a] \in Decision
    <3>1. DatabaseTypeOK'
      BY <1>2, DatabaseStaysTyped
    <3>2. CASE status = "inserted"
      <4>1. decisions' = [decisions EXCEPT ![a] =
                            [content |-> submitted[r], recordedAt |-> t]]
        BY <1>1, <3>2 DEF WriteDecision
      <4>2. decisions'[a] = [content |-> submitted[r], recordedAt |-> t]
        BY <1>1, <4>1 DEF DatabaseTypeOK
      <4> QED BY <1>1, <4>2 DEF Decision
    <3>3. CASE status = "replayed"
      <4>1. decisions' = decisions
        BY <1>1, <3>3 DEF WriteDecision
      <4>2. decisions[a] # NoRow
        <5>1. SnapshotStatus(a) # "replayed"
          BY SnapshotStatusRange DEF ReadErrors
        <5> QED BY <3>3, <5>1 DEF DecisionWrite, FirstDecision
      <4> QED BY <1>1, <4>1, <4>2 DEF DatabaseTypeOK
    <3> QED BY <1>3, <3>2, <3>3
  <2>2. /\ held' = [held EXCEPT ![r] = decisions'[a]]
        /\ repeated' = [repeated EXCEPT ![r] = (status = "replayed")]
        /\ at' = [at EXCEPT ![r] = "verify"]
        /\ UNCHANGED <<subject, seen, submitted, answer>>
    BY <1>3 DEF PersistDecision
  <2>3. ReviewerTypeOK'
    BY <2>1, <2>2 DEF ReviewerInv, ReviewerTypeOK
  <2>4. DecisionInHand'
    BY <1>1, <2>1, <2>2 DEF ReviewerInv, ReviewerTypeOK, DecisionInHand
  <2> QED BY <2>3, <2>4 DEF ReviewerInv
<1>4. CASE status \notin {"inserted", "replayed"}
  <2>1. status \in {"conflicting_replay", "invalid_input", "decision_not_found",
                    "evaluation_not_found", "verification_failed"} \union ReadErrors
    BY <1>4, DecisionWriteRange
  <2>2. status \in Answers
    BY <2>1, AnswersCoverReads DEF Answers
  <2>3. Refuse(r, status)
    BY <1>4 DEF PersistDecision
  <2> QED BY <2>2, <2>3, RefuseKeepsReviewer
<1> QED BY <1>3, <1>4

LEMMA VerifyDecisionKeeps ==
  ASSUME ReviewerInv, NEW r \in Reviewers, VerifyDecision(r)
  PROVE  ReviewerInv' /\ DatabaseStep
<1> DEFINE a == submitted[r].assessment
<1>1. DatabaseStep
  BY DEF VerifyDecision, DatabaseStep
<1> SUFFICES ReviewerInv'
  BY <1>1
<1>2. DecisionStatus(a) # "verified" => DecisionStatus(a) \in Answers
  BY DecisionStatusRange, AnswersCoverReads
<1>3. CASE DecisionStatus(a) # "verified" /\ Refuse(r, DecisionStatus(a))
  BY <1>2, <1>3, RefuseKeepsReviewer
<1>4. CASE Refuse(r, "conflicting_replay") \/ Refuse(r, "verification_failed")
  BY <1>4, RefuseKeepsReviewer DEF Answers
<1>5. CASE \E reply \in {"exact_replay", "recorded"} : Reply(r, reply) /\ UNCHANGED held
  <2>1. ReviewerTypeOK'
    BY <1>5 DEF ReviewerInv, ReviewerTypeOK, Reply, Answers
  <2>2. DecisionInHand'
    BY <1>5 DEF ReviewerInv, ReviewerTypeOK, DecisionInHand, Reply
  <2> QED BY <2>1, <2>2 DEF ReviewerInv
<1> QED BY <1>3, <1>4, <1>5 DEF VerifyDecision

LEMMA DecideRefusedKeeps ==
  ASSUME ReviewerInv, NEW r \in Reviewers, DecideRefused(r)
  PROVE  ReviewerInv' /\ DatabaseStep
<1>1. Refuse(r, "schema_incompatible") /\ UNCHANGED database
  BY DEF DecideRefused
<1> QED BY <1>1, RefuseKeepsReviewer DEF Answers, DatabaseStep

LEMMA ReviewerStepKeeps ==
  ASSUME DatabaseTypeOK, ReviewerInv, NEW r \in Reviewers, ReviewerStep(r)
  PROVE  ReviewerInv' /\ DatabaseStep
<1>1. CASE \E a \in Assessments : Review(r, a)
  BY <1>1, ReviewKeeps
<1>2. CASE \E s \in Submissions : \E v \in {seen[r], NoRow} : BeginDecide(r, s, v)
  BY <1>2, BeginDecideKeeps
<1>3. CASE ReviewerAdvance(r)
  BY <1>3, DecideRefusedKeeps, LoadForDecisionKeeps, PersistDecisionKeeps, VerifyDecisionKeeps
     DEF ReviewerAdvance
<1> QED BY <1>1, <1>2, <1>3 DEF ReviewerStep

LEMMA ReviewFaultKeeps ==
  ASSUME ReviewerInv, NEW r \in Reviewers, ReviewFault(r)
  PROVE  ReviewerInv' /\ DatabaseStep
<1>1. /\ \E error \in {"storage_error", "crashed"} : Refuse(r, error)
      /\ UNCHANGED database
  BY DEF ReviewFault, ReviewerFault
<1> QED BY <1>1, RefuseKeepsReviewer DEF Answers, DatabaseStep

-----------------------------------------------------------------------------
(* The system. *)

\* The inductive invariant: the database's own, and what each process holds.
Inv ==
  /\ DatabaseInv
  /\ ExecutorInv
  /\ ReviewerInv
  /\ faults \in 0..MaxFaults

LEMMA InvHoldsInitially ==
  ASSUME Init
  PROVE  Inv
<1>1. DatabaseInv
  BY EmptyDatabase DEF Init
<1>2. ExecutorInv
  BY FirstStep DEF Init, ExecutorInit, ExecutorInv, ExecutorTypeOK, InputInHand,
     CollectionInHand, EvaluationInHand, Labels, Verdicts
<1>3. ReviewerInv
  BY DEF Init, ReviewerInit, ReviewerInv, ReviewerTypeOK, DecisionInHand, Answers
<1>4. faults \in 0..MaxFaults
  BY FaultsAreCounted DEF Init
<1> QED BY <1>1, <1>2, <1>3, <1>4 DEF Inv

\* A process that takes no step keeps what it holds.
LEMMA StutterKeeps ==
  /\ ExecutorInv /\ UNCHANGED executorState => ExecutorInv'
  /\ ReviewerInv /\ UNCHANGED reviewerState => ReviewerInv'
<1>1. ASSUME ExecutorInv, UNCHANGED executorState
      PROVE  ExecutorInv'
  BY <1>1 DEF ExecutorInv, ExecutorTypeOK, InputInHand, CollectionInHand,
     EvaluationInHand, executorState
<1>2. ASSUME ReviewerInv, UNCHANGED reviewerState
      PROVE  ReviewerInv'
  BY <1>2 DEF ReviewerInv, ReviewerTypeOK, DecisionInHand, reviewerState
<1> QED BY <1>1, <1>2

\* The processes keep what they hold, and the database takes one of its own steps.
LEMMA ProcessesStep ==
  ASSUME Inv, [Next]_vars
  PROVE  ExecutorInv' /\ ReviewerInv' /\ faults' \in 0..MaxFaults /\ DatabaseStep
<1> USE StutterKeeps, FaultsAreCounted DEF Inv
<1>1. DatabaseTypeOK
  BY DEF DatabaseInv
<1>2. CASE \E e \in Executors : ExecutorStep(e)
  <2>1. PICK e \in Executors : ExecutorStep(e)
    BY <1>2
  <2>2. UNCHANGED <<reviewerState, faults>>
    BY <2>1 DEF ExecutorStep
  <2> QED BY <1>1, <2>1, <2>2, ExecutorStepKeeps
<1>3. CASE \E e \in Executors : ExecutorFault(e)
  <2>1. PICK e \in Executors : ExecutorFault(e)
    BY <1>3
  <2>2. UNCHANGED reviewerState /\ faults' \in 0..MaxFaults
    BY <2>1 DEF ExecutorFault
  <2> QED BY <2>1, <2>2, ExecutorFaultKeeps
<1>4. CASE \E r \in Reviewers : ReviewerStep(r)
  <2>1. PICK r \in Reviewers : ReviewerStep(r)
    BY <1>4
  <2>2. UNCHANGED <<executorState, faults>>
    BY <2>1 DEF ReviewerStep
  <2> QED BY <1>1, <2>1, <2>2, ReviewerStepKeeps
<1>5. CASE \E r \in Reviewers : ReviewFault(r)
  <2>1. PICK r \in Reviewers : ReviewFault(r)
    BY <1>5
  <2>2. UNCHANGED executorState /\ faults' \in 0..MaxFaults
    BY <2>1 DEF ReviewFault
  <2> QED BY <2>1, <2>2, ReviewFaultKeeps
<1>6. CASE \E c \in LibraryCollections : LibraryPersist(c)
  BY <1>6, LibraryIsTyped DEF LibraryPersist, DatabaseStep
<1>7. CASE UNCHANGED vars
  BY <1>7 DEF vars, DatabaseStep
<1> QED BY <1>2, <1>3, <1>4, <1>5, <1>6, <1>7 DEF Next

LEMMA InvIsInductive ==
  ASSUME Inv, [Next]_vars
  PROVE  Inv' /\ AppendOnly
<1>1. ExecutorInv' /\ ReviewerInv' /\ faults' \in 0..MaxFaults /\ DatabaseStep
  BY ProcessesStep
<1>2. DatabaseInv'
  BY <1>1, DatabaseInvIsInductive DEF Inv
<1>3. AppendOnly
  BY <1>1, StepsAppend DEF Inv, DatabaseInv
<1> QED BY <1>1, <1>2, <1>3 DEF Inv

LEMMA SpecKeepsInv == Spec => []Inv
<1>1. Init => Inv
  BY InvHoldsInitially
<1>2. Inv /\ [Next]_vars => Inv'
  BY InvIsInductive
<1> QED BY <1>1, <1>2, PTL DEF Spec

\* Every process and every row stays in the type that the code's constructors and columns
\* give it, whatever callers submit and whenever they fail.
THEOREM TypeCorrect == Spec => []TypeOK
<1>1. Inv => TypeOK
  BY DEF Inv, DatabaseInv, ExecutorInv, ReviewerInv, TypeOK
<1> QED BY <1>1, SpecKeepsInv, PTL

\* However executors and library callers interleave, persist_github_*_collection stores one
\* attempt per identifier and per (assessment, kind, number), for a stored request.
THEOREM AttemptsStayUniqueAlways == Spec => []AttemptsAreUnique
<1>1. Inv => AttemptsAreUnique
  BY DEF Inv, DatabaseInv
<1> QED BY <1>1, SpecKeepsInv, PTL

\* persist_assessment_evaluation_snapshot stores an evaluation only when it rests on one
\* stored attempt of every kind, and no later write takes that ground away.
THEOREM EvaluationsRestOnEvidence == Spec => []EvaluationRestsOnEvidence
<1>1. Inv => EvaluationRestsOnEvidence
  BY DEF Inv, DatabaseInv
<1> QED BY <1>1, SpecKeepsInv, PTL

\* A decision that _persist_human_decision stored names the one evaluation of its
\* assessment and the reviewer of its request, for ever.
THEOREM DecisionsBindEvaluations == Spec => []DecisionBindsEvaluation
<1>1. Inv => DecisionBindsEvaluation
  BY ValidDecisionsBind DEF Inv
<1> QED BY <1>1, SpecKeepsInv, PTL

\* The verification that load_* repeats on every read never rejects an evaluation or a
\* decision that the code itself stored, except as ambiguous after a later attempt with
\* evidence.
THEOREM StoredEvaluationsStayReadable == Spec => []StoredEvaluationStaysReadable
<1>1. Inv => StoredEvaluationStaysReadable
  BY StoredIsReadable DEF Inv
<1> QED BY <1>1, SpecKeepsInv, PTL

\* No replay, conflict, fault or race changes or removes a stored row.
THEOREM HistoryOnlyGrows == Spec => HistoryIsAppendOnly
<1>1. Inv /\ [Next]_vars => [AppendOnly]_database
  BY InvIsInductive
<1> QED BY <1>1, SpecKeepsInv, PTL DEF Spec, HistoryIsAppendOnly

-----------------------------------------------------------------------------
(* The system implements AssessmentLedger. *)

\* persist_request registers an assessment or changes nothing.
LEMMA RequestRegisters ==
  ASSUME DatabaseInv, NEW a \in Assessments, NEW r \in Request, WriteRequest(a, r)
  PROVE  Ledger!Register(a) \/ UNCHANGED database
<1>1. CASE RequestWrite(a, r) = "inserted"
  <2>1. /\ requests[a] = NoRow
        /\ requests' = [requests EXCEPT ![a] = r]
        /\ UNCHANGED <<attempts, snapshots, decisions>>
    BY <1>1 DEF RequestWrite, WriteRequest
  <2>2. requests'[a] = r /\ r # NoRow
    BY <2>1, NoRowIsNoRow DEF DatabaseInv, DatabaseTypeOK
  <2> QED BY <2>1, <2>2 DEF Ledger!Register
<1>2. CASE RequestWrite(a, r) # "inserted"
  BY <1>2 DEF WriteRequest, database
<1> QED BY <1>1, <1>2

\* The collection persisters record one outcome in an unused slot or change nothing.
LEMMA CollectionRecords ==
  ASSUME NEW c \in Collection, WriteCollection(c)
  PROVE  Ledger!Record \/ UNCHANGED database
<1>1. CASE CollectionWrite(c) = "inserted"
  <2>1. /\ requests[c.assessment] # NoRow
        /\ requests[c.assessment].repository = c.repository
        /\ \A d \in attempts : d.id # c.id
        /\ \A d \in attempts :
             ~(d.assessment = c.assessment /\ d.kind = c.kind /\ d.number = c.number)
    BY <1>1 DEF CollectionWrite, RepositoryMatches, IdTaken, SlotTaken
  <2>2. /\ attempts' = attempts \union {c}
        /\ UNCHANGED <<requests, snapshots, decisions>>
    BY <1>1 DEF WriteCollection
  <2> QED BY <2>1, <2>2 DEF Ledger!Record
<1>2. CASE CollectionWrite(c) # "inserted"
  BY <1>2 DEF WriteCollection, database
<1> QED BY <1>1, <1>2

\* persist_assessment_evaluation_snapshot evaluates from recorded outcomes.
LEMMA SnapshotEvaluates ==
  ASSUME DatabaseInv, NEW v \in Evaluation, WriteSnapshot(v)
  PROVE  Ledger!LedgerEvaluate(v.assessment) \/ UNCHANGED database
<1> DEFINE a == v.assessment
<1>1. CASE SnapshotWrite(v) = "inserted"
  <2>1. snapshots[a] = NoRow
    BY <1>1, InsertedEvaluation
  <2>2. /\ requests[a] # NoRow
        /\ \A k \in Kinds : RestsOn(v.evidence[k], k, a, v)
    BY <1>1, NewEvaluationRests DEF DatabaseInv
  <2>3. /\ snapshots' = [snapshots EXCEPT ![a] = v]
        /\ UNCHANGED <<requests, attempts, decisions>>
    BY <1>1 DEF WriteSnapshot
  <2>4. a \in Assessments
    BY DEF Evaluation
  <2>5. snapshots'[a] = v /\ v # NoRow
    BY <2>3, <2>4, NoRowIsNoRow DEF DatabaseInv, DatabaseTypeOK
  <2>6. \A k \in Kinds :
          /\ v.evidence[k] \in attempts
          /\ v.evidence[k].assessment = a
          /\ v.evidence[k].kind = k
          /\ v.evidence[k].outcome \in {"available", "unavailable"}
          /\ v.evidence[k].attemptedAt <= v.evaluatedAt
    BY <2>2 DEF RestsOn
  <2> QED BY <2>1, <2>2, <2>3, <2>5, <2>6 DEF Ledger!LedgerEvaluate
<1>2. CASE SnapshotWrite(v) # "inserted"
  BY <1>2 DEF WriteSnapshot, database
<1> QED BY <1>1, <1>2

\* _persist_human_decision decides on the one evaluation.
LEMMA DecisionDecides ==
  ASSUME DatabaseInv, NEW content \in DecisionContent, NEW t \in Times,
         WriteDecision(content, t)
  PROVE  Ledger!Decide(content.assessment) \/ UNCHANGED database
<1> DEFINE a == content.assessment
           decision == [content |-> content, recordedAt |-> t]
<1>1. CASE DecisionWrite(content, t) = "inserted"
  <2>1. /\ snapshots[a] # NoRow
        /\ decisions[a] = NoRow
        /\ ContentValid(content, requests[a], snapshots[a])
        /\ t >= snapshots[a].evaluatedAt
    BY <1>1, InsertedDecision
  <2>2. /\ decisions' = [decisions EXCEPT ![a] = decision]
        /\ UNCHANGED <<requests, attempts, snapshots>>
    BY <1>1 DEF WriteDecision
  <2>3. a \in Assessments /\ decision \in Decision
    BY DEF DecisionContent, Decision
  <2>4. decisions'[a] = decision /\ decision # NoRow
    BY <2>2, <2>3, NoRowIsNoRow DEF DatabaseInv, DatabaseTypeOK
  <2>5. /\ decision.content.evaluation = snapshots[a]
        /\ decision.content.maker = requests[a].reviewer
        /\ decision.recordedAt >= snapshots[a].evaluatedAt
    BY <2>1 DEF ContentValid
  <2> QED BY <2>1, <2>2, <2>4, <2>5 DEF Ledger!Decide
<1>2. CASE DecisionWrite(content, t) # "inserted"
  BY <1>2 DEF WriteDecision, database
<1> QED BY <1>1, <1>2

\* Every step of the database is a step of the ledger or leaves it alone.
LEMMA DatabaseStepIsLedgerStep ==
  ASSUME DatabaseInv, DatabaseStep
  PROVE  [Ledger!LedgerNext]_Ledger!ledger
<1>1. UNCHANGED database => UNCHANGED Ledger!ledger
  BY DEF database, Ledger!ledger
<1>2. CASE \E a \in Assessments, r \in Request : WriteRequest(a, r)
  BY <1>1, <1>2, RequestRegisters DEF Ledger!LedgerNext
<1>3. CASE \E c \in Collection : WriteCollection(c)
  BY <1>1, <1>3, CollectionRecords DEF Ledger!LedgerNext
<1>4. CASE \E v \in Evaluation : WriteSnapshot(v)
  <2>1. \A v \in Evaluation : v.assessment \in Assessments
    BY DEF Evaluation
  <2> QED BY <1>1, <1>4, <2>1, SnapshotEvaluates DEF Ledger!LedgerNext
<1>5. CASE \E content \in DecisionContent, t \in Times : WriteDecision(content, t)
  <2>1. \A content \in DecisionContent : content.assessment \in Assessments
    BY DEF DecisionContent
  <2> QED BY <1>1, <1>5, <2>1, DecisionDecides DEF Ledger!LedgerNext
<1> QED BY <1>1, <1>2, <1>3, <1>4, <1>5 DEF DatabaseStep

\* Executors, reviewers and library callers, with their crashes, races and replays,
\* implement the ledger that persistence.py promises: one request, evaluation and
\* decision per assessment, each resting on what was recorded before it.
THEOREM SystemImplementsLedger == Spec => LedgerImplemented
<1>1. Init => Ledger!LedgerInit
  BY DEF Init, DatabaseInit, Ledger!LedgerInit
<1>2. Inv /\ [Next]_vars => [Ledger!LedgerNext]_Ledger!ledger
  BY ProcessesStep, DatabaseStepIsLedgerStep DEF Inv
<1> QED BY <1>1, <1>2, SpecKeepsInv, PTL DEF Spec, LedgerImplemented, Ledger!LedgerSpec
=============================================================================
