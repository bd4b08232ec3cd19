------------------------- MODULE AssessmentDatabase -------------------------
(***************************************************************************)
(* The SQLite store of persistence.py (schema version 5) as a set of       *)
(* tables, the checks every read repeats, and the bodies of the five write *)
(* transactions.  A write transaction runs under BEGIN IMMEDIATE and is    *)
(* one atomic step; the reopen verification that follows the commit opens  *)
(* the file again and is a separate step of the caller.                    *)
(*                                                                         *)
(* A SHA-256 identifier is abstracted by the content it digests, a         *)
(* response body by a member of Values, and an instant by a natural number.*)
(*                                                                         *)
(* Some definitions are preceded by a variant with a plausible bug; the    *)
(* README lists which property each variant breaks.  Nothing refers to it. *)
(***************************************************************************)
EXTENDS Integers, FiniteSets

CONSTANTS
  Assessments,      \* assessment identifiers
  Kinds,            \* the evidence kinds an evaluation requires
  AttemptIds,       \* collection attempt identifiers
  AttemptNumbers,   \* attempt numbers a caller may submit; the workflow uses 1
  Repositories,     \* normalized repository identities
  Actors,           \* caller asserted actor identifiers
  Contexts,         \* the rest of a submitted request
  Values,           \* what a collection carries besides its identity and outcome
  Rationales,       \* free text of a human decision
  Times,            \* instants
  SourceTime,       \* the instant a value reports: a commit timestamp, otherwise 0
  Passes(_, _, _, _), \* does the finding on a kind pass, from context, evidence and instant
  NoRow             \* no row under this key

ASSUME TimesAreNaturals == Times \subseteq Nat /\ SourceTime \in [Values -> Nat]
ASSUME NumbersStartAtOne == 1 \in AttemptNumbers /\ AttemptNumbers \subseteq Nat

VARIABLES
  requests,   \* assessment_requests, by assessment
  attempts,   \* collection_attempts with the snapshots and evidence inserted with them
  snapshots,  \* assessment_evaluation_snapshots, by assessment
  decisions   \* human_decisions, by assessment

database == <<requests, attempts, snapshots, decisions>>

-----------------------------------------------------------------------------
(* Row types. *)

Outcomes == {"available", "unavailable", "failed_retryable", "failed_nonretryable"}
EvidenceOutcomes == {"available", "unavailable"}
Dispositions == {"approve", "approve_with_conditions", "needs_more_information", "reject"}

Request == [repository : Repositories, reviewer : Actors, context : Contexts]

Collection ==
  [id : AttemptIds, assessment : Assessments, kind : Kinds, number : AttemptNumbers,
   repository : Repositories, attemptedAt : Times, outcome : Outcomes, value : Values]

Evaluation ==
  [assessment : Assessments, evaluatedAt : Times, evidence : [Kinds -> Collection],
   nonPassing : SUBSET Kinds]

\* A caller may name an evaluation that exists nowhere: NoRow.
DecisionContent ==
  [assessment : Assessments, evaluation : Evaluation \union {NoRow}, maker : Actors,
   disposition : Dispositions, rationale : Rationales, conditions : BOOLEAN,
   informationRequests : BOOLEAN, acknowledged : SUBSET Kinds]

Decision == [content : DecisionContent, recordedAt : Times]

ASSUME NoRowIsNoRow == NoRow \notin Request \union Evaluation \union Decision

DatabaseTypeOK ==
  /\ requests \in [Assessments -> Request \union {NoRow}]
  /\ attempts \subseteq Collection
  /\ snapshots \in [Assessments -> Evaluation \union {NoRow}]
  /\ decisions \in [Assessments -> Decision \union {NoRow}]

DatabaseInit ==
  /\ requests = [a \in Assessments |-> NoRow]
  /\ attempts = {}
  /\ snapshots = [a \in Assessments |-> NoRow]
  /\ decisions = [a \in Assessments |-> NoRow]

-----------------------------------------------------------------------------
(* Verified reads.  A status is "verified" or the category of the raised error. *)

HasEvidenceUnlessRejected(c) == c.outcome # "failed_nonretryable"

\* An attempt has an evidence row exactly when its outcome is one of these.
HasEvidence(c) == c.outcome \in EvidenceOutcomes

EvidenceRows(a, k) == {c \in attempts : c.assessment = a /\ c.kind = k /\ HasEvidence(c)}

EvidenceStatus(a) ==
  IF requests[a] = NoRow THEN "request_not_found"
  ELSE IF \E k \in Kinds : \E c, d \in EvidenceRows(a, k) : c # d
       THEN "evidence_set_ambiguous"
  ELSE IF \E k \in Kinds : EvidenceRows(a, k) = {} THEN "evidence_set_incomplete"
  ELSE "verified"

EvidenceSet(a) == [k \in Kinds |-> CHOOSE c \in EvidenceRows(a, k) : TRUE]

CanEvaluateStrictly(evidence, t) ==
  \A k \in Kinds :
    /\ evidence[k].attemptedAt < t
    /\ evidence[k].outcome = "available" => SourceTime[evidence[k].value] <= t

CanEvaluateFutureCommits(evidence, t) == \A k \in Kinds : evidence[k].attemptedAt <= t

\* Evaluation raises when an attempt or the commit it reports is after the instant.
CanEvaluate(evidence, t) ==
  \A k \in Kinds :
    /\ evidence[k].attemptedAt <= t
    /\ evidence[k].outcome = "available" => SourceTime[evidence[k].value] <= t

NonPassing(context, evidence, t) ==
  {k \in Kinds : ~Passes(k, context, evidence[k], t)}

Evaluate(a, evidence, t) ==
  [assessment |-> a, evaluatedAt |-> t, evidence |-> evidence,
   nonPassing |-> NonPassing(requests[a].context, evidence, t)]

SnapshotStatusUnchecked(a) ==
  IF EvidenceStatus(a) # "verified" THEN EvidenceStatus(a) ELSE "verified"

\* A stored evaluation is recomputed from the stored evidence at its own instant.
SnapshotStatus(a) ==
  IF snapshots[a] = NoRow THEN "evaluation_not_found"
  ELSE IF EvidenceStatus(a) # "verified" THEN EvidenceStatus(a)
  ELSE IF /\ CanEvaluate(EvidenceSet(a), snapshots[a].evaluatedAt)
          /\ snapshots[a] = Evaluate(a, EvidenceSet(a), snapshots[a].evaluatedAt)
       THEN "verified"
  ELSE "verification_failed"

\* The disposition decides which statements and acknowledgments a decision carries.
ContentShapeOK(content, nonPassing) ==
  /\ content.conditions <=> content.disposition = "approve_with_conditions"
  /\ content.informationRequests <=> content.disposition = "needs_more_information"
  /\ content.acknowledged =
       IF content.disposition \in {"approve", "approve_with_conditions"}
       THEN nonPassing ELSE {}

ContentByAnyone(content, request, snapshot) ==
  /\ content.evaluation = snapshot
  /\ ContentShapeOK(content, snapshot.nonPassing)

ContentValid(content, request, snapshot) ==
  /\ content.evaluation = snapshot
  /\ content.maker = request.reviewer
  /\ ContentShapeOK(content, snapshot.nonPassing)

DecisionStatus(a) ==
  IF decisions[a] = NoRow THEN "decision_not_found"
  ELSE IF SnapshotStatus(a) # "verified" THEN SnapshotStatus(a)
  ELSE IF /\ ContentValid(decisions[a].content, requests[a], snapshots[a])
          /\ decisions[a].recordedAt >= snapshots[a].evaluatedAt
       THEN "verified"
  ELSE "verification_failed"

-----------------------------------------------------------------------------
(* Write transactions.  The status operator says what the transaction decides: *)
(* "inserted", "replayed", or the category of the error that rolls it back.    *)

RequestReplace(a, r) == IF requests[a] = r THEN "replayed" ELSE "inserted"

RequestWrite(a, r) ==
  IF requests[a] = NoRow THEN "inserted"
  ELSE IF requests[a] = r THEN "replayed"
  ELSE "conflicting_replay"

RepositoryUnchecked(c) == requests[c.assessment] # NoRow

RepositoryMatches(c) == requests[c.assessment].repository = c.repository

\* No row yet, so the tables may not be there either: an opener that reads version 0 now
\* is refused with schema_incompatible if another one creates them before it does.  A row
\* is only stored in a file of the current version, which stays current.
NothingStored == \A a \in Assessments : requests[a] = NoRow

IdTaken(c) == \E d \in attempts : d.id = c.id

SlotTakenByItself(c) == \E d \in attempts : d.id = c.id /\ d.number = c.number

SlotTakenByAnyone(c) == \E d \in attempts : d.kind = c.kind /\ d.number = c.number

SlotTaken(c) ==
  \E d \in attempts : d.assessment = c.assessment /\ d.kind = c.kind /\ d.number = c.number

\* The identifier is looked up before the attempt number.
CollectionWrite(c) ==
  IF requests[c.assessment] = NoRow THEN "request_not_found"
  ELSE IF ~RepositoryMatches(c) THEN "invalid_input"
  ELSE IF IdTaken(c) THEN "replayed"
  ELSE IF SlotTaken(c) THEN "conflicting_replay"
  ELSE "inserted"

EvaluationReplaces(v) == IF snapshots[v.assessment] = v THEN "replayed" ELSE "inserted"

RepeatedEvaluation(v) ==
  IF SnapshotStatus(v.assessment) # "verified" THEN SnapshotStatus(v.assessment)
  ELSE IF snapshots[v.assessment] = v THEN "replayed"
  ELSE "conflicting_replay"

\* The evaluation is recomputed inside the transaction before any row is compared.
SnapshotWrite(v) ==
  LET a == v.assessment IN
  IF EvidenceStatus(a) # "verified" THEN EvidenceStatus(a)
  ELSE IF ~CanEvaluate(EvidenceSet(a), v.evaluatedAt) THEN "verification_failed"
  ELSE IF v # Evaluate(a, EvidenceSet(a), v.evaluatedAt) THEN "invalid_input"
  ELSE IF snapshots[a] = NoRow THEN "inserted"
  ELSE RepeatedEvaluation(v)

DecisionReplaces(content) ==
  IF decisions[content.assessment].content = content THEN "replayed" ELSE "inserted"

SecondDecisionConflicts(content) ==
  IF DecisionStatus(content.assessment) # "verified" THEN DecisionStatus(content.assessment)
  ELSE "conflicting_replay"

\* The content of a second decision is only compared with the first.
RepeatedDecision(content) ==
  IF DecisionStatus(content.assessment) # "verified" THEN DecisionStatus(content.assessment)
  ELSE IF decisions[content.assessment].content = content THEN "replayed"
  ELSE "conflicting_replay"

FirstDecision(content, t) ==
  IF /\ ContentValid(content, requests[content.assessment], snapshots[content.assessment])
     /\ t >= snapshots[content.assessment].evaluatedAt
  THEN "inserted" ELSE "invalid_input"

DecisionWrite(content, t) ==
  LET a == content.assessment IN
  IF requests[a] = NoRow THEN "request_not_found"
  ELSE IF SnapshotStatus(a) # "verified" THEN SnapshotStatus(a)
  ELSE IF decisions[a] # NoRow THEN RepeatedDecision(content)
  ELSE FirstDecision(content, t)

WriteRequest(a, r) ==
  /\ requests' = IF RequestWrite(a, r) = "inserted"
                 THEN [requests EXCEPT ![a] = r] ELSE requests
  /\ UNCHANGED <<attempts, snapshots, decisions>>

\* One commit inserts the attempt and every row that hangs on it.
WriteCollection(c) ==
  /\ attempts' = IF CollectionWrite(c) = "inserted" THEN attempts \union {c} ELSE attempts
  /\ UNCHANGED <<requests, snapshots, decisions>>

WriteSnapshot(v) ==
  /\ snapshots' = IF SnapshotWrite(v) = "inserted"
                  THEN [snapshots EXCEPT ![v.assessment] = v] ELSE snapshots
  /\ UNCHANGED <<requests, attempts, decisions>>

WriteDecision(content, t) ==
  /\ decisions' = IF DecisionWrite(content, t) = "inserted"
                  THEN [decisions EXCEPT ![content.assessment] =
                          [content |-> content, recordedAt |-> t]]
                  ELSE decisions
  /\ UNCHANGED <<requests, attempts, snapshots>>

CollectionRereadEqual(c) == IF c \in attempts THEN "verified" ELSE "verification_failed"

\* What the reopen verification of a collection write finds.
CollectionReread(c) ==
  IF \E d \in attempts : d = c THEN "verified"
  ELSE IF \E d \in attempts : d.id = c.id /\ d.kind = c.kind THEN "different"
  ELSE "verification_failed"
=============================================================================
