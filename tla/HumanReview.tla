---------------------------- MODULE HumanReview ----------------------------
(***************************************************************************)
(* The review and decide commands of cli.py over the decision boundary of  *)
(* persistence.py.  A reviewer reads one verified evaluation, then submits *)
(* a decision that names it; decide checks the name in one transaction and *)
(* records in another, and anything may be committed in between.           *)
(***************************************************************************)
EXTENDS AssessmentDatabase

CONSTANTS
  Reviewers,
  Submissions,   \* decision content a reviewer may submit, apart from what it is about
  NoDecision     \* a local that is not set

Submission ==
  [maker : Actors, disposition : Dispositions, rationale : Rationales,
   conditions : BOOLEAN, informationRequests : BOOLEAN, acknowledged : SUBSET Kinds]

ASSUME SubmissionsAreTyped == Submissions \subseteq Submission
ASSUME NoDecisionIsNoDecision == NoDecision \notin DecisionContent \union Decision

VARIABLES
  at,        \* where a reviewer is
  subject,   \* the assessment it reviews or decides
  seen,      \* the evaluation its last review showed
  submitted, \* the content it is submitting
  held,      \* the decision its transaction recorded or found
  repeated,  \* was that decision already there
  answer     \* what its last command reported

reviewerState == <<at, subject, seen, submitted, held, repeated, answer>>

Answers ==
  {"none", "reviewed", "recorded", "exact_replay", "conflicting_replay", "invalid_input",
   "request_not_found", "evaluation_not_found", "decision_not_found",
   "evidence_set_ambiguous", "evidence_set_incomplete", "verification_failed",
   "schema_incompatible", "storage_error", "crashed"}

ReviewerTypeOK ==
  /\ at \in [Reviewers -> {"idle", "load", "persist", "verify"}]
  /\ subject \in [Reviewers -> Assessments \union {NoRow}]
  /\ seen \in [Reviewers -> Evaluation \union {NoRow}]
  /\ submitted \in [Reviewers -> DecisionContent \union {NoDecision}]
  /\ held \in [Reviewers -> Decision \union {NoDecision}]
  /\ repeated \in [Reviewers -> BOOLEAN]
  /\ answer \in [Reviewers -> Answers]

ReviewerInit ==
  /\ at = [r \in Reviewers |-> "idle"]
  /\ subject = [r \in Reviewers |-> NoRow]
  /\ seen = [r \in Reviewers |-> NoRow]
  /\ submitted = [r \in Reviewers |-> NoDecision]
  /\ held = [r \in Reviewers |-> NoDecision]
  /\ repeated = [r \in Reviewers |-> FALSE]
  /\ answer = [r \in Reviewers |-> "none"]

\* The command ends with a decision in hand or with an error.
Reply(r, a) ==
  /\ at' = [at EXCEPT ![r] = "idle"]
  /\ submitted' = [submitted EXCEPT ![r] = NoDecision]
  /\ repeated' = [repeated EXCEPT ![r] = FALSE]
  /\ answer' = [answer EXCEPT ![r] = a]
  /\ UNCHANGED <<subject, seen>>

Refuse(r, error) ==
  /\ Reply(r, error)
  /\ held' = [held EXCEPT ![r] = NoDecision]

-----------------------------------------------------------------------------
(* review *)

ReviewStatus(a) ==
  IF requests[a] = NoRow THEN "request_not_found"
  ELSE IF SnapshotStatus(a) # "verified" THEN SnapshotStatus(a)
  ELSE IF decisions[a] # NoRow THEN DecisionStatus(a)
  ELSE "verified"

\* One read transaction covers request, evaluation, evidence and optional decision.
Review(r, a) ==
  /\ at[r] = "idle"
  /\ subject' = [subject EXCEPT ![r] = a]
  /\ held' = [held EXCEPT ![r] =
       IF ReviewStatus(a) = "verified" /\ decisions[a] # NoRow
       THEN decisions[a] ELSE NoDecision]
  /\ seen' = [seen EXCEPT ![r] =
       IF ReviewStatus(a) = "verified" THEN snapshots[a] ELSE NoRow]
  /\ answer' = [answer EXCEPT ![r] =
       IF ReviewStatus(a) = "verified" THEN "reviewed" ELSE ReviewStatus(a)]
  /\ UNCHANGED <<at, submitted, repeated, database>>

-----------------------------------------------------------------------------
(* decide *)

\* The evaluation a caller names is the one it reviewed, or one that exists nowhere.
\* The command checks the name first; a library caller goes straight to the write.
BeginDecide(r, s, evaluation) ==
  /\ at[r] = "idle"
  /\ subject[r] # NoRow
  /\ evaluation \in {seen[r], NoRow}
  /\ submitted' = [submitted EXCEPT ![r] =
       [assessment |-> subject[r], evaluation |-> evaluation, maker |-> s.maker,
        disposition |-> s.disposition, rationale |-> s.rationale,
        conditions |-> s.conditions, informationRequests |-> s.informationRequests,
        acknowledged |-> s.acknowledged]]
  /\ \E label \in {"load", "persist"} : at' = [at EXCEPT ![r] = label]
  /\ held' = [held EXCEPT ![r] = NoDecision]
  /\ answer' = [answer EXCEPT ![r] = "none"]
  /\ UNCHANGED <<subject, seen, repeated, database>>

\* The file is not, or not yet, a store that can be opened.
DecideRefused(r) ==
  /\ at[r] \in {"load", "persist"}
  /\ NothingStored
  /\ Refuse(r, "schema_incompatible")
  /\ UNCHANGED database

LoadForDecision(r) ==
  LET a == submitted[r].assessment IN
  /\ at[r] = "load"
  /\ \/ /\ SnapshotStatus(a) = "verified"
        /\ snapshots[a] = submitted[r].evaluation
        /\ at' = [at EXCEPT ![r] = "persist"]
        /\ UNCHANGED <<subject, seen, submitted, held, repeated, answer>>
     \/ /\ SnapshotStatus(a) = "verified"
        /\ snapshots[a] # submitted[r].evaluation
        /\ Refuse(r, "invalid_input")
     \/ /\ SnapshotStatus(a) # "verified"
        /\ Refuse(r, SnapshotStatus(a))
  /\ UNCHANGED database

\* The recording clock is read inside the transaction, and only for a new decision.
PersistDecision(r, t) ==
  LET a == submitted[r].assessment
      status == DecisionWrite(submitted[r], t)
  IN
  /\ at[r] = "persist"
  /\ WriteDecision(submitted[r], t)
  /\ \/ /\ status \in {"inserted", "replayed"}
        /\ held' = [held EXCEPT ![r] = decisions'[a]]
        /\ repeated' = [repeated EXCEPT ![r] = (status = "replayed")]
        /\ at' = [at EXCEPT ![r] = "verify"]
        /\ UNCHANGED <<subject, seen, submitted, answer>>
     \/ /\ status \notin {"inserted", "replayed"}
        /\ Refuse(r, status)

VerifyDecision(r) ==
  LET a == submitted[r].assessment IN
  /\ at[r] = "verify"
  /\ \/ /\ DecisionStatus(a) = "verified"
        /\ decisions[a] = held[r]
        /\ Reply(r, IF repeated[r] THEN "exact_replay" ELSE "recorded")
        /\ UNCHANGED held
     \/ /\ DecisionStatus(a) = "verified"
        /\ decisions[a] # held[r]
        /\ Refuse(r, IF repeated[r] THEN "conflicting_replay" ELSE "verification_failed")
     \/ /\ DecisionStatus(a) # "verified"
        /\ Refuse(r, DecisionStatus(a))
  /\ UNCHANGED database

ReviewerFault(r) ==
  /\ at[r] # "idle"
  /\ \E error \in {"storage_error", "crashed"} : Refuse(r, error)
  /\ UNCHANGED database

ReviewerAdvance(r) ==
  \/ DecideRefused(r)
  \/ LoadForDecision(r)
  \/ \E t \in Times : PersistDecision(r, t)
  \/ VerifyDecision(r)
=============================================================================
