-------------------------- MODULE AssessmentSystem --------------------------
(***************************************************************************)
(* Executors, reviewers and direct library callers on one database file.   *)
(***************************************************************************)
EXTENDS AssessmentExecution, HumanReview

CONSTANTS
  LibraryCollections,  \* collections a caller may hand to the persisters itself
  MaxFaults            \* bound on storage faults and crashes in one behaviour

ASSUME LibraryIsTyped == LibraryCollections \subseteq Collection
ASSUME FaultsAreCounted == MaxFaults \in Nat

VARIABLE faults

vars == <<database, executorState, reviewerState, faults>>

\* Each caller of a persister directly, outside any execution.
LibraryPersist(c) ==
  /\ WriteCollection(c)
  /\ UNCHANGED <<executorState, reviewerState, faults>>

ExecutorFault(e) ==
  /\ faults < MaxFaults
  /\ faults' = faults + 1
  /\ StorageFault(e) \/ Crash(e)
  /\ UNCHANGED reviewerState

ReviewFault(r) ==
  /\ faults < MaxFaults
  /\ faults' = faults + 1
  /\ ReviewerFault(r)
  /\ UNCHANGED executorState

ExecutorStep(e) ==
  /\ \/ \E i \in ExecutionInputs : Begin(e, i)
     \/ Advance(e)
  /\ UNCHANGED <<reviewerState, faults>>

ReviewerStep(r) ==
  /\ \/ \E a \in Assessments : Review(r, a)
     \/ \E s \in Submissions : \E v \in {seen[r], NoRow} : BeginDecide(r, s, v)
     \/ ReviewerAdvance(r)
  /\ UNCHANGED <<executorState, faults>>

Init ==
  /\ DatabaseInit
  /\ ExecutorInit
  /\ ReviewerInit
  /\ faults = 0

Next ==
  \/ \E e \in Executors : ExecutorStep(e)
  \/ \E e \in Executors : ExecutorFault(e)
  \/ \E r \in Reviewers : ReviewerStep(r)
  \/ \E r \in Reviewers : ReviewFault(r)
  \/ \E c \in LibraryCollections : LibraryPersist(c)

Spec == Init /\ [][Next]_vars

\* Callers keep running the execution and a running process keeps taking steps.
FairSpec ==
  /\ Spec
  /\ \A e \in Executors : WF_vars(ExecutorStep(e))

-----------------------------------------------------------------------------
(* Properties. *)

\* Every variable stays in the type the code's constructors and columns give it.
TypeOK ==
  /\ DatabaseTypeOK
  /\ ExecutorTypeOK
  /\ ReviewerTypeOK
  /\ faults \in 0..MaxFaults

\* No interleaving of executors and library callers stores two attempts under one
\* identifier or under one (assessment, kind, number), and every attempt belongs to a
\* stored request for the same repository (persist_github_*_collection).
AttemptsAreUnique ==
  /\ \A c, d \in attempts :
       \/ c = d
       \/ /\ c.id # d.id
          /\ <<c.assessment, c.kind, c.number>> # <<d.assessment, d.kind, d.number>>
  /\ \A c \in attempts :
       /\ requests[c.assessment] # NoRow
       /\ requests[c.assessment].repository = c.repository

\* Attempt c is evidence of kind k that evaluation v of assessment a may rest on.
RestsOn(c, k, a, v) ==
  /\ c \in attempts
  /\ c.assessment = a
  /\ c.kind = k
  /\ c.outcome \in {"available", "unavailable"}
  /\ c.attemptedAt <= v.evaluatedAt
  /\ c.outcome = "available" => SourceTime[c.value] <= v.evaluatedAt
  /\ k \in v.nonPassing <=> ~Passes(k, requests[a].context, c, v.evaluatedAt)

\* A stored evaluation rests on one stored attempt with evidence for every required kind
\* of its own assessment, none after its instant, and on findings recomputed from them
\* (persist_assessment_evaluation_snapshot).
EvaluationRestsOnEvidence ==
  \A a \in Assessments : snapshots[a] # NoRow =>
    /\ requests[a] # NoRow
    /\ snapshots[a].assessment = a
    /\ \A k \in Kinds : RestsOn(snapshots[a].evidence[k], k, a, snapshots[a])

\* A stored decision names the one evaluation of its assessment, comes from the reviewer
\* the request names, acknowledges exactly the findings an approval must, and is not
\* recorded before the evaluation (_persist_human_decision).
DecisionBindsEvaluation ==
  \A a \in Assessments : decisions[a] # NoRow =>
    /\ requests[a] # NoRow
    /\ snapshots[a] # NoRow
    /\ decisions[a].content.assessment = a
    /\ decisions[a].content.evaluation = snapshots[a]
    /\ decisions[a].content.maker = requests[a].reviewer
    /\ decisions[a].content.disposition \in {"approve", "approve_with_conditions"}
         => decisions[a].content.acknowledged = snapshots[a].nonPassing
    /\ decisions[a].recordedAt >= snapshots[a].evaluatedAt

\* A step that keeps every stored row as it is.
AppendOnly ==
  /\ attempts \subseteq attempts'
  /\ \A a \in Assessments :
       /\ requests[a] # NoRow => requests'[a] = requests[a]
       /\ snapshots[a] # NoRow => snapshots'[a] = snapshots[a]
       /\ decisions[a] # NoRow => decisions'[a] = decisions[a]

\* No step of any caller, replay, conflict or fault changes or removes a stored row.
HistoryIsAppendOnly == [][AppendOnly]_database

\* An execution that reports completion returns the evaluation that is stored for its
\* assessment, whoever stored it, and the request stored there is the one it submitted.
CompletionIsDurable ==
  \A e \in Executors : verdict[e] = "complete" =>
    /\ proposed[e] # NoValue
    /\ snapshots[input[e].assessment] = proposed[e]
    /\ requests[input[e].assessment] = input[e].request

\* Attempts that executions stored for one assessment form one run: an initial segment of
\* the canonical order, all submitted with one attempted_at, and only the last of them
\* may lack evidence, however many executors shared the work and wherever they crashed.
OneCollectionRun ==
  \A c \in attempts : c.number = 1 =>
    \A i, j \in Steps : CollectionOrder[i] = c.kind /\ j < i =>
      \E d \in attempts :
        /\ d.assessment = c.assessment /\ d.number = 1
        /\ d.kind = CollectionOrder[j]
        /\ d.outcome \in {"available", "unavailable"}
        /\ d.attemptedAt = c.attemptedAt

HasLaterEvidence(a) ==
  \E c \in attempts : c.assessment = a /\ c.number # 1 /\ HasEvidence(c)

\* A stored evaluation and a stored decision pass the verification that every later read
\* repeats, with one exception: a later attempt with evidence makes the evidence set
\* ambiguous.  No attempt without evidence does so, and no such read takes them for damaged.
StoredEvaluationStaysReadable ==
  LET Reads(status, a) == \/ status = "verified"
                          \/ status = "evidence_set_ambiguous" /\ HasLaterEvidence(a)
  IN
  \A a \in Assessments :
    /\ snapshots[a] # NoRow => Reads(SnapshotStatus(a), a)
    /\ decisions[a] # NoRow => Reads(DecisionStatus(a), a)

\* A verification after a reopen fails only if the file was damaged: what other callers
\* commit between the write and the reread is never taken for corruption.
NoFalseCorruption ==
  /\ \A e \in Executors : verdict[e] \notin {"verification_failed", "invalid_input"}
  /\ \A r \in Reviewers : answer[r] # "verification_failed"

\* Two reviewers are never both told that theirs is the recorded decision of one
\* assessment, and whatever a reviewer is told was recorded is what is stored.
RecordedOnce ==
  /\ \A r, q \in Reviewers :
       answer[r] = "recorded" /\ answer[q] = "recorded" /\ subject[r] = subject[q] => r = q
  /\ \A r \in Reviewers :
       answer[r] \in {"recorded", "exact_replay"} => decisions[subject[r]] = held[r]

\* The system implements the ledger.
Ledger == INSTANCE AssessmentLedger WITH
  Blank <- NoRow, registered <- requests, outcomes <- attempts,
  evaluated <- snapshots, decided <- decisions

LedgerImplemented == Ledger!LedgerSpec

\* An execution that found its request and every attempt already stored as submitted, or
\* stored them itself, is an exact replay or the first run: the snapshot write that ends
\* it must not be refused as a conflicting replay.
ExactReplayIsNotRefused ==
  [][ \A e \in Executors :
        pc[e] = "persist_snapshot" => verdict'[e] # "conflicting_replay" ]_vars

\* With a remote that answers the same evidence every time, a request once stored is
\* evaluated, in spite of crashes, lost locks and concurrent runs of the same input.
RequestedIsEvaluated ==
  \A a \in Assessments : requests[a] # NoRow ~> snapshots[a] # NoRow
=============================================================================
