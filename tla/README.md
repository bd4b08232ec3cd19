# A verification of the engineering due diligence platform

The repository is a Python command line tool and library. It collects four facts about a
public GitHub repository, stores them in an SQLite file, evaluates them against a policy
and records one human decision on the result. Each command is a separate process and the
file is all that processes share. This directory holds TLA+ models of that system, the
TLC runs that check them and the proofs that TLAPS checks. Source paths below are relative
to `src/engineering_due_diligence/` of the repository.

## 1. The system

| component | code | state it keeps | operations |
|---|---|---|---|
| request validation | `request.py` | none | `validate_assessment_request` |
| GitHub collectors | `github.py` | none beyond one call | four `collect_github_*` functions |
| persistence: rows | `persistence.py` | the tables of the file | `persist_request`, four `persist_github_*_collection`, `persist_assessment_evaluation_snapshot`, `persist_human_decision`, the `load_*` reads |
| persistence: schema | `persistence.py` | `user_version` and the table definitions | `_ensure_schema`, four migrations, `_connect_read_only_v5` |
| workflow | `workflow.py` | locals of one call | `execute_assessment` |
| evaluation slice | `evaluation.py`, `assessment.py` | none | `calculate_metrics`, `evaluate_policy`, `evaluate_deterministic_slice` |
| command line | `cli.py` | locals of one process, standard output, exit code | `assess`, `review`, `decide` |
| records | `models.py` | none | constructors that validate |
| evaluation harness | `scripts/` of the repository | report files | replays fixed scenarios |

How they interact. `assess` builds an input and calls `execute_assessment`, which validates
the request, persists it, and then for each evidence kind in a fixed order calls the
collector (one or more GETs) and persists its result. It then looks for a stored evaluation:
if there is one it recomputes it at its own instant and compares; otherwise it reads the
clock, evaluates and persists. `review` reads request, evaluation, evidence and decision in
one read transaction. `decide` checks in one transaction that the evaluation the caller
names is the stored one, and records in another. Every persister runs one `BEGIN IMMEDIATE`
transaction, commits, closes the connection, reopens the file and reads back what it wrote.
Every read of an evaluation or a decision recomputes what it read.

What is hard here, and which modules answer it:

* **Interleaving.** Any two processes can interleave between transactions. The code takes no
  lock beyond one transaction; it relies on keys, on exact comparison of replays and on
  recomputation inside transactions. ADR 0001 leaves concurrency out of its scope, but the
  code is written so that a second process can exist (`BEGIN IMMEDIATE`, busy errors).
* **Crash and replay.** A process may die after any commit. There is no resume operation. A
  library caller runs `execute_assessment` again with the same input, and completed steps must
  be found as exact replays. `assess` cannot do that: each run draws a new assessment
  identifier, so an interrupted assessment stays as it is and the next run starts another. A
  `decide` can be repeated: its arguments name the assessment.
* **Lost answers.** The effect of a command is durable before its document is written; if the
  write fails, the exit code is 1.
* **Rules written twice.** Identity rules (`request.py`, `github.py`, `models.py`), usability
  of evidence and acknowledgments (`evaluation.py`, `persistence.py`, `cli.py`) and the
  classes of results (`github.py`, constraints of the schema) must agree.
* **Lossy rows.** A result has more fields than its rows have columns and is rebuilt by
  inference on every read.
* **Reads after commit.** The reopen verification reads what anybody has committed since.
* **Clocks.** `attempted_at` comes from the caller, the evaluation instant and the recording
  instant from two later clock readings; nothing orders them but checks.
* **Schema races.** The version is read outside the migration's transaction.
* **A changing remote.** A `SECURITY.md` search takes up to seven requests.
* **Boundaries.** Recency thresholds, floored days, HTTP status ranges, a repository that is
  itself named `.github`.

What makes each component correct:

* rows: append-only; one request, evaluation and decision per assessment; identifiers and
  attempt numbers used once; evaluations rest on stored evidence; decisions on evaluations;
* workflow: completion means the stored evaluation is the one returned; stored attempts of
  concurrent runs form one run; an interrupted assessment can still be evaluated;
* review and decide: one reviewer at most is told its decision was recorded, and truly;
* schema: version and tables change together, never backwards from the current version, and
  no row is lost; an opener that tries again gets through;
* collectors: every result that is built can be stored and rebuilt, no Boolean comes out of a partial
  search, a steady policy file is not missed;
* rows of a collection: what a collector returns can be stored and comes back as it was, and
  what was lost or altered is noticed before it counts as evidence;
* policy: unusable evidence never counts, stricter contexts and time never help;
* request validation: every error is reported, in order; what is stored is accepted by every
  later boundary;
* command line: documents show stored rows, exit codes tell the truth about the file, every
  command ends and a repeated `decide` is answered;
* review report: no gap unexplained or invented; the acknowledgments it prints are the ones
  an approval needs.

## 2. Modules

| module | models | composed of |
|---|---|---|
| `AssessmentDatabase` | the rows, the verified reads, the four write transactions | |
| `AssessmentExecution` | `execute_assessment`, any number of executors | extends `AssessmentDatabase` |
| `HumanReview` | `review` and `decide`, any number of reviewers | extends `AssessmentDatabase` |
| `AssessmentSystem` | executors, reviewers and direct library callers on one file; properties | extends both |
| `AssessmentLedger` | abstract: what the persistence boundary promises | instantiated by `AssessmentSystem` |
| `SchemaMigration` | creation, migration and read-only gate for concurrent openers | |
| `EvidenceCollection` | the four collectors against a changing remote | |
| `CollectionRows` | from a collection result to its rows and back, and damage to them | extends `EvidenceCollection` |
| `PolicyEvaluation` | metrics and policy outcomes as time passes | |
| `ReviewReport` | the review report and the decision taken from it | extends `PolicyEvaluation` |
| `RequestValidation` | validation, stored row and later boundaries of a request | |
| `CommandLine` | commands as processes: exit codes, documents, new identifiers | extends `AssessmentSystem` |
| `FixedOrder` | the list one pass over a fixed order builds | extended by `ReviewReport`, `RequestValidation` |
| `AssessmentProofs` | theorems of `AssessmentSystem`: types, rows, ledger | |
| `RunProofs` | theorems of `AssessmentSystem`: answers, histories of executions | extends `AssessmentProofs` |
| `CommandProofs` | theorems of `CommandLine` | extends `RunProofs` |
| `SchemaProofs` | theorems of `SchemaMigration` | |
| `OrderProofs` | what `FixedOrder` computes | |
| `PolicyProofs` | theorems of `PolicyEvaluation` and `ReviewReport` | extends `OrderProofs` |
| `RequestProofs` | theorems of `RequestValidation` | extends `OrderProofs` |
| `CollectionProofs` | theorems of `EvidenceCollection` and `CollectionRows` | |
| `MCAssessment`, `MCCommands`, `MCMigration`, `MCCollection`, `MCRows`, `MCReview`, `MCRequest` | finite values of the constants | |

### State and actions against the code

`AssessmentDatabase`. `requests`, `snapshots` and `decisions` map an assessment to a row or
to `NoRow`; `attempts` is the set of collection attempts, each with its result and evidence
rows, which one commit inserts together. The four collection persisters differ only in
columns and are one transaction, `WriteCollection`. An operator such as `CollectionWrite`
is the decision of a transaction: `"inserted"`, `"replayed"` or the category of the error
that rolls it back, in the order of the code's checks. `SnapshotStatus` and
`DecisionStatus` are the verified reads, with their recomputation.
Digests are injective: the identifier the workflow derives for attempt 1 is a function of
assessment and kind (`AttemptIdsAreDigests`). The transaction of a persister only looks the
identifier up; whether the stored attempt equals the submitted one in every field is what
the reread after the reopen decides (`CollectionReread`).

`AssessmentExecution`. One label per place where another process may run: before and after
each transaction and each collector call. `PersistRequest` and the other `Persist*` actions
are the write transaction, `Verify*` the reopen, `Collect` the collector, `LoadSnapshot`
the lookup, `EvaluateFirst` the clock reading with evidence load and calculation,
`EvaluateAgain` the replay. The first opening of the file can be refused (`OpenRefused`): of
two openers that create it at once one loses and gets `schema_incompatible`. `SchemaMigration`
follows that race step by step. Here, where every behaviour starts from a file that is not
there, the refusal stands at the moment the loser reads the version, when nothing is stored
yet: what others do until it raises does not matter, since a refusal changes nothing. Later
openings are not refused, since a row is only stored in a file of version 5, which stays
version 5 (`CurrentIsFinal`). `StorageFault` is a transaction that cannot run: SQLite itself
fails. Its `"storage_error"` names that cause; the code's category for it depends on the
statement that fails (`database_unavailable`, `write_failed`, `schema_incompatible`,
`verification_failed`), the exit code does not. `Crash` is the
death of the process at any point, which is also what an exception no handler catches
amounts to (a collector that raises, for instance). A collector's answer is any element of
`Responses`: the remote owes nothing to consistency.

`HumanReview`. `Review` is one read transaction. `BeginDecide` starts either the command,
which runs `LoadForDecision` first, or a direct call of `persist_human_decision`.
`PersistDecision` and `VerifyDecision` are the transaction and its reopen. `DecideRefused` is a
decision on a file that is no store yet.

`AssessmentSystem` adds direct calls of the collection persisters (`LibraryPersist`) and
the bound `MaxFaults`.

`SchemaMigration`. `version` is `PRAGMA user_version`, `layout` the generation of the
tables, `rows` the evidence rows. Reads of the version and definition checks are steps of
their own because they run in autocommit; the body of a migration is one step. The
statements of a migration run on the layout that is there, not on the one that was
verified: `StatementsRun`, `RowsFit` and `DefinitionVerified` decide whether it commits.

`EvidenceCollection`. One `Probe` per GET; the classification `ErrorOf` is in the order of
the code; `RemoteChange` may come between two probes. A payload is a verdict on the body:
bound to the requested object, not bound, or an empty commit list.

`PolicyEvaluation`. Context and evidence stay, `Later` evaluates them again at a later
instant. Days have two instants each, so that floored days and exact durations differ.

`CollectionRows`. `Store` is the insertion of all rows of one result, refused where a CHECK or
a foreign key does not hold; `Read` rebuilds the result, passes it through the checks of its
class and compares the rows with the ones it would be written as. A result is
`EvidenceCollection`'s, with the details left out there: body, ETag, Retry-After, instant. A
digest *is* its bytes and an identifier its place, since both are recomputed on every read.
`Damage` changes one row outside the program: it loses it, or alters one column, or two of an
attempt or a snapshot.

`RequestValidation`. A request is a record of classes of values, a locator a record of its
parts. `Validate`, `Store`, `Reread` and `Collect` follow one request through the boundaries
that check it; `Resubmit` lets the caller try again. Binding and constraints are modelled by
what they do: `sqlite3` refuses integers beyond 64 bits and text without a UTF-8 form, SQLite's
`length()` stops at a NUL.

`ReviewReport`. `Report` has one field per section of the Markdown report that says something
about evidence, metrics, findings or acknowledgments, each computed as in its loop of
`_review_markdown`. `Decide` is the decision boundary's check of a disposition with what a
reviewer copied from the report: all, none, reversed or partly.

`CommandLine`. A terminal is a sequence of processes. `Assess`, `ReviewCommand`, `Decide` and
the rejected forms start one, `AssessProceeds` and `DecideProceeds` are the steps of
`AssessmentExecution` and `HumanReview` inside it, `Write`, `WriteFails` and `IsGone` are its
three ends. `drawn` holds the identifiers of earlier runs: a UUID is not drawn twice.
`asked` and `stood` only record, for the properties, what the last `decide` submitted and
whether that was already the stored decision. Three outputs are distinct: a document on
standard output, one on standard error (`Silence`) and none.

Each of these modules also holds small variants of its own operators
(`RequestReplace`, `SnapshotStatusUnchecked`, ...). No action uses them. Each describes a
plausible mistake in the operator below it, and substituting it shows that a property
notices. Section 6 lists them.

## 3. Runs

All runs finish within three minutes. Sizes are distinct states.

| run | instance | states | what it shows |
|---|---|---|---|
| `execution` | 2 executors, 1 assessment, 2 kinds, 4 inputs, 4 answers, 2 faults | 261 198 | races of different requests and times on one assessment |
| `decision` | 2 reviewers, 1 executor, 4 submissions, 1 fault | 391 539 | races of decisions, before, during and after the execution |
| `library` | 1 executor, 2 assessments, 4 direct collections, 1 fault | 64 125 | second attempts, reused identifiers and numbers, a foreign repository |
| `recovery` | 2 executors, 1 input, 2 faults, weak fairness | 3 776 | a stored request is evaluated in the end |
| `replay_conflict` | 2 executors, 1 input | violated | finding 1 |
| `migration` | 2 openers, every version, 4 rows, foreign files, 2 faults, weak fairness | 209 796 | schema coherence, no downgrade, no lost row, openers get through |
| `migration_exact` | 2 openers | violated | finding 2 |
| `collection_status` | status 700 | violated | finding 3 |
| `rows` | 4 collectors, 9 statuses, 1 remote change, 4 bodies, 2 instants, one damaged row | 1 414 984 | result checks, search precedence, round trip of every result |
| `review` | 16 contexts, one weak record or any combination of good and bad ones, 8 instants | 275 808 | policy monotonicity and boundaries, report, acknowledgments |
| `request` | every request with up to two unusual fields | 6 095 | errors, stored requests, refusals |
| `commands` | 1 assessing and 1 deciding terminal or 2 assessing ones, 2 assessments, 1 fault, 1 outage, weak fairness | 187 637 | exit codes and documents against the file, runs that do not meet, repeated decisions, commands end |

Why the bounds are enough. *Kinds:* two stand for four, because the code treats kinds alike
except that the commit bears an instant, and both sorts are there; the order of kinds matters
only for first and next. *Executors and reviewers:* every conflict the database decides is
between one stored row and one incoming row, so two actors show it; a third repeats the part of
the second, and the proofs cover any number. *Times:* two instants order any pair of clock
readings both ways. *Faults:* one or two per behaviour, so that the replay after a fault can be
hit by another. *Migration:* the file runs through every version under two openers; the same
properties hold of three (956 628 states). *Collection:* one change of the remote can add or
remove any set of sources at once. *Rows:* two instants and two bodies that bind the same
object are enough to tell a changed column from the original; all three candidate paths and
both scopes are there, and one status for each branch of the classification. *Requests:* no
rule looks at two fields, so two unusual fields show order and completeness. *Commands:* one
outage can hide one durable effect, and the next command meets it. Every behaviour has one of
two pairs of terminals (`PairSpec`). Beside a terminal that decides, the other assesses a
request that is rejected and one that is not, so that it leaves either behind. Beside another
that assesses, both take valid requests for one repository, at once or one after the other, in
a file that neither has created yet: their rows differ in the identifier only. What an
`assess` could meet is one row of one other run, so two runs show it, and the theorem
`AssessIsAlone` holds of any number. Races of two deciding terminals are in
`decision`, where a direct call and a command take the same steps, and `CommandProofs` covers
any number of terminals. *Review:* findings on different requirements do not read each other's
evidence, so one record of any kind among good ones reaches every finding; the combinations of
a good, a bad, a stale and a missing record reach every report.

Symmetry is used only in runs without liveness, over executors, reviewers and openers,
which no definition tells apart.

Deadlock is checked in every run. In `EvidenceCollection` a finished collection stutters
by `Done`.

### Fairness

`FairSpec` of `AssessmentSystem` is weak fairness of `ExecutorStep(e)` for each executor: a
running process keeps taking steps, and an idle one is run again with the same input, which
library callers of `execute_assessment` can do and `assess` cannot. Nothing is assumed of
reviewers or faults; faults are bounded. With a remote that always answers the same
evidence (`recovery`), the request is evaluated in spite of crashes. Without that assumption
it need not be: a stored retryable failure can only be replayed, and retries are out of
scope (`README.md:412`).

`FairSpec` of `SchemaMigration` is weak fairness of `Step(o)` for each opener: callers try
again after a refusal. Reads of the read-only gate are not part of it.

`CommandFairness` of `CommandLine` is weak fairness of each terminal's `Proceeds`: a process
that was started runs on. The code justifies it: it waits for nothing without a limit, since
requests have a timeout of ten seconds and a busy database raises after the driver's default
of five. Nobody is assumed to start a command, and nobody tries again inside one.

## 4. Findings

1. **An exact replay can be refused** (`replay_conflict`). `execute_assessment` looks for a
   stored evaluation and reads its own clock only if there is none. Two identical executions
   that both find none propose evaluations at different instants, and the later one ends in
   `conflicting_replay`; `memory/PATTERNS.md:125` asks that an exact replay return the
   stored evaluation. ADR 0001 leaves concurrency out of scope, so this divergence matters
   only if that changes. The stored data stay correct (`LedgerImplemented`), and calling
   `execute_assessment` once more with the same input succeeds. It concerns library callers:
   `assess` is alone with its identifier (`AssessMeetsNobody`).
2. **A migration can start from a version that is not its own** (`migration_exact`). The
   version is not read again inside the migration's transaction, so an opener that saw
   version 1 can commit version 2 over version 3. `memory/PATTERNS.md:57` asks for "an exact
   supported prior version". The file stays coherent, no row is lost and versions 4 and 5
   are never left, which `migration` shows of the same model.
3. **A status of 600 or more has no outcome** (`collection_status`). The result class rejects
   it and the collector raises; `plans/day_06...md:452` promises
   `github_unexpected_status` for any other status.

Two further observations are part of a property that holds, `RefusalsAreKnown` of
`RequestValidation`, which names every reason for which a valid request is refused.

* Validation accepts any positive `int` and any unpadded text; `sqlite3` raises
  `OverflowError` for a lifetime beyond 64 bits and `UnicodeEncodeError` for a lone surrogate.
  Neither is a `sqlite3.Error`, so they leave `persist_valid_assessment_request` as they are,
  and `assess` ends with exit code 1. Nothing is stored. `plans/day_08...md:295` says that
  "SQLite open, schema, write, and commit failures expose sanitized categories".
* `submitted_at` is read back with a fixed offset; an aware datetime in the repeated hour of
  its zone equals none of another zone, so the reread after the commit fails, and so does
  every replay although it finds exactly its row. `plans/day_08...md:234` says that "an exact
  existing row is replay". `assess` submits UTC instants, so only library callers meet it.

## 5. What is proved

TLAPS checks every theorem for all values of the constants: any sets of executors, reviewers,
assessments, kinds, inputs, answers, times, openers, stored rows, requests, HTTP statuses and
bodies, any `MaxFaults`, `MaxOutages` and number of remote changes. The assumptions are the
named `ASSUME`s of the modules: instants are natural numbers (`TimesAreNaturals`), 1 is an
attempt number (`NumbersStartAtOne`), derived identifiers are injective
(`AttemptIdsAreDigests`), the collection order lists every kind once (`OrderCoversKinds`), no
terminal both assesses and decides (`TerminalsAreDistinct`), a status has three digits, since
`http.client` raises on any other status line (`StatusesAreHttp`), inputs, submissions, library
collections, requests and bodies are typed, and the markers for "no row" and "no value" are not
values. TLC evaluates all of them in the runs.

| theorem | property |
|---|---|
| `AssessmentProofs!TypeCorrect` | `TypeOK` |
| `AssessmentProofs!AttemptsStayUniqueAlways` | `AttemptsAreUnique` |
| `AssessmentProofs!EvaluationsRestOnEvidence` | `EvaluationRestsOnEvidence` |
| `AssessmentProofs!DecisionsBindEvaluations` | `DecisionBindsEvaluation` |
| `AssessmentProofs!StoredEvaluationsStayReadable` | `StoredEvaluationStaysReadable` |
| `AssessmentProofs!HistoryOnlyGrows` | `HistoryIsAppendOnly` |
| `AssessmentProofs!SystemImplementsLedger` | `LedgerImplemented` |
| `RunProofs!CompletionsAreDurable` | `CompletionIsDurable` |
| `RunProofs!DecisionsAreRecordedOnce` | `RecordedOnce` |
| `RunProofs!NothingIsTakenForDamage` | `NoFalseCorruption` |
| `RunProofs!CollectionsAreOneRun` | `OneCollectionRun` |
| `CommandProofs!CommandsImplementSystem` | `Spec` of `AssessmentSystem` |
| `CommandProofs!CommandsAreTyped` | `CommandTypeOK` |
| `CommandProofs!DocumentsAreStored` | `PrintedIsStored` |
| `CommandProofs!DecideExitIsTrue` | `DecideExitTellsDecision` |
| `CommandProofs!AssessIsAlone` | `AssessMeetsNobody` |
| `CommandProofs!AssessTellsStore` | `AssessExitTellsStore` |
| `CommandProofs!RepeatedDecideIsAnswered` | `RepeatIsAnswered` |
| `SchemaProofs!SchemaTypeCorrect` | `TypeOK` |
| `SchemaProofs!SchemaIsAlwaysCoherent` | `SchemaStaysCoherent` |
| `SchemaProofs!CurrentVersionIsFinal` | `CurrentIsFinal` |
| `SchemaProofs!OpenStaysCurrent` | `OpenIsCurrent` |
| `SchemaProofs!RowsAreAlwaysPreserved` | `RowsArePreserved` |
| `PolicyProofs!ReviewsImplementEvaluation` | `Spec` of `PolicyEvaluation` |
| `PolicyProofs!StrictnessNeverHelps` | `StricterNeverHelps` |
| `PolicyProofs!AgeNeverHelps` | `AgeingNeverHelps` |
| `PolicyProofs!DaysNeverContradict` | `DaysAgreeWithFinding` |
| `PolicyProofs!GapsAreAlwaysExplained` | `EveryGapIsExplained` |
| `PolicyProofs!AcknowledgmentsAlwaysSuffice` | `PrintedAcknowledgmentsSuffice` |
| `PolicyProofs!ApprovalsAreInformed` | `ApprovalIsInformed` |
| `OrderProofs!InOrderSelects` | what one pass over an order selects |
| `RequestProofs!ErrorsAreAlwaysComplete` | `ErrorsAreComplete` |
| `RequestProofs!StoredIsAlwaysUsable` | `StoredIsUsable` |
| `RequestProofs!RefusalsAreAlwaysKnown` | `RefusalsAreKnown` |
| `CollectionProofs!ResultsAreAlwaysAccepted` | `CollectorResultIsAccepted` |
| `CollectionProofs!SteadyPoliciesAreFound` | `SteadyPolicyIsNotMissed` |
| `CollectionProofs!AddressesAreNeverRepeated` | `NoAddressTwice` |
| `CollectionProofs!CollectionsAlwaysReadBack` | `CollectionReadsBack` |
| `CollectionProofs!DamageIsAlwaysNoticed` | `DamageIsNoticed` |
| `CollectionProofs!CollectorsAreSound` | the three facts of the search, of `EvidenceCollection` alone |

The argument. `DatabaseStep` says that a step leaves the database alone or is one of the four
write transactions on typed arguments. *Every step of the system is a database step*
(`ProcessesStep`): that needs the types of what each process holds at its label, which
`ExecutorInv` and `ReviewerInv` add to `TypeOK` (a collection in hand between collector and
reread, an evaluation between calculation and end, a decision after its transaction). From
there on processes no longer matter. `StepsAppend` shows that database steps change no row that
is there. `DatabaseInv` is the database's own inductive invariant: types, uniqueness of
attempts, evaluations resting on evidence, and `DecisionsAreValid`, which keeps the whole
validation of a decision rather than the parts `DecisionBindsEvaluation` names, because the
verified read repeats all of it. The properties of rows follow from `DatabaseInv`:
`StoredEvaluationStaysReadable` from uniqueness of attempts: two attempts of one kind have two
numbers, so an ambiguous evidence set has a later attempt with evidence
(`EvidenceIsAmbiguousByRepetition`), and one that is not ambiguous is the one the evaluation
rests on, so the recomputation yields what is stored (`RestingIsRecomputed`). The last part of `AssessmentProofs` maps each transaction to its
ledger action. `RunProofs` begins with the answers: it adds per process what it has seen
(`Witnessed`, `Informed`), stable because the database only grows, and `OneRecorder`: a
reviewer becomes the recorder of an assessment only where no decision was, and every other
recorder's decision is stored.

`CommandProofs` first shows that every step of a command is a step of the system or leaves the
system alone (`CommandsImplementSystem`), so the theorems above hold of the command line. The
rest is one inductive invariant, `SystemInv /\ CommandInv`. `SystemInv` is what `RunProofs`
shows of the system. `CommandInv` says of each terminal that it is `Sound`: what it printed is
stored (`Stored`) and fits its exit code (`Tells`), and while it runs, what it will print is
already known, since a running `assess` works on its input (`HasInput`), a finished `review`
holds rows it read (`HasRead`) and a running `decide` answers as no review does (`HasNotRead`).
A step moves one terminal: for the others nothing they rely on can change, because the database
only grows (`PrintedSurvives`, `UnmovedSurvives`); the mover is treated by its action
(`RunsKeep`, `WritesKeep`, and the starts). `AskInv` adds, for exit codes 0 and 6 of a
`decide`, that the decision in hand is the one it was asked for and that a conflict was found
against a stored decision of other content (`StoredDecisionIsCompared`).

The rest of `RunProofs` is about the history behind an execution. `Travelled` says of each
label which attempts must be stored by then: one with evidence for every earlier step of the
collection order (`Gathered`), and in hand only an attempt of the workflow's own making
(`OwnAttempt`). With `DerivedIdsAreFirst`, whoever stores the workflow's identifier stores the
first attempt of that assessment and kind, so a reread never misses its row (`RereadFindsOwn`);
and no verified read fails on an evaluation or a decision that is stored (`NoSnapshotFails`,
`NoDecisionFails`). Both theorems have a hypothesis about
the callers of `persistence.py` that do not use the workflow, stated in the theorem: they
derive no identifier as it does (`LibraryNamesItsOwn`), and for `CollectionsAreOneRun` they
store no first attempt (`LibraryRetries`). Without the first, a caller could store any attempt
under the workflow's identifier; without the second, it could skip kinds. The runs `execution`,
`decision` and `recovery`, which have no such callers, meet both.

The second half of `CommandProofs` shows what a new identifier per `assess` is good for.
Nothing stands under an identifier that was not drawn (`Undrawn`), no two terminals ever share
one (`NoneShared`), and a running execution writes only under its own
(`ExecutorsTouchTheirOwn`). So `OwnRows` can say label by label what *exactly* stands there,
where `Travelled` only says what stands there at least; from it every write is a first one
(`OwnAttemptIsNew`), every step goes on, and the end is a completion, a failed calculation, a
collection without evidence, a fault, or a refusal to open the file, and after that nothing
stands there (`OwnEnd`, `OpenRefusedIsOwned`). As the command line stores first attempts
only, what a decision rests on is never ambiguous (`StandingIsVerified`), which is why a
repeated `decide` is always answered (`RepeatInv`).

`SchemaProofs` needs two more facts than its properties say. `ForeignFileIsSafe`: on a file
that is not a supported pair, an opener has a migration in hand only if it verified exactly
the prior version and layout, which such a file never has; so nobody migrates it, however
stale its reads. `CheckedIsCurrent`: an opener past the last definition check works on the
current layout, and stays there because *no* migration commits on the current layout
(`NothingMigratesCurrent`; on the layout of version 4 only the last one does), whatever
version the opener had read. `RowsAreValued` says that a row has a value exactly if it is
available, so a migration whose constraints accept the migrated rows has changed none of
them (`CommittedMigrationKeepsRows`). With these, `FileSteps` names the three things a step
may do to the file, and the action properties follow from it.

`PolicyProofs` needs only a small invariant, `PolicyInv`: the findings are those that
`EvaluateSlice` yields for exactly the context, the evidence and the instant at hand, because
reviews and decisions leave all four alone (`ReviewsEvaluateNothing`). What is left are facts
about the rules. `StricterThreshold` and `LaterOutcome` compare two applications of a rule:
strictness is monotone in the context, and a stricter context has the shorter threshold
(`RecencyIsOrdered`); `LaterIsErrorFree` says that an instant later than one that had no
evidence in its future has none either. `FlooredDays` is the arithmetic behind the displayed
days, for a day of any positive length (`DayIsPositive`).

The report needs `ReportInv`: what it says is computed from the evidence and findings of the
moment, which later steps leave alone (`FrozenReport`), and a decision came after one. Each
list of the report is one pass over a fixed order, and so is the list of errors of a request.
`FixedOrder` writes that pass as a recursive function rather than with `SelectSeq`, which no
fact of the library describes. `OrderProofs` shows what it contains by induction over the
length of the order: the library's induction theorem takes an operator, so the induction is
done with a set of natural numbers and its least missing element (`LeastElement`,
`InductionSet`), once to give the recursive function a value (`PassExists`) and once to say
what the value selects.

`RequestProofs` compares the rules of validation with the rules of each later boundary
(`NoErrorIsAccepted`, `RowIsReadable`); its invariant `RequestInv` says of each stage whether
the request has errors and whether its row is there, and of a refusal which rule it comes from.

`CollectionProofs` has two invariants. `SearchInv` follows a search: what was observed lies on
the one path through the candidates (`SourceAt`), each observation has a status its category
allows (`ClassificationIsAccepted`), and while the search goes on every candidate behind it
was absent at its own moment, so none of them is steady. A finished search is accepted
by its class and misses no steady file (`Found`). `RowsInv` follows the rows. What the rows
give back is the result they were made from (`RowsReturn`): timeouts and refused connections
share the column `NULL`, and the category tells them apart (`StatusReturns`). Every constraint
of the schema holds of them (`RowsFitSchema`). Damage touches one row (`DamagedInOneRow`), and
as the evidence row repeats the provenance in the attempt, the observations and the snapshots,
rows that agree with each other and carry evidence must be the ones that were collected
(`VerifiedIsCollected`). Where there is no evidence, a changed row of a failure can pass as
another failure, but never as evidence (`EvidenceTells`).

What stays with TLC: the liveness properties `RequestedIsEvaluated`, `OpenersGetThrough` and
`EveryCommandEnds`, which rest on fairness and on what is enabled, beyond this prover; and
the three findings, which are counterexamples. The type invariants of `CollectionRows`,
`ReviewReport` and `RequestValidation` say what their variables range over; their theorems
carry the types they need in their own invariants. Every other property that a run checks is
a theorem.

## 6. Variants

Substituting the variant for the operator breaks the property in the run.

| run | property | operator | variant: the mistake |
|---|---|---|---|
| `execution` | `TypeOK` | `SnapshotStatus` | `SnapshotStatusUnchecked`: a verified read neither looks for the evaluation nor recomputes it |
| `execution` | `EvaluationRestsOnEvidence` | `CanEvaluate` | `CanEvaluateFutureCommits`: the commit timestamp is not compared with the instant |
| `execution` | `CompletionIsDurable` | `RepeatedEvaluation` | `EvaluationReplaces`: a different second evaluation overwrites the first |
| `execution` | `OneCollectionRun` | `HasEvidence` | `HasEvidenceUnlessRejected`: a retryable failure counts as evidence |
| `execution` | `NoFalseCorruption` | `CollectionReread` | `CollectionRereadEqual`: a reread that differs is taken for damage |
| `execution` | `HistoryIsAppendOnly` | `RequestWrite` | `RequestReplace`: a different second request overwrites the first |
| `decision` | `DecisionBindsEvaluation` | `ContentValid` | `ContentByAnyone`: the decision maker is not compared with the requested reviewer |
| `decision` | `RecordedOnce` | `RepeatedDecision` | `DecisionReplaces`: a different second decision overwrites the first |
| `decision` | `LedgerImplemented` | `ContentValid` | `ContentByAnyone`: the decision maker is not compared with the requested reviewer |
| `library` | `AttemptsAreUnique` | `SlotTaken` | `SlotTakenByItself`: the attempt number is looked up under the submitted identifier only |
| `library` | `StoredEvaluationStaysReadable` | `SlotTaken` | `SlotTakenByItself`: the attempt number is looked up under the submitted identifier only |
| `library` | `LedgerImplemented` | `RepositoryMatches` | `RepositoryUnchecked`: the repository of an attempt is not compared with the request's |
| `recovery` | `RequestedIsEvaluated` | `CanEvaluate` | `CanEvaluateStrictly`: evidence collected at the very instant is refused |
| `migration` | `TypeOK` | `Proceed` | `ProceedPastTheLast`: a fifth migration stage is entered |
| `migration` | `OpenIsCurrent` | `DefinitionVerified` | `SameColumns`: the definition check after a migration sees the rebuilt tables only |
| `migration` | `SchemaStaysCoherent` | `DefinitionVerified` | `SameColumns`: the definition check after a migration sees the rebuilt tables only |
| `migration` | `CurrentIsFinal` | `DefinitionVerified` | `SameColumns`: the definition check after a migration sees the rebuilt tables only |
| `migration` | `RowsArePreserved` | `MigrationCommits` | `MigrationUnchecked`: a migration commits without its checks |
| `migration` | `OpenersGetThrough` | `MigratedLayout` | `MigratedLayoutWithoutObservations`: migration 3 forgets the observations table |
| `rows` | `CollectorResultIsAccepted` | `ResultAfter` | `ResultSkippingFailures`: a failed probe of the search is skipped |
| `rows` | `SteadyPolicyIsNotMissed` | `ResultAfter` | `ResultSkippingFailures`: a failed probe of the search is skipped |
| `rows` | `NoAddressTwice` | `CandidateSpecs` | `CandidatesRepeated`: repeated addresses stay in the list |
| `rows` | `CollectionReadsBack` | `AttemptChecks` | `AttemptChecksWithout404`: a constraint does not know the status 404 |
| `rows` | `DamageIsNoticed` | `Provenance` | `ProvenanceWithoutDigests`: the digests of the bodies are not part of what is compared |
| `review` | `StricterNeverHelps` | `RequiresStrictControls` | `StrictWhenShortLived`: a short lifetime, not a long one, asks for strict controls |
| `review` | `DaysAgreeWithFinding` | `RequiresStrictControls` | `StrictUnlessTolerant`: strict controls need a low tolerance as well |
| `review` | `AgeingNeverHelps` | `Recent` | `RecentReversed`: the comparison is the wrong way round |
| `review` | `EveryGapIsExplained` | `IsUnusable` | `IsUnavailable`: the report passes over stale evidence |
| `review` | `PrintedAcknowledgmentsSuffice` | `RequiredAcknowledgments` | `AcknowledgmentsOfFailures`: only failures are listed |
| `review` | `ApprovalIsInformed` | `Accepts` | `AcceptsAnyAcknowledgments`: the acknowledgments of an approval are not compared |
| `request` | `ErrorsAreComplete` | `ErrorsOf` | `FirstError`: validation stops at the first error |
| `request` | `StoredIsUsable` | `Normalize` | `NormalizeWithSuffix`: a repository name may end in `.git` |
| `request` | `RefusalsAreKnown` | `HasSubmittedAtError` | `HasSubmittedAtErrorUnlessNaive`: a naive instant is valid |
| `commands` | `AssessExitTellsStore` | `AssessExitCode` | `FailureIsInvalid`: a failed collection ends like a rejected request |
| `commands` | `AssessMeetsNobody` | `SlotTaken` | `SlotTakenByAnyone`: the attempt number is looked up without the assessment |
| `commands` | `CommandTypeOK` | `DocumentOf` | `DocumentEvenIfRefused`: the success document is written whatever the outcome |
| `commands` | `PrintedIsStored` | `ReviewerExitCode` | `ConflictIsReplay`: a conflicting decision ends with exit code 0 |
| `commands` | `DecideExitTellsDecision` | `ReviewerExitCode` | `RefusalIsConflict`: a refused decision ends like a conflict |
| `commands` | `RepeatIsAnswered` | `RepeatedDecision` | `SecondDecisionConflicts`: every second decision is a conflict |
| `commands` | `EveryCommandEnds` | `Worked` | `WorkedUnlessFailed`: the command does not handle a failed collection |

## 7. Not modelled

* Argument parsing, wording and layout of the documents; of the Markdown report, the sections
  that only repeat a stored field.
* Digests, identifiers, canonical JSON and reason texts; digests are taken as injective.
* The grammar of texts and URLs in `request.py` and `models.py` and payload decoding in
  `github.py`, except for their verdicts.
* Fixture parsing and canonical payloads in `models.py`: no command reaches the first, and the
  second only feeds digests.
* The evaluation harness under `scripts/`: it drives the commands through fixed scenarios in one
  thread, each in a file of its own, and compares the outcome with constants. It keeps no state
  beyond a scenario; what it tests is what the other modules model.
* Damage to the file in the composition: `CollectionRows` damages the rows of one collection;
  the other verified reads are shown to reject nothing undamaged (`NoFalseCorruption`).

## 8. Plan

Done: the database, execution, review, their composition, the ledger and the commands around
them; migration, collection with its rows, policy with its report, and request validation as
separate models; the theorems above.

Left, in this order:

1. Composition: the findings of `PolicyEvaluation` as the `Passes` of `AssessmentSystem`, and
   the outcomes of `EvidenceCollection` as its `Responses`, as two instances with a
   refinement.
2. Damage to the rows of an evaluation and a decision.
