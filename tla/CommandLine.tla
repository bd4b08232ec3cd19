---------------------------- MODULE CommandLine ----------------------------
(***************************************************************************)
(* The processes around the system: main of cli.py.  A terminal runs one   *)
(* command after another; a command does its work through the workflow or  *)
(* the decision boundary, then writes one document and ends with one exit  *)
(* code.  A terminal that assesses is an executor, one that reviews and    *)
(* decides is a reviewer.  Every assess draws a new assessment identifier, *)
(* so no command can go on with what another assess began.                 *)
(***************************************************************************)
EXTENDS AssessmentSystem

CONSTANT MaxOutages   \* bound on failed outputs, unread files and kills before the output

ASSUME OutagesAreCounted == MaxOutages \in Nat
ASSUME TerminalsAreDistinct == Executors \cap Reviewers = {}

VARIABLES
  command,  \* what a terminal runs, or ran last
  ended,    \* its exit code, or Running
  printed,  \* the document on its standard output
  drawn,    \* the assessment identifiers drawn so far
  asked,    \* the content that the last decide of a reviewer submitted
  stood,    \* was that very content the stored decision when that decide started
  outages

commandState == <<command, ended, printed, drawn, asked, stood, outages>>
commandVars == <<vars, commandState>>

Terminals == Executors \union Reviewers

Running == -1
Killed == -2

\* "rejected" is a decide or review refused for an argument before the store is opened,
\* "unread" a review whose file cannot be opened or read.
Commands == {"none", "assess", "review", "decide", "rejected", "unread", "misused"}

Document ==
  [status : Verdicts \union Answers, assessment : Assessments \union {NoRow},
   evaluation : Evaluation \union {NoRow}, decision : Decision \union {NoRow}]

\* Nothing on standard output; an error document may be on standard error.
Silence == [status |-> "none", assessment |-> NoRow, evaluation |-> NoRow, decision |-> NoRow]

CommandTypeOK ==
  /\ command \in [Terminals -> Commands]
  /\ ended \in [Terminals -> 0..6 \union {Running, Killed}]
  /\ printed \in [Terminals -> Document]
  /\ drawn \subseteq Assessments
  /\ asked \in [Reviewers -> DecisionContent \union {NoDecision}]
  /\ stood \in [Reviewers -> BOOLEAN]
  /\ outages \in 0..MaxOutages

CommandInit ==
  /\ Init
  /\ command = [p \in Terminals |-> "none"]
  /\ ended = [p \in Terminals |-> 0]
  /\ printed = [p \in Terminals |-> Silence]
  /\ drawn = {}
  /\ asked = [r \in Reviewers |-> NoDecision]
  /\ stood = [r \in Reviewers |-> FALSE]
  /\ outages = 0

-----------------------------------------------------------------------------
(* What a command reports when its work is done. *)

WorkedUnlessFailed(p) ==
  /\ ended[p] = Running
  /\ command[p] = "assess" => pc[p] = "idle" /\ verdict[p] # "collection_failed"
  /\ command[p] = "decide" => at[p] = "idle"

Worked(p) ==
  /\ ended[p] = Running
  /\ command[p] = "assess" => pc[p] = "idle"
  /\ command[p] = "decide" => at[p] = "idle"

Outcome(p) ==
  CASE command[p] = "assess" -> verdict[p]
    [] command[p] \in {"review", "decide"} -> answer[p]
    [] command[p] = "rejected" -> "invalid_input"
    [] command[p] = "unread" -> "storage_error"

FailureIsInvalid(outcome) ==
  CASE outcome = "complete" -> 0
    [] outcome = "evaluation_error" -> 1
    [] outcome \in {"invalid_request", "collection_failed"} -> 3
    [] OTHER -> 5

\* An evaluation that raises is the one error that the persistence boundary does not name.
AssessExitCode(outcome) ==
  CASE outcome = "complete" -> 0
    [] outcome = "evaluation_error" -> 1
    [] outcome = "invalid_request" -> 3
    [] outcome = "collection_failed" -> 4
    [] OTHER -> 5

RefusalIsConflict(outcome) ==
  CASE outcome \in {"reviewed", "recorded", "exact_replay"} -> 0
    [] outcome \in {"invalid_input", "conflicting_replay"} -> 6
    [] OTHER -> 5

ConflictIsReplay(outcome) ==
  CASE outcome \in {"reviewed", "recorded", "exact_replay", "conflicting_replay"} -> 0
    [] outcome = "invalid_input" -> 3
    [] OTHER -> 5

ReviewerExitCode(outcome) ==
  CASE outcome \in {"reviewed", "recorded", "exact_replay"} -> 0
    [] outcome = "invalid_input" -> 3
    [] outcome = "conflicting_replay" -> 6
    [] OTHER -> 5

ExitCode(p) ==
  IF command[p] = "assess" THEN AssessExitCode(Outcome(p)) ELSE ReviewerExitCode(Outcome(p))

\* The evaluation is shown only if the execution is complete.
ExecutionDocument(e) ==
  [status |-> verdict[e], assessment |-> input[e].assessment,
   evaluation |-> IF verdict[e] = "complete" THEN proposed[e] ELSE NoRow,
   decision |-> NoRow]

\* A review shows the evaluation and the decision it read, if there was one.
ReviewDocument(r) ==
  [status |-> "reviewed", assessment |-> subject[r], evaluation |-> seen[r],
   decision |-> IF held[r] = NoDecision THEN NoRow ELSE held[r]]

DecisionDocument(r) ==
  [status |-> answer[r], assessment |-> subject[r], evaluation |-> NoRow,
   decision |-> held[r]]

ErrorDocument(outcome) == [Silence EXCEPT !.status = outcome]

DocumentEvenIfRefused(p) ==
  CASE command[p] = "assess" -> ExecutionDocument(p)
    [] command[p] = "review" -> ReviewDocument(p)
    [] command[p] = "decide" -> DecisionDocument(p)
    [] OTHER -> ErrorDocument(Outcome(p))

\* An internal error goes to standard error only.
DocumentOf(p) ==
  CASE ExitCode(p) = 1 -> Silence
    [] ExitCode(p) # 1 /\ command[p] = "assess" -> ExecutionDocument(p)
    [] ExitCode(p) = 0 /\ command[p] = "review" -> ReviewDocument(p)
    [] ExitCode(p) = 0 /\ command[p] = "decide" -> DecisionDocument(p)
    [] OTHER -> ErrorDocument(Outcome(p))

Ends(p, code, document) ==
  /\ ended' = [ended EXCEPT ![p] = code]
  /\ printed' = [printed EXCEPT ![p] = document]
  /\ UNCHANGED <<command, drawn, asked, stood, vars>>

Write(p) ==
  /\ Worked(p)
  /\ Outcome(p) # "crashed"
  /\ Ends(p, ExitCode(p), DocumentOf(p))
  /\ UNCHANGED outages

\* The process died in its run, or an exception of no kind that main knows has ended the work,
\* such as the one of a response body that breaks off.
IsGone(p) ==
  /\ Worked(p)
  /\ Outcome(p) = "crashed"
  /\ \E code \in {1, Killed} : Ends(p, code, Silence)
  /\ UNCHANGED outages

\* Standard output refuses the document, or the process dies before it is written.
WriteFails(p) ==
  /\ Worked(p)
  /\ Outcome(p) # "crashed"
  /\ outages < MaxOutages
  /\ outages' = outages + 1
  /\ \E code \in {1, Killed} : Ends(p, code, Silence)

-----------------------------------------------------------------------------
(* The start of a command. *)

Starts(p, c) ==
  /\ ended[p] # Running
  /\ command' = [command EXCEPT ![p] = c]
  /\ ended' = [ended EXCEPT ![p] = Running]
  /\ printed' = [printed EXCEPT ![p] = Silence]

\* The arguments do not parse: one document on standard error and exit code 2.
Misuse(p) ==
  /\ ended[p] # Running
  /\ command' = [command EXCEPT ![p] = "misused"]
  /\ ended' = [ended EXCEPT ![p] = 2]
  /\ printed' = [printed EXCEPT ![p] = Silence]
  /\ UNCHANGED <<drawn, asked, stood, outages, vars>>

IsNewIdentifier(i) == i.assessment \notin drawn

Assess(e, i) ==
  /\ Starts(e, "assess")
  /\ IsNewIdentifier(i)
  /\ drawn' = drawn \union {i.assessment}
  /\ Begin(e, i)
  /\ UNCHANGED <<asked, stood, outages, reviewerState, faults>>

ReviewCommand(r, a) ==
  /\ Starts(r, "review")
  /\ Review(r, a)
  /\ UNCHANGED <<drawn, asked, stood, outages, executorState, faults>>

\* A disposition that is none, or an identifier that is no text.
Reject(r) ==
  /\ Starts(r, "rejected")
  /\ UNCHANGED <<drawn, asked, stood, outages, vars>>

ReviewUnread(r) ==
  /\ Starts(r, "unread")
  /\ outages < MaxOutages
  /\ outages' = outages + 1
  /\ UNCHANGED <<drawn, asked, stood, vars>>

\* The command checks the evaluation it names before it submits.
Decide(r, s, evaluation) ==
  /\ Starts(r, "decide")
  /\ BeginDecide(r, s, evaluation)
  /\ at'[r] = "load"
  /\ asked' = [asked EXCEPT ![r] = submitted'[r]]
  /\ stood' = [stood EXCEPT ![r] =
       /\ decisions[subject[r]] # NoRow
       /\ decisions[subject[r]].content = submitted'[r]]
  /\ UNCHANGED <<drawn, outages, executorState, faults>>

-----------------------------------------------------------------------------

AssessProceeds(e) ==
  /\ ended[e] = Running
  /\ Advance(e)
  /\ UNCHANGED <<commandState, reviewerState, faults>>

DecideProceeds(r) ==
  /\ ended[r] = Running
  /\ ReviewerAdvance(r)
  /\ UNCHANGED <<commandState, executorState, faults>>

CommandFault ==
  /\ \/ \E e \in Executors : ExecutorFault(e)
     \/ \E r \in Reviewers : ReviewFault(r)
  /\ UNCHANGED commandState

Proceeds(p) ==
  \/ p \in Executors /\ AssessProceeds(p)
  \/ p \in Reviewers /\ DecideProceeds(p)
  \/ Write(p)
  \/ IsGone(p)

CommandNext ==
  \/ \E p \in Terminals : Proceeds(p) \/ WriteFails(p) \/ Misuse(p)
  \/ \E e \in Executors : \E i \in ExecutionInputs : Assess(e, i)
  \/ \E r \in Reviewers : \E a \in Assessments : ReviewCommand(r, a)
  \/ \E r \in Reviewers : Reject(r) \/ ReviewUnread(r)
  \/ \E r \in Reviewers : \E s \in Submissions : \E v \in {seen[r], NoRow} : Decide(r, s, v)
  \/ CommandFault

CommandSpec == CommandInit /\ [][CommandNext]_commandVars

\* A process that runs keeps running: every call it makes has a timeout.
CommandFairness == \A p \in Terminals : WF_commandVars(Proceeds(p))

-----------------------------------------------------------------------------
(* Properties. *)

\* Whatever evaluation or decision a command ever printed is the one that is stored for
\* that assessment, then and for good, and exactly exit code 0 comes with one.
PrintedIsStored ==
  \A p \in Terminals :
    /\ printed[p].evaluation # NoRow =>
         snapshots[printed[p].assessment] = printed[p].evaluation
    /\ printed[p].decision # NoRow =>
         decisions[printed[p].assessment] = printed[p].decision
    /\ command[p] # "none" =>
         (ended[p] = 0 <=> printed[p].evaluation # NoRow \/ printed[p].decision # NoRow)

\* The exit code of an assess tells what the store holds under its identifier, whatever
\* other commands do later: 0 a request with its evaluation; 3 nothing at all; 4 a request
\* with exactly one attempt without evidence and never an evaluation or a decision.
AssessExitTellsStore ==
  \A e \in Executors : command[e] = "assess" =>
    LET a == input[e].assessment
        without == {c \in attempts : c.assessment = a /\ ~HasEvidence(c)}
    IN
    /\ ended[e] = 0 => requests[a] = input[e].request /\ snapshots[a] # NoRow
    /\ ended[e] = 3 => requests[a] = NoRow /\ \A c \in attempts : c.assessment # a
    /\ ended[e] = 4 => /\ requests[a] = input[e].request
                       /\ Cardinality(without) = 1
                       /\ snapshots[a] = NoRow /\ decisions[a] = NoRow

\* An assess is alone with its rows: what older and concurrent runs stored never makes it
\* end in a conflict, an ambiguous or incomplete evidence set or a failed verification.  A
\* persistence error of it comes from the file: SQLite failed, or the race of the file's
\* creation was lost, and then it has stored nothing.
AssessMeetsNobody ==
  \A e \in Executors : command[e] = "assess" /\ ended[e] = 5 =>
    \/ verdict[e] = "storage_error"
    \/ /\ verdict[e] = "schema_incompatible"
       /\ requests[input[e].assessment] = NoRow

\* A decide that ends with 0 prints the decision it submitted, and one that ends with 6
\* meets the stored decision of the assessment, which is another.
DecideExitTellsDecision ==
  \A r \in Reviewers : command[r] = "decide" =>
    /\ ended[r] = 0 => printed[r].decision.content = asked[r]
    /\ ended[r] = 6 => /\ decisions[asked[r].assessment] # NoRow
                       /\ decisions[asked[r].assessment].content # asked[r]

\* A decision that was recorded although its command could not say so is not lost: the
\* same command again ends as an exact replay, unless a fault stops it as well.
RepeatIsAnswered ==
  \A r \in Reviewers : command[r] = "decide" /\ stood[r] /\ ended[r] # Running =>
    \/ ended[r] = 0 /\ printed[r].status = "exact_replay"
    \/ ended[r] = 5 /\ answer[r] = "storage_error"
    \/ ended[r] \in {1, Killed}

\* Every command ends, with an exit code or killed: nothing is tried again inside.
EveryCommandEnds ==
  \A p \in Terminals : ended[p] = Running ~> ended[p] # Running
=============================================================================
