--------------------------- MODULE CommandProofs ---------------------------
(***************************************************************************)
(* Theorems of CommandLine for every set of terminals, inputs and bounds.  *)
(* The commands only restrict the system, so its theorems hold of them;    *)
(* and the document a command prints is checked against the store by what  *)
(* the executor or reviewer behind it knows when it ends.  Every assess    *)
(* draws an identifier of its own, so what stands under it is the work of  *)
(* that one run: it meets no conflict, and its exit code tells what the    *)
(* store holds.  And as nobody stores a second attempt, a decide that is   *)
(* repeated is always answered.                                            *)
(***************************************************************************)
EXTENDS CommandLine, RunProofs, FiniteSetTheorems

-----------------------------------------------------------------------------
(* Commands are behaviours of the system. *)

LEMMA CommandStepIsSystemStep ==
  ASSUME [CommandNext]_commandVars
  PROVE  [Next]_vars
<1>1. CASE \E e \in Executors : AssessProceeds(e)
  BY <1>1 DEF AssessProceeds, ExecutorStep, Next
<1>2. CASE \E r \in Reviewers : DecideProceeds(r)
  BY <1>2 DEF DecideProceeds, ReviewerStep, Next
<1>3. CASE \E p \in Terminals : Write(p) \/ IsGone(p) \/ WriteFails(p) \/ Misuse(p)
  BY <1>3 DEF Write, IsGone, WriteFails, Misuse, Ends
<1>4. CASE \E e \in Executors : \E i \in ExecutionInputs : Assess(e, i)
  BY <1>4 DEF Assess, ExecutorStep, Next
<1>5. CASE \E r \in Reviewers : \E a \in Assessments : ReviewCommand(r, a)
  BY <1>5 DEF ReviewCommand, ReviewerStep, Next
<1>6. CASE \E r \in Reviewers : Reject(r) \/ ReviewUnread(r)
  BY <1>6 DEF Reject, ReviewUnread
<1>7. CASE \E r \in Reviewers : \E s \in Submissions : \E v \in {seen[r], NoRow} :
             Decide(r, s, v)
  BY <1>7 DEF Decide, ReviewerStep, Next
<1>8. CASE CommandFault
  BY <1>8 DEF CommandFault, Next
<1>9. CASE UNCHANGED commandVars
  BY <1>9 DEF commandVars
<1> QED BY <1>1, <1>2, <1>3, <1>4, <1>5, <1>6, <1>7, <1>8, <1>9
        DEF CommandNext, Proceeds

\* Whatever commands are run at whatever terminals, main of cli.py puts the system through
\* one of its own behaviours, so that every theorem about Spec holds of the commands.
THEOREM CommandsImplementSystem == CommandSpec => Spec
<1>1. CommandInit => Init
  BY DEF CommandInit
<1>2. [CommandNext]_commandVars => [Next]_vars
  BY CommandStepIsSystemStep
<1> QED BY <1>1, <1>2, PTL DEF CommandSpec, Spec

-----------------------------------------------------------------------------
(* The strengthening. *)

\* Which command runs at which terminal.
AtItsTerminal(p) ==
  ended[p] = Running =>
    \/ p \in Executors /\ command[p] = "assess"
    \/ p \in Reviewers /\ command[p] \in {"review", "decide", "rejected", "unread"}

\* A running assess has its input.
HasInput(e) ==
  command[e] = "assess" /\ ended[e] = Running => input[e] \in ExecutionInputs

\* A running review has read what is stored, and takes no other step.
HasRead(r) ==
  command[r] = "review" /\ ended[r] = Running =>
    /\ at[r] = "idle"
    /\ answer[r] \notin {"recorded", "exact_replay"}
    /\ answer[r] = "reviewed" =>
         /\ subject[r] \in Assessments
         /\ seen[r] \in Evaluation
         /\ snapshots[subject[r]] = seen[r]
         /\ held[r] # NoDecision =>
              held[r] \in Decision /\ decisions[subject[r]] = held[r]

\* A decide never reports a review.
HasNotRead(r) == command[r] = "decide" /\ ended[r] = Running => answer[r] # "reviewed"

\* The document is what the store holds, now and for good.
Stored(document) ==
  /\ document.evaluation # NoRow =>
       /\ document.assessment \in Assessments
       /\ snapshots[document.assessment] = document.evaluation
  /\ document.decision # NoRow =>
       /\ document.assessment \in Assessments
       /\ decisions[document.assessment] = document.decision

Tells(code, document) ==
  code = 0 <=> document.evaluation # NoRow \/ document.decision # NoRow

HasPrinted(p) ==
  /\ Stored(printed[p])
  /\ command[p] # "none" => Tells(ended[p], printed[p])

\* What holds of each terminal.
Sound(p) ==
  /\ AtItsTerminal(p)
  /\ HasPrinted(p)
  /\ p \in Executors => HasInput(p)
  /\ p \in Reviewers => HasRead(p) /\ HasNotRead(p)

CommandInv == CommandTypeOK /\ \A p \in Terminals : Sound(p)

\* What the theorems about the system provide.
SystemInv == Inv /\ CompletionInv /\ RecordInv

LEMMA SystemInvIsInductive ==
  ASSUME SystemInv, [CommandNext]_commandVars
  PROVE  SystemInv' /\ AppendOnly
<1>1. [Next]_vars
  BY CommandStepIsSystemStep
<1> QED BY <1>1, InvIsInductive, CompletionInvIsInductive, RecordInvIsInductive
        DEF SystemInv

\* A terminal is an executor or a reviewer, and not both.
LEMMA TwoKindsOfTerminal ==
  /\ Terminals = Executors \union Reviewers
  /\ \A p \in Terminals : p \in Executors => p \notin Reviewers
BY TerminalsAreDistinct DEF Terminals

LEMMA SilenceTellsNothing ==
  /\ Silence \in Document
  /\ Silence.evaluation = NoRow /\ Silence.decision = NoRow
BY DEF Silence, Document, Verdicts, Answers

-----------------------------------------------------------------------------
(* What a step leaves alone. *)

Unmoved(q) ==
  /\ command'[q] = command[q] /\ ended'[q] = ended[q] /\ printed'[q] = printed[q]
  /\ q \in Executors => Same(q)
  /\ q \in Reviewers => Still(q) /\ seen'[q] = seen[q]

\* A document that was right stays right, since stored rows stay.
LEMMA PrintedSurvives ==
  ASSUME AppendOnly, NEW p \in Terminals, HasPrinted(p), printed'[p] = printed[p],
         ended'[p] = ended[p], command'[p] = command[p]
  PROVE  HasPrinted(p)'
BY DEF AppendOnly, HasPrinted, Stored, Tells

LEMMA UnmovedSurvives ==
  ASSUME AppendOnly, NEW q \in Terminals, Unmoved(q), Sound(q)
  PROVE  Sound(q)'
<1>1. HasPrinted(q)'
  BY PrintedSurvives DEF Unmoved, Sound
<1>2. AtItsTerminal(q)'
  BY DEF Unmoved, Sound, AtItsTerminal
<1>3. q \in Executors => HasInput(q)'
  BY DEF Unmoved, Sound, HasInput, Same
<1>4. ASSUME q \in Reviewers
      PROVE  HasRead(q)'
  <2>1. \A v \in Evaluation \union Decision : v # NoRow
    BY NoRowIsNoRow
  <2> QED BY <1>4, <2>1 DEF Unmoved, Sound, HasRead, Still, AppendOnly
<1>5. q \in Reviewers => HasNotRead(q)'
  BY DEF Unmoved, Sound, HasNotRead, Still
<1> QED BY <1>1, <1>2, <1>3, <1>4, <1>5 DEF Sound

LEMMA ExecutorsKeepInput ==
  ASSUME NEW e \in Executors, Advance(e) \/ ExecutorFault(e)
  PROVE  input' = input
BY DEF Advance, OpenRefused, PersistRequest, VerifyRequest, Collect, PersistCollection,
   VerifyCollection, LoadSnapshot, EvaluateFirst, PersistSnapshot, VerifySnapshot,
   EvaluateAgain, Complete, Raise, ExecutorFault, StorageFault, Crash

\* A decide that goes on shows nothing new and does not turn into a review.
LEMMA DecidersDoNotReview ==
  ASSUME ReviewerInv, NEW r \in Reviewers, ReviewerAdvance(r) \/ ReviewFault(r),
         answer[r] # "reviewed"
  PROVE  at[r] # "idle" /\ seen' = seen /\ answer'[r] # "reviewed"
<1>1. \A reply : Reply(r, reply) => seen' = seen /\ answer'[r] = reply
  BY DEF ReviewerInv, ReviewerTypeOK, Reply
<1>2. \A error : Refuse(r, error) => seen' = seen /\ answer'[r] = error
  BY <1>1 DEF Refuse
<1>3. CASE LoadForDecision(r)
  BY <1>2, <1>3, SnapshotStatusRange DEF LoadForDecision, ReadErrors
<1>4. CASE \E t \in Times : PersistDecision(r, t)
  BY <1>2, <1>4, DecisionWriteRange DEF PersistDecision, ReadErrors
<1>5. CASE VerifyDecision(r)
  BY <1>1, <1>2, <1>5, DecisionStatusRange DEF VerifyDecision, ReadErrors
<1>6. CASE ReviewFault(r)
  BY <1>2, <1>6 DEF ReviewFault, ReviewerFault
<1>7. CASE DecideRefused(r)
  BY <1>2, <1>7 DEF DecideRefused
<1> QED BY <1>3, <1>4, <1>5, <1>6, <1>7 DEF ReviewerAdvance

\* If nobody but p moves and p stays sound, all terminals stay sound.
LEMMA MoverStaysSound ==
  ASSUME AppendOnly, CommandInv, NEW p \in Terminals, Sound(p)',
         \A q \in Terminals : q # p => Unmoved(q)
  PROVE  \A q \in Terminals : Sound(q)'
BY UnmovedSurvives DEF CommandInv

-----------------------------------------------------------------------------
(* The end of a command. *)

\* Every document a command ends with is stored, and its exit code tells if there is one.
LEMMA DocumentIsStored ==
  ASSUME SystemInv, CommandInv, NEW p \in Terminals, Worked(p), Outcome(p) # "crashed"
  PROVE  /\ ExitCode(p) \in 0..6
         /\ DocumentOf(p) \in Document
         /\ Stored(DocumentOf(p))
         /\ Tells(ExitCode(p), DocumentOf(p))
<1> USE DEF Worked, Document, Tells, Stored, DocumentOf, ErrorDocument, Silence
<1>0. /\ \A v \in Evaluation \union Decision : v # NoRow
      /\ NoDecision \notin Decision
      /\ ExecutorTypeOK /\ ReviewerTypeOK
      /\ Sound(p)
  BY NoRowIsNoRow, NoDecisionIsNoDecision
     DEF SystemInv, Inv, ExecutorInv, ReviewerInv, CommandInv
<1>1. CASE p \in Executors /\ command[p] = "assess"
  <2>1. /\ Outcome(p) = verdict[p] /\ verdict[p] \in Verdicts
        /\ ExitCode(p) = AssessExitCode(verdict[p])
    BY <1>0, <1>1 DEF Outcome, ExitCode, ExecutorTypeOK
  <2>2. input[p].assessment \in Assessments
    BY <1>0, <1>1, InputsAreTyped DEF Sound, HasInput
  <2>3. verdict[p] = "complete" =>
          proposed[p] \in Evaluation /\ snapshots[input[p].assessment] = proposed[p]
    BY <1>1 DEF SystemInv, CompletionInv, Witnessed
  <2>4. CASE verdict[p] = "complete"
    <3>1. ExitCode(p) = 0
      BY <2>1, <2>4 DEF AssessExitCode
    <3>2. DocumentOf(p) =
            [status |-> verdict[p], assessment |-> input[p].assessment,
             evaluation |-> proposed[p], decision |-> NoRow]
      BY <1>1, <2>4, <3>1 DEF ExecutionDocument
    <3> QED BY <1>0, <2>1, <2>2, <2>3, <2>4, <3>1, <3>2
  <2>5. CASE verdict[p] # "complete"
    <3>1. ExitCode(p) \in {1, 3, 4, 5}
      BY <2>1, <2>5 DEF AssessExitCode
    <3>2. \/ DocumentOf(p) = Silence
          \/ DocumentOf(p) =
               [status |-> verdict[p], assessment |-> input[p].assessment,
                evaluation |-> NoRow, decision |-> NoRow]
      BY <1>1, <2>5, <3>1 DEF ExecutionDocument
    <3>3. verdict[p] \in Verdicts \union Answers
      BY <2>1
    <3> QED BY <2>2, <3>1, <3>2, <3>3, SilenceTellsNothing
  <2> QED BY <2>4, <2>5
<1>2. CASE p \in Reviewers /\ command[p] \in {"review", "decide", "rejected", "unread"}
  <2>0. p \notin Executors
    BY <1>2, TwoKindsOfTerminal
  <2>1. /\ Outcome(p) \in Answers
        /\ ExitCode(p) = ReviewerExitCode(Outcome(p))
    BY <1>0, <1>2 DEF Outcome, ExitCode, ReviewerTypeOK, Answers
  <2>2. ExitCode(p) \in {0, 3, 5, 6}
    BY <2>1 DEF ReviewerExitCode
  <2>3. CASE ExitCode(p) = 0 /\ command[p] = "review"
    <3>1. answer[p] = "reviewed"
      BY <1>0, <1>2, <2>1, <2>3 DEF Outcome, ReviewerExitCode, Sound, HasRead
    <3>2. /\ subject[p] \in Assessments
          /\ seen[p] \in Evaluation
          /\ snapshots[subject[p]] = seen[p]
          /\ held[p] # NoDecision =>
               held[p] \in Decision /\ decisions[subject[p]] = held[p]
      BY <1>0, <1>2, <2>3, <3>1 DEF Sound, HasRead
    <3>3. DocumentOf(p) =
            [status |-> "reviewed", assessment |-> subject[p], evaluation |-> seen[p],
             decision |-> IF held[p] = NoDecision THEN NoRow ELSE held[p]]
      BY <2>2, <2>3 DEF ReviewDocument
    <3>4. "reviewed" \in Verdicts \union Answers
      BY DEF Answers
    <3> QED BY <1>0, <2>3, <3>2, <3>3, <3>4
  <2>4. CASE ExitCode(p) = 0 /\ command[p] = "decide"
    <3>1. answer[p] \in {"recorded", "exact_replay"}
      BY <1>0, <1>2, <2>1, <2>4 DEF Outcome, ReviewerExitCode, Sound, HasNotRead
    <3>2. /\ subject[p] \in Assessments
          /\ held[p] \in Decision
          /\ decisions[subject[p]] = held[p]
      BY <1>2, <3>1 DEF SystemInv, RecordInv, Informed
    <3>3. DocumentOf(p) =
            [status |-> answer[p], assessment |-> subject[p], evaluation |-> NoRow,
             decision |-> held[p]]
      BY <2>2, <2>4 DEF DecisionDocument
    <3>4. answer[p] \in Verdicts \union Answers
      BY <3>1 DEF Answers
    <3> QED BY <1>0, <2>4, <3>2, <3>3, <3>4
  <2>5. CASE ~(ExitCode(p) = 0 /\ command[p] \in {"review", "decide"})
    <3>1. ExitCode(p) # 0
      BY <1>2, <2>1, <2>5 DEF Outcome, ReviewerExitCode
    <3>2. DocumentOf(p) = [Silence EXCEPT !.status = Outcome(p)]
      BY <1>2, <2>2, <3>1
    <3> QED BY <2>1, <2>2, <3>1, <3>2
  <2> QED BY <1>2, <2>3, <2>4, <2>5
<1>3. \/ p \in Executors /\ command[p] = "assess"
      \/ p \in Reviewers /\ command[p] \in {"review", "decide", "rejected", "unread"}
  BY <1>0 DEF Sound, AtItsTerminal
<1> QED BY <1>1, <1>2, <1>3

\* A command that ends with a document that is stored leaves everybody sound.
LEMMA EndsKeeps ==
  ASSUME CommandInv, NEW p \in Terminals,
         NEW code \in 0..6 \union {Killed}, NEW document \in Document,
         Ends(p, code, document), Stored(document), Tells(code, document),
         outages' \in 0..MaxOutages, AppendOnly
  PROVE  CommandInv'
<1>1. CommandTypeOK'
  BY DEF CommandInv, CommandTypeOK, Ends
<1>2. \A q \in Terminals : q # p => Unmoved(q)
  BY DEF CommandInv, CommandTypeOK, Ends, vars, executorState, reviewerState, Unmoved,
     Same, Still
<1>3. ended'[p] = code /\ printed'[p] = document /\ code # Running
  BY DEF CommandInv, CommandTypeOK, Ends, Killed, Running
<1>4. HasPrinted(p)'
  BY <1>3 DEF Ends, HasPrinted, Stored, Tells, vars, database
<1>5. Sound(p)'
  BY <1>3, <1>4 DEF Sound, AtItsTerminal, HasInput, HasRead, HasNotRead
<1> QED BY <1>1, <1>2, <1>5, MoverStaysSound DEF CommandInv

LEMMA WritesKeep ==
  ASSUME SystemInv, CommandInv, AppendOnly, NEW p \in Terminals,
         Write(p) \/ IsGone(p) \/ WriteFails(p)
  PROVE  CommandInv'
<1>1. Tells(1, Silence) /\ Tells(Killed, Silence) /\ Stored(Silence)
  BY SilenceTellsNothing DEF Tells, Stored, Killed
<1>2. outages \in 0..MaxOutages
  BY DEF CommandInv, CommandTypeOK
<1>3. CASE Write(p)
  <2>1. Ends(p, ExitCode(p), DocumentOf(p)) /\ outages' \in 0..MaxOutages
    BY <1>2, <1>3 DEF Write
  <2> QED BY <1>3, <2>1, DocumentIsStored, EndsKeeps DEF Write
<1>4. CASE IsGone(p)
  <2>1. outages' \in 0..MaxOutages
    BY <1>2, <1>4 DEF IsGone
  <2>2. PICK code \in {1, Killed} : Ends(p, code, Silence)
    BY <1>4 DEF IsGone
  <2> QED BY <1>1, <2>1, <2>2, SilenceTellsNothing, EndsKeeps
<1>5. CASE WriteFails(p)
  <2>1. outages' \in 0..MaxOutages
    BY <1>2, <1>5, OutagesAreCounted DEF WriteFails
  <2>2. PICK code \in {1, Killed} : Ends(p, code, Silence)
    BY <1>5 DEF WriteFails
  <2> QED BY <1>1, <2>1, <2>2, SilenceTellsNothing, EndsKeeps
<1> QED BY <1>3, <1>4, <1>5

-----------------------------------------------------------------------------
(* The start of a command. *)

\* A terminal at which a command starts has printed nothing yet.
LEMMA StartPrintsNothing ==
  ASSUME CommandTypeOK, NEW p \in Terminals, NEW c \in Commands, Starts(p, c)
  PROVE  /\ command' \in [Terminals -> Commands]
         /\ ended' \in [Terminals -> 0..6 \union {Running, Killed}]
         /\ printed' \in [Terminals -> Document]
         /\ command'[p] = c /\ ended'[p] = Running
         /\ HasPrinted(p)'
         /\ \A q \in Terminals : q # p =>
              command'[q] = command[q] /\ ended'[q] = ended[q] /\ printed'[q] = printed[q]
<1>1. printed'[p] = Silence /\ ended'[p] = Running /\ command'[p] = c
  BY DEF CommandTypeOK, Starts
<1>2. HasPrinted(p)'
  BY <1>1, SilenceTellsNothing DEF HasPrinted, Stored, Tells, Running
<1> QED BY <1>1, <1>2, SilenceTellsNothing DEF CommandTypeOK, Starts

LEMMA IdleStartsKeep ==
  ASSUME CommandInv, AppendOnly, NEW r \in Reviewers, Reject(r) \/ ReviewUnread(r)
  PROVE  CommandInv'
<1>0. CommandTypeOK /\ r \in Terminals /\ r \notin Executors
  BY TwoKindsOfTerminal DEF CommandInv
<1>1. PICK c \in {"rejected", "unread"} : Starts(r, c)
  BY DEF Reject, ReviewUnread
<1>2. UNCHANGED <<drawn, asked, stood, vars>> /\ outages' \in 0..MaxOutages
  BY <1>0, OutagesAreCounted DEF Reject, ReviewUnread, CommandTypeOK
<1>3. c \in Commands
  BY DEF Commands
<1>4. CommandTypeOK'
  BY <1>0, <1>1, <1>2, <1>3, StartPrintsNothing DEF CommandTypeOK
<1>5. Sound(r)'
  BY <1>0, <1>1, <1>3, StartPrintsNothing
     DEF Sound, AtItsTerminal, HasRead, HasNotRead
<1>6. \A q \in Terminals : q # r => Unmoved(q)
  BY <1>0, <1>1, <1>2, <1>3, StartPrintsNothing
     DEF Unmoved, Same, Still, vars, executorState, reviewerState
<1> QED BY <1>0, <1>4, <1>5, <1>6, MoverStaysSound DEF CommandInv

LEMMA MisuseKeeps ==
  ASSUME CommandInv, AppendOnly, NEW p \in Terminals, Misuse(p)
  PROVE  CommandInv'
<1>0. CommandTypeOK
  BY DEF CommandInv
<1>1. command'[p] = "misused" /\ ended'[p] = 2 /\ printed'[p] = Silence
  BY <1>0 DEF Misuse, CommandTypeOK
<1>2. CommandTypeOK'
  BY <1>0, SilenceTellsNothing DEF Misuse, CommandTypeOK, Commands
<1>3. HasPrinted(p)'
  BY <1>1, SilenceTellsNothing DEF HasPrinted, Stored, Tells
<1>4. Sound(p)'
  BY <1>1, <1>3 DEF Sound, AtItsTerminal, HasInput, HasRead, HasNotRead, Running
<1>5. \A q \in Terminals : q # p => Unmoved(q)
  BY <1>0 DEF Misuse, CommandTypeOK, Unmoved, Same, Still, vars, executorState,
     reviewerState
<1> QED BY <1>2, <1>4, <1>5, MoverStaysSound DEF CommandInv

LEMMA AssessKeeps ==
  ASSUME SystemInv, CommandInv, AppendOnly, NEW e \in Executors,
         NEW i \in ExecutionInputs, Assess(e, i)
  PROVE  CommandInv'
<1>0. /\ CommandTypeOK /\ ExecutorInv /\ e \in Terminals /\ e \notin Reviewers
      /\ "assess" \in Commands
  BY TwoKindsOfTerminal DEF CommandInv, SystemInv, Inv, Commands
<1>1. Starts(e, "assess") /\ Begin(e, i) /\ UNCHANGED <<asked, stood, outages, reviewerState>>
  BY DEF Assess
<1>2. drawn' \subseteq Assessments
  BY <1>0, InputsAreTyped DEF Assess, CommandTypeOK
<1>3. CommandTypeOK'
  BY <1>0, <1>1, <1>2, StartPrintsNothing DEF CommandTypeOK
<1>4. input'[e] = i
  BY <1>0, <1>1 DEF Begin, ExecutorInv, ExecutorTypeOK
<1>5. Sound(e)'
  BY <1>0, <1>1, <1>4, StartPrintsNothing DEF Sound, AtItsTerminal, HasInput
<1>6. ExecutorStep(e)
  BY DEF Assess, ExecutorStep
<1>7. \A q \in Terminals : q # e => Unmoved(q)
  BY <1>0, <1>1, <1>6, StartPrintsNothing, StepKeepsOthers
     DEF Unmoved, Still, reviewerState
<1> QED BY <1>0, <1>3, <1>5, <1>7, MoverStaysSound DEF CommandInv

\* A review reads request, evaluation and decision in one transaction.
LEMMA ReviewReads ==
  ASSUME DatabaseTypeOK, ReviewerInv, NEW r \in Reviewers, NEW a \in Assessments,
         Review(r, a)
  PROVE  /\ at'[r] = "idle"
         /\ answer'[r] \notin {"recorded", "exact_replay"}
         /\ answer'[r] = "reviewed" =>
              /\ subject'[r] \in Assessments
              /\ seen'[r] \in Evaluation
              /\ snapshots'[subject'[r]] = seen'[r]
              /\ held'[r] # NoDecision =>
                   held'[r] \in Decision /\ decisions'[subject'[r]] = held'[r]
<1>1. /\ at'[r] = at[r] /\ at[r] = "idle" /\ subject'[r] = a
      /\ snapshots' = snapshots /\ decisions' = decisions
      /\ held'[r] = IF ReviewStatus(a) = "verified" /\ decisions[a] # NoRow
                    THEN decisions[a] ELSE NoDecision
      /\ seen'[r] = IF ReviewStatus(a) = "verified" THEN snapshots[a] ELSE NoRow
      /\ answer'[r] = IF ReviewStatus(a) = "verified" THEN "reviewed" ELSE ReviewStatus(a)
  BY DEF Review, ReviewerInv, ReviewerTypeOK, database
<1>2. /\ ReviewStatus(a) \notin {"recorded", "exact_replay", "reviewed"}
      /\ ReviewStatus(a) = "verified" => SnapshotStatus(a) = "verified"
  BY SnapshotStatusRange, DecisionStatusRange DEF ReviewStatus, ReadErrors
<1>3. SnapshotStatus(a) = "verified" => snapshots[a] # NoRow
  BY DEF SnapshotStatus
<1>4. snapshots[a] \in Evaluation \union {NoRow} /\ decisions[a] \in Decision \union {NoRow}
  BY DEF DatabaseTypeOK
<1> QED BY <1>1, <1>2, <1>3, <1>4

\* Every step of reviewer r leaves what the others see.
LEMMA OthersKeepSeeing ==
  ASSUME ReviewerInv, NEW r \in Reviewers, NEW q \in Reviewers, q # r,
         \/ \E a \in Assessments : Review(r, a)
         \/ \E s \in Submissions : \E v \in {seen[r], NoRow} : BeginDecide(r, s, v)
  PROVE  seen'[q] = seen[q]
BY DEF ReviewerInv, ReviewerTypeOK, Review, BeginDecide

LEMMA ReviewCommandKeeps ==
  ASSUME SystemInv, CommandInv, AppendOnly, NEW r \in Reviewers,
         NEW a \in Assessments, ReviewCommand(r, a)
  PROVE  CommandInv'
<1>0. /\ CommandTypeOK /\ DatabaseTypeOK /\ ReviewerInv
      /\ r \in Terminals /\ r \notin Executors /\ "review" \in Commands
  BY TwoKindsOfTerminal DEF CommandInv, SystemInv, Inv, DatabaseInv, Commands
<1>1. /\ Starts(r, "review") /\ Review(r, a)
      /\ UNCHANGED <<drawn, asked, stood, outages, executorState>>
  BY DEF ReviewCommand
<1>2. CommandTypeOK'
  BY <1>0, <1>1, StartPrintsNothing DEF CommandTypeOK
<1>3. HasRead(r)'
  BY <1>0, <1>1, ReviewReads DEF HasRead
<1>4. Sound(r)'
  BY <1>0, <1>1, <1>3, StartPrintsNothing DEF Sound, AtItsTerminal, HasNotRead
<1>5. ReviewerStep(r)
  BY DEF ReviewCommand, ReviewerStep
<1>6. \A q \in Terminals : q # r => Unmoved(q)
  BY <1>0, <1>1, <1>5, StartPrintsNothing, OthersAreStill, OthersKeepSeeing
     DEF Unmoved, Same, executorState
<1> QED BY <1>0, <1>2, <1>4, <1>6, MoverStaysSound DEF CommandInv

LEMMA DecideKeeps ==
  ASSUME SystemInv, SystemInv', CommandInv, AppendOnly, NEW r \in Reviewers,
         NEW s \in Submissions, NEW v \in {seen[r], NoRow}, Decide(r, s, v)
  PROVE  CommandInv'
<1>0. /\ CommandTypeOK /\ ReviewerInv /\ ReviewerInv'
      /\ r \in Terminals /\ r \notin Executors /\ "decide" \in Commands
  BY TwoKindsOfTerminal DEF CommandInv, SystemInv, Inv, Commands
<1>1. /\ Starts(r, "decide") /\ BeginDecide(r, s, v) /\ at'[r] = "load"
      /\ asked' = [asked EXCEPT ![r] = submitted'[r]]
      /\ UNCHANGED <<drawn, outages, executorState>>
  BY DEF Decide
<1>2. submitted'[r] \in DecisionContent
  BY <1>0, <1>1 DEF ReviewerInv, DecisionInHand
<1>3. stood' \in [Reviewers -> BOOLEAN]
  BY <1>0 DEF Decide, CommandTypeOK
<1>4. CommandTypeOK'
  BY <1>0, <1>1, <1>2, <1>3, StartPrintsNothing DEF CommandTypeOK
<1>5. answer'[r] = "none"
  BY <1>0, <1>1 DEF BeginDecide, ReviewerInv, ReviewerTypeOK
<1>6. Sound(r)'
  BY <1>0, <1>1, <1>5, StartPrintsNothing DEF Sound, AtItsTerminal, HasRead, HasNotRead
<1>7. ReviewerStep(r)
  BY DEF Decide, ReviewerStep
<1>8. \A q \in Terminals : q # r => Unmoved(q)
  BY <1>0, <1>1, <1>7, StartPrintsNothing, OthersAreStill, OthersKeepSeeing
     DEF Unmoved, Same, executorState
<1> QED BY <1>0, <1>4, <1>6, <1>8, MoverStaysSound DEF CommandInv

-----------------------------------------------------------------------------
(* The run of a command. *)

LEMMA RunsKeep ==
  ASSUME SystemInv, CommandInv, AppendOnly, UNCHANGED commandState,
         \/ \E e \in Executors : (Advance(e) /\ UNCHANGED <<reviewerState, faults>>)
                                   \/ ExecutorFault(e)
         \/ \E r \in Reviewers : (ReviewerAdvance(r) /\ UNCHANGED <<executorState, faults>>)
                                   \/ ReviewFault(r)
  PROVE  CommandInv'
<1>0. /\ CommandTypeOK /\ ExecutorInv /\ ReviewerInv /\ Terminals = Executors \union Reviewers
      /\ \A p \in Terminals : HasPrinted(p) /\ Sound(p)
  BY TwoKindsOfTerminal DEF CommandInv, SystemInv, Inv, Sound
<1>1. CommandTypeOK'
  BY <1>0 DEF CommandTypeOK, commandState
<1>2. \A p \in Terminals : AtItsTerminal(p)' /\ HasPrinted(p)'
  BY <1>0, PrintedSurvives DEF commandState, Sound, AtItsTerminal
<1>3. ASSUME NEW e \in Executors,
             (Advance(e) /\ UNCHANGED <<reviewerState, faults>>) \/ ExecutorFault(e)
      PROVE  CommandInv'
  <2>1. e \in Terminals /\ e \notin Reviewers /\ UNCHANGED reviewerState
    BY <1>3, TwoKindsOfTerminal DEF ExecutorFault
  <2>2. ExecutorStep(e) \/ ExecutorFault(e)
    BY <1>3 DEF ExecutorStep
  <2>3. Sound(e)'
    BY <1>0, <1>2, <1>3, <2>1, ExecutorsKeepInput DEF Sound, HasInput, commandState
  <2>4. \A q \in Terminals : q # e => Unmoved(q)
    BY <1>0, <2>1, <2>2, StepKeepsOthers
       DEF Unmoved, Still, reviewerState, commandState
  <2> QED BY <1>1, <2>1, <2>3, <2>4, MoverStaysSound DEF CommandInv
<1>4. ASSUME NEW r \in Reviewers,
             (ReviewerAdvance(r) /\ UNCHANGED <<executorState, faults>>) \/ ReviewFault(r)
      PROVE  CommandInv'
  <2>1. r \in Terminals /\ r \notin Executors /\ UNCHANGED executorState
    BY <1>4, TwoKindsOfTerminal DEF ReviewFault
  <2>2. ReviewerStep(r) \/ ReviewFault(r)
    BY <1>4 DEF ReviewerStep
  <2>3. seen' = seen /\ at[r] # "idle"
    BY <1>4 DEF ReviewerAdvance, DecideRefused, LoadForDecision, PersistDecision,
       VerifyDecision, Refuse, Reply, ReviewFault, ReviewerFault
  <2>4. HasRead(r)' /\ HasNotRead(r)'
    BY <1>0, <1>4, <2>1, <2>3, DecidersDoNotReview
       DEF Sound, HasRead, HasNotRead, commandState
  <2>5. Sound(r)'
    BY <1>2, <2>1, <2>4 DEF Sound
  <2>6. \A q \in Terminals : q # r => Unmoved(q)
    BY <1>0, <2>1, <2>2, <2>3, OthersAreStill
       DEF Unmoved, Same, executorState, commandState
  <2> QED BY <1>1, <2>1, <2>5, <2>6, MoverStaysSound DEF CommandInv
<1> QED BY <1>3, <1>4

LEMMA CommandInvIsInductive ==
  ASSUME SystemInv, CommandInv, [CommandNext]_commandVars
  PROVE  CommandInv'
<1>0. SystemInv' /\ AppendOnly
  BY SystemInvIsInductive
<1>1. CASE \E p \in Terminals : Write(p) \/ IsGone(p) \/ WriteFails(p)
  BY <1>0, <1>1, WritesKeep
<1>2. CASE \E p \in Terminals : Misuse(p)
  BY <1>0, <1>2, MisuseKeeps
<1>3. CASE \E e \in Executors : \E i \in ExecutionInputs : Assess(e, i)
  BY <1>0, <1>3, AssessKeeps
<1>4. CASE \E r \in Reviewers : \E a \in Assessments : ReviewCommand(r, a)
  BY <1>0, <1>4, ReviewCommandKeeps
<1>5. CASE \E r \in Reviewers : Reject(r) \/ ReviewUnread(r)
  BY <1>0, <1>5, IdleStartsKeep
<1>6. CASE \E r \in Reviewers : \E s \in Submissions : \E v \in {seen[r], NoRow} :
             Decide(r, s, v)
  BY <1>0, <1>6, DecideKeeps
<1>7. CASE \/ \E e \in Executors : AssessProceeds(e)
           \/ \E r \in Reviewers : DecideProceeds(r)
           \/ CommandFault
  BY <1>0, <1>7, RunsKeep DEF AssessProceeds, DecideProceeds, CommandFault
<1>8. CASE UNCHANGED commandVars
  <2>1. \A q \in Terminals : Unmoved(q)
    BY <1>8 DEF commandVars, commandState, vars, executorState, reviewerState, Unmoved,
       Same, Still
  <2>2. CommandTypeOK'
    BY <1>8 DEF CommandInv, CommandTypeOK, commandVars, commandState
  <2> QED BY <1>0, <2>1, <2>2, UnmovedSurvives DEF CommandInv
<1> QED BY <1>1, <1>2, <1>3, <1>4, <1>5, <1>6, <1>7, <1>8 DEF CommandNext, Proceeds

LEMMA CommandsKeepInv == CommandSpec => [](SystemInv /\ CommandInv)
<1>1. CommandInit => SystemInv
  <2>1. Init => CompletionInv
    BY DEF Init, ExecutorInit, CompletionInv, Witnessed
  <2>2. Init => RecordInv
    BY DEF Init, ReviewerInit, RecordInv, OneRecorder, Recorder, Informed
  <2> QED BY <2>1, <2>2, InvHoldsInitially DEF CommandInit, SystemInv
<1>2. CommandInit => CommandInv
  <2> SUFFICES ASSUME CommandInit
               PROVE  CommandInv
    OBVIOUS
  <2>1. CommandTypeOK
    BY SilenceTellsNothing, OutagesAreCounted DEF CommandInit, CommandTypeOK, Commands
  <2>2. \A p \in Terminals : Sound(p)
    BY SilenceTellsNothing, TwoKindsOfTerminal
       DEF CommandInit, Sound, AtItsTerminal, HasPrinted, Stored, HasInput, HasRead,
           HasNotRead, Running
  <2> QED BY <2>1, <2>2 DEF CommandInv
<1>3. SystemInv /\ CommandInv /\ [CommandNext]_commandVars => (SystemInv /\ CommandInv)'
  BY SystemInvIsInductive, CommandInvIsInductive
<1> QED BY <1>1, <1>2, <1>3, PTL DEF CommandSpec

\* main ends every command with one of its seven exit codes or dies, and prints documents
\* of one shape, however terminals, faults and failed outputs interleave.
THEOREM CommandsAreTyped == CommandSpec => []CommandTypeOK
<1>1. CommandInv => CommandTypeOK
  BY DEF CommandInv
<1> QED BY <1>1, CommandsKeepInv, PTL

\* An evaluation or a decision on standard output is the stored one, whatever is committed
\* before it is written and afterwards, and only an exit code of 0 comes with one.
THEOREM DocumentsAreStored == CommandSpec => []PrintedIsStored
<1>1. CommandInv => PrintedIsStored
  BY DEF CommandInv, Sound, HasPrinted, Stored, Tells, PrintedIsStored
<1> QED BY <1>1, CommandsKeepInv, PTL

-----------------------------------------------------------------------------
(* What a decide says about the decision it submitted. *)

\* Another decision is stored where content would have to be.
Contradicted(content) ==
  /\ decisions[content.assessment] # NoRow
  /\ decisions[content.assessment].content # content

\* From its start to its exit code, a decide is about the content that was asked for.
Asks(r) ==
  command[r] = "decide" =>
    /\ asked[r] \in DecisionContent
    /\ ended[r] = Running =>
         /\ at[r] # "idle" => submitted[r] = asked[r]
         /\ at[r] = "verify" \/ answer[r] \in {"recorded", "exact_replay"} =>
              held[r].content = asked[r]
         /\ answer[r] = "conflicting_replay" => Contradicted(asked[r])
    /\ ended[r] = 0 => printed[r].decision.content = asked[r]
    /\ ended[r] = 6 => Contradicted(asked[r])

AskInv == \A r \in Reviewers : Asks(r)

\* What a transaction that stores nothing says of the decision that is there.
LEMMA StoredDecisionIsCompared ==
  ASSUME NEW content, NEW t
  PROVE  /\ DecisionWrite(content, t) = "replayed" =>
              decisions[content.assessment].content = content
         /\ DecisionWrite(content, t) = "conflicting_replay" => Contradicted(content)
<1>1. /\ DecisionStatus(content.assessment) \notin {"replayed", "conflicting_replay"}
      /\ SnapshotStatus(content.assessment) \notin {"replayed", "conflicting_replay"}
  BY DecisionStatusRange, SnapshotStatusRange DEF ReadErrors
<1>2. FirstDecision(content, t) \notin {"replayed", "conflicting_replay"}
  BY DEF FirstDecision
<1> QED BY <1>1, <1>2 DEF DecisionWrite, RepeatedDecision, Contradicted

LEMMA AskSurvives ==
  ASSUME AppendOnly, NEW r \in Reviewers, Asks(r), Still(r),
         command'[r] = command[r], ended'[r] = ended[r], printed'[r] = printed[r],
         asked'[r] = asked[r]
  PROVE  Asks(r)'
<1>1. \A content \in DecisionContent : content.assessment \in Assessments
  BY DEF DecisionContent
<1> QED BY <1>1 DEF Asks, Still, AppendOnly, Contradicted

LEMMA WritesKeepAsks ==
  ASSUME SystemInv, CommandInv, NEW r \in Reviewers, Asks(r),
         Write(r) \/ IsGone(r) \/ WriteFails(r)
  PROVE  Asks(r)'
<1>0. CommandTypeOK /\ r \in Terminals /\ r \notin Executors /\ Sound(r)
  BY TwoKindsOfTerminal DEF CommandInv
<1>1. PICK code, document : Ends(r, code, document)
  BY DEF Write, IsGone, WriteFails
<1>2. /\ command' = command /\ asked' = asked /\ decisions' = decisions
      /\ ended[r] = Running /\ ended'[r] # Running
  <2>1. ExitCode(r) # Running
    BY <1>0 DEF ExitCode, AssessExitCode, ReviewerExitCode, Running
  <2> QED BY <1>0, <2>1 DEF Write, IsGone, WriteFails, Worked, Ends, CommandTypeOK, vars,
             database, Running, Killed
<1>3. CASE command[r] = "decide" /\ Write(r)
  <2>1. /\ ended'[r] = ReviewerExitCode(answer[r]) /\ printed'[r] = DocumentOf(r)
        /\ ExitCode(r) = ReviewerExitCode(answer[r])
    BY <1>0, <1>3 DEF Write, Ends, CommandTypeOK, ExitCode, Outcome
  <2>2. CASE answer[r] \in {"recorded", "exact_replay"}
    <3>1. ExitCode(r) = 0 /\ DocumentOf(r) = DecisionDocument(r)
      BY <1>3, <2>1, <2>2 DEF ReviewerExitCode, DocumentOf
    <3>2. printed'[r].decision = held[r] /\ held[r].content = asked[r]
      BY <1>2, <1>3, <2>1, <2>2, <3>1 DEF DecisionDocument, Asks
    <3> QED BY <1>2, <1>3, <2>1, <3>1, <3>2 DEF Asks
  <2>3. CASE answer[r] = "conflicting_replay"
    BY <1>2, <1>3, <2>1, <2>3 DEF ReviewerExitCode, Asks, Contradicted
  <2>4. CASE answer[r] \notin {"recorded", "exact_replay", "conflicting_replay"}
    <3>1. answer[r] # "reviewed"
      BY <1>0, <1>2, <1>3 DEF Sound, HasNotRead
    <3>2. ended'[r] \in {3, 5}
      BY <2>1, <2>4, <3>1 DEF ReviewerExitCode
    <3> QED BY <1>2, <1>3, <3>2 DEF Asks
  <2> QED BY <2>2, <2>3, <2>4
<1>4. CASE IsGone(r) \/ WriteFails(r)
  <2>1. ended'[r] \in {1, Killed}
    BY <1>0, <1>4 DEF IsGone, WriteFails, Ends, CommandTypeOK
  <2> QED BY <1>2, <2>1 DEF Asks, Killed
<1>5. CASE command[r] # "decide"
  BY <1>2, <1>5 DEF Asks
<1> QED BY <1>3, <1>4, <1>5

LEMMA DecideAsks ==
  ASSUME SystemInv, SystemInv', CommandInv, NEW r \in Reviewers, NEW s \in Submissions,
         NEW v \in {seen[r], NoRow}, Decide(r, s, v)
  PROVE  Asks(r)'
<1>1. asked'[r] = submitted'[r] /\ at'[r] = "load" /\ ended'[r] = Running
      /\ answer'[r] = "none"
  BY TwoKindsOfTerminal DEF Decide, Starts, BeginDecide, CommandInv, CommandTypeOK,
     SystemInv, Inv, ReviewerInv, ReviewerTypeOK
<1>2. submitted'[r] \in DecisionContent
  BY <1>1 DEF SystemInv, Inv, ReviewerInv, DecisionInHand
<1> QED BY <1>1, <1>2 DEF Asks, Running

\* A decide whose reviewer goes on, or fails, stays about what was asked for.
LEMMA RunsKeepAsks ==
  ASSUME SystemInv, CommandInv, AppendOnly, NEW r \in Reviewers, Asks(r),
         ReviewerAdvance(r) \/ ReviewFault(r), UNCHANGED commandState
  PROVE  Asks(r)'
<1> DEFINE a == submitted[r].assessment
<1>0. DatabaseTypeOK /\ ReviewerInv /\ Informed(r)
  BY DEF SystemInv, Inv, DatabaseInv, RecordInv
<1>1. command' = command /\ ended' = ended /\ printed' = printed /\ asked' = asked
  BY DEF commandState
<1>2. CASE ~(command[r] = "decide" /\ ended[r] = Running)
  <2>1. \A content \in DecisionContent : content.assessment \in Assessments
    BY DEF DecisionContent
  <2> QED BY <1>1, <1>2, <2>1 DEF Asks, AppendOnly, Contradicted
<1>3. CASE command[r] = "decide" /\ ended[r] = Running
  <2>1. /\ asked[r] \in DecisionContent
        /\ at[r] # "idle" => submitted[r] = asked[r]
        /\ ended'[r] # 0 /\ ended'[r] # 6 /\ asked'[r] = asked[r]
    BY <1>1, <1>3 DEF Asks, Running
  <2>2. ASSUME NEW error, Refuse(r, error), error \notin {"recorded", "exact_replay"},
               error = "conflicting_replay" => Contradicted(asked[r]) /\ decisions' = decisions
        PROVE  Asks(r)'
    <3>1. at'[r] = "idle" /\ answer'[r] = error
      BY <1>0, <2>2 DEF Refuse, Reply, ReviewerInv, ReviewerTypeOK
    <3> QED BY <2>1, <2>2, <3>1 DEF Asks, Contradicted
  <2>3. CASE LoadForDecision(r)
    <3>1. SnapshotStatus(a) \notin {"recorded", "exact_replay", "conflicting_replay"}
      BY SnapshotStatusRange DEF ReadErrors
    <3>2. CASE \/ Refuse(r, "invalid_input")
               \/ Refuse(r, SnapshotStatus(a))
      BY <2>2, <3>1, <3>2
    <3>3. CASE at[r] = "load" /\ at'[r] = "persist" /\ UNCHANGED <<submitted, held, answer>>
      BY <1>0, <2>1, <3>3 DEF Asks, Informed
    <3> QED BY <1>0, <2>3, <3>2, <3>3 DEF LoadForDecision, ReviewerInv, ReviewerTypeOK
  <2>4. CASE \E t \in Times : PersistDecision(r, t)
    <3>1. PICK t \in Times : PersistDecision(r, t)
      BY <2>4
    <3>2. /\ at[r] = "persist" /\ submitted[r] = asked[r] /\ a \in Assessments
          /\ answer[r] = "none"
      BY <1>0, <2>1, <3>1 DEF PersistDecision, Informed
    <3>3. CASE DecisionWrite(submitted[r], t) \in {"inserted", "replayed"}
      <4>1. /\ at'[r] = "verify" /\ held'[r] = decisions'[a]
            /\ submitted' = submitted /\ answer' = answer
        BY <1>0, <3>1, <3>3 DEF PersistDecision, ReviewerInv, ReviewerTypeOK
      <4>2. decisions'[a].content = submitted[r]
        <5>1. CASE DecisionWrite(submitted[r], t) = "inserted"
          BY <1>0, <3>1, <3>2, <5>1 DEF PersistDecision, WriteDecision, DatabaseTypeOK
        <5>2. CASE DecisionWrite(submitted[r], t) = "replayed"
          BY <3>1, <5>2, StoredDecisionIsCompared DEF PersistDecision, WriteDecision
        <5> QED BY <3>3, <5>1, <5>2
      <4> QED BY <2>1, <3>2, <4>1, <4>2 DEF Asks
    <3>4. CASE DecisionWrite(submitted[r], t) \notin {"inserted", "replayed"}
      <4>1. /\ Refuse(r, DecisionWrite(submitted[r], t))
            /\ decisions' = decisions
        BY <3>1, <3>4 DEF PersistDecision, WriteDecision
      <4>2. DecisionWrite(submitted[r], t) \notin {"recorded", "exact_replay"}
        BY DecisionWriteRange DEF ReadErrors
      <4> QED BY <2>2, <3>2, <4>1, <4>2, StoredDecisionIsCompared
    <3> QED BY <3>3, <3>4
  <2>5. CASE VerifyDecision(r)
    <3>1. at[r] = "verify" /\ decisions[a] = held[r] /\ decisions' = decisions
      BY <1>0, <2>5 DEF VerifyDecision, Informed, database
    <3>2. CASE DecisionStatus(a) = "verified"
      <4>1. /\ Reply(r, IF repeated[r] THEN "exact_replay" ELSE "recorded")
            /\ held' = held
        BY <2>5, <3>1, <3>2 DEF VerifyDecision
      <4>2. at'[r] = "idle" /\ answer'[r] \in {"exact_replay", "recorded"}
        BY <1>0, <4>1 DEF Reply, ReviewerInv, ReviewerTypeOK
      <4> QED BY <1>3, <2>1, <3>1, <4>1, <4>2 DEF Asks
    <3>3. CASE DecisionStatus(a) # "verified"
      <4>1. DecisionStatus(a) \notin {"recorded", "exact_replay", "conflicting_replay"}
        BY DecisionStatusRange DEF ReadErrors
      <4> QED BY <2>2, <2>5, <3>3, <4>1 DEF VerifyDecision
    <3> QED BY <3>2, <3>3
  <2>6. CASE ReviewFault(r)
    <3>1. \E error \in {"storage_error", "crashed"} : Refuse(r, error)
      BY <2>6 DEF ReviewFault, ReviewerFault
    <3> QED BY <2>2, <3>1
  <2>7. CASE DecideRefused(r)
    BY <2>2, <2>7 DEF DecideRefused
  <2> QED BY <2>3, <2>4, <2>5, <2>6, <2>7 DEF ReviewerAdvance
<1> QED BY <1>2, <1>3

LEMMA AskInvIsInductive ==
  ASSUME SystemInv, CommandInv, AskInv, [CommandNext]_commandVars
  PROVE  AskInv'
<1> DEFINE Moves(r) == \/ ReviewerAdvance(r) /\ UNCHANGED <<executorState, faults>>
                       \/ ReviewFault(r)
<1>0. SystemInv' /\ AppendOnly /\ CommandTypeOK /\ ReviewerInv
  BY SystemInvIsInductive DEF CommandInv, SystemInv, Inv
<1>1. ASSUME NEW q \in Reviewers, Still(q), command'[q] = command[q], ended'[q] = ended[q],
             printed'[q] = printed[q], asked'[q] = asked[q]
      PROVE  Asks(q)'
  BY <1>0, <1>1, AskSurvives DEF AskInv
<1>2. ASSUME UNCHANGED reviewerState
      PROVE  \A q \in Reviewers : Still(q)
  BY <1>2 DEF reviewerState, Still
<1>3. ASSUME NEW p \in Terminals, Write(p) \/ IsGone(p) \/ WriteFails(p)
      PROVE  AskInv'
  <2>1. PICK code, document : Ends(p, code, document)
    BY <1>3 DEF Write, IsGone, WriteFails
  <2>2. \A q \in Reviewers : q # p => Asks(q)'
    <3>1. UNCHANGED <<command, asked, reviewerState>>
      BY <2>1 DEF Ends, vars
    <3>2. \A q \in Reviewers : q # p => ended'[q] = ended[q] /\ printed'[q] = printed[q]
      BY <1>0, <2>1, TwoKindsOfTerminal DEF Ends, CommandTypeOK
    <3> QED BY <1>1, <1>2, <3>1, <3>2
  <2>3. p \in Reviewers => Asks(p)'
    BY <1>3, WritesKeepAsks DEF AskInv
  <2> QED BY <2>2, <2>3 DEF AskInv
<1>4. ASSUME NEW p \in Terminals, NEW c \in Commands \ {"decide"}, Starts(p, c) \/ Misuse(p),
             asked' = asked, \A q \in Reviewers : q # p => Still(q)
      PROVE  AskInv'
  <2>1. p \in Reviewers => command'[p] # "decide"
    BY <1>0, <1>4 DEF Starts, Misuse, CommandTypeOK
  <2>2. \A q \in Reviewers : q # p =>
          command'[q] = command[q] /\ ended'[q] = ended[q] /\ printed'[q] = printed[q]
    BY <1>0, <1>4, TwoKindsOfTerminal DEF Starts, Misuse, CommandTypeOK
  <2> QED BY <1>1, <1>4, <2>1, <2>2 DEF AskInv, Asks
<1>5. CASE \E p \in Terminals : Misuse(p)
  <2>1. "misused" \in Commands \ {"decide"}
    BY DEF Commands
  <2> QED BY <1>2, <1>4, <1>5, <2>1 DEF Misuse, vars
<1>6. CASE \E e \in Executors : \E i \in ExecutionInputs : Assess(e, i)
  <2>1. "assess" \in Commands \ {"decide"}
    BY DEF Commands
  <2> QED BY <1>2, <1>4, <1>6, <2>1, TwoKindsOfTerminal DEF Assess
<1>7. CASE \E r \in Reviewers : \E a \in Assessments : ReviewCommand(r, a)
  <2>1. "review" \in Commands \ {"decide"}
    BY DEF Commands
  <2>2. PICK r \in Reviewers, a \in Assessments : ReviewCommand(r, a)
    BY <1>7
  <2>3. ReviewerStep(r) /\ r \in Terminals /\ Starts(r, "review") /\ asked' = asked
    BY <2>2, TwoKindsOfTerminal DEF ReviewCommand, ReviewerStep
  <2> QED BY <1>0, <1>4, <2>1, <2>3, OthersAreStill
<1>8. CASE \E r \in Reviewers : Reject(r) \/ ReviewUnread(r)
  <2>1. {"rejected", "unread"} \subseteq Commands \ {"decide"}
    BY DEF Commands
  <2> QED BY <1>2, <1>4, <1>8, <2>1, TwoKindsOfTerminal DEF Reject, ReviewUnread, vars
<1>9. CASE \E r \in Reviewers : \E s \in Submissions : \E v \in {seen[r], NoRow} :
             Decide(r, s, v)
  <2>0. PICK r \in Reviewers :
          \E s \in Submissions : \E v \in {seen[r], NoRow} : Decide(r, s, v)
    BY <1>9
  <2>1. PICK s \in Submissions, v \in {seen[r], NoRow} : Decide(r, s, v)
    BY <2>0
  <2>2. ReviewerStep(r) /\ r \in Terminals
    BY <2>1, TwoKindsOfTerminal DEF Decide, ReviewerStep
  <2>3. \A q \in Reviewers : q # r =>
          /\ command'[q] = command[q] /\ ended'[q] = ended[q]
          /\ printed'[q] = printed[q] /\ asked'[q] = asked[q]
    BY <1>0, <2>1, TwoKindsOfTerminal DEF Decide, Starts, CommandTypeOK
  <2>4. \A q \in Reviewers : q # r => Asks(q)'
    BY <1>0, <1>1, <2>2, <2>3, OthersAreStill
  <2>5. Asks(r)'
    BY <1>0, <2>1, DecideAsks
  <2> QED BY <2>4, <2>5 DEF AskInv
<1>10. CASE UNCHANGED commandState /\ \E r \in Reviewers : Moves(r)
  <2>1. PICK r \in Reviewers : Moves(r)
    BY <1>10
  <2>2. ReviewerStep(r) \/ ReviewFault(r)
    BY <2>1 DEF ReviewerStep
  <2>3. \A q \in Reviewers : q # r => Asks(q)'
    BY <1>0, <1>1, <1>10, <2>2, OthersAreStill DEF commandState
  <2>4. Asks(r)'
    BY <1>0, <1>10, <2>1, RunsKeepAsks DEF AskInv
  <2> QED BY <2>3, <2>4 DEF AskInv
<1>11. CASE UNCHANGED commandState /\ UNCHANGED reviewerState
  BY <1>1, <1>2, <1>11 DEF commandState, AskInv
<1>12. CASE \/ \E e \in Executors : AssessProceeds(e)
            \/ \E r \in Reviewers : DecideProceeds(r)
            \/ CommandFault
            \/ UNCHANGED commandVars
  BY <1>10, <1>11, <1>12 DEF AssessProceeds, DecideProceeds, CommandFault, ExecutorFault,
     commandVars, vars
<1> QED BY <1>3, <1>5, <1>6, <1>7, <1>8, <1>9, <1>12 DEF CommandNext, Proceeds

\* A decide that ends with 0 printed the very decision it was asked to submit, and one that
\* ends with 6 met another decision of its assessment, which is still the stored one.
THEOREM DecideExitIsTrue == CommandSpec => []DecideExitTellsDecision
<1>1. CommandInit => AskInv
  BY TwoKindsOfTerminal DEF CommandInit, AskInv, Asks
<1>2. SystemInv /\ CommandInv /\ AskInv /\ [CommandNext]_commandVars => AskInv'
  BY AskInvIsInductive
<1>3. AskInv => DecideExitTellsDecision
  BY DEF AskInv, Asks, Contradicted, DecideExitTellsDecision
<1> QED BY <1>1, <1>2, <1>3, CommandsKeepInv, PTL DEF CommandSpec

-----------------------------------------------------------------------------
(* What stands under an assessment. *)

Empty(a) == requests[a] = NoRow /\ \A c \in attempts : c.assessment # a

\* An attempt of an earlier step, with evidence.
Earlier(c, n) ==
  HasEvidence(c) /\ \E j \in Steps : j < n /\ c.kind = CollectionOrder[j]

\* A step that leaves everything that stands under a.
Untouched(a) ==
  /\ requests'[a] = requests[a]
  /\ snapshots'[a] = snapshots[a]
  /\ \A c : c.assessment = a => (c \in attempts' <=> c \in attempts)

-----------------------------------------------------------------------------
(* The strengthening. *)

\* What an assess can have ended with.
LoneVerdicts ==
  {"none", "invalid_request", "collection_failed", "complete", "evaluation_error",
   "schema_incompatible", "storage_error", "crashed"}

Undrawn == \A a \in Assessments \ drawn : Empty(a)

FirstAttemptsOnly == \A c \in attempts : c.number = 1

\* No two terminals work on one assessment, one after the other or at once.
NoneShared ==
  \A e, f \in Executors :
    command[e] = "assess" /\ command[f] = "assess"
      /\ input[e].assessment = input[f].assessment => e = f

\* The one attempt without evidence that ended a run.
EndedBy(e, c) ==
  /\ c \in attempts /\ c.assessment = input[e].assessment /\ ~HasEvidence(c)
  /\ \A d \in attempts : d.assessment = input[e].assessment /\ ~HasEvidence(d) => d = c

\* Where the run of an assess is, and what therefore stands under its identifier.
OwnRows(e) ==
  LET a == input[e].assessment
      mine == {c \in attempts : c.assessment = a}
  IN
  /\ pc[e] = "persist_request" \/ verdict[e] \in {"invalid_request", "schema_incompatible"} =>
       Empty(a)
  /\ pc[e] = "verify_request" => mine = {}
  /\ pc[e] \in {"collect", "persist_collection"} => \A c \in mine : Earlier(c, step[e])
  /\ pc[e] = "verify_collection" =>
       collected[e] \in mine /\ \A c \in mine : c = collected[e] \/ Earlier(c, step[e])
  /\ pc[e] \in {"load_snapshot", "evaluate", "persist_snapshot", "verify_snapshot"} =>
       \A k \in Kinds : Gathered(a, k, input[e].attemptedAt)
  /\ pc[e] \notin {"idle", "verify_snapshot"} => snapshots[a] = NoRow
  /\ verdict[e] = "collection_failed" =>
       /\ requests[a] = input[e].request
       /\ snapshots[a] = NoRow
       /\ \E c \in attempts : EndedBy(e, c)

OwnEnd(e) ==
  /\ pc[e] # "reevaluate"
  /\ pc[e] = "idle" => verdict[e] # "none"
  /\ verdict[e] \in LoneVerdicts
  /\ ended[e] \in {Running, 1, Killed, AssessExitCode(verdict[e])}
  /\ ended[e] = 5 => verdict[e] # "crashed"

Owns(e) ==
  command[e] = "assess" =>
    /\ input[e] \in ExecutionInputs
    /\ input[e].assessment \in drawn
    /\ OwnRows(e)
    /\ OwnEnd(e)

\* Nothing runs at a terminal that runs no assess.
RunsIfRunning(e) == pc[e] # "idle" => command[e] = "assess" /\ ended[e] = Running

AloneInv ==
  /\ Undrawn
  /\ FirstAttemptsOnly
  /\ NoneShared
  /\ \A e \in Executors : Owns(e) /\ RunsIfRunning(e)

\* All that the other theorems provide.
KnownInv == SystemInv /\ CommandInv /\ RunInv

LEMMA KnownParts ==
  ASSUME KnownInv
  PROVE  /\ Inv /\ DatabaseInv /\ DatabaseTypeOK /\ ExecutorInv /\ ExecutorTypeOK
         /\ CompletionInv /\ CommandTypeOK /\ DerivedIdsAreFirst
         /\ \A e \in Executors : Travelled(e) /\ Witnessed(e)
BY DEF KnownInv, SystemInv, Inv, DatabaseInv, ExecutorInv, CommandInv, RunInv,
       CompletionInv

\* Without a request there is no evaluation, and without an evaluation no decision.
LEMMA RowsBuildUp ==
  ASSUME DatabaseInv, NEW a \in Assessments
  PROVE  /\ requests[a] = NoRow => snapshots[a] = NoRow
         /\ snapshots[a] = NoRow => decisions[a] = NoRow
BY DEF DatabaseInv, EvaluationRestsOnEvidence, DecisionsAreValid

-----------------------------------------------------------------------------
(* Who stores what. *)

\* The steps of a command are those of the system without its library callers.
LEMMA CommandsStoreCollected ==
  ASSUME [CommandNext]_commandVars
  PROVE  \A d \in attempts' \ attempts : Collected(d)
<1>1. CASE UNCHANGED attempts
  BY <1>1
<1>2. CASE \E e \in Executors : ExecutorStep(e) \/ ExecutorFault(e)
  BY <1>2, ExecutorsStoreCollected
<1>3. CASE \E r \in Reviewers : ReviewerStep(r) \/ ReviewFault(r)
  BY <1>1, <1>3, ReviewersOnlyDecide
<1>4. \/ UNCHANGED attempts
      \/ \E e \in Executors : ExecutorStep(e) \/ ExecutorFault(e)
      \/ \E r \in Reviewers : ReviewerStep(r) \/ ReviewFault(r)
  BY DEF CommandNext, Proceeds, AssessProceeds, DecideProceeds, Write, IsGone, WriteFails,
     Misuse, Ends, Assess, ReviewCommand, Reject, ReviewUnread, Decide, CommandFault,
     ExecutorStep, ReviewerStep, commandVars, vars, database
<1> QED BY <1>1, <1>2, <1>3, <1>4

LEMMA KnownInvIsInductive ==
  ASSUME KnownInv, [CommandNext]_commandVars
  PROVE  KnownInv' /\ AppendOnly
<1>1. SystemInv' /\ CommandInv' /\ AppendOnly
  BY SystemInvIsInductive, CommandInvIsInductive DEF KnownInv
<1>2. [Next]_vars
  BY CommandStepIsSystemStep
<1>3. RunInv'
  BY <1>2, CommandsStoreCollected, RunInvIsInductive DEF KnownInv, SystemInv
<1> QED BY <1>1, <1>3 DEF KnownInv

\* A running execution writes under its own assessment only.
LEMMA ExecutorsTouchTheirOwn ==
  ASSUME KnownInv, NEW e \in Executors, Advance(e) \/ ExecutorFault(e),
         NEW b \in Assessments, b # input[e].assessment
  PROVE  Untouched(b)
<1> DEFINE a == input[e].assessment
<1>0. /\ ExecutorInv /\ DatabaseTypeOK /\ Travelled(e)
  BY KnownParts
<1>1. CASE UNCHANGED database
  BY <1>1 DEF database, Untouched
<1>2. CASE PersistRequest(e)
  BY <1>0, <1>2 DEF PersistRequest, WriteRequest, DatabaseTypeOK, Untouched
<1>3. CASE PersistCollection(e)
  <2>1. collected[e].assessment = a
    BY <1>0, <1>3 DEF PersistCollection, Travelled, OwnAttempt
  <2> QED BY <1>3, <2>1 DEF PersistCollection, WriteCollection, Untouched
<1>4. CASE PersistSnapshot(e)
  <2>1. proposed[e].assessment = a
    BY <1>0, <1>4 DEF PersistSnapshot, Travelled
  <2> QED BY <1>0, <1>4, <2>1 DEF PersistSnapshot, WriteSnapshot, DatabaseTypeOK, Untouched
<1> QED BY <1>1, <1>2, <1>3, <1>4
        DEF Advance, OpenRefused, VerifyRequest, Collect, VerifyCollection, LoadSnapshot,
            EvaluateFirst, VerifySnapshot, EvaluateAgain, ExecutorFault, StorageFault, Crash

\* An executor that nothing happens to.
Bystander(f) ==
  LocalsKept(f) /\ command'[f] = command[f] /\ ended'[f] = ended[f]

\* Who owns an assessment goes on owning it while others work elsewhere.
LEMMA BystandersOwn ==
  ASSUME KnownInv, NEW f \in Executors, Owns(f), RunsIfRunning(f), Bystander(f),
         drawn \subseteq drawn',
         command[f] = "assess" => Untouched(input[f].assessment)
  PROVE  Owns(f)' /\ RunsIfRunning(f)'
<1>1. RunsIfRunning(f)'
  BY DEF RunsIfRunning, Bystander, LocalsKept
<1>2. ASSUME command[f] = "assess"
      PROVE  Owns(f)'
  <2> DEFINE a == input[f].assessment
  <2>1. /\ Untouched(a) /\ input'[f] = input[f] /\ pc'[f] = pc[f] /\ step'[f] = step[f]
        /\ collected'[f] = collected[f] /\ verdict'[f] = verdict[f] /\ ended'[f] = ended[f]
    BY <1>2 DEF Bystander, LocalsKept
  <2>2. {c \in attempts' : c.assessment = a} = {c \in attempts : c.assessment = a}
    BY <2>1 DEF Untouched
  <2>3. Empty(a) => Empty(a)'
    BY <2>1 DEF Untouched, Empty
  <2>4. \A k \in Kinds : Gathered(a, k, input[f].attemptedAt)
                           => Gathered(a, k, input[f].attemptedAt)'
    BY <2>1 DEF Untouched, Gathered
  <2>5. ASSUME NEW c \in attempts, EndedBy(f, c)
        PROVE  c \in attempts' /\ EndedBy(f, c)'
    BY <2>1, <2>5 DEF Untouched, EndedBy
  <2>6. \A c : Earlier(c, step[f]) => Earlier(c, step[f])'
    BY <2>1 DEF Earlier
  <2>7. OwnRows(f)'
    BY <1>2, <2>1, <2>2, <2>3, <2>4, <2>5, <2>6 DEF Owns, OwnRows, Untouched
  <2> QED BY <1>2, <2>1, <2>7 DEF Owns, OwnEnd
<1> QED BY <1>1, <1>2 DEF Owns, Bystander

-----------------------------------------------------------------------------
(* Steps of the run itself. *)

\* A run that ends, other than on a result without evidence, has nothing to show but its
\* verdict.
LEMMA EndIsOwned ==
  ASSUME KnownInv, NEW e \in Executors, Owns(e), RunsIfRunning(e), pc[e] # "idle",
         NEW v \in {"complete", "evaluation_error", "storage_error", "crashed"},
         End(e, v), UNCHANGED <<input, commandState>>
  PROVE  Owns(e)'
<1>1. /\ command[e] = "assess" /\ ended[e] = Running
      /\ pc'[e] = "idle" /\ verdict'[e] = v
      /\ command' = command /\ ended' = ended /\ drawn' = drawn
  BY KnownParts DEF RunsIfRunning, End, ExecutorTypeOK, commandState
<1>2. OwnRows(e)'
  BY <1>1 DEF OwnRows
<1>3. OwnEnd(e)'
  BY <1>1 DEF OwnEnd, LoneVerdicts, Running
<1> QED BY <1>1, <1>2, <1>3 DEF Owns

\* A run that goes on owns its rows if they are those of its next label.
LEMMA MoveIsOwned ==
  ASSUME KnownInv, NEW e \in Executors, Owns(e), RunsIfRunning(e), pc[e] # "idle",
         NEW l, l \notin {"idle", "persist_request", "reevaluate"},
         Goto(e, l), UNCHANGED <<input, commandState>>, OwnRows(e)'
  PROVE  Owns(e)'
<1>1. /\ command[e] = "assess" /\ ended[e] = Running
      /\ pc'[e] = l /\ verdict' = verdict
      /\ command' = command /\ ended' = ended /\ drawn' = drawn
  BY KnownParts DEF RunsIfRunning, Goto, ExecutorTypeOK, commandState
<1>2. OwnEnd(e)'
  BY <1>1 DEF Owns, OwnEnd
<1> QED BY <1>1, <1>2 DEF Owns

\* What a running assess is and has.
LEMMA RunningAssess ==
  ASSUME KnownInv, NEW e \in Executors, Owns(e), RunsIfRunning(e), pc[e] # "idle"
  PROVE  /\ command[e] = "assess" /\ ended[e] = Running
         /\ OwnRows(e) /\ verdict[e] = "none"
         /\ input[e].assessment \in Assessments
         /\ step[e] \in Steps /\ KindAt(e) \in Kinds
<1>1. /\ command[e] = "assess" /\ ended[e] = Running /\ OwnRows(e)
  BY DEF Owns, RunsIfRunning
<1>2. verdict[e] = "none"
  BY KnownParts DEF Witnessed
<1>3. input[e].assessment \in Assessments /\ step[e] \in Steps
  BY KnownParts, InputFields DEF ExecutorTypeOK
<1>4. KindAt(e) \in Kinds
  BY <1>3, OrderCoversKinds DEF KindAt, Steps
<1> QED BY <1>1, <1>2, <1>3, <1>4

\* A run that may not open the file ends before it stored anything.
LEMMA OpenRefusedIsOwned ==
  ASSUME KnownInv, NEW e \in Executors, Owns(e), RunsIfRunning(e), OpenRefused(e),
         UNCHANGED commandState
  PROVE  Owns(e)'
<1>1. /\ command[e] = "assess" /\ ended[e] = Running /\ pc[e] = "persist_request"
      /\ OwnRows(e) /\ Empty(input[e].assessment)
  BY RunningAssess DEF OpenRefused, OwnRows
<1>2. /\ pc'[e] = "idle" /\ verdict'[e] = "schema_incompatible"
      /\ UNCHANGED <<input, database, command, ended, drawn>>
  BY KnownParts DEF OpenRefused, Raise, End, ExecutorTypeOK, commandState
<1>3. OwnRows(e)'
  BY <1>1, <1>2 DEF OwnRows, Empty, database
<1>4. OwnEnd(e)'
  BY <1>1, <1>2 DEF OwnEnd, LoneVerdicts, Running
<1> QED BY <1>1, <1>2, <1>3, <1>4 DEF Owns

LEMMA RequestStepsAreOwned ==
  ASSUME KnownInv, NEW e \in Executors, Owns(e), RunsIfRunning(e),
         PersistRequest(e) \/ VerifyRequest(e)
           \/ \E response \in Responses : Collect(e, response),
         UNCHANGED commandState
  PROVE  Owns(e)'
<1> DEFINE a == input[e].assessment
<1>0. /\ ExecutorTypeOK /\ Travelled(e) /\ pc[e] # "idle" /\ OwnRows(e)
      /\ command[e] = "assess" /\ verdict[e] = "none"
  BY KnownParts, RunningAssess DEF PersistRequest, VerifyRequest, Collect
<1>1. CASE PersistRequest(e)
  <2>1. pc[e] = "persist_request" /\ Empty(a) /\ snapshots[a] = NoRow
    BY <1>0, <1>1 DEF PersistRequest, OwnRows
  <2>2. RequestWrite(a, input[e].request) # "conflicting_replay"
    BY <2>1 DEF Empty, RequestWrite
  <2>3. /\ Goto(e, "verify_request")
        /\ UNCHANGED <<input, step, collected, attempts, snapshots>>
    BY <1>1, <2>2 DEF PersistRequest, WriteRequest
  <2>4. pc'[e] = "verify_request" /\ verdict' = verdict
    BY <1>0, <2>3 DEF Goto, ExecutorTypeOK
  <2>5. OwnRows(e)'
    BY <1>0, <2>1, <2>3, <2>4 DEF OwnRows, Empty
  <2> QED BY <1>0, <2>3, <2>5, MoveIsOwned
<1>2. CASE VerifyRequest(e)
  <2>1. pc[e] = "verify_request" /\ requests[a] = input[e].request
    BY <1>0, <1>2 DEF VerifyRequest, Travelled
  <2>2. Goto(e, "collect") /\ UNCHANGED <<input, attempts, snapshots, requests>>
    BY <1>2, <2>1 DEF VerifyRequest, database
  <2>3. pc'[e] = "collect" /\ verdict' = verdict
    BY <1>0, <2>2 DEF Goto, ExecutorTypeOK
  <2>4. OwnRows(e)'
    BY <1>0, <2>1, <2>2, <2>3 DEF OwnRows
  <2> QED BY <1>0, <2>2, <2>4, MoveIsOwned
<1>3. CASE \E response \in Responses : Collect(e, response)
  <2>1. /\ pc[e] = "collect" /\ Goto(e, "persist_collection")
        /\ UNCHANGED <<input, step, attempts, snapshots, requests>>
    BY <1>3 DEF Collect, database
  <2>2. pc'[e] = "persist_collection" /\ verdict' = verdict
    BY <1>0, <2>1 DEF Goto, ExecutorTypeOK
  <2>3. OwnRows(e)'
    BY <1>0, <2>1, <2>2 DEF OwnRows, Earlier
  <2> QED BY <1>0, <2>1, <2>3, MoveIsOwned
<1> QED BY <1>1, <1>2, <1>3

\* Its own attempt is always new: every stored one is of an earlier step.
LEMMA OwnAttemptIsNew ==
  ASSUME KnownInv, NEW e \in Executors, Owns(e), RunsIfRunning(e),
         pc[e] = "persist_collection"
  PROVE  CollectionWrite(collected[e]) = "inserted"
<1> DEFINE a == input[e].assessment
           c == collected[e]
<1>1. /\ DerivedIdsAreFirst /\ OwnAttempt(e)
      /\ requests[a] = input[e].request /\ input[e].request # NoRow
      /\ a \in Assessments /\ step[e] \in Steps /\ KindAt(e) \in Kinds /\ OwnRows(e)
  BY KnownParts, RunningAssess, InputFields, NoRowIsNoRow DEF Travelled, Witnessed
<1>2. ASSUME NEW d \in attempts, d.assessment = a
      PROVE  d.kind # KindAt(e)
  <2>1. PICK j \in Steps : j < step[e] /\ d.kind = CollectionOrder[j]
    BY <1>1, <1>2 DEF OwnRows, Earlier
  <2>2. j # step[e]
    BY <1>1, <2>1, FirstStep
  <2>3. \A m, n \in Steps : CollectionOrder[m] = CollectionOrder[n] => m = n
    BY OrderCoversKinds DEF Steps
  <2> QED BY <1>1, <2>1, <2>2, <2>3 DEF KindAt
<1>3. ~IdTaken(c)
  BY <1>1, <1>2 DEF IdTaken, DerivedIdsAreFirst, OwnAttempt
<1>4. ~SlotTaken(c)
  BY <1>1, <1>2 DEF SlotTaken, OwnAttempt
<1>5. RepositoryMatches(c) /\ requests[c.assessment] # NoRow
  BY <1>1 DEF RepositoryMatches, OwnAttempt
<1> QED BY <1>3, <1>4, <1>5 DEF CollectionWrite

LEMMA PersistCollectionIsOwned ==
  ASSUME KnownInv, NEW e \in Executors, Owns(e), RunsIfRunning(e), PersistCollection(e),
         UNCHANGED commandState
  PROVE  Owns(e)'
<1> DEFINE a == input[e].assessment
           c == collected[e]
<1>0. /\ ExecutorTypeOK /\ pc[e] = "persist_collection" /\ OwnRows(e) /\ OwnAttempt(e)
      /\ command[e] = "assess" /\ verdict[e] = "none"
  BY KnownParts, RunningAssess DEF PersistCollection, Travelled
<1>1. CollectionWrite(c) = "inserted"
  BY <1>0, OwnAttemptIsNew
<1>2. /\ Goto(e, "verify_collection") /\ attempts' = attempts \union {c}
      /\ UNCHANGED <<input, step, collected, requests, snapshots>>
  BY <1>1 DEF PersistCollection, WriteCollection
<1>3. pc'[e] = "verify_collection" /\ verdict' = verdict
  BY <1>0, <1>2 DEF Goto, ExecutorTypeOK
<1>4. c.assessment = a
  BY <1>0 DEF OwnAttempt
<1>5. OwnRows(e)'
  BY <1>0, <1>2, <1>3, <1>4 DEF OwnRows, Earlier
<1> QED BY <1>0, <1>2, <1>5, MoveIsOwned

\* A run that ends on a result without evidence left exactly that one.
LEMMA FailedCollectionIsOwned ==
  ASSUME KnownInv, NEW e \in Executors, Owns(e), RunsIfRunning(e),
         pc[e] = "verify_collection", collected[e] \in attempts, ~HasEvidence(collected[e]),
         Raise(e, "collection_failed"), UNCHANGED <<database, commandState>>
  PROVE  Owns(e)'
<1> DEFINE a == input[e].assessment
<1>0. /\ ExecutorTypeOK /\ OwnRows(e) /\ command[e] = "assess" /\ ended[e] = Running
      /\ requests[a] = input[e].request /\ snapshots[a] = NoRow
  BY KnownParts, RunningAssess DEF Witnessed, OwnRows
<1>1. /\ pc'[e] = "idle" /\ verdict'[e] = "collection_failed" /\ input' = input
      /\ attempts' = attempts /\ requests' = requests /\ snapshots' = snapshots
      /\ command' = command /\ ended' = ended /\ drawn' = drawn
  BY <1>0 DEF Raise, End, ExecutorTypeOK, database, commandState
<1>2. PICK d \in attempts : EndedBy(e, d)
  BY <1>0 DEF OwnRows, Earlier, EndedBy
<1>3. d \in attempts' /\ EndedBy(e, d)'
  BY <1>1, <1>2 DEF EndedBy
<1>4. OwnRows(e)'
  BY <1>0, <1>1, <1>3 DEF OwnRows
<1>5. OwnEnd(e)'
  BY <1>0, <1>1 DEF OwnEnd, LoneVerdicts, Running
<1> QED BY <1>0, <1>1, <1>4, <1>5 DEF Owns

LEMMA VerifyCollectionIsOwned ==
  ASSUME KnownInv, NEW e \in Executors, Owns(e), RunsIfRunning(e), VerifyCollection(e),
         UNCHANGED commandState
  PROVE  Owns(e)'
<1> DEFINE a == input[e].assessment
           c == collected[e]
           t == input[e].attemptedAt
<1>0. /\ ExecutorTypeOK /\ pc[e] = "verify_collection" /\ OwnRows(e) /\ OwnAttempt(e)
      /\ command[e] = "assess" /\ verdict[e] = "none" /\ step[e] \in Steps
      /\ UNCHANGED database
  BY KnownParts, RunningAssess DEF VerifyCollection, Travelled
<1>1. c \in attempts /\ CollectionReread(c) = "verified"
  BY <1>0 DEF OwnRows, CollectionReread
<1>2. CASE ~HasEvidence(c)
  BY <1>0, <1>1, <1>2, FailedCollectionIsOwned DEF VerifyCollection
<1>3. CASE /\ HasEvidence(c)
           /\ Goto(e, "collect")
           /\ step' = [step EXCEPT ![e] = @ + 1]
           /\ UNCHANGED input
  <2>1. /\ pc'[e] = "collect" /\ verdict' = verdict /\ step'[e] = step[e] + 1
        /\ attempts' = attempts /\ requests' = requests /\ snapshots' = snapshots
    BY <1>0, <1>3 DEF Goto, ExecutorTypeOK, database
  <2>2. step[e] < step'[e] /\ \A j \in Steps : j < step[e] => j < step'[e]
    <3>1. step[e] \in Nat /\ Steps \subseteq Nat
      BY <1>0, FirstStep
    <3>2. \A j, n \in Nat : n < n + 1 /\ (j < n => j < n + 1)
      OBVIOUS
    <3> QED BY <2>1, <3>1, <3>2
  <2>3. ASSUME NEW d \in attempts, d.assessment = a
        PROVE  Earlier(d, step'[e])
    <3>1. CASE d = c
      BY <1>0, <1>3, <2>2, <3>1 DEF Earlier, OwnAttempt, KindAt
    <3>2. CASE Earlier(d, step[e])
      BY <2>2, <3>2 DEF Earlier
    <3> QED BY <1>0, <2>3, <3>1, <3>2 DEF OwnRows
  <2>4. OwnRows(e)'
    BY <1>0, <1>3, <2>1, <2>3 DEF OwnRows, Earlier
  <2> QED BY <1>0, <1>3, <2>4, MoveIsOwned
<1>4. CASE /\ HasEvidence(c)
           /\ step[e] = Len(CollectionOrder)
           /\ Goto(e, "load_snapshot")
           /\ UNCHANGED input
  <2>1. /\ pc'[e] = "load_snapshot" /\ verdict' = verdict
        /\ attempts' = attempts /\ requests' = requests /\ snapshots' = snapshots
    BY <1>0, <1>4 DEF Goto, ExecutorTypeOK, database
  <2>2. Gathered(a, CollectionOrder[step[e]], t)
    BY <1>0, <1>1, <1>4 DEF Gathered, OwnAttempt, KindAt, HasEvidence, EvidenceOutcomes
  <2>3. ASSUME NEW k \in Kinds
        PROVE  Gathered(a, k, t)
    <3>1. PICK i \in Steps : CollectionOrder[i] = k
      BY OrderCoversKinds DEF Steps
    <3>2. i < step[e] \/ i = step[e]
      BY <1>0, <1>4 DEF Steps
    <3>3. i < step[e] => Gathered(a, CollectionOrder[i], t)
      BY <1>0, KnownParts DEF Travelled
    <3> QED BY <2>2, <3>1, <3>2, <3>3
  <2>4. OwnRows(e)'
    BY <1>0, <1>4, <2>1, <2>3 DEF OwnRows, Gathered
  <2> QED BY <1>0, <1>4, <2>4, MoveIsOwned
<1> QED BY <1>1, <1>2, <1>3, <1>4 DEF VerifyCollection

\* With first attempts only, a complete collection is unambiguous.
LEMMA GatheredIsVerified ==
  ASSUME KnownInv, FirstAttemptsOnly, NEW a, NEW t, requests[a] # NoRow,
         \A k \in Kinds : Gathered(a, k, t)
  PROVE  EvidenceStatus(a) = "verified"
<1>1. \A k \in Kinds : EvidenceRows(a, k) # {}
  BY DEF Gathered, EvidenceRows, HasEvidence, EvidenceOutcomes
<1>2. \A k \in Kinds : \A c, d \in EvidenceRows(a, k) : c = d
  BY KnownParts DEF FirstAttemptsOnly, EvidenceRows, DatabaseInv, AttemptsAreUnique
<1> QED BY <1>1, <1>2 DEF EvidenceStatus

LEMMA EvaluationStepsAreOwned ==
  ASSUME KnownInv, FirstAttemptsOnly, NEW e \in Executors, Owns(e), RunsIfRunning(e),
         \/ LoadSnapshot(e) \/ \E t \in Times : EvaluateFirst(e, t)
         \/ PersistSnapshot(e) \/ VerifySnapshot(e),
         UNCHANGED commandState
  PROVE  Owns(e)'
<1> DEFINE a == input[e].assessment
           t == input[e].attemptedAt
<1>0. /\ ExecutorTypeOK /\ DatabaseInv /\ DatabaseTypeOK /\ Travelled(e) /\ pc[e] # "idle"
      /\ OwnRows(e) /\ verdict[e] = "none" /\ command[e] = "assess" /\ a \in Assessments
      /\ \A k \in Kinds : Gathered(a, k, t)
  BY KnownParts, RunningAssess
     DEF LoadSnapshot, EvaluateFirst, PersistSnapshot, VerifySnapshot, OwnRows
<1>1. requests[a] # NoRow
  BY <1>0, KnownParts, InputFields, NoRowIsNoRow
     DEF Witnessed, LoadSnapshot, EvaluateFirst, PersistSnapshot, VerifySnapshot
<1>2. EvidenceStatus(a) = "verified"
  BY <1>0, <1>1, GatheredIsVerified
<1>3. ASSUME NEW l \in {"evaluate", "persist_snapshot", "verify_snapshot"}, Goto(e, l),
             UNCHANGED <<input, attempts>>,
             l # "verify_snapshot" => snapshots' = snapshots /\ snapshots[a] = NoRow
      PROVE  Owns(e)'
  <2>1. pc'[e] = l /\ verdict' = verdict
    BY <1>0, <1>3 DEF Goto, ExecutorTypeOK
  <2>2. \A k \in Kinds : Gathered(a, k, t)'
    BY <1>0, <1>3 DEF Gathered
  <2>3. OwnRows(e)'
    BY <1>0, <1>3, <2>1, <2>2 DEF OwnRows
  <2> QED BY <1>0, <1>3, <2>3, MoveIsOwned
<1>4. CASE LoadSnapshot(e)
  <2>1. snapshots[a] = NoRow
    BY <1>0, <1>4 DEF LoadSnapshot, OwnRows
  <2>2. SnapshotStatus(a) = "evaluation_not_found"
    BY <2>1 DEF SnapshotStatus
  <2>3. Goto(e, "evaluate") /\ UNCHANGED <<input, attempts, snapshots>>
    BY <1>4, <2>2 DEF LoadSnapshot, database
  <2> QED BY <1>3, <2>1, <2>3
<1>5. CASE \E u \in Times : EvaluateFirst(e, u)
  <2>1. snapshots[a] = NoRow
    BY <1>0, <1>5 DEF EvaluateFirst, OwnRows
  <2>2. \/ Raise(e, "evaluation_error")
        \/ Goto(e, "persist_snapshot") /\ UNCHANGED <<input, attempts, snapshots>>
    BY <1>2, <1>5 DEF EvaluateFirst, database
  <2>3. CASE Raise(e, "evaluation_error")
    BY <1>0, <2>3, EndIsOwned DEF Raise
  <2> QED BY <1>3, <2>1, <2>2, <2>3
<1>6. CASE PersistSnapshot(e)
  <2>1. /\ snapshots[a] = NoRow /\ proposed[e] \in Evaluation /\ proposed[e].assessment = a
        /\ \A k \in Kinds : RestsOn(proposed[e].evidence[k], k, a, proposed[e])
    BY <1>0, <1>6, KnownParts
       DEF PersistSnapshot, OwnRows, Travelled, ExecutorInv, EvaluationInHand
  <2>2. SnapshotWrite(proposed[e]) = "inserted"
    BY <1>0, <1>2, <2>1, RestingIsRecomputed DEF SnapshotWrite
  <2>3. Goto(e, "verify_snapshot") /\ UNCHANGED <<input, attempts>>
    BY <1>6, <2>2 DEF PersistSnapshot, WriteSnapshot
  <2> QED BY <1>3, <2>3
<1>7. CASE VerifySnapshot(e)
  <2>1. snapshots[a] = proposed[e] /\ proposed[e] # NoRow
    BY <1>0, <1>7, KnownParts, NoRowIsNoRow
       DEF VerifySnapshot, Travelled, ExecutorInv, EvaluationInHand
  <2>2. SnapshotStatus(a) = "verified"
    BY <1>0, <1>2, <2>1, NoSnapshotFails DEF SnapshotStatus, ReadErrors
  <2>3. Complete(e)
    BY <1>7, <2>1, <2>2 DEF VerifySnapshot
  <2> QED BY <1>0, <2>3, EndIsOwned DEF Complete
<1> QED BY <1>4, <1>5, <1>6, <1>7

LEMMA RunIsOwned ==
  ASSUME KnownInv, FirstAttemptsOnly, NEW e \in Executors, Owns(e), RunsIfRunning(e),
         Advance(e) \/ ExecutorFault(e), UNCHANGED commandState
  PROVE  Owns(e)' /\ RunsIfRunning(e)'
<1>1. pc[e] # "idle" /\ input' = input
  BY ExecutorsKeepInput DEF Advance, OpenRefused, PersistRequest, VerifyRequest, Collect,
     PersistCollection, VerifyCollection, LoadSnapshot, EvaluateFirst, PersistSnapshot,
     VerifySnapshot, EvaluateAgain, ExecutorFault, StorageFault, Crash, Labels
<1>2. RunsIfRunning(e)'
  BY <1>1 DEF RunsIfRunning, commandState
<1>3. ~EvaluateAgain(e)
  BY <1>1 DEF EvaluateAgain, Owns, OwnEnd, RunsIfRunning
<1>4. CASE ExecutorFault(e)
  <2>1. \E v \in {"storage_error", "crashed"} : End(e, v)
    BY <1>4 DEF ExecutorFault, StorageFault, Crash, Raise
  <2> QED BY <1>1, <1>2, <2>1, EndIsOwned
<1> QED BY <1>2, <1>3, <1>4, OpenRefusedIsOwned, RequestStepsAreOwned,
           PersistCollectionIsOwned, VerifyCollectionIsOwned, EvaluationStepsAreOwned
        DEF Advance

-----------------------------------------------------------------------------
(* The start and the end of a command. *)

LEMMA BegunIsOwned ==
  ASSUME KnownInv, Undrawn, NEW e \in Executors, NEW i \in ExecutionInputs, Assess(e, i)
  PROVE  Owns(e)' /\ RunsIfRunning(e)'
<1> DEFINE a == i.assessment
<1>0. ExecutorTypeOK /\ CommandTypeOK /\ DatabaseInv /\ e \in Terminals
  BY KnownParts, TwoKindsOfTerminal
<1>1. a \in Assessments /\ a \notin drawn
  BY InputsAreTyped DEF Assess, IsNewIdentifier
<1>2. Empty(a) /\ snapshots[a] = NoRow
  BY <1>0, <1>1, RowsBuildUp DEF Undrawn, Empty
<1>3. /\ input'[e] = i /\ command'[e] = "assess" /\ ended'[e] = Running
      /\ drawn' = drawn \union {a} /\ UNCHANGED database
  BY <1>0 DEF Assess, Starts, Begin, ExecutorTypeOK, CommandTypeOK
<1>4. \/ pc'[e] = "idle" /\ verdict'[e] = "invalid_request"
      \/ pc'[e] = "persist_request" /\ verdict'[e] = "none"
  BY <1>0 DEF Assess, Begin, ExecutorTypeOK
<1>5. Empty(a)' /\ snapshots'[a] = NoRow
  BY <1>2, <1>3 DEF Empty, database
<1>6. OwnRows(e)'
  BY <1>3, <1>4, <1>5 DEF OwnRows
<1>7. OwnEnd(e)'
  BY <1>3, <1>4 DEF OwnEnd, LoneVerdicts, Running
<1> QED BY <1>3, <1>6, <1>7 DEF Owns, RunsIfRunning

LEMMA EndedIsOwned ==
  ASSUME KnownInv, NEW e \in Executors, Owns(e), RunsIfRunning(e),
         Write(e) \/ IsGone(e) \/ WriteFails(e)
  PROVE  Owns(e)' /\ RunsIfRunning(e)'
<1>0. CommandTypeOK /\ e \in Terminals /\ e \notin Reviewers
  BY KnownParts, TwoKindsOfTerminal
<1>1. /\ UNCHANGED <<vars, command, drawn>> /\ Worked(e) /\ ended[e] = Running
      /\ \E code : ended' = [ended EXCEPT ![e] = code]
  BY DEF Write, IsGone, WriteFails, Ends, Worked
<1>2. command[e] = "assess"
  BY <1>0, <1>1, KnownParts DEF KnownInv, CommandInv, Sound, AtItsTerminal
<1>3. /\ pc[e] = "idle"
      /\ ended'[e] \in {1, Killed} \/ (ended'[e] = AssessExitCode(verdict[e]) /\ verdict[e] # "crashed")
  BY <1>0, <1>1, <1>2 DEF Write, IsGone, WriteFails, Ends, Worked, ExitCode, Outcome, CommandTypeOK
<1>4. UNCHANGED <<database, executorState>>
  BY <1>1 DEF vars
<1>5. RunsIfRunning(e)'
  BY <1>3, <1>4 DEF RunsIfRunning, executorState
<1>6. OwnEnd(e)'
  BY <1>2, <1>3, <1>4 DEF Owns, OwnEnd, executorState, Killed
<1>7. OwnRows(e)'
  BY <1>2, <1>4 DEF Owns, OwnRows, Empty, Earlier, EndedBy, Gathered, executorState, database
<1> QED BY <1>1, <1>2, <1>4, <1>5, <1>6, <1>7 DEF Owns, executorState

-----------------------------------------------------------------------------
(* The invariant. *)

LEMMA FirstAttemptsStay ==
  ASSUME KnownInv, FirstAttemptsOnly, [CommandNext]_commandVars
  PROVE  FirstAttemptsOnly'
<1>1. ASSUME NEW d \in attempts' \ attempts
      PROVE  d.number = 1
  BY <1>1, CommandsStoreCollected, KnownParts DEF Collected, Travelled, OwnAttempt
<1> QED BY <1>1 DEF FirstAttemptsOnly

\* While nothing is stored, everybody but who moves goes on as before.
LEMMA OthersGoOn ==
  ASSUME KnownInv, AloneInv, UNCHANGED <<requests, attempts, snapshots>>,
         drawn \subseteq drawn', NEW movers, \A f \in Executors \ movers : Bystander(f)
  PROVE  Undrawn' /\ \A f \in Executors \ movers : Owns(f)' /\ RunsIfRunning(f)'
<1>1. \A a : Untouched(a)
  BY DEF Untouched
<1>2. Undrawn'
  BY DEF AloneInv, Undrawn, Empty
<1> QED BY <1>1, <1>2, BystandersOwn DEF AloneInv

LEMMA AssessKeepsAlone ==
  ASSUME KnownInv, AloneInv, FirstAttemptsOnly', NEW e \in Executors,
         NEW i \in ExecutionInputs, Assess(e, i)
  PROVE  AloneInv'
<1>0. ExecutorInv /\ ExecutorTypeOK /\ CommandTypeOK /\ e \in Terminals
  BY KnownParts, TwoKindsOfTerminal
<1>1. /\ input'[e] = i /\ UNCHANGED <<requests, attempts, snapshots>>
      /\ drawn \subseteq drawn' /\ i.assessment \notin drawn
  BY <1>0 DEF Assess, Begin, ExecutorTypeOK, database, IsNewIdentifier
<1>2. ASSUME NEW f \in Executors, f # e
      PROVE  Bystander(f)
  <2>1. ExecutorStep(e)
    BY DEF Assess, ExecutorStep
  <2>2. LocalsKept(f)
    BY <1>0, <1>2, <2>1, OthersKeepLocals
  <2> QED BY <1>0, <1>2, <2>2 DEF Bystander, Assess, Starts, CommandTypeOK, Terminals
<1>3. Undrawn' /\ \A f \in Executors \ {e} : Owns(f)' /\ RunsIfRunning(f)'
  BY <1>1, <1>2, OthersGoOn
<1>4. Owns(e)' /\ RunsIfRunning(e)'
  BY BegunIsOwned DEF AloneInv
<1>5. \A f \in Executors : f # e /\ command'[f] = "assess" =>
         input'[f].assessment # input'[e].assessment
  BY <1>1, <1>2 DEF AloneInv, Owns, Bystander, LocalsKept
<1>6. NoneShared'
  BY <1>2, <1>5 DEF AloneInv, NoneShared, Bystander, LocalsKept
<1> QED BY <1>3, <1>4, <1>6 DEF AloneInv

LEMMA RunKeepsAlone ==
  ASSUME KnownInv, AloneInv, FirstAttemptsOnly', NEW e \in Executors,
         AssessProceeds(e) \/ (ExecutorFault(e) /\ UNCHANGED commandState)
  PROVE  AloneInv'
<1>0. /\ ExecutorInv /\ UNCHANGED commandState
      /\ Advance(e) \/ ExecutorFault(e)
      /\ ExecutorStep(e) \/ ExecutorFault(e)
  BY KnownParts DEF AssessProceeds, ExecutorStep
<1>1. input' = input /\ command' = command /\ ended' = ended /\ drawn' = drawn
  BY <1>0, ExecutorsKeepInput DEF commandState
<1>2. Owns(e)' /\ RunsIfRunning(e)'
  BY <1>0, RunIsOwned DEF AloneInv
<1>3. pc[e] # "idle"
  BY <1>0 DEF Advance, OpenRefused, PersistRequest, VerifyRequest, Collect,
     PersistCollection, VerifyCollection, LoadSnapshot, EvaluateFirst, PersistSnapshot, VerifySnapshot,
     EvaluateAgain, ExecutorFault, StorageFault, Crash
<1>4. command[e] = "assess" /\ input[e].assessment \in drawn
  BY <1>3 DEF AloneInv, RunsIfRunning, Owns
<1>5. ASSUME NEW a \in Assessments, a # input[e].assessment
      PROVE  Untouched(a)
  BY <1>0, <1>5, ExecutorsTouchTheirOwn
<1>6. Undrawn'
  BY <1>1, <1>4, <1>5 DEF AloneInv, Undrawn, Empty, Untouched
<1>7. ASSUME NEW f \in Executors, f # e
      PROVE  Owns(f)' /\ RunsIfRunning(f)'
  <2>1. Bystander(f)
    BY <1>0, <1>1, <1>7, OthersKeepLocals DEF Bystander
  <2>2. command[f] = "assess" => input[f].assessment \in Assessments
    BY InputsAreTyped DEF AloneInv, Owns
  <2>3. command[f] = "assess" => Untouched(input[f].assessment)
    BY <1>4, <1>5, <1>7, <2>2 DEF AloneInv, NoneShared
  <2> QED BY <1>1, <2>1, <2>3, BystandersOwn DEF AloneInv
<1>8. NoneShared'
  BY <1>1 DEF AloneInv, NoneShared
<1> QED BY <1>2, <1>6, <1>7, <1>8 DEF AloneInv

\* A step that no execution takes part in.
LEMMA ApartKeepsAlone ==
  ASSUME KnownInv, AloneInv, FirstAttemptsOnly',
         UNCHANGED <<requests, attempts, snapshots, executorState, drawn>>,
         \A f \in Executors : command'[f] = command[f] /\ ended'[f] = ended[f]
  PROVE  AloneInv'
<1>1. \A f \in Executors : Bystander(f)
  BY DEF Bystander, LocalsKept, executorState
<1>2. Undrawn' /\ \A f \in Executors \ {} : Owns(f)' /\ RunsIfRunning(f)'
  BY <1>1, OthersGoOn
<1>3. NoneShared'
  BY DEF AloneInv, NoneShared, executorState
<1> QED BY <1>2, <1>3 DEF AloneInv

LEMMA ReviewersKeepAlone ==
  ASSUME KnownInv, AloneInv, FirstAttemptsOnly', NEW r \in Reviewers,
         \/ \E a \in Assessments : ReviewCommand(r, a)
         \/ Reject(r) \/ ReviewUnread(r)
         \/ \E s \in Submissions : \E v \in {seen[r], NoRow} : Decide(r, s, v)
         \/ DecideProceeds(r)
         \/ ReviewFault(r) /\ UNCHANGED commandState
  PROVE  AloneInv'
<1>1. UNCHANGED drawn
  BY DEF ReviewCommand, Reject, ReviewUnread, Decide, DecideProceeds, commandState
<1>2. \A f \in Executors : command'[f] = command[f] /\ ended'[f] = ended[f]
  BY TwoKindsOfTerminal, KnownParts
     DEF ReviewCommand, Reject, ReviewUnread, Decide, DecideProceeds, commandState, Starts,
         CommandTypeOK
<1>3. UNCHANGED <<requests, attempts, snapshots, executorState>>
  <2>1. CASE ReviewerStep(r) \/ ReviewFault(r)
    BY <2>1, ReviewersOnlyDecide
  <2>2. CASE UNCHANGED vars
    BY <2>2 DEF vars, database
  <2>3. ReviewerStep(r) \/ ReviewFault(r) \/ UNCHANGED vars
    BY DEF ReviewCommand, Reject, ReviewUnread, Decide, DecideProceeds, ReviewerStep
  <2> QED BY <2>1, <2>2, <2>3
<1> QED BY <1>1, <1>2, <1>3, ApartKeepsAlone

LEMMA EndKeepsAlone ==
  ASSUME KnownInv, AloneInv, FirstAttemptsOnly', NEW p \in Terminals,
         Write(p) \/ IsGone(p) \/ WriteFails(p) \/ Misuse(p)
  PROVE  AloneInv'
<1>0. CommandTypeOK
  BY KnownParts
<1>1. UNCHANGED <<vars, drawn>>
  BY DEF Write, IsGone, WriteFails, Ends, Misuse
<1>2. UNCHANGED <<requests, attempts, snapshots, executorState>>
  BY <1>1 DEF vars, database
<1>3. \A f \in Executors : f # p => command'[f] = command[f] /\ ended'[f] = ended[f]
  BY <1>0 DEF Write, IsGone, WriteFails, Ends, Misuse, CommandTypeOK, Terminals
<1>4. \A f \in Executors : f # p => Bystander(f)
  BY <1>2, <1>3 DEF Bystander, LocalsKept, executorState
<1>5. Undrawn' /\ \A f \in Executors \ {p} : Owns(f)' /\ RunsIfRunning(f)'
  BY <1>1, <1>2, <1>4, OthersGoOn
<1>6. CASE Write(p) \/ IsGone(p) \/ WriteFails(p)
  <2>1. p \in Executors => Owns(p)' /\ RunsIfRunning(p)'
    BY <1>6, EndedIsOwned DEF AloneInv
  <2>2. command' = command
    BY <1>6 DEF Write, IsGone, WriteFails, Ends
  <2>3. NoneShared'
    BY <1>2, <2>2 DEF AloneInv, NoneShared, executorState
  <2> QED BY <1>5, <2>1, <2>3 DEF AloneInv
<1>7. CASE Misuse(p)
  <2>1. command'[p] = "misused" /\ ended[p] # Running
    BY <1>0, <1>7 DEF Misuse, CommandTypeOK
  <2>2. p \in Executors => Owns(p)' /\ RunsIfRunning(p)'
    BY <1>2, <2>1 DEF AloneInv, Owns, RunsIfRunning, executorState
  <2>3. NoneShared'
    BY <1>2, <1>3, <2>1 DEF AloneInv, NoneShared, executorState
  <2> QED BY <1>5, <2>2, <2>3 DEF AloneInv
<1> QED BY <1>6, <1>7

LEMMA AloneInvIsInductive ==
  ASSUME KnownInv, AloneInv, [CommandNext]_commandVars
  PROVE  AloneInv'
<1>0. FirstAttemptsOnly'
  BY FirstAttemptsStay DEF AloneInv
<1>1. CASE \E p \in Terminals : Write(p) \/ IsGone(p) \/ WriteFails(p) \/ Misuse(p)
  BY <1>0, <1>1, EndKeepsAlone
<1>2. CASE \E e \in Executors : \E i \in ExecutionInputs : Assess(e, i)
  BY <1>0, <1>2, AssessKeepsAlone
<1>3. CASE \E e \in Executors :
             AssessProceeds(e) \/ (ExecutorFault(e) /\ UNCHANGED commandState)
  BY <1>0, <1>3, RunKeepsAlone
<1>4. CASE \E r \in Reviewers :
             \/ \E a \in Assessments : ReviewCommand(r, a)
             \/ Reject(r) \/ ReviewUnread(r)
             \/ \E s \in Submissions : \E v \in {seen[r], NoRow} : Decide(r, s, v)
             \/ DecideProceeds(r)
             \/ ReviewFault(r) /\ UNCHANGED commandState
  BY <1>0, <1>4, ReviewersKeepAlone
<1>5. CASE UNCHANGED commandVars
  BY <1>0, <1>5, ApartKeepsAlone DEF commandVars, commandState, vars, database
<1> QED BY <1>1, <1>2, <1>3, <1>4, <1>5 DEF CommandNext, Proceeds, CommandFault

LEMMA CommandsKeepAlone == CommandSpec => [](KnownInv /\ AloneInv)
<1>1. CommandInit => RunInv
  BY RunInvHoldsInitially DEF CommandInit
<1>2. CommandInit => AloneInv
  <2> SUFFICES ASSUME CommandInit
               PROVE  AloneInv
    OBVIOUS
  <2>1. \A e \in Executors : command[e] = "none" /\ pc[e] = "idle"
    BY DEF CommandInit, Terminals, Init, ExecutorInit
  <2>2. attempts = {} /\ \A a \in Assessments : requests[a] = NoRow
    BY DEF CommandInit, Init, DatabaseInit
  <2> QED BY <2>1, <2>2
          DEF AloneInv, Undrawn, Empty, FirstAttemptsOnly, NoneShared, Owns, RunsIfRunning
<1>3. KnownInv /\ AloneInv /\ [CommandNext]_commandVars => (KnownInv /\ AloneInv)'
  BY KnownInvIsInductive, AloneInvIsInductive
<1>4. SystemInv /\ CommandInv /\ RunInv => KnownInv
  BY DEF KnownInv
<1> QED BY <1>1, <1>2, <1>3, <1>4, CommandsKeepInv, PTL DEF CommandSpec

-----------------------------------------------------------------------------
(* What the exit codes tell. *)

\* A fresh identifier per assess keeps every run clear of the others: of all persistence
\* errors, main can report but that SQLite failed, or that the file, in which the run has
\* stored nothing then, was just being created by another.
THEOREM AssessIsAlone == CommandSpec => []AssessMeetsNobody
<1>1. ASSUME KnownInv, AloneInv, NEW e \in Executors, command[e] = "assess", ended[e] = 5
      PROVE  \/ verdict[e] = "storage_error"
             \/ /\ verdict[e] = "schema_incompatible"
                /\ requests[input[e].assessment] = NoRow
  <2>1. /\ OwnRows(e) /\ verdict[e] \in LoneVerdicts /\ verdict[e] # "crashed"
        /\ AssessExitCode(verdict[e]) = 5
    BY <1>1 DEF AloneInv, Owns, OwnEnd, Running, Killed
  <2>2. verdict[e] \in {"schema_incompatible", "storage_error", "none"}
    BY <2>1 DEF LoneVerdicts, AssessExitCode
  <2>3. verdict[e] # "none"
    <3>1. pc[e] = "idle"
      BY <1>1 DEF AloneInv, RunsIfRunning, Running
    <3> QED BY <1>1, <3>1 DEF AloneInv, Owns, OwnEnd
  <2> QED BY <2>1, <2>2, <2>3 DEF OwnRows, Empty
<1>2. KnownInv /\ AloneInv => AssessMeetsNobody
  BY <1>1 DEF AssessMeetsNobody
<1> QED BY <1>2, CommandsKeepAlone, PTL

\* The exit code of an assess is the truth about the store: 0, 3 and 4 say what stands under
\* its identifier, also after whatever other commands stored since.
THEOREM AssessTellsStore == CommandSpec => []AssessExitTellsStore
<1>1. ASSUME KnownInv, AloneInv, NEW e \in Executors, command[e] = "assess"
      PROVE  LET a == input[e].assessment
                 without == {c \in attempts : c.assessment = a /\ ~HasEvidence(c)}
             IN
             /\ ended[e] = 0 => requests[a] = input[e].request /\ snapshots[a] # NoRow
             /\ ended[e] = 3 => requests[a] = NoRow /\ \A c \in attempts : c.assessment # a
             /\ ended[e] = 4 => /\ requests[a] = input[e].request
                                /\ Cardinality(without) = 1
                                /\ snapshots[a] = NoRow /\ decisions[a] = NoRow
  <2> DEFINE a == input[e].assessment
             without == {c \in attempts : c.assessment = a /\ ~HasEvidence(c)}
  <2>0. /\ OwnRows(e) /\ OwnEnd(e) /\ Witnessed(e) /\ DatabaseInv /\ a \in Assessments
        /\ ended[e] \in {Running, 1, Killed, AssessExitCode(verdict[e])}
    BY <1>1, KnownParts, InputsAreTyped DEF AloneInv, Owns, OwnEnd
  <2>1. CASE ended[e] = 0
    <3>1. verdict[e] = "complete"
      BY <2>0, <2>1 DEF AssessExitCode, Running, Killed
    <3> QED BY <2>0, <2>1, <3>1, NoRowIsNoRow DEF Witnessed
  <2>2. CASE ended[e] = 3
    <3>1. verdict[e] = "invalid_request"
      BY <2>0, <2>2 DEF AssessExitCode, Running, Killed
    <3> QED BY <2>0, <2>2, <3>1 DEF OwnRows, Empty
  <2>3. CASE ended[e] = 4
    <3>1. verdict[e] = "collection_failed"
      BY <2>0, <2>3 DEF AssessExitCode, Running, Killed
    <3>2. requests[a] = input[e].request /\ snapshots[a] = NoRow
      BY <2>0, <3>1 DEF OwnRows
    <3>3. PICK c \in attempts : EndedBy(e, c)
      BY <2>0, <3>1 DEF OwnRows
    <3>4. without = {c}
      BY <3>3 DEF EndedBy
    <3>5. Cardinality(without) = 1
      BY <3>4, FS_Singleton
    <3> QED BY <2>0, <2>3, <3>2, <3>5, RowsBuildUp
  <2> QED BY <2>1, <2>2, <2>3
<1>2. KnownInv /\ AloneInv => AssessExitTellsStore
  BY <1>1 DEF AssessExitTellsStore
<1> QED BY <1>2, CommandsKeepAlone, PTL

-----------------------------------------------------------------------------
(* What becomes of a decide that submits the stored decision. *)

StandsFor(content) ==
  /\ decisions[content.assessment] # NoRow
  /\ decisions[content.assessment].content = content

\* Only a running decide is on its way.
DecidesIfBusy(r) == at[r] # "idle" => command[r] = "decide" /\ ended[r] = Running

Repeats(r) ==
  command[r] = "decide" /\ stood[r] =>
    /\ StandsFor(asked[r])
    /\ ended[r] = Running =>
         /\ at[r] = "verify" => repeated[r]
         /\ at[r] = "idle" => answer[r] \in {"exact_replay", "storage_error", "crashed"}
    /\ ended[r] # Running =>
         \/ ended[r] = 0 /\ printed[r].status = "exact_replay"
         \/ ended[r] = 5 /\ answer[r] = "storage_error"
         \/ ended[r] \in {1, Killed}

RepeatInv == \A r \in Reviewers : Asks(r) /\ DecidesIfBusy(r) /\ Repeats(r)

\* What a stored decision rests on can be read and verified: no second attempt was ever
\* stored that would make it ambiguous.
LEMMA StandingIsVerified ==
  ASSUME KnownInv, FirstAttemptsOnly, NEW a \in Assessments, decisions[a] # NoRow
  PROVE  SnapshotStatus(a) = "verified" /\ DecisionStatus(a) = "verified"
<1>0. DatabaseInv /\ requests[a] # NoRow /\ snapshots[a] # NoRow
  BY KnownParts DEF DatabaseInv, DecisionsAreValid
<1>1. \A k \in Kinds : EvidenceRows(a, k) # {}
  BY <1>0 DEF DatabaseInv, EvaluationRestsOnEvidence, RestsOn, EvidenceRows, HasEvidence,
     EvidenceOutcomes
<1>2. \A k \in Kinds : \A c, d \in EvidenceRows(a, k) : c = d
  BY <1>0 DEF FirstAttemptsOnly, EvidenceRows, DatabaseInv, AttemptsAreUnique
<1>3. EvidenceStatus(a) = "verified"
  BY <1>0, <1>1, <1>2 DEF EvidenceStatus
<1>4. SnapshotStatus(a) = "verified"
  BY <1>0, <1>3, NoSnapshotFails DEF SnapshotStatus, ReadErrors
<1> QED BY <1>0, <1>4, NoDecisionFails DEF DecisionStatus

LEMMA RepeatSurvives ==
  ASSUME AppendOnly, NEW r \in Reviewers, Asks(r), DecidesIfBusy(r), Repeats(r), Still(r),
         command'[r] = command[r], ended'[r] = ended[r], printed'[r] = printed[r],
         asked'[r] = asked[r], stood'[r] = stood[r]
  PROVE  DecidesIfBusy(r)' /\ Repeats(r)'
<1>1. \A content \in DecisionContent : content.assessment \in Assessments
  BY DEF DecisionContent
<1>2. command[r] = "decide" /\ StandsFor(asked[r]) => StandsFor(asked[r])'
  BY <1>1 DEF Asks, AppendOnly, StandsFor
<1> QED BY <1>2 DEF DecidesIfBusy, Repeats, Still

LEMMA DecideRepeats ==
  ASSUME KnownInv, NEW r \in Reviewers, NEW s \in Submissions,
         NEW v \in {seen[r], NoRow}, Decide(r, s, v)
  PROVE  DecidesIfBusy(r)' /\ Repeats(r)'
<1>0. CommandTypeOK /\ ReviewerTypeOK /\ r \in Terminals
  BY KnownParts, TwoKindsOfTerminal DEF Inv, ReviewerInv
<1>1. /\ command'[r] = "decide" /\ ended'[r] = Running /\ at'[r] = "load"
      /\ asked'[r] = submitted'[r] /\ decisions' = decisions
      /\ submitted'[r].assessment = subject[r]
      /\ stood'[r] <=> /\ decisions[subject[r]] # NoRow
                       /\ decisions[subject[r]].content = submitted'[r]
  BY <1>0 DEF Decide, Starts, BeginDecide, CommandTypeOK, ReviewerTypeOK, database
<1> QED BY <1>1 DEF DecidesIfBusy, Repeats, StandsFor

LEMMA EndsRepeat ==
  ASSUME KnownInv, NEW r \in Reviewers, DecidesIfBusy(r), Repeats(r),
         Write(r) \/ IsGone(r) \/ WriteFails(r)
  PROVE  DecidesIfBusy(r)' /\ Repeats(r)'
<1>0. CommandTypeOK /\ r \in Terminals
  BY KnownParts, TwoKindsOfTerminal
<1>1. /\ UNCHANGED <<vars, command, asked, stood>> /\ Worked(r) /\ ended[r] = Running
      /\ ended'[r] \in {1, Killed} \/ Write(r)
  BY <1>0 DEF Write, IsGone, WriteFails, Ends, Worked, CommandTypeOK
<1>2. UNCHANGED <<decisions, at, answer>>
  BY <1>1 DEF vars, database, reviewerState
<1>3. at[r] = "idle"
  BY <1>1 DEF DecidesIfBusy, Worked
<1>4. DecidesIfBusy(r)'
  BY <1>2, <1>3 DEF DecidesIfBusy
<1>5. ASSUME command[r] = "decide", stood[r]
      PROVE  Repeats(r)'
  <2>1. StandsFor(asked[r])' /\ answer[r] \in {"exact_replay", "storage_error", "crashed"}
    BY <1>1, <1>2, <1>3, <1>5 DEF Repeats, StandsFor
  <2>2. CASE ended'[r] \in {1, Killed}
    BY <1>1, <2>1, <2>2 DEF Repeats, Running, Killed
  <2>3. CASE Write(r)
    <3>1. /\ answer[r] # "crashed" /\ ExitCode(r) = ReviewerExitCode(answer[r])
          /\ ended'[r] = ReviewerExitCode(answer[r]) /\ printed'[r] = DocumentOf(r)
      BY <1>0, <1>5, <2>3 DEF Write, Ends, CommandTypeOK, ExitCode, Outcome
    <3>2. CASE answer[r] = "exact_replay"
      <4>1. ended'[r] = 0 /\ printed'[r] = DecisionDocument(r)
        BY <1>5, <3>1, <3>2 DEF ReviewerExitCode, DocumentOf
      <4>2. printed'[r].status = "exact_replay"
        BY <3>2, <4>1 DEF DecisionDocument
      <4> QED BY <2>1, <4>1, <4>2 DEF Repeats, Running
    <3>3. CASE answer[r] = "storage_error"
      <4>1. ended'[r] = 5
        BY <3>1, <3>3 DEF ReviewerExitCode
      <4> QED BY <1>2, <2>1, <3>3, <4>1 DEF Repeats, Running
    <3> QED BY <2>1, <3>1, <3>2, <3>3
  <2> QED BY <1>1, <2>2, <2>3
<1> QED BY <1>1, <1>4, <1>5 DEF Repeats

LEMMA RunsRepeat ==
  ASSUME KnownInv, FirstAttemptsOnly, AppendOnly, NEW r \in Reviewers,
         Asks(r), DecidesIfBusy(r), Repeats(r),
         ReviewerAdvance(r) \/ ReviewFault(r), UNCHANGED commandState
  PROVE  DecidesIfBusy(r)' /\ Repeats(r)'
<1> DEFINE a == submitted[r].assessment
<1>0. ReviewerTypeOK /\ Informed(r) /\ DatabaseInv
  BY KnownParts DEF Inv, ReviewerInv, KnownInv, SystemInv, RecordInv
<1>1. at[r] # "idle"
  BY DEF ReviewerAdvance, DecideRefused, LoadForDecision, PersistDecision, VerifyDecision,
     ReviewFault, ReviewerFault
<1>2. /\ command' = command /\ ended' = ended /\ asked' = asked /\ stood' = stood
      /\ command[r] = "decide" /\ ended[r] = Running /\ submitted[r] = asked[r]
      /\ a \in Assessments
  BY <1>0, <1>1 DEF commandState, DecidesIfBusy, Asks, Informed
<1>3. DecidesIfBusy(r)'
  BY <1>2 DEF DecidesIfBusy
<1>4. ASSUME stood[r]
      PROVE  Repeats(r)'
  <2>1. StandsFor(asked[r]) /\ StandsFor(asked[r])' /\ decisions[a] # NoRow
    BY <1>2, <1>4 DEF Repeats, AppendOnly, StandsFor
  <2>2. SnapshotStatus(a) = "verified" /\ DecisionStatus(a) = "verified"
    BY <1>2, <2>1, StandingIsVerified
  <2>3. CASE LoadForDecision(r)
    <3>1. decisions[a].content.evaluation = snapshots[a]
      BY <1>0, <1>2, <2>1 DEF DatabaseInv, DecisionsAreValid, ContentValid
    <3>2. at'[r] = "persist"
      BY <1>0, <1>2, <2>1, <2>2, <2>3, <3>1 DEF LoadForDecision, ReviewerTypeOK, StandsFor
    <3> QED BY <1>2, <2>1, <3>2 DEF Repeats
  <2>4. CASE \E t \in Times : PersistDecision(r, t)
    <3>1. PICK t \in Times : PersistDecision(r, t)
      BY <2>4
    <3>2. requests[a] # NoRow
      BY <1>0, <1>2, <2>1 DEF DatabaseInv, DecisionsAreValid
    <3>3. DecisionWrite(submitted[r], t) = "replayed"
      BY <1>2, <2>1, <2>2, <3>2 DEF DecisionWrite, RepeatedDecision, StandsFor
    <3>4. at'[r] = "verify" /\ repeated'[r]
      BY <1>0, <3>1, <3>3 DEF PersistDecision, ReviewerTypeOK
    <3> QED BY <1>2, <2>1, <3>4 DEF Repeats
  <2>5. CASE VerifyDecision(r)
    <3>1. at[r] = "verify" /\ decisions[a] = held[r] /\ repeated[r]
      BY <1>0, <1>2, <1>4, <2>5 DEF VerifyDecision, Informed, Repeats
    <3>2. Reply(r, "exact_replay")
      BY <2>2, <2>5, <3>1 DEF VerifyDecision
    <3>3. at'[r] = "idle" /\ answer'[r] = "exact_replay"
      BY <1>0, <3>2 DEF Reply, ReviewerTypeOK
    <3> QED BY <1>2, <2>1, <3>3 DEF Repeats
  <2>6. CASE ReviewFault(r)
    <3>1. at'[r] = "idle" /\ answer'[r] \in {"storage_error", "crashed"}
      BY <1>0, <2>6 DEF ReviewFault, ReviewerFault, Refuse, Reply, ReviewerTypeOK
    <3> QED BY <1>2, <2>1, <3>1 DEF Repeats
  <2>7. ~DecideRefused(r)
    BY <1>0, <1>2, <2>1 DEF DecideRefused, NothingStored, DatabaseInv, DecisionsAreValid
  <2> QED BY <2>3, <2>4, <2>5, <2>6, <2>7 DEF ReviewerAdvance
<1> QED BY <1>2, <1>3, <1>4 DEF Repeats

LEMMA RepeatInvIsInductive ==
  ASSUME KnownInv, FirstAttemptsOnly, RepeatInv, [CommandNext]_commandVars
  PROVE  RepeatInv'
<1> DEFINE Kept(q) == DecidesIfBusy(q)' /\ Repeats(q)'
           Moves(r) == \/ ReviewerAdvance(r) /\ UNCHANGED <<executorState, faults>>
                       \/ ReviewFault(r)
<1> USE DEF Kept
<1>0. AppendOnly /\ CommandTypeOK /\ ReviewerInv
  BY KnownInvIsInductive, KnownParts DEF Inv
<1>1. ASSUME NEW q \in Reviewers, Still(q), command'[q] = command[q], ended'[q] = ended[q],
             printed'[q] = printed[q], asked'[q] = asked[q], stood'[q] = stood[q]
      PROVE  Kept(q)
  BY <1>0, <1>1, RepeatSurvives DEF RepeatInv
<1>2. ASSUME UNCHANGED reviewerState
      PROVE  \A q \in Reviewers : Still(q)
  BY <1>2 DEF reviewerState, Still
<1>3. ASSUME NEW p \in Terminals, Write(p) \/ IsGone(p) \/ WriteFails(p)
      PROVE  \A q \in Reviewers : Kept(q)
  <2>1. PICK code, document : Ends(p, code, document)
    BY <1>3 DEF Write, IsGone, WriteFails
  <2>2. UNCHANGED <<command, asked, stood, reviewerState>>
    BY <2>1 DEF Ends, vars
  <2>3. \A q \in Reviewers : q # p => ended'[q] = ended[q] /\ printed'[q] = printed[q]
    BY <1>0, <2>1, TwoKindsOfTerminal DEF Ends, CommandTypeOK
  <2>4. \A q \in Reviewers : q # p => Kept(q)
    BY <1>1, <1>2, <2>2, <2>3
  <2>5. p \in Reviewers => Kept(p)
    BY <1>3, EndsRepeat DEF RepeatInv
  <2> QED BY <2>4, <2>5
<1>4. ASSUME NEW p \in Terminals, NEW c \in Commands \ {"decide"}, Starts(p, c) \/ Misuse(p),
             UNCHANGED <<asked, stood>>, \A q \in Reviewers : q # p => Still(q),
             p \in Reviewers => at'[p] = at[p]
      PROVE  \A q \in Reviewers : Kept(q)
  <2>1. p \in Reviewers => command'[p] # "decide" /\ ended[p] # Running
    BY <1>0, <1>4 DEF Starts, Misuse, CommandTypeOK
  <2>2. \A q \in Reviewers : q # p =>
          command'[q] = command[q] /\ ended'[q] = ended[q] /\ printed'[q] = printed[q]
    BY <1>0, <1>4, TwoKindsOfTerminal DEF Starts, Misuse, CommandTypeOK
  <2>3. \A q \in Reviewers : q # p => Kept(q)
    BY <1>1, <1>4, <2>2
  <2>4. p \in Reviewers => Kept(p)
    BY <1>4, <2>1 DEF RepeatInv, DecidesIfBusy, Repeats
  <2> QED BY <2>3, <2>4
<1>5. ASSUME NEW p \in Terminals, Misuse(p)
      PROVE  \A q \in Reviewers : Kept(q)
  <2>1. "misused" \in Commands \ {"decide"}
    BY DEF Commands
  <2>2. UNCHANGED <<asked, stood, reviewerState, at>>
    BY <1>5 DEF Misuse, vars, reviewerState
  <2> QED BY <1>2, <1>4, <1>5, <2>1, <2>2
<1>6. ASSUME NEW e \in Executors, NEW i \in ExecutionInputs, Assess(e, i)
      PROVE  \A q \in Reviewers : Kept(q)
  <2>1. "assess" \in Commands \ {"decide"} /\ e \in Terminals
    BY TwoKindsOfTerminal DEF Commands
  <2>2. Starts(e, "assess") /\ UNCHANGED <<asked, stood, reviewerState, at>>
    BY <1>6 DEF Assess, reviewerState
  <2> QED BY <1>2, <1>4, <2>1, <2>2
<1>7. ASSUME NEW r \in Reviewers, NEW a \in Assessments, ReviewCommand(r, a)
      PROVE  \A q \in Reviewers : Kept(q)
  <2>1. "review" \in Commands \ {"decide"} /\ r \in Terminals
    BY TwoKindsOfTerminal DEF Commands
  <2>2. ReviewerStep(r) /\ Starts(r, "review") /\ UNCHANGED <<asked, stood, at>>
    BY <1>7 DEF ReviewCommand, ReviewerStep, Review
  <2> QED BY <1>0, <1>4, <2>1, <2>2, OthersAreStill
<1>8. ASSUME NEW r \in Reviewers, Reject(r) \/ ReviewUnread(r)
      PROVE  \A q \in Reviewers : Kept(q)
  <2>1. {"rejected", "unread"} \subseteq Commands \ {"decide"} /\ r \in Terminals
    BY TwoKindsOfTerminal DEF Commands
  <2>2. /\ Starts(r, "rejected") \/ Starts(r, "unread")
        /\ UNCHANGED <<asked, stood, reviewerState, at>>
    BY <1>8 DEF Reject, ReviewUnread, vars, reviewerState
  <2> QED BY <1>2, <1>4, <2>1, <2>2
<1>9. ASSUME NEW r \in Reviewers, NEW s \in Submissions, NEW v \in {seen[r], NoRow},
             Decide(r, s, v)
      PROVE  \A q \in Reviewers : Kept(q)
  <2>1. ReviewerStep(r) /\ r \in Terminals
    BY <1>9, TwoKindsOfTerminal DEF Decide, ReviewerStep
  <2>2. \A q \in Reviewers : q # r =>
          /\ command'[q] = command[q] /\ ended'[q] = ended[q] /\ printed'[q] = printed[q]
          /\ asked'[q] = asked[q] /\ stood'[q] = stood[q]
    BY <1>0, <1>9, TwoKindsOfTerminal DEF Decide, Starts, CommandTypeOK
  <2>3. \A q \in Reviewers : q # r => Kept(q)
    BY <1>0, <1>1, <2>1, <2>2, OthersAreStill
  <2> QED BY <1>9, <2>3, DecideRepeats
<1>10. ASSUME UNCHANGED commandState, NEW r \in Reviewers, Moves(r)
       PROVE  \A q \in Reviewers : Kept(q)
  <2>1. ReviewerStep(r) \/ ReviewFault(r)
    BY <1>10 DEF ReviewerStep
  <2>2. \A q \in Reviewers : q # r => Kept(q)
    BY <1>0, <1>1, <1>10, <2>1, OthersAreStill DEF commandState
  <2>3. Kept(r)
    BY <1>0, <1>10, RunsRepeat DEF RepeatInv
  <2> QED BY <2>2, <2>3
<1>11. ASSUME UNCHANGED commandState, UNCHANGED reviewerState
       PROVE  \A q \in Reviewers : Kept(q)
  BY <1>1, <1>2, <1>11 DEF commandState
<1>12. ASSUME \/ \E e \in Executors : AssessProceeds(e)
              \/ \E r \in Reviewers : DecideProceeds(r)
              \/ CommandFault
              \/ UNCHANGED commandVars
       PROVE  \A q \in Reviewers : Kept(q)
  BY <1>10, <1>11, <1>12 DEF AssessProceeds, DecideProceeds, CommandFault, ExecutorFault,
     commandVars, vars
<1>13. \A q \in Reviewers : Kept(q)
  BY <1>3, <1>5, <1>6, <1>7, <1>8, <1>9, <1>12 DEF CommandNext, Proceeds
<1>14. AskInv'
  BY AskInvIsInductive DEF KnownInv, AskInv, RepeatInv
<1> QED BY <1>13, <1>14 DEF RepeatInv, AskInv

\* A decision that is stored, be it that its command could not say so, is confirmed to
\* whoever submits it again, or a fault stops the answer: it is never taken for a conflict,
\* never for an invalid or a missing one.
THEOREM RepeatedDecideIsAnswered == CommandSpec => []RepeatIsAnswered
<1>1. CommandInit => RepeatInv
  BY TwoKindsOfTerminal
     DEF CommandInit, Init, ReviewerInit, RepeatInv, Asks, DecidesIfBusy, Repeats
<1>2. KnownInv /\ AloneInv /\ RepeatInv /\ [CommandNext]_commandVars => RepeatInv'
  BY RepeatInvIsInductive DEF AloneInv
<1>3. RepeatInv => RepeatIsAnswered
  BY DEF RepeatInv, Repeats, RepeatIsAnswered
<1> QED BY <1>1, <1>2, <1>3, CommandsKeepAlone, PTL DEF CommandSpec
=============================================================================
