\* A terminal that assesses beside one that reviews and decides, or beside another that
\* assesses: faults, kills, failed outputs.
SPECIFICATION PairSpec
CONSTANTS
  NoRow = NoRow
  NoValue = NoValue
  NoDecision = NoDecision
  InvalidRequest = InvalidRequest
  Executors = {e1, e2}
  Reviewers = {r1}
  Assessments = {"a", "b"}
  Kinds <- MCKinds
  CollectionOrder <- MCOrder
  AttemptIds <- MCIds
  WorkflowAttemptId <- MCWorkflowIds
  AttemptNumbers = {1}
  Repositories = {"repo"}
  Actors = {"lead", "other"}
  Contexts = {"c1"}
  Values = {"late"}
  Rationales = {"why"}
  Times = {1, 2}
  SourceTime <- MCSourceTime
  Passes <- MCPasses
  ExecutionInputs <- MCAllInputs
  Responses <- MCCommandResponses
  Submissions <- MCDisputed
  LibraryCollections = {}
  MaxFaults = 1
  MaxOutages = 1
INVARIANTS
  AssessMeetsNobody
  AssessExitTellsStore
  CommandTypeOK
  PrintedIsStored
  DecideExitTellsDecision
  RepeatIsAnswered
PROPERTIES
  EveryCommandEnds
