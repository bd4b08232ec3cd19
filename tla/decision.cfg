\* Two reviewers decide one assessment while it is executed and reviewed.
SPECIFICATION Spec
CONSTANTS
  NoRow = NoRow
  NoValue = NoValue
  NoDecision = NoDecision
  InvalidRequest = InvalidRequest
  Executors = {e1}
  Reviewers = {r1, r2}
  Assessments = {"a"}
  Kinds <- MCKinds
  CollectionOrder <- MCOrder
  AttemptIds <- MCIds
  WorkflowAttemptId <- MCWorkflowIds
  AttemptNumbers = {1}
  Repositories = {"repo"}
  Actors = {"lead", "other"}
  Contexts = {"c1"}
  Values = {"good"}
  Rationales = {"why", "since"}
  Times = {1, 2}
  SourceTime <- MCSourceTime
  Passes <- MCPasses
  ExecutionInputs <- MCOneInput
  Responses <- MCDecideResponses
  Submissions <- MCSubmissions
  LibraryCollections = {}
  MaxFaults = 1
SYMMETRY Symmetric
INVARIANTS
  DecisionBindsEvaluation
  RecordedOnce
PROPERTIES
  LedgerImplemented
