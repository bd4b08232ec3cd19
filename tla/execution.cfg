\* Two executors race on one assessment; crashes and storage faults anywhere.
SPECIFICATION Spec
CONSTANTS
  NoRow = NoRow
  NoValue = NoValue
  NoDecision = NoDecision
  InvalidRequest = InvalidRequest
  Executors = {e1, e2}
  Reviewers = {}
  Assessments = {"a"}
  Kinds <- MCKinds
  CollectionOrder <- MCOrder
  AttemptIds <- MCIds
  WorkflowAttemptId <- MCWorkflowIds
  AttemptNumbers = {1}
  Repositories = {"repo"}
  Actors = {"lead"}
  Contexts = {"c1", "c2"}
  Values = {"good", "late"}
  Rationales = {"why"}
  Times = {1, 2}
  SourceTime <- MCSourceTime
  Passes <- MCPasses
  ExecutionInputs <- MCInputs
  Responses <- MCResponses
  Submissions = {}
  LibraryCollections = {}
  MaxFaults = 2
SYMMETRY Symmetric
INVARIANTS
  TypeOK
  EvaluationRestsOnEvidence
  CompletionIsDurable
  OneCollectionRun
  NoFalseCorruption
PROPERTIES
  HistoryIsAppendOnly
