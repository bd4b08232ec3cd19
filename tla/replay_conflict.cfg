\* The documented exact replay, submitted by two executors at once.
SPECIFICATION Spec
CONSTANTS
  NoRow = NoRow
  NoValue = NoValue
  NoDecision = NoDecision
  InvalidRequest = InvalidRequest
  Executors = {e1, e2}
  Reviewers = {}
  Assessments = {"a"}
  Kinds <- MCKinds
  CollectionOrder <- MCOrder
  AttemptIds <- MCIds
  WorkflowAttemptId <- MCWorkflowIds
  AttemptNumbers = {1}
  Repositories = {"repo"}
  Actors = {"lead"}
  Contexts = {"c1"}
  Values = {"good"}
  Rationales = {"why"}
  Times = {1, 2}
  SourceTime <- MCSourceTime
  Passes <- MCPasses
  ExecutionInputs <- MCOneInput
  Responses <- MCOneResponse
  Submissions = {}
  LibraryCollections = {}
  MaxFaults = 0
SYMMETRY Symmetric
PROPERTIES
  ExactReplayIsNotRefused
