\* Recovery: crashes and lost locks must not keep a registered request unevaluated.
SPECIFICATION FairSpec
CONSTANTS
  NoRow = NoRow
  NoValue = NoValue
  NoDecision = NoDecision
  InvalidRequest = InvalidRequest
  Executors = {e1, e2}
  Reviewers = {}
  Assessments = {"a"}
  Kinds <- MCKinds
  CollectionOrder <- MCOrder
  AttemptIds <- MCIds
  WorkflowAttemptId <- MCWorkflowIds
  AttemptNumbers = {1}
  Repositories = {"repo"}
  Actors = {"lead"}
  Contexts = {"c1"}
  Values = {"good"}
  Rationales = {"why"}
  Times = {1, 2}
  SourceTime <- MCSourceTime
  Passes <- MCPasses
  ExecutionInputs <- MCOneInput
  Responses <- MCOneResponse
  Submissions = {}
  LibraryCollections = {}
  MaxFaults = 2
PROPERTIES
  RequestedIsEvaluated
