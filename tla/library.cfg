\* Direct persister calls beside an executor of two assessments.
SPECIFICATION Spec
CONSTANTS
  NoRow = NoRow
  NoValue = NoValue
  NoDecision = NoDecision
  InvalidRequest = InvalidRequest
  Executors = {e1}
  Reviewers = {}
  Assessments = {"a", "b"}
  Kinds <- MCKinds
  CollectionOrder <- MCOrder
  AttemptIds <- MCLibraryIds
  WorkflowAttemptId <- MCWorkflowIds
  AttemptNumbers = {1, 2}
  Repositories = {"repo", "fork"}
  Actors = {"lead"}
  Contexts = {"c1"}
  Values = {"good"}
  Rationales = {"why"}
  Times = {1, 2}
  SourceTime <- MCSourceTime
  Passes <- MCPasses
  ExecutionInputs <- MCTwoAssessments
  Responses <- MCLibraryResponses
  Submissions = {}
  LibraryCollections <- MCLibraryCollections
  MaxFaults = 1
SYMMETRY Symmetric
INVARIANTS
  AttemptsAreUnique
  StoredEvaluationStaysReadable
PROPERTIES
  LedgerImplemented
