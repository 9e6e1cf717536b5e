CONSTANTS
  Name <- MCName
  Schema <- MCSchema
  Constraints <- MCConstraints
  Endpoint <- MCEndpoint
  NotObject = NotObject
  NoDefault = NoDefault
  Nothing = Nothing
SPECIFICATION Spec
INVARIANTS
  RequestFitsSchema
  AgreeingToolIsCalled
CHECK_DEADLOCK FALSE
