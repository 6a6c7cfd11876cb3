SPECIFICATION Spec
CONSTANTS
  Calls = {c1}
  None = None
  Actions <- MCActions
  ActionPolicies <- MCPolicies
  Payloads <- MCPayloads
  Valid <- MCValid
  Requests <- MCTwoRequests
  ConfirmTtl = 2
  CapabilityTtl = 1
  Execute = TRUE
  Unencodable = {}
  Confirming = {c1}
  MaxTime = 1
  MaxFaults = 1
INVARIANT ProvenanceIsConfirmed
CHECK_DEADLOCK FALSE
