SPECIFICATION FairSpec
CONSTANTS
  Calls = {c1, c2}
  None = None
  Actions <- MCActions
  ActionPolicies <- MCPolicies
  Payloads <- MCPayloads
  Valid <- MCValid
  Requests <- MCRequests
  ConfirmTtl = 2
  CapabilityTtl = 1
  Unencodable <- MCUnencodable
  Execute = TRUE
  Confirming = {c1}
  MaxTime = 2
  MaxFaults = 1
INVARIANTS ApprovedOnce OneExecutor RefusalIsFinal AnswerIsRecorded OneRecord PendingIsLive
PROPERTIES RunsAsApproved ImplementsConfirmedExecution EveryCallAnswered
CHECK_DEADLOCK FALSE
