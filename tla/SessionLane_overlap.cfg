SPECIFICATION Spec
CONSTANTS
  Requests = {r1, r2, r3}
  NoRequest = NoRequest
  Configs <- Followup
INVARIANT OneActiveRun
CHECK_DEADLOCK FALSE
