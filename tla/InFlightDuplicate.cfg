SPECIFICATION Spec
CONSTANTS
  u1 = u1
  u2 = u2
  u3 = u3
  u4 = u4
  Updates <- MCAll
  Requests <- MCRequests
  ReqOf <- MCRepeated
  LabelUpdates <- MCLabelUpdates
  PatchOf <- MCPatchOf
  LabelKeys = {"env"}
  LabelValues = {"dev", "prod", "test"}
  InitLabels <- MCInitLabels
  UserPatches <- MCNoPatches
  TickPatches <- MCNoPatches
  Outcomes = {"ok", "err"}
  CompletedOpsCap = 4
  MaxInFlight = 4
  ForceCANEvery = 2
  HasInit = TRUE
  HasFinalize = TRUE
  HasReconcile = TRUE
  UseSearchAttrs = TRUE
  AllowSuggest = TRUE
  AllowCancel = FALSE
  AllowOverlap = TRUE
INVARIANTS
  RequestExecutesOnce
