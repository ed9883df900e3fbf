SPECIFICATION FairSpec
CONSTANTS
  u1 = u1
  u2 = u2
  u3 = u3
  u4 = u4
  Updates <- MCTwo
  Requests <- MCRequests
  ReqOf <- MCDistinct
  LabelUpdates <- MCLabelUpdates
  PatchOf <- MCPatchOf
  LabelKeys = {"env"}
  LabelValues = {"dev", "prod", "test"}
  InitLabels <- MCInitLabels
  UserPatches <- MCNoPatches
  TickPatches <- MCUserPatches
  Outcomes = {"ok", "err"}
  CompletedOpsCap = 2
  MaxInFlight = 2
  ForceCANEvery = 0
  HasInit = FALSE
  HasFinalize = TRUE
  HasReconcile = TRUE
  UseSearchAttrs = TRUE
  AllowSuggest = FALSE
  AllowCancel = FALSE
  AllowOverlap = FALSE
PROPERTIES
  MirrorFollows
