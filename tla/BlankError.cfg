SPECIFICATION Spec
CONSTANTS
  u1 = u1
  u2 = u2
  u3 = u3
  u4 = u4
  Updates <- MCTwo
  Requests <- MCRequests
  ReqOf <- MCDistinct
  LabelUpdates <- MCLabelUpdates
  PatchOf <- MCPatchOf
  LabelKeys = {"env"}
  LabelValues = {"dev", "prod", "test"}
  InitLabels <- MCInitLabels
  UserPatches <- MCNoPatches
  TickPatches <- MCNoPatches
  Outcomes = {"ok", "err", "blank"}
  CompletedOpsCap = 2
  MaxInFlight = 2
  ForceCANEvery = 2
  HasInit = FALSE
  HasFinalize = TRUE
  HasReconcile = TRUE
  UseSearchAttrs = TRUE
  AllowSuggest = TRUE
  AllowCancel = FALSE
  AllowOverlap = FALSE
INVARIANTS
  AnswerTruthful
