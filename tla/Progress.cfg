SPECIFICATION FairSpec
CONSTANTS
  u1 = u1
  u2 = u2
  u3 = u3
  u4 = u4
  Updates <- MCTwo
  Requests <- MCRequests
  ReqOf <- MCDistinct
  LabelUpdates <- MCLabelUpdates
  PatchOf <- MCPatchOf
  LabelKeys = {"env"}
  LabelValues = {"dev", "prod", "test"}
  InitLabels <- MCInitLabels
  UserPatches <- MCUserPatches
  TickPatches <- MCNoPatches
  Outcomes = {"ok", "err"}
  CompletedOpsCap = 2
  MaxInFlight = 2
  ForceCANEvery = 2
  HasInit = TRUE
  HasFinalize = TRUE
  HasReconcile = TRUE
  UseSearchAttrs = TRUE
  AllowSuggest = TRUE
  AllowCancel = TRUE
  AllowOverlap = FALSE
INVARIANTS
  FinalizesAlone
  DeletionAnswersAll
  MirrorFresh
PROPERTIES
  ImplementsLifecycle
  CanHandsOverNoWork
  MarkedCloses
  WaiterAnswered
  SuggestionFollowed
  MirrorFollows
