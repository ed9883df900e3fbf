SPECIFICATION Spec
CONSTANTS
  Web = "web"
  Green = "green"
  Manifests <- MCManifests
  Converge <- MCConverge
  MaxAttempts = 2
  SlowDelete = TRUE
  Lingering = TRUE
  Disturbances = 3
  Specs <- MCSpecs
  ReadyOnes <- MCReady
  Drifts <- MCDrifts
  PollAttempts = 2
  MaxCommands = 2
INVARIANTS
  NoOrphan
