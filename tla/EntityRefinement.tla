--------------------------- MODULE EntityRefinement ---------------------------
(* The chassis loop, run after run, implements the abstract lifecycle. *)
EXTENDS EntityLoop

Stage ==
  CASE pc = "closed" -> "over"
    [] pc # "closed" -> phase

Effect ==
  CASE pc \in {"init_wait", "init_drain"} -> "init"
    [] pc = "exec" -> "command"
    [] pc = "tick" -> "tick"
    [] pc = "finalizing" -> "finalize"
    [] OTHER -> "none"

Queue == IF pc = "exec" THEN <<cur>> \o pending ELSE pending

Lifecycle == INSTANCE EntityLifecycle WITH
  Calls <- Updates, MayInterrupt <- AllowCancel,
  stage <- Stage, effect <- Effect, queue <- Queue, open <- Waiting

\* Side effects are serialized, commands execute in acceptance order, the
\* finalizer waits for every caller, and Continue-as-New does not show: every
\* step of the loop is a step of the lifecycle or invisible to it.
ImplementsLifecycle == Lifecycle!Spec

=============================================================================
