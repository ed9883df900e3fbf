---------------------------- MODULE MCReconciler ----------------------------
(***************************************************************************)
(* The deployments of main.go: an image, and how many replicas are up.  A  *)
(* deployment of image a takes two looks to be ready, one of image b takes *)
(* one, and the foreign image x never is.                                  *)
(***************************************************************************)
EXTENDS Reconciler, TLC

MCConverge ==
  "a0" :> "a1" @@ "a1" :> "a2" @@ "a2" :> "a2" @@
  "b0" :> "b2" @@ "b2" :> "b2" @@ "x0" :> "x0"
MCManifests == DOMAIN MCConverge
MCSpecs     == {"a0", "b0"}
MCReady     == {"a2", "b2"}

\* Another image than the desired one.
MCDrifts == ({"a0"} \X {"b0", "b2", "x0"}) \cup ({"b0"} \X {"a0", "a1", "a2", "x0"})

=============================================================================
