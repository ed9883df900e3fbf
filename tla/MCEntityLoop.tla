---------------------------- MODULE MCEntityLoop ----------------------------
(* Values for the constants of EntityLoop: small instances for TLC. *)
EXTENDS EntityRefinement, EntityInvariants, TLC

CONSTANTS u1, u2, u3, u4    \* updates: u4 is a set-labels, the others commands

MCAll == {u1, u2, u3, u4}
MCTwo == {u1, u4}
MCLabelUpdates == {u4}
MCPatchOf == u4 :> ("env" :> "prod")

\* Each update has a request id of its own.
MCDistinct == [u \in Updates |->
  CASE u = u1 -> "r1" [] u = u2 -> "r2" [] u = u3 -> "r3" [] u = u4 -> "r4"]

\* u3 sends the request of u1 again.
MCRepeated == [u \in Updates |-> IF u = u3 THEN "r1" ELSE MCDistinct[u]]

MCRequests == {"r1", "r2", "r3", "r4"}
MCNoPatches == {}
MCInitLabels == "env" :> "dev"
MCUserPatches == {"env" :> "test", "env" :> ""}

=============================================================================
