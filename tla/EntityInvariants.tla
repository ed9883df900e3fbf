--------------------------- MODULE EntityInvariants ---------------------------
(***************************************************************************)
(* Inductive invariants of the chassis loop: what has to be known of every *)
(* reachable state for the safety properties of EntityLoop to follow.      *)
(***************************************************************************)
EXTENDS EntityLoop

\* Where the root may be in which phase.  Only a created entity serves, and a
\* creation that was broken off leads to deletion only.
PhaseInv ==
  /\ pc \in {"init_wait", "init_drain"} => ~initialized /\ phase = "creating"
  /\ pc \in {"idle", "exec", "tick", "can_wait"} => initialized
  /\ pc = "loop" => initialized \/ marked
  /\ initialized /\ pc \in {"start", "loop", "idle", "exec", "tick", "can_wait"}
       => phase = "ready"
  /\ pc \in {"deleting", "finalizing"} => marked /\ phase = "deleting"
  /\ phase \in {"deleted", "delete_failed"} => pc = "closed"
  /\ pc = "closed" => task = "gather"

\* Init was not called before the run that has to call it, and goes on only
\* while the root waits for it or in an entity that an operator closed.
CreationInv ==
  /\ inits <= 1
  /\ pc = "start" /\ ~initialized => inits = 0
  /\ initRes = "running" =>
       /\ pc \in {"init_wait", "init_drain", "closed"}
       /\ phase \notin {"deleted", "delete_failed"}

\* A closed entity leaves nobody waiting, and the finalizer meets nobody.
DrainInv ==
  /\ pc = "closed" => Waiting = {}
  /\ pc = "finalizing" \/ phase \in {"deleted", "delete_failed"} =>
       pending = <<>> /\ Waiting = {}
  /\ \A u \in Updates : upd[u] = "abandoned" =>
       pc = "closed" /\ phase \notin {"deleted", "delete_failed"}

LifecycleInv == TypeOK /\ PhaseInv /\ CreationInv /\ DrainInv

-----------------------------------------------------------------------------
(* For clients that send a request again only after its answer. *)

\* The command of u is in the hands of the main loop.
Held(u) == InQueue(u) \/ (pc = "exec" /\ cur = u)

HeldCount == Len(pending) + (IF pc = "exec" THEN 1 ELSE 0)

\* Every command held has a caller waiting for it, its request is not in the
\* cache, and it is held once; no two callers wait for the same request.
HeldInv ==
  /\ \A u \in Updates : Held(u) => u \in Waiting /\ ReqOf[u] \notin DOMAIN completed
  /\ \A i, j \in DOMAIN pending : pending[i] = pending[j] => i = j
  /\ pc = "exec" => ~InQueue(cur)
  /\ \A u, v \in Waiting : ReqOf[u] = ReqOf[v] => u = v

\* A caller whose command is not held any more finds its result in the cache,
\* and the commands still held are too few to evict it.
ServedInv ==
  \A u \in Waiting : ~Held(u) =>
    \E k \in DOMAIN order :
      order[k] = ReqOf[u] /\ Len(order) - k + HeldCount < MaxInFlight

\* Recorded results are read before the next events are delivered.
ReadInv == task = "gather" => \A u \in Waiting : ReqOf[u] \notin DOMAIN completed

\* The root waits for its handlers within a task only, and Continue-as-New
\* with an empty queue.
WaitInv ==
  /\ pc \in {"deleting", "can_wait"} => task # "gather"
  /\ pc = "can_wait" => pending = <<>>

ServeInv == HeldInv /\ ServedInv /\ ReadInv /\ HeldCount <= MaxInFlight

\* A run that was cancelled serves nobody any more.
ServiceInv == WaitInv /\ (cancelled \/ pc = "closed" \/ ServeInv)

\* When ticks set no labels, only a command's handler leaves labels unmirrored,
\* and not beyond its end.
DirtyInv == dirty => pc = "exec"

-----------------------------------------------------------------------------
(* The beginning of a run and the end of an entity *)

\* A run begins with an entity never touched or with one created, the main loop
\* meets one created or one whose creation broke off, and only an operator
\* cancels a workflow.
StartInv ==
  /\ pc = "start" /\ ~initialized => phase = "new"
  /\ pc = "loop" /\ ~initialized => phase = "creating"
  /\ cancelled => AllowCancel

EndPhases == {"deleting", "deleted", "delete_failed"}
EndControls == {"deleting", "finalizing", "closed"}

-----------------------------------------------------------------------------
(* What is recorded of the past *)

\* Visibility lags behind the entity only where labels are dirty or the first
\* run has not begun: what Continue-as-New hands over is already shown.
MirrorInv ==
  UseSearchAttrs /\ ~dirty /\ (pc = "start" => initialized) =>
    mirror = [phase |-> phase, labels |-> labels]

\* The answer a to a request r is true: the deletion rejected it, or an
\* execution of it ended that way.
Truth(r, a) ==
  \/ a = "deleted" /\ phase \in EndPhases
  \/ \E i \in DOMAIN log : log[i].req = r /\ log[i].outcome = a

\* Not only what callers were told, all that the cache may tell them is true.
TruthInv ==
  /\ \A r \in DOMAIN completed : Truth(r, UpdateResult(completed[r]))
  /\ \A u \in Updates : upd[u] = "answered" => Truth(ReqOf[u], answer[u])

\* Until deletion begins, the cache lists the requests of the last executions,
\* oldest first: all of them, or as many as it holds.
RecentInv ==
  pc \notin EndControls =>
    /\ Len(order) <= Len(log)
    /\ Len(order) = Len(log) \/ Len(order) = CompletedOpsCap
    /\ \A k \in DOMAIN order : order[k] = log[Len(log) - Len(order) + k].req

=============================================================================
