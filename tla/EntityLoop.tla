----------------------------- MODULE EntityLoop -----------------------------
(***************************************************************************)
(* One entity: the workflow function of pkg/entdefine/loop.go, its update  *)
(* handlers and its delete signal, run after run under one workflow ID.    *)
(*                                                                         *)
(* The workflow runtime is external.  What the code relies on, and what    *)
(* is modelled of it, is its scheduling: events (updates, signals, results *)
(* of activities, timers) gather while the workflow is blocked; then one   *)
(* workflow task delivers them all and runs the coroutines, one at a time  *)
(* and in a fixed order, until every one of them is blocked again.  A pass *)
(* over the coroutines runs the update handlers, then the root (the main   *)
(* loop), then the delete signal's coroutine and the one of Init.  A       *)
(* worker crash replays the task from the same events and is a stutter.    *)
(***************************************************************************)
EXTENDS Wire, FiniteSets

CONSTANTS
  Updates,        \* the update calls that may reach the entity
  Requests,       \* request ids
  ReqOf,          \* the request id each update carries
  LabelUpdates,   \* the updates that are set-labels; the others are commands
  PatchOf,        \* the label patch of each set-labels update
  LabelKeys, LabelValues,
  InitLabels,     \* the labels given at creation
  UserPatches,    \* the SetLabel calls a command handler may make
  TickPatches,    \* the SetLabel calls a reconcile tick may make
  Outcomes,       \* how user code may end: "ok", "err", or "blank"
  MaxInFlight,    \* the server's limit on unfinished updates of a workflow
  ForceCANEvery,  \* WithForceCANEveryNCommands; 0 is off
  HasInit, HasFinalize, HasReconcile, UseSearchAttrs,  \* the Definition
  AllowSuggest,   \* may the server suggest Continue-as-New?
  AllowCancel,    \* may an operator cancel the workflow from outside?
  AllowOverlap    \* may a client send a request again while it is in flight?

\* Go maps: functions on a subset of the keys.
Maps(keys, values) == UNION {[K -> values] : K \in SUBSET keys}

LabelMaps == Maps(LabelKeys, LabelValues)
Patches   == Maps(LabelKeys, LabelValues \cup {""})

ASSUME EntityLoopAssumption ==
  /\ IsFiniteSet(Updates)
  /\ ReqOf \in [Updates -> Requests]
  /\ LabelUpdates \subseteq Updates
  /\ PatchOf \in [LabelUpdates -> Patches]
  /\ "" \notin LabelValues
  /\ InitLabels \in LabelMaps
  /\ UserPatches \subseteq Patches /\ TickPatches \subseteq Patches
  /\ Outcomes \subseteq {"ok", "err", "blank"}
  /\ MaxInFlight \in Nat \ {0}
  /\ ForceCANEvery \in Nat
  /\ {HasInit, HasFinalize, HasReconcile, UseSearchAttrs,
      AllowSuggest, AllowCancel, AllowOverlap} \subseteq BOOLEAN

\* The server admits no more unfinished updates than the cache can answer.
ASSUME InFlightFitsCache == MaxInFlight <= CompletedOpsCap

None == "none"

VARIABLES
  \* The Envelope: all that survives Continue-as-New.
  initialized, phase, labels, marked,
  pending,        \* queued commands, as the updates that queued them
  completed, order,
  \* Local to a run.
  dirty,          \* Ctx.labelsDirty
  processed,      \* processedThisRun
  suggested,      \* GetContinueAsNewSuggested
  deleteBuf,      \* a delete signal is buffered in its channel
  cancelled,      \* the root context is cancelled
  initRes,        \* what user Init has come to: none, running, ok, err
  initDone,
  \* Control.
  task,           \* gather, or whose turn it is: handlers, root
  pc, cur,        \* where the root is, and the command it executes
  ready,          \* what the root awaits of user code, or its timer, has come
  \* The callers, and what visibility shows.
  upd, answer, mirror,
  \* History.
  log,            \* the executions so far: request and outcome
  inits,          \* how many times Init was called
  asked           \* a Delete call was accepted by the server

life     == <<initialized, phase, marked>>
cache    == <<completed, order>>
tags     == <<labels, dirty, mirror>>
inbox    == <<suggested, deleteBuf, cancelled>>
creation == <<initRes, initDone>>
callers  == <<upd, answer>>
history  == <<log, inits, asked>>
vars == <<life, cache, tags, pending, processed, inbox, creation,
          task, pc, cur, ready, callers, history>>

\* What no event changes by being delivered.
machine == <<life, cache, tags, processed, initDone, pc, cur, log, inits>>

Phases == {"new", "creating", "ready", "create_failed",
           "deleting", "deleted", "delete_failed"}
UserCode == {"exec", "tick", "finalizing"}    \* the root is in user code
Awaits   == {"init_wait", "init_drain", "deleting", "can_wait", "idle"}
Controls == {"start", "loop", "closed"} \cup UserCode \cup Awaits
Statuses == {"unsent", "waiting", "answered", "rejected", "canceled", "abandoned"}
Answers  == {None, "ok", "err", "deleted"}
Results  == Maps(Requests, {"", "err", "deleted"})   \* what may be recorded
Entries  == [req : Requests, outcome : {"ok", "err", "blank"}]

\* A slip: the outcome itself is recorded, a success too.
ErrTextOfSuccess(outcome) == outcome

\* OpResult.Err: the text of the error a command ended with.  An error whose
\* text is empty is recorded like a success.
ErrText(outcome) == IF outcome = "err" THEN "err" ELSE ""

\* A slip: the recorded error is ignored.
UpdateResultAlwaysOk(text) == "ok"

\* updateResult: what the caller reads in a recorded result.
UpdateResult(text) == IF text = "" THEN "ok" ELSE text

Waiting == {u \in Updates : upd[u] = "waiting"}
AllHandlersFinished == Waiting = {}

\* A waiting handler has something to return.
HandlerReady(u) ==
  u \in Waiting /\ (ReqOf[u] \in DOMAIN completed \/ cancelled)

\* A slip: the server's suggestion is not asked for.
CanWantedIfForced == ForceCANEvery > 0 /\ processed >= ForceCANEvery

CanWanted == suggested \/ (ForceCANEvery > 0 /\ processed >= ForceCANEvery)

\* processedThisRun saturates at ForceCANEvery: nothing tells it apart beyond.
Bump(n) == IF n < ForceCANEvery THEN n + 1 ELSE n

\* upsertSearchAttrs: the search attributes afterwards.
Upserted(p, l) ==
  IF UseSearchAttrs THEN [phase |-> p, labels |-> l] ELSE mirror

Init ==
  /\ initialized = FALSE /\ phase = "new" /\ marked = FALSE
  /\ labels = InitLabels /\ dirty = FALSE
  /\ mirror = [phase |-> "new", labels |-> <<>>]
  /\ pending = <<>> /\ completed = <<>> /\ order = <<>>
  /\ processed = 0 /\ suggested = FALSE
  /\ deleteBuf = FALSE /\ cancelled = FALSE
  /\ initRes = None /\ initDone = FALSE
  /\ task = "gather" /\ pc = "start" /\ cur = None /\ ready = FALSE
  /\ upd = [u \in Updates |-> "unsent"] /\ answer = [u \in Updates |-> None]
  /\ log = <<>> /\ inits = 0 /\ asked = FALSE

-----------------------------------------------------------------------------
(* Events that reach the entity while its coroutines are all blocked. *)

Gathering == task = "gather" /\ pc # "closed"

\* An update reaches a run whose handlers are registered.
Arrives(u) ==
  /\ Gathering /\ pc # "start" /\ upd[u] = "unsent"
  /\ Cardinality(Waiting) < MaxInFlight
  /\ AllowOverlap \/ \A v \in Waiting : ReqOf[v] # ReqOf[u]

\* The validator refuses it: the entity is being deleted, a patch does not
\* decode, or the command's own validator says no (never to a duplicate).
RejectUpdate(u) ==
  /\ Arrives(u)
  /\ marked \/ u \in LabelUpdates \/ ReqOf[u] \notin DOMAIN completed
  /\ upd' = [upd EXCEPT ![u] = "rejected"]
  /\ UNCHANGED <<machine, pending, inbox, initRes, task, ready, answer, asked>>

\* The handler finds the request completed and returns the cached result.
AnswerDuplicate(u) ==
  /\ Arrives(u) /\ ~marked
  /\ ReqOf[u] \in DOMAIN completed
  /\ upd' = [upd EXCEPT ![u] = "answered"]
  /\ answer' = [answer EXCEPT ![u] = UpdateResult(completed[ReqOf[u]])]
  /\ UNCHANGED <<machine, pending, inbox, initRes, task, ready, asked>>

\* The handler queues the command and awaits its result; under a cancelled
\* context the wait fails at once, and the command stays queued.
EnqueueUpdate(u) ==
  /\ Arrives(u) /\ ~marked
  /\ ReqOf[u] \notin DOMAIN completed
  /\ pending' = Append(pending, u)
  /\ upd' = [upd EXCEPT ![u] = IF cancelled THEN "canceled" ELSE "waiting"]
  /\ UNCHANGED <<machine, inbox, initRes, task, ready, answer, asked>>

\* Delete: the signal is buffered until the delete coroutine takes it.
DeliverDelete ==
  /\ Gathering
  /\ deleteBuf' = TRUE /\ asked' = TRUE
  /\ UNCHANGED <<machine, pending, suggested, cancelled, initRes, task, ready, callers>>

DeliverCancel ==
  /\ AllowCancel /\ Gathering /\ ~cancelled
  /\ cancelled' = TRUE
  /\ UNCHANGED <<machine, pending, suggested, deleteBuf, initRes, task, ready, callers, asked>>

\* User Init gets what it awaited (or was cancelled) and comes to an end.
DeliverInit ==
  /\ Gathering /\ initRes = "running"
  /\ initRes' \in {"ok", "err"}
  /\ UNCHANGED <<machine, pending, inbox, task, ready, callers, asked>>

\* The user code the root is in gets the result it awaited.
DeliverResult ==
  /\ Gathering /\ pc \in UserCode /\ ~ready
  /\ ready' = TRUE
  /\ UNCHANGED <<machine, pending, inbox, initRes, task, callers, asked>>

\* The reconcile interval elapses.
DeliverTimer ==
  /\ Gathering /\ pc = "idle" /\ HasReconcile /\ ~ready
  /\ ready' = TRUE
  /\ UNCHANGED <<machine, pending, inbox, initRes, task, callers, asked>>

\* A workflow task starts, for these events or for one that changes nothing
\* (a note signal, whose coroutine only drains it).  The server may suggest
\* Continue-as-New from now on, but not to a run that has no history yet.
StartTask ==
  /\ Gathering
  /\ task' = "handlers"
  /\ suggested' \in {suggested, suggested \/ (AllowSuggest /\ pc # "start")}
  /\ UNCHANGED <<machine, pending, deleteBuf, cancelled, initRes, ready, callers, asked>>

-----------------------------------------------------------------------------
(* A workflow task: passes over the coroutines until all are blocked. *)

\* The condition the root's Await waits for, or the result its user code does.
Condition ==
  \/ pc \in {"start", "loop"}
  \/ pc \in UserCode /\ ready
  \/ pc = "init_wait" /\ (initDone \/ marked)
  \/ pc = "init_drain" /\ initDone
  \/ pc \in {"deleting", "can_wait"} /\ AllHandlersFinished
  \/ pc = "deleting" /\ pending # <<>>
  \/ pc = "idle" /\ (pending # <<>> \/ marked \/ CanWanted)

\* Await returns for its condition first, then for cancellation or the timer.
RootReady == \/ Condition
             \/ pc \in Awaits /\ cancelled
             \/ pc = "idle" /\ ready

\* The handler of u returns to its caller.
HandlerReturn(u) ==
  /\ task = "handlers" /\ HandlerReady(u)
  /\ IF ReqOf[u] \in DOMAIN completed
     THEN /\ upd' = [upd EXCEPT ![u] = "answered"]
          /\ answer' = [answer EXCEPT ![u] = UpdateResult(completed[ReqOf[u]])]
     ELSE /\ upd' = [upd EXCEPT ![u] = "canceled"]
          /\ UNCHANGED answer
  /\ UNCHANGED <<life, cache, tags, pending, processed, inbox, creation,
                 task, pc, cur, ready, history>>

\* Every handler is blocked or done: the root's turn.
RunRoot ==
  /\ task = "handlers" /\ ~\E u \in Updates : HandlerReady(u)
  /\ task' = "root"
  /\ UNCHANGED <<life, cache, tags, pending, processed, inbox, creation,
                 pc, cur, ready, callers, history>>

InitReturns == initRes \in {"ok", "err"} /\ ~initDone

\* The root is blocked: the delete coroutine takes its signals, Init's sets
\* initDone, and unless nothing came of it another pass begins.
Yield ==
  /\ task = "root" /\ ~RootReady /\ pc # "closed"
  /\ marked' = (marked \/ deleteBuf)
  /\ deleteBuf' = FALSE
  /\ initDone' = (initDone \/ InitReturns)
  /\ task' = IF deleteBuf \/ InitReturns \/ \E u \in Updates : HandlerReady(u)
             THEN "handlers" ELSE "gather"
  /\ UNCHANGED <<initialized, phase, cache, tags, pending, processed, suggested,
                 cancelled, initRes, pc, cur, ready, callers, history>>

-----------------------------------------------------------------------------
(* The root: the workflow function itself. *)

Root(where) == task = "root" /\ pc \in where

\* The root goes on from another place, and nothing else changes.
Goto(where) ==
  /\ pc' = where
  /\ UNCHANGED <<life, cache, tags, pending, processed, inbox, creation,
                 task, cur, callers, history>>

\* The workflow function returns in phase p.  The server fails the updates
\* that were accepted and have no answer.
Return(p) ==
  /\ phase' = p
  /\ pc' = "closed" /\ task' = "gather"
  /\ upd' = [u \in Updates |-> IF u \in Waiting THEN "abandoned" ELSE upd[u]]

\* An Await fails because the workflow was cancelled from outside.
AwaitCanceled ==
  /\ Root(Awaits) /\ cancelled /\ ~Condition
  /\ Return(phase)
  /\ UNCHANGED <<initialized, marked, cache, tags, pending, processed, inbox,
                 creation, cur, ready, answer, history>>

\* The beginning of a run that finds the entity created, and of one that has
\* no Init to call.
Start ==
  /\ Root({"start"}) /\ (initialized \/ ~HasInit)
  /\ pc' = "loop"
  /\ initialized' = TRUE
  /\ phase' = IF initialized THEN phase ELSE "ready"
  /\ mirror' = IF initialized THEN mirror ELSE Upserted("ready", labels)
  /\ UNCHANGED <<marked, cache, labels, dirty, pending, processed, inbox,
                 creation, task, cur, ready, callers, history>>

\* The beginning of a run that creates the entity: Init starts in a coroutine
\* of its own, and may come to its end without blocking.
StartInit ==
  /\ Root({"start"}) /\ ~initialized /\ HasInit
  /\ phase' = "creating"
  /\ mirror' = Upserted("creating", labels)
  /\ initRes' \in {"running", "ok", "err"}
  /\ inits' = inits + 1
  /\ pc' = "init_wait"
  /\ UNCHANGED <<initialized, marked, cache, labels, dirty, pending, processed,
                 inbox, initDone, task, cur, ready, callers, log, asked>>

\* A slip: deletion does not wait for the Init it cancelled.
CancelInitUndrained ==
  /\ Root({"init_wait"}) /\ marked /\ ~initDone
  /\ Goto("loop") /\ UNCHANGED ready

\* A slip: deletion waits for Init without cancelling it.
CancelInitNever == FALSE /\ Goto("init_drain") /\ UNCHANGED ready

\* Deletion interrupts Init: cancel it, and wait until it has returned.
CancelInit ==
  /\ Root({"init_wait"}) /\ marked /\ ~initDone
  /\ Goto("init_drain") /\ UNCHANGED ready

\* A slip: Initialized is not set.
InitSucceededUnnoted ==
  /\ Root({"init_wait", "init_drain"}) /\ initDone /\ initRes = "ok"
  /\ phase' = "ready"
  /\ mirror' = Upserted("ready", labels)
  /\ pc' = "loop"
  /\ UNCHANGED <<initialized, marked, cache, labels, dirty, pending, processed,
                 inbox, creation, task, cur, ready, callers, history>>

InitSucceeded ==
  /\ Root({"init_wait", "init_drain"}) /\ initDone /\ initRes = "ok"
  /\ initialized' = TRUE
  /\ phase' = "ready"
  /\ mirror' = Upserted("ready", labels)
  /\ pc' = "loop"
  /\ UNCHANGED <<marked, cache, labels, dirty, pending, processed, inbox,
                 creation, task, cur, ready, callers, history>>

\* Init failed or was aborted, and the entity is to be deleted: the main loop
\* runs the finalizer on whatever was created.
InitAborted ==
  /\ Root({"init_wait", "init_drain"}) /\ initDone /\ initRes = "err" /\ marked
  /\ Goto("loop") /\ UNCHANGED ready

InitFailed ==
  /\ Root({"init_wait", "init_drain"}) /\ initDone /\ initRes = "err" /\ ~marked
  /\ Return("create_failed")
  /\ mirror' = Upserted("create_failed", labels)
  /\ UNCHANGED <<initialized, marked, cache, labels, dirty, pending, processed,
                 inbox, creation, cur, ready, answer, history>>

(* Deletion *)

BeginDelete ==
  /\ Root({"loop"}) /\ marked
  /\ phase' = "deleting"
  /\ mirror' = Upserted("deleting", labels)
  /\ pc' = "deleting"
  /\ UNCHANGED <<initialized, marked, cache, labels, dirty, pending, processed,
                 inbox, creation, task, cur, ready, callers, history>>

\* A slip: the queue is dropped and nobody is told.
RejectPendingSilently ==
  /\ Root({"deleting"}) /\ pending # <<>>
  /\ pending' = <<>>
  /\ UNCHANGED <<life, cache, tags, processed, inbox, creation,
                 task, pc, cur, ready, callers, history>>

\* One round of the loop that fails the queued commands.
RejectPending ==
  /\ Root({"deleting"}) /\ pending # <<>>
  /\ LET r == ReqOf[Head(pending)]
     IN  /\ completed' = RecordCompleted(completed, order, r, "deleted")
         /\ order' = RecordOrder(completed, order, r)
  /\ pending' = Tail(pending)
  /\ UNCHANGED <<life, tags, processed, inbox, creation,
                 task, pc, cur, ready, callers, history>>

\* A slip: the finalizer does not wait for the handlers.
FinalizeUndrained ==
  /\ Root({"deleting"}) /\ pending = <<>> /\ HasFinalize
  /\ Goto("finalizing") /\ ready' \in BOOLEAN

\* The handlers have drained: the finalizer starts.
Finalize ==
  /\ Root({"deleting"}) /\ pending = <<>> /\ AllHandlersFinished /\ HasFinalize
  /\ Goto("finalizing") /\ ready' \in BOOLEAN

\* The workflow completes, or fails with the finalizer's error.
Deleted ==
  /\ \/ Root({"finalizing"}) /\ ready
     \/ Root({"deleting"}) /\ pending = <<>> /\ AllHandlersFinished /\ ~HasFinalize
  /\ \E p \in {"deleted"} \cup (IF HasFinalize THEN {"delete_failed"} ELSE {}) :
       Return(p) /\ mirror' = Upserted(p, labels)
  /\ UNCHANGED <<initialized, marked, cache, labels, dirty, pending, processed,
                 inbox, creation, cur, ready, answer, history>>

(* Commands *)

Dequeues(isLabels) ==
  /\ Root({"loop"}) /\ ~marked /\ pending # <<>>
  /\ (Head(pending) \in LabelUpdates) = isLabels
  /\ pending' = Tail(pending)

\* RecordCompleted for the command of u, and its place in the history.
Complete(u, outcome) ==
  /\ completed' = RecordCompleted(completed, order, ReqOf[u], ErrText(outcome))
  /\ order' = RecordOrder(completed, order, ReqOf[u])
  /\ processed' = Bump(processed)
  /\ log' = Append(log, [req |-> ReqOf[u], outcome |-> outcome])

\* A slip: the dirty flag is cleared before it is tested.
MirrorLabelsNever(l, isDirty) == dirty' = FALSE /\ UNCHANGED mirror

\* mirrorLabels, l being the labels by now and isDirty labelsDirty.
MirrorLabels(l, isDirty) ==
  /\ mirror' = IF isDirty THEN Upserted(phase, l) ELSE mirror
  /\ dirty' = FALSE

\* A set-labels update runs in one go.
ExecLabels ==
  /\ Dequeues(TRUE)
  /\ labels' = MergeLabels(labels, PatchOf[Head(pending)])
  /\ Complete(Head(pending), "ok")
  /\ MirrorLabels(labels', dirty \/ labels' # labels)
  /\ UNCHANGED <<life, inbox, creation, task, pc, cur, ready, callers,
                 inits, asked>>

\* A command's handler starts, and may come to its end without blocking.
ExecBegin ==
  /\ Dequeues(FALSE)
  /\ pc' = "exec" /\ cur' = Head(pending) /\ ready' \in BOOLEAN
  /\ UNCHANGED <<life, cache, tags, processed, inbox, creation, task,
                 callers, history>>

\* Ctx.SetLabel, from a command's handler or a reconcile tick.
SetLabel ==
  /\ Root({"exec", "tick"})
  /\ \E p \in IF pc = "exec" THEN UserPatches ELSE TickPatches :
       /\ labels' = MergeLabels(labels, p)
       /\ labels' # labels
  /\ dirty' = TRUE
  /\ UNCHANGED <<life, cache, mirror, pending, processed, inbox, creation,
                 task, pc, cur, ready, callers, history>>

ExecReturn ==
  /\ Root({"exec"}) /\ ready
  /\ \E outcome \in Outcomes : Complete(cur, outcome)
  /\ MirrorLabels(labels, dirty)
  /\ pc' = "loop" /\ cur' = None /\ ready' = FALSE
  /\ UNCHANGED <<life, labels, pending, inbox, creation, task, callers,
                 inits, asked>>

(* Continue-as-New *)

\* A slip: the queue is not looked at.
BeginCanAnyQueue ==
  /\ Root({"loop"}) /\ ~marked /\ CanWanted
  /\ Goto("can_wait") /\ UNCHANGED ready

\* With an empty queue only: await the handlers.
BeginCan ==
  /\ Root({"loop"}) /\ ~marked /\ pending = <<>> /\ CanWanted
  /\ Goto("can_wait") /\ UNCHANGED ready

\* A slip: handlers that have not returned yet are left behind.
ContinueAsNewUndrained ==
  /\ Root({"can_wait"})
  /\ pc' = "start" /\ task' = "gather" /\ ready' = FALSE
  /\ dirty' = FALSE /\ processed' = 0 /\ suggested' = FALSE
  /\ deleteBuf' = FALSE /\ cancelled' = FALSE
  /\ initRes' = None /\ initDone' = FALSE
  /\ UNCHANGED <<life, cache, labels, mirror, pending, cur, callers, history>>

\* A slip: the cache of completed requests is not carried over.
ContinueAsNewForgets ==
  /\ Root({"can_wait"}) /\ AllHandlersFinished
  /\ pc' = "start" /\ task' = "gather" /\ ready' = FALSE
  /\ completed' = <<>> /\ order' = <<>>
  /\ dirty' = FALSE /\ processed' = 0 /\ suggested' = FALSE
  /\ deleteBuf' = FALSE /\ cancelled' = FALSE
  /\ initRes' = None /\ initDone' = FALSE
  /\ UNCHANGED <<life, labels, mirror, pending, cur, callers, history>>

\* A new run starts from the envelope alone.
ContinueAsNew ==
  /\ Root({"can_wait"}) /\ AllHandlersFinished
  /\ pc' = "start" /\ task' = "gather" /\ ready' = FALSE
  /\ dirty' = FALSE /\ processed' = 0 /\ suggested' = FALSE
  /\ deleteBuf' = FALSE /\ cancelled' = FALSE
  /\ initRes' = None /\ initDone' = FALSE
  /\ UNCHANGED <<life, cache, labels, mirror, pending, cur, callers, history>>

(* Idle and reconcile *)

Idle ==
  /\ Root({"loop"}) /\ ~marked /\ pending = <<>> /\ ~CanWanted
  /\ Goto("idle") /\ ready' = FALSE

Wake ==
  /\ Root({"idle"}) /\ Condition
  /\ Goto("loop") /\ ready' = FALSE

\* The wait timed out: a reconcile tick starts, unless it is cancelled.
TickBegin ==
  /\ Root({"idle"}) /\ ~Condition /\ ~cancelled /\ ready
  /\ Goto("tick") /\ ready' \in BOOLEAN

\* Its error is logged and nothing else.
TickReturn ==
  /\ Root({"tick"}) /\ ready
  /\ Goto("loop") /\ ready' = FALSE

-----------------------------------------------------------------------------

Deliver ==
  \/ \E u \in Updates : RejectUpdate(u) \/ AnswerDuplicate(u) \/ EnqueueUpdate(u)
  \/ DeliverDelete \/ DeliverCancel
  \/ DeliverInit \/ DeliverResult \/ DeliverTimer

Schedule ==
  \/ StartTask \/ RunRoot \/ Yield
  \/ \E u \in Updates : HandlerReturn(u)

RootStep ==
  \/ AwaitCanceled \/ Start
  \/ StartInit \/ CancelInit \/ InitSucceeded \/ InitAborted \/ InitFailed
  \/ BeginDelete \/ RejectPending \/ Finalize \/ Deleted
  \/ ExecLabels \/ ExecBegin \/ ExecReturn
  \/ BeginCan \/ ContinueAsNew
  \/ Idle \/ Wake \/ TickBegin \/ TickReturn

\* The workflow has closed; there is no more to it.
Terminated == pc = "closed" /\ UNCHANGED vars

Next == Deliver \/ Schedule \/ RootStep \/ SetLabel \/ Terminated

Spec == Init /\ [][Next]_vars

\* Workers keep polling, and a task that started runs to its end.  A handler, a
\* tick and the finalizer end, and Init does once it is cancelled; before, it
\* may retry forever.  Their results are taken in between two tasks only, and
\* the server keeps them until then: hence strong fairness.  Nothing obliges
\* a client, a timer, the server's suggestion or an operator.
Fairness ==
  /\ WF_vars(StartTask) /\ WF_vars(RunRoot) /\ WF_vars(Yield)
  /\ \A u \in Updates : WF_vars(HandlerReturn(u))
  /\ WF_vars(RootStep)
  /\ SF_vars(DeliverInit /\ pc = "init_drain") /\ SF_vars(DeliverResult)

FairSpec == Spec /\ Fairness

-----------------------------------------------------------------------------
(* Properties *)

\* Every variable has its type.
TypeOK ==
  /\ initialized \in BOOLEAN /\ marked \in BOOLEAN /\ phase \in Phases
  /\ labels \in LabelMaps /\ pending \in Seq(Updates)
  /\ completed \in Results /\ order \in Seq(Requests)
  /\ dirty \in BOOLEAN /\ processed \in 0 .. ForceCANEvery
  /\ suggested \in BOOLEAN /\ deleteBuf \in BOOLEAN /\ cancelled \in BOOLEAN
  /\ initRes \in {None, "running", "ok", "err"} /\ initDone \in BOOLEAN
  /\ task \in {"gather", "handlers", "root"} /\ pc \in Controls
  /\ cur \in IF pc = "exec" THEN Updates ELSE {None}
  /\ ready \in BOOLEAN
  /\ upd \in [Updates -> Statuses] /\ answer \in [Updates -> Answers]
  /\ log \in Seq(Entries) /\ inits \in Nat /\ asked \in BOOLEAN

InQueue(u) == \E i \in DOMAIN pending : pending[i] = u

\* Nobody waits in vain: the command of a caller whose handler waits is
\* queued, or executing, or its result is still in the bounded cache.  The
\* cache must not evict a result between RecordCompleted and the handler that
\* reads it in its next turn, also when deletion fails the whole queue at once.
WaiterServed ==
  \A u \in Waiting :
    InQueue(u) \/ cur = u \/ ReqOf[u] \in DOMAIN completed \/ cancelled

\* The two waits on AllHandlersFinished, before the finalizer and before
\* Continue-as-New, end in the task they began in.  An update accepted during
\* such a wait would be queued behind a loop that never looks at its queue.
NoWaitOnHandlers == task = "gather" => pc \notin {"deleting", "can_wait"}

\* The finalizer runs only after every queued command was failed and every
\* caller got its answer, and neither a command nor an Init that the deletion
\* interrupted goes on beside it or after it.
FinalizesAlone ==
  pc = "finalizing" \/ phase \in {"deleted", "delete_failed"} =>
    pending = <<>> /\ Waiting = {} /\ cur = None /\ initRes # "running"

\* Callers are abandoned without an answer only by an entity that could not
\* be created or that was cancelled from outside, never by deletion.
DeletionAnswersAll ==
  phase \in {"deleted", "delete_failed"} =>
    \A u \in Updates : upd[u] # "abandoned"

\* The cache lists each request once, keeps a result for exactly the requests
\* it lists, and never outgrows its cap.
CacheConsistent ==
  /\ DOMAIN completed = {order[i] : i \in DOMAIN order}
  /\ \A i, j \in DOMAIN order : order[i] = order[j] => i = j
  /\ Len(order) <= CompletedOpsCap

\* A request executes again only when as many other requests as the cache
\* holds were executed in between, however often the entity continued as new.
\* (Not if an operator cancels: the command of a refused caller stays queued.)
AtMostOnce ==
  \A j \in DOMAIN log : \A i \in 1 .. j - 1 :
    log[i].req = log[j].req =>
      Cardinality({log[k].req : k \in i + 1 .. j - 1}) >= CompletedOpsCap

\* An answered caller was told what became of its own request: an execution
\* that ended that way, in this run or an earlier one, or its rejection by
\* the deletion.
AnswerTruthful ==
  \A u \in Updates : upd[u] = "answered" =>
    \/ answer[u] = "deleted" /\ phase \in {"deleting", "deleted", "delete_failed"}
    \/ \E i \in DOMAIN log : log[i].req = ReqOf[u] /\ log[i].outcome = answer[u]

\* Init is called once in the life of an entity, not once per run.
InitOnce == inits <= 1

\* Whenever the entity is at rest, visibility shows its phase and its labels.
MirrorFresh ==
  UseSearchAttrs /\ task = "gather" /\ pc \in {"idle", "closed"} =>
    mirror = [phase |-> phase, labels |-> labels]

\* A delete the server accepted is not lost: until it closes, the entity has
\* marked it or has the signal in its buffer.
DeleteRemembered == asked => marked \/ deleteBuf \/ pc = "closed"

\* Stronger: a request id is executed once, whoever sends it again and when.
RequestExecutesOnce ==
  \A i, j \in DOMAIN log : log[i].req = log[j].req => i = j

\* A run hands over no work: none queued, none running, nobody waiting, no
\* label unmirrored; and it never hands over an entity not created yet.
CanHandsOverNoWork ==
  [][pc = "can_wait" /\ pc' = "start" =>
       /\ initialized /\ phase = "ready" /\ ~dirty
       /\ pending = <<>> /\ cur = None /\ Waiting = {}]_vars

\* Every caller of a created entity whose command was queued gets an answer in
\* the end (an Init that never ends leaves its callers waiting).
WaiterAnswered ==
  \A u \in Updates : u \in Waiting /\ initialized ~> u \notin Waiting

\* A marked entity is deleted in the end, whatever it was doing: executing,
\* ticking, about to continue as new, or creating against a world that refuses
\* forever.  A creation that fails as the mark comes does not close it as
\* create_failed, without the finalizer; only an operator's cancellation may.
MarkedCloses ==
  marked ~> pc = "closed" /\ (cancelled \/ phase \in {"deleted", "delete_failed"})

\* The server's suggestion to a created entity to continue as new is followed, or it
\* closes.
SuggestionFollowed == suggested /\ initialized ~> ~suggested \/ pc = "closed"

\* Visibility catches up with the labels.
MirrorFollows ==
  UseSearchAttrs /\ mirror.labels # labels ~>
    mirror.labels = labels \/ pc = "closed"

=============================================================================
