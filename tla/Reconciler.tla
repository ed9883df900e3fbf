----------------------------- MODULE Reconciler -----------------------------
(***************************************************************************)
(* A kind of examples/reconciler: the handlers k8slib gives every kind     *)
(* (Init, the apply command, the drift tick, the finalizer) and the        *)
(* blue-green saga of main.go, over a cluster that fails and drifts.  The  *)
(* chassis is reduced to what EntityLifecycle promises of it: one handler  *)
(* runs at a time, and a deletion interrupts Init and nothing else.        *)
(***************************************************************************)
EXTENDS Cluster

CONSTANTS
  Specs,         \* the desired specs the kind's validators let pass
  ReadyOnes,     \* WithReady: the live objects that are ready
  Drifts,        \* WithDrifted: the pairs of a spec and a live object astray
  PollAttempts,  \* WithPolling
  MaxCommands    \* bound: commands sent

ASSUME ReconcilerAssumption ==
  /\ Specs \subseteq Manifests /\ ReadyOnes \subseteq Manifests
  /\ Drifts \subseteq Specs \X Manifests
  /\ PollAttempts \in Nat \ {0} /\ MaxCommands \in Nat

VARIABLES
  phase, marked,
  spec,      \* the desired spec of the envelope
  st,        \* State, also the one Init is about to return
  cmd,       \* the command queued or executing
  pc,        \* what the main loop is at
  job,       \* what applyAndWaitReady is called for
  polls,     \* its attempts
  sent,      \* commands sent so far
  mode, at, errs, undone   \* the saga

\* The saga of BlueGreen: provision-green, which its compensation deletes,
\* warmup, switch-traffic, retire-green.
S == INSTANCE Saga WITH StepCount <- 4, Undoable <- {1}

entity  == <<phase, marked, spec, st, cmd, sent>>
control == <<pc, job, polls>>
saga    == <<mode, at, errs, undone>>
vars    == <<cluster, entity, control, saga>>

Command(name, to) == [name |-> name, to |-> to]
Commands == [name : {"apply", "blue-green"}, to : Specs]
NoCommand == Command(None, None)

Gone == {"create_failed", "deleted", "delete_failed"}

Init ==
  /\ ClusterInit /\ S!Init
  /\ phase = "new" /\ marked = FALSE /\ spec \in Specs
  /\ st = [live |-> None, ready |-> FALSE, drifted |-> FALSE]
  /\ cmd = NoCommand /\ sent = 0
  /\ pc = "rest" /\ job = None /\ polls = 0

-----------------------------------------------------------------------------
(* applyAndWaitReady *)

Begins(j, desired) ==
  /\ job' = j /\ pc' = "apply" /\ polls' = 0
  /\ Asks("apply", Web, desired)

\* The main loop has its turn again.
Rests == pc' = "rest" /\ job' = None /\ polls' = 0 /\ HangsUp

Applied ==
  /\ pc = "apply" /\ reply = "ok"
  /\ pc' = "poll" /\ Asks("get", Web, None)
  /\ UNCHANGED <<store, late, budget, entity, job, polls, saga>>

\* The state as Init leaves it so far; the other callers drop it on failure.
Glimpse == IF job = "init" /\ reply \in Manifests
           THEN [st EXCEPT !.live = reply] ELSE st

\* A slip: one look too many.
PollOnceMore ==
  /\ pc = "poll" /\ reply \in Found \ ReadyOnes /\ polls < PollAttempts
  /\ polls' = polls + 1 /\ Asks("get", Web, None)
  /\ st' = Glimpse
  /\ UNCHANGED <<store, late, budget, phase, marked, spec, cmd, sent, pc, job, saga>>

\* Not ready yet, or not there: sleep and look again.
PollAgain ==
  /\ pc = "poll" /\ reply \in Found \ ReadyOnes /\ polls + 1 < PollAttempts
  /\ polls' = polls + 1 /\ Asks("get", Web, None)
  /\ st' = Glimpse
  /\ UNCHANGED <<store, late, budget, phase, marked, spec, cmd, sent, pc, job, saga>>

\* The poll found a ready object: its caller takes the whole new state.
Ready ==
  /\ pc = "poll" /\ reply \in ReadyOnes
  /\ st' = [live |-> reply, ready |-> TRUE, drifted |-> FALSE]
  /\ phase' = IF job = "init" THEN "ready" ELSE phase
  /\ cmd' = IF job = "apply" THEN NoCommand ELSE cmd
  /\ Rests
  /\ UNCHANGED <<store, late, budget, marked, spec, sent, saga>>

GivesUp == \/ pc \in {"apply", "poll"} /\ reply = "err"
           \/ pc = "poll" /\ reply \in Found \ ReadyOnes /\ polls + 1 >= PollAttempts

\* The caller of an apply is told, or the tick's error is logged; what was
\* desired and what was stored stay.
ApplyFails ==
  /\ GivesUp /\ job # "init"
  /\ cmd' = IF job = "apply" THEN NoCommand ELSE cmd
  /\ Rests
  /\ UNCHANGED <<store, late, budget, phase, marked, spec, st, sent, saga>>

\* Init failed: the entity closes, unless it is to be deleted.
InitFails ==
  /\ GivesUp /\ job = "init"
  /\ st' = Glimpse
  /\ phase' = IF marked THEN phase ELSE "create_failed"
  /\ Rests
  /\ UNCHANGED <<store, late, budget, marked, spec, cmd, sent, saga>>

\* The chassis cancels Init, whatever it awaits.
CancelInit ==
  /\ job = "init" /\ marked
  /\ pc' = "rest" /\ job' = None /\ polls' = 0 /\ Abandon
  /\ UNCHANGED <<store, budget, entity, saga>>

-----------------------------------------------------------------------------
(* The chassis: one handler at a time *)

Rest(p) == pc = "rest" /\ phase = p
Open    == phase \in {"new", "creating", "ready"}

StartInit ==
  /\ Rest("new") /\ phase' = "creating" /\ Begins("init", spec)
  /\ UNCHANGED <<store, late, budget, marked, spec, st, cmd, sent, saga>>

\* A command is accepted and queued; MaxCommands bounds how often.
Send(c) ==
  /\ phase \in {"creating", "ready"} /\ ~marked
  /\ cmd = NoCommand /\ sent < MaxCommands
  /\ cmd' = c /\ sent' = sent + 1
  /\ UNCHANGED <<cluster, phase, marked, spec, st, control, saga>>

Delete ==
  /\ Open /\ phase # "new" /\ ~marked /\ marked' = TRUE
  /\ UNCHANGED <<cluster, phase, spec, st, cmd, sent, control, saga>>

\* The handler of apply: the desired spec is replaced first.
ExecApply ==
  /\ Rest("ready") /\ ~marked /\ cmd.name = "apply"
  /\ spec' = cmd.to /\ Begins("apply", cmd.to)
  /\ UNCHANGED <<store, late, budget, phase, marked, st, cmd, sent, saga>>

ExecBlueGreen ==
  /\ Rest("ready") /\ ~marked /\ cmd.name = "blue-green"
  /\ pc' = "saga" /\ S!Begin
  /\ UNCHANGED <<cluster, entity, job, polls>>

\* A slip: the timer has precedence over the deletion.
TickFirst ==
  /\ Rest("ready") /\ cmd = NoCommand
  /\ pc' = "look" /\ Asks("get", Web, None)
  /\ UNCHANGED <<store, late, budget, entity, job, polls, saga>>

\* reconcileDrift begins with a look at the live object.
Tick ==
  /\ Rest("ready") /\ ~marked /\ cmd = NoCommand
  /\ pc' = "look" /\ Asks("get", Web, None)
  /\ UNCHANGED <<store, late, budget, entity, job, polls, saga>>

Astray(live) == live = Absent \/ <<spec, live>> \in Drifts

\* A slip: an object that has disappeared is not drift.
LookIfFound ==
  /\ pc = "look" /\ reply \in Found
  /\ st' = IF reply = Absent THEN st
           ELSE [st EXCEPT !.live = reply, !.drifted = Astray(reply)]
  /\ IF reply # Absent /\ Astray(reply) THEN Begins("heal", spec) ELSE Rests
  /\ UNCHANGED <<store, late, budget, phase, marked, spec, cmd, sent, saga>>

\* A slip: drift is recorded, and left to the next command.
LookOnly ==
  /\ pc = "look" /\ reply \in Found
  /\ st' = [st EXCEPT !.drifted = Astray(reply),
                      !.live = IF reply = Absent THEN @ ELSE reply]
  /\ Rests
  /\ UNCHANGED <<store, late, budget, phase, marked, spec, cmd, sent, saga>>

\* Drift is recorded, and healed at once.
Look ==
  /\ pc = "look" /\ reply \in Found
  /\ st' = [st EXCEPT !.drifted = Astray(reply),
                      !.live = IF reply = Absent THEN @ ELSE reply]
  /\ IF Astray(reply) THEN Begins("heal", spec) ELSE Rests
  /\ UNCHANGED <<store, late, budget, phase, marked, spec, cmd, sent, saga>>

LookFails ==
  /\ pc = "look" /\ reply = "err" /\ Rests
  /\ UNCHANGED <<store, late, budget, entity, saga>>

-----------------------------------------------------------------------------
(* The steps of BlueGreen *)

InSaga(m, steps) == pc = "saga" /\ mode = m /\ at \in steps

\* A step that is an activity, or the compensation of the first.
SagaCalls ==
  /\ call = NoCall
  /\ \/ InSaga("forward", {1}) /\ Asks("apply", Green, cmd.to) /\ UNCHANGED spec
     \/ InSaga("forward", {3}) /\ Asks("apply", Web, cmd.to) /\ spec' = cmd.to
     \/ InSaga("forward", {4}) /\ Asks("delete", Green, None) /\ UNCHANGED spec
     \/ InSaga("undo", {1}) /\ Asks("delete", Green, None) /\ UNCHANGED spec
  /\ UNCHANGED <<store, late, budget, phase, marked, st, cmd, sent, control, saga>>

SagaAnswered ==
  /\ pc = "saga" /\ reply # None
  /\ \/ reply = "ok" /\ S!StepSucceeds
     \/ reply = "err" /\ S!StepFails
     \/ S!Compensate(reply = "ok")
  /\ HangsUp
  /\ UNCHANGED <<store, late, budget, entity, control>>

\* The child workflow ends; it may fail.
Warmup ==
  /\ InSaga("forward", {2})
  /\ \/ S!StepSucceeds /\ UNCHANGED budget
     \/ S!StepFails /\ budget > 0 /\ budget' = budget - 1
  /\ UNCHANGED <<store, line, late, entity, control>>

SagaUnwinds ==
  /\ pc = "saga" /\ (S!SkipStep \/ S!ReturnErrors)
  /\ UNCHANGED <<cluster, entity, control>>

\* The caller is told what Run returned.
SagaEnds ==
  /\ pc = "saga" /\ mode = "over" /\ cmd' = NoCommand /\ Rests
  /\ UNCHANGED <<store, late, budget, phase, marked, spec, st, sent, saga>>

-----------------------------------------------------------------------------
(* Deletion *)

BeginDelete ==
  /\ pc = "rest" /\ phase \in {"creating", "ready"} /\ marked
  /\ phase' = "deleting"
  /\ UNCHANGED <<cluster, marked, spec, st, cmd, sent, control, saga>>

Refuse ==
  /\ Rest("deleting") /\ cmd # NoCommand /\ cmd' = NoCommand
  /\ UNCHANGED <<cluster, phase, marked, spec, st, sent, control, saga>>

\* A slip: a command is still queued.
FinalizeAnyQueue ==
  /\ Rest("deleting")
  /\ pc' = "erase" /\ Asks("delete", Web, None)
  /\ UNCHANGED <<store, late, budget, entity, job, polls, saga>>

\* deleteAndWaitGone
Finalize ==
  /\ Rest("deleting") /\ cmd = NoCommand
  /\ pc' = "erase" /\ Asks("delete", Web, None)
  /\ UNCHANGED <<store, late, budget, entity, job, polls, saga>>

\* A slip: the answer to the deletion is taken for its completion.
ErasedAtOnce ==
  /\ pc = "erase" /\ reply = "ok"
  /\ phase' = "deleted" /\ Rests
  /\ UNCHANGED <<store, late, budget, marked, spec, st, cmd, sent, saga>>

Erased ==
  /\ pc = "erase" /\ reply = "ok"
  /\ pc' = "gone" /\ Asks("get", Web, None)
  /\ UNCHANGED <<store, late, budget, entity, job, polls, saga>>

StillThere ==
  /\ pc = "gone" /\ reply \in Manifests /\ polls + 1 < PollAttempts
  /\ polls' = polls + 1 /\ Asks("get", Web, None)
  /\ UNCHANGED <<store, late, budget, entity, pc, job, saga>>

Deleted ==
  /\ pc = "gone" /\ reply = Absent
  /\ phase' = "deleted" /\ Rests
  /\ UNCHANGED <<store, late, budget, marked, spec, st, cmd, sent, saga>>

DeleteFails ==
  /\ \/ pc \in {"erase", "gone"} /\ reply = "err"
     \/ pc = "gone" /\ reply \in Manifests /\ polls + 1 >= PollAttempts
  /\ phase' = "delete_failed" /\ Rests
  /\ UNCHANGED <<store, late, budget, marked, spec, st, cmd, sent, saga>>

-----------------------------------------------------------------------------

WaitReady == Applied \/ PollAgain \/ Ready \/ ApplyFails \/ InitFails \/ CancelInit
BlueGreen == SagaCalls \/ SagaAnswered \/ Warmup \/ SagaUnwinds \/ SagaEnds
Teardown  == BeginDelete \/ Refuse \/ Finalize \/ Erased \/ StillThere \/ Deleted \/ DeleteFails
Serve     == StartInit \/ ExecApply \/ ExecBlueGreen \/ Look \/ LookFails

Terminated == phase \in Gone /\ UNCHANGED vars

Next ==
  \/ WaitReady \/ BlueGreen \/ Teardown \/ Serve \/ Tick
  \/ Delete \/ \E c \in Commands : Send(c)
  \/ ClusterStep /\ UNCHANGED <<entity, control, saga>>
  \/ Terminated

Spec == Init /\ [][Next]_vars

\* Workers keep running the workflow's code, an activity is attempted until it
\* has an answer, the cluster ends its deletions, and an idle entity's timer
\* fires.  Nobody has to send a command, and the cluster need not drift.
Fairness ==
  /\ WF_vars(WaitReady \/ BlueGreen \/ Teardown \/ Serve)
  /\ WF_vars(Tick)
  /\ WF_vars((AttemptSucceeds \/ AttemptFails) /\ UNCHANGED <<entity, control, saga>>)
  /\ WF_vars(Reap /\ UNCHANGED <<entity, control, saga>>)

FairSpec == Spec /\ Fairness

-----------------------------------------------------------------------------
(* Properties *)

\* Every variable has its type.
TypeOK ==
  /\ ClusterTypeOK /\ S!TypeOK
  /\ phase \in {"new", "creating", "ready", "deleting"} \cup Gone
  /\ marked \in BOOLEAN /\ spec \in Specs
  /\ st \in [live : Manifests \cup {None}, ready : BOOLEAN, drifted : BOOLEAN]
  /\ cmd \in Commands \cup {NoCommand} /\ sent \in 0 .. MaxCommands
  /\ pc \in {"rest", "apply", "poll", "look", "saga", "erase", "gone"}
  /\ job \in {None, "init", "apply", "heal"} /\ polls \in 0 .. PollAttempts - 1

\* An entity that reports itself deleted has left no object of its own behind,
\* then or later, although its Init may have been interrupted in the middle.
NoOrphan == phase = "deleted" => objects[Web] = Absent

\* A blue-green leaves its green object behind only if the error its caller got
\* says so: provisioning, its undoing or its retirement failed.
GreenAccounted ==
  pc # "saga" /\ objects[Green] # Absent /\ Green \notin doomed =>
    \E i \in DOMAIN errs : errs[i].step \in {1, 4}

\* Ready is WithReady's verdict on Live.
ReadyFollowsLive == pc = "rest" /\ st.ready => st.live \in ReadyOnes

\* Once the disturbances are over, the object agrees with the desired spec for
\* good or the entity closes, whatever command failed half-way: what the spec
\* says is healed, even if the caller who set it was told of a failure.
Converges == <>[](phase \in Gone \/ ~Astray(objects[Web]))

\* Drift that a failed heal left recorded is not recorded for ever.
DriftClears == st.drifted ~> ~st.drifted \/ phase \in Gone

\* A marked entity closes; its deletion waits for one handler at most.
MarkedCloses == marked ~> phase \in Gone

-----------------------------------------------------------------------------
(* The chassis of this module promises what EntityLifecycle does. *)

Effect ==
  CASE job = "init" -> "init"
    [] job = "apply" \/ pc = "saga" -> "command"
    [] job = "heal" \/ pc = "look" -> "tick"
    [] pc \in {"erase", "gone"} -> "finalize"
    [] OTHER -> "none"

Lifecycle == INSTANCE EntityLifecycle WITH
  Calls <- Commands, MayInterrupt <- TRUE,
  stage <- IF phase \in Gone THEN "over" ELSE phase,
  effect <- Effect,
  queue <- IF cmd = NoCommand THEN <<>> ELSE <<cmd>>,
  open <- {}

\* The handlers are called the way the abstract lifecycle, and hence the loop
\* that implements it, calls them: one at a time, Init first, the finalizer last.
FollowsLifecycle == Lifecycle!Spec

=============================================================================
