# Verification of temporal-entity

This directory holds a TLA+ model of temporal-entity, the library that runs one
long-lived *entity* per resource as a Temporal workflow: the properties its
code should have, checked by TLC on small instances, and theorems about it,
proved by TLAPS for every value of the constants. Paths below are relative to
the repository, which the project's files call `src/`.

## 1. The system

| Component | State | Operations | Interacts with |
|---|---|---|---|
| **Chassis loop** `pkg/entdefine/loop.go` | per run: `processedThisRun`, `labelsDirty`, Init's `initDone`/`initErr`, signal channels; across runs: the envelope | update handlers (validate, dedup, enqueue, await), delete coroutine, Init coroutine, main loop (delete, execute one command, Continue-as-New, idle/tick) | the Temporal runtime (coroutines, updates, signals, timers), user code, visibility |
| **Envelope** `internal/wire/wire.go` | phase, labels, deletion mark, queue, bounded cache of completed requests | `RecordCompleted`, `MergeLabels`, `Snapshot` | carried from run to run by Continue-as-New |
| **Definition** `pkg/entdefine/definition.go` | handlers by name, options, list of registration errors | `Handle`, `Validate`, `HandleQuery`, `Register`, `Ctx` | read by the loop |
| **Saga** `pkg/entdefine/saga.go` | steps, completed steps | `Step`, `Run` | called by command handlers |
| **Typed client** `pkg/entclient/client.go` | none | `CreateOrAttach`, `Exec`, `ExecWithRequestID`, `ExecWithStart`, `Delete`, `Read`, `Describe`, `withCANRetry` | server, entity |
| **Operator surface** `pkg/entclient/operator.go` | none | `ExecRaw`, `SetLabelsRaw`, `ApplyRaw`: the same by wire identity, without retry | server, entity |
| **Names** `pkg/entity/*.go` | none | validation of ids and names | client, definition |
| **k8slib** `examples/reconciler/k8slib/*.go` | `State{DesiredDigest, Live, Ready, Drifted, Heals}`; the cluster | Init, `Apply`, reconcile tick, finalizer, over activities with retries; the `BlueGreen` saga of `main.go` | entity, cluster |
| **fake cluster** `examples/reconciler/k8slib/fake` | objects and their readiness | Apply, Get, Delete | activities |

What is hard in it, and what makes each component correct:

- **Interleaving.** Update handlers, the main loop, the delete coroutine and
  Init share the envelope without locks; they are coroutines, so they
  interleave at their blocking points only, but there every order of events
  the server may deliver is possible. The loop must never lose a caller, must
  not run two side effects at a time, and must finish its two waits on
  `AllHandlersFinished`.
- **Runs.** Continue-as-New drops everything but the envelope. Nothing that
  matters may be left outside it at that moment, and Init must not run again.
- **Deduplication in a bounded cache.** A retried request must find its result,
  also in a later run; a result must not be evicted before its own caller read
  it.
- **Deletion.** It may come at any time: while creating, executing, ticking,
  about to continue as new, with commands queued. Every caller must be
  answered before the finalizer starts, and the entity must close.
- **Partial failure.** Init, commands, ticks and the finalizer may fail, in the
  middle. A saga must undo what was done, in reverse order, and lose no error;
  an entity that says it is deleted must have left nothing behind; the object
  must return to what is desired, whichever command failed half-way.
- **Late effects.** An activity attempt that failed, timed out or was cancelled
  may have taken effect, or may take it later.
- **Clients.** Retries race Continue-as-New and the end of an entity, whose id
  may be taken by a new one. What a call returns must be true over all its
  attempts.
- **Registration.** Problems accumulate over many declarations; none may be
  lost, and no declaration may displace an operation of the chassis.

`PROJECT.json` lists each hazard at its line with the properties that cover it.

## 2. Modules

| Module | Content |
|---|---|
| `Wire` | the envelope's operations, pure operators |
| `EntityLoop` | one entity over all its runs: handlers, coroutines, main loop; its properties |
| `EntityLifecycle` | the abstract specification: what an entity promises |
| `EntityRefinement` | `EntityLoop` implements `EntityLifecycle` |
| `EntityInvariants` | the inductive invariants of the loop |
| `Saga` | `Saga.Run`, whatever its steps do |
| `Cluster` | the cluster, and the activities by which a workflow reaches it |
| `Reconciler` | a kind of the example: k8slib's handlers and the blue-green saga, over `Cluster` and `Saga` |
| `EntityClient` | the typed and the raw client, over several lives of a workflow ID |
| `Registry` | declarations, validators, `Register`, and what a run installs |
| `EntityLoopProofs`, `EntityLifecycleProofs`, `EntityServiceProofs` | theorems about the loop: types, lifecycle and cache, service of callers |
| `EntityHistoryProofs` | theorems about what the loop records of the past, and that it implements `EntityLifecycle` |
| `SagaProofs`, `ReconcilerProofs`, `EntityClientProofs`, `RegistryProofs` | theorems about the others |
| `MCEntityLoop`, `MCReconciler`, `MCEntityClient`, `MCRegistry` | values of the constants for TLC |

How they are composed:

```
EntityLoop --implements--> EntityLifecycle <--composed by-- EntityClient
   (ImplementsLifecycle)           ^
                                   | Reconciler's chassis implements it
                                   | (FollowsLifecycle)
   Saga --instantiated by--> Reconciler --extends--> Cluster
```

`EntityLifecycle` is what the parts have in common: one handler at a time, Init
first and once, a queue of commands that a deletion refuses, the finalizer last
and alone, nobody left without an answer. `EntityLoop` shows that the chassis
keeps it; `EntityClient` uses its actions as the entity its calls talk to;
`Reconciler` has a chassis of its own, of a few lines, which is shown to be one
of those the abstract specification allows.

### How EntityLoop corresponds to the code

The variables `initialized, phase, labels, marked, pending, completed, order`
are the envelope's fields. `dirty`, `processed`, `initRes`/`initDone` are the
locals of `workflowFn`; `deleteBuf` is the delete signal's channel (how many
signals it holds does not matter: taking one sets the mark). `pc` is where the
main loop is, `cur` the command it executes; `ready` says that what the loop
awaits of user code has arrived, or that the idle timer has fired. `upd` and
`answer` are the callers' view, `mirror` the search attributes, `log`, `inits`
and `asked` history that no action reads. An envelope's queue is a sequence of
updates, since an update carries its request id and payload.

`set-labels` updates and commands share the handler actions (the two handlers
are the same code); they differ in what the validator refuses and in what the
loop does with them. Results are reduced to what a caller can tell apart:
success, error, or the rejection by a deletion. `phase = "new"` is the empty
phase of a fresh envelope.

**The workflow runtime is external** and modelled by what the code relies on.
Events (updates, signals, results, timers, a cancellation) gather while the
coroutines are blocked (`task = "gather"`); `StartTask` begins a workflow task,
and the coroutines run one at a time, in passes, until all are blocked:
update handlers first, then the root, then the delete coroutine and Init's.
That order is the SDK's: handler coroutines are put ahead, the others run in
the order they were created. `Await` tests its condition before the
cancellation of its context, and `AwaitWithTimeout` before its timer. The
dispatcher stops when the root returns, and coroutines that had no turn lose
what was delivered to them. The set of events of a task is what arrived before
it, in any number; an event can also start a task alone.

A worker crash between two tasks, or within one, changes nothing: the task is
replayed from the same history to the same state, so it is a stuttering step.
Durability of the history is Temporal's and is assumed.

User code (Init, command handlers, ticks, the finalizer) may block any number
of times, which does not show, and may end in the task that started it or in
any later one, with success or error; command handlers and ticks may call
`SetLabel` at any point. Init may also go on for ever unless it is cancelled.

### Saga, Cluster and Reconciler

`Saga` is `Run`: `mode` and `at` are where its two loops are, `errs` the errors
it joins, `undone` a history of the compensations. `Step` is left to the
constants. `Reconciler` instantiates it with the four steps of `BlueGreen`
(`main.go`), of which the first has a compensation, and with its own variables,
so that every step and compensation is a call to the cluster that may fail.

`Cluster` holds the objects by name, and the one activity a workflow awaits
(`call`, `tries`, `reply`). An attempt may take effect and be answered, or fail
before or after its effect; the retry policy ends it after `MaxAttempts`. With
`Lingering` an attempt that was given up may also land afterwards (`late`). The
fake is a `Cluster` that is never slow (`SlowDelete = FALSE`,
`Lingering = FALSE`): its `Apply` is an upsert, its `Delete` tolerates absence,
its `Get` takes the object one step further (`Converge`), and `Corrupt`,
`Vanish` and the injected failures are the disturbances.

`Reconciler`'s `spec` and `st` are the envelope's desired spec and `State`; `st`
doubles as the state Init is about to return, for the envelope has none before.
`pc` and `job` are where the handler that runs is, `polls` its look at the
object. Each handler of `k8slib.go` is a sequence of actions, one per activity:
`StartInit`/`ExecApply`/`Look` begin `applyAndWaitReady`
(`Applied`, `PollAgain`, `Ready`, `ApplyFails`, `InitFails`), `Tick` and `Look`
are `reconcileDrift`, `Finalize` to `DeleteFails` are `deleteAndWaitGone`.
Manifests are model values: an image and the number of replicas that are up.
Digests and the count of heals, which nothing reads back, are left out. One
command is queued at a time: `EntityLoop` shows that a longer queue runs them one
by one.

### EntityClient

The entity is `EntityLifecycle` without interruption from outside. `life` counts
how often the workflow ID was started; `cache` is the dedup cache of the present
life, which evicts nothing here (`EntityLoop` covers eviction). A call of kind
`exec`, `start` or `raw` is sent, accepted, and answered, refused, or cut off by
the run's end; `Raced` and `Retry` are `withCANRetry`. The validator may refuse
for the deletion or for the command's own reasons (`invalid`). A caller may give
up at any point, which takes back no update: one that no worker has seen yet may
be lost, or be `adrift` and land at any later time, in this life or another. Calls
may share an explicit request id and overlap: `hasty` is a history of the ids that
were sent again while an update of them was under way (`Pending`, what is adrift
included), for which the first finding is what may happen. `ContinueAsNew` shows only in that it may drop a delete
(the second finding): the run handed over has no open handler, as
`CanHandsOverNoWork` of `EntityLoop` says.

### Registry

Declarations are numbered as they are made; `commands` and `queries` say which
one serves a name, `checks` is the chain of validators that the closures of
`Validate` form, as a sequence. A declaration after `Register` is possible in
the code and in the model, and is served by the runs that start after it.

### Assumptions on the environment

- `InFlightFitsCache`: the server admits at most `MaxInFlight` unfinished
  updates per workflow (Temporal's default limit is 10), no more than the cache
  holds (100). Without it a deletion could evict results unread.
- The server does not suggest Continue-as-New in the first task of a run.
- Search attributes outlive Continue-as-New.
- With `AllowOverlap = FALSE` (`EntityLoop`) a client sends a request id again
  only when its earlier update is no longer under way: answered, refused or lost.
  The same is the condition of `OncePerLife` in `EntityClient`, which excuses the
  `hasty` ids. An answer tells a client as much; the end of its own context does
  not. The first finding is what happens otherwise.
- Every queued command has a registered handler: the worker serves the same
  Definition in all runs.
- `NoOrphans` and `GreenIsAccounted`, and the passing run of `Reconciler`, assume
  that no attempt lands after it was given up (`~Lingering`); the fifth finding is what happens
  otherwise. The code does nothing that would rule it out: it is an assumption
  on the cluster and the activity timeouts.
- Whoever changes an object by hand does not create one that is absent.

## 3. Runs

| Run | Instance | Shows |
|---|---|---|
| `service` (`MCEntityLoop`) | four updates, one a label patch, `u3` a retry of `u1`'s request; Continue-as-New forced after two commands or suggested at any time; Init, finalizer, tick, deletes | `WaiterServed`, `NoWaitOnHandlers`, `FinalizesAlone`, `DeletionAnswersAll`, `CacheConsistent`, `AtMostOnce`, `AnswerTruthful`, `InitOnce`, `ServiceInv`, `ImplementsLifecycle` hold |
| `progress` (`MCEntityLoop`) | a command whose handler sets labels and a label patch, fairness; an operator may cancel the workflow; Init may hang | callers hear back, suggestions are followed, a marked entity is deleted and not left as `create_failed`, labels reach visibility; the finalizer runs beside no Init, and the deletion guarantees and the refinement hold under cancellation too |
| `saga` (`Saga`) | six steps, four undoable, any of them and any compensation failing | exactly the completed undoable steps are undone, last first, and every error is returned |
| `reconciler` (`MCReconciler`) | a deployment with two images and a foreign one, two commands, three disturbances, fairness | nothing is left behind untold, the object returns to the desired spec, recorded drift is cleared, a marked entity closes, and the chassis is one `EntityLifecycle` allows |
| `client` (`MCEntityClient`) | one typed, one starting and one raw call, two with the same id, and one `CreateOrAttach`; a given-up update may land later; fairness | a life executes a request once, unless it was sent again too soon; what a call returns is true over its attempts and lives; every call returns |
| `registry` (`MCRegistry`) | three names (free, reserved for commands, reserved for both), three declarations, three validators | everything accepted is served, with all its validators in order; every problem is told once; the chassis keeps its names, those without a handler of its own too |
| `in_flight_duplicate`, `lost_delete`, `tick_labels`, `blank_error`, `orphan`, `stale_ready` | | the six findings below |

**Bounds.** `EntityLoop`: the cap of two is reached by three distinct requests,
so results are evicted, also between an execution and the retry of its request;
the limit of two unfinished updates equals the cap, the tightest case
`InFlightFitsCache` admits, and is reached by two of four updates while a third
waits outside. Two commands or a suggestion are enough for several runs, with
and without carried results; the number of runs, of deletes, of ticks and of
`SetLabel` calls is not bounded. Each update is sent once, which bounds `log`
and the queue. `processed` saturates at `ForceCANEvery` (`Bump`), where nothing
tells larger values apart.

`Reconciler`: with two attempts per activity, three disturbances exhaust the
retries of one activity and still leave one for a compensation, a heal or a
change by hand; two polls with an object that needs two looks make both outcomes
of the wait possible. `MaxCommands = 2` gives an apply after a failed blue-green
and the reverse. `EntityClient`: two attempts reach both the retry and the
giving up of `withCANRetry` (five in the code); the starting call and one
`CreateOrAttach` give lives that follow one another. `Registry`: three
declarations let a name be taken, taken again and reserved, before or after
`Register`, and three validators order two on one command with one lost to a dead
registration in between. The theorems of section 5 hold without these bounds.

**Deadlock** is checked in every run but `client` and `registry`, where the
program stops: the calls are all made, the declarations all registered. In the
others a state without a successor would be one the model reaches by mistake,
for a closed workflow stutters (`Terminated`) and a saga can be run again.

**Fairness.** It is stated where the code's scheduling, or the server, obliges
something to happen, and for nothing else.

- `EntityLoop`: workers keep polling and run a started task to its end, so
  `StartTask`, `RunRoot`, `Yield`, `HandlerReturn` and `RootStep` are weakly
  fair. Command handlers, ticks and the finalizer end; so does a cancelled Init.
  Their completion can be delivered only between two tasks, and the server keeps
  it until then, so `DeliverResult`, and `DeliverInit` after a cancellation, are
  strongly fair. Nothing obliges a client to send anything, the timer to fire,
  the server to suggest or an operator to act.
- `Reconciler`: the workflow's code goes on whenever it can (one weak fairness
  for all of it, since it is one sequential program), an activity attempt ends,
  which `StartToCloseTimeout` ensures, the cluster ends its deletions, and an
  idle entity's timer fires. `Converges`, `DriftClears` say what becomes of an
  object once the disturbances, which nothing obliges, are over.
- `EntityClient`: a request that was sent arrives, the SDK's backoff timer fires,
  workers run, Init and commands end. Nobody has to call, delete or give up, Init
  need not fail, and what a caller has given up need not land.

**Mutants.** Next to an operation the modules define slips of it (`A slip: ...`),
each a plausible mistake in the code; `PROJECT.json` says which property each one
breaks. They appear in no specification.

## 4. Findings

1. `in_flight_duplicate`: only *completed* requests are deduplicated. A request
   sent again while it is queued or executing runs twice (`loop.go:119`), where
   the README and the client promise the cached result. A client that gave up
   cannot know that its update is still under way (`client.go:153`).
2. `lost_delete`: a delete that arrives in the task in which a run continues as
   new is lost, since the loop decides before the delete coroutine has had its
   turn (`loop.go:276`).
3. `tick_labels`: labels set by a reconcile tick are mirrored only after a later
   command (`loop.go:298`).
4. `blank_error`: an error with an empty text is recorded and served as success
   (`loop.go:353`).
5. `orphan`: the apply of an interrupted Init, or of an attempt that timed out,
   can land after the finalizer has seen the object gone (`k8slib.go:221`), where
   the loop counts on the finalizer to tear down what Init left
   (`loop.go:188-189`). It takes a cluster slower than the cancellation.
6. `stale_ready`: a tick stores the live object and leaves `Ready` as it was
   (`k8slib.go:307`), so an object that has lost its replicas is shown as ready.

## 5. Theorems

Proved by TLAPS for every number of updates and requests, every cap and every
limit, with and without Init, finalizer, tick, cancellation and overlapping
retries, from the assumptions of `Wire` and `EntityLoop`:

- `TypeCorrect`: `Spec => []TypeOK`. One step per action; the lemmas say that
  the operators of `Wire` stay within their types.
- `LifecycleCorrect`: `Spec => [](LifecycleInv /\ CacheConsistent)`. None of
  the safety properties is inductive alone. That no command is queued when the
  finalizer runs needs that nothing is accepted once `marked` is set, which
  needs the places of the loop tied to the phase (`PhaseInv`) and to the
  callers still waiting (`DrainInv`); that Init is called once needs that a run
  which begins uncreated is the first (`CreationInv`).
- `CacheIsConsistent`, `InitCalledOnce`, `FinalizerRunsAlone`,
  `DeletionAnswersEverybody` follow.

For clients that send a request again only after its answer (`~AllowOverlap`;
overlapping retries break the properties below, since a second copy of a command
takes a place in the cache that no caller accounts for):

- `ServiceCorrect`: `Spec => []ServiceInv`. The heart is `ServedInv`: for a
  caller whose command is done but whose handler has not run yet, the results
  recorded after its own and the commands still held are together fewer than
  `MaxInFlight`, hence fewer than the cache holds. The commands held inject into
  the waiting callers (`HeldAreWaiting`), whom the server limits; recording a
  result moves one from the second number to the first (`ServeRecord`), and no
  command is accepted while a result is unread (`ReadInv`, `ServeEnqueue`).
- `NobodyWaitsInVain`: `Spec => []WaiterServed`.
- `WaitsEndInTheirTask`: `Spec => []NoWaitOnHandlers`. When the root waits, the
  queue is empty, so every waiting caller has its result in the cache, and its
  handler runs in the same task.
- `RunsHandOverNoWork`: `Spec => CanHandsOverNoWork`, if ticks set no labels
  (`TickPatches = {}`: the third finding is what happens otherwise).

What the loop records of the past (`EntityHistoryProofs`) takes `StartInv`: a run
begins with an entity never touched or with one created, and the main loop meets
one created or one whose creation broke off.

- `VisibilityIsFresh`: `Spec => []MirrorFresh`, if ticks set no labels. Being at
  rest is not enough to say why visibility is fresh: the mirror agrees with the
  envelope whenever no label is dirty, across runs (`MirrorInv`), and only a
  command that executes leaves labels dirty (`DirtyInv`).
- `AnswersAreTrue`: `Spec => []AnswerTruthful`, if no error has an empty text
  (`"blank" \notin Outcomes`: the fourth finding is what happens otherwise). What a
  caller is told is read from the cache, so `TruthInv` says it of everything in the
  cache too, however many runs ago it was recorded.
- `RequestsExecuteOnce`: `Spec => []AtMostOnce`, without overlapping retries and
  without an operator who cancels (after a cancellation the command of a caller who
  was refused stays queued). `RecentInv` says that the cache lists the requests of
  the last executions in their order, all of them or as many as it holds; a command
  that executes is not in the cache (`HeldInv`), so its last execution lies before
  all of those, which are distinct (`CacheConsistent`) and of the cap's number.
- `LoopImplementsLifecycle`: `Spec => ImplementsLifecycle`, without any condition.
  Each action is mapped to the step of the lifecycle it stands for
  (`LifecycleStep`): the mapped queue has the executing command in front, so that
  taking a command from `pending` is no change of it, and its end is one.

`LifecycleInv`, `ServiceInv` and the invariants of `EntityHistoryProofs` were
checked by TLC before they were proved; `ServiceInv`, the least obvious, stays in
the `service` run.

About the other modules, again for every value of their constants:

- `Saga` (`SagaProofs`). `SagaCorrect` is the inductive invariant: while Run
  undoes, `undone` holds the undoable steps between the point it has reached and
  the step that failed, in falling order, and `errs` one error for each
  compensation that failed, after that of the step. From it `UndoesInReverse`,
  `UndoesAll` and `ReportsAllErrors`.
- `Reconciler` (`ReconcilerProofs`), late attempts included. `ReconcilerCorrect`
  ties the place of the handler to the activity it awaits: only the saga asks for
  the green object, and once the finalizer has seen its object gone, no call that
  could create it again is out or can be made. What follows of the objects
  themselves (`Missing`) is said for `~Lingering` only, and so are `NoOrphans` and
  `GreenIsAccounted`; the second also needs what `errs` says at each step of the
  saga. `ReconcilerTypeCorrect` (which takes the types of `Cluster` and `Saga` with
  it) and `KindFollowsLifecycle` (`Spec => FollowsLifecycle`: which handler runs in
  which phase and for which command, `ControlInv`) have no condition.
- `EntityClient` (`EntityClientProofs`). `OncePerLife` is not inductive: that a
  request is not in the cache when it is executed needs that no two queued
  updates have one id, which needs that only the calls of a `hasty` id overlap
  (`Alone`), that a queued update's caller is not about to send it again and its
  handler is still open (`QueueInv`), and that what this life has executed is in the cache or in
  hand (`RanInv`). `ClientCorrect` is that invariant, `ExecutesOncePerLife` its
  consequence; `ClientTypeCorrect` bounds the attempts. `ReturnsAreTruthful`
  (`Spec => []ReturnsTruthful`, for any finite set of calls) counts: each execution
  has used up a call of its own (`SpentInv`). A call is used from the moment its
  command executes: from then on it is not sent again, and it waits, succeeds or
  gives up (`UsedStays`). That holds because a caller who waits is queued or has an
  outcome in the cache (`ReportInv`), and an end or a new life comes only when
  nobody waits or nothing was recorded; that a success was executed is `DoneInv`.
- `Registry` (`RegistryProofs`). `RegisterReportsAll` is an action property: from
  the invariant that a table has a handler for exactly the free names declared
  (`Tabled`), a declaration is rejected exactly if it is bad by what was asked
  for alone, so that `errs` are the bad ones, each once (`Told`).
  `ChassisAlwaysServes`: no table has a handler for a reserved name, so that
  `Installed` gives it to the chassis, or to nobody, in every run. `RunsServeDeclared`: a good
  declaration keeps its name and its chain complete and in order (`GoodInv`), what
  Register accepted was good and stays so (`AcceptedInv`), and a run installed all
  of it (`InstalledInv`).

Every safety invariant, action property and refinement of a passing run is thus
proved, under the conditions named here. Model-checked only are the liveness
properties (`MarkedCloses`, `WaiterAnswered`, `SuggestionFollowed`, `MirrorFollows`,
`Converges`, `DriftClears`, `CallsReturn`), since what follows from fairness, and
ENABLED, are out of the prover's reach; and `MirrorFresh` of an entity whose
ticks set labels is not claimed.

## 6. Not modelled

Queries (`describe` and user queries), `Read`, `Describe` and the raw reads
change nothing; the note signal starts a task that changes nothing and is covered
by `StartTask`. In `EntityLoop`, `Spec` and `State` are user data that the loop
never reads. Logging, JSON coding and the wording of errors are left out, except
that the text of an error may be empty. A command without a registered handler
(`loop.go:259-262`) can be queued only if the deployed Definition changes between
runs. The checks of ids and names are predicates on strings with no state;
`Registry` has their outcome (a malformed kind, a reserved name). The scenario
that `main.go` and the integration tests play is a driver over what is modelled.
A panic in user code is outside: Temporal retries the task, which the model
shows as a stutter. The documentation's `Validate(snap)` form, which satisfies no
interface and is silently ignored, is a type assertion that fails, without
behaviour over time.

## 7. What could come next

1. What overlapping retries leave of the service guarantees: theorems for
   `AllowOverlap = TRUE`.
2. A `Reconciler` whose chassis is `EntityLoop` itself rather than its abstract
   specification. The product is out of TLC's reach as it stands.
