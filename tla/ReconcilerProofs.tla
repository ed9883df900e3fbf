--------------------------- MODULE ReconcilerProofs ---------------------------
(***************************************************************************)
(* Proofs about Reconciler, for any manifests, readiness and drift, any    *)
(* numbers of attempts, looks, commands and disturbances.                  *)
(***************************************************************************)
EXTENDS Reconciler, Sequences, TLAPS

Look0   == Activity("get", Web, None)
Erase0  == Activity("delete", Web, None)
Retire0 == Activity("delete", Green, None)

\* Object o is not there, as far as one can tell: an attempt that was given up
\* may still put it there, if such attempts may land.
Missing(o) == ~Lingering => objects[o] = Absent

\* Which activity the workflow awaits at which point of its code, and what the
\* answer to a look says of the object still.
CallInv ==
  /\ ~Lingering => late = {}
  /\ pc = "rest" => call = NoCall
  /\ job # None => pc \in {"apply", "poll"}
  /\ pc = "saga" => cmd \in Commands
  /\ call = NoCall => reply = None
  /\ pc = "apply" => call \in Upserts /\ call.obj = Web
  /\ pc \in {"poll", "look", "gone"} => call = Look0
  /\ pc = "erase" => call = Erase0
  /\ pc = "gone" /\ reply = Absent => Missing(Web)
  /\ phase = "deleted" => pc = "rest" /\ Missing(Web)

Clean   == Missing(Green) \/ Green \in doomed
Told    == \E i \in DOMAIN errs : errs[i].step \in {1, 4}
Settled == Clean \/ Told

ForwardCalls ==
  /\ errs = <<>> /\ at \in 1 .. 4
  /\ call # NoCall =>
       \/ at = 1 /\ call \in Upserts
       \/ at = 3 /\ call \in Upserts /\ call.obj = Web
       \/ at = 4 /\ call = Retire0
  /\ at = 4 /\ reply = "ok" => Clean

UndoCalls ==
  /\ at \in 0 .. 3
  /\ call # NoCall => at = 1 /\ call = Retire0
  /\ at = 1 /\ reply = "ok" => Clean
  /\ at = 0 => Settled

\* The green object is on its way out, or the caller of blue-green is told:
\* outside a saga, and inside one from the point on where no step is left to
\* remove it.
GreenInv ==
  /\ pc # "saga" => mode \in {"off", "over"} /\ Settled
  /\ pc = "saga" =>
       /\ mode # "off"
       /\ mode = "forward" => ForwardCalls
       /\ mode = "undo" => UndoCalls
       /\ mode = "over" => Settled /\ call = NoCall

ReconcilerInv == TypeOK /\ CallInv /\ GreenInv

-----------------------------------------------------------------------------
(* Activities *)

CallTypes == {NoCall} \cup Upserts \cup Deletes \cup Gets

LEMMA Kinds ==
  /\ \A a \in Upserts : a.op = "apply" /\ a.obj \in Objects /\ a.manifest \in Manifests
                        /\ a # NoCall
  /\ NoCall.op = "none" /\ Look0.op = "get" /\ Look0.obj = Web
  /\ Erase0.op = "delete" /\ Erase0.obj = Web
  /\ Retire0.op = "delete" /\ Retire0.obj = Green
  /\ Look0 # NoCall /\ Erase0 # NoCall /\ Retire0 # NoCall
  /\ Look0 \in Gets /\ Erase0 \in Deletes /\ Retire0 \in Deletes
  /\ \A o \in Objects, m \in Manifests :
       Activity("apply", o, m) \in Upserts /\ Activity("apply", o, m).obj = o
  BY DEF Upserts, Deletes, Gets, Activity, NoCall, Look0, Erase0, Retire0, Objects, None

LEMMA Answers ==
  /\ None \notin Found /\ Absent # None /\ Absent # "ok" /\ Absent # "err"
  /\ "ok" \notin Found /\ "err" \notin Found /\ None # "ok" /\ None # "err"
  /\ Web # Green /\ {Web, Green} = Objects
  /\ 0 \in 0 .. MaxAttempts - 1 /\ 0 \in 0 .. PollAttempts - 1
  /\ ReadyOnes \subseteq Manifests /\ Specs \subseteq Manifests
  BY ClusterAssumption, ReconcilerAssumption DEF Found, None, Absent, Objects

\* What an attempt does to the store.
LEMMA LandsTyped ==
  ASSUME ClusterTypeOK, NEW a \in Upserts \cup Deletes \cup Gets, Lands(a)
  PROVE  /\ objects' \in [Objects -> Found] /\ doomed' \subseteq Objects
         /\ \A o \in Objects : objects[o] = Absent /\ ~(a.op = "apply" /\ a.obj = o)
                                 => objects'[o] = Absent
         /\ a.op = "get" => doomed' = doomed
         /\ a.op = "apply" => doomed' = doomed
         /\ a.op = "delete" => objects'[a.obj] = Absent \/ a.obj \in doomed'
         /\ \A o \in Objects \cap doomed : objects'[o] = Absent \/ o \in doomed'
<1> USE DEF ClusterTypeOK
<1>1. a.obj \in Objects /\ a.op \in {"apply", "delete", "get"}
  BY DEF Upserts, Deletes, Gets
<1>2. CASE a.op = "apply" /\ Upsert(a.obj, a.manifest)
  <2>1. a.manifest \in Found
    BY <1>2 DEF Upserts, Deletes, Gets, Found
  <2> QED
    BY <1>1, <1>2, <2>1 DEF Upsert
<1>3. CASE a.op = "delete" /\ Remove(a.obj)
  BY <1>1, <1>3 DEF Remove, Removed, Found
<1>4. CASE a.op = "get" /\ Observe(a.obj)
  <2>1. objects[a.obj] # Absent => Converge[objects[a.obj]] \in Found
    BY <1>1, ClusterAssumption DEF Found
  <2> QED
    BY <1>1, <1>4, <2>1 DEF Observe
<1> QED
  BY <1>2, <1>3, <1>4 DEF Lands

-----------------------------------------------------------------------------
(* The environment *)

Workflow == <<entity, control, saga>>

\* Whatever leaves the workflow and its activity alone, types the store, and
\* creates nothing that was absent or is on its way out.
LEMMA StoreChanges ==
  ASSUME ReconcilerInv, UNCHANGED Workflow, UNCHANGED call, ~Lingering => late' = late,
         ClusterTypeOK',
         \A o \in Objects : Missing(o) /\ ~(call.op = "apply" /\ call.obj = o)
                              => Missing(o)',
         Clean /\ ~(call.op = "apply" /\ call.obj = Green) => Clean',
         reply' = reply
           \/ (call # NoCall /\ reply = None /\ reply' # "ok"
               /\ (call = Look0 /\ reply' = Absent => Missing(Web)'))
           \/ (call # NoCall /\ reply = None
               /\ (call = Retire0 => Clean') /\ reply' # Absent)
  PROVE  ReconcilerInv'
<1> USE DEF Workflow, entity, control, saga
<1>1. TypeOK'
  BY DEF ReconcilerInv, TypeOK, S!TypeOK
<1>2. CallInv'
  <2>1. phase = "deleted" => call = NoCall /\ Missing(Web)'
    BY Kinds, Answers DEF ReconcilerInv, CallInv
  <2>2. pc = "gone" /\ reply' = Absent => Missing(Web)'
    BY Kinds, Answers DEF ReconcilerInv, CallInv
  <2>3. call = NoCall => reply' = None
    BY DEF ReconcilerInv, CallInv
  <2> QED
    BY <2>1, <2>2, <2>3 DEF ReconcilerInv, CallInv
<1>3. Told' = Told
  BY DEF Told
<1>4. GreenInv'
  <2>1. CASE pc # "saga"
    <3>1. ~(call.op = "apply" /\ call.obj = Green)
      BY <2>1, Kinds, Answers DEF ReconcilerInv, CallInv, TypeOK
    <3> QED
      BY <2>1, <3>1, <1>3 DEF ReconcilerInv, GreenInv, Settled
  <2>2. CASE pc = "saga" /\ mode = "forward"
    <3>1. at = 4 => call \in {NoCall, Retire0}
      BY <2>2 DEF ReconcilerInv, GreenInv, ForwardCalls
    <3>2. at = 4 /\ reply' = "ok" => Clean'
      BY <2>2, <3>1, Kinds, Answers DEF ReconcilerInv, GreenInv, ForwardCalls
    <3> QED
      BY <2>2, <3>2 DEF ReconcilerInv, GreenInv, ForwardCalls
  <2>3. CASE pc = "saga" /\ mode = "undo"
    <3>1. call \in {NoCall, Retire0}
      BY <2>3 DEF ReconcilerInv, GreenInv, UndoCalls
    <3>2. Clean => Clean'
      BY <3>1, Kinds, Answers
    <3>3. at = 1 /\ reply' = "ok" => Clean'
      BY <2>3, <3>1, <3>2, Kinds, Answers DEF ReconcilerInv, GreenInv, UndoCalls, CallInv
    <3> QED
      BY <2>3, <3>2, <3>3, <1>3 DEF ReconcilerInv, GreenInv, UndoCalls, Settled
  <2>4. CASE pc = "saga" /\ mode \in {"over", "off"}
    <3> QED
      BY <2>4, <1>3, Kinds DEF ReconcilerInv, GreenInv, Settled
  <2> QED
    BY <2>1, <2>2, <2>3, <2>4 DEF ReconcilerInv, TypeOK, S!TypeOK
<1> QED
  BY <1>1, <1>2, <1>4 DEF ReconcilerInv

\* An attempt that lands disturbs no object it is not for.
LEMMA LandsClean ==
  ASSUME ClusterTypeOK, NEW a \in Upserts \cup Deletes \cup Gets, Lands(a)
  PROVE  /\ Clean /\ ~(a.op = "apply" /\ a.obj = Green) => Clean'
         /\ a = Retire0 => Clean'
  BY LandsTyped, Kinds, Answers DEF Clean, Missing

LEMMA SucceedsKeeps ==
  ASSUME ReconcilerInv, UNCHANGED Workflow, AttemptSucceeds
  PROVE  ReconcilerInv'
<1>1. call \in Upserts \cup Deletes \cup Gets /\ call # NoCall /\ reply = None
  BY DEF AttemptSucceeds, InProgress, ReconcilerInv, TypeOK, ClusterTypeOK
<1>2. /\ Lands(call) /\ UNCHANGED <<call, tries, late, budget>>
      /\ reply' = IF call.op = "get" THEN objects'[call.obj] ELSE "ok"
  BY DEF AttemptSucceeds
<1>3. ClusterTypeOK
  BY DEF ReconcilerInv, TypeOK
<1>4. call.obj \in Objects
  BY <1>1 DEF Upserts, Deletes, Gets
<1>5. reply' \in {"ok"} \cup Found
  BY <1>1, <1>2, <1>3, <1>4, LandsTyped
<1>6. ClusterTypeOK'
  BY <1>1, <1>2, <1>3, <1>5, LandsTyped DEF ClusterTypeOK
<1>7. call.op = "get" => reply' # "ok"
  BY <1>1, <1>2, <1>3, <1>4, LandsTyped, Answers
<1>8. CASE call.op = "get"
  <2>1. call = Look0 /\ reply' = Absent => objects'[Web] = Absent
    BY <1>2, <1>8, Kinds
  <2> QED
    BY <2>1, <1>1, <1>2, <1>3, <1>6, <1>7, <1>8, LandsTyped, LandsClean, StoreChanges DEF Missing
<1>9. CASE call.op # "get"
  <2>1. reply' # Absent
    BY <1>2, <1>9, Answers
  <2>2. call = Retire0 => Clean'
    BY <1>1, <1>2, <1>3, LandsClean
  <2> QED
    BY <2>1, <2>2, <1>1, <1>2, <1>3, <1>6, LandsTyped, LandsClean, StoreChanges DEF Missing
<1> QED
  BY <1>8, <1>9

LEMMA AttemptFailsKeeps ==
  ASSUME ReconcilerInv, UNCHANGED Workflow, AttemptFails
  PROVE  ReconcilerInv'
<1>1. call \in Upserts \cup Deletes \cup Gets /\ call # NoCall /\ reply = None
  BY DEF AttemptFails, InProgress, ReconcilerInv, TypeOK, ClusterTypeOK
<1>2. ClusterTypeOK
  BY DEF ReconcilerInv, TypeOK
<1>3. /\ UNCHANGED call
      /\ ~Lingering => late' = late
      /\ late' \subseteq Upserts \cup Deletes
  BY <1>1, <1>2, Kinds DEF AttemptFails, ClusterTypeOK, Gets
<1>4. UNCHANGED store \/ Lands(call)
  BY DEF AttemptFails
<1>5. /\ tries' \in 0 .. MaxAttempts - 1 /\ budget' \in 0 .. Disturbances
      /\ reply' = reply \/ reply' = "err"
  BY <1>2, ClusterAssumption DEF AttemptFails, ClusterTypeOK
<1>6. ClusterTypeOK'
  BY <1>1, <1>2, <1>3, <1>4, <1>5, LandsTyped DEF ClusterTypeOK, store
<1>7. /\ \A o \in Objects : Missing(o) /\ ~(call.op = "apply" /\ call.obj = o)
                              => Missing(o)'
      /\ Clean /\ ~(call.op = "apply" /\ call.obj = Green) => Clean'
  BY <1>1, <1>2, <1>4, LandsTyped, LandsClean DEF store, Clean, Missing
<1>8. reply' = "err" => reply' # "ok" /\ reply' # Absent
  BY Answers
<1> QED
  BY <1>1, <1>3, <1>5, <1>6, <1>7, <1>8, StoreChanges

\* What happens to objects without the workflow.
LEMMA ElsewhereKeeps ==
  ASSUME ReconcilerInv, UNCHANGED Workflow,
         Reap \/ \E o \in Objects : Vanish(o) \/ \E m \in Manifests : Corrupt(o, m)
  PROVE  ReconcilerInv'
<1>1. ClusterTypeOK
  BY DEF ReconcilerInv, TypeOK
<1>2. UNCHANGED <<call, tries, reply, late>>
  BY DEF Reap, Vanish, Corrupt, line
<1>3. budget' \in 0 .. Disturbances
  BY <1>1, ClusterAssumption DEF Reap, Vanish, Corrupt, ClusterTypeOK
<1>4. /\ objects' \in [Objects -> Found] /\ doomed' \subseteq Objects
      /\ \A o \in Objects : objects[o] = Absent => objects'[o] = Absent
      /\ Clean => Clean'
  <2>1. CASE Reap
    BY <2>1, <1>1, Answers DEF Reap, Removed, ClusterTypeOK, Clean, Missing, Found
  <2>2. CASE \E o \in Objects : Vanish(o)
    BY <2>2, <1>1, Answers DEF Vanish, Removed, ClusterTypeOK, Clean, Missing, Found
  <2>3. CASE \E o \in Objects : \E m \in Manifests : Corrupt(o, m)
    BY <2>3, <1>1, Answers DEF Corrupt, Upsert, ClusterTypeOK, Clean, Missing, Found
  <2> QED
    BY <2>1, <2>2, <2>3
<1>5. ClusterTypeOK'
  BY <1>1, <1>2, <1>3, <1>4 DEF ClusterTypeOK
<1> QED
  BY <1>2, <1>4, <1>5, StoreChanges DEF Missing

\* An attempt that was given up lands: then nothing can be said of the objects.
LEMMA LateKeeps ==
  ASSUME ReconcilerInv, UNCHANGED Workflow, LateLands
  PROVE  ReconcilerInv'
<1>1. Lingering
  BY DEF LateLands, ReconcilerInv, CallInv
<1>2. PICK a \in late : Lands(a) /\ late' = late \ {a}
  BY DEF LateLands
<1>3. ClusterTypeOK /\ a \in Upserts \cup Deletes \cup Gets
  BY DEF ReconcilerInv, TypeOK, ClusterTypeOK
<1>4. UNCHANGED <<call, tries, reply, budget>>
  BY DEF LateLands, line
<1>5. ClusterTypeOK'
  BY <1>2, <1>3, <1>4, LandsTyped DEF ClusterTypeOK
<1> QED
  BY <1>1, <1>4, <1>5, StoreChanges DEF Missing, Clean

LEMMA EnvironmentKeeps ==
  ASSUME ReconcilerInv, UNCHANGED Workflow, ClusterStep
  PROVE  ReconcilerInv'
  BY SucceedsKeeps, AttemptFailsKeeps, LateKeeps, ElsewhereKeeps DEF ClusterStep

-----------------------------------------------------------------------------
(* The handlers *)

\* The workflow asks for a look, a deletion or an upsert, or hangs up.
LEMMA Calling ==
  ASSUME ClusterTypeOK, UNCHANGED <<store, late, budget>>,
         HangsUp \/ \E a \in Upserts \cup Deletes \cup Gets : Asks(a.op, a.obj, a.manifest)
  PROVE  ClusterTypeOK'
<1>1. \A a \in Upserts \cup Deletes \cup Gets : Activity(a.op, a.obj, a.manifest) = a
  BY DEF Upserts, Deletes, Gets, Activity
<1>2. call' \in {NoCall} \cup Upserts \cup Deletes \cup Gets /\ tries' = 0 /\ reply' = None
  BY <1>1 DEF HangsUp, Asks
<1> QED
  BY <1>2, Answers DEF ClusterTypeOK, store

LEMMA AskForms ==
  /\ \A m \in Manifests, o \in Objects : Asks("apply", o, m) =>
       \E a \in Upserts \cup Deletes \cup Gets : Asks(a.op, a.obj, a.manifest)
  /\ \A o \in Objects : Asks("get", o, None) \/ Asks("delete", o, None) =>
       \E a \in Upserts \cup Deletes \cup Gets : Asks(a.op, a.obj, a.manifest)
<1>1. \A m \in Manifests, o \in Objects :
        /\ Activity("apply", o, m) \in Upserts
        /\ Activity("apply", o, m).op = "apply" /\ Activity("apply", o, m).obj = o
        /\ Activity("apply", o, m).manifest = m
  BY DEF Activity, Upserts
<1>2. \A o \in Objects :
        /\ Activity("get", o, None) \in Gets /\ Activity("delete", o, None) \in Deletes
        /\ Activity("get", o, None).op = "get" /\ Activity("get", o, None).obj = o
        /\ Activity("get", o, None).manifest = None
        /\ Activity("delete", o, None).op = "delete" /\ Activity("delete", o, None).obj = o
        /\ Activity("delete", o, None).manifest = None
  BY DEF Activity, Gets, Deletes
<1> QED
  BY <1>1, <1>2

\* A handler outside the saga disturbs neither the store nor the saga.
LEMMA HandlerKeeps ==
  ASSUME ReconcilerInv, UNCHANGED <<store, saga>>, pc # "saga", pc' # "saga",
         TypeOK', CallInv'
  PROVE  ReconcilerInv'
  BY DEF ReconcilerInv, GreenInv, Settled, Told, Clean, Missing, store, saga

LEMMA AppliedKeeps == ReconcilerInv /\ Applied => ReconcilerInv'
<1> SUFFICES ASSUME ReconcilerInv, Applied PROVE ReconcilerInv'
  OBVIOUS
<1> USE DEF Applied, entity
<1>1. ClusterTypeOK'
  BY Calling, AskForms, Answers DEF ReconcilerInv, TypeOK
<1>2. TypeOK'
  BY <1>1, Answers, ReconcilerAssumption DEF ReconcilerInv, TypeOK, S!TypeOK, saga
<1>3. CallInv'
  BY Kinds, Answers DEF ReconcilerInv, TypeOK, CallInv, Asks, HangsUp, Look0, Erase0, store
<1> QED
  BY <1>2, <1>3, HandlerKeeps DEF ReconcilerInv, TypeOK, store, saga

LEMMA PollAgainKeeps == ReconcilerInv /\ PollAgain => ReconcilerInv'
<1> SUFFICES ASSUME ReconcilerInv, PollAgain PROVE ReconcilerInv'
  OBVIOUS
<1> USE DEF PollAgain, Glimpse
<1>1. ClusterTypeOK'
  BY Calling, AskForms, Answers DEF ReconcilerInv, TypeOK
<1>2. TypeOK'
  BY <1>1, Answers, ReconcilerAssumption DEF ReconcilerInv, TypeOK, S!TypeOK, saga
<1>3. CallInv'
  BY Kinds, Answers DEF ReconcilerInv, TypeOK, CallInv, Asks, HangsUp, Look0, Erase0, store
<1> QED
  BY <1>2, <1>3, HandlerKeeps DEF ReconcilerInv, TypeOK, store, saga

LEMMA ReadyKeeps == ReconcilerInv /\ Ready => ReconcilerInv'
<1> SUFFICES ASSUME ReconcilerInv, Ready PROVE ReconcilerInv'
  OBVIOUS
<1> USE DEF Ready, Rests, Found
<1>1. ClusterTypeOK'
  BY Calling, AskForms, Answers DEF ReconcilerInv, TypeOK
<1>2. TypeOK'
  BY <1>1, Answers, ReconcilerAssumption DEF ReconcilerInv, TypeOK, S!TypeOK, saga
<1>3. CallInv'
  BY Kinds, Answers DEF ReconcilerInv, TypeOK, CallInv, Asks, HangsUp, Look0, Erase0, store
<1> QED
  BY <1>2, <1>3, HandlerKeeps DEF ReconcilerInv, TypeOK, store, saga

LEMMA ApplyFailsKeeps == ReconcilerInv /\ ApplyFails => ReconcilerInv'
<1> SUFFICES ASSUME ReconcilerInv, ApplyFails PROVE ReconcilerInv'
  OBVIOUS
<1> USE DEF ApplyFails, Rests, GivesUp
<1>1. ClusterTypeOK'
  BY Calling, AskForms, Answers DEF ReconcilerInv, TypeOK
<1>2. TypeOK'
  BY <1>1, Answers, ReconcilerAssumption DEF ReconcilerInv, TypeOK, S!TypeOK, saga
<1>3. CallInv'
  BY Kinds, Answers DEF ReconcilerInv, TypeOK, CallInv, Asks, HangsUp, Look0, Erase0, store
<1> QED
  BY <1>2, <1>3, HandlerKeeps DEF ReconcilerInv, TypeOK, store, saga

LEMMA InitFailsKeeps == ReconcilerInv /\ InitFails => ReconcilerInv'
<1> SUFFICES ASSUME ReconcilerInv, InitFails PROVE ReconcilerInv'
  OBVIOUS
<1> USE DEF InitFails, Rests, GivesUp, Glimpse, Gone, Found
<1>1. ClusterTypeOK'
  BY Calling, AskForms, Answers DEF ReconcilerInv, TypeOK
<1>2. TypeOK'
  BY <1>1, Answers, ReconcilerAssumption DEF ReconcilerInv, TypeOK, S!TypeOK, saga
<1>3. CallInv'
  BY Kinds, Answers DEF ReconcilerInv, TypeOK, CallInv, Asks, HangsUp, Look0, Erase0, store
<1> QED
  BY <1>2, <1>3, HandlerKeeps DEF ReconcilerInv, TypeOK, store, saga

LEMMA StartInitKeeps == ReconcilerInv /\ StartInit => ReconcilerInv'
<1> SUFFICES ASSUME ReconcilerInv, StartInit PROVE ReconcilerInv'
  OBVIOUS
<1> USE DEF StartInit, Rest, Begins
<1>1. ClusterTypeOK'
  BY Calling, AskForms, Answers DEF ReconcilerInv, TypeOK
<1>2. TypeOK'
  BY <1>1, Answers, ReconcilerAssumption DEF ReconcilerInv, TypeOK, S!TypeOK, saga
<1>3. CallInv'
  BY Kinds, Answers DEF ReconcilerInv, TypeOK, CallInv, Asks, HangsUp, Look0, Erase0, store
<1> QED
  BY <1>2, <1>3, HandlerKeeps DEF ReconcilerInv, TypeOK, store, saga

LEMMA ExecApplyKeeps == ReconcilerInv /\ ExecApply => ReconcilerInv'
<1> SUFFICES ASSUME ReconcilerInv, ExecApply PROVE ReconcilerInv'
  OBVIOUS
<1> USE DEF ExecApply, Rest, Begins, Commands
<1>0. cmd.to \in Specs /\ cmd.to \in Manifests
  <2>1. cmd \in Commands
    BY DEF ReconcilerInv, TypeOK, NoCommand, Command, None
  <2> QED
    BY <2>1, Answers DEF Commands
<1>1. ClusterTypeOK'
  BY <1>0, Calling, AskForms, Answers DEF ReconcilerInv, TypeOK
<1>2. TypeOK'
  BY <1>0, <1>1, Answers, ReconcilerAssumption DEF ReconcilerInv, TypeOK, S!TypeOK, saga
<1>3. CallInv'
  BY <1>0, Kinds, Answers DEF ReconcilerInv, TypeOK, CallInv, Asks, HangsUp, Look0, Erase0, store
<1> QED
  BY <1>2, <1>3, HandlerKeeps DEF ReconcilerInv, TypeOK, store, saga

LEMMA TickKeeps == ReconcilerInv /\ Tick => ReconcilerInv'
<1> SUFFICES ASSUME ReconcilerInv, Tick PROVE ReconcilerInv'
  OBVIOUS
<1> USE DEF Tick, Rest, entity
<1>1. ClusterTypeOK'
  BY Calling, AskForms, Answers DEF ReconcilerInv, TypeOK
<1>2. TypeOK'
  BY <1>1, Answers, ReconcilerAssumption DEF ReconcilerInv, TypeOK, S!TypeOK, saga
<1>3. CallInv'
  BY Kinds, Answers DEF ReconcilerInv, TypeOK, CallInv, Asks, HangsUp, Look0, Erase0, store
<1> QED
  BY <1>2, <1>3, HandlerKeeps DEF ReconcilerInv, TypeOK, store, saga

LEMMA LookKeeps == ReconcilerInv /\ Look => ReconcilerInv'
<1> SUFFICES ASSUME ReconcilerInv, Look PROVE ReconcilerInv'
  OBVIOUS
<1> USE DEF Look, Begins, Rests, Found
<1>0. /\ st' \in [live : Manifests \cup {None}, ready : BOOLEAN, drifted : BOOLEAN]
      /\ spec \in Manifests
  <2>1. Astray(reply) \in BOOLEAN
    BY DEF Astray
  <2> QED
    BY <2>1, Answers DEF ReconcilerInv, TypeOK
<1>1. ClusterTypeOK'
  BY <1>0, Calling, AskForms, Answers DEF ReconcilerInv, TypeOK
<1>2. TypeOK'
  BY <1>0, <1>1, Answers, ReconcilerAssumption DEF ReconcilerInv, TypeOK, S!TypeOK, saga
<1>3. CallInv'
  <2>1. CASE Astray(reply)
    <3>1. pc' = "apply" /\ call' \in Upserts /\ call'.obj = Web
      BY <2>1, <1>0, Kinds, Answers DEF Asks
    <3> QED
      BY <3>1, Kinds, Answers DEF ReconcilerInv, CallInv, store
  <2>2. CASE ~Astray(reply)
    <3>1. pc' = "rest" /\ call' = NoCall /\ reply' = None
      BY <2>2 DEF HangsUp
    <3> QED
      BY <3>1, Kinds, Answers DEF ReconcilerInv, CallInv, store
  <2> QED
    BY <2>1, <2>2
<1> QED
  BY <1>2, <1>3, HandlerKeeps DEF ReconcilerInv, TypeOK, store, saga

LEMMA LookFailsKeeps == ReconcilerInv /\ LookFails => ReconcilerInv'
<1> SUFFICES ASSUME ReconcilerInv, LookFails PROVE ReconcilerInv'
  OBVIOUS
<1> USE DEF LookFails, Rests, entity
<1>1. ClusterTypeOK'
  BY Calling, AskForms, Answers DEF ReconcilerInv, TypeOK
<1>2. TypeOK'
  BY <1>1, Answers, ReconcilerAssumption DEF ReconcilerInv, TypeOK, S!TypeOK, saga
<1>3. CallInv'
  BY Kinds, Answers DEF ReconcilerInv, TypeOK, CallInv, Asks, HangsUp, Look0, Erase0, store
<1> QED
  BY <1>2, <1>3, HandlerKeeps DEF ReconcilerInv, TypeOK, store, saga

LEMMA FinalizeKeeps == ReconcilerInv /\ Finalize => ReconcilerInv'
<1> SUFFICES ASSUME ReconcilerInv, Finalize PROVE ReconcilerInv'
  OBVIOUS
<1> USE DEF Finalize, Rest, entity
<1>1. ClusterTypeOK'
  BY Calling, AskForms, Answers DEF ReconcilerInv, TypeOK
<1>2. TypeOK'
  BY <1>1, Answers, ReconcilerAssumption DEF ReconcilerInv, TypeOK, S!TypeOK, saga
<1>3. CallInv'
  BY Kinds, Answers DEF ReconcilerInv, TypeOK, CallInv, Asks, HangsUp, Look0, Erase0, store
<1> QED
  BY <1>2, <1>3, HandlerKeeps DEF ReconcilerInv, TypeOK, store, saga

LEMMA ErasedKeeps == ReconcilerInv /\ Erased => ReconcilerInv'
<1> SUFFICES ASSUME ReconcilerInv, Erased PROVE ReconcilerInv'
  OBVIOUS
<1> USE DEF Erased, entity
<1>1. ClusterTypeOK'
  BY Calling, AskForms, Answers DEF ReconcilerInv, TypeOK
<1>2. TypeOK'
  BY <1>1, Answers, ReconcilerAssumption DEF ReconcilerInv, TypeOK, S!TypeOK, saga
<1>3. CallInv'
  BY Kinds, Answers DEF ReconcilerInv, TypeOK, CallInv, Asks, HangsUp, Look0, Erase0, store
<1> QED
  BY <1>2, <1>3, HandlerKeeps DEF ReconcilerInv, TypeOK, store, saga

LEMMA StillThereKeeps == ReconcilerInv /\ StillThere => ReconcilerInv'
<1> SUFFICES ASSUME ReconcilerInv, StillThere PROVE ReconcilerInv'
  OBVIOUS
<1> USE DEF StillThere, entity
<1>1. ClusterTypeOK'
  BY Calling, AskForms, Answers DEF ReconcilerInv, TypeOK
<1>2. TypeOK'
  BY <1>1, Answers, ReconcilerAssumption DEF ReconcilerInv, TypeOK, S!TypeOK, saga
<1>3. CallInv'
  BY Kinds, Answers DEF ReconcilerInv, TypeOK, CallInv, Asks, HangsUp, Look0, Erase0, store
<1> QED
  BY <1>2, <1>3, HandlerKeeps DEF ReconcilerInv, TypeOK, store, saga

LEMMA DeletedKeeps == ReconcilerInv /\ Deleted => ReconcilerInv'
<1> SUFFICES ASSUME ReconcilerInv, Deleted PROVE ReconcilerInv'
  OBVIOUS
<1> USE DEF Deleted, Rests, Gone
<1>1. ClusterTypeOK'
  BY Calling, AskForms, Answers DEF ReconcilerInv, TypeOK
<1>2. TypeOK'
  BY <1>1, Answers, ReconcilerAssumption DEF ReconcilerInv, TypeOK, S!TypeOK, saga
<1>3. CallInv'
  BY Kinds, Answers DEF ReconcilerInv, TypeOK, CallInv, Missing, Asks, HangsUp, Look0, Erase0, store
<1> QED
  BY <1>2, <1>3, HandlerKeeps DEF ReconcilerInv, TypeOK, store, saga

LEMMA DeleteFailsKeeps == ReconcilerInv /\ DeleteFails => ReconcilerInv'
<1> SUFFICES ASSUME ReconcilerInv, DeleteFails PROVE ReconcilerInv'
  OBVIOUS
<1> USE DEF DeleteFails, Rests, Gone
<1>1. ClusterTypeOK'
  BY Calling, AskForms, Answers DEF ReconcilerInv, TypeOK
<1>2. TypeOK'
  BY <1>1, Answers, ReconcilerAssumption DEF ReconcilerInv, TypeOK, S!TypeOK, saga
<1>3. CallInv'
  BY Kinds, Answers DEF ReconcilerInv, TypeOK, CallInv, Asks, HangsUp, Look0, Erase0, store
<1> QED
  BY <1>2, <1>3, HandlerKeeps DEF ReconcilerInv, TypeOK, store, saga

LEMMA SendKeeps == ASSUME NEW c \in Commands, ReconcilerInv, Send(c) PROVE ReconcilerInv'
<1> USE DEF Send, cluster, line, control
<1>1. TypeOK'
  BY ReconcilerAssumption DEF ReconcilerInv, TypeOK, ClusterTypeOK, S!TypeOK, store, saga
<1>2. CallInv'
  BY DEF ReconcilerInv, CallInv, Missing, store
<1>3. GreenInv'
  BY DEF ReconcilerInv, GreenInv, ForwardCalls, UndoCalls, Settled, Told, Clean, Missing, store, saga
<1> QED
  BY <1>1, <1>2, <1>3 DEF ReconcilerInv

LEMMA DeleteKeeps == ReconcilerInv /\ Delete => ReconcilerInv'
<1> SUFFICES ASSUME ReconcilerInv, Delete PROVE ReconcilerInv'
  OBVIOUS
<1> USE DEF Delete, cluster, line, control
<1>1. TypeOK'
  BY DEF ReconcilerInv, TypeOK, ClusterTypeOK, S!TypeOK, store, saga
<1>2. CallInv'
  BY DEF ReconcilerInv, CallInv, Missing, store
<1>3. GreenInv'
  BY DEF ReconcilerInv, GreenInv, ForwardCalls, UndoCalls, Settled, Told, Clean, Missing, store, saga
<1> QED
  BY <1>1, <1>2, <1>3 DEF ReconcilerInv

LEMMA TurnKeeps == ReconcilerInv /\ (BeginDelete \/ Refuse) => ReconcilerInv'
<1> SUFFICES ASSUME ReconcilerInv, BeginDelete \/ Refuse PROVE ReconcilerInv'
  OBVIOUS
<1> USE DEF BeginDelete, Refuse, Rest, cluster, line, control
<1>1. TypeOK'
  BY DEF ReconcilerInv, TypeOK, ClusterTypeOK, S!TypeOK, store, saga
<1>2. CallInv'
  BY DEF ReconcilerInv, CallInv, Missing, store
<1> QED
  BY <1>1, <1>2, HandlerKeeps DEF ReconcilerInv, CallInv, store, saga

\* Init may be cut off anywhere, and its attempt given up.
LEMMA CancelKeeps == ReconcilerInv /\ CancelInit => ReconcilerInv'
<1> SUFFICES ASSUME ReconcilerInv, CancelInit PROVE ReconcilerInv'
  OBVIOUS
<1> USE DEF CancelInit, Abandon, entity
<1>1. ClusterTypeOK'
  BY Answers, Kinds DEF ReconcilerInv, TypeOK, ClusterTypeOK, HangsUp, InProgress, Gets, store
<1>2. TypeOK'
  BY <1>1, Answers DEF ReconcilerInv, TypeOK, S!TypeOK, saga
<1>3. CallInv' /\ pc # "saga"
  BY DEF ReconcilerInv, CallInv, HangsUp, store, None
<1> QED
  BY <1>2, <1>3, HandlerKeeps

-----------------------------------------------------------------------------
(* The saga *)

\* A step of the saga's bookkeeping, or of the activity it awaits.
LEMMA SagaKeeps ==
  ASSUME ReconcilerInv, UNCHANGED <<store, late, phase>>, pc' = "saga", pc \in {"rest", "saga"},
         phase # "deleted", job' = job, job = None, call' = NoCall => reply' = None,
         cmd \in Commands, cmd' = cmd,
         TypeOK', GreenInv'
  PROVE  ReconcilerInv'
  BY DEF ReconcilerInv, CallInv, Missing, store

LEMMA BlueGreenKeeps == ReconcilerInv /\ ExecBlueGreen => ReconcilerInv'
<1> SUFFICES ASSUME ReconcilerInv, ExecBlueGreen PROVE ReconcilerInv'
  OBVIOUS
<1> USE DEF ExecBlueGreen, Rest, S!Begin, cluster, line, entity
<1>1. TypeOK'
  BY DEF ReconcilerInv, TypeOK, ClusterTypeOK, S!TypeOK, store
<1>2. GreenInv'
  BY Answers, Kinds DEF ReconcilerInv, GreenInv, ForwardCalls, CallInv, None
<1>3. cmd \in Commands
  BY DEF ReconcilerInv, TypeOK, NoCommand, Command, None
<1> QED
  BY <1>1, <1>2, <1>3, SagaKeeps, Answers DEF ReconcilerInv, CallInv

LEMMA SagaCallsKeeps == ReconcilerInv /\ SagaCalls => ReconcilerInv'
<1> SUFFICES ASSUME ReconcilerInv, SagaCalls PROVE ReconcilerInv'
  OBVIOUS
<1> USE DEF SagaCalls, InSaga, control
<1>1. /\ pc = "saga" /\ phase # "deleted" /\ job = None /\ cmd \in Commands
      /\ cmd.to \in Specs /\ cmd.to \in Manifests
  BY Answers DEF ReconcilerInv, CallInv, Commands
<1>2. ClusterTypeOK'
  BY <1>1, Calling, AskForms, Answers DEF ReconcilerInv, TypeOK
<1>3. TypeOK'
  BY <1>1, <1>2 DEF ReconcilerInv, TypeOK, S!TypeOK, saga
<1>4. reply' = None /\ reply' # "ok"
  BY Answers DEF Asks
<1>5. GreenInv'
  <2>1. CASE InSaga("forward", {1}) /\ Asks("apply", Green, cmd.to)
    BY <2>1, <1>1, <1>4, Kinds, Answers
    DEF ReconcilerInv, GreenInv, ForwardCalls, Asks, Settled, Told, Clean, Missing, store, saga
  <2>2. CASE InSaga("forward", {3}) /\ Asks("apply", Web, cmd.to)
    BY <2>2, <1>1, <1>4, Kinds, Answers
    DEF ReconcilerInv, GreenInv, ForwardCalls, Asks, Settled, Told, Clean, Missing, store, saga
  <2>3. CASE InSaga("forward", {4}) /\ Asks("delete", Green, None)
    BY <2>3, <1>1, <1>4
    DEF ReconcilerInv, GreenInv, ForwardCalls, Retire0, Asks, Settled, Told, Clean, Missing, store, saga
  <2>4. CASE InSaga("undo", {1}) /\ Asks("delete", Green, None)
    BY <2>4, <1>1, <1>4
    DEF ReconcilerInv, GreenInv, UndoCalls, Retire0, Asks, Settled, Told, Clean, Missing, store, saga
  <2> QED
    BY <2>1, <2>2, <2>3, <2>4
<1> QED
  BY <1>1, <1>3, <1>4, <1>5, SagaKeeps DEF store

\* What the saga holds once its activity was answered with ok: StepSucceeds.
LEMMA SagaForward ==
  ASSUME ReconcilerInv, pc = "saga", S!StepSucceeds, pc' = "saga", call' = NoCall,
         reply' = None, UNCHANGED store, at = 4 => reply = "ok"
  PROVE  S!TypeOK' /\ GreenInv'
<1> USE DEF S!StepSucceeds
<1>1. ForwardCalls
  BY DEF ReconcilerInv, GreenInv
<1>2. S!TypeOK'
  BY <1>1 DEF ReconcilerInv, TypeOK, S!TypeOK, ForwardCalls
<1>3. CASE at = 4
  BY <1>1, <1>2, <1>3 DEF GreenInv, ForwardCalls, Settled, Clean, Missing, store
<1>4. CASE at # 4
  <2>1. at' \in 1 .. 4 /\ mode' = "forward" /\ errs' = <<>> /\ reply' # "ok"
    BY <1>1, <1>4, Answers DEF ForwardCalls
  <2> QED
    BY <1>2, <2>1 DEF GreenInv, ForwardCalls
<1> QED
  BY <1>3, <1>4

\* A failure at the first step is told; a later one leads to its undoing.
LEMMA SagaFails ==
  ASSUME ReconcilerInv, pc = "saga", S!StepFails, pc' = "saga", call' = NoCall,
         reply' = None, UNCHANGED store
  PROVE  S!TypeOK' /\ GreenInv'
<1> DEFINE e == [what |-> "step", step |-> at]
<1>1. ForwardCalls /\ errs' = <<e>> /\ mode' = "undo" /\ at' = at - 1 /\ undone' = undone
  BY DEF ReconcilerInv, GreenInv, S!StepFails
<1>2. at \in 1 .. 4 /\ at' \in 0 .. 3
  BY <1>1 DEF ForwardCalls
<1>3. e \in S!Errors /\ e.step = at
  BY <1>2 DEF S!Errors, S!Steps
<1> HIDE DEF e
<1>4. errs' \in Seq(S!Errors) /\ 1 \in DOMAIN errs' /\ errs'[1] = e
  BY <1>1, <1>3
<1>5. S!TypeOK'
  BY <1>1, <1>2, <1>4 DEF ReconcilerInv, TypeOK, S!TypeOK
<1>6. at' = 0 => Told'
  BY <1>1, <1>2, <1>3, <1>4 DEF Told
<1>7. UndoCalls'
  BY <1>1, <1>2, <1>6, Answers DEF UndoCalls, Settled
<1> QED
  BY <1>1, <1>5, <1>7 DEF GreenInv

LEMMA SagaUndoes ==
  ASSUME ReconcilerInv, pc = "saga", S!Compensate(reply = "ok"), pc' = "saga",
         call' = NoCall, reply' = None, UNCHANGED store
  PROVE  S!TypeOK' /\ GreenInv'
<1> DEFINE e == [what |-> "compensate", step |-> at]
           r == [step |-> at, ok |-> (reply = "ok")]
<1>1. /\ UndoCalls /\ at = 1 /\ at' = 0 /\ mode' = "undo" /\ mode = "undo"
      /\ undone' = Append(undone, r)
      /\ errs' = IF reply = "ok" THEN errs ELSE Append(errs, e)
  BY DEF ReconcilerInv, GreenInv, S!Compensate
<1>2. e \in S!Errors /\ e.step = 1 /\ r \in [step : {1}, ok : BOOLEAN]
  BY <1>1 DEF S!Errors, S!Steps
<1>3. errs \in Seq(S!Errors) /\ undone \in Seq([step : {1}, ok : BOOLEAN])
  BY DEF ReconcilerInv, TypeOK, S!TypeOK
<1> HIDE DEF e, r
<1>4. errs' \in Seq(S!Errors) /\ undone' \in Seq([step : {1}, ok : BOOLEAN])
  BY <1>1, <1>2, <1>3
<1>5. S!TypeOK'
  BY <1>1, <1>4 DEF S!TypeOK
<1>6. CASE reply = "ok"
  <2>1. Clean'
    BY <1>1, <1>6 DEF UndoCalls, Clean, Missing, store
  <2> QED
    BY <2>1, <1>1, <1>5, Answers DEF GreenInv, UndoCalls, Settled
<1>7. CASE reply # "ok"
  <2>1. Len(errs) + 1 \in DOMAIN errs' /\ errs'[Len(errs) + 1] = e
    BY <1>1, <1>2, <1>3, <1>7
  <2>2. Told'
    BY <2>1, <1>2 DEF Told
  <2> QED
    BY <2>2, <1>1, <1>5, Answers DEF GreenInv, UndoCalls, Settled
<1> QED
  BY <1>6, <1>7

LEMMA SagaAnsweredKeeps == ReconcilerInv /\ SagaAnswered => ReconcilerInv'
<1> SUFFICES ASSUME ReconcilerInv, SagaAnswered PROVE ReconcilerInv'
  OBVIOUS
<1> USE DEF SagaAnswered, entity, control
<1>1. /\ pc = "saga" /\ pc' = "saga" /\ phase # "deleted" /\ job = None /\ cmd \in Commands
      /\ call' = NoCall /\ reply' = None /\ UNCHANGED store
  BY Answers DEF ReconcilerInv, CallInv, HangsUp
<1>2. ClusterTypeOK'
  BY Calling DEF ReconcilerInv, TypeOK
<1>3. S!TypeOK' /\ GreenInv'
  BY <1>1, SagaForward, SagaFails, SagaUndoes
<1>4. TypeOK'
  BY <1>2, <1>3 DEF ReconcilerInv, TypeOK
<1> QED
  BY <1>1, <1>3, <1>4, SagaKeeps DEF store

LEMMA WarmupKeeps == ReconcilerInv /\ Warmup => ReconcilerInv'
<1> SUFFICES ASSUME ReconcilerInv, Warmup PROVE ReconcilerInv'
  OBVIOUS
<1> USE DEF Warmup, InSaga, entity, control, line
<1>1. /\ pc = "saga" /\ pc' = "saga" /\ phase # "deleted" /\ job = None /\ cmd \in Commands
      /\ mode = "forward" /\ at = 2
  BY Answers DEF ReconcilerInv, CallInv
<1>2. call = NoCall /\ reply = None
  BY <1>1 DEF ReconcilerInv, GreenInv, ForwardCalls, CallInv
<1>3. ClusterTypeOK'
  BY ClusterAssumption DEF ReconcilerInv, TypeOK, ClusterTypeOK, store
<1>4. S!TypeOK' /\ GreenInv'
  BY <1>1, <1>2, SagaForward, SagaFails
<1>5. TypeOK'
  BY <1>3, <1>4 DEF ReconcilerInv, TypeOK
<1> QED
  BY <1>1, <1>2, <1>4, <1>5, SagaKeeps DEF store

LEMMA SagaUnwindsKeeps == ReconcilerInv /\ SagaUnwinds => ReconcilerInv'
<1> SUFFICES ASSUME ReconcilerInv, SagaUnwinds PROVE ReconcilerInv'
  OBVIOUS
<1> USE DEF SagaUnwinds, S!SkipStep, S!ReturnErrors, cluster, line, entity, control
<1>1. /\ pc = "saga" /\ pc' = "saga" /\ phase # "deleted" /\ job = None /\ cmd \in Commands
      /\ mode = "undo" /\ at # 1 /\ UndoCalls
  BY Answers DEF ReconcilerInv, CallInv, GreenInv
<1>2. call = NoCall /\ reply = None
  BY <1>1 DEF ReconcilerInv, UndoCalls, CallInv
<1>3. TypeOK'
  BY <1>1 DEF ReconcilerInv, TypeOK, ClusterTypeOK, S!TypeOK, UndoCalls, store
<1>4. Settled' = Settled
  BY DEF Settled, Told, Clean, Missing, store
<1>5. GreenInv'
  BY <1>1, <1>2, <1>4, Answers DEF GreenInv, UndoCalls
<1> QED
  BY <1>1, <1>2, <1>3, <1>5, SagaKeeps DEF store

LEMMA SagaEndsKeeps == ReconcilerInv /\ SagaEnds => ReconcilerInv'
<1> SUFFICES ASSUME ReconcilerInv, SagaEnds PROVE ReconcilerInv'
  OBVIOUS
<1> USE DEF SagaEnds, Rests
<1>1. ClusterTypeOK'
  BY Calling DEF ReconcilerInv, TypeOK
<1>2. TypeOK'
  BY <1>1, Answers DEF ReconcilerInv, TypeOK, S!TypeOK, saga
<1>3. CallInv'
  BY Answers DEF ReconcilerInv, CallInv, HangsUp, store
<1>4. GreenInv'
  BY DEF ReconcilerInv, GreenInv, Settled, Told, Clean, Missing, store, saga
<1> QED
  BY <1>2, <1>3, <1>4 DEF ReconcilerInv

-----------------------------------------------------------------------------

LEMMA ReconcilerStarts == Init => ReconcilerInv
<1> SUFFICES ASSUME Init PROVE ReconcilerInv
  OBVIOUS
<1> USE DEF Init, ClusterInit, S!Init
<1>1. TypeOK
  <2>1. ClusterTypeOK
    BY ClusterAssumption, Answers DEF ClusterTypeOK, Found
  <2>2. S!TypeOK
    BY DEF S!TypeOK
  <2>3. spec \in Specs /\ 0 \in 0 .. MaxCommands
    BY ReconcilerAssumption
  <2> QED
    BY <2>1, <2>2, <2>3, Answers DEF TypeOK
<1>2. CallInv
  BY DEF CallInv
<1>3. GreenInv
  BY Answers DEF GreenInv, Settled, Clean, Missing
<1> QED
  BY <1>1, <1>2, <1>3 DEF ReconcilerInv

LEMMA StutterKeeps == ReconcilerInv /\ UNCHANGED vars => ReconcilerInv'
<1> SUFFICES ASSUME ReconcilerInv, UNCHANGED vars PROVE ReconcilerInv'
  OBVIOUS
<1> USE DEF vars, cluster, store, line, entity, control, saga
<1>1. TypeOK'
  BY DEF ReconcilerInv, TypeOK, ClusterTypeOK, S!TypeOK
<1>2. CallInv'
  BY DEF ReconcilerInv, CallInv, Missing
<1>3. GreenInv'
  BY DEF ReconcilerInv, GreenInv, ForwardCalls, UndoCalls, Settled, Told, Clean, Missing
<1> QED
  BY <1>1, <1>2, <1>3 DEF ReconcilerInv

LEMMA ReconcilerKeeps == ReconcilerInv /\ [Next]_vars => ReconcilerInv'
<1> SUFFICES ASSUME ReconcilerInv, [Next]_vars PROVE ReconcilerInv'
  OBVIOUS
<1>1. WaitReady => ReconcilerInv'
  BY AppliedKeeps, PollAgainKeeps, ReadyKeeps, ApplyFailsKeeps, InitFailsKeeps, CancelKeeps
  DEF WaitReady
<1>2. BlueGreen => ReconcilerInv'
  BY SagaCallsKeeps, SagaAnsweredKeeps, WarmupKeeps, SagaUnwindsKeeps, SagaEndsKeeps
  DEF BlueGreen
<1>3. Teardown => ReconcilerInv'
  BY TurnKeeps, FinalizeKeeps, ErasedKeeps, StillThereKeeps, DeletedKeeps, DeleteFailsKeeps
  DEF Teardown
<1>4. Serve \/ Tick => ReconcilerInv'
  BY StartInitKeeps, ExecApplyKeeps, BlueGreenKeeps, LookKeeps, LookFailsKeeps, TickKeeps
  DEF Serve
<1>5. Delete \/ (\E c \in Commands : Send(c)) => ReconcilerInv'
  BY DeleteKeeps, SendKeeps
<1>6. ClusterStep /\ UNCHANGED <<entity, control, saga>> => ReconcilerInv'
  BY EnvironmentKeeps DEF Workflow
<1> QED
  BY <1>1, <1>2, <1>3, <1>4, <1>5, <1>6, StutterKeeps DEF Next, Terminated

\* The inductive invariant of a kind, whatever the cluster does; what it says of
\* the objects needs that no attempt lands after the workflow has given it up.
THEOREM ReconcilerCorrect == Spec => []ReconcilerInv
<1> QED
  BY ReconcilerStarts, ReconcilerKeeps, PTL DEF Spec

\* Every variable keeps its type (k8slib.go, main.go).
THEOREM ReconcilerTypeCorrect == Spec => []TypeOK
<1>1. ReconcilerInv => TypeOK
  BY DEF ReconcilerInv
<1> QED
  BY <1>1, ReconcilerCorrect, PTL

\* deleteAndWaitGone: an entity that says it is deleted has left nothing
\* behind, however many attempts failed and whenever Init was interrupted,
\* provided that no attempt lands after it was given up.
THEOREM NoOrphans == ~Lingering => (Spec => []NoOrphan)
<1> SUFFICES ASSUME ~Lingering PROVE Spec => []NoOrphan
  OBVIOUS
<1>1. ReconcilerInv => NoOrphan
  BY DEF ReconcilerInv, CallInv, Missing, NoOrphan
<1> QED
  BY <1>1, ReconcilerCorrect, PTL

\* BlueGreen over Saga.Run: a green object is left behind only if the error
\* the caller got says so, on the same condition.
THEOREM GreenIsAccounted == ~Lingering => (Spec => []GreenAccounted)
<1> SUFFICES ASSUME ~Lingering PROVE Spec => []GreenAccounted
  OBVIOUS
<1>1. ReconcilerInv => GreenAccounted
  BY DEF ReconcilerInv, GreenInv, Settled, Clean, Missing, Told, GreenAccounted
<1> QED
  BY <1>1, ReconcilerCorrect, PTL

-----------------------------------------------------------------------------
(* The chassis of the example is the chassis *)

\* Which handler runs in which phase, and for which command: this much holds
\* whatever the cluster does, attempts that land late included.
ControlInv ==
  /\ phase \in {"new", "creating", "ready", "deleting"} \cup Gone
  /\ cmd \in Commands \cup {NoCommand}
  /\ pc \in {"rest", "apply", "poll", "look", "saga", "erase", "gone"}
  /\ job \in {None, "init", "apply", "heal"}
  /\ pc \in {"apply", "poll"} <=> job # None
  /\ job = "init" => phase = "creating"
  /\ job = "apply" \/ pc = "saga" => phase = "ready" /\ cmd \in Commands
  /\ job = "heal" \/ pc = "look" => phase = "ready"
  /\ pc \in {"erase", "gone"} => phase = "deleting" /\ cmd = NoCommand

LEMMA NoCommandIsNone == NoCommand \notin Commands
  BY DEF Commands, NoCommand, Command, None

LEMMA Singleton ==
  ASSUME NEW x
  PROVE  <<x>> # <<>> /\ Tail(<<x>>) = <<>> /\ Append(<<>>, x) = <<x>>
  OBVIOUS

LEMMA ControlKeeps == ControlInv /\ [Next]_vars => ControlInv'
<1> SUFFICES ASSUME ControlInv, [Next]_vars PROVE ControlInv'
  OBVIOUS
<1> USE DEF ControlInv, None
<1>1. CASE UNCHANGED <<entity, control>>
  BY <1>1 DEF entity, control
<1>2. CASE WaitReady
  BY <1>2 DEF WaitReady, Applied, PollAgain, Ready, ApplyFails, InitFails, CancelInit,
     Rests, Gone, entity
<1>3. CASE BlueGreen
  BY <1>3 DEF BlueGreen, SagaCalls, SagaAnswered, Warmup, SagaUnwinds, SagaEnds,
     Rests, Gone, entity, control
<1>4. CASE Teardown
  BY <1>4 DEF Teardown, BeginDelete, Refuse, Finalize, Erased, StillThere, Deleted,
     DeleteFails, Rest, Rests, Gone, entity, control
<1>5. CASE Serve \/ Tick
  BY <1>5, NoCommandIsNone DEF Serve, StartInit, ExecApply, ExecBlueGreen, Look, LookFails,
     Tick, Rest, Rests, Begins, Gone, entity, NoCommand, Command
<1>6. CASE Delete \/ \E c \in Commands : Send(c)
  BY <1>6, NoCommandIsNone DEF Delete, Send, control, Gone
<1> QED
  BY <1>1, <1>2, <1>3, <1>4, <1>5, <1>6 DEF Next, Terminated, vars

\* A step of the kind is a step of the lifecycle, or does not show.
LEMMA FollowsStep == ControlInv /\ [Next]_vars => [Lifecycle!Next]_(Lifecycle!vars)
<1> SUFFICES ASSUME ControlInv, [Next]_vars PROVE Lifecycle!Next \/ UNCHANGED Lifecycle!vars
  OBVIOUS
<1> USE DEF ControlInv, None, Lifecycle!Next, Lifecycle!vars, Effect
<1>1. ASSUME UNCHANGED <<phase, cmd, job>>, pc' = pc \/ (pc = "apply" /\ pc' = "poll")
      PROVE  UNCHANGED Lifecycle!vars
  BY <1>1
<1>2. CASE UNCHANGED <<entity, control>> \/ Applied \/ PollAgain \/ SagaCalls \/ SagaAnswered
           \/ Warmup \/ SagaUnwinds \/ StillThere \/ Delete
  BY <1>1, <1>2 DEF Applied, PollAgain, SagaCalls, SagaAnswered, Warmup, SagaUnwinds,
     StillThere, Delete, entity, control
<1>3. ASSUME job' = None, pc' = "rest", job \in {"apply", "heal"} \/ pc = "saga", phase' = phase,
             cmd' = IF job = "heal" THEN cmd ELSE NoCommand
      PROVE  Lifecycle!Executed \/ Lifecycle!Ticked
  <2>1. CASE job = "heal"
    BY <1>3, <2>1 DEF Lifecycle!Ticked
  <2>2. CASE job = "apply" \/ pc = "saga"
    BY <1>3, <2>2, NoCommandIsNone, Singleton DEF Lifecycle!Executed
  <2> QED
    BY <1>3, <2>1, <2>2
<1>4. CASE Ready \/ ApplyFails \/ SagaEnds
  <2>1. CASE Ready /\ job = "init"
    BY <2>1 DEF Ready, Rests, Lifecycle!Created, Gone
  <2>2. CASE SagaEnds \/ ((ApplyFails \/ Ready) /\ job # "init")
    BY <1>3, <2>2 DEF Ready, ApplyFails, SagaEnds, Rests, GivesUp
  <2> QED
    BY <1>4, <2>1, <2>2 DEF ApplyFails
<1>5. CASE CancelInit \/ (InitFails /\ marked)
  BY <1>5 DEF CancelInit, InitFails, GivesUp, Rests, entity, Lifecycle!CreationAborted, Gone
<1>6. CASE InitFails /\ ~marked
  BY <1>6 DEF InitFails, GivesUp, Rests, Lifecycle!End, Gone
<1>7. CASE BeginDelete
  BY <1>7 DEF BeginDelete, control, Lifecycle!BeginDeletion, Gone
<1>8. CASE Refuse
  BY <1>8, NoCommandIsNone, Singleton DEF Refuse, Rest, control, Lifecycle!Refuse, Gone
<1>9. CASE Finalize
  BY <1>9 DEF Finalize, Rest, entity, Lifecycle!Finalize, Lifecycle!Starts, Gone
<1>10. CASE Erased
  BY <1>10 DEF Erased, entity
<1>11. CASE Deleted \/ DeleteFails
  BY <1>11 DEF Deleted, DeleteFails, Rests, Lifecycle!End, Gone
<1>12. CASE StartInit
  BY <1>12 DEF StartInit, Rest, Begins, Lifecycle!Create, Lifecycle!Starts, Gone
<1>13. CASE ExecApply \/ ExecBlueGreen
  BY <1>13, Singleton DEF ExecApply, ExecBlueGreen, Rest, Begins, entity, NoCommand, Command,
     Lifecycle!Execute, Lifecycle!Starts, Gone
<1>14. CASE Tick
  BY <1>14 DEF Tick, Rest, entity, Lifecycle!Tick, Lifecycle!Starts, Gone
<1>15. CASE Look \/ LookFails
  BY <1>15 DEF Look, LookFails, Begins, Rests, entity, Lifecycle!Ticked
<1>16. ASSUME NEW c \in Commands, Send(c) PROVE Lifecycle!Accept(c)
  BY <1>16, NoCommandIsNone, Singleton DEF Send, control, Lifecycle!Accept, Gone
<1> QED
  BY <1>2, <1>4, <1>5, <1>6, <1>7, <1>8, <1>9, <1>10, <1>11, <1>12, <1>13, <1>14, <1>15, <1>16
     DEF Next, WaitReady, BlueGreen, Teardown, Serve, Terminated, vars

\* The handlers of a kind are called the way the lifecycle promises, and hence
\* the loop calls them, whatever the cluster, its callers and its operator do:
\* one at a time, Init first, no command after the deletion began, the
\* finalizer when none is left.
THEOREM KindFollowsLifecycle == Spec => FollowsLifecycle
<1>1. Init => ControlInv /\ Lifecycle!Init
  BY DEF Init, ControlInv, Lifecycle!Init, Effect, Gone, None
<1>2. ControlInv /\ [Next]_vars => ControlInv'
  BY ControlKeeps
<1>3. ControlInv /\ [Next]_vars => [Lifecycle!Next]_(Lifecycle!vars)
  BY FollowsStep
<1> QED
  BY <1>1, <1>2, <1>3, PTL DEF Spec, FollowsLifecycle, Lifecycle!Spec

=============================================================================
