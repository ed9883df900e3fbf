------------------------------- MODULE Cluster -------------------------------
(***************************************************************************)
(* The cluster of examples/reconciler/k8slib and the activities by which a *)
(* workflow reaches it.  An activity is attempted until one attempt is     *)
(* answered or the retry policy is exhausted; an attempt that is given up  *)
(* may have taken effect, or may still be on its way.                      *)
(***************************************************************************)
EXTENDS Naturals

CONSTANTS
  Web, Green,    \* the objects: the entity's own, and the one of a blue-green
  Manifests,     \* desired and live objects
  Converge,      \* fake.Cluster.Converge: the live object after one more look
  MaxAttempts,   \* RetryPolicy.MaximumAttempts
  SlowDelete,    \* may an object stay for a while after its deletion?
  Lingering,     \* may an attempt land after the workflow has given it up?
  Disturbances   \* bound: failed attempts and changes out of band

Objects == {Web, Green}
None    == "none"
Absent  == "absent"

ASSUME ClusterAssumption ==
  /\ Web # Green
  /\ {None, Absent, "ok", "err"} \cap Manifests = {}
  /\ Converge \in [Manifests -> Manifests]
  /\ MaxAttempts \in Nat \ {0} /\ Disturbances \in Nat
  /\ SlowDelete \in BOOLEAN /\ Lingering \in BOOLEAN

VARIABLES
  objects,   \* what the cluster holds
  doomed,    \* objects being deleted
  call,      \* the activity the workflow awaits
  tries,     \* attempts of it that failed
  reply,     \* what it was answered; a Get is answered with what it found
  late,      \* attempts given up that may still land
  budget     \* disturbances left

store   == <<objects, doomed>>
line    == <<call, tries, reply>>
cluster == <<store, line, late, budget>>

Found == Manifests \cup {Absent}

Activity(op, obj, manifest) == [op |-> op, obj |-> obj, manifest |-> manifest]
NoCall  == Activity(None, None, None)
Upserts == [op : {"apply"}, obj : Objects, manifest : Manifests]
Deletes == [op : {"delete"}, obj : Objects, manifest : {None}]
Gets    == [op : {"get"}, obj : Objects, manifest : {None}]

ClusterInit ==
  /\ objects = [o \in Objects |-> Absent] /\ doomed = {}
  /\ call = NoCall /\ tries = 0 /\ reply = None
  /\ late = {} /\ budget = Disturbances

ClusterTypeOK ==
  /\ objects \in [Objects -> Found] /\ doomed \subseteq Objects
  /\ call \in {NoCall} \cup Upserts \cup Deletes \cup Gets
  /\ tries \in 0 .. MaxAttempts - 1
  /\ reply \in {None, "ok", "err"} \cup Found
  /\ late \subseteq Upserts \cup Deletes
  /\ budget \in 0 .. Disturbances

-----------------------------------------------------------------------------
(* The workflow's side *)

Asks(op, obj, manifest) ==
  call' = Activity(op, obj, manifest) /\ tries' = 0 /\ reply' = None

HangsUp == call' = NoCall /\ tries' = 0 /\ reply' = None

-----------------------------------------------------------------------------
(* The cluster's side *)

\* Apply is an upsert; a deleted object that lingers is deleted all the same.
Upsert(o, m) ==
  objects' = [objects EXCEPT ![o] = m] /\ UNCHANGED doomed

Removed(o) ==
  objects' = [objects EXCEPT ![o] = Absent] /\ doomed' = doomed \ {o}

\* Delete tolerates an object that is not there.
Remove(o) ==
  \/ Removed(o)
  \/ SlowDelete /\ objects[o] # Absent /\ doomed' = doomed \cup {o} /\ UNCHANGED objects

\* Every look at an object finds it one step further.
Observe(o) ==
  /\ objects' = IF objects[o] = Absent THEN objects
                ELSE [objects EXCEPT ![o] = Converge[@]]
  /\ UNCHANGED doomed

Lands(a) ==
  \/ a.op = "apply" /\ Upsert(a.obj, a.manifest)
  \/ a.op = "delete" /\ Remove(a.obj)
  \/ a.op = "get" /\ Observe(a.obj)

InProgress == call # NoCall /\ reply = None

AttemptSucceeds ==
  /\ InProgress /\ Lands(call)
  /\ reply' = IF call.op = "get" THEN objects'[call.obj] ELSE "ok"
  /\ UNCHANGED <<call, tries, late, budget>>

\* An attempt fails, or its time is up.  It may have had its effect, and it
\* may have it later.  The last one ends the activity with an error.
AttemptFails ==
  /\ InProgress /\ budget > 0 /\ budget' = budget - 1
  /\ \/ UNCHANGED <<store, late>>
     \/ Lands(call) /\ UNCHANGED late
     \/ Lingering /\ call.op # "get" /\ late' = late \cup {call} /\ UNCHANGED store
  /\ IF tries + 1 < MaxAttempts
     THEN tries' = tries + 1 /\ UNCHANGED reply
     ELSE reply' = "err" /\ UNCHANGED tries
  /\ UNCHANGED call

\* Its context is cancelled: the workflow goes on at once, while the attempt,
\* which nobody tells, may be on its way.
Abandon ==
  /\ late' = IF Lingering /\ InProgress /\ call.op # "get"
             THEN late \cup {call} ELSE late
  /\ HangsUp

LateLands ==
  /\ \E a \in late : Lands(a) /\ late' = late \ {a}
  /\ UNCHANGED <<line, budget>>

\* The cluster finishes a deletion.
Reap ==
  /\ \E o \in doomed : Removed(o)
  /\ UNCHANGED <<line, late, budget>>

\* Someone changes the object, or deletes it.
Corrupt(o, m) ==
  /\ budget > 0 /\ budget' = budget - 1
  /\ objects[o] # Absent /\ Upsert(o, m)
  /\ UNCHANGED <<line, late>>

Vanish(o) ==
  /\ budget > 0 /\ budget' = budget - 1
  /\ objects[o] # Absent /\ Removed(o)
  /\ UNCHANGED <<line, late>>

ClusterStep ==
  \/ AttemptSucceeds \/ AttemptFails \/ LateLands \/ Reap
  \/ \E o \in Objects : Vanish(o) \/ \E m \in Manifests : Corrupt(o, m)

=============================================================================
