-------------------------- MODULE EntityLifecycleProofs --------------------------
(***************************************************************************)
(* The lifecycle of an entity, for every value of the constants: Init runs *)
(* once, the finalizer runs alone and leaves no caller behind, and the     *)
(* cache of completed requests stays bounded and consistent.               *)
(***************************************************************************)
EXTENDS EntityInvariants, EntityLoopProofs

-----------------------------------------------------------------------------
(* What the steps of the scheduler and the events leave alone *)

\* Neither an event nor the scheduler moves the root or its lifecycle.
LEMMA DeliverFrame ==
  ASSUME Deliver
  PROVE  /\ UNCHANGED <<machine, task>>
         /\ initRes' = initRes \/ initRes' \in {"ok", "err"}
BY DEF Deliver, RejectUpdate, AnswerDuplicate, EnqueueUpdate, DeliverDelete,
       DeliverCancel, DeliverInit, DeliverResult, DeliverTimer, machine, inbox, callers

LEMMA ScheduleFrame ==
  ASSUME Schedule
  PROVE  /\ UNCHANGED <<initialized, phase, cache, tags, pending, processed,
                        cancelled, initRes, pc, cur, ready, history>>
         /\ pc = "closed" => task # "gather"
BY DEF Schedule, StartTask, RunRoot, Yield, HandlerReturn, machine, life, cache,
       tags, inbox, creation, callers, history, Gathering

-----------------------------------------------------------------------------
(* The phase follows the root. *)

LEMMA PhaseNext ==
  ASSUME TypeOK, PhaseInv, [Next]_vars
  PROVE  PhaseInv'
<1> USE DEF PhaseInv, TypeOK, life, creation, history, Goto, Return, Root, Awaits
<1>1. CASE Deliver
  BY <1>1, DeliverFrame DEF machine
<1>2. CASE Schedule
  <2>1. marked => marked'
    BY <1>2 DEF Schedule, StartTask, RunRoot, Yield, HandlerReturn, machine
  <2>. QED BY <1>2, <2>1, ScheduleFrame
<1>3. CASE SetLabel \/ Terminated \/ UNCHANGED vars
  BY <1>3 DEF SetLabel, Terminated, vars
<1>4. CASE AwaitCanceled
  BY <1>4 DEF AwaitCanceled
<1>5. CASE Start
  BY <1>5 DEF Start
<1>6. CASE StartInit
  BY <1>6 DEF StartInit
<1>7. CASE CancelInit
  BY <1>7 DEF CancelInit
<1>8. CASE InitSucceeded
  BY <1>8 DEF InitSucceeded
<1>9. CASE InitAborted
  BY <1>9 DEF InitAborted
<1>10. CASE InitFailed
  BY <1>10 DEF InitFailed
<1>11. CASE BeginDelete
  BY <1>11 DEF BeginDelete
<1>12. CASE RejectPending
  BY <1>12 DEF RejectPending
<1>13. CASE Finalize
  BY <1>13 DEF Finalize
<1>14. CASE Deleted
  BY <1>14 DEF Deleted
<1>15. CASE ExecLabels
  BY <1>15 DEF ExecLabels, Dequeues
<1>16. CASE ExecBegin
  BY <1>16 DEF ExecBegin, Dequeues
<1>17. CASE ExecReturn
  BY <1>17 DEF ExecReturn
<1>18. CASE BeginCan
  BY <1>18 DEF BeginCan
<1>19. CASE ContinueAsNew
  BY <1>19 DEF ContinueAsNew
<1>20. CASE Idle
  BY <1>20 DEF Idle
<1>21. CASE Wake
  BY <1>21 DEF Wake
<1>22. CASE TickBegin
  BY <1>22 DEF TickBegin
<1>23. CASE TickReturn
  BY <1>23 DEF TickReturn
<1>. QED
  BY <1>1, <1>2, <1>3, <1>4, <1>5, <1>6, <1>7, <1>8, <1>9, <1>10, <1>11, <1>12, <1>13, <1>14, <1>15, <1>16, <1>17, <1>18, <1>19, <1>20, <1>21, <1>22, <1>23 DEF Next, RootStep

LEMMA CreationNext ==
  ASSUME TypeOK, PhaseInv, CreationInv, [Next]_vars
  PROVE  CreationInv'
<1> USE DEF CreationInv, PhaseInv, TypeOK, None, life, creation, history, Goto, Return, Root, Awaits
<1>1. CASE Deliver
  BY <1>1, DeliverFrame DEF machine
<1>2. CASE Schedule
  BY <1>2, ScheduleFrame
<1>3. CASE SetLabel \/ Terminated \/ UNCHANGED vars
  BY <1>3 DEF SetLabel, Terminated, vars
<1>4. CASE AwaitCanceled
  BY <1>4 DEF AwaitCanceled
<1>5. CASE Start
  BY <1>5 DEF Start
<1>6. CASE StartInit
  BY <1>6 DEF StartInit
<1>7. CASE CancelInit
  BY <1>7 DEF CancelInit
<1>8. CASE InitSucceeded
  BY <1>8 DEF InitSucceeded
<1>9. CASE InitAborted
  BY <1>9 DEF InitAborted
<1>10. CASE InitFailed
  BY <1>10 DEF InitFailed
<1>11. CASE BeginDelete
  BY <1>11 DEF BeginDelete
<1>12. CASE RejectPending
  BY <1>12 DEF RejectPending
<1>13. CASE Finalize
  BY <1>13 DEF Finalize
<1>14. CASE Deleted
  BY <1>14 DEF Deleted
<1>15. CASE ExecLabels
  BY <1>15 DEF ExecLabels, Dequeues
<1>16. CASE ExecBegin
  BY <1>16 DEF ExecBegin, Dequeues
<1>17. CASE ExecReturn
  BY <1>17 DEF ExecReturn
<1>18. CASE BeginCan
  BY <1>18 DEF BeginCan
<1>19. CASE ContinueAsNew
  BY <1>19 DEF ContinueAsNew
<1>20. CASE Idle
  BY <1>20 DEF Idle
<1>21. CASE Wake
  BY <1>21 DEF Wake
<1>22. CASE TickBegin
  BY <1>22 DEF TickBegin
<1>23. CASE TickReturn
  BY <1>23 DEF TickReturn
<1>. QED
  BY <1>1, <1>2, <1>3, <1>4, <1>5, <1>6, <1>7, <1>8, <1>9, <1>10, <1>11, <1>12, <1>13, <1>14, <1>15, <1>16, <1>17, <1>18, <1>19, <1>20, <1>21, <1>22, <1>23 DEF Next, RootStep

\* Return leaves nobody waiting, and abandons nobody if nobody waited.
LEMMA ReturnDrains ==
  ASSUME TypeOK, NEW p, Return(p)
  PROVE  /\ Waiting' = {} /\ pc' = "closed" /\ phase' = p
         /\ Waiting = {} => upd' = upd
BY DEF Return, Waiting, TypeOK

LEMMA DrainNext ==
  ASSUME TypeOK, PhaseInv, DrainInv, [Next]_vars
  PROVE  DrainInv'
<1> USE DEF DrainInv, PhaseInv, TypeOK, life, callers, history, Goto, Root, Awaits, Waiting
<1>1. CASE Deliver
  <2>1. CASE \E u \in Updates : RejectUpdate(u) \/ AnswerDuplicate(u) \/ EnqueueUpdate(u)
    BY <1>1, <2>1 DEF RejectUpdate, AnswerDuplicate, EnqueueUpdate, Arrives, Gathering, machine
  <2>2. CASE DeliverDelete \/ DeliverCancel \/ DeliverInit \/ DeliverResult \/ DeliverTimer
    BY <2>2 DEF DeliverDelete, DeliverCancel, DeliverInit, DeliverResult, DeliverTimer, machine
  <2>. QED BY <1>1, <2>1, <2>2 DEF Deliver
<1>2. CASE Schedule
  BY <1>2 DEF Schedule, StartTask, RunRoot, Yield, HandlerReturn, machine
<1>3. CASE SetLabel \/ Terminated \/ UNCHANGED vars
  BY <1>3 DEF SetLabel, Terminated, vars
<1>4. CASE AwaitCanceled
  BY <1>4, ReturnDrains DEF AwaitCanceled, AllHandlersFinished
<1>5. CASE Start
  BY <1>5 DEF Start
<1>6. CASE StartInit
  BY <1>6 DEF StartInit
<1>7. CASE CancelInit
  BY <1>7 DEF CancelInit
<1>8. CASE InitSucceeded
  BY <1>8 DEF InitSucceeded
<1>9. CASE InitAborted
  BY <1>9 DEF InitAborted
<1>10. CASE InitFailed
  BY <1>10, ReturnDrains DEF InitFailed, AllHandlersFinished
<1>11. CASE BeginDelete
  BY <1>11 DEF BeginDelete
<1>12. CASE RejectPending
  BY <1>12 DEF RejectPending
<1>13. CASE Finalize
  BY <1>13 DEF Finalize, AllHandlersFinished
<1>14. CASE Deleted
  BY <1>14, ReturnDrains DEF Deleted, AllHandlersFinished
<1>15. CASE ExecLabels
  BY <1>15 DEF ExecLabels, Dequeues
<1>16. CASE ExecBegin
  BY <1>16 DEF ExecBegin, Dequeues
<1>17. CASE ExecReturn
  BY <1>17 DEF ExecReturn
<1>18. CASE BeginCan
  BY <1>18 DEF BeginCan
<1>19. CASE ContinueAsNew
  BY <1>19 DEF ContinueAsNew
<1>20. CASE Idle
  BY <1>20 DEF Idle
<1>21. CASE Wake
  BY <1>21 DEF Wake
<1>22. CASE TickBegin
  BY <1>22 DEF TickBegin
<1>23. CASE TickReturn
  BY <1>23 DEF TickReturn
<1>. QED
  BY <1>1, <1>2, <1>3, <1>4, <1>5, <1>6, <1>7, <1>8, <1>9, <1>10, <1>11, <1>12, <1>13, <1>14, <1>15, <1>16, <1>17, <1>18, <1>19, <1>20, <1>21, <1>22, <1>23 DEF Next, RootStep

-----------------------------------------------------------------------------
(* The cache *)

\* A cache that lists each of its requests once and keeps to its cap.
Consistent(c, o) ==
  /\ DOMAIN c = {o[i] : i \in DOMAIN o}
  /\ \A i, j \in DOMAIN o : o[i] = o[j] => i = j
  /\ Len(o) <= CompletedOpsCap

\* What RecordCompleted makes of a consistent cache: the request is listed, and
\* if it is new, it is the last, and at most the oldest one made room for it.
LEMMA RecordShape ==
  ASSUME NEW c, NEW o \in Seq(Requests), NEW r \in Requests, Consistent(c, o)
  PROVE  LET e  == Enlisted(c, o, r)
             n  == Overflow(e)
             o2 == RecordOrder(c, o, r)
         IN  /\ n \in {0, 1} /\ e \in Seq(Requests) /\ n <= Len(e)
             /\ o2 \in Seq(Requests) /\ Len(o2) = Len(e) - n /\ Len(o2) <= CompletedOpsCap
             /\ \A i \in 1 .. Len(e) - n : o2[i] = e[i + n]
<1> DEFINE e == Enlisted(c, o, r)
           n == Overflow(e)
<1>1. e \in Seq(Requests) /\ Len(e) <= CompletedOpsCap + 1
  BY CapPositive DEF Enlisted, Consistent
<1>2. n \in {0, 1} /\ n <= Len(e) /\ Len(e) - n <= CompletedOpsCap
  BY <1>1, CapPositive DEF Overflow
<1>3. \A i \in n + 1 .. Len(e) : e[i] \in Requests
  BY <1>1, <1>2
<1>4. /\ SubSeq(e, n + 1, Len(e)) \in Seq(Requests)
      /\ Len(SubSeq(e, n + 1, Len(e))) =
           IF n + 1 <= Len(e) THEN Len(e) - (n + 1) + 1 ELSE 0
      /\ \A i \in 1 .. Len(e) - (n + 1) + 1 :
           SubSeq(e, n + 1, Len(e))[i] = e[n + 1 + i - 1]
  <2>1. n + 1 \in Int /\ Len(e) \in Int
    BY <1>1, <1>2
  <2>. QED BY <1>3, <2>1, SubSeqProperties
<1>5. RecordOrder(c, o, r) = SubSeq(e, n + 1, Len(e))
  BY DEF RecordOrder
<1>6. /\ Len(RecordOrder(c, o, r)) = Len(e) - n
      /\ \A i \in 1 .. Len(e) - n : RecordOrder(c, o, r)[i] = e[i + n]
  <2> HIDE DEF e
  <2>. QED BY <1>1, <1>2, <1>4, <1>5
<1>. QED BY <1>1, <1>2, <1>4, <1>5, <1>6

LEMMA RecordConsistent ==
  ASSUME NEW c, NEW o \in Seq(Requests), NEW r \in Requests, NEW t, Consistent(c, o)
  PROVE  Consistent(RecordCompleted(c, o, r, t), RecordOrder(c, o, r))
<1> DEFINE e  == Enlisted(c, o, r)
           n  == Overflow(e)
           o2 == RecordOrder(c, o, r)
<1>1. /\ n \in {0, 1} /\ e \in Seq(Requests) /\ n <= Len(e)
      /\ o2 \in Seq(Requests) /\ Len(o2) = Len(e) - n /\ Len(o2) <= CompletedOpsCap
      /\ \A i \in 1 .. Len(e) - n : o2[i] = e[i + n]
  BY RecordShape
<1>2. \A i, j \in DOMAIN e : e[i] = e[j] => i = j
  BY DEF Enlisted, Consistent
<1>3. DOMAIN c \cup {r} = {e[i] : i \in DOMAIN e}
  <2>1. CASE r \in DOMAIN c
    BY <2>1 DEF Enlisted, Consistent
  <2>2. CASE r \notin DOMAIN c
    <3>1. e = Append(o, r)
      BY <2>2 DEF Enlisted
    <3>2. DOMAIN e = DOMAIN o \cup {Len(o) + 1}
      BY <3>1
    <3>3. e[Len(o) + 1] = r /\ \A i \in DOMAIN o : e[i] = o[i]
      BY <3>1
    <3>. QED BY <3>2, <3>3 DEF Consistent
  <2>. QED BY <2>1, <2>2
<1>4. DOMAIN RecordCompleted(c, o, r, t) =
        (DOMAIN c \cup {r}) \ {e[i] : i \in 1 .. n}
  BY DEF RecordCompleted
<1> HIDE DEF e, n, o2
<1>5. DOMAIN RecordCompleted(c, o, r, t) = {o2[i] : i \in DOMAIN o2}
  <2>1. ASSUME NEW x \in DOMAIN RecordCompleted(c, o, r, t)
        PROVE  x \in {o2[i] : i \in DOMAIN o2}
    <3>1. PICK i \in DOMAIN e : x = e[i] /\ i \notin 1 .. n
      BY <2>1, <1>3, <1>4
    <3>2. i - n \in 1 .. Len(e) - n /\ i - n + n = i
      BY <3>1, <1>1
    <3>. QED BY <3>1, <3>2, <1>1
  <2>2. ASSUME NEW i \in DOMAIN o2
        PROVE  o2[i] \in DOMAIN RecordCompleted(c, o, r, t)
    <3>1. n \in Nat /\ Len(e) \in Nat /\ DOMAIN e = 1 .. Len(e) /\ DOMAIN o2 = 1 .. Len(o2)
      BY <1>1
    <3>2. i \in 1 .. Len(e) - n /\ i + n \in DOMAIN e
      BY <3>1, <1>1
    <3>3. o2[i] = e[i + n]
      BY <3>2, <1>1
    <3>4. i + n \notin 1 .. n
      BY <3>2, <1>1
    <3>5. \A j \in 1 .. n : j \in DOMAIN e /\ e[j] # e[i + n]
      <4> TAKE j \in 1 .. n
      <4>1. j \in DOMAIN e /\ j # i + n
        BY <3>1, <3>4, <1>1
      <4>. QED BY <4>1, <3>2, <1>2
    <3>. QED BY <3>2, <3>3, <3>5, <1>3, <1>4
  <2>. QED BY <2>1, <2>2
<1>6. \A i, j \in DOMAIN o2 : o2[i] = o2[j] => i = j
  <2> SUFFICES ASSUME NEW i \in DOMAIN o2, NEW j \in DOMAIN o2, o2[i] = o2[j]
               PROVE  i = j
    OBVIOUS
  <2>1. i \in 1 .. Len(e) - n /\ j \in 1 .. Len(e) - n
    BY <1>1
  <2>2. i + n \in DOMAIN e /\ j + n \in DOMAIN e
    BY <2>1, <1>1
  <2>3. e[i + n] = e[j + n]
    BY <2>1, <1>1
  <2>4. i + n = j + n
    BY <2>2, <2>3, <1>2
  <2>. QED BY <2>1, <2>4, <1>1
<1>. QED BY <1>1, <1>5, <1>6 DEF Consistent, o2

LEMMA CacheNext ==
  ASSUME TypeOK, CacheConsistent, [Next]_vars
  PROVE  CacheConsistent'
<1>1. Consistent(completed, order)
  BY DEF CacheConsistent, Consistent
<1>2. ASSUME NEW u \in Updates, NEW t,
             completed' = RecordCompleted(completed, order, ReqOf[u], t),
             order' = RecordOrder(completed, order, ReqOf[u])
      PROVE  CacheConsistent'
  <2>1. ReqOf[u] \in Requests /\ order \in Seq(Requests)
    BY EntityLoopAssumption DEF TypeOK
  <2>2. Consistent(completed', order')
    BY <1>1, <1>2, <2>1, RecordConsistent
  <2>. QED BY <2>2 DEF CacheConsistent, Consistent
<1>3. CASE RejectPending
  <2>1. Head(pending) \in Updates
    BY <1>3 DEF RejectPending, TypeOK
  <2>. QED BY <1>2, <1>3, <2>1 DEF RejectPending
<1>4. CASE ExecLabels
  <2>1. Head(pending) \in Updates
    BY <1>4 DEF ExecLabels, Dequeues, TypeOK
  <2>. QED BY <1>2, <1>4, <2>1 DEF ExecLabels, Complete
<1>5. CASE ExecReturn
  <2>1. cur \in Updates
    BY <1>5 DEF ExecReturn, Root, TypeOK
  <2>. QED BY <1>2, <1>5, <2>1 DEF ExecReturn, Complete
<1>6. CASE UNCHANGED cache
  BY <1>6 DEF CacheConsistent, cache
<1>7. CASE Deliver \/ Schedule \/ SetLabel \/ Terminated \/ UNCHANGED vars
  <2>1. UNCHANGED cache
    BY <1>7, DeliverFrame, ScheduleFrame DEF machine, cache, SetLabel, Terminated, vars
  <2>. QED BY <1>6, <2>1
<1>8. CASE RootStep /\ ~RejectPending /\ ~ExecLabels /\ ~ExecReturn
  <2>1. UNCHANGED cache
    BY <1>8 DEF RootStep, Goto, AwaitCanceled, Start, StartInit, CancelInit,
       InitSucceeded, InitAborted, InitFailed, BeginDelete, Finalize, Deleted,
       ExecBegin, BeginCan, ContinueAsNew, Idle, Wake, TickBegin, TickReturn
  <2>. QED BY <1>6, <2>1
<1>. QED BY <1>3, <1>4, <1>5, <1>7, <1>8 DEF Next

-----------------------------------------------------------------------------

LEMMA LifecycleInit == Init => LifecycleInv /\ CacheConsistent
<1> SUFFICES ASSUME Init PROVE LifecycleInv /\ CacheConsistent
  OBVIOUS
<1>1. Waiting = {}
  BY DEF Init, Waiting
<1>2. PhaseInv /\ CreationInv /\ DrainInv
  BY <1>1 DEF Init, PhaseInv, CreationInv, DrainInv, None
<1>3. CacheConsistent
  BY CapPositive DEF Init, CacheConsistent
<1>. QED BY <1>2, <1>3, TypeInit DEF LifecycleInv

\* The inductive invariant of the lifecycle holds in every reachable state.
THEOREM LifecycleCorrect == Spec => [](LifecycleInv /\ CacheConsistent)
<1>1. LifecycleInv /\ CacheConsistent /\ [Next]_vars => (LifecycleInv /\ CacheConsistent)'
  BY TypeNext, PhaseNext, CreationNext, DrainNext, CacheNext DEF LifecycleInv
<1>. QED BY <1>1, LifecycleInit, PTL DEF Spec

\* The cache of completed requests is consistent and bounded by its cap, over
\* any number of commands and runs.
THEOREM CacheIsConsistent == Spec => []CacheConsistent
BY LifecycleCorrect, PTL

\* However many runs an entity goes through, it calls Init at most once.
THEOREM InitCalledOnce == Spec => []InitOnce
<1>1. LifecycleInv => InitOnce
  BY DEF LifecycleInv, CreationInv, InitOnce
<1>. QED BY <1>1, LifecycleCorrect, PTL

\* While the finalizer runs and after it, nothing is queued, no caller waits,
\* no command executes and Init has returned.
THEOREM FinalizerRunsAlone == Spec => []FinalizesAlone
<1>1. LifecycleInv => FinalizesAlone
  BY DEF LifecycleInv, TypeOK, PhaseInv, CreationInv, DrainInv, FinalizesAlone
<1>. QED BY <1>1, LifecycleCorrect, PTL

\* An entity that was deleted abandoned no caller.
THEOREM DeletionAnswersEverybody == Spec => []DeletionAnswersAll
<1>1. LifecycleInv => DeletionAnswersAll
  BY DEF LifecycleInv, DrainInv, DeletionAnswersAll
<1>. QED BY <1>1, LifecycleCorrect, PTL

=============================================================================
