------------------------- MODULE EntityHistoryProofs -------------------------
(***************************************************************************)
(* What is recorded of the past is true, for every value of the constants: *)
(* the labels that visibility shows, the answers that callers got, and the *)
(* requests that were executed.  And the loop implements the lifecycle.    *)
(***************************************************************************)
EXTENDS EntityServiceProofs, EntityRefinement

-----------------------------------------------------------------------------
(* The beginning of a run and the end of an entity *)

LEMMA StartNext ==
  ASSUME TypeOK, PhaseInv, StartInv, [Next]_vars
  PROVE  StartInv'
<1> USE DEF StartInv, PhaseInv, TypeOK, Root, Awaits
<1>1. CASE Deliver
  <2>1. cancelled' => cancelled \/ AllowCancel
    BY <1>1 DEF Deliver, RejectUpdate, AnswerDuplicate, EnqueueUpdate, DeliverDelete,
       DeliverCancel, DeliverInit, DeliverResult, DeliverTimer, inbox
  <2>. QED BY <1>1, <2>1, DeliverFrame DEF machine, life
<1>2. CASE Schedule
  BY <1>2, ScheduleFrame
<1>3. CASE SetLabel \/ Terminated \/ UNCHANGED vars
  BY <1>3 DEF SetLabel, Terminated, vars, life, inbox
<1>4. CASE AwaitCanceled \/ InitFailed \/ Deleted
  BY <1>4 DEF AwaitCanceled, InitFailed, Deleted, Return, inbox
<1>5. CASE Start \/ StartInit \/ InitSucceeded \/ BeginDelete
  BY <1>5 DEF Start, StartInit, InitSucceeded, BeginDelete, inbox
<1>6. CASE CancelInit \/ InitAborted \/ Finalize \/ BeginCan \/ Idle \/ Wake \/ TickBegin \/ TickReturn
  BY <1>6 DEF CancelInit, InitAborted, Finalize, BeginCan, Idle, Wake, TickBegin, TickReturn,
     Goto, life, inbox
<1>7. CASE RejectPending \/ ExecLabels \/ ExecBegin \/ ExecReturn
  BY <1>7 DEF RejectPending, ExecLabels, ExecBegin, ExecReturn, Dequeues, life, inbox
<1>8. CASE ContinueAsNew
  BY <1>8 DEF ContinueAsNew, life
<1>. QED BY <1>1, <1>2, <1>3, <1>4, <1>5, <1>6, <1>7, <1>8 DEF Next, RootStep

\* Where the root is at the end of the entity, its phase says so, and only there.
LEMMA EndPhaseThere ==
  ASSUME TypeOK, PhaseInv, StartInv, phase \in EndPhases
  PROVE  pc \in EndControls
BY DEF TypeOK, PhaseInv, StartInv, EndPhases, EndControls, Controls, UserCode, Awaits

\* The end is never left.
LEMMA EndStays ==
  ASSUME TypeOK, PhaseInv, StartInv, [Next]_vars
  PROVE  /\ pc \in EndControls => pc' \in EndControls
         /\ phase \in EndPhases => phase' \in EndPhases
<1> USE DEF EndControls, Root
<1>1. CASE Deliver
  BY <1>1, DeliverFrame DEF machine, life
<1>2. CASE Schedule
  BY <1>2, ScheduleFrame
<1>3. CASE SetLabel \/ Terminated \/ UNCHANGED vars
  BY <1>3 DEF SetLabel, Terminated, vars, life
<1>4. CASE AwaitCanceled \/ Deleted \/ RejectPending \/ Finalize \/ BeginDelete
  BY <1>4 DEF AwaitCanceled, Deleted, RejectPending, Finalize, BeginDelete, Return, Goto, life, EndPhases
<1>5. CASE RootStep /\ ~AwaitCanceled /\ ~Deleted /\ ~RejectPending /\ ~Finalize /\ ~BeginDelete
  <2>1. pc \notin EndControls
    BY <1>5 DEF RootStep, Start, StartInit, CancelInit, InitSucceeded, InitAborted, InitFailed,
       Dequeues, ExecLabels, ExecBegin, ExecReturn, BeginCan, ContinueAsNew, Idle, Wake,
       TickBegin, TickReturn
  <2>. QED BY <2>1, EndPhaseThere
<1>. QED BY <1>1, <1>2, <1>3, <1>4, <1>5 DEF Next

\* Three steps record a result; the deletion's is not an execution.
LEMMA RecordFrame ==
  ASSUME [Next]_vars, ~RejectPending, ~ExecLabels, ~ExecReturn
  PROVE  UNCHANGED <<completed, order, log>>
<1> USE DEF cache, history
<1>1. CASE Deliver
  BY <1>1, DeliverFrame DEF machine
<1>2. CASE Schedule
  BY <1>2, ScheduleFrame
<1>3. CASE SetLabel \/ Terminated \/ UNCHANGED vars
  BY <1>3 DEF SetLabel, Terminated, vars
<1>4. CASE RootStep
  BY <1>4 DEF RootStep, Goto, AwaitCanceled, Start, StartInit, CancelInit, InitSucceeded,
     InitAborted, InitFailed, BeginDelete, Finalize, Deleted, ExecBegin, BeginCan,
     ContinueAsNew, Idle, Wake, TickBegin, TickReturn
<1>. QED BY <1>1, <1>2, <1>3, <1>4 DEF Next

\* The two that are: of a request held by the main loop, before any deletion.
LEMMA ExecutionRecords ==
  ASSUME TypeOK, ExecLabels \/ ExecReturn
  PROVE  \E u \in Updates, outcome \in {"ok"} \cup Outcomes :
           /\ Held(u) /\ ReqOf[u] \in Requests /\ pc \notin EndControls
           /\ phase' = phase /\ callers' = callers
           /\ Complete(u, outcome)
<1> USE DEF EndControls, Root, life, callers
<1>1. CASE ExecLabels
  <2>1. /\ pending # <<>> /\ pending \in Seq(Updates) /\ pc = "loop"
        /\ Complete(Head(pending), "ok") /\ phase' = phase /\ callers' = callers
    BY <1>1 DEF ExecLabels, Dequeues, TypeOK
  <2>2. Head(pending) \in Updates /\ 1 \in DOMAIN pending /\ pending[1] = Head(pending)
    BY <2>1
  <2>3. Held(Head(pending)) /\ ReqOf[Head(pending)] \in Requests
    BY <2>2, EntityLoopAssumption DEF Held, InQueue
  <2>. QED BY <2>1, <2>2, <2>3
<1>2. CASE ExecReturn
  <2>1. PICK outcome \in Outcomes : Complete(cur, outcome)
    BY <1>2 DEF ExecReturn
  <2>2. pc = "exec" /\ cur \in Updates /\ phase' = phase /\ callers' = callers
    BY <1>2 DEF ExecReturn, TypeOK
  <2>3. Held(cur) /\ ReqOf[cur] \in Requests
    BY <2>2, EntityLoopAssumption DEF Held
  <2>. QED BY <2>1, <2>2, <2>3
<1>. QED BY <1>1, <1>2

-----------------------------------------------------------------------------
(* Visibility *)

LEMMA MirrorNext ==
  ASSUME TypeOK, PhaseInv, StartInv, DirtyInv, MirrorInv, [Next]_vars
  PROVE  MirrorInv'
<1> USE DEF MirrorInv, Root, life, tags
<1>1. CASE Deliver
  BY <1>1, DeliverFrame DEF machine
<1>2. CASE Schedule
  BY <1>2, ScheduleFrame
<1>3. CASE SetLabel
  BY <1>3 DEF SetLabel
<1>4. CASE Terminated \/ UNCHANGED vars
  BY <1>4 DEF Terminated, vars
<1>5. CASE Start \/ StartInit \/ InitSucceeded \/ InitFailed \/ BeginDelete \/ Deleted
  BY <1>5 DEF Start, StartInit, InitSucceeded, InitFailed, BeginDelete, Deleted, Return,
     Upserted, StartInv
<1>6. CASE AwaitCanceled
  BY <1>6 DEF AwaitCanceled, Return, Awaits
<1>7. CASE CancelInit \/ InitAborted \/ Finalize \/ BeginCan \/ Idle \/ Wake \/ TickBegin \/ TickReturn
  BY <1>7 DEF CancelInit, InitAborted, Finalize, BeginCan, Idle, Wake, TickBegin, TickReturn, Goto
<1>8. CASE RejectPending \/ ExecBegin
  BY <1>8 DEF RejectPending, ExecBegin, Dequeues
<1>9. CASE ExecLabels
  <2>1. ~dirty /\ pc = "loop"
    BY <1>9 DEF ExecLabels, Dequeues, DirtyInv
  <2>2. phase' = phase /\ pc' = pc /\ MirrorLabels(labels', dirty \/ labels' # labels)
    BY <1>9 DEF ExecLabels
  <2>. QED BY <2>1, <2>2 DEF MirrorLabels, Upserted
<1>10. CASE ExecReturn
  <2>1. phase' = phase /\ labels' = labels /\ pc = "exec" /\ MirrorLabels(labels, dirty)
    BY <1>10 DEF ExecReturn
  <2>. QED BY <2>1 DEF MirrorLabels, Upserted
<1>11. CASE ContinueAsNew
  <2>1. ~dirty /\ pc = "can_wait"
    BY <1>11 DEF ContinueAsNew, DirtyInv
  <2>. QED BY <1>11, <2>1 DEF ContinueAsNew
<1>. QED BY <1>1, <1>2, <1>3, <1>4, <1>5, <1>6, <1>7, <1>8, <1>9, <1>10, <1>11 DEF Next, RootStep

-----------------------------------------------------------------------------
(* Answers *)

\* What was true stays true: executions are not forgotten, and a deletion that
\* began is not taken back.
LEMMA TruthStays ==
  ASSUME NEW r, NEW a, Truth(r, a), log \in Seq(Entries),
         phase \in EndPhases => phase' \in EndPhases,
         log' = log \/ \E e \in Entries : log' = Append(log, e)
  PROVE  Truth(r, a)'
<1>1. CASE a = "deleted" /\ phase \in EndPhases
  BY <1>1 DEF Truth
<1>2. CASE \E i \in DOMAIN log : log[i].req = r /\ log[i].outcome = a
  <2>1. PICK i \in DOMAIN log : log[i].req = r /\ log[i].outcome = a
    BY <1>2
  <2>2. i \in DOMAIN log' /\ log'[i] = log[i]
    BY <2>1
  <2>. QED BY <2>1, <2>2 DEF Truth
<1>. QED BY <1>1, <1>2 DEF Truth

\* A step that records nothing leaves the cache's answers true.
LEMMA TruthFrame ==
  ASSUME TypeOK, PhaseInv, StartInv, TruthInv, [Next]_vars, UNCHANGED <<completed, log>>
  PROVE  \A r \in DOMAIN completed' : Truth(r, UpdateResult(completed[r]))'
<1>1. phase \in EndPhases => phase' \in EndPhases
  BY EndStays
<1>2. log \in Seq(Entries)
  BY DEF TypeOK
<1>. QED BY <1>1, <1>2, TruthStays DEF TruthInv

\* Callers learn what the cache says, whether their handler waited or not.
LEMMA TruthTold ==
  ASSUME TypeOK, TruthInv, [Next]_vars
  PROVE  \A u \in Updates : upd'[u] = "answered" =>
           \/ upd[u] = "answered" /\ answer'[u] = answer[u]
           \/ /\ ReqOf[u] \in DOMAIN completed /\ UNCHANGED <<log, phase>>
              /\ answer'[u] = UpdateResult(completed[ReqOf[u]])
<1> SUFFICES ASSUME NEW u \in Updates, upd'[u] = "answered"
             PROVE  \/ upd[u] = "answered" /\ answer'[u] = answer[u]
                    \/ /\ ReqOf[u] \in DOMAIN completed /\ UNCHANGED <<log, phase>>
                       /\ answer'[u] = UpdateResult(completed[ReqOf[u]])
  OBVIOUS
<1> USE DEF TypeOK, callers
<1>1. CASE \E v \in Updates : RejectUpdate(v) \/ AnswerDuplicate(v) \/ EnqueueUpdate(v)
  BY <1>1 DEF RejectUpdate, AnswerDuplicate, EnqueueUpdate, Arrives, machine, life
<1>2. CASE \E v \in Updates : HandlerReturn(v)
  <2>1. PICK v \in Updates : HandlerReturn(v)
    BY <1>2
  <2>2. CASE v = u
    BY <2>1, <2>2 DEF HandlerReturn, life, history
  <2>3. CASE v # u
    BY <2>1, <2>3 DEF HandlerReturn
  <2>. QED BY <2>2, <2>3
<1>3. CASE AwaitCanceled \/ InitFailed \/ Deleted
  BY <1>3 DEF AwaitCanceled, InitFailed, Deleted, Return
<1>4. CASE DeliverDelete \/ DeliverCancel \/ DeliverInit \/ DeliverResult \/ DeliverTimer
           \/ StartTask \/ RunRoot \/ Yield \/ SetLabel \/ Terminated \/ UNCHANGED vars
  BY <1>4 DEF DeliverDelete, DeliverCancel, DeliverInit, DeliverResult, DeliverTimer,
     StartTask, RunRoot, Yield, SetLabel, Terminated, vars
<1>5. CASE RootStep /\ ~AwaitCanceled /\ ~InitFailed /\ ~Deleted
  BY <1>5 DEF RootStep, Goto, Start, StartInit, CancelInit, InitSucceeded, InitAborted,
     BeginDelete, RejectPending, Finalize, ExecLabels, ExecBegin, ExecReturn, BeginCan,
     ContinueAsNew, Idle, Wake, TickBegin, TickReturn
<1>. QED BY <1>1, <1>2, <1>3, <1>4, <1>5 DEF Next, Deliver, Schedule

\* What is in the cache after a result was recorded.
LEMMA RecordedValues ==
  ASSUME NEW c, NEW o, NEW r, NEW t, NEW x \in DOMAIN RecordCompleted(c, o, r, t)
  PROVE  IF x = r THEN RecordCompleted(c, o, r, t)[x] = t
                  ELSE x \in DOMAIN c /\ RecordCompleted(c, o, r, t)[x] = c[x]
BY DEF RecordCompleted

LEMMA TruthNext ==
  ASSUME "blank" \notin Outcomes, TypeOK, PhaseInv, StartInv, TruthInv, [Next]_vars
  PROVE  TruthInv'
<1>1. phase \in EndPhases => phase' \in EndPhases
  BY EndStays
<1>2. log \in Seq(Entries)
  BY DEF TypeOK
<1>3. /\ log' = log \/ \E e \in Entries : log' = Append(log, e)
      /\ \A r \in DOMAIN completed' : Truth(r, UpdateResult(completed[r]))'
  <2>1. CASE RejectPending
    <3>1. /\ completed' = RecordCompleted(completed, order, ReqOf[Head(pending)], "deleted")
          /\ log' = log
      BY <2>1 DEF RejectPending, history
    <3>2. phase' \in EndPhases
      BY <2>1, <1>1 DEF RejectPending, Root, PhaseInv, EndPhases
    <3>3. ASSUME NEW r \in DOMAIN completed'
          PROVE  Truth(r, UpdateResult(completed[r]))'
      <4>1. CASE r = ReqOf[Head(pending)]
        <5>1. completed'[r] = "deleted"
          BY <3>1, <3>3, <4>1, RecordedValues
        <5>. QED BY <3>2, <5>1 DEF Truth, UpdateResult
      <4>2. CASE r # ReqOf[Head(pending)]
        <5>1. r \in DOMAIN completed /\ completed'[r] = completed[r]
          BY <3>1, <3>3, <4>2, RecordedValues
        <5>2. PICK a : a = UpdateResult(completed[r])
          OBVIOUS
        <5>3. Truth(r, a)
          BY <5>1, <5>2 DEF TruthInv
        <5>4. Truth(r, a)'
          BY <5>3, <3>1, <1>1, <1>2, TruthStays
        <5>5. UpdateResult(completed[r])' = a
          BY <5>1, <5>2 DEF UpdateResult
        <5>. QED BY <5>4, <5>5 DEF Truth
      <4>. QED BY <4>1, <4>2
    <3>. QED BY <3>1, <3>3
  <2>2. CASE ExecLabels \/ ExecReturn
    <3>1. PICK u \in Updates, outcome \in {"ok"} \cup Outcomes :
            ReqOf[u] \in Requests /\ Complete(u, outcome)
      BY <2>2, ExecutionRecords
    <3> DEFINE e == [req |-> ReqOf[u], outcome |-> outcome]
    <3>2. outcome \in {"ok", "err"}
      BY <3>1, EntityLoopAssumption
    <3>3. /\ completed' = RecordCompleted(completed, order, ReqOf[u], ErrText(outcome))
          /\ log' = Append(log, e) /\ e \in Entries
      BY <3>1, <3>2 DEF Complete, Entries
    <3>4. UpdateResult(ErrText(outcome)) = outcome
      BY <3>2 DEF UpdateResult, ErrText
    <3>5. ASSUME NEW r \in DOMAIN completed'
          PROVE  Truth(r, UpdateResult(completed[r]))'
      <4>1. CASE r = ReqOf[u]
        <5>0. completed'[r] = ErrText(outcome)
          BY <3>3, <3>5, <4>1, RecordedValues
        <5>1. UpdateResult(completed[r])' = outcome
          BY <3>4, <5>0 DEF UpdateResult
        <5>2. Len(log) + 1 \in DOMAIN log' /\ log'[Len(log) + 1] = e
          BY <3>3, <1>2
        <5>3. e.req = r /\ e.outcome = outcome
          BY <4>1
        <5>. QED BY <5>1, <5>2, <5>3 DEF Truth
      <4>2. CASE r # ReqOf[u]
        <5>1. r \in DOMAIN completed /\ completed'[r] = completed[r]
          BY <3>3, <3>5, <4>2, RecordedValues
        <5>2. PICK a : a = UpdateResult(completed[r])
          OBVIOUS
        <5>3. Truth(r, a)
          BY <5>1, <5>2 DEF TruthInv
        <5>4. Truth(r, a)'
          BY <5>3, <3>3, <1>1, <1>2, TruthStays
        <5>5. UpdateResult(completed[r])' = a
          BY <5>1, <5>2 DEF UpdateResult
        <5>. QED BY <5>4, <5>5 DEF Truth
      <4>. QED BY <4>1, <4>2
    <3>. QED BY <3>3, <3>5
  <2>3. CASE ~RejectPending /\ ~ExecLabels /\ ~ExecReturn
    <3>1. UNCHANGED <<completed, log>>
      BY <2>3, RecordFrame
    <3>. QED BY <3>1, TruthFrame
  <2>. QED BY <2>1, <2>2, <2>3
<1>4. ASSUME NEW u \in Updates, upd'[u] = "answered"
      PROVE  Truth(ReqOf[u], answer[u])'
  <2>1. CASE upd[u] = "answered" /\ answer'[u] = answer[u]
    <3>1. Truth(ReqOf[u], answer[u])
      BY <2>1 DEF TruthInv
    <3> DEFINE a == answer[u]
    <3>. QED BY <2>1, <3>1, <1>1, <1>2, <1>3, TruthStays DEF Truth
  <2>2. CASE /\ ReqOf[u] \in DOMAIN completed /\ UNCHANGED <<log, phase>>
             /\ answer'[u] = UpdateResult(completed[ReqOf[u]])
    BY <2>2 DEF TruthInv, Truth
  <2>. QED BY <1>4, <2>1, <2>2, TruthTold
<1>. QED BY <1>3, <1>4 DEF TruthInv

-----------------------------------------------------------------------------
(* Executions *)

\* Until an operator cancels, the main loop holds no command whose request the
\* cache still knows.
LEMMA HeldIsNew ==
  ASSUME StartInv, ServiceInv, ~AllowCancel, pc \notin EndControls,
         NEW u \in Updates, Held(u)
  PROVE  ReqOf[u] \notin DOMAIN completed
BY DEF StartInv, ServiceInv, ServeInv, HeldInv, EndControls

LEMMA RecentNext ==
  ASSUME ~AllowCancel, TypeOK, PhaseInv, StartInv, CacheConsistent, ServiceInv,
         RecentInv, [Next]_vars
  PROVE  RecentInv'
<1>1. pc' \notin EndControls => pc \notin EndControls
  BY EndStays
<1>2. CASE ExecLabels \/ ExecReturn
  <2>1. PICK u \in Updates, outcome \in {"ok"} \cup Outcomes :
          /\ Held(u) /\ ReqOf[u] \in Requests /\ pc \notin EndControls
          /\ Complete(u, outcome)
    BY <1>2, ExecutionRecords
  <2> DEFINE r == ReqOf[u]
             e == [req |-> r, outcome |-> outcome]
  <2>2. /\ order \in Seq(Requests) /\ log \in Seq(Entries)
        /\ Consistent(completed, order) /\ r \notin DOMAIN completed
    BY <2>1, HeldIsNew DEF TypeOK, CacheConsistent, Consistent
  <2>3. order' = RecordOrder(completed, order, r) /\ log' = Append(log, e)
    BY <2>1 DEF Complete
  <2>4. PICK n \in {0, 1} :
          /\ n = 1 => Len(order) = CompletedOpsCap
          /\ order' \in Seq(Requests)
          /\ Len(order') = Len(order) + 1 - n
          /\ order'[Len(order) + 1 - n] = r
          /\ \A k \in 1 .. Len(order) : k > n => order'[k - n] = order[k]
    <3> DEFINE p == RecordOrder(completed, order, r)
    <3> HIDE DEF r
    <3>1. \E n \in {0, 1} :
            /\ n = 1 => Len(order) = CompletedOpsCap
            /\ p \in Seq(Requests)
            /\ Len(p) = Len(order) + 1 - n
            /\ p[Len(order) + 1 - n] = r
            /\ \A k \in 1 .. Len(order) : k > n => p[k - n] = order[k]
      <4>1. r \in Requests
        BY <2>1 DEF r
      <4>. QED BY <4>1, <2>2, RecordNew
    <3>2. order' = p
      BY <2>3
    <3> HIDE DEF p
    <3>. QED BY <3>1, <3>2
  <2>5. /\ Len(order) <= Len(log)
        /\ Len(order) = Len(log) \/ Len(order) = CompletedOpsCap
        /\ \A k \in DOMAIN order : order[k] = log[Len(log) - Len(order) + k].req
    BY <2>1 DEF RecentInv
  <2>6. /\ Len(order) \in Nat /\ Len(log) \in Nat /\ Len(order') \in Nat
        /\ Len(log') = Len(log) + 1 /\ log'[Len(log) + 1] = e /\ e.req = r
        /\ \A i \in 1 .. Len(log) : log'[i] = log[i]
        /\ DOMAIN order = 1 .. Len(order) /\ DOMAIN order' = 1 .. Len(order')
    BY <2>2, <2>3, <2>4
  <2> HIDE DEF r, e
  <2>7. Len(order') <= CompletedOpsCap
    BY CacheNext DEF CacheConsistent
  <2>8. Len(order') <= Len(log') /\ (Len(order') = Len(log') \/ Len(order') = CompletedOpsCap)
    <3>1. CASE n = 0
      BY <3>1, <2>4, <2>5, <2>6, <2>7, CapPositive
    <3>2. CASE n = 1
      BY <3>2, <2>4, <2>5, <2>6
    <3>. QED BY <3>1, <3>2
  <2>9. ASSUME NEW k \in DOMAIN order'
        PROVE  order'[k] = log'[Len(log') - Len(order') + k].req
    <3>1. n \in Nat /\ n <= 1 /\ k \in Nat /\ 1 <= k /\ k <= Len(order) + 1 - n
      <4>1. n \in Nat /\ n <= 1
        OBVIOUS
      <4>2. k \in 1 .. Len(order) + 1 - n
        BY <2>4, <2>6
      <4>. QED BY <4>1, <4>2, <2>6
    <3>2. Len(log') - Len(order') + k = Len(log) - Len(order) + (k + n)
      <4>1. Len(order') = Len(order) + 1 - n /\ Len(log') = Len(log) + 1
        BY <2>4, <2>6
      <4>2. Len(order) \in Nat /\ Len(log) \in Nat
        BY <2>6
      <4>. QED BY <3>1, <4>1, <4>2
    <3>3. CASE k = Len(order) + 1 - n
      <4>1. Len(log') - Len(order') + k = Len(log) + 1
        BY <3>1, <3>2, <3>3, <2>6
      <4>. QED BY <3>3, <4>1, <2>4, <2>6
    <3>4. CASE k # Len(order) + 1 - n
      <4>1. k + n \in 1 .. Len(order) /\ k + n > n /\ k + n - n = k
        BY <3>1, <3>4, <2>6
      <4>2. order'[k] = order[k + n]
        BY <4>1, <2>4
      <4>3. Len(log) - Len(order) + (k + n) \in 1 .. Len(log)
        BY <4>1, <2>5, <2>6
      <4>. QED BY <3>2, <4>1, <4>2, <4>3, <2>5, <2>6
    <3>. QED BY <3>3, <3>4
  <2>. QED BY <2>8, <2>9 DEF RecentInv
<1>3. CASE RejectPending
  BY <1>3 DEF RejectPending, Root, RecentInv, EndControls
<1>4. CASE ~RejectPending /\ ~ExecLabels /\ ~ExecReturn
  BY <1>1, <1>4, RecordFrame DEF RecentInv
<1>. QED BY <1>2, <1>3, <1>4

\* Of a request that the cache does not know, every execution lies behind those
\* of a whole cache of other requests.
LEMMA ForgottenIsOld ==
  ASSUME TypeOK, CacheConsistent, RecentInv, pc \notin EndControls,
         NEW r, r \notin DOMAIN completed, NEW i \in DOMAIN log, log[i].req = r
  PROVE  /\ IsFiniteSet({log[k].req : k \in i + 1 .. Len(log)})
         /\ Cardinality({log[k].req : k \in i + 1 .. Len(log)}) >= CompletedOpsCap
<1> DEFINE later == {log[k].req : k \in i + 1 .. Len(log)}
<1>1. /\ Len(order) \in Nat /\ Len(log) \in Nat /\ i \in 1 .. Len(log)
      /\ DOMAIN order = 1 .. Len(order)
  BY DEF TypeOK
<1>2. /\ Len(order) <= Len(log)
      /\ Len(order) = Len(log) \/ Len(order) = CompletedOpsCap
      /\ \A k \in 1 .. Len(order) : order[k] = log[Len(log) - Len(order) + k].req
  BY <1>1 DEF RecentInv
<1>3. i <= Len(log) - Len(order)
  <2> SUFFICES ASSUME i > Len(log) - Len(order) PROVE FALSE
    BY <1>1
  <2> DEFINE k == i - (Len(log) - Len(order))
  <2>1. k \in 1 .. Len(order) /\ Len(log) - Len(order) + k = i
    BY <1>1, <1>2
  <2>2. order[k] = r
    BY <2>1, <1>2
  <2>. QED BY <1>1, <2>1, <2>2 DEF CacheConsistent
<1>4. Len(order) = CompletedOpsCap
  BY <1>1, <1>2, <1>3
<1>5. IsFiniteSet(later)
  <2> DEFINE f == [k \in i + 1 .. Len(log) |-> log[k].req]
  <2>1. IsFiniteSet(i + 1 .. Len(log))
    BY <1>1, FS_Interval
  <2>2. f \in Surjection(i + 1 .. Len(log), later)
    BY DEF Surjection
  <2>. QED BY <2>1, <2>2, FS_Surjection
<1>6. \A k \in 1 .. CompletedOpsCap : order[k] \in later
  <2> TAKE k \in 1 .. CompletedOpsCap
  <2>1. Len(log) - Len(order) + k \in i + 1 .. Len(log)
    BY <1>1, <1>2, <1>3, <1>4
  <2>. QED BY <2>1, <1>2, <1>4
<1>7. order \in Injection(1 .. CompletedOpsCap, later)
  <2>1. DOMAIN order = 1 .. CompletedOpsCap /\ order = [k \in DOMAIN order |-> order[k]]
    BY <1>1, <1>4 DEF TypeOK
  <2>2. order \in [1 .. CompletedOpsCap -> later]
    BY <2>1, <1>6
  <2>. QED BY <2>1, <2>2 DEF CacheConsistent, Injection, IsInjective
<1>8. Cardinality(1 .. CompletedOpsCap) = CompletedOpsCap
  BY CapPositive, FS_Interval
<1>9. Cardinality(1 .. CompletedOpsCap) <= Cardinality(later)
  BY <1>5, <1>7, FS_Injection
<1>. QED BY <1>5, <1>8, <1>9, FS_CardinalityType, CapPositive

LEMMA OnceNext ==
  ASSUME ~AllowCancel, TypeOK, PhaseInv, StartInv, CacheConsistent, ServiceInv,
         RecentInv, AtMostOnce, [Next]_vars
  PROVE  AtMostOnce'
<1>1. CASE ExecLabels \/ ExecReturn
  <2>1. PICK u \in Updates, outcome \in {"ok"} \cup Outcomes :
          /\ Held(u) /\ ReqOf[u] \in Requests /\ pc \notin EndControls
          /\ Complete(u, outcome)
    BY <1>1, ExecutionRecords
  <2> DEFINE e == [req |-> ReqOf[u], outcome |-> outcome]
  <2>2. ReqOf[u] \notin DOMAIN completed /\ log \in Seq(Entries) /\ log' = Append(log, e)
    BY <2>1, HeldIsNew DEF TypeOK, Complete
  <2>3. /\ Len(log) \in Nat /\ DOMAIN log = 1 .. Len(log) /\ DOMAIN log' = 1 .. Len(log) + 1
        /\ log'[Len(log) + 1] = e /\ \A k \in 1 .. Len(log) : log'[k] = log[k]
    BY <2>2
  <2> SUFFICES ASSUME NEW j \in DOMAIN log', NEW i \in 1 .. j - 1, log'[i].req = log'[j].req
               PROVE  Cardinality({log'[k].req : k \in i + 1 .. j - 1}) >= CompletedOpsCap
    BY DEF AtMostOnce
  <2>4. i \in 1 .. Len(log) /\ j \in Nat /\ j <= Len(log) + 1
    BY <2>3
  <2>5. {log'[k].req : k \in i + 1 .. j - 1} = {log[k].req : k \in i + 1 .. j - 1}
    <3>1. \A k \in i + 1 .. j - 1 : log'[k] = log[k]
      BY <2>3, <2>4
    <3>. QED BY <3>1
  <2>6. CASE j <= Len(log)
    <3>1. j \in DOMAIN log /\ log[i].req = log[j].req
      BY <2>3, <2>4, <2>6
    <3>. QED BY <3>1, <2>5 DEF AtMostOnce
  <2>7. CASE j = Len(log) + 1
    <3>1. log[i].req = ReqOf[u] /\ i \in DOMAIN log /\ j - 1 = Len(log)
      BY <2>3, <2>4, <2>7
    <3>2. Cardinality({log[k].req : k \in i + 1 .. Len(log)}) >= CompletedOpsCap
      BY <3>1, <2>1, <2>2, ForgottenIsOld
    <3>. QED BY <3>1, <3>2, <2>5
  <2>. QED BY <2>3, <2>4, <2>6, <2>7
<1>2. CASE ~ExecLabels /\ ~ExecReturn
  <2>1. log' = log
    BY <1>2, RecordFrame DEF RejectPending, history
  <2>. QED BY <2>1 DEF AtMostOnce
<1>. QED BY <1>1, <1>2

-----------------------------------------------------------------------------

LEMMA HistoryInit ==
  ASSUME Init
  PROVE  StartInv /\ DirtyInv /\ MirrorInv /\ TruthInv /\ RecentInv /\ AtMostOnce
<1>1. StartInv /\ DirtyInv /\ MirrorInv
  BY DEF Init, StartInv, DirtyInv, MirrorInv
<1>2. TruthInv
  BY DEF Init, TruthInv
<1>3. RecentInv /\ AtMostOnce
  BY DEF Init, RecentInv, AtMostOnce
<1>. QED BY <1>1, <1>2, <1>3

\* What the beginning of a run finds and what its end leaves, in every
\* reachable state.
LEMMA StartCorrect == Spec => []StartInv
<1>1. LifecycleInv /\ StartInv /\ [Next]_vars => StartInv'
  BY StartNext DEF LifecycleInv
<1>. QED BY <1>1, HistoryInit, LifecycleCorrect, PTL DEF Spec

\* Whenever an entity whose reconcile ticks set no labels is idle or has closed,
\* visibility shows its phase and its labels, through any number of runs.
THEOREM VisibilityIsFresh == TickPatches = {} => (Spec => []MirrorFresh)
<1> SUFFICES ASSUME TickPatches = {} PROVE Spec => []MirrorFresh
  OBVIOUS
<1>1. DirtyInv /\ [Next]_vars => DirtyInv'
  BY DirtyNext
<1>2. LifecycleInv /\ StartInv /\ DirtyInv /\ MirrorInv /\ [Next]_vars => MirrorInv'
  BY MirrorNext DEF LifecycleInv
<1>3. DirtyInv /\ MirrorInv => MirrorFresh
  BY DEF DirtyInv, MirrorInv, MirrorFresh
<1>. QED BY <1>1, <1>2, <1>3, HistoryInit, LifecycleCorrect, StartCorrect, PTL DEF Spec

\* If no command fails with an empty error text, every answered caller was told
\* what became of its own request, and so will be all that send it again.
THEOREM AnswersAreTrue == "blank" \notin Outcomes => (Spec => [](TruthInv /\ AnswerTruthful))
<1> SUFFICES ASSUME "blank" \notin Outcomes PROVE Spec => [](TruthInv /\ AnswerTruthful)
  OBVIOUS
<1>1. LifecycleInv /\ StartInv /\ TruthInv /\ [Next]_vars => TruthInv'
  BY TruthNext DEF LifecycleInv
<1>2. TruthInv => AnswerTruthful
  BY DEF TruthInv, Truth, AnswerTruthful, EndPhases
<1>. QED BY <1>1, <1>2, HistoryInit, LifecycleCorrect, StartCorrect, PTL DEF Spec

\* If nobody cancels the workflow or sends a request again while it is in
\* flight, a request executes again only after as many other requests as the
\* cache holds, over any number of runs and commands.
THEOREM RequestsExecuteOnce ==
  ~AllowCancel /\ ~AllowOverlap => (Spec => []AtMostOnce)
<1> SUFFICES ASSUME ~AllowCancel, ~AllowOverlap PROVE Spec => []AtMostOnce
  OBVIOUS
<1>1. LifecycleInv /\ CacheConsistent /\ StartInv /\ ServiceInv /\ RecentInv /\ [Next]_vars
        => RecentInv'
  BY RecentNext DEF LifecycleInv
<1>2. LifecycleInv /\ CacheConsistent /\ StartInv /\ ServiceInv /\ RecentInv /\ AtMostOnce
        /\ [Next]_vars => AtMostOnce'
  BY OnceNext DEF LifecycleInv
<1>. QED
  BY <1>1, <1>2, HistoryInit, LifecycleCorrect, ServiceCorrect, StartCorrect, PTL DEF Spec

-----------------------------------------------------------------------------
(* The lifecycle *)

\* The queue with the executing command in front.
LEMMA ConsQueue ==
  ASSUME NEW S, NEW q \in Seq(S), NEW x \in S
  PROVE  /\ <<x>> \o q \in Seq(S) /\ <<x>> \o q # <<>>
         /\ Tail(<<x>> \o q) = q
         /\ \A y \in S : <<x>> \o Append(q, y) = Append(<<x>> \o q, y)
<1>1. /\ <<x>> \in Seq(S) /\ Len(<<x>>) = 1 /\ <<x>>[1] = x
      /\ <<x>> \o q \in Seq(S) /\ Len(<<x>> \o q) = Len(q) + 1
      /\ \A i \in 1 .. Len(q) + 1 : (<<x>> \o q)[i] = IF i = 1 THEN x ELSE q[i - 1]
  OBVIOUS
<1> DEFINE p == <<x>> \o q
<1>2. p # <<>>
  BY <1>1
<1>3. Tail(p) = q
  <2>1. Tail(p) \in Seq(S) /\ Len(Tail(p)) = Len(q)
    BY <1>1, <1>2
  <2>2. \A i \in 1 .. Len(q) : Tail(p)[i] = q[i]
    <3> TAKE i \in 1 .. Len(q)
    <3>1. Tail(p)[i] = p[i + 1]
      BY <1>1, <1>2
    <3>. QED BY <1>1, <3>1
  <2>. QED BY <2>1, <2>2, SeqEqual
<1>4. ASSUME NEW y \in S
      PROVE  <<x>> \o Append(q, y) = Append(p, y)
  <2>1. Append(q, y) \in Seq(S) /\ Append(q, y) = q \o <<y>> /\ <<y>> \in Seq(S)
    OBVIOUS
  <2>2. Append(p, y) = p \o <<y>>
    BY <1>1
  <2>. QED BY <1>1, <2>1, <2>2, ConcatAssociative
<1>. QED BY <1>1, <1>2, <1>3, <1>4

\* A command that leaves the queue to execute stays in front of it.
LEMMA HeadTailQueue ==
  ASSUME NEW S, NEW q \in Seq(S), q # <<>>
  PROVE  q = <<Head(q)>> \o Tail(q)
<1>1. /\ Head(q) \in S /\ Head(q) = q[1] /\ Tail(q) \in Seq(S) /\ Len(Tail(q)) = Len(q) - 1
      /\ Len(q) \in Nat /\ Len(q) >= 1 /\ \A i \in 1 .. Len(q) - 1 : Tail(q)[i] = q[i + 1]
  OBVIOUS
<1>2. PICK h \in Seq(S) : h = <<Head(q)>> /\ Len(h) = 1 /\ h[1] = q[1]
  <2>1. <<Head(q)>> \in Seq(S) /\ Len(<<Head(q)>>) = 1 /\ <<Head(q)>>[1] = q[1]
    BY <1>1
  <2>. QED BY <2>1
<1>3. PICK t \in Seq(S) : t = Tail(q)
  BY <1>1
<1>4. h \o t \in Seq(S) /\ Len(h \o t) = 1 + Len(t)
  BY <1>2
<1>5. Len(h \o t) = Len(q)
  BY <1>1, <1>3, <1>4
<1>6. ASSUME NEW i \in 1 .. Len(q)
      PROVE  (h \o t)[i] = q[i]
  <2>1. CASE i = 1
    BY <2>1, <1>2
  <2>2. CASE i # 1
    <3>1. i - 1 \in 1 .. Len(t)
      BY <1>1, <1>3, <2>2
    <3>2. (h \o t)[i] = t[i - 1]
      BY <1>2, <3>1
    <3>3. i - 1 \in 1 .. Len(q) - 1 /\ i - 1 + 1 = i
      BY <1>1, <2>2
    <3>4. t[i - 1] = q[i - 1 + 1]
      BY <1>1, <1>3, <3>3
    <3>. QED BY <3>2, <3>3, <3>4
  <2>. QED BY <2>1, <2>2
<1>. QED BY <1>2, <1>3, <1>4, <1>5, <1>6, SeqEqual

\* The refinement mapping, by where the root is.
LEMMA Mapping ==
  /\ pc = "closed" => Stage = "over"
  /\ pc # "closed" => Stage = phase
  /\ pc \in {"init_wait", "init_drain"} => Effect = "init"
  /\ pc = "exec" => Effect = "command" /\ Queue = <<cur>> \o pending
  /\ pc # "exec" => Queue = pending
  /\ pc = "tick" => Effect = "tick"
  /\ pc = "finalizing" => Effect = "finalize"
  /\ pc \notin {"init_wait", "init_drain", "exec", "tick", "finalizing"} => Effect = "none"
BY DEF Stage, Effect, Queue

LEMMA MappingNext ==
  /\ pc' = "closed" => Stage' = "over"
  /\ pc' # "closed" => Stage' = phase'
  /\ pc' \in {"init_wait", "init_drain"} => Effect' = "init"
  /\ pc' = "exec" => Effect' = "command" /\ Queue' = <<cur'>> \o pending'
  /\ pc' # "exec" => Queue' = pending'
  /\ pc' = "tick" => Effect' = "tick"
  /\ pc' = "finalizing" => Effect' = "finalize"
  /\ pc' \notin {"init_wait", "init_drain", "exec", "tick", "finalizing"} => Effect' = "none"
BY DEF Stage, Effect, Queue

\* What the lifecycle does not see.
LEMMA Invisible ==
  ASSUME UNCHANGED <<pc, phase, cur, pending>>, Waiting' = Waiting
  PROVE  UNCHANGED Lifecycle!vars
BY DEF Lifecycle!vars, Stage, Effect, Queue

\* An update that reaches the entity is accepted, or does not show.
LEMMA ArrivalMaps ==
  ASSUME LifecycleInv, StartInv, NEW u \in Updates,
         RejectUpdate(u) \/ AnswerDuplicate(u) \/ EnqueueUpdate(u)
  PROVE  Lifecycle!Accept(u) \/ UNCHANGED Lifecycle!vars
<1>1. /\ pc \notin {"closed", "start"} /\ u \notin Waiting
      /\ UNCHANGED <<pc, phase, cur>> /\ upd \in [Updates -> Statuses]
  BY DEF RejectUpdate, AnswerDuplicate, EnqueueUpdate, Arrives, Gathering, Waiting,
     machine, life, LifecycleInv, TypeOK
<1>2. CASE RejectUpdate(u) \/ AnswerDuplicate(u)
  <2>1. pending' = pending /\ Waiting' = Waiting
    BY <1>1, <1>2 DEF RejectUpdate, AnswerDuplicate, Waiting
  <2>. QED BY <1>1, <2>1, Invisible
<1>3. CASE EnqueueUpdate(u)
  <2>1. ~marked /\ pending' = Append(pending, u) /\ pending \in Seq(Updates)
    BY <1>3 DEF EnqueueUpdate, LifecycleInv, TypeOK
  <2>2. Stage \in {"creating", "ready"}
    BY <1>1, <2>1 DEF LifecycleInv, TypeOK, PhaseInv, StartInv, Stage, Controls, UserCode, Awaits
  <2>3. Stage' = Stage /\ Effect' = Effect
    BY <1>1 DEF Stage, Effect
  <2>4. Queue' = Append(Queue, u)
    <3>1. CASE pc = "exec"
      <4>1. cur \in Updates
        BY <3>1 DEF LifecycleInv, TypeOK
      <4>. QED BY <1>1, <2>1, <3>1, <4>1, ConsQueue, Mapping, MappingNext
    <3>2. CASE pc # "exec"
      BY <1>1, <2>1, <3>2, Mapping, MappingNext
    <3>. QED BY <3>1, <3>2
  <2>5. Waiting' = Waiting \cup {u} \/ (AllowCancel /\ Waiting' = Waiting)
    BY <1>1, <1>3 DEF EnqueueUpdate, Waiting, StartInv
  <2>. QED BY <2>2, <2>3, <2>4, <2>5 DEF Lifecycle!Accept
<1>. QED BY <1>2, <1>3

\* A workflow that returns ends the lifecycle.
LEMMA EndMaps ==
  ASSUME LifecycleInv, StartInv, AwaitCanceled \/ InitFailed \/ Deleted
  PROVE  Lifecycle!End
<1>1. /\ pc # "closed" /\ pc # "exec" /\ pc' = "closed" /\ pending' = pending /\ Waiting' = {}
  <2>1. PICK p : Return(p) /\ pending' = pending
    BY DEF AwaitCanceled, InitFailed, Deleted
  <2>2. pc # "closed" /\ pc # "exec"
    BY DEF AwaitCanceled, InitFailed, Deleted, Root, Awaits
  <2>. QED BY <2>1, <2>2, ReturnDrains DEF LifecycleInv
<1>2. Stage' = "over" /\ Effect' = "none" /\ Queue' = Queue
  BY <1>1, Mapping, MappingNext
<1>3. Stage # "over"
  BY <1>1, Mapping DEF LifecycleInv, PhaseInv, TypeOK, Phases
<1>4. CASE AwaitCanceled
  <2>1. AllowCancel /\ Effect \in {"none", "init"}
    BY <1>4, Mapping DEF AwaitCanceled, StartInv, Root, Awaits
  <2>. QED BY <1>1, <1>2, <1>3, <2>1 DEF Lifecycle!End
<1>5. CASE InitFailed
  <2>1. Stage = "creating" /\ Effect = "init"
    BY <1>5, Mapping DEF InitFailed, Root, LifecycleInv, PhaseInv
  <2>. QED BY <1>1, <1>2, <1>3, <2>1 DEF Lifecycle!End
<1>6. CASE Deleted
  <2>1. pc \in {"deleting", "finalizing"} /\ pending = <<>> /\ Waiting = {}
    BY <1>6 DEF Deleted, Root, AllHandlersFinished, LifecycleInv, DrainInv
  <2>2. Stage = "deleting" /\ Effect \in {"none", "finalize"} /\ Queue = <<>>
    BY <2>1, Mapping DEF LifecycleInv, PhaseInv
  <2>. QED BY <1>1, <1>2, <1>3, <2>1, <2>2 DEF Lifecycle!End
<1>. QED BY <1>4, <1>5, <1>6

\* Every step of the loop is a step of the lifecycle or does not show.
LEMMA LifecycleStep ==
  ASSUME LifecycleInv, StartInv, [Next]_vars
  PROVE  [Lifecycle!Next]_(Lifecycle!vars)
<1> USE DEF Lifecycle!Next
<1>0. /\ TypeOK /\ PhaseInv /\ DrainInv
      /\ pending \in Seq(Updates) /\ upd \in [Updates -> Statuses]
  BY DEF LifecycleInv, TypeOK
<1>1. CASE \E u \in Updates : RejectUpdate(u) \/ AnswerDuplicate(u) \/ EnqueueUpdate(u)
  BY <1>1, ArrivalMaps
<1>2. CASE DeliverDelete \/ DeliverCancel \/ DeliverInit \/ DeliverResult \/ DeliverTimer
           \/ StartTask \/ RunRoot \/ Yield \/ SetLabel \/ Terminated \/ UNCHANGED vars
  <2>1. UNCHANGED <<pc, phase, cur, pending, upd>>
    BY <1>2 DEF DeliverDelete, DeliverCancel, DeliverInit, DeliverResult, DeliverTimer,
       StartTask, RunRoot, Yield, SetLabel, Terminated, vars, machine, life, callers
  <2>2. Waiting' = Waiting
    BY <2>1 DEF Waiting
  <2>. QED BY <2>1, <2>2, Invisible
<1>3. CASE \E u \in Updates : HandlerReturn(u)
  <2>1. PICK u \in Updates : HandlerReturn(u)
    BY <1>3
  <2>2. u \in Waiting /\ UNCHANGED <<pc, phase, cur, pending>>
    BY <2>1 DEF HandlerReturn, HandlerReady, life
  <2>3. Waiting' = Waiting \ {u}
    BY <1>0, <2>1 DEF HandlerReturn, Waiting
  <2>4. UNCHANGED <<Stage, Effect, Queue>>
    BY <2>2 DEF Stage, Effect, Queue
  <2>. QED BY <2>2, <2>3, <2>4 DEF Lifecycle!Answer
<1>4. CASE AwaitCanceled \/ InitFailed \/ Deleted
  BY <1>4, EndMaps
<1>5. CASE RootStep /\ ~AwaitCanceled /\ ~InitFailed /\ ~Deleted
  <2>1. Waiting' = Waiting
    <3>1. upd' = upd
      BY <1>5 DEF RootStep, Goto, Start, StartInit, CancelInit, InitSucceeded, InitAborted,
         BeginDelete, RejectPending, Finalize, ExecLabels, ExecBegin, ExecReturn, BeginCan,
         ContinueAsNew, Idle, Wake, TickBegin, TickReturn, callers
    <3>. QED BY <3>1 DEF Waiting
  <2> USE <1>0, <2>1, Mapping, MappingNext DEF Root, PhaseInv, life
  <2>2. CASE Start
    <3>1. CASE initialized
      BY <2>2, <3>1 DEF Start, Lifecycle!vars
    <3>2. CASE ~initialized
      BY <2>2, <3>2 DEF Start, StartInv, Lifecycle!Created
    <3>. QED BY <3>1, <3>2
  <2>3. CASE StartInit
    BY <2>3 DEF StartInit, StartInv, Lifecycle!Create, Lifecycle!Starts
  <2>4. CASE InitSucceeded
    BY <2>4 DEF InitSucceeded, Lifecycle!Created
  <2>5. CASE InitAborted
    BY <2>5 DEF InitAborted, Goto, Lifecycle!CreationAborted
  <2>6. CASE BeginDelete
    BY <2>6 DEF BeginDelete, StartInv, Lifecycle!BeginDeletion
  <2>7. CASE RejectPending
    BY <2>7 DEF RejectPending, Lifecycle!Refuse
  <2>8. CASE Finalize
    BY <2>8 DEF Finalize, Goto, AllHandlersFinished, Lifecycle!Finalize, Lifecycle!Starts
  <2>9. CASE ExecLabels
    BY <2>9 DEF ExecLabels, Dequeues, Lifecycle!Relabel
  <2>10. CASE ExecBegin
    <3>1. /\ pc = "loop" /\ pc' = "exec" /\ initialized /\ UNCHANGED <<phase, upd>>
          /\ pending # <<>> /\ pending' = Tail(pending) /\ cur' = Head(pending)
      BY <2>10 DEF ExecBegin, Dequeues, callers
    <3>2. Queue' = Queue
      BY <3>1, HeadTailQueue
    <3>. QED BY <3>1, <3>2 DEF Lifecycle!Execute, Lifecycle!Starts
  <2>11. CASE ExecReturn
    <3>1. pc = "exec" /\ pc' = "loop" /\ UNCHANGED <<phase, pending>> /\ cur \in Updates
      BY <2>11 DEF ExecReturn, TypeOK
    <3>2. Queue' = Tail(Queue)
      BY <3>1, ConsQueue
    <3>. QED BY <3>1, <3>2 DEF Lifecycle!Executed
  <2>12. CASE TickBegin
    BY <2>12 DEF TickBegin, Condition, Goto, Lifecycle!Tick, Lifecycle!Starts
  <2>13. CASE TickReturn
    BY <2>13 DEF TickReturn, Goto, Lifecycle!Ticked
  <2>14. CASE CancelInit \/ BeginCan \/ Idle \/ Wake
    BY <2>14 DEF CancelInit, BeginCan, Idle, Wake, Goto, Lifecycle!vars
  <2>15. CASE ContinueAsNew
    BY <2>15 DEF ContinueAsNew, Lifecycle!vars
  <2>. QED
    BY <1>5, <2>2, <2>3, <2>4, <2>5, <2>6, <2>7, <2>8, <2>9, <2>10, <2>11, <2>12, <2>13, <2>14, <2>15 DEF RootStep
<1>. QED BY <1>1, <1>2, <1>3, <1>4, <1>5 DEF Next, Deliver, Schedule

\* The loop, run after run, implements the lifecycle: side effects one at a time,
\* commands in the order they were accepted, the finalizer after every answer,
\* and Continue-as-New invisible, whatever clients, server and operator do.
THEOREM LoopImplementsLifecycle == Spec => ImplementsLifecycle
<1>1. Init => Lifecycle!Init
  BY DEF Init, Lifecycle!Init, Stage, Effect, Queue, Waiting
<1>2. LifecycleInv /\ StartInv /\ [Next]_vars => [Lifecycle!Next]_(Lifecycle!vars)
  BY LifecycleStep
<1>. QED
  BY <1>1, <1>2, LifecycleCorrect, StartCorrect, PTL
     DEF Spec, ImplementsLifecycle, Lifecycle!Spec

=============================================================================
