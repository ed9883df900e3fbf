-------------------------- MODULE EntityServiceProofs --------------------------
(***************************************************************************)
(* Nobody waits in vain, for every value of the constants, when a request  *)
(* is sent again only after its answer: a result is read before the cache  *)
(* can evict it, because the commands in flight fit into the cache.        *)
(***************************************************************************)
EXTENDS EntityLifecycleProofs, FiniteSetTheorems, Functions

-----------------------------------------------------------------------------
(* The queue *)

\* Without its head, a queue that lists nothing twice lists everything else.
LEMMA TailQueue ==
  ASSUME NEW S, NEW q \in Seq(S), q # <<>>,
         \A i, j \in DOMAIN q : q[i] = q[j] => i = j
  PROVE  /\ Tail(q) \in Seq(S) /\ Len(Tail(q)) = Len(q) - 1 /\ Head(q) \in S
         /\ \A i, j \in DOMAIN Tail(q) : Tail(q)[i] = Tail(q)[j] => i = j
         /\ \A x : (\E i \in DOMAIN Tail(q) : Tail(q)[i] = x)
                     <=> (\E i \in DOMAIN q : q[i] = x) /\ x # Head(q)
<1>1. /\ Tail(q) \in Seq(S) /\ Len(Tail(q)) = Len(q) - 1
      /\ \A i \in 1 .. Len(q) - 1 : Tail(q)[i] = q[i + 1]
      /\ Len(q) \in Nat /\ Len(q) >= 1 /\ Head(q) = q[1] /\ Head(q) \in S
  OBVIOUS
<1>2. DOMAIN Tail(q) = 1 .. Len(q) - 1 /\ DOMAIN q = 1 .. Len(q)
  BY <1>1
<1>3. \A i, j \in DOMAIN Tail(q) : Tail(q)[i] = Tail(q)[j] => i = j
  <2> TAKE i, j \in DOMAIN Tail(q)
  <2>1. i \in Int /\ j \in Int /\ i + 1 \in DOMAIN q /\ j + 1 \in DOMAIN q
    BY <1>1, <1>2
  <2>. QED BY <1>1, <1>2, <2>1
<1>4. ASSUME NEW i \in DOMAIN Tail(q)
      PROVE  i + 1 \in DOMAIN q /\ Tail(q)[i] = q[i + 1] /\ Tail(q)[i] # Head(q)
  BY <1>1, <1>2
<1>5. ASSUME NEW i \in DOMAIN q, q[i] # Head(q)
      PROVE  i - 1 \in DOMAIN Tail(q) /\ Tail(q)[i - 1] = q[i]
  BY <1>1, <1>2, <1>5
<1>6. ASSUME NEW x
      PROVE  (\E i \in DOMAIN Tail(q) : Tail(q)[i] = x)
               <=> (\E i \in DOMAIN q : q[i] = x) /\ x # Head(q)
  <2>1. ASSUME NEW i \in DOMAIN Tail(q), Tail(q)[i] = x
        PROVE  (\E j \in DOMAIN q : q[j] = x) /\ x # Head(q)
    BY <1>4, <2>1
  <2>2. ASSUME NEW i \in DOMAIN q, q[i] = x, x # Head(q)
        PROVE  \E j \in DOMAIN Tail(q) : Tail(q)[j] = x
    BY <1>5, <2>2
  <2>. QED BY <2>1, <2>2
<1>. QED BY <1>1, <1>3, <1>6

\* The commands held are at most as many as the callers that wait.
LEMMA HeldAreWaiting ==
  ASSUME TypeOK, HeldInv
  PROVE  HeldCount \in Nat /\ HeldCount <= Cardinality(Waiting)
<1> DEFINE f == [i \in 1 .. HeldCount |-> IF i <= Len(pending) THEN pending[i] ELSE cur]
<1>1. /\ HeldCount \in Nat /\ Len(pending) \in Nat /\ DOMAIN pending = 1 .. Len(pending)
      /\ \A i \in 1 .. HeldCount : i > Len(pending) => pc = "exec" /\ i = Len(pending) + 1
  BY DEF HeldCount, TypeOK
<1>2. \A i \in 1 .. HeldCount : f[i] \in Waiting
  <2> TAKE i \in 1 .. HeldCount
  <2>1. CASE i <= Len(pending)
    <3>1. i \in DOMAIN pending /\ f[i] = pending[i] /\ pending[i] \in Updates
      BY <1>1, <2>1 DEF TypeOK
    <3>. QED BY <3>1 DEF HeldInv, Held, InQueue
  <2>2. CASE i > Len(pending)
    <3>1. pc = "exec" /\ f[i] = cur /\ cur \in Updates
      BY <1>1, <2>2 DEF TypeOK
    <3>. QED BY <3>1 DEF HeldInv, Held
  <2>. QED BY <1>1, <2>1, <2>2
<1>3. \A i, j \in 1 .. HeldCount : f[i] = f[j] => i = j
  <2> TAKE i, j \in 1 .. HeldCount
  <2>1. CASE i <= Len(pending) /\ j <= Len(pending)
    BY <1>1, <2>1 DEF HeldInv
  <2>2. CASE i > Len(pending) /\ j > Len(pending)
    BY <1>1, <2>2
  <2>3. CASE i <= Len(pending) /\ j > Len(pending)
    BY <1>1, <2>3 DEF HeldInv, InQueue
  <2>4. CASE i > Len(pending) /\ j <= Len(pending)
    BY <1>1, <2>4 DEF HeldInv, InQueue
  <2>. QED BY <1>1, <2>1, <2>2, <2>3, <2>4
<1>4. f \in Injection(1 .. HeldCount, Waiting)
  BY <1>2, <1>3 DEF Injection, IsInjective
<1>5. IsFiniteSet(Waiting)
  BY EntityLoopAssumption, FS_Subset DEF Waiting
<1>6. Cardinality(1 .. HeldCount) <= Cardinality(Waiting)
  BY <1>4, <1>5, FS_Injection
<1>7. Cardinality(1 .. HeldCount) = HeldCount
  BY <1>1, FS_Interval
<1>. QED BY <1>1, <1>6, <1>7

-----------------------------------------------------------------------------
(* The two waits for the handlers *)

\* A waiting caller whose command is not held is about to be answered.
LEMMA ServedIsReady ==
  ASSUME CacheConsistent, ServedInv, NEW u \in Waiting, ~Held(u)
  PROVE  ReqOf[u] \in DOMAIN completed /\ HandlerReady(u)
BY DEF CacheConsistent, ServedInv, HandlerReady

LEMMA WaitNext ==
  ASSUME TypeOK, CacheConsistent, ServiceInv, [Next]_vars
  PROVE  WaitInv'
<1> USE DEF WaitInv, ServiceInv, Root
<1>1. CASE Deliver
  <2>1. pc \notin {"deleting", "can_wait"}
    BY <1>1 DEF Deliver, RejectUpdate, AnswerDuplicate, EnqueueUpdate, DeliverDelete,
       DeliverCancel, DeliverInit, DeliverResult, DeliverTimer, Arrives, Gathering
  <2>. QED BY <1>1, <2>1, DeliverFrame DEF machine
<1>2. CASE Yield
  <2>1. pc' = pc /\ pending' = pending
    BY <1>2 DEF Yield
  <2>2. ASSUME pc \in {"deleting", "can_wait"}
        PROVE  task' # "gather"
    <3>1. /\ ~cancelled /\ pending = <<>> /\ Waiting # {} /\ pc # "closed" /\ pc # "exec"
      BY <1>2, <2>2 DEF Yield, RootReady, Condition, Awaits, AllHandlersFinished
    <3>2. PICK u \in Waiting : TRUE
      BY <3>1
    <3>3. ~Held(u) /\ u \in Updates
      BY <3>1 DEF Held, InQueue, Waiting
    <3>4. HandlerReady(u)
      BY <3>1, <3>3, ServedIsReady DEF ServeInv
    <3>. QED BY <1>2, <3>3, <3>4 DEF Yield
  <2>. QED BY <2>1, <2>2
<1>3. CASE StartTask \/ RunRoot \/ \E u \in Updates : HandlerReturn(u)
  BY <1>3 DEF StartTask, RunRoot, HandlerReturn, machine, life, Gathering
<1>4. CASE SetLabel \/ Terminated \/ UNCHANGED vars
  BY <1>4 DEF SetLabel, Terminated, vars, history
<1>5. CASE BeginCan \/ BeginDelete \/ RejectPending
  BY <1>5 DEF BeginCan, BeginDelete, RejectPending, Goto
<1>6. CASE RootStep /\ ~BeginCan /\ ~BeginDelete /\ ~RejectPending
  <2>1. pc' \notin {"deleting", "can_wait"}
    BY <1>6 DEF RootStep, Goto, Return, AwaitCanceled, Start, StartInit, CancelInit,
       InitSucceeded, InitAborted, InitFailed, Finalize, Deleted, Dequeues, ExecLabels,
       ExecBegin, ExecReturn, ContinueAsNew, Idle, Wake, TickBegin, TickReturn
  <2>. QED BY <2>1
<1>. QED BY <1>1, <1>2, <1>3, <1>4, <1>5, <1>6 DEF Next, Schedule

-----------------------------------------------------------------------------
(* Steps that record nothing *)

\* A step that leaves the callers, the cache and the commands held alone, and
\* does not go back to gathering events.
LEMMA ServeFrame ==
  ASSUME ServeInv, UNCHANGED <<cache, pending>>, Waiting' = Waiting,
         (pc = "exec") = (pc' = "exec"), pc = "exec" => cur' = cur,
         task' = "gather" => task = "gather"
  PROVE  ServeInv'
<1> USE DEF cache
<1>1. \A u : InQueue(u)' = InQueue(u)
  BY DEF InQueue
<1>2. \A u : Held(u)' = Held(u)
  BY <1>1 DEF Held
<1>3. HeldCount' = HeldCount
  BY DEF HeldCount
<1>4. HeldInv'
  BY <1>1, <1>2 DEF ServeInv, HeldInv
<1>5. ServedInv'
  BY <1>2, <1>3 DEF ServeInv, ServedInv
<1>6. ReadInv'
  BY DEF ServeInv, ReadInv
<1>. QED BY <1>3, <1>4, <1>5, <1>6 DEF ServeInv

\* An accepted command: while events are gathered every result was read, so the
\* callers that wait are those whose commands are held, and there is room.
LEMMA ServeEnqueue ==
  ASSUME TypeOK, CacheConsistent, ServeInv, ~cancelled, ~AllowOverlap,
         NEW u \in Updates, EnqueueUpdate(u)
  PROVE  ServeInv'
<1>1. /\ task = "gather" /\ u \notin Waiting /\ Cardinality(Waiting) < MaxInFlight
      /\ \A v \in Waiting : ReqOf[v] # ReqOf[u]
      /\ ReqOf[u] \notin DOMAIN completed
  BY DEF EnqueueUpdate, Arrives, Gathering, Waiting
<1>2. /\ pending' = Append(pending, u) /\ Waiting' = Waiting \cup {u}
      /\ UNCHANGED <<completed, order, pc, cur, task>>
  BY DEF EnqueueUpdate, Waiting, machine, cache, TypeOK
<1>3. /\ pending \in Seq(Updates) /\ DOMAIN pending = 1 .. Len(pending) /\ Len(pending) \in Nat
      /\ DOMAIN pending' = 1 .. Len(pending) + 1 /\ Len(pending') = Len(pending) + 1
      /\ pending'[Len(pending) + 1] = u
      /\ \A i \in 1 .. Len(pending) : pending'[i] = pending[i]
  BY <1>2 DEF TypeOK
<1>4. \A v : InQueue(v)' <=> InQueue(v) \/ v = u
  BY <1>3 DEF InQueue
<1>5. \A v : Held(v)' <=> Held(v) \/ v = u
  BY <1>2, <1>4 DEF Held
<1>6. ~Held(u)
  BY <1>1 DEF ServeInv, HeldInv
<1>7. HeldInv'
  <2>1. \A v \in Updates : Held(v)' => v \in Waiting' /\ ReqOf[v] \notin DOMAIN completed'
    BY <1>1, <1>2, <1>5 DEF ServeInv, HeldInv
  <2>2. \A i, j \in DOMAIN pending' : pending'[i] = pending'[j] => i = j
    <3>1. \A i \in DOMAIN pending : pending[i] # u
      BY <1>6 DEF Held, InQueue
    <3>. QED BY <1>3, <3>1 DEF ServeInv, HeldInv
  <2>3. pc' = "exec" => ~InQueue(cur)'
    BY <1>2, <1>4, <1>6 DEF ServeInv, HeldInv, Held
  <2>4. \A v, w \in Waiting' : ReqOf[v] = ReqOf[w] => v = w
    BY <1>1, <1>2 DEF ServeInv, HeldInv
  <2>. QED BY <2>1, <2>2, <2>3, <2>4 DEF HeldInv
<1>8. \A v \in Waiting : Held(v)
  BY <1>1, ServedIsReady DEF ServeInv, ReadInv
<1>9. ServedInv'
  BY <1>2, <1>5, <1>8 DEF ServedInv
<1>10. ReadInv'
  BY <1>1, <1>2 DEF ServeInv, ReadInv
<1>11. HeldCount' <= MaxInFlight
  <2>1. HeldCount \in Nat /\ HeldCount <= Cardinality(Waiting)
    BY HeldAreWaiting DEF ServeInv
  <2>2. HeldCount' = HeldCount + 1
    BY <1>2, <1>3 DEF HeldCount
  <2>3. Cardinality(Waiting) \in Nat /\ MaxInFlight \in Nat
    BY EntityLoopAssumption, FS_Subset, FS_CardinalityType DEF Waiting
  <2>. QED BY <1>1, <2>1, <2>2, <2>3
<1>. QED BY <1>7, <1>9, <1>10, <1>11 DEF ServeInv

\* A caller that reads its result: its command is not held.
LEMMA ServeReturn ==
  ASSUME TypeOK, ServeInv, ~cancelled, NEW u \in Updates, HandlerReturn(u)
  PROVE  ServeInv'
<1>1. /\ u \in Waiting /\ ReqOf[u] \in DOMAIN completed /\ task' = "handlers"
      /\ UNCHANGED <<completed, order, pending, pc, cur>>
  BY DEF HandlerReturn, HandlerReady, cache
<1>2. Waiting' = Waiting \ {u}
  BY <1>1 DEF HandlerReturn, Waiting, TypeOK
<1>3. \A v : InQueue(v)' = InQueue(v)
  BY <1>1 DEF InQueue
<1>4. \A v : Held(v)' = Held(v)
  BY <1>1, <1>3 DEF Held
<1>5. HeldCount' = HeldCount
  BY <1>1 DEF HeldCount
<1>6. HeldInv'
  BY <1>1, <1>2, <1>3, <1>4 DEF ServeInv, HeldInv
<1>7. ServedInv'
  BY <1>1, <1>2, <1>4, <1>5 DEF ServeInv, ServedInv
<1>8. ReadInv'
  BY <1>1 DEF ReadInv
<1>. QED BY <1>5, <1>6, <1>7, <1>8 DEF ServeInv

\* Events are gathered again only when no handler has anything to read.
LEMMA ServeYield ==
  ASSUME ServeInv, Yield
  PROVE  ServeInv'
<1>1. /\ UNCHANGED <<completed, order, pending, pc, cur, upd>> /\ task = "root"
      /\ task' = "gather" => ~\E u \in Updates : HandlerReady(u)
  BY DEF Yield, cache, callers, Root
<1>2. Waiting' = Waiting
  BY <1>1 DEF Waiting
<1>3. \A u : InQueue(u)' = InQueue(u)
  BY <1>1 DEF InQueue
<1>4. \A u : Held(u)' = Held(u)
  BY <1>1, <1>3 DEF Held
<1>5. HeldCount' = HeldCount
  BY <1>1 DEF HeldCount
<1>6. HeldInv'
  BY <1>1, <1>2, <1>3, <1>4 DEF ServeInv, HeldInv
<1>7. ServedInv'
  BY <1>1, <1>2, <1>4, <1>5 DEF ServeInv, ServedInv
<1>8. ReadInv'
  BY <1>1, <1>2 DEF ReadInv, HandlerReady, Waiting
<1>. QED BY <1>5, <1>6, <1>7, <1>8 DEF ServeInv

\* A command that starts is held by the root instead of the queue.
LEMMA ServeExecBegin ==
  ASSUME TypeOK, ServeInv, ExecBegin
  PROVE  ServeInv'
<1>1. /\ UNCHANGED <<completed, order, upd, task>> /\ task = "root"
      /\ pending # <<>> /\ pending \in Seq(Updates) /\ pending' = Tail(pending)
      /\ pc # "exec" /\ pc' = "exec" /\ cur' = Head(pending)
  BY DEF ExecBegin, Dequeues, Root, cache, callers, TypeOK
<1>2. Waiting' = Waiting
  BY <1>1 DEF Waiting
<1>3. /\ Len(Tail(pending)) = Len(pending) - 1 /\ Len(pending) \in Nat
      /\ \A i, j \in DOMAIN Tail(pending) : Tail(pending)[i] = Tail(pending)[j] => i = j
      /\ \A x : (\E i \in DOMAIN Tail(pending) : Tail(pending)[i] = x)
                  <=> (\E i \in DOMAIN pending : pending[i] = x) /\ x # Head(pending)
      /\ \E i \in DOMAIN pending : pending[i] = Head(pending)
  <2>1. \A i, j \in DOMAIN pending : pending[i] = pending[j] => i = j
    BY DEF ServeInv, HeldInv
  <2>2. 1 \in DOMAIN pending /\ Head(pending) = pending[1] /\ Len(pending) \in Nat
    BY <1>1
  <2>. QED BY <1>1, <2>1, <2>2, TailQueue
<1>4. \A x : InQueue(x)' <=> InQueue(x) /\ x # Head(pending)
  BY <1>1, <1>3 DEF InQueue
<1>5. InQueue(Head(pending))
  BY <1>3 DEF InQueue
<1>6. \A x : Held(x)' <=> Held(x)
  BY <1>1, <1>4, <1>5 DEF Held
<1>7. HeldCount' = HeldCount
  BY <1>1, <1>3 DEF HeldCount
<1>8. HeldInv'
  BY <1>1, <1>2, <1>3, <1>4, <1>6 DEF ServeInv, HeldInv
<1>9. ServedInv'
  BY <1>1, <1>2, <1>6, <1>7 DEF ServeInv, ServedInv
<1>10. ReadInv'
  BY <1>1 DEF ReadInv
<1>. QED BY <1>7, <1>8, <1>9, <1>10 DEF ServeInv

-----------------------------------------------------------------------------
(* Steps that record a result *)

\* A request that is new to the cache becomes its last; the others move up by
\* one place if the cache was full, and then the oldest is gone.
LEMMA RecordNew ==
  ASSUME NEW c, NEW o \in Seq(Requests), NEW r \in Requests, Consistent(c, o),
         r \notin DOMAIN c
  PROVE  \E n \in {0, 1} :
           /\ n = 1 => Len(o) = CompletedOpsCap
           /\ RecordOrder(c, o, r) \in Seq(Requests)
           /\ Len(RecordOrder(c, o, r)) = Len(o) + 1 - n
           /\ RecordOrder(c, o, r)[Len(o) + 1 - n] = r
           /\ \A k \in 1 .. Len(o) : k > n => RecordOrder(c, o, r)[k - n] = o[k]
<1> DEFINE e  == Enlisted(c, o, r)
           n  == Overflow(e)
           o2 == RecordOrder(c, o, r)
<1>1. /\ n \in {0, 1} /\ e \in Seq(Requests) /\ n <= Len(e)
      /\ o2 \in Seq(Requests) /\ Len(o2) = Len(e) - n /\ Len(o2) <= CompletedOpsCap
      /\ \A i \in 1 .. Len(e) - n : o2[i] = e[i + n]
  BY RecordShape
<1>2. /\ Len(e) = Len(o) + 1 /\ e[Len(o) + 1] = r /\ Len(o) \in Nat
      /\ \A i \in 1 .. Len(o) : e[i] = o[i]
  BY DEF Enlisted
<1>3. n = IF Len(e) > CompletedOpsCap THEN Len(e) - CompletedOpsCap ELSE 0
  BY DEF Overflow
<1> HIDE DEF e, n, o2
<1>4. n = 1 => Len(o) = CompletedOpsCap
  BY <1>2, <1>3, CapPositive
<1>5. n = 0 \/ Len(o) >= 1
  BY <1>2, <1>4, <1>1, CapPositive
<1>6. o2[Len(o) + 1 - n] = r
  <2>1. Len(o) + 1 - n \in 1 .. Len(e) - n /\ Len(o) + 1 - n + n = Len(o) + 1
    BY <1>1, <1>2, <1>5
  <2>. QED BY <2>1, <1>1, <1>2
<1>7. ASSUME NEW k \in 1 .. Len(o), k > n
      PROVE  o2[k - n] = o[k]
  <2>1. k - n \in 1 .. Len(e) - n /\ k - n + n = k
    BY <1>1, <1>2, <1>7
  <2>. QED BY <2>1, <1>1, <1>2
<1>. QED BY <1>1, <1>2, <1>4, <1>6, <1>7 DEF o2

\* The result of a command that was held is the last in the cache, and the
\* results before it that are not read yet survive: the entry evicted, if any,
\* is older than all of them, since they and the commands still held together
\* are fewer than the cache holds.
LEMMA ServeRecord ==
  ASSUME TypeOK, CacheConsistent, ServeInv,
         NEW u \in Updates, NEW t, Held(u),
         completed' = RecordCompleted(completed, order, ReqOf[u], t),
         order' = RecordOrder(completed, order, ReqOf[u]),
         Waiting' = Waiting, task' = "root", pc' # "exec",
         \A v : Held(v)' <=> Held(v) /\ v # u,
         HeldCount \in Nat \ {0}, HeldCount' = HeldCount - 1,
         \A i, j \in DOMAIN pending' : pending'[i] = pending'[j] => i = j
  PROVE  ServeInv'
<1>1. /\ u \in Waiting /\ ReqOf[u] \notin DOMAIN completed
      /\ \A v, w \in Waiting : ReqOf[v] = ReqOf[w] => v = w
  BY DEF ServeInv, HeldInv
<1>2. ReqOf[u] \in Requests /\ order \in Seq(Requests) /\ Consistent(completed, order)
  BY EntityLoopAssumption DEF TypeOK, CacheConsistent, Consistent
<1>3. PICK n \in {0, 1} :
        /\ n = 1 => Len(order) = CompletedOpsCap
        /\ order' \in Seq(Requests) /\ Len(order') = Len(order) + 1 - n
        /\ order'[Len(order) + 1 - n] = ReqOf[u]
        /\ \A k \in 1 .. Len(order) : k > n => order'[k - n] = order[k]
  BY <1>1, <1>2, RecordNew
<1>4. DOMAIN completed' \subseteq DOMAIN completed \cup {ReqOf[u]}
  BY DEF RecordCompleted
<1>5. HeldInv'
  <2>1. ASSUME NEW v \in Updates, Held(v)'
        PROVE  v \in Waiting' /\ ReqOf[v] \notin DOMAIN completed'
    <3>1. Held(v) /\ v # u
      BY <2>1
    <3>2. v \in Waiting /\ ReqOf[v] \notin DOMAIN completed
      BY <3>1 DEF ServeInv, HeldInv
    <3>. QED BY <3>1, <3>2, <1>1, <1>4
  <2>2. \A v, w \in Waiting' : ReqOf[v] = ReqOf[w] => v = w
    BY <1>1
  <2>. QED BY <2>1, <2>2 DEF HeldInv
<1>6. /\ MaxInFlight \in Nat /\ MaxInFlight <= CompletedOpsCap /\ CompletedOpsCap \in Nat
      /\ HeldCount \in Nat /\ HeldCount >= 1 /\ Len(order) \in Nat /\ Len(order') \in Nat
      /\ DOMAIN order = 1 .. Len(order) /\ DOMAIN order' = 1 .. Len(order')
  <2>1. /\ MaxInFlight \in Nat /\ MaxInFlight <= CompletedOpsCap /\ CompletedOpsCap \in Nat
    BY EntityLoopAssumption, InFlightFitsCache, CapPositive
  <2>2. HeldCount \in Nat /\ HeldCount >= 1
    OBVIOUS
  <2>3. /\ Len(order) \in Nat /\ Len(order') \in Nat
        /\ DOMAIN order = 1 .. Len(order) /\ DOMAIN order' = 1 .. Len(order')
    BY <1>2, <1>3
  <2>. QED BY <2>1, <2>2, <2>3
<1>10. n \in Nat /\ n <= 1
  BY <1>3
<1>7. ServedInv'
  <2> SUFFICES ASSUME NEW v \in Waiting, ~Held(v)'
               PROVE  \E k \in 1 .. Len(order') :
                        order'[k] = ReqOf[v] /\ Len(order') - k + HeldCount - 1 < MaxInFlight
    BY <1>6 DEF ServedInv
  <2>1. CASE v = u
    <3>1. Len(order') \in 1 .. Len(order')
      <4>1. n = 0 \/ Len(order) >= 1
        BY <1>3, <1>6, <1>10, CapPositive
      <4>2. Len(order') = Len(order) + 1 - n
        BY <1>3
      <4>. QED BY <4>1, <4>2, <1>6, <1>10
    <3>2. HeldCount <= MaxInFlight
      BY DEF ServeInv
    <3>3. Len(order') - Len(order') + HeldCount - 1 < MaxInFlight
      BY <1>6, <3>2
    <3>. QED BY <2>1, <3>1, <3>3, <1>3
  <2>2. CASE v # u
    <3>1. ~Held(v)
      BY <2>2
    <3>2. PICK k \in DOMAIN order :
            order[k] = ReqOf[v] /\ Len(order) - k + HeldCount < MaxInFlight
      BY <3>1 DEF ServeInv, ServedInv
    <3>3. k \in Nat /\ 1 <= k /\ k <= Len(order) /\ n \in Nat
      BY <3>2, <1>6, <1>10
    <3>4. k > n
      <4>1. n = 1 => Len(order) = CompletedOpsCap
        BY <1>3
      <4>2. Len(order) - k + HeldCount < MaxInFlight
        BY <3>2
      <4>3. CASE n = 0
        BY <4>3, <3>3
      <4>4. CASE n = 1
        <5>1. Len(order) = CompletedOpsCap
          BY <4>1, <4>4
        <5>2. k > HeldCount
          BY <4>2, <5>1, <3>3, <1>6
        <5>. QED BY <5>2, <4>4, <3>3, <1>6
      <4>. QED BY <4>3, <4>4
    <3>5. order'[k - n] = order[k]
      BY <3>3, <3>4, <1>3
    <3>6. k - n \in 1 .. Len(order')
      <4>1. Len(order') = Len(order) + 1 - n
        BY <1>3
      <4>. QED BY <4>1, <3>3, <3>4, <1>6, <1>10
    <3>7. Len(order') - (k - n) + HeldCount - 1 < MaxInFlight
      <4>1. Len(order') = Len(order) + 1 - n
        BY <1>3
      <4>. QED BY <4>1, <3>2, <3>3, <1>6, <1>10
    <3>. QED BY <3>2, <3>5, <3>6, <3>7
  <2>. QED BY <2>1, <2>2
<1>8. ReadInv'
  BY DEF ReadInv
<1>9. HeldCount' <= MaxInFlight
  BY <1>6 DEF ServeInv
<1>. QED BY <1>5, <1>7, <1>8, <1>9 DEF ServeInv

\* Recording the result of the first command of the queue.
LEMMA ServeRecordHead ==
  ASSUME TypeOK, CacheConsistent, ServeInv, NEW t,
         pending # <<>>, pc # "exec", pc' = pc, pending' = Tail(pending),
         completed' = RecordCompleted(completed, order, ReqOf[Head(pending)], t),
         order' = RecordOrder(completed, order, ReqOf[Head(pending)]),
         upd' = upd, task' = "root"
  PROVE  ServeInv'
<1>1. pending \in Seq(Updates) /\ Len(pending) \in Nat \ {0}
  BY DEF TypeOK
<1>2. \A i, j \in DOMAIN pending : pending[i] = pending[j] => i = j
  BY DEF ServeInv, HeldInv
<1>3. /\ Head(pending) \in Updates /\ Len(Tail(pending)) = Len(pending) - 1
      /\ \A i, j \in DOMAIN Tail(pending) : Tail(pending)[i] = Tail(pending)[j] => i = j
      /\ \A x : (\E i \in DOMAIN Tail(pending) : Tail(pending)[i] = x)
                  <=> (\E i \in DOMAIN pending : pending[i] = x) /\ x # Head(pending)
  BY <1>1, <1>2, TailQueue
<1>4. \A x : Held(x)' <=> Held(x) /\ x # Head(pending)
  BY <1>3 DEF Held, InQueue
<1>5. Held(Head(pending))
  <2>1. 1 \in DOMAIN pending /\ pending[1] = Head(pending)
    BY <1>1
  <2>. QED BY <2>1 DEF Held, InQueue
<1>6. HeldCount \in Nat \ {0} /\ HeldCount' = HeldCount - 1
  BY <1>1, <1>3 DEF HeldCount
<1>7. Waiting' = Waiting
  BY DEF Waiting
<1>. QED BY <1>3, <1>4, <1>5, <1>6, <1>7, ServeRecord

\* Recording the result of the command that executes.
LEMMA ServeExecReturn ==
  ASSUME TypeOK, CacheConsistent, ServeInv, ExecReturn
  PROVE  ServeInv'
<1>1. PICK outcome \in Outcomes : Complete(cur, outcome)
  BY DEF ExecReturn
<1>2. /\ pc = "exec" /\ pc' = "loop" /\ task = "root" /\ UNCHANGED <<pending, upd, task>>
      /\ cur \in Updates /\ Len(pending) \in Nat
  BY DEF ExecReturn, Root, callers, TypeOK
<1>3. Held(cur) /\ ~InQueue(cur)
  BY <1>2 DEF Held, ServeInv, HeldInv
<1>4. \A x : Held(x)' <=> Held(x) /\ x # cur
  BY <1>2, <1>3 DEF Held, InQueue
<1>5. HeldCount \in Nat \ {0} /\ HeldCount' = HeldCount - 1
  BY <1>2 DEF HeldCount
<1>6. Waiting' = Waiting
  BY <1>2 DEF Waiting
<1>7. \A i, j \in DOMAIN pending' : pending'[i] = pending'[j] => i = j
  BY <1>2 DEF ServeInv, HeldInv
<1>. QED BY <1>1, <1>2, <1>3, <1>4, <1>5, <1>6, <1>7, ServeRecord DEF Complete

-----------------------------------------------------------------------------
(* Every step *)

\* Any step of a run that is not cancelled.
LEMMA ServeNext ==
  ASSUME TypeOK, CacheConsistent, ServeInv, ~cancelled, ~AllowOverlap, ~ContinueAsNew, [Next]_vars
  PROVE  pc' = "closed" \/ ServeInv'
<1>1. CASE \E u \in Updates : EnqueueUpdate(u)
  BY <1>1, ServeEnqueue
<1>2. CASE \E u \in Updates : RejectUpdate(u) \/ AnswerDuplicate(u)
  <2>1. PICK u \in Updates : RejectUpdate(u) \/ AnswerDuplicate(u)
    BY <1>2
  <2>2. /\ UNCHANGED <<cache, pending, pc, cur, task>>
        /\ u \notin Waiting /\ upd' \in {[upd EXCEPT ![u] = "rejected"], [upd EXCEPT ![u] = "answered"]}
    BY <2>1 DEF RejectUpdate, AnswerDuplicate, Arrives, Waiting, machine
  <2>3. Waiting' = Waiting
    BY <2>2 DEF Waiting, TypeOK
  <2>. QED BY <2>2, <2>3, ServeFrame
<1>3. CASE DeliverDelete \/ DeliverCancel \/ DeliverInit \/ DeliverResult \/ DeliverTimer
           \/ StartTask \/ RunRoot \/ SetLabel \/ Terminated \/ UNCHANGED vars
  <2>1. UNCHANGED <<cache, pending, pc, cur, upd>> /\ (task' = "gather" => task = "gather")
    BY <1>3 DEF DeliverDelete, DeliverCancel, DeliverInit, DeliverResult, DeliverTimer,
       StartTask, RunRoot, SetLabel, Terminated, vars, machine, callers
  <2>2. Waiting' = Waiting
    BY <2>1 DEF Waiting
  <2>. QED BY <2>1, <2>2, ServeFrame
<1>4. CASE Yield
  BY <1>4, ServeYield
<1>5. CASE \E u \in Updates : HandlerReturn(u)
  BY <1>5, ServeReturn
<1>6. CASE AwaitCanceled \/ InitFailed \/ Deleted
  BY <1>6 DEF AwaitCanceled, InitFailed, Deleted, Return
<1>7. CASE \/ Start \/ StartInit \/ CancelInit \/ InitSucceeded \/ InitAborted
           \/ BeginDelete \/ Finalize \/ BeginCan \/ Idle \/ Wake \/ TickBegin \/ TickReturn
  <2>1. UNCHANGED <<cache, pending, cur, task, upd>> /\ pc # "exec" /\ pc' # "exec"
    BY <1>7 DEF Start, StartInit, CancelInit, InitSucceeded, InitAborted, BeginDelete,
       Finalize, BeginCan, Idle, Wake, TickBegin, TickReturn, Goto, Root, callers
  <2>2. Waiting' = Waiting
    BY <2>1 DEF Waiting
  <2>. QED BY <2>1, <2>2, ServeFrame
<1>8. CASE RejectPending
  <2>1. /\ pending # <<>> /\ pc = "deleting" /\ pc' = pc /\ pending' = Tail(pending)
        /\ completed' = RecordCompleted(completed, order, ReqOf[Head(pending)], "deleted")
        /\ order' = RecordOrder(completed, order, ReqOf[Head(pending)])
        /\ upd' = upd /\ task' = "root"
    BY <1>8 DEF RejectPending, Root, callers
  <2>. QED BY <2>1, ServeRecordHead
<1>9. CASE ExecLabels
  <2>1. /\ pending # <<>> /\ pc = "loop" /\ pc' = pc /\ pending' = Tail(pending)
        /\ completed' = RecordCompleted(completed, order, ReqOf[Head(pending)], ErrText("ok"))
        /\ order' = RecordOrder(completed, order, ReqOf[Head(pending)])
        /\ upd' = upd /\ task' = "root"
    BY <1>9 DEF ExecLabels, Dequeues, Complete, Root, callers
  <2>. QED BY <2>1, ServeRecordHead
<1>10. CASE ExecBegin
  BY <1>10, ServeExecBegin
<1>11. CASE ExecReturn
  BY <1>11, ServeExecReturn
<1>. QED
  BY <1>1, <1>2, <1>3, <1>4, <1>5, <1>6, <1>7, <1>8, <1>9, <1>10, <1>11 DEF Next, Deliver, Schedule, RootStep

\* A new run begins with nothing held and nobody waiting, also after one that
\* was cancelled.
LEMMA ServeNewRun ==
  ASSUME TypeOK, WaitInv, ContinueAsNew
  PROVE  ServeInv'
<1>1. /\ pending' = <<>> /\ pc' = "start" /\ Waiting' = {}
  BY DEF ContinueAsNew, WaitInv, Root, AllHandlersFinished, Waiting, callers
<1>2. HeldCount' = 0 /\ \A u : ~Held(u)'
  BY <1>1 DEF HeldCount, Held, InQueue
<1>3. MaxInFlight \in Nat
  BY EntityLoopAssumption
<1>. QED BY <1>1, <1>2, <1>3 DEF ServeInv, HeldInv, ServedInv, ReadInv

\* A closed workflow stays closed, and but for Continue-as-New a cancelled run
\* stays cancelled.
LEMMA EndsStay ==
  ASSUME [Next]_vars
  PROVE  /\ pc = "closed" => pc' = "closed"
         /\ cancelled /\ ~ContinueAsNew => cancelled'
<1>1. CASE Deliver
  <2>1. cancelled => cancelled'
    BY <1>1 DEF Deliver, RejectUpdate, AnswerDuplicate, EnqueueUpdate, DeliverDelete,
       DeliverCancel, DeliverInit, DeliverResult, DeliverTimer, inbox
  <2>. QED BY <1>1, <2>1, DeliverFrame DEF machine
<1>2. CASE Schedule
  BY <1>2, ScheduleFrame
<1>3. CASE SetLabel \/ Terminated \/ UNCHANGED vars
  BY <1>3 DEF SetLabel, Terminated, vars, inbox
<1>4. CASE RootStep
  <2>1. pc # "closed"
    BY <1>4 DEF RootStep, Root, UserCode, Awaits, AwaitCanceled, Start, StartInit, CancelInit,
       InitSucceeded, InitAborted, InitFailed, BeginDelete, RejectPending, Finalize, Deleted,
       Dequeues, ExecLabels, ExecBegin, ExecReturn, BeginCan, ContinueAsNew, Idle, Wake,
       TickBegin, TickReturn
  <2>2. ~ContinueAsNew => cancelled' = cancelled
    BY <1>4 DEF RootStep, Goto, AwaitCanceled, Start, StartInit, CancelInit, InitSucceeded,
       InitAborted, InitFailed, BeginDelete, RejectPending, Finalize, Deleted, ExecLabels,
       ExecBegin, ExecReturn, BeginCan, Idle, Wake, TickBegin, TickReturn, inbox
  <2>. QED BY <2>1, <2>2
<1>. QED BY <1>1, <1>2, <1>3, <1>4 DEF Next

LEMMA ServiceNext ==
  ASSUME TypeOK, CacheConsistent, ServiceInv, ~AllowOverlap, [Next]_vars
  PROVE  ServiceInv'
<1>1. WaitInv'
  BY WaitNext
<1>2. CASE ContinueAsNew
  BY <1>1, <1>2, ServeNewRun DEF ServiceInv
<1>3. CASE ~ContinueAsNew
  <2>1. (cancelled => cancelled') /\ (pc = "closed" => pc' = "closed")
    BY <1>3, EndsStay
  <2>2. CASE ~cancelled /\ pc # "closed"
    BY <1>1, <1>3, <2>2, ServeNext DEF ServiceInv
  <2>. QED BY <1>1, <2>1, <2>2 DEF ServiceInv
<1>. QED BY <1>2, <1>3

-----------------------------------------------------------------------------

LEMMA ServiceInit == Init => ServiceInv
<1> SUFFICES ASSUME Init PROVE ServiceInv
  OBVIOUS
<1>1. Waiting = {} /\ pending = <<>> /\ pc = "start"
  BY DEF Init, Waiting
<1>2. HeldCount = 0 /\ \A u : ~Held(u)
  BY <1>1 DEF HeldCount, Held, InQueue
<1>3. MaxInFlight \in Nat
  BY EntityLoopAssumption
<1>. QED BY <1>1, <1>2, <1>3 DEF ServiceInv, WaitInv, ServeInv, HeldInv, ServedInv, ReadInv

\* The inductive invariant of the service holds in every reachable state if no
\* request is sent again while it is in flight.
THEOREM ServiceCorrect == ~AllowOverlap => (Spec => []ServiceInv)
<1> SUFFICES ASSUME ~AllowOverlap PROVE Spec => []ServiceInv
  OBVIOUS
<1>1. LifecycleInv /\ CacheConsistent /\ ServiceInv /\ [Next]_vars => ServiceInv'
  BY ServiceNext DEF LifecycleInv
<1>. QED BY <1>1, ServiceInit, LifecycleCorrect, PTL DEF Spec

\* The command of every caller that waits is queued, executing or recorded, or
\* the run was cancelled: no result is evicted before it was read.
THEOREM NobodyWaitsInVain == ~AllowOverlap => (Spec => []WaiterServed)
<1> SUFFICES ASSUME ~AllowOverlap PROVE Spec => []WaiterServed
  OBVIOUS
<1>1. LifecycleInv /\ CacheConsistent /\ ServiceInv => WaiterServed
  <2> SUFFICES ASSUME LifecycleInv, CacheConsistent, ServiceInv, ~cancelled,
                      NEW u \in Waiting, ~Held(u)
               PROVE  ReqOf[u] \in DOMAIN completed
    BY DEF WaiterServed, Held
  <2>1. pc # "closed"
    BY DEF LifecycleInv, DrainInv
  <2>. QED BY <2>1, ServedIsReady DEF ServiceInv, ServeInv
<1>. QED BY <1>1, LifecycleCorrect, ServiceCorrect, PTL

\* The waits for the handlers, before the finalizer and before Continue-as-New,
\* end in the task they began in, and no update is accepted during them.
THEOREM WaitsEndInTheirTask == ~AllowOverlap => (Spec => []NoWaitOnHandlers)
<1> SUFFICES ASSUME ~AllowOverlap PROVE Spec => []NoWaitOnHandlers
  OBVIOUS
<1>1. ServiceInv => NoWaitOnHandlers
  BY DEF ServiceInv, WaitInv, NoWaitOnHandlers
<1>. QED BY <1>1, ServiceCorrect, PTL

-----------------------------------------------------------------------------
(* What a run hands over *)

LEMMA DirtyNext ==
  ASSUME TickPatches = {}, DirtyInv, [Next]_vars
  PROVE  DirtyInv'
<1> USE DEF DirtyInv, tags
<1>1. CASE Deliver
  BY <1>1, DeliverFrame DEF machine
<1>2. CASE Schedule
  BY <1>2, ScheduleFrame
<1>3. CASE SetLabel
  BY <1>3 DEF SetLabel, Root
<1>4. CASE Terminated \/ UNCHANGED vars
  BY <1>4 DEF Terminated, vars
<1>5. CASE ExecLabels \/ ExecReturn \/ ContinueAsNew
  BY <1>5 DEF ExecLabels, ExecReturn, ContinueAsNew, MirrorLabels
<1>6. CASE RootStep /\ ~ExecLabels /\ ~ExecReturn /\ ~ContinueAsNew
  <2>1. dirty' = dirty /\ pc # "exec"
    BY <1>6 DEF RootStep, Goto, Root, UserCode, Awaits, AwaitCanceled, Start, StartInit, CancelInit,
       InitSucceeded, InitAborted, InitFailed, BeginDelete, RejectPending, Finalize, Deleted,
       Dequeues, ExecBegin, BeginCan, Idle, Wake, TickBegin, TickReturn
  <2>. QED BY <2>1
<1>. QED BY <1>1, <1>2, <1>3, <1>4, <1>5, <1>6 DEF Next

\* Only Continue-as-New leads from the wait before it to a new run.
LEMMA OnlyCanStarts ==
  ASSUME [Next]_vars, pc = "can_wait", pc' = "start"
  PROVE  ContinueAsNew
<1>1. ~Deliver /\ ~Schedule
  BY DeliverFrame, ScheduleFrame DEF machine
<1>2. ~SetLabel /\ ~Terminated /\ ~UNCHANGED vars
  BY DEF SetLabel, Terminated, vars
<1>3. RootStep => ContinueAsNew
  BY DEF RootStep, Goto, Return, Root, AwaitCanceled, Start, StartInit, CancelInit, InitSucceeded,
     InitAborted, InitFailed, BeginDelete, RejectPending, Finalize, Deleted, Dequeues,
     ExecLabels, ExecBegin, ExecReturn, BeginCan, Idle, Wake, TickBegin, TickReturn
<1>. QED BY <1>1, <1>2, <1>3 DEF Next

\* If ticks set no labels, a run hands over no work, no waiting caller and no
\* label that visibility does not show.
THEOREM RunsHandOverNoWork ==
  ~AllowOverlap /\ TickPatches = {} => (Spec => CanHandsOverNoWork)
<1> SUFFICES ASSUME ~AllowOverlap, TickPatches = {} PROVE Spec => CanHandsOverNoWork
  OBVIOUS
<1>1. Init => DirtyInv
  BY DEF Init, DirtyInv
<1>2. DirtyInv /\ [Next]_vars => DirtyInv'
  BY DirtyNext
<1>3. LifecycleInv /\ ServiceInv /\ DirtyInv /\ [Next]_vars =>
        [pc = "can_wait" /\ pc' = "start" =>
           /\ initialized /\ phase = "ready" /\ ~dirty
           /\ pending = <<>> /\ cur = None /\ Waiting = {}]_vars
  <2> SUFFICES ASSUME LifecycleInv, ServiceInv, DirtyInv, [Next]_vars,
                      pc = "can_wait", pc' = "start"
               PROVE  /\ initialized /\ phase = "ready" /\ ~dirty
                      /\ pending = <<>> /\ cur = None /\ Waiting = {}
    OBVIOUS
  <2>1. initialized /\ phase = "ready" /\ cur = None
    BY DEF LifecycleInv, PhaseInv, TypeOK
  <2>2. ~dirty
    BY DEF DirtyInv
  <2>3. pending = <<>> /\ Waiting = {}
    BY OnlyCanStarts DEF ServiceInv, WaitInv, ContinueAsNew, AllHandlersFinished
  <2>. QED BY <2>1, <2>2, <2>3
<1>. QED BY <1>1, <1>2, <1>3, LifecycleCorrect, ServiceCorrect, PTL DEF Spec, CanHandsOverNoWork

=============================================================================
