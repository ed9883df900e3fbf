-------------------------- MODULE EntityLoopProofs --------------------------
(* Invariants of the chassis loop, for every value of the constants. *)
EXTENDS EntityLoop, SequenceTheorems, TLAPS

-----------------------------------------------------------------------------
(* The operations of the envelope *)

LEMMA CapPositive == CompletedOpsCap \in Nat /\ CompletedOpsCap >= 1
BY CompletedOpsCapAssumption

LEMMA OverflowType ==
  ASSUME NEW o \in Seq(Requests)
  PROVE  Overflow(o) \in 0 .. Len(o)
BY CapPositive DEF Overflow

LEMMA EnlistedType ==
  ASSUME NEW completed0, NEW order0 \in Seq(Requests), NEW r \in Requests
  PROVE  Enlisted(completed0, order0, r) \in Seq(Requests)
BY DEF Enlisted

\* The order of the cache stays a sequence of requests.
LEMMA RecordOrderType ==
  ASSUME NEW completed0, NEW order0 \in Seq(Requests), NEW r \in Requests
  PROVE  RecordOrder(completed0, order0, r) \in Seq(Requests)
<1> DEFINE o == Enlisted(completed0, order0, r)
<1>1. o \in Seq(Requests)
  BY EnlistedType
<1>2. Overflow(o) + 1 \in 1 .. Len(o) + 1
  BY <1>1, OverflowType
<1>3. \A i \in Overflow(o) + 1 .. Len(o) : o[i] \in Requests
  BY <1>1, <1>2
<1>. QED BY <1>1, <1>2, <1>3, SubSeqProperties DEF RecordOrder

\* The cache stays a map from requests to recorded texts.
LEMMA RecordCompletedType ==
  ASSUME NEW Texts, NEW completed0 \in Maps(Requests, Texts), NEW order0,
         NEW r \in Requests, NEW t \in Texts
  PROVE  RecordCompleted(completed0, order0, r, t) \in Maps(Requests, Texts)
<1>1. PICK D \in SUBSET Requests : completed0 \in [D -> Texts]
  BY DEF Maps
<1> DEFINE c == RecordCompleted(completed0, order0, r, t)
<1>2. c \in [DOMAIN c -> Texts] /\ DOMAIN c \in SUBSET Requests
  BY <1>1 DEF RecordCompleted
<1>. QED BY <1>2 DEF Maps

\* A patch leaves labels labels.
LEMMA MergeLabelsType ==
  ASSUME NEW l \in LabelMaps, NEW p \in Patches
  PROVE  MergeLabels(l, p) \in LabelMaps
<1>1. PICK K \in SUBSET LabelKeys : l \in [K -> LabelValues]
  BY DEF LabelMaps, Maps
<1>2. PICK P \in SUBSET LabelKeys : p \in [P -> LabelValues \cup {""}]
  BY DEF Patches, Maps
<1> DEFINE m == MergeLabels(l, p)
<1>3. m \in [DOMAIN m -> LabelValues] /\ DOMAIN m \in SUBSET LabelKeys
  BY <1>1, <1>2 DEF MergeLabels
<1>. QED BY <1>3 DEF LabelMaps, Maps

-----------------------------------------------------------------------------
(* Types *)

LEMMA BoundNat == ForceCANEvery \in Nat
BY EntityLoopAssumption

LEMMA TypeInit == Init => TypeOK
<1> SUFFICES ASSUME Init PROVE TypeOK
  OBVIOUS
<1>1. completed \in [{} -> {"", "err", "deleted"}]
  BY DEF Init
<1>2. completed \in Results
  BY <1>1 DEF Results, Maps
<1>3. labels \in LabelMaps
  BY EntityLoopAssumption DEF Init
<1>4. processed \in 0 .. ForceCANEvery
  BY BoundNat DEF Init
<1>5. /\ pending \in Seq(Updates) /\ order \in Seq(Requests)
      /\ log \in Seq(Entries) /\ inits \in Nat
  BY DEF Init
<1>6. upd \in [Updates -> Statuses] /\ answer \in [Updates -> Answers]
  BY DEF Init, Statuses, Answers
<1>7. phase \in Phases /\ pc \in Controls
  BY DEF Init, Phases, Controls
<1>. QED
  BY <1>2, <1>3, <1>4, <1>5, <1>6, <1>7 DEF Init, TypeOK

\* A caller reads one of the answers.
LEMMA UpdateResultType ==
  ASSUME TypeOK, NEW r \in DOMAIN completed
  PROVE  UpdateResult(completed[r]) \in Answers
<1>1. PICK D \in SUBSET Requests : completed \in [D -> {"", "err", "deleted"}]
  BY DEF TypeOK, Results, Maps
<1>2. completed[r] \in {"", "err", "deleted"}
  BY <1>1
<1>. QED BY <1>2 DEF UpdateResult, Answers

\* Recording a result keeps the type of the cache.
LEMMA CacheType ==
  ASSUME TypeOK, NEW r \in Requests, NEW t \in {"", "err", "deleted"}
  PROVE  /\ RecordCompleted(completed, order, r, t) \in Results
         /\ RecordOrder(completed, order, r) \in Seq(Requests)
BY RecordCompletedType, RecordOrderType DEF TypeOK, Results

\* So does the completion of a command, with the other variables it sets.
LEMMA CompleteType ==
  ASSUME TypeOK, NEW u \in Updates, NEW outcome \in {"ok", "err", "blank"},
         Complete(u, outcome)
  PROVE  /\ completed' \in Results /\ order' \in Seq(Requests)
         /\ processed' \in 0 .. ForceCANEvery
         /\ log' \in Seq(Entries)
<1>1. ReqOf[u] \in Requests /\ ForceCANEvery \in Nat
  BY EntityLoopAssumption
<1>2. ErrText(outcome) \in {"", "err", "deleted"}
  BY DEF ErrText
<1>3. completed' \in Results /\ order' \in Seq(Requests)
  BY <1>1, <1>2, CacheType DEF Complete
<1>4. processed' \in 0 .. ForceCANEvery
  BY <1>1 DEF Complete, Bump, TypeOK
<1>5. [req |-> ReqOf[u], outcome |-> outcome] \in Entries
  BY <1>1 DEF Entries
<1>6. log' \in Seq(Entries)
  BY <1>5 DEF Complete, TypeOK
<1>. QED BY <1>3, <1>4, <1>6

LEMMA TypeNext == TypeOK /\ [Next]_vars => TypeOK'
<1> SUFFICES ASSUME TypeOK, [Next]_vars PROVE TypeOK'
  OBVIOUS
<1> USE DEF TypeOK, vars, machine, life, cache, tags, inbox, creation, callers,
      history, Goto, Return, Root
<1>1. ASSUME NEW u \in Updates, RejectUpdate(u) PROVE TypeOK'
  BY <1>1 DEF RejectUpdate, Statuses
<1>2. ASSUME NEW u \in Updates, AnswerDuplicate(u) PROVE TypeOK'
  <2>1. upd' \in [Updates -> Statuses]
    BY <1>2 DEF AnswerDuplicate, Statuses
  <2>2. answer' \in [Updates -> Answers]
    BY <1>2, UpdateResultType DEF AnswerDuplicate
  <2>. QED BY <1>2, <2>1, <2>2 DEF AnswerDuplicate
<1>3. ASSUME NEW u \in Updates, EnqueueUpdate(u) PROVE TypeOK'
  BY <1>3 DEF EnqueueUpdate, Statuses
<1>4. ASSUME NEW u \in Updates, HandlerReturn(u) PROVE TypeOK'
  <2>1. upd' \in [Updates -> Statuses]
    BY <1>4 DEF HandlerReturn, Statuses
  <2>2. answer' \in [Updates -> Answers]
    BY <1>4, UpdateResultType DEF HandlerReturn
  <2>. QED BY <1>4, <2>1, <2>2 DEF HandlerReturn
<1>5. CASE DeliverDelete
  BY <1>5 DEF DeliverDelete
<1>6. CASE DeliverCancel
  BY <1>6 DEF DeliverCancel
<1>7. CASE DeliverInit
  BY <1>7 DEF DeliverInit
<1>8. CASE DeliverResult
  BY <1>8 DEF DeliverResult
<1>9. CASE DeliverTimer
  BY <1>9 DEF DeliverTimer
<1>10. CASE StartTask
  <2>1. suggested' \in BOOLEAN
    BY <1>10 DEF StartTask
  <2>. QED BY <1>10, <2>1 DEF StartTask
<1>11. CASE RunRoot
  BY <1>11 DEF RunRoot
<1>12. CASE Yield
  BY <1>12 DEF Yield
<1>13. CASE AwaitCanceled
  BY <1>13 DEF AwaitCanceled, Awaits, Controls, Statuses
<1>14. CASE Start
  BY <1>14 DEF Start, Controls, Phases
<1>15. CASE StartInit
  <2>1. inits' \in Nat /\ pc' \in Controls /\ phase' \in Phases
    BY <1>15 DEF StartInit, Controls, Awaits, Phases
  <2>. QED BY <1>15, <2>1 DEF StartInit
<1>16. CASE CancelInit
  BY <1>16 DEF CancelInit, Controls, Awaits
<1>17. CASE InitSucceeded
  BY <1>17 DEF InitSucceeded, Controls, Phases
<1>18. CASE InitAborted
  BY <1>18 DEF InitAborted, Controls
<1>19. CASE InitFailed
  BY <1>19 DEF InitFailed, Controls, Phases, Statuses
<1>20. CASE BeginDelete
  BY <1>20 DEF BeginDelete, Controls, Awaits, Phases
<1>21. CASE RejectPending
  <2>1. Head(pending) \in Updates /\ pending' \in Seq(Updates)
    BY <1>21 DEF RejectPending
  <2>2. ReqOf[Head(pending)] \in Requests
    BY <2>1, EntityLoopAssumption
  <2>3. completed' \in Results /\ order' \in Seq(Requests)
    BY <1>21, <2>2, CacheType DEF RejectPending
  <2>. QED BY <1>21, <2>1, <2>3 DEF RejectPending
<1>22. CASE Finalize
  BY <1>22 DEF Finalize, Controls, UserCode
<1>23. CASE Deleted
  BY <1>23 DEF Deleted, Controls, Phases, Statuses
<1>24. CASE ExecLabels
  <2>1. Head(pending) \in LabelUpdates /\ Head(pending) \in Updates
    BY <1>24 DEF ExecLabels, Dequeues
  <2>2. pending' \in Seq(Updates)
    BY <1>24 DEF ExecLabels, Dequeues
  <2>3. labels' \in LabelMaps
    BY <1>24, <2>1, MergeLabelsType, EntityLoopAssumption DEF ExecLabels
  <2>4. /\ completed' \in Results /\ order' \in Seq(Requests)
        /\ processed' \in 0 .. ForceCANEvery /\ log' \in Seq(Entries)
    BY <1>24, <2>1, CompleteType DEF ExecLabels
  <2>5. /\ dirty' \in BOOLEAN /\ cur' = cur /\ pc' = pc
        /\ UNCHANGED <<life, suggested, inbox, creation, task, ready, callers, inits, asked>>
    BY <1>24 DEF ExecLabels, MirrorLabels
  <2>. QED BY <2>2, <2>3, <2>4, <2>5
<1>25. CASE ExecBegin
  BY <1>25 DEF ExecBegin, Controls, UserCode, Dequeues
<1>26. CASE ExecReturn
  <2>1. PICK outcome \in Outcomes : Complete(cur, outcome)
    BY <1>26 DEF ExecReturn
  <2>2. outcome \in {"ok", "err", "blank"}
    BY <2>1, EntityLoopAssumption
  <2>3. cur \in Updates
    BY <1>26 DEF ExecReturn
  <2>4. /\ completed' \in Results /\ order' \in Seq(Requests)
        /\ processed' \in 0 .. ForceCANEvery /\ log' \in Seq(Entries)
    BY <2>1, <2>2, <2>3, CompleteType
  <2>. QED BY <1>26, <2>4 DEF ExecReturn, MirrorLabels, Controls
<1>27. CASE BeginCan
  BY <1>27 DEF BeginCan, Controls, Awaits
<1>28. CASE ContinueAsNew
  <2>1. processed' \in 0 .. ForceCANEvery
    BY <1>28, BoundNat DEF ContinueAsNew
  <2>. QED BY <1>28, <2>1 DEF ContinueAsNew, Controls, None
<1>29. CASE Idle
  BY <1>29 DEF Idle, Controls, Awaits
<1>30. CASE Wake
  BY <1>30 DEF Wake, Controls
<1>31. CASE TickBegin
  BY <1>31 DEF TickBegin, Controls, UserCode
<1>32. CASE TickReturn
  BY <1>32 DEF TickReturn, Controls
<1>33. CASE SetLabel
  <2>1. PICK p \in Patches : labels' = MergeLabels(labels, p)
    BY <1>33, EntityLoopAssumption DEF SetLabel
  <2>2. labels' \in LabelMaps
    BY <2>1, MergeLabelsType
  <2>. QED BY <1>33, <2>2 DEF SetLabel
<1>34. CASE Terminated
  BY <1>34 DEF Terminated
<1>35. CASE UNCHANGED vars
  BY <1>35
<1>. QED
  BY <1>1, <1>2, <1>3, <1>4, <1>5, <1>6, <1>7, <1>8, <1>9, <1>10, <1>11, <1>12, <1>13, <1>14, <1>15, <1>16, <1>17, <1>18, <1>19, <1>20, <1>21, <1>22, <1>23, <1>24, <1>25, <1>26, <1>27, <1>28, <1>29, <1>30, <1>31, <1>32, <1>33, <1>34, <1>35
     DEF Next, Deliver, Schedule, RootStep

\* Every variable keeps its type.
THEOREM TypeCorrect == Spec => []TypeOK
<1>. QED BY TypeInit, TypeNext, PTL DEF Spec

=============================================================================
