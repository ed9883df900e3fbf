------------------------------ MODULE SagaProofs ------------------------------
(***************************************************************************)
(* Proofs about Saga, for any number of steps and any of them undoable.    *)
(***************************************************************************)
EXTENDS Saga, TLAPS

Record == [step : Undoable, ok : BOOLEAN]

Undone == {undone[i].step : i \in DOMAIN undone}
Failed == {undone[i].step : i \in {j \in DOMAIN undone : ~undone[j].ok}}
Reported == {errs[i].step : i \in 2 .. Len(errs)}

\* Nothing is undone on the way forward.
ForwardInv ==
  /\ mode \in {"off", "forward"} => errs = <<>> /\ undone = <<>>
  /\ mode = "forward" => at \in 1 .. StepCount
  /\ mode = "over" /\ errs = <<>> => at = StepCount + 1 /\ undone = <<>>

\* On the way back, what lies between the present step and the one that failed
\* has been undone, and what failed of it has been noted.
BackwardInv ==
  /\ mode = "undo" => errs # <<>>
  /\ errs # <<>> =>
       /\ errs[1].what = "step" /\ at < errs[1].step
       /\ Undone = Undoable \cap (at + 1 .. errs[1].step - 1)
       /\ Reported = Failed
       /\ mode = "undo" \/ (mode = "over" /\ at = 0)

SagaInv == TypeOK /\ ForwardInv /\ BackwardInv /\ UndoneInReverse

-----------------------------------------------------------------------------
(* Sequences *)

LEMMA Appended ==
  ASSUME NEW S, NEW s \in Seq(S), NEW e \in S
  PROVE  /\ Append(s, e) \in Seq(S)
         /\ Len(Append(s, e)) = Len(s) + 1 /\ Len(s) \in Nat
         /\ DOMAIN s = 1 .. Len(s) /\ DOMAIN Append(s, e) = 1 .. Len(s) + 1
         /\ \A i \in 1 .. Len(s) : Append(s, e)[i] = s[i] /\ s[i] \in S
         /\ Append(s, e)[Len(s) + 1] = e
  OBVIOUS

LEMMA SingleError ==
  ASSUME NEW e \in Errors
  PROVE  /\ <<e>> \in Seq(Errors) /\ <<e>> # <<>>
         /\ <<e>>[1] = e /\ Len(<<e>>) = 1
  OBVIOUS

-----------------------------------------------------------------------------
(* The steps *)

LEMMA Started == Init => SagaInv
  BY SagaAssumption DEF Init, SagaInv, TypeOK, ForwardInv, BackwardInv, UndoneInReverse

LEMMA BeginKeeps == SagaInv /\ Begin => SagaInv'
  BY SagaAssumption
  DEF Begin, SagaInv, TypeOK, ForwardInv, BackwardInv, UndoneInReverse

LEMMA SucceedKeeps == SagaInv /\ StepSucceeds => SagaInv'
  BY SagaAssumption
  DEF StepSucceeds, SagaInv, TypeOK, ForwardInv, BackwardInv, UndoneInReverse

\* The step that fails is not among those to undo.
LEMMA FailKeeps == SagaInv /\ StepFails => SagaInv'
<1> SUFFICES ASSUME SagaInv, StepFails PROVE SagaInv'
  OBVIOUS
<1> DEFINE e == [what |-> "step", step |-> at]
<1>1. at \in 1 .. StepCount /\ errs = <<>> /\ undone = <<>>
  BY DEF SagaInv, ForwardInv, StepFails
<1>2. e \in Errors /\ e.step = at /\ e.what = "step"
  BY <1>1 DEF Errors, Steps
<1>3. errs' = <<e>> /\ undone' = <<>> /\ mode' = "undo" /\ at' = at - 1
  BY <1>1 DEF StepFails
<1>4. errs' \in Seq(Errors) /\ errs' # <<>> /\ errs'[1] = e /\ Len(errs') = 1
  BY <1>2, <1>3, SingleError
<1> HIDE DEF e
<1>5. TypeOK'
  BY <1>1, <1>3, <1>4, SagaAssumption DEF TypeOK
<1>6. Undone' = {} /\ Failed' = {} /\ Reported' = {}
  BY <1>3, <1>4 DEF Undone, Failed, Reported
<1>7. at' + 1 .. errs'[1].step - 1 = {} /\ at' < errs'[1].step
  BY <1>1, <1>2, <1>3, <1>4, SagaAssumption
<1> QED
  BY <1>2, <1>3, <1>4, <1>5, <1>6, <1>7
  DEF SagaInv, ForwardInv, BackwardInv, UndoneInReverse

LEMMA SkipKeeps == SagaInv /\ SkipStep => SagaInv'
<1> SUFFICES ASSUME SagaInv, SkipStep PROVE SagaInv'
  OBVIOUS
<1> USE DEF SkipStep
<1>1. TypeOK' /\ UndoneInReverse' /\ ForwardInv'
  BY SagaAssumption DEF SagaInv, TypeOK, UndoneInReverse, ForwardInv
<1>2. Undone' = Undone /\ Failed' = Failed /\ Reported' = Reported
  BY DEF Undone, Failed, Reported
<1>3. errs # <<>> /\ at \in Nat \ {0} /\ errs[1].step \in Nat
  <2>1. errs # <<>> /\ errs \in Seq(Errors)
    BY DEF SagaInv, TypeOK, BackwardInv
  <2>2. errs[1] \in Errors
    BY <2>1
  <2>3. errs[1].step \in Nat
    BY <2>2, SagaAssumption DEF Errors, Steps
  <2> QED
    BY <2>1, <2>3, SagaAssumption DEF SagaInv, TypeOK
<1>4. Undoable \cap (at + 1 .. errs[1].step - 1)
        = Undoable \cap (at' + 1 .. errs'[1].step - 1)
  <2>1. at' = at - 1 /\ errs' = errs /\ at \notin Undoable
    OBVIOUS
  <2>2. ASSUME NEW u \in Undoable
        PROVE  u \in at + 1 .. errs[1].step - 1 <=> u \in at' + 1 .. errs[1].step - 1
    <3>1. u \in Nat /\ u # at
      BY <2>1, SagaAssumption
    <3> QED
      BY <3>1, <2>1, <1>3
  <2> QED
    BY <2>1, <2>2
<1> QED
  BY <1>1, <1>2, <1>3, <1>4 DEF SagaInv, BackwardInv

LEMMA CompensateKeeps ==
  ASSUME NEW ok \in BOOLEAN, SagaInv, Compensate(ok)
  PROVE  SagaInv'
<1> DEFINE r == [step |-> at, ok |-> ok]
           e == [what |-> "compensate", step |-> at]
           n == Len(undone)
           k == errs[1].step
<1>1. /\ mode = "undo" /\ mode' = "undo" /\ at \in Undoable /\ at' = at - 1
      /\ undone' = Append(undone, r)
      /\ errs' = IF ok THEN errs ELSE Append(errs, e)
  BY DEF Compensate
<1>2. /\ r \in Record /\ r.step = at /\ r.ok = ok
      /\ e \in Errors /\ e.step = at
      /\ undone \in Seq(Record) /\ errs \in Seq(Errors)
  BY <1>1, SagaAssumption DEF SagaInv, TypeOK, Record, Errors, Steps
<1>3. /\ errs # <<>> /\ errs[1].what = "step" /\ at < k
      /\ Undone = Undoable \cap (at + 1 .. k - 1)
      /\ Reported = Failed
  BY <1>1 DEF SagaInv, BackwardInv
<1>4. /\ undone' \in Seq(Record) /\ n \in Nat
      /\ DOMAIN undone = 1 .. n /\ DOMAIN undone' = 1 .. n + 1
      /\ \A i \in 1 .. n : undone'[i] = undone[i] /\ undone[i] \in Record
      /\ undone'[n + 1] = r
  BY <1>1, <1>2, Appended
<1>5. /\ errs' \in Seq(Errors) /\ errs' # <<>> /\ errs'[1] = errs[1]
      /\ Len(errs) \in Nat \ {0} /\ k \in 1 .. StepCount
  <2>1. Len(errs) \in Nat \ {0} /\ errs[1] \in Errors
    BY <1>2, <1>3
  <2>2. CASE ok
    BY <2>1, <2>2, <1>1, <1>2, <1>3 DEF Errors, Steps
  <2>3. CASE ~ok
    <3>1. errs' = Append(errs, e)
      BY <2>3, <1>1
    <3>2. errs' \in Seq(Errors) /\ Len(errs') = Len(errs) + 1 /\ errs'[1] = errs[1]
      BY <3>1, <2>1, <1>2, Appended
    <3> QED
      BY <3>2, <2>1 DEF Errors, Steps
  <2> QED
    BY <2>2, <2>3
<1>6. at \in 1 .. StepCount /\ StepCount \in Nat
  BY <1>1, SagaAssumption
<1>7. TypeOK'
  BY <1>1, <1>4, <1>5, <1>6 DEF TypeOK, Record
<1>8. ForwardInv'
  BY <1>1 DEF ForwardInv
<1>9. Undone' = Undone \cup {at}
  <2>1. 1 .. n + 1 = (1 .. n) \cup {n + 1}
    BY <1>4
  <2> HIDE DEF n, r
  <2> QED
    BY <2>1, <1>2, <1>4 DEF Undone
<1>10. UndoneInReverse'
  <2>1. \A i \in 1 .. n : undone[i].step > at
    <3> TAKE i \in 1 .. n
    <3>1. undone[i].step \in Undone
      BY <1>4 DEF Undone
    <3> QED
      BY <3>1, <1>3, <1>6, <1>5
  <2>2. \A i, j \in 1 .. n : i < j => undone[i].step > undone[j].step
    BY <1>4 DEF SagaInv, UndoneInReverse
  <2>3. ASSUME NEW i \in 1 .. n + 1, NEW j \in 1 .. n + 1, i < j
        PROVE  undone'[i].step > undone'[j].step
    <3>1. i \in 1 .. n
      BY <2>3, <1>4
    <3>2. CASE j = n + 1
      BY <3>1, <3>2, <2>1, <1>2, <1>4
    <3>3. CASE j # n + 1
      <4>1. j \in 1 .. n
        BY <3>3, <1>4
      <4> QED
        BY <4>1, <3>1, <2>2, <2>3, <1>4
    <3> QED
      BY <3>2, <3>3
  <2> QED
    BY <2>3, <1>4 DEF UndoneInReverse
<1>11. Undone' = Undoable \cap (at' + 1 .. k - 1)
  <2>1. (at' + 1 .. k - 1) = (at + 1 .. k - 1) \cup {at}
    BY <1>1, <1>3, <1>5, <1>6
  <2> QED
    BY <2>1, <1>1, <1>3, <1>9
<1>12. Reported' = Failed'
  <2>1. CASE ok
    <3>1. {j \in DOMAIN undone' : ~undone'[j].ok} = {j \in DOMAIN undone : ~undone[j].ok}
      <4>1. n + 1 \notin 1 .. n /\ 1 .. n + 1 = (1 .. n) \cup {n + 1}
        BY <1>4
      <4> HIDE DEF n, r
      <4> QED
        BY <4>1, <2>1, <1>2, <1>4
    <3>2. Failed' = Failed
      BY <3>1, <1>4 DEF Failed
    <3> QED
      BY <3>2, <2>1, <1>1, <1>3 DEF Reported
  <2>2. CASE ~ok
    <3>1. /\ Len(errs') = Len(errs) + 1
          /\ \A i \in 1 .. Len(errs) : errs'[i] = errs[i]
          /\ errs'[Len(errs) + 1] = e
      BY <2>2, <1>1, <1>2, Appended
    <3>2. 2 .. Len(errs') = (2 .. Len(errs)) \cup {Len(errs) + 1}
      BY <3>1, <1>5
    <3>3. 2 .. Len(errs) \subseteq 1 .. Len(errs)
      BY <1>5
    <3>4. Reported' = Reported \cup {at}
      <4> HIDE DEF e
      <4> QED
        BY <3>1, <3>2, <3>3, <1>2 DEF Reported
    <3>5. {j \in DOMAIN undone' : ~undone'[j].ok}
            = {j \in DOMAIN undone : ~undone[j].ok} \cup {n + 1}
      <4>1. n + 1 \notin 1 .. n /\ 1 .. n + 1 = (1 .. n) \cup {n + 1}
        BY <1>4
      <4> HIDE DEF n, r
      <4> QED
        BY <4>1, <2>2, <1>2, <1>4
    <3>6. Failed' = Failed \cup {at}
      <4> HIDE DEF n, r
      <4> QED
        BY <3>5, <1>2, <1>4 DEF Failed
    <3> QED
      BY <3>4, <3>6, <1>3
  <2> QED
    BY <2>1, <2>2
<1>13. at' < errs'[1].step
  BY <1>1, <1>3, <1>5, <1>6
<1> QED
  BY <1>1, <1>3, <1>5, <1>7, <1>8, <1>10, <1>11, <1>12, <1>13
  DEF SagaInv, BackwardInv

LEMMA ReturnKeeps == SagaInv /\ ReturnErrors => SagaInv'
  BY DEF SagaInv, ReturnErrors, TypeOK, ForwardInv, BackwardInv, UndoneInReverse,
         Undone, Failed, Reported

LEMMA NextKeeps == SagaInv /\ [Next]_vars => SagaInv'
<1> SUFFICES ASSUME SagaInv, [Next]_vars PROVE SagaInv'
  OBVIOUS
<1>1. CASE UNCHANGED vars
  <2>1. TypeOK' /\ ForwardInv' /\ UndoneInReverse'
    BY <1>1 DEF SagaInv, TypeOK, ForwardInv, UndoneInReverse, vars
  <2>2. Undone' = Undone /\ Failed' = Failed /\ Reported' = Reported
    BY <1>1 DEF Undone, Failed, Reported, vars
  <2> QED
    BY <1>1, <2>1, <2>2 DEF SagaInv, BackwardInv, vars
<1>2. CASE Next
  BY <1>2, BeginKeeps, SucceedKeeps, FailKeeps, SkipKeeps, CompensateKeeps,
     ReturnKeeps DEF Next
<1> QED
  BY <1>1, <1>2

-----------------------------------------------------------------------------

\* The inductive invariant of a saga.
THEOREM SagaCorrect == Spec => []SagaInv
  BY Started, NextKeeps, PTL DEF Spec

\* Every variable of a saga keeps its type (Saga.Run).
THEOREM SagaTypeCorrect == Spec => []TypeOK
<1>1. SagaInv => TypeOK
  BY DEF SagaInv
<1> QED
  BY <1>1, SagaCorrect, PTL

\* Compensations run in reverse order, each once, however many steps there are.
THEOREM UndoesInReverse == Spec => []UndoneInReverse
<1>1. SagaInv => UndoneInReverse
  BY DEF SagaInv
<1> QED
  BY <1>1, SagaCorrect, PTL

\* When Run returns, exactly the completed steps have been compensated.
THEOREM UndoesAll == Spec => []AllUndone
<1>1. SagaInv => AllUndone
  <2> SUFFICES ASSUME SagaInv, mode = "over" PROVE AllUndone
    BY DEF AllUndone
  <2>1. CASE errs = <<>>
    BY <2>1 DEF SagaInv, ForwardInv, AllUndone
  <2>2. CASE errs # <<>>
    BY <2>2 DEF SagaInv, BackwardInv, AllUndone, Undone, Completed
  <2> QED
    BY <2>1, <2>2
<1> QED
  BY <1>1, SagaCorrect, PTL

\* Run returns the error of the step that failed and those of exactly the
\* compensations that failed, and none when every step was done.
THEOREM ReportsAllErrors == Spec => []ErrorsComplete
<1>1. SagaInv => ErrorsComplete
  BY DEF SagaInv, ForwardInv, BackwardInv, ErrorsComplete, Reported, Failed
<1> QED
  BY <1>1, SagaCorrect, PTL

=============================================================================
