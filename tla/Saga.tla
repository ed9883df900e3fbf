-------------------------------- MODULE Saga --------------------------------
(***************************************************************************)
(* Saga.Run of pkg/entdefine/saga.go: the steps run in order; when one     *)
(* fails, the compensations of those completed before it run in reverse    *)
(* order, whatever becomes of each, and every error is reported.  What the *)
(* steps do belongs to the module that composes a saga with its world.     *)
(***************************************************************************)
EXTENDS Naturals, Sequences

CONSTANTS StepCount,  \* how many times Step was called
          Undoable    \* the steps whose compensate is not nil

ASSUME SagaAssumption == StepCount \in Nat /\ Undoable \subseteq 1 .. StepCount

VARIABLES mode,    \* off, forward, undo, over
          at,      \* the step being run, or compensated
          errs,    \* the errors joined so far
          undone   \* history: the compensations called, in order, and what came of them

vars == <<mode, at, errs, undone>>

Steps  == 1 .. StepCount
Errors == [what : {"step", "compensate"}, step : Steps]

Init == mode = "off" /\ at = 0 /\ errs = <<>> /\ undone = <<>>

\* Run is called; a saga without steps is over at once.
Begin ==
  /\ mode \in {"off", "over"}
  /\ mode' = IF StepCount = 0 THEN "over" ELSE "forward"
  /\ at' = 1 /\ errs' = <<>> /\ undone' = <<>>

\* A slip: the end of the steps is missed by one.
StepSucceedsPastEnd ==
  /\ mode = "forward"
  /\ at' = at + 1
  /\ mode' = IF at > StepCount THEN "over" ELSE mode
  /\ UNCHANGED <<errs, undone>>

StepSucceeds ==
  /\ mode = "forward"
  /\ at' = at + 1
  /\ mode' = IF at = StepCount THEN "over" ELSE mode
  /\ UNCHANGED <<errs, undone>>

\* A slip: the error is returned at once.
StepFailsNothingUndone ==
  /\ mode = "forward"
  /\ errs' = <<[what |-> "step", step |-> at]>>
  /\ mode' = "over" /\ at' = at - 1
  /\ UNCHANGED undone

\* The failed step is not compensated, whatever it did before it failed.
StepFails ==
  /\ mode = "forward"
  /\ errs' = <<[what |-> "step", step |-> at]>>
  /\ mode' = "undo" /\ at' = at - 1
  /\ UNCHANGED undone

\* A step that needs no undo.
SkipStep ==
  /\ mode = "undo" /\ at > 0 /\ at \notin Undoable
  /\ at' = at - 1
  /\ UNCHANGED <<mode, errs, undone>>

\* A slip: the first compensation that fails ends the saga.
CompensateUntilError(ok) ==
  /\ mode = "undo" /\ at \in Undoable
  /\ undone' = Append(undone, [step |-> at, ok |-> ok])
  /\ errs' = IF ok THEN errs ELSE Append(errs, [what |-> "compensate", step |-> at])
  /\ at' = IF ok THEN at - 1 ELSE 0
  /\ UNCHANGED mode

\* A slip: an error of a compensation is swallowed.
CompensateQuietly(ok) ==
  /\ mode = "undo" /\ at \in Undoable
  /\ undone' = Append(undone, [step |-> at, ok |-> ok])
  /\ at' = at - 1
  /\ UNCHANGED <<mode, errs>>

\* A slip: a compensation that fails is called again.
CompensateAgain(ok) ==
  /\ mode = "undo" /\ at \in Undoable /\ Len(undone) < StepCount
  /\ undone' = Append(undone, [step |-> at, ok |-> ok])
  /\ errs' = IF ok THEN errs ELSE Append(errs, [what |-> "compensate", step |-> at])
  /\ at' = IF ok THEN at - 1 ELSE at
  /\ UNCHANGED mode

Compensate(ok) ==
  /\ mode = "undo" /\ at \in Undoable
  /\ undone' = Append(undone, [step |-> at, ok |-> ok])
  /\ errs' = IF ok THEN errs ELSE Append(errs, [what |-> "compensate", step |-> at])
  /\ at' = at - 1
  /\ UNCHANGED mode

ReturnErrors ==
  /\ mode = "undo" /\ at = 0
  /\ mode' = "over"
  /\ UNCHANGED <<at, errs, undone>>

Next ==
  \/ Begin \/ StepSucceeds \/ StepFails \/ SkipStep
  \/ Compensate(TRUE) \/ Compensate(FALSE) \/ ReturnErrors

Spec == Init /\ [][Next]_vars

-----------------------------------------------------------------------------
(* Properties *)

\* Every variable has its type.
TypeOK ==
  /\ mode \in {"off", "forward", "undo", "over"}
  /\ at \in 0 .. StepCount + 1
  /\ errs \in Seq(Errors) /\ undone \in Seq([step : Undoable, ok : BOOLEAN])

\* Later steps are undone before earlier ones, each at most once.
UndoneInReverse ==
  \A i, j \in DOMAIN undone : i < j => undone[i].step > undone[j].step

Completed(k) == 1 .. k - 1    \* the steps done when step k failed

\* When Run returns, the compensations that were called are exactly those of
\* the steps completed before the one that failed: none is left out because
\* another failed, and neither the failed step nor a later one is touched.
AllUndone ==
  mode = "over" =>
    {undone[i].step : i \in DOMAIN undone} =
      IF errs = <<>> THEN {} ELSE Undoable \cap Completed(errs[1].step)

\* No error is swallowed: what Run returns is the error of the step that failed
\* and the errors of exactly the compensations that failed; it is nil only when
\* every step was done.
ErrorsComplete ==
  mode = "over" =>
    IF errs = <<>>
    THEN at = StepCount + 1
    ELSE /\ errs[1].what = "step"
         /\ {errs[i].step : i \in 2 .. Len(errs)} =
              {undone[i].step : i \in {j \in DOMAIN undone : ~undone[j].ok}}

=============================================================================
