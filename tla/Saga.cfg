SPECIFICATION Spec
CONSTANTS
  StepCount = 6
  Undoable = {1, 2, 4, 5}
INVARIANTS
  TypeOK
  UndoneInReverse
  AllUndone
  ErrorsComplete
