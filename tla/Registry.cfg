SPECIFICATION Spec
CONSTANTS
  Names <- MCNames
  ReservedCommands <- MCReservedCommands
  ReservedQueries <- MCReservedQueries
  OwnCommands <- MCOwnCommands
  OwnQueries <- MCOwnQueries
  MaxDeclarations = 3
  MaxValidators = 3
CHECK_DEADLOCK FALSE
INVARIANTS TypeOK ServesDeclared ChassisServes
PROPERTY ProblemsReported
