CONSTANTS
  MaxProgrammes = 2
  Documents <- MCDocuments
SPECIFICATION ParserSpec
CHECK_DEADLOCK FALSE
INVARIANTS ParsesExactly TextsForward
