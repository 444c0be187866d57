SPECIFICATION Spec
CONSTANTS
  NumInodes = 4
  Names = {"a", "b"}
  MaxBroken = 2
INVARIANTS NamesMatchInodes IsTree LinkCounts
PROPERTY FailedCallKeepsRest
CONSTRAINT NotUndone
