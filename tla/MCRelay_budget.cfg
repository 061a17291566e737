SPECIFICATION Spec
CONSTANTS
  Routes = {"chat", "messages", "responses"}
  MaxFrames = 3
INVARIANTS
  BudgetEndsWithFirstByte
CHECK_DEADLOCK FALSE
