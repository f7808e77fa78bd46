SPECIFICATION Spec
CONSTANTS
  None = "none"
  Name <- MCName
  Lower <- MCLower
  Start <- MCStart
  Op <- MCOp
  MaxOps = 4
INVARIANTS SameEffect CodeUnaffected
PROPERTIES Terminates
CHECK_DEADLOCK FALSE
