SPECIFICATION Spec
CONSTANTS
  None = None
  StringDefault = "loginOnly"
  EmptyIsCa = FALSE
INVARIANT
  NeverPanics
CHECK_DEADLOCK FALSE
