SPECIFICATION Spec
CONSTANTS
  None = None
  StringDefault = "loginOnly"
  EmptyIsCa = TRUE
INVARIANTS
  IInv
  LoginAsAsked
  TlsAsAsked
PROPERTY
  FetchOnlyIfMeant
\* A panic ends the process: release builds abort (Cargo.toml).
CHECK_DEADLOCK FALSE
