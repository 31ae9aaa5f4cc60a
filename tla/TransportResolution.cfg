SPECIFICATION Spec
CONSTANTS
  None = None
  Absent = None
  DefaultService = "default"
  Control = {"c"}
  BadIds <- MCBadIds
  Sensitive = {"token"}
  Profiles <- MCProfiles
  Refs <- MCRefs
  Secrets <- MCSecrets
  MaxChanges = 2
INVARIANTS
  IInv
  HopsHaveTheirSecrets
  FailsOnlyForSecrets
  StoresAgree
  PlanShowsRoute
  SlotsAreRead
\* A resolution ends.
CHECK_DEADLOCK FALSE
