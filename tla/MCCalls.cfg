CONSTANTS
  c1 = c1
  c2 = c2
  Call <- MCCall
  Limit = 1
  Author = {"output", "spoiled", "absent", "failure", "error"}
SPECIFICATION FairSpec
INVARIANTS
  TypeOK
  SlotAccounting
  ConcurrencyBound
  CleanExit
  DrainIsWoken
  AnswerProves
PROPERTIES
  ImplementsAdmission
  AdmittedEnds
  SlotComesBack
  StopEnds
