CONSTANTS
  MaxCalls = 5
  GoMaxJobs = 2
  PhpMaxJobs = 2
SPECIFICATION Spec
INVARIANTS
  TypeOK
  OwnReply
  QuietBetweenCalls
  LimitCostsNoTask
PROPERTY ImplementsTaskCall
