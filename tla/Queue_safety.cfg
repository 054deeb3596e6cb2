CONSTANTS
  qa = qa
  qb = qb
  j1 = j1
  j2 = j2
  h1 = h1
  h2 = h2
  NoJob = NoJob
  Queues <- TwoQueues
  Jobs <- TwoJobs
  QueueOf <- AllInA
  Handlers <- TwoHandlers
  Fallback <- OneQueue
  MaxNum = 2
  PullLimit = 2
  Outages = TRUE
SPECIFICATION FairSpec
INVARIANTS
  TypeOK
  SingleFlight
  InflightExact
  ActiveSound
PROPERTIES
  DispatchWithinNum
  CancelDrains
  ImplementsFlight
