CONSTANTS
  qa = qa
  qb = qb
  j1 = j1
  j2 = j2
  h1 = h1
  h2 = h2
  NoJob = NoJob
  Queues <- TwoQueues
  Jobs <- TwoJobs
  QueueOf <- AllInA
  Handlers <- TwoHandlers
  Fallback <- OtherQueue
  MaxNum = 1
  PullLimit = 2
  Outages = TRUE
SPECIFICATION Spec
INVARIANTS
  WithinConfigured
