CONSTANTS
  qa = qa
  qb = qb
  j1 = j1
  j2 = j2
  h1 = h1
  h2 = h2
  NoJob = NoJob
  Queues <- OneQueue
  Jobs <- TwoJobs
  QueueOf <- AllInA
  Handlers <- TwoHandlers
  Fallback <- OneQueue
  MaxNum = 1
  PullLimit = 2
  Outages = FALSE
SPECIFICATION Spec
PROPERTIES
  SuccessIsAcked
