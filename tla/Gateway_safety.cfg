CONSTANTS
  Sessions = {s1, s2, s3}
  Ids = {i1, i2}
  Topics = {t1, t2}
  NoSession = NoSession
  NoTopic = NoTopic
  NoId = NoId
  Admin = Admin
SPECIFICATION BroadcastSpec
CONSTRAINT OneTopicWhilePublishing
SYMMETRY MCSymmetry
INVARIANTS
  TypeOK
  EntryIsAlive
  GaugesAtRest
  IndicesAgree
  
  Delivered
  OnlySubscribed
