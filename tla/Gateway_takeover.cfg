CONSTANTS
  Sessions = {s1, s2}
  Ids = {i1}
  Topics = {t1}
  NoSession = NoSession
  NoTopic = NoTopic
  NoId = NoId
SPECIFICATION Spec
INVARIANT LiveIsServed
