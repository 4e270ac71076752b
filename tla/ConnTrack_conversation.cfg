SPECIFICATION Spec
SYMMETRY Sym
INVARIANTS
  TypeOK
  NoDangling
  EndList
  OneStreamAtGc
  PrevDescribesLast
  EndsOldestRead
  PacketInItsStreams
  DropsOnlyUnread
PROPERTIES
  ImplementsOwnership
CONSTANTS
  c1 = c1
  c2 = c2
  c3 = c3
  c4 = c4
  s1 = s1
  s2 = s2
  s3 = s3
  s4 = s4
  None = None
  ConnIds = {c1, c2}
  StreamIds = {s1, s2, s3, s4}
  Addrs <- MCAddrs
  Headers <- AllKinds
  Times = {0, 1, 2}
  GcRemoveTime = 1
