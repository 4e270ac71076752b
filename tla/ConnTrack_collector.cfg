SPECIFICATION FairSpec
PROPERTIES
  NoEarlyDelete
  GcSparesUnlessFirst
  PacketFinishes
CONSTANTS
  c1 = c1
  c2 = c2
  c3 = c3
  c4 = c4
  s1 = s1
  s2 = s2
  s3 = s3
  s4 = s4
  None = None
  ConnIds = {c1, c2, c3}
  StreamIds = {s1, s2, s3}
  Addrs <- MCAddrs
  Headers <- TwoKeys
  Times = {0, 1}
  GcRemoveTime = 1
