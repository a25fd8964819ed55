SPECIFICATION Spec
CONSTANTS
  u1 = u1  u2 = u2  d1 = d1  d2 = d2  d3 = d3  c1 = c1  c2 = c2  c3 = c3
  Users = {u1, u2}
  Devices = {d1, d2}
  Clients = {c1, c2, c3}
  UserOf <- TwoUsers
  DeviceOf <- Reconnecting
  FirstRole <- OneEditor
  Managed = {u2}
  Purgers = {}
  DbMayFail = TRUE
  MaxPushes = 2
  MaxBacklog = 1
  Readers = {c3}
INVARIANTS TypeOK  LatestKept
PROPERTY ImplementsSequenced
