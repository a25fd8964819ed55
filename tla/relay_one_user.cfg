SPECIFICATION FairSpec
CONSTANTS
  u1 = u1  u2 = u2  d1 = d1  d2 = d2  d3 = d3  c1 = c1  c2 = c2  c3 = c3
  Users = {u1, u2}
  Devices = {d1, d2}
  Clients = {c1, c2}
  UserOf <- OneUser
  DeviceOf <- ThreeDevices
  FirstRole <- OneEditor
  Managed = {}
  Purgers = {u1}
  DbMayFail = FALSE
  MaxPushes = 2
  MaxBacklog = 1
  Readers = {c1, c2}
INVARIANTS UpToDateIsTrue
PROPERTY SubscriberSees
CHECK_DEADLOCK FALSE
