SPECIFICATION Spec
CONSTANTS
  u1 = u1  u2 = u2  d1 = d1  d2 = d2  d3 = d3  c1 = c1  c2 = c2  c3 = c3
  Users = {u1, u2}
  Devices = {d1, d2}
  Clients = {c1, c2}
  UserOf <- TwoUsers
  DeviceOf <- ThreeDevices
  FirstRole <- OneEditor
  Managed = {}
  Purgers = {}
  DbMayFail = FALSE
  MaxPushes = 2
  MaxBacklog = 1
  Readers = {}
INVARIANT UniqueSeq
