SPECIFICATION Spec
CONSTANTS
  u1 = u1  u2 = u2  u3 = u3  c1 = c1  c2 = c2  c3 = c3  None = None
  Users = {u1, u2, u3}
  Clients = {c1, c2, c3}
  UserOf <- TwoUsers
  Founder = u1
  FirstRole <- Shared
  Purgers = {u1, u2}
  MaxKeys = 3
  MaxRequests = 4
INVARIANTS TypeOK  KeysCovered
 
CHECK_DEADLOCK FALSE
