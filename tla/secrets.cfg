SPECIFICATION SecretsSpec
CONSTANTS
  d1 = d1  d2 = d2  cat = cat  pw1 = pw1  pw2 = pw2  NoPw = NoPw
  Devices = {d1, d2}
  First = d1
  Docs = {cat}
  Passwords = {pw1, pw2}
  OldPw = pw1
  DbMayFail = FALSE
  MaxKeys = 3
  MaxChanges = 1
  MaxBreaks = 1
  alice = alice  bob = bob  carol = carol  NoRole = NoRole
  Users = {alice, bob, carol}
  Owner = alice
  Editor = bob
  MaxBookKeys = 2
  MaxEdits = 1
  MaxMail = 1
  MaxLists = 1
INVARIANTS SecretsTypeOK StoredIsReadable PasswordUnwraps RemovedAreLockedOut NewestIsRead
PROPERTIES   KeysSettle
CHECK_DEADLOCK FALSE
