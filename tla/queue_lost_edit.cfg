SPECIFICATION Spec
CONSTANTS
  a = a  book = book  Personal = Personal
  Docs = {a}
  Vaults = {book}
  VaultOf <- OneVault
  Known = {book}
  Demotable = {}
  MaxPushErrors = 2
  MaxEdits = 2
  MaxDrops = 1
  MaxRefusals = 0
  MaxWire = 2
INVARIANT UnsentIsRemembered
CHECK_DEADLOCK FALSE
