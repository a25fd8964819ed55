SPECIFICATION FairSpec
CONSTANTS
  a = a  book = book  Personal = Personal
  Docs = {a}
  Vaults = {book}
  VaultOf <- OneVault
  Known = {}
  Demotable = {}
  MaxPushErrors = 2
  MaxEdits = 1
  MaxDrops = 0
  MaxRefusals = 1
  MaxWire = 2
PROPERTIES DirtyIsResolved RetriesEnd
CHECK_DEADLOCK FALSE
