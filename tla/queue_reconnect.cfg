SPECIFICATION MCSpec
CONSTANTS
  a = a  b = b  c = c  book = book  Personal = Personal
  Docs = {a, b, c}
  Vaults = {book}
  VaultOf <- OneShared
  Known = {book}
  Demotable = {book}
  MaxPushErrors = 1
  MaxEdits = 1
  MaxDrops = 1
  MaxRefusals = 1
  MaxWire = 1
INVARIANTS TypeOK FlushIsRunning PausedIsScheduled
CHECK_DEADLOCK FALSE
