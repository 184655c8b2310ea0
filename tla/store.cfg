CONSTANTS
  t1 = t1  t2 = t2
  a1 = a1  a2 = a2
  Accounts = {a1, a2}
  Tasks = {t1, t2}
  NoStatus = NoStatus
  Statuses = {"manual_disabled"}
  Kinds = {"set_status", "record_ok", "record_failed", "probe", "upload", "delete"}
  Queried = {a2}
  Uploaded = {a1}
  Droppable = {t1}
  MaxOps = 3
  MaxRestarts = 1
SPECIFICATION FairSpec
INVARIANTS TypeOK UsedConserved UsedNeverLaxer StatusesAgree
PROPERTIES DueComesBack
