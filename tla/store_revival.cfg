CONSTANTS
  t1 = t1  t2 = t2
  a1 = a1  a2 = a2
  Accounts = {a1}
  Tasks = {t1, t2}
  NoStatus = NoStatus
  Statuses = {"hard_revoked"}
  Kinds = {"set_status"}
  Queried = {}
  Uploaded = {a1}
  Droppable = {}
  MaxOps = 4
  MaxRestarts = 0
SPECIFICATION Spec
PROPERTIES RevokedForGood
