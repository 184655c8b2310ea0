CONSTANTS
  t1 = t1  x = x  y = y
  r1 = r1  r2 = r2  e1 = e1  e2 = e2
  Tokens = {t1}
  Platforms = {x, y}
  Requests = {r1, r2}
  ReqPlatform <- OnX
  Editors = {e1, e2}
  Issued = {}
  InitRights <- NoRights
  InitLimit <- Zero
  Limits <- OddLimits
  Tuned = {x}
  MaxEdits = 5
  MaxRestarts = 1
SPECIFICATION FairSpec
INVARIANTS TypeOK RightsAsAsked PermitsMatch
PROPERTIES DeletionIsFinal EveryRequestLeaves
