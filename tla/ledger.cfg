CONSTANTS
  r1 = r1  r2 = r2  t = t  a1 = a1  p = p
  Null = Null
  Requests = {r1, r2}
  Tokens = {t}
  Accounts = {a1}
  Proxies = {p}
  ReqToken <- SameToken
  MaxRetries = 1
  LogSettings = {0, 1, 64}
  Unit = 2
  RowSize = 2
  Half = 128
  Droppable = {r2}
  MaxEvents = 2
SPECIFICATION FairSpec
INVARIANTS TypeOK CountedBeforeLogged AttemptsLogged
PROPERTIES NewestKept LogBounded
