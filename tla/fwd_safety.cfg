CONSTANTS
  r1 = r1  r2 = r2  r3 = r3
  a1 = a1  a2 = a2
  p1 = p1  p2 = p2
  i1 = i1  i2 = i2
  pl1 = pl1  pl2 = pl2
  NoAccount = NoAccount
  NoProxy = NoProxy
  NoIp = NoIp
  Requests = {r1, r2, r3}
  Accounts = {a1, a2}
  Proxies = {p1, p2}
  Ips = {i1, i2}
  Platforms = {pl1, pl2}
  ReqPlatform <- OnePlatform
  AcctPlatform <- AcctsOnOne
  MaxConcurrency <- TwoAtOnce
  AcctConcurrency <- OneCall
  Isolation <- Isolated
  Metered = {a1}
  QuotaLimit <- Quota
  InitSlot <- SlotsApart
  InitExit <- ExitsShared
  Codes = {200, 401, 429}
  RevokeCodes = {401}
  RateCodes = {429}
  RetrySettings = {1}
  Droppable = {r1, r2, r3}
  MaxChurn = 0
SPECIFICATION Spec
SYMMETRY MCSymmetry
INVARIANTS TypeOK BusyAccounting PlatformPermits AccountPermits QuotaOvershoot NobodyStuck
PROPERTIES ForwardingNeverRevives ForwardKeepsPromise
