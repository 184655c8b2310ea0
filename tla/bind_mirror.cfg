CONSTANTS
  a1 = a1  a2 = a2 
  p1 = p1  p2 = p2  p3 = p3  p4 = p4  p5 = p5
  v1 = v1  v2 = v2  s1 = s1  s2 = s2  b1 = b1
  Accounts = {a1}
  Proxies = {p1, p2, p3, p4}
  NoProxy = NoProxy
  Groups = {1}
  Servers = {v1, v2}
  GroupOf <- OneGroup
  ServerOf <- TwoServers
  Affine <- A1OnV2
  InitGroups = {1}
  InitFeed <- Everything
  InitLinked = {1}
  InitBound <- AllUnbound
  Syncers = {s1}
  Worker = s1
  Binders = {b1}
  MaxChurn = 1
SPECIFICATION Spec
INVARIANTS BindingMirrored
