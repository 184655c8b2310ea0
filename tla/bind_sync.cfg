CONSTANTS
  a1 = a1  a2 = a2 
  p1 = p1  p2 = p2  p3 = p3  p4 = p4  p5 = p5
  v1 = v1  v2 = v2  s1 = s1  s2 = s2  b1 = b1
  Accounts = {a1, a2}
  Proxies = {p1, p2, p3, p5}
  NoProxy = NoProxy
  Groups = {1, 2}
  Servers = {v1, v2}
  GroupOf <- TwoGroups
  ServerOf <- TwoServers
  Affine <- NoAffinity
  InitGroups = {1, 2}
  InitFeed <- OneInTwo
  InitLinked = {1, 2}
  InitBound <- AllUnbound
  Syncers = {s1}
  Worker = s1
  Binders = {b1}
  MaxChurn = 2
SPECIFICATION Spec
SYMMETRY AccountsAlike
INVARIANTS TypeOK BindingsAgree Balanced
