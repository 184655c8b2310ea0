--------------------------- MODULE MCProxyBinding ---------------------------
(* Small instances of ProxyBinding for TLC.                                  *)
EXTENDS ProxyBinding, TLC

CONSTANTS a1, a2, p1, p2, p3, p4, p5, v1, v2, s1, s2, b1

OneGroup   == [p \in Proxies |-> 1]
TwoGroups  == [p \in Proxies |-> IF p = p5 THEN 2 ELSE 1]
\* p1 and p3 are ids of v1, the others of v2.
TwoServers == [p \in Proxies |-> IF p \in {p1, p3} THEN v1 ELSE v2]

NoAffinity == [a \in Accounts |-> {}]
A1OnV2     == [a \in Accounts |-> IF a = a1 THEN {v2} ELSE {}]

Everything == [g \in Groups |-> Servers]
\* Group 2 lists the server of p5, the only id it has.
OneInTwo   == [g \in Groups |-> IF g = 2 THEN {v2} ELSE Servers]
\* Sound where accounts differ in nothing (NoAffinity, AllUnbound) and safety is asked.
AccountsAlike == Permutations(Accounts)

AllUnbound == [a \in Accounts |-> NoProxy]
=============================================================================
