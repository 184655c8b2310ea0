----------------------------- MODULE MCForward -----------------------------
(* Small instances of Forward for TLC.                                       *)
EXTENDS Forward, TLC

CONSTANTS r1, r2, r3, a1, a2, p1, p2, i1, i2, pl1, pl2

MCSymmetry == Permutations(Requests)

OnePlatform   == [r \in Requests |-> pl1]
AcctsOnOne    == [a \in Accounts |-> pl1]
TwoAtOnce     == [pl \in Platforms |-> 2]
OneCall       == [a \in Accounts |-> 1]
Isolated      == [pl \in Platforms |-> TRUE]
Quota         == [a \in Accounts |-> 1]

\* a1 on p1, still to prove itself; a2 on p2.
SlotsApart == [a \in Accounts |->
  IF a = a1 THEN [phase |-> "listed", status |-> "pending", bound |-> p1, used |-> 0]
            ELSE [phase |-> "listed", status |-> "healthy", bound |-> p2, used |-> 0]]
\* a2 has yet to be uploaded.
SlotsGrowing == [SlotsApart EXCEPT ![a2].phase = "future"]

ExitsApart  == [p \in Proxies |-> IF p = p1 THEN i1 ELSE i2]
ExitsShared == [p \in Proxies |-> i1]
ExitUnknown == [p \in Proxies |-> IF p = p1 THEN i1 ELSE NoIp]
=============================================================================
