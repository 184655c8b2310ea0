--------------------------- MODULE MCTokenGate ---------------------------
(* A small instance of TokenGate for TLC.                                    *)
EXTENDS TokenGate

CONSTANTS t1, x, y, r1, r2, e1, e2

\* One that Semaphore::new refuses, and one above the first.
OddLimits == {-1, 2}

\* The only token is still to be created.
NoRights == [k \in Tokens |-> {}]
OnX      == [r \in Requests |-> x]
Zero     == [pl \in Platforms |-> 0]
=============================================================================
