--------------------------- MODULE MCCallLedger ---------------------------
(* A small instance of CallLedger for TLC: a "megabyte" holds one row.       *)
EXTENDS CallLedger

CONSTANTS r1, r2, t, a1, p

SameToken == [r \in Requests |-> t]
=============================================================================
