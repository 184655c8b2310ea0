--------------------------- MODULE MCAccountStore ---------------------------
(* Small instances of AccountStore for TLC.                                  *)
EXTENDS AccountStore

CONSTANTS t1, t2, a1, a2
=============================================================================
