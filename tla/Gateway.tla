------------------------------ MODULE Gateway ------------------------------
(***************************************************************************)
(* What the gateway promises about a forwarded request, without a word on  *)
(* accounts, proxies or semaphores.  A platform works on a bounded number  *)
(* of requests at once; a request reads its retry limit once and causes at *)
(* most limit + 1 calls to the upstream; it is answered only with what a   *)
(* call brought back; and it ends once.                                    *)
(***************************************************************************)
EXTENDS Integers, FiniteSets

CONSTANTS Requests, ReqPlatform, MaxConcurrency

VARIABLES
  phase,   \* "queued", "admitted", or how the request ended
  calls,   \* upstream calls made for it so far (0 once it has ended)
  limit    \* the retries it may make

promised == <<phase, calls, limit>>

Inside(pl) == {r \in Requests : phase[r] = "admitted" /\ ReqPlatform[r] = pl}

Start ==
  /\ phase = [r \in Requests |-> "queued"]
  /\ calls = [r \in Requests |-> 0]
  /\ limit = [r \in Requests |-> 0]

Admit(r) ==
  /\ phase[r] = "queued"
  /\ Cardinality(Inside(ReqPlatform[r])) < MaxConcurrency[ReqPlatform[r]]
  /\ phase' = [phase EXCEPT ![r] = "admitted"]
  /\ UNCHANGED <<calls, limit>>

ReadLimit(r) ==
  /\ phase[r] = "admitted" /\ calls[r] = 0 /\ limit[r] = 0
  /\ limit'[r] \in Nat /\ limit' = [limit EXCEPT ![r] = limit'[r]]
  /\ UNCHANGED <<phase, calls>>

Call(r) ==
  /\ phase[r] = "admitted" /\ calls[r] <= limit[r]
  /\ calls' = [calls EXCEPT ![r] = @ + 1]
  /\ UNCHANGED <<phase, limit>>

End(r, how) ==
  /\ phase' = [phase EXCEPT ![r] = how]
  /\ calls' = [calls EXCEPT ![r] = 0]
  /\ limit' = [limit EXCEPT ![r] = 0]

Answer(r)  == phase[r] = "admitted" /\ calls[r] > 0 /\ End(r, "replied")
TurnDown(r) == phase[r] = "admitted" /\ End(r, "refused")
HangUp(r)  == phase[r] \in {"queued", "admitted"} /\ End(r, "dropped")

Progress ==
  \E r \in Requests :
    Admit(r) \/ ReadLimit(r) \/ Call(r) \/ Answer(r) \/ TurnDown(r) \/ HangUp(r)

Promise == Start /\ [][Progress]_promised
=============================================================================
