------------------------------ MODULE Adapter ------------------------------
(***************************************************************************)
(* The verdict a platform adapter gives on an upstream response            *)
(* (src/src/adapter.rs).  The four adapters share the trait's default      *)
(* implementation, so there is one definition for all platforms.  A status *)
(* is an HTTP status code; a platform's configuration contributes the set  *)
(* of codes that revoke an account and the set that rate-limits it.        *)
(***************************************************************************)
EXTENDS Integers

\* CallOutcome, and "Transport": send() itself failed and there is no response to classify.
Verdict == {"Success", "HardRevoked", "RateLimited", "Transient", "OtherError"}
Transport == "Transport"
Outcome == Verdict \cup {Transport}

HttpStatus == 100 .. 999

IsSuccess(code) == code \in 200 .. 299
IsServerError(code) == code \in 500 .. 599

\* PlatformAdapter::classify: the ranges are tested before the configured codes.
Classify(code, revoke, rate) ==
  CASE IsSuccess(code)                        -> "Success"
    [] IsServerError(code)                    -> "Transient"
    [] /\ ~IsSuccess(code) /\ ~IsServerError(code)
       /\ code \in revoke                     -> "HardRevoked"
    [] /\ ~IsSuccess(code) /\ ~IsServerError(code)
       /\ code \in rate \ revoke              -> "RateLimited"
    [] OTHER                                  -> "OtherError"

\* The match in forward(): these outcomes go back to the caller, the others start a retry.
Forwarded == {"Success", "OtherError"}
=============================================================================
