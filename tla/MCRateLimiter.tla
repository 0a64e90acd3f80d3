--------------------------- MODULE MCRateLimiter ---------------------------
(* Small instances of the tenant rate limiter for TLC. *)
EXTENDS RateLimiter

CONSTANTS r1, r2, r3, r4

(* Every request is estimated at two tokens; the upstream reports 1 or 3.  *)
MCProjected == [r \in Requests |-> 2]
MCActual == {1, 3}
=============================================================================
