------------------------------ MODULE Traffic ------------------------------
(***************************************************************************)
(* The requests that the budgets of Quota.tla and LoadTracker.tla are      *)
(* about.  A request has the tokens estimated for it at admission          *)
(* (projected_tokens), and its answer the "usage" its provider reports;    *)
(* a provider that reports none is one that reports zeros.                 *)
(***************************************************************************)
EXTENDS Integers, FiniteSets

CONSTANTS
    Requests,
    Projected,    \* the estimate of each request
    Streams,      \* the requests with stream = true
    Usages        \* the usage an answer may report

ASSUME TrafficAssumption ==
    /\ IsFiniteSet(Requests)
    /\ Projected \in [Requests -> Nat]
    /\ Streams \subseteq Requests
    /\ Usages \subseteq [prompt : Nat, completion : Nat]

Larger(m, n) == IF m > n THEN m ELSE n

(* Python's "count or projected". *)
Or(count, r) == IF count = 0 THEN Projected[r] ELSE count

(* What the dispatcher tells the load tracker an answer used: a response   *)
(* without any usage counts as its estimate, a stream without one as       *)
(* nothing.                                                                *)
DispatchedTokens(r, used) ==
    IF used.prompt + used.completion = 0 /\ r \notin Streams
      THEN Projected[r]
      ELSE used.prompt + used.completion

(* What the service books for it: the sum in the dispatcher's result for a *)
(* response; for a stream the estimate stands in for a missing prompt.     *)
AccountedTokens(r, used) ==
    IF r \in Streams THEN Or(used.prompt, r) + used.completion
                     ELSE DispatchedTokens(r, used)

(* A cached response: the estimate stands in for a missing prompt too.     *)
CachedTokens(r, used) == Or(used.prompt, r) + used.completion
=============================================================================
