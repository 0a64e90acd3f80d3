---------------------------- MODULE Reservation ----------------------------
(***************************************************************************)
(* What a tenant's concurrency limit promises, without its mechanism: a    *)
(* request is refused or takes a slot, never more than Limit are taken at  *)
(* a time, and a slot that is taken is given back once (Safe says at most, *)
(* Spec at least).  service.py, module docstring: "reservations            *)
(* (concurrency slots, token budget) are released exactly once, including  *)
(* on failure paths".                                                      *)
(***************************************************************************)
EXTENDS Integers, FiniteSets

CONSTANTS
    Requests,
    Limit       \* the slots of the tenant

VARIABLE hold   \* hold[r]: "none", then "held" or not, then "over" for good

Held == {r \in Requests : hold[r] = "held"}

Init == hold = [r \in Requests |-> "none"]

Take(r) ==
    /\ hold[r] = "none"
    /\ Cardinality(Held) < Limit
    /\ hold' = [hold EXCEPT ![r] = "held"]

Refuse(r) ==
    /\ hold[r] = "none"
    /\ hold' = [hold EXCEPT ![r] = "over"]

GiveBack(r) ==
    /\ hold[r] = "held"
    /\ hold' = [hold EXCEPT ![r] = "over"]

Next == \E r \in Requests : Take(r) \/ Refuse(r) \/ GiveBack(r)

Safe == Init /\ [][Next]_hold

Spec == Safe /\ \A r \in Requests : WF_hold(GiveBack(r))
=============================================================================
