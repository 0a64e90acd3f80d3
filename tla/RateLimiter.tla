---------------------------- MODULE RateLimiter ----------------------------
(***************************************************************************)
(* The per-tenant rate limiter (governance/rate_limit.py).                 *)
(*                                                                         *)
(* check_and_consume reserves three things in turn, each with its own      *)
(* await on the shared storage: a concurrency slot (a gauge), one request  *)
(* of the RPM window and the projected tokens of the TPM window.  Every    *)
(* counter is incremented first, compared, and rolled back on rejection.   *)
(* Any other request of the tenant, in this replica or another, may run    *)
(* between two awaits, and so may the minute boundary: a window counter is *)
(* keyed by the minute in which it is touched, so a rollback or a          *)
(* reconciliation lands in the minute it executes in.                      *)
(*                                                                         *)
(* What an admitted request does until it releases its slot is left open   *)
(* here: Gateway.tla models it.                                            *)
(***************************************************************************)
EXTENDS Integers, FiniteSets, Functions, FiniteSetsExt

CONSTANTS
    Requests,        \* the tenant's requests; each is checked once
    MaxConcurrency,  \* limits.max_concurrency; 0 stands for "not limited"
    Rpm,             \* limits.rpm; 0 stands for "not limited"
    Tpm,             \* limits.tpm; 0 stands for "not limited"
    Projected,       \* Projected[r]: the tokens estimated for request r
    Actual,          \* the token totals an upstream may report
    MaxWindow        \* bound: the number of minutes that are explored

ASSUME RequestsAssumption == IsFiniteSet(Requests)
ASSUME LimitsAssumption ==
    /\ MaxConcurrency \in Nat
    /\ Rpm \in Nat
    /\ Tpm \in Nat
ASSUME TokensAssumption ==
    /\ Projected \in [Requests -> Nat]
    /\ Actual \subseteq Nat
ASSUME WindowAssumption == MaxWindow \in Nat \ {0}

VARIABLES
    pc,          \* pc[r]: the await request r stands before
    inflight,    \* the concurrency gauge
    window,      \* the current minute, counted from 1
    rpmUsed,     \* the RPM counter of the current minute
    tpmUsed,     \* the TPM counter of the current minute
    freed,       \* the admitted requests whose slot was released
    charged,     \* charged[r]: the tokens r was reconciled to, or NotYet
    \* History: the minute in which r moved a counter up, or back down, and
    \* the tokens moved in this minute on behalf of requests of other minutes.
    rpmTaken, rpmUndone, tpmTaken, tpmForeign

history == <<rpmTaken, rpmUndone, tpmTaken, tpmForeign>>
limiterVars == <<pc, inflight, window, rpmUsed, tpmUsed, freed, charged, history>>

NotYet == -1

Rejecting == {"undo_slot", "undo_rpm", "undo_tpm"}
Stages == {"new", "rpm", "tpm", "admitted", "rejected"} \cup Rejecting

TypeOK ==
    /\ pc \in [Requests -> Stages]
    /\ inflight \in 0..Cardinality(Requests)
    /\ window \in Nat \ {0}
    /\ rpmUsed \in Int
    /\ tpmUsed \in Int
    /\ freed \subseteq Requests
    /\ charged \in [Requests -> Actual \cup {NotYet, 0}]
    /\ rpmTaken \in [Requests -> Nat]
    /\ rpmUndone \in [Requests -> Nat]
    /\ tpmTaken \in [Requests -> Nat]
    /\ tpmForeign \in Int

Init ==
    /\ pc = [r \in Requests |-> "new"]
    /\ inflight = 0
    /\ window = 1
    /\ rpmUsed = 0
    /\ tpmUsed = 0
    /\ freed = {}
    /\ charged = [r \in Requests |-> NotYet]
    /\ rpmTaken = [r \in Requests |-> 0]
    /\ rpmUndone = [r \in Requests |-> 0]
    /\ tpmTaken = [r \in Requests |-> 0]
    /\ tpmForeign = 0

Goto(r, stage) == pc' = [pc EXCEPT ![r] = stage]

(* Every check compares the incremented counter with its limit.            *)
OverLate(used, limit) == used > limit + 1   \* mutant: lets one more through
Over(used, limit) == used > limit

(* incr_gauge(key, -1): a gauge never goes below zero.                     *)
Decremented(gauge) == IF gauge > 0 THEN gauge - 1 ELSE 0

(* _release_concurrency *)
ReleaseForgotten == UNCHANGED inflight      \* mutant: keeps the slot
ReleaseAdds ==                              \* mutant: the wrong sign
    inflight' = IF MaxConcurrency = 0 THEN inflight ELSE inflight + 1
ReleaseConcurrency ==
    inflight' = IF MaxConcurrency = 0 THEN inflight ELSE Decremented(inflight)

---------------------------------------------------------------------------
(* check_and_consume: concurrency *)

TakeSlot(r) ==
    /\ pc[r] = "new"
    /\ IF MaxConcurrency = 0
         THEN /\ Goto(r, "rpm")
              /\ UNCHANGED inflight
         ELSE /\ inflight' = inflight + 1
              /\ Goto(r, IF Over(inflight + 1, MaxConcurrency) THEN "undo_slot" ELSE "rpm")
    /\ UNCHANGED <<window, rpmUsed, tpmUsed, freed, charged, history>>

(* check_and_consume: requests per minute *)
TakeRequest(r) ==
    /\ pc[r] = "rpm"
    /\ IF Rpm = 0
         THEN /\ Goto(r, "tpm")
              /\ UNCHANGED <<rpmUsed, rpmTaken>>
         ELSE /\ rpmUsed' = rpmUsed + 1
              /\ rpmTaken' = [rpmTaken EXCEPT ![r] = window]
              /\ Goto(r, IF Over(rpmUsed + 1, Rpm) THEN "undo_rpm" ELSE "tpm")
    /\ UNCHANGED <<inflight, window, tpmUsed, freed, charged, rpmUndone, tpmTaken, tpmForeign>>

(* check_and_consume: tokens per minute *)
TakeTokens(r) ==
    /\ pc[r] = "tpm"
    /\ IF Tpm = 0 \/ Projected[r] = 0
         THEN /\ Goto(r, "admitted")
              /\ UNCHANGED <<tpmUsed, tpmTaken>>
         ELSE /\ tpmUsed' = tpmUsed + Projected[r]
              /\ tpmTaken' = [tpmTaken EXCEPT ![r] = window]
              /\ Goto(r, IF Over(tpmUsed + Projected[r], Tpm) THEN "undo_tpm" ELSE "admitted")
    /\ UNCHANGED <<inflight, window, rpmUsed, freed, charged, rpmTaken, rpmUndone, tpmForeign>>

(* incr_window on the TPM key of the minute in which it executes.          *)
MoveTokensBack(r, delta) ==                 \* mutant: the wrong sign
    /\ tpmUsed' = tpmUsed - delta
    /\ tpmForeign' = tpmForeign + (IF tpmTaken[r] = window THEN 0 ELSE delta)
MoveTokens(r, delta) ==
    /\ tpmUsed' = tpmUsed + delta
    /\ tpmForeign' = tpmForeign + (IF tpmTaken[r] = window THEN 0 ELSE delta)

(* The rollbacks: tokens, then the request, then the slot; one await each. *)
UndoTokens(r) ==
    /\ pc[r] = "undo_tpm"
    /\ MoveTokens(r, -Projected[r])
    /\ Goto(r, IF Rpm = 0 THEN "undo_slot" ELSE "undo_rpm")
    /\ UNCHANGED <<inflight, window, rpmUsed, freed, charged, rpmTaken, rpmUndone, tpmTaken>>

UndoRequestForgotten(r) ==                  \* mutant: the counter keeps the request
    /\ pc[r] = "undo_rpm"
    /\ rpmUndone' = [rpmUndone EXCEPT ![r] = window]
    /\ Goto(r, "undo_slot")
    /\ UNCHANGED <<inflight, window, rpmUsed, tpmUsed, freed, charged,
                   rpmTaken, tpmTaken, tpmForeign>>

UndoRequest(r) ==
    /\ pc[r] = "undo_rpm"
    /\ rpmUsed' = rpmUsed - 1
    /\ rpmUndone' = [rpmUndone EXCEPT ![r] = window]
    /\ Goto(r, "undo_slot")
    /\ UNCHANGED <<inflight, window, tpmUsed, freed, charged, rpmTaken, tpmTaken, tpmForeign>>

UndoSlot(r) ==
    /\ pc[r] = "undo_slot"
    /\ ReleaseConcurrency
    /\ Goto(r, "rejected")
    /\ UNCHANGED <<window, rpmUsed, tpmUsed, freed, charged, history>>

---------------------------------------------------------------------------
(* release and reconcile_tokens, called by the service *)

Release(r) ==
    /\ pc[r] = "admitted"
    /\ freed' = freed \cup {r}
    /\ ReleaseConcurrency
    /\ UNCHANGED <<pc, window, rpmUsed, tpmUsed, charged, history>>

ReconcileTokens(r, actual) ==
    /\ pc[r] = "admitted"
    /\ charged' = [charged EXCEPT ![r] = actual]
    /\ IF Tpm = 0
         THEN UNCHANGED <<tpmUsed, tpmForeign>>
         ELSE MoveTokens(r, actual - Projected[r])
    /\ UNCHANGED <<pc, inflight, window, rpmUsed, freed, rpmTaken, rpmUndone, tpmTaken>>

(* The minute boundary: both windows restart from an absent key. *)
Roll ==
    /\ window < MaxWindow
    /\ window' = window + 1
    /\ rpmUsed' = 0
    /\ tpmUsed' = 0
    /\ tpmForeign' = 0
    /\ UNCHANGED <<pc, inflight, freed, charged, rpmTaken, rpmUndone, tpmTaken>>

---------------------------------------------------------------------------

CheckAndConsume(r) ==
    \/ TakeSlot(r) \/ TakeRequest(r) \/ TakeTokens(r)
    \/ UndoTokens(r) \/ UndoRequest(r) \/ UndoSlot(r)

(* The service as the limiter sees it: it releases a slot at most once and *)
(* reconciles at most once, in either order, or never does.                *)
Settle(r) ==
    \/ r \notin freed /\ Release(r)
    \/ /\ charged[r] = NotYet
       /\ \E actual \in Actual \cup {0} : ReconcileTokens(r, actual)

Next == Roll \/ \E r \in Requests : CheckAndConsume(r) \/ Settle(r)

Spec == Init /\ [][Next]_limiterVars

---------------------------------------------------------------------------
(* Properties *)

(* The requests that count in the gauge: from the increment to the         *)
(* matching decrement.                                                     *)
SlotUnits ==
    {r \in Requests : /\ pc[r] \notin {"new", "rejected"}
                      /\ r \notin freed}

(* The requests that passed the concurrency check and still hold the slot. *)
PassedConcurrency ==
    {r \in Requests : \/ pc[r] \in {"rpm", "tpm"}
                      \/ pc[r] = "admitted" /\ r \notin freed}

(* Never more than max_concurrency requests of the tenant are past the     *)
(* concurrency check with their slot still held, whatever the interleaving *)
(* of increments, comparisons, rollbacks and releases.                     *)
ConcurrencyLimit ==
    MaxConcurrency # 0 => Cardinality(PassedConcurrency) <= MaxConcurrency

(* The gauge equals the number of outstanding increments: the clamp at     *)
(* zero in incr_gauge never hides a missing or an extra decrement.         *)
GaugeExact ==
    MaxConcurrency # 0 => inflight = Cardinality(SlotUnits)

PassedRpm ==
    {r \in Requests : /\ rpmTaken[r] = window
                      /\ pc[r] \in {"tpm", "admitted"}}

(* Rollbacks that landed in a later minute than the increment they undo.   *)
StrayUndos ==
    {r \in Requests : rpmUndone[r] = window /\ rpmTaken[r] # window}

(* In any minute, the requests let through by the RPM check exceed Rpm by  *)
(* at most the number of rollbacks that strayed into this minute.          *)
RpmBudget ==
    Rpm # 0 => Cardinality(PassedRpm) <= Rpm + Cardinality(StrayUndos)

(* "A brief overshoot that is immediately corrected": when no rejection is *)
(* being rolled back, the RPM counter is the number of requests of this    *)
(* minute that are being served or were, less the stray rollbacks.         *)
RpmCorrected ==
    (Rpm # 0 /\ \A r \in Requests : pc[r] \notin Rejecting) =>
        rpmUsed = Cardinality(PassedRpm) - Cardinality(StrayUndos)

(* What an admitted request weighs in the minute that reserved its tokens. *)
Charge(r) == IF charged[r] = NotYet THEN Projected[r] ELSE charged[r]

ChargedHere == {r \in Requests : pc[r] = "admitted" /\ tpmTaken[r] = window}

(* The TPM counter "kept accurate" by reconciliation: with no rollback     *)
(* pending it is the real or still projected usage of the requests of this *)
(* minute, plus what other minutes' requests gave back or added in it.     *)
TpmAccurate ==
    (Tpm # 0 /\ \A r \in Requests : pc[r] # "undo_tpm") =>
        tpmUsed = MapThenSumSet(Charge, ChargedHere) + tpmForeign

(* The token check admits a request only into a minute whose usage, the    *)
(* request included, fits Tpm once other minutes' corrections are counted. *)
TpmBudget ==
    [][\A r \in Requests :
         (Tpm # 0 /\ Projected[r] # 0 /\ pc[r] = "tpm" /\ pc'[r] = "admitted") =>
             MapThenSumSet(Charge, ChargedHere) + Projected[r] + tpmForeign <= Tpm]_limiterVars
=============================================================================
