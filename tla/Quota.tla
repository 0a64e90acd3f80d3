------------------------------- MODULE Quota -------------------------------
(***************************************************************************)
(* A tenant's quota: governance/quota.py over add_usage and get_usage of   *)
(* the storage.  The quota is read when a request is admitted and its      *)
(* spend is booked by the background task after the answer, into the       *)
(* period in which it is booked; in between other requests are admitted    *)
(* on the same usage.  The concurrency slot is given back before the       *)
(* booking, so nothing bounds the requests under way.                      *)
(***************************************************************************)
EXTENDS Traffic

CONSTANTS
    MaxRequests, MaxTokens, MaxCost,  \* the quota; 0 is no limit
    Policies,                         \* on_exceed of the tenants explored
    MostTokens, MostCost              \* no single request spends more

ASSUME QuotaAssumption ==
    /\ MaxRequests \in Nat /\ MaxTokens \in Nat /\ MaxCost \in Nat
    /\ Policies \subseteq {"reject", "downgrade"}
    /\ MostTokens \in Nat /\ MostCost \in Nat

VARIABLES
    policy,       \* on_exceed
    usage,        \* the usage booked in the current period
    spending,     \* spending[r]: how far r is
    downgraded,   \* the requests with context.quota_downgraded
    atFull,       \* history: the part of usage booked by requests not downgraded
    peak          \* history: the most requests at once that were under way, not downgraded

quotaVars == <<policy, usage, spending, downgraded, atFull, peak>>

Amounts == [requests : Nat, tokens : Nat, cost : Nat]
Nothing == [requests |-> 0, tokens |-> 0, cost |-> 0]

QuotaTypeOK ==
    /\ policy \in Policies
    /\ usage \in Amounts
    /\ spending \in [Requests -> {"new", "underway", "refused", "booked", "dropped"}]
    /\ downgraded \subseteq Requests
    /\ atFull \in Amounts
    /\ peak \in Nat

QuotaInit ==
    /\ policy \in Policies
    /\ usage = Nothing
    /\ spending = [r \in Requests |-> "new"]
    /\ downgraded = {}
    /\ atFull = Nothing
    /\ peak = 0

Spends(r, stage) == spending' = [spending EXCEPT ![r] = stage]

(* The requests that the quota let through in full and that may still be   *)
(* booked.                                                                 *)
UnderwayInFull == {r \in Requests : spending[r] = "underway"} \ downgraded

---------------------------------------------------------------------------
(* check *)

ExceededTokensOnly(r) ==                    \* mutant: the request clause is forgotten
    \/ MaxTokens > 0 /\ usage.tokens + Projected[r] > MaxTokens
    \/ MaxCost > 0 /\ usage.cost >= MaxCost
Exceeded(r) ==
    \/ MaxRequests > 0 /\ usage.requests >= MaxRequests
    \/ MaxTokens > 0 /\ usage.tokens + Projected[r] > MaxTokens
    \/ MaxCost > 0 /\ usage.cost >= MaxCost

Pass(r) ==
    /\ ~Exceeded(r)
    /\ Spends(r, "underway")
    /\ peak' = Larger(peak, Cardinality(UnderwayInFull) + 1)
    /\ UNCHANGED downgraded

Downgrade(r) ==
    /\ Exceeded(r)
    /\ policy = "downgrade"
    /\ Spends(r, "underway")
    /\ downgraded' = downgraded \cup {r}
    /\ UNCHANGED peak

Refuse(r) ==
    /\ Exceeded(r)
    /\ policy = "reject"
    /\ Spends(r, "refused")
    /\ UNCHANGED <<downgraded, peak>>

CheckSpend(r) ==
    /\ spending[r] = "new"
    /\ Pass(r) \/ Downgrade(r) \/ Refuse(r)
    /\ UNCHANGED <<policy, usage, atFull>>

---------------------------------------------------------------------------
(* record *)

Booked(amounts, tokens, cost) ==
    [requests |-> amounts.requests + 1,
     tokens   |-> amounts.tokens + tokens,
     cost     |-> amounts.cost + cost]

Record(r, tokens, cost) ==
    /\ spending[r] = "underway"
    /\ Spends(r, "booked")
    /\ usage' = Booked(usage, tokens, cost)
    /\ atFull' = IF r \in downgraded THEN atFull ELSE Booked(atFull, tokens, cost)
    /\ UNCHANGED <<policy, downgraded, peak>>

(* The request fails, its client leaves the stream, its replica dies or    *)
(* its background task fails: nothing is booked for it.                    *)
Drop(r) ==
    /\ spending[r] = "underway"
    /\ Spends(r, "dropped")
    /\ UNCHANGED <<policy, usage, downgraded, atFull, peak>>

(* The usage of a period is kept under a key of its own, so a new period   *)
(* starts from nothing.                                                    *)
NextPeriod ==
    /\ usage' = Nothing
    /\ atFull' = Nothing
    /\ peak' = Cardinality(UnderwayInFull)
    /\ UNCHANGED <<policy, spending, downgraded>>

QuotaNext ==
    \/ NextPeriod
    \/ \E r \in Requests :
         \/ CheckSpend(r)
         \/ Drop(r)
         \/ \E tokens \in 0..MostTokens, cost \in 0..MostCost : Record(r, tokens, cost)

QuotaSpec == QuotaInit /\ [][QuotaNext]_quotaVars

---------------------------------------------------------------------------
(* Properties *)

(* What a period's quota may be overshot by.  Every request under way at   *)
(* the moment the quota runs out is still booked, and no others: the spend *)
(* at full price, booked and to be booked, stays within the quota plus     *)
(* what the requests that were under way at once can spend.  Under         *)
(* "reject" that is the whole spend (quota.py:58-108).                     *)
QuotaOvershoot ==
    LET ahead == Cardinality(UnderwayInFull) IN
    /\ MaxRequests > 0 => atFull.requests + ahead <= MaxRequests - 1 + peak
    /\ MaxTokens > 0 => atFull.tokens + ahead * MostTokens <= MaxTokens + peak * MostTokens
    /\ MaxCost > 0 => atFull.cost + ahead * MostCost <= MaxCost - 1 + peak * MostCost
    /\ policy = "reject" => usage = atFull
=============================================================================
