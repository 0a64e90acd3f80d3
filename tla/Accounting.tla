----------------------------- MODULE Accounting -----------------------------
(***************************************************************************)
(* One tenant's requests to one model, from the quota check to the booking *)
(* of what they spent: prepare, complete, stream and their background      *)
(* tasks (service.py) over the quota of Quota.tla and the load of          *)
(* LoadTracker.tla.  The tokens of an answer go two ways, from the         *)
(* dispatcher into the window of the model and from the service into the   *)
(* ledger of the tenant.                                                   *)
(***************************************************************************)
EXTENDS Quota, LoadTracker

CONSTANTS
    Price,     \* cost of a token
    Mishaps    \* the faults that are explored

ASSUME AccountingAssumption ==
    /\ Price \in Nat
    /\ Mishaps \subseteq {"crash", "lose_gauge", "background"}
    /\ \A r \in Requests, used \in Usages \cup {Unreported} :
         /\ CachedTokens(r, used) <= MostTokens
         /\ AccountedTokens(r, used) <= MostTokens
         /\ \A tokens \in 0..MostTokens : tokens * Price <= MostCost

VARIABLES
    cached,    \* the requests answered from the response cache
    entry,     \* entry[r]: the usage in the cached answer of r
    booked     \* history: the tokens r was booked with

accountingVars == <<quotaVars, loadVars, cached, entry, booked>>

AccountingTypeOK ==
    /\ QuotaTypeOK
    /\ LoadTypeOK
    /\ cached \subseteq Requests
    /\ entry \in [Requests -> Usages \cup {Unreported}]
    /\ booked \in [Requests -> Nat]

AccountingInit ==
    /\ QuotaInit
    /\ LoadInit
    /\ cached = {}
    /\ entry = [r \in Requests |-> Unreported]
    /\ booked = [r \in Requests |-> 0]

---------------------------------------------------------------------------

(* quotas.check; a refusal raises QuotaExceededError.                      *)
Admit(r) ==
    /\ r \notin crashed
    /\ CheckSpend(r)
    /\ UNCHANGED <<loadVars, cached, entry, booked>>

(* complete() finds the answer in the cache and never asks the dispatcher. *)
AnswerFromCache(r) ==
    /\ Alive(r, "new")
    /\ spending[r] = "underway"
    /\ r \notin Streams
    /\ r \notin cached
    /\ cached' = cached \cup {r}
    /\ \E used \in Usages : entry' = [entry EXCEPT ![r] = used]
    /\ UNCHANGED <<quotaVars, loadVars, booked>>

Dispatch(r) ==
    /\ spending[r] = "underway"
    /\ r \notin cached
    /\ LoadStep(r)
    /\ UNCHANGED <<quotaVars, cached, entry, booked>>

(* The chain goes on to other models, whose load is not followed here, or  *)
(* ends: the request is not booked on account of this model.               *)
Fail(r) ==
    /\ stage[r] \in {"turned_away", "failed"} /\ r \notin crashed
    /\ Drop(r)
    /\ UNCHANGED <<loadVars, cached, entry, booked>>

(* total_tokens of _finalise_success and _finalise_stream. *)
Billed(r) ==
    IF r \in cached THEN CachedTokens(r, entry[r]) ELSE AccountedTokens(r, reported[r])

Book(r) ==
    /\ stage[r] = "served" \/ r \in cached
    /\ r \notin crashed
    /\ Record(r, Billed(r), Billed(r) * Price)
    /\ booked' = [booked EXCEPT ![r] = Billed(r)]
    /\ UNCHANGED <<loadVars, cached, entry>>

---------------------------------------------------------------------------

(* Background accounting raises before it comes to the quota: it is logged *)
(* and the answer stays unbooked.                                          *)
BackgroundFails(r) ==
    /\ "background" \in Mishaps
    /\ stage[r] = "served" \/ r \in cached
    /\ r \notin crashed
    /\ Drop(r)
    /\ UNCHANGED <<loadVars, cached, entry, booked>>

Dies(r) ==
    /\ "crash" \in Mishaps
    /\ Crash(r)
    /\ Drop(r)
    /\ UNCHANGED <<cached, entry, booked>>

GaugeLost ==
    /\ "lose_gauge" \in Mishaps
    /\ LoseGauge
    /\ UNCHANGED <<quotaVars, cached, entry, booked>>

(* Every period of a quota ends with a minute.                             *)
MinutePasses ==
    /\ NextMinute
    /\ NextPeriod \/ UNCHANGED quotaVars
    /\ UNCHANGED <<cached, entry, booked>>

AccountingNext ==
    \/ MinutePasses \/ GaugeLost
    \/ \E r \in Requests :
         \/ Admit(r) \/ AnswerFromCache(r) \/ Dispatch(r) \/ Fail(r) \/ Book(r)
         \/ BackgroundFails(r) \/ Dies(r)

AccountingSpec == AccountingInit /\ [][AccountingNext]_accountingVars

---------------------------------------------------------------------------
(* Properties *)

(* The model's token windows and the tenant's ledger agree about every     *)
(* request in the end, whatever was retried, failed or crossed a minute in *)
(* between: a request that was not served has taken back all it reserved,  *)
(* and one that was booked moved what it was booked with.  The code makes  *)
(* two exceptions: an answer from the cache costs no capacity but is       *)
(* billed, and a stream whose prompt went unreported is billed for its     *)
(* estimate while the model's window forgets it                            *)
(* (dispatcher.py:216-218 and 281, service.py:669-671).                    *)
LedgersAgree ==
    \A r \in Requests \ crashed :
        /\ stage[r] \in {"turned_away", "failed"} => moved[r] = 0 /\ booked[r] = 0
        /\ MaxTpm > 0 /\ spending[r] = "booked" =>
             /\ r \in cached => moved[r] = 0
             /\ r \notin cached =>
                  booked[r] - moved[r] =
                    IF r \in Streams /\ reported[r].prompt = 0 THEN Projected[r] ELSE 0
=============================================================================
