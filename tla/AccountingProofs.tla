-------------------------- MODULE AccountingProofs --------------------------
(***************************************************************************)
(* What Quota.tla and LoadTracker.tla promise for every set of requests,   *)
(* every quota and bound on the spend of a request, every capacity of the  *)
(* model and every number of attempts and polls; that the service of       *)
(* Accounting.tla uses both as their modules say, so what is proved of     *)
(* them holds of it; and that the two ledgers of tokens agree.             *)
(***************************************************************************)
EXTENDS Accounting, FiniteSetTheorems, TLAPS

LEMMA LargerBounds ==
  ASSUME NEW m \in Nat, NEW n \in Nat
  PROVE  Larger(m, n) \in Nat /\ Larger(m, n) >= m /\ Larger(m, n) >= n
  BY DEF Larger

LEMMA RequestsCounted ==
  ASSUME NEW S \in SUBSET Requests
  PROVE  IsFiniteSet(S) /\ Cardinality(S) \in Nat
  BY TrafficAssumption, FS_Subset, FS_CardinalityType

LEMMA OneMoreTimes ==
  ASSUME NEW n \in Nat, NEW k \in Nat
  PROVE  /\ n * k \in Nat
         /\ (n + 1) * k = n * k + k
  OBVIOUS

LEMMA MoreTimes ==
  ASSUME NEW m \in Nat, NEW n \in Nat, m <= n, NEW k \in Nat
  PROVE  m * k <= n * k
<1>1. PICK d \in Nat : n = m + d
  <2>1. n - m \in Nat /\ n = m + (n - m)
    OBVIOUS
  <2>2. QED
    BY <2>1
<1>2. (m + d) * k = m * k + d * k
  OBVIOUS
<1>3. d * k \in Nat /\ m * k \in Nat
  BY OneMoreTimes
<1>4. QED
  BY <1>1, <1>2, <1>3

---------------------------------------------------------------------------
(***************************************************************************)
(* The quota                                                               *)
(***************************************************************************)
LEMMA QuotaTypeInit == QuotaInit => QuotaTypeOK
  BY DEF QuotaInit, QuotaTypeOK, Amounts, Nothing

LEMMA QuotaTypeStep == QuotaTypeOK /\ [QuotaNext]_quotaVars => QuotaTypeOK'
<1> SUFFICES ASSUME QuotaTypeOK, [QuotaNext]_quotaVars PROVE QuotaTypeOK'
  OBVIOUS
<1> USE DEF QuotaTypeOK, Spends
<1>c. Cardinality(UnderwayInFull) \in Nat
  BY RequestsCounted DEF UnderwayInFull
<1>1. CASE NextPeriod
  BY <1>1, <1>c DEF NextPeriod, Nothing, Amounts
<1>2. ASSUME NEW r \in Requests, CheckSpend(r) PROVE QuotaTypeOK'
  <2>1. CASE Pass(r)
    <3> DEFINE n == Cardinality(UnderwayInFull) + 1
    <3>1. n \in Nat /\ peak \in Nat
      BY <1>c
    <3>2. peak' = Larger(peak, n)
      BY <2>1 DEF Pass
    <3> HIDE DEF n
    <3>3. peak' \in Nat
      BY <3>1, <3>2, LargerBounds
    <3>4. QED
      BY <1>2, <2>1, <3>3 DEF CheckSpend, Pass
  <2>2. CASE Downgrade(r)
    BY <1>2, <2>2 DEF CheckSpend, Downgrade
  <2>3. CASE Refuse(r)
    BY <1>2, <2>3 DEF CheckSpend, Refuse
  <2>4. QED
    BY <1>2, <2>1, <2>2, <2>3 DEF CheckSpend
<1>3. ASSUME NEW r \in Requests, Drop(r) PROVE QuotaTypeOK'
  BY <1>3 DEF Drop
<1>4. ASSUME NEW r \in Requests, NEW tokens \in 0..MostTokens, NEW cost \in 0..MostCost,
             Record(r, tokens, cost)
      PROVE  QuotaTypeOK'
  <2>1. tokens \in Nat /\ cost \in Nat
    BY QuotaAssumption
  <2>2. Booked(usage, tokens, cost) \in Amounts /\ Booked(atFull, tokens, cost) \in Amounts
    BY <2>1 DEF Booked, Amounts
  <2>3. QED
    BY <1>4, <2>2 DEF Record
<1>5. CASE UNCHANGED quotaVars
  BY <1>5 DEF quotaVars
<1>6. QED
  BY <1>1, <1>2, <1>3, <1>4, <1>5 DEF QuotaNext

---------------------------------------------------------------------------
(***************************************************************************)
(* The overshoot is not inductive: a check compares the quota with all     *)
(* that was booked, so what was booked at full price must be part of it.   *)
(***************************************************************************)
PartOfUsage ==
    /\ atFull.requests <= usage.requests
    /\ atFull.tokens <= usage.tokens
    /\ atFull.cost <= usage.cost
    /\ policy = "reject" => downgraded = {}

QuotaInv == QuotaTypeOK /\ PartOfUsage /\ QuotaOvershoot

LEMMA QuotaInvInit == QuotaInit => QuotaInv
<1> SUFFICES ASSUME QuotaInit PROVE QuotaInv
  OBVIOUS
<1>1. UnderwayInFull = {}
  BY DEF QuotaInit, UnderwayInFull
<1>2. Cardinality(UnderwayInFull) = 0
  BY <1>1, FS_EmptySet
<1>3. 0 * MostTokens = 0 /\ 0 * MostCost = 0
  BY QuotaAssumption
<1>4. QED
  BY <1>2, <1>3, QuotaTypeInit, QuotaAssumption
     DEF QuotaInv, QuotaInit, PartOfUsage, QuotaOvershoot, Nothing

(* Nothing is booked and no more requests are on the way.                  *)
LEMMA OvershootFrame ==
  ASSUME QuotaInv, UnderwayInFull' \subseteq UnderwayInFull,
         UNCHANGED <<policy, usage, atFull, peak>>
  PROVE  QuotaOvershoot'
<1> DEFINE n == Cardinality(UnderwayInFull)
           m == Cardinality(UnderwayInFull')
<1>1. IsFiniteSet(UnderwayInFull) /\ n \in Nat
  BY RequestsCounted DEF UnderwayInFull
<1>2. m \in Nat /\ m <= n
  BY <1>1, FS_Subset, FS_CardinalityType
<1>3. MostTokens \in Nat /\ MostCost \in Nat
  BY QuotaAssumption
<1>4. m * MostTokens <= n * MostTokens /\ m * MostCost <= n * MostCost
  BY <1>1, <1>2, <1>3, MoreTimes
<1>5. /\ m * MostTokens \in Nat /\ n * MostTokens \in Nat /\ peak * MostTokens \in Nat
      /\ m * MostCost \in Nat /\ n * MostCost \in Nat /\ peak * MostCost \in Nat
  BY <1>1, <1>2, <1>3, OneMoreTimes DEF QuotaInv, QuotaTypeOK
<1> HIDE DEF n, m
<1>6. /\ MaxRequests > 0 => atFull.requests + n <= MaxRequests - 1 + peak
      /\ MaxTokens > 0 => atFull.tokens + n * MostTokens <= MaxTokens + peak * MostTokens
      /\ MaxCost > 0 => atFull.cost + n * MostCost <= MaxCost - 1 + peak * MostCost
  BY DEF QuotaInv, QuotaOvershoot, n
<1>7. /\ MaxRequests > 0 => atFull.requests + m <= MaxRequests - 1 + peak
      /\ MaxTokens > 0 => atFull.tokens + m * MostTokens <= MaxTokens + peak * MostTokens
      /\ MaxCost > 0 => atFull.cost + m * MostCost <= MaxCost - 1 + peak * MostCost
  BY <1>1, <1>2, <1>4, <1>5, <1>6, QuotaAssumption DEF QuotaInv, QuotaTypeOK, Amounts
<1>8. QED
  BY <1>7 DEF QuotaInv, QuotaOvershoot, m

LEMMA OvershootPass ==
  ASSUME QuotaInv, NEW r \in Requests, CheckSpend(r), Pass(r)
  PROVE  QuotaOvershoot'
<1> DEFINE n == Cardinality(UnderwayInFull)
<1>1. IsFiniteSet(UnderwayInFull) /\ n \in Nat
  BY RequestsCounted DEF UnderwayInFull
<1>2. r \notin UnderwayInFull /\ UnderwayInFull' \subseteq UnderwayInFull \cup {r}
  BY DEF CheckSpend, Pass, Spends, UnderwayInFull, QuotaInv, QuotaTypeOK
<1>3. /\ IsFiniteSet(UnderwayInFull \cup {r})
      /\ Cardinality(UnderwayInFull \cup {r}) = n + 1
  BY <1>1, <1>2, FS_AddElement
<1> DEFINE m == Cardinality(UnderwayInFull')
<1>4. m \in Nat /\ m <= n + 1
  BY <1>1, <1>2, <1>3, FS_Subset, FS_CardinalityType
<1>5. peak' \in Nat /\ m <= peak'
  <2>1. peak' = Larger(peak, n + 1)
    BY DEF Pass
  <2>2. QED
    BY <2>1, <1>1, <1>4, LargerBounds DEF QuotaInv, QuotaTypeOK
<1>6. MostTokens \in Nat /\ MostCost \in Nat
  BY QuotaAssumption
<1>7. /\ m * MostTokens <= peak' * MostTokens /\ m * MostCost <= peak' * MostCost
      /\ m * MostTokens \in Nat /\ peak' * MostTokens \in Nat
      /\ m * MostCost \in Nat /\ peak' * MostCost \in Nat
  BY <1>4, <1>5, <1>6, MoreTimes, OneMoreTimes
<1>8. /\ MaxRequests > 0 => atFull.requests <= MaxRequests - 1
      /\ MaxTokens > 0 => atFull.tokens <= MaxTokens
      /\ MaxCost > 0 => atFull.cost <= MaxCost - 1
  BY QuotaAssumption, TrafficAssumption
     DEF Pass, Exceeded, QuotaInv, PartOfUsage, QuotaTypeOK, Amounts
<1> HIDE DEF n, m
<1>9. /\ MaxRequests > 0 => atFull.requests + m <= MaxRequests - 1 + peak'
      /\ MaxTokens > 0 => atFull.tokens + m * MostTokens <= MaxTokens + peak' * MostTokens
      /\ MaxCost > 0 => atFull.cost + m * MostCost <= MaxCost - 1 + peak' * MostCost
  BY <1>4, <1>5, <1>7, <1>8, QuotaAssumption DEF QuotaInv, QuotaTypeOK, Amounts
<1>10. QED
  BY <1>9 DEF CheckSpend, QuotaInv, QuotaOvershoot, m

LEMMA OvershootRecord ==
  ASSUME QuotaInv, NEW r \in Requests,
         NEW tokens \in 0..MostTokens, NEW cost \in 0..MostCost, Record(r, tokens, cost)
  PROVE  QuotaOvershoot'
<1> DEFINE n == Cardinality(UnderwayInFull)
           m == Cardinality(UnderwayInFull')
<1>1. IsFiniteSet(UnderwayInFull) /\ n \in Nat /\ m \in Nat
  <2>1. UnderwayInFull \subseteq Requests
    BY DEF UnderwayInFull
  <2>2. UnderwayInFull' \subseteq Requests
    BY DEF UnderwayInFull
  <2>3. QED
    BY <2>1, <2>2, RequestsCounted
<1>2. tokens \in Nat /\ cost \in Nat /\ MostTokens \in Nat /\ MostCost \in Nat
      /\ tokens <= MostTokens /\ cost <= MostCost
  BY QuotaAssumption
<1>3. CASE r \in downgraded
  <2>1. UnderwayInFull' \subseteq UnderwayInFull
    BY <1>3 DEF Record, Spends, UnderwayInFull, QuotaInv, QuotaTypeOK
  <2>2. policy # "reject"
    BY <1>3 DEF QuotaInv, PartOfUsage
  <2>3. m <= n
    BY <1>1, <2>1, FS_Subset
  <2>4. m * MostTokens <= n * MostTokens /\ m * MostCost <= n * MostCost
    BY <1>1, <1>2, <2>3, MoreTimes
  <2>5. /\ m * MostTokens \in Nat /\ n * MostTokens \in Nat /\ peak * MostTokens \in Nat
        /\ m * MostCost \in Nat /\ n * MostCost \in Nat /\ peak * MostCost \in Nat
    BY <1>1, <1>2, OneMoreTimes DEF QuotaInv, QuotaTypeOK
  <2>6. /\ MaxRequests > 0 => atFull.requests + n <= MaxRequests - 1 + peak
        /\ MaxTokens > 0 => atFull.tokens + n * MostTokens <= MaxTokens + peak * MostTokens
        /\ MaxCost > 0 => atFull.cost + n * MostCost <= MaxCost - 1 + peak * MostCost
    BY DEF QuotaInv, QuotaOvershoot
  <2> HIDE DEF n, m
  <2>7. /\ MaxRequests > 0 => atFull.requests + m <= MaxRequests - 1 + peak
        /\ MaxTokens > 0 => atFull.tokens + m * MostTokens <= MaxTokens + peak * MostTokens
        /\ MaxCost > 0 => atFull.cost + m * MostCost <= MaxCost - 1 + peak * MostCost
    BY <1>1, <2>3, <2>4, <2>5, <2>6, QuotaAssumption DEF QuotaInv, QuotaTypeOK, Amounts
  <2>8. QED
    BY <1>3, <2>2, <2>7 DEF Record, QuotaOvershoot, m
<1>4. CASE r \notin downgraded
  <2>1. r \in UnderwayInFull /\ UnderwayInFull' = UnderwayInFull \ {r}
    BY <1>4 DEF Record, Spends, UnderwayInFull, QuotaInv, QuotaTypeOK
  <2>2. m = n - 1
    BY <1>1, <2>1, FS_RemoveElement
  <2>3. /\ n * MostTokens = m * MostTokens + MostTokens
        /\ n * MostCost = m * MostCost + MostCost
        /\ m * MostTokens \in Nat /\ m * MostCost \in Nat
        /\ peak * MostTokens \in Nat /\ peak * MostCost \in Nat
    <3>1. n = m + 1
      BY <1>1, <2>2
    <3> HIDE DEF n, m
    <3>2. QED
      BY <1>1, <1>2, <3>1, OneMoreTimes DEF QuotaInv, QuotaTypeOK
  <2>4. /\ MaxRequests > 0 => atFull.requests + n <= MaxRequests - 1 + peak
        /\ MaxTokens > 0 => atFull.tokens + n * MostTokens <= MaxTokens + peak * MostTokens
        /\ MaxCost > 0 => atFull.cost + n * MostCost <= MaxCost - 1 + peak * MostCost
        /\ policy = "reject" => usage = atFull
    BY DEF QuotaInv, QuotaOvershoot
  <2>5. /\ atFull' = [requests |-> atFull.requests + 1,
                      tokens |-> atFull.tokens + tokens,
                      cost |-> atFull.cost + cost]
        /\ policy = "reject" => usage' = atFull'
        /\ peak' = peak /\ policy' = policy
    BY <1>4, <2>4 DEF Record, Booked
  <2>6. /\ atFull'.requests = atFull.requests + 1
        /\ atFull'.tokens = atFull.tokens + tokens
        /\ atFull'.cost = atFull.cost + cost
    BY <2>5
  <2> HIDE DEF n, m
  <2>7. /\ MaxRequests > 0 => atFull'.requests + m <= MaxRequests - 1 + peak
        /\ MaxTokens > 0 => atFull'.tokens + m * MostTokens <= MaxTokens + peak * MostTokens
        /\ MaxCost > 0 => atFull'.cost + m * MostCost <= MaxCost - 1 + peak * MostCost
    BY <1>1, <1>2, <2>2, <2>3, <2>4, <2>6, QuotaAssumption
       DEF QuotaInv, QuotaTypeOK, Amounts
  <2>8. QED
    BY <2>5, <2>7 DEF QuotaOvershoot, m
<1>5. QED
  BY <1>3, <1>4

LEMMA OvershootPeriod ==
  ASSUME QuotaInv, NextPeriod
  PROVE  QuotaOvershoot'
<1> DEFINE n == Cardinality(UnderwayInFull)
<1>1. n \in Nat
  BY RequestsCounted DEF UnderwayInFull
<1>2. UnderwayInFull' = UnderwayInFull /\ peak' = n
  BY DEF NextPeriod, UnderwayInFull
<1>3. n * MostTokens \in Nat /\ n * MostCost \in Nat
  BY <1>1, QuotaAssumption, OneMoreTimes
<1>4. usage' = atFull' /\ atFull'.requests = 0 /\ atFull'.tokens = 0 /\ atFull'.cost = 0
  BY DEF NextPeriod, Nothing
<1> HIDE DEF n
<1>5. /\ MaxRequests > 0 => 0 + n <= MaxRequests - 1 + n
      /\ MaxTokens > 0 => 0 + n * MostTokens <= MaxTokens + n * MostTokens
      /\ MaxCost > 0 => 0 + n * MostCost <= MaxCost - 1 + n * MostCost
  BY <1>1, <1>3, QuotaAssumption
<1>6. QED
  BY <1>2, <1>4, <1>5 DEF QuotaOvershoot, n

LEMMA QuotaInvStep == QuotaInv /\ [QuotaNext]_quotaVars => QuotaInv'
<1> SUFFICES ASSUME QuotaInv, [QuotaNext]_quotaVars PROVE QuotaInv'
  OBVIOUS
<1>t. QuotaTypeOK'
  BY QuotaTypeStep DEF QuotaInv
<1>1. CASE NextPeriod
  <2>1. PartOfUsage'
    BY <1>1 DEF NextPeriod, Nothing, PartOfUsage, QuotaInv
  <2>2. QED
    BY <1>1, <1>t, <2>1, OvershootPeriod DEF QuotaInv
<1>2. ASSUME NEW r \in Requests, CheckSpend(r) PROVE QuotaInv'
  <2>1. PartOfUsage'
    BY <1>2 DEF CheckSpend, Pass, Downgrade, Refuse, PartOfUsage, QuotaInv
  <2>2. CASE Pass(r)
    BY <1>2, <1>t, <2>1, <2>2, OvershootPass DEF QuotaInv
  <2>3. CASE Downgrade(r) \/ Refuse(r)
    <3>1. UnderwayInFull' \subseteq UnderwayInFull
      BY <1>2, <2>3 DEF CheckSpend, Downgrade, Refuse, Spends, UnderwayInFull,
                        QuotaInv, QuotaTypeOK
    <3>2. QED
      BY <1>2, <1>t, <2>1, <2>3, <3>1, OvershootFrame
         DEF QuotaInv, CheckSpend, Downgrade, Refuse
  <2>4. QED
    BY <1>2, <2>2, <2>3 DEF CheckSpend
<1>3. ASSUME NEW r \in Requests, Drop(r) PROVE QuotaInv'
  <2>1. PartOfUsage'
    BY <1>3 DEF Drop, PartOfUsage, QuotaInv
  <2>2. UnderwayInFull' \subseteq UnderwayInFull
    BY <1>3 DEF Drop, Spends, UnderwayInFull, QuotaInv, QuotaTypeOK
  <2>3. QED
    BY <1>3, <1>t, <2>1, <2>2, OvershootFrame DEF QuotaInv, Drop
<1>4. ASSUME NEW r \in Requests, NEW tokens \in 0..MostTokens, NEW cost \in 0..MostCost,
             Record(r, tokens, cost)
      PROVE  QuotaInv'
  <2>1. PartOfUsage'
    <3>1. tokens \in Nat /\ cost \in Nat
      BY QuotaAssumption
    <3>2. /\ usage'.requests = usage.requests + 1
          /\ usage'.tokens = usage.tokens + tokens
          /\ usage'.cost = usage.cost + cost
      BY <1>4 DEF Record, Booked
    <3>3. \/ atFull' = atFull
          \/ /\ atFull'.requests = atFull.requests + 1
             /\ atFull'.tokens = atFull.tokens + tokens
             /\ atFull'.cost = atFull.cost + cost
      BY <1>4 DEF Record, Booked
    <3>4. downgraded' = downgraded /\ policy' = policy
      BY <1>4 DEF Record
    <3>5. QED
      BY <3>1, <3>2, <3>3, <3>4 DEF PartOfUsage, QuotaInv, QuotaTypeOK, Amounts
  <2>2. QED
    BY <1>4, <1>t, <2>1, OvershootRecord DEF QuotaInv
<1>5. CASE UNCHANGED quotaVars
  <2>1. UnderwayInFull' = UnderwayInFull
    BY <1>5 DEF quotaVars, UnderwayInFull
  <2>2. PartOfUsage'
    BY <1>5 DEF quotaVars, PartOfUsage, QuotaInv
  <2>3. QED
    BY <1>5, <1>t, <2>1, <2>2, OvershootFrame DEF QuotaInv, quotaVars
<1>6. QED
  BY <1>1, <1>2, <1>3, <1>4, <1>5 DEF QuotaNext

(* The spend of a period exceeds the quota by no more than what the        *)
(* requests under way at once can spend.                                   *)
THEOREM SpendOvershootIsBounded == QuotaSpec => []QuotaOvershoot
<1>1. QuotaInv => QuotaOvershoot
  BY DEF QuotaInv
<1>2. QED
  BY <1>1, QuotaInvInit, QuotaInvStep, PTL DEF QuotaSpec

---------------------------------------------------------------------------
(***************************************************************************)
(* The load of a model.                                                    *)
(*                                                                         *)
(* What a single request carries from stage to stage: how many attempts it *)
(* has left, and the tokens it has in the windows.                         *)
(***************************************************************************)
Fresh == {"new", "sleep"} \cup Looks
Releasing == {"release_gauge", "correct_down", "release_tpm"}

TriesLeft(r) ==
    /\ stage[r] \in Fresh => tries[r] = 0
    /\ stage[r] \in Reserves => tries[r] < Attempts
    /\ stage[r] \in Releasing =>
         outcome[r] # "none" /\ (outcome[r] = "again" => tries[r] < Attempts)

Held(r) == IF MaxTpm > 0 THEN Projected[r] ELSE 0

TokensHeld(r) ==
    /\ stage[r] \in Fresh \cup {"reserve_rpm", "reserve_tpm", "turned_away", "failed"}
         => moved[r] = 0
    /\ stage[r] \in Releasing \cup {"reserve_gauge", "correct_up", "call"}
         => moved[r] = Held(r)
    /\ stage[r] = "served" =>
         moved[r] = IF MaxTpm > 0 THEN DispatchedTokens(r, reported[r]) ELSE 0
    /\ stage[r] = "release_tpm" => MaxTpm > 0
    /\ stage[r] = "reserve_tpm" => MaxTpm > 0 /\ Projected[r] > 0

LocalInv == LoadTypeOK /\ \A r \in Requests : TriesLeft(r) /\ TokensHeld(r)

LEMMA Typed ==
  ASSUME NEW r \in Requests
  PROVE  /\ Projected[r] \in Nat
         /\ MaxRpm \in Nat /\ MaxTpm \in Nat /\ Attempts \in Nat \ {0}
         /\ \A used \in Usages \cup {Unreported} :
              used.prompt \in Nat /\ used.completion \in Nat /\ DispatchedTokens(r, used) \in Nat
<1>1. Projected[r] \in Nat
  BY TrafficAssumption
<1>2. \A used \in Usages \cup {Unreported} : used.prompt \in Nat /\ used.completion \in Nat
  BY TrafficAssumption DEF Unreported
<1>3. QED
  BY <1>1, <1>2, LoadAssumption DEF DispatchedTokens

LEMMA LocalInit == LoadInit => LocalInv
<1> SUFFICES ASSUME LoadInit PROVE LocalInv
  OBVIOUS
<1>1. LoadTypeOK
  <2>1. room \in [Requests -> BOOLEAN] /\ lost \in BOOLEAN
    BY DEF LoadInit
  <2>2. /\ polls \in [Requests -> 0..MaxPolls] /\ tries \in [Requests -> 0..Attempts]
        /\ moved \in [Requests -> Int] /\ rpm \in Nat /\ tpm \in Int /\ gauge \in Int
        /\ crowd \in Nat
    BY LoadAssumption DEF LoadInit
  <2>3. QED
    BY <2>1, <2>2 DEF LoadInit, LoadTypeOK
<1>2. ASSUME NEW r \in Requests PROVE TriesLeft(r) /\ TokensHeld(r)
  BY <1>2 DEF LoadInit, TriesLeft, TokensHeld, Fresh, Looks, Reserves, Releasing
<1>3. QED
  BY <1>1, <1>2 DEF LocalInv

(* The stage a request goes to after its last look or its release.         *)
LEMMA NextStages ==
  ASSUME LocalInv, NEW r \in Requests
  PROVE  /\ FirstLook \in Looks /\ AfterRpm \in Looks
         /\ FirstReserve(r) \in Reserves
         /\ FirstReserve(r) = "reserve_tpm" => MaxTpm > 0 /\ Projected[r] > 0
         /\ FirstReserve(r) = "reserve_gauge" => Held(r) = 0
         /\ stage[r] \in Releasing /\ outcome[r] = "again" => Released(r) = FirstReserve(r)
         /\ stage[r] \in Releasing /\ outcome[r] # "again" =>
               Released(r) = outcome[r] /\ outcome[r] \in {"served", "failed"}
         /\ Owed(r) \in Nat
         /\ outcome[r] # "served" => Owed(r) = 0
<1>1. MaxRpm \in Nat /\ MaxTpm \in Nat /\ Projected[r] \in Nat
  BY Typed
<1>2. FirstLook \in Looks /\ AfterRpm \in Looks
  BY <1>1 DEF FirstLook, AfterRpm, Looks
<1>3. \/ FirstReserve(r) = "reserve_rpm"
      \/ FirstReserve(r) = "reserve_tpm" /\ MaxTpm > 0 /\ Projected[r] > 0
      \/ FirstReserve(r) = "reserve_gauge" /\ (MaxTpm > 0 => Projected[r] = 0)
  BY <1>1 DEF FirstReserve
<1>4. /\ FirstReserve(r) \in Reserves
      /\ FirstReserve(r) = "reserve_tpm" => MaxTpm > 0 /\ Projected[r] > 0
      /\ FirstReserve(r) = "reserve_gauge" => Held(r) = 0
  BY <1>3 DEF Reserves, Held
<1>5. stage[r] \in Releasing => outcome[r] \in {"served", "failed", "again"}
  BY DEF LocalInv, LoadTypeOK, TriesLeft
<1>6. Owed(r) \in Nat /\ (outcome[r] # "served" => Owed(r) = 0)
  BY Typed DEF Owed, LocalInv, LoadTypeOK
<1>7. QED
  BY <1>2, <1>4, <1>5, <1>6 DEF Released

(* A request whose tokens are settled goes on to the stage it is owed.     *)
LEMMA ReleasedKeeps ==
  ASSUME LocalInv, NEW r \in Requests, stage[r] \in Releasing, Alive(r, stage[r]),
         Goto(r, Released(r)), UNCHANGED <<tries, outcome, reported>>,
         moved'[r] = IF MaxTpm > 0 THEN Owed(r) ELSE 0
  PROVE  TriesLeft(r)' /\ TokensHeld(r)'
<1>1. stage'[r] = Released(r)
  BY DEF Goto, LocalInv, LoadTypeOK
<1>2. CASE outcome[r] = "again"
  <2>1. stage'[r] = FirstReserve(r) /\ stage'[r] \in Reserves /\ moved'[r] = 0
    BY <1>1, <1>2, NextStages
  <2>2. tries'[r] < Attempts
    BY <1>2 DEF LocalInv, TriesLeft
  <2>3. QED
    BY <1>2, <2>1, <2>2, NextStages
       DEF TriesLeft, TokensHeld, Reserves, Releasing, Fresh, Looks, Held
<1>3. CASE outcome[r] = "served"
  <2>1. stage'[r] = "served" /\ Owed(r) = DispatchedTokens(r, reported[r])
    BY <1>1, <1>3, NextStages DEF Owed
  <2>2. QED
    BY <1>3, <2>1 DEF TriesLeft, TokensHeld, Reserves, Releasing, Fresh, Looks
<1>4. CASE outcome[r] \notin {"again", "served"}
  <2>1. stage'[r] = "failed" /\ moved'[r] = 0
    BY <1>1, <1>4, NextStages
  <2>2. QED
    BY <1>4, <2>1 DEF TriesLeft, TokensHeld, Reserves, Releasing, Fresh, Looks
<1>5. QED
  BY <1>2, <1>3, <1>4

LEMMA AfterGaugeKeeps ==
  ASSUME LocalInv, NEW r \in Requests, stage[r] \in Releasing, Alive(r, stage[r]),
         Goto(r, AfterGauge(r)), UNCHANGED <<tries, outcome, reported, moved>>
  PROVE  TriesLeft(r)' /\ TokensHeld(r)'
<1>1. moved[r] = Held(r)
  BY DEF LocalInv, TokensHeld
<1>2. CASE MaxTpm > 0 /\ Owed(r) # Projected[r]
  <2>1. stage'[r] = "release_tpm"
    BY <1>2 DEF AfterGauge, Goto, LocalInv, LoadTypeOK
  <2>2. QED
    BY <1>1, <1>2, <2>1
       DEF TriesLeft, TokensHeld, Reserves, Releasing, Fresh, Looks, Held, LocalInv
<1>3. CASE ~(MaxTpm > 0 /\ Owed(r) # Projected[r])
  <2>1. Goto(r, Released(r)) /\ moved'[r] = IF MaxTpm > 0 THEN Owed(r) ELSE 0
    BY <1>1, <1>3 DEF AfterGauge, Held
  <2>2. QED
    BY <2>1, ReleasedKeeps
<1>4. QED
  BY <1>2, <1>3


(* What the others keep when one request takes a step.                     *)
OthersStay(r) ==
    \A q \in Requests \ {r} :
        /\ stage'[q] = stage[q] /\ tries'[q] = tries[q] /\ outcome'[q] = outcome[q]
        /\ reported'[q] = reported[q] /\ moved'[q] = moved[q]

LEMMA OthersKeep ==
  ASSUME LocalInv, NEW r \in Requests, OthersStay(r), LoadTypeOK',
         TriesLeft(r)' /\ TokensHeld(r)'
  PROVE  LocalInv'
<1>1. ASSUME NEW q \in Requests \ {r} PROVE TriesLeft(q)' /\ TokensHeld(q)'
  BY <1>1 DEF OthersStay, LocalInv, TriesLeft, TokensHeld, Held
<1>2. QED
  BY <1>1 DEF LocalInv

LEMMA CommitTyped == ASSUME LoadTypeOK, Commit PROVE crowd' \in Nat
<1> DEFINE n == Cardinality(Committed')
<1>1. n \in Nat
  BY RequestsCounted DEF Committed
<1>2. crowd \in Nat /\ crowd' = Larger(crowd, n)
  BY DEF LoadTypeOK, Commit
<1> HIDE DEF n
<1>3. QED
  BY <1>1, <1>2, LargerBounds

LEMMA LocalStep ==
  ASSUME LocalInv, NEW r \in Requests, LoadStep(r)
  PROVE  LocalInv' /\ OthersStay(r)
<1> SUFFICES LoadTypeOK' /\ OthersStay(r) /\ TriesLeft(r)' /\ TokensHeld(r)'
  BY OthersKeep
<1> USE DEF LocalInv, LoadTypeOK, Alive, Goto, windows, results, others
<1>1. CASE Ask(r)
  <2>1. LoadTypeOK'
    BY <1>1, NextStages DEF Ask, Fresh, Looks, Reserves, Releasing
  <2>2. OthersStay(r)
    BY <1>1 DEF Ask, OthersStay
  <2>3. TriesLeft(r)' /\ TokensHeld(r)'
    BY <1>1, NextStages DEF Ask, TriesLeft, TokensHeld, Held, Fresh, Looks, Reserves, Releasing
  <2>4. QED
    BY <2>1, <2>2, <2>3
<1>2. CASE LookAtRpm(r)
  <2>1. LoadTypeOK'
    BY <1>2, NextStages DEF LookAtRpm, Fresh, Looks, Reserves, Releasing
  <2>2. OthersStay(r)
    BY <1>2 DEF LookAtRpm, OthersStay
  <2>3. TriesLeft(r)' /\ TokensHeld(r)'
    BY <1>2, NextStages DEF LookAtRpm, TriesLeft, TokensHeld, Held, Fresh, Looks, Reserves, Releasing
  <2>4. QED
    BY <2>1, <2>2, <2>3
<1>3. CASE LookAtTpm(r)
  <2>1. LoadTypeOK'
    BY <1>3, NextStages DEF LookAtTpm, Fresh, Looks, Reserves, Releasing
  <2>2. OthersStay(r)
    BY <1>3 DEF LookAtTpm, OthersStay
  <2>3. TriesLeft(r)' /\ TokensHeld(r)'
    BY <1>3, NextStages DEF LookAtTpm, TriesLeft, TokensHeld, Held, Fresh, Looks, Reserves, Releasing
  <2>4. QED
    BY <2>1, <2>2, <2>3
<1>4. CASE LookAtGauge(r)
  <2>1. /\ FirstReserve(r) \in Reserves
        /\ stage' = [stage EXCEPT ![r] = stage'[r]]
        /\ stage'[r] \in {FirstReserve(r), "sleep", "turned_away"}
    BY <1>4, NextStages DEF LookAtGauge
  <2>2. LoadTypeOK'
    BY <1>4, <2>1, CommitTyped DEF LookAtGauge, Ends
  <2>3. OthersStay(r)
    BY <1>4 DEF LookAtGauge, OthersStay
  <2>4. TriesLeft(r)' /\ TokensHeld(r)'
    <3>1. moved'[r] = 0 /\ tries'[r] = 0 /\ 0 < Attempts
      BY <1>4, LoadAssumption DEF LookAtGauge, TriesLeft, TokensHeld, Fresh, Looks
    <3>2. CASE stage'[r] = FirstReserve(r)
      BY <3>1, <3>2, NextStages
         DEF TriesLeft, TokensHeld, Held, Fresh, Looks, Reserves, Releasing
    <3>3. CASE stage'[r] \in {"sleep", "turned_away"}
      BY <3>1, <3>3 DEF TriesLeft, TokensHeld, Fresh, Looks, Reserves, Releasing
    <3>4. QED
      BY <2>1, <3>2, <3>3
  <2>5. QED
    BY <2>2, <2>3, <2>4
<1>5. CASE Poll(r)
  <2>1. LoadTypeOK'
    BY <1>5, NextStages, LoadAssumption DEF Poll, Fresh, Looks, Reserves, Releasing
  <2>2. OthersStay(r)
    BY <1>5 DEF Poll, OthersStay
  <2>3. TriesLeft(r)' /\ TokensHeld(r)'
    BY <1>5, NextStages, LoadAssumption DEF Poll, TriesLeft, TokensHeld, Held, Fresh, Looks, Reserves, Releasing
  <2>4. QED
    BY <2>1, <2>2, <2>3
<1>6. CASE GiveUp(r)
  <2>1. LoadTypeOK'
    BY <1>6 DEF GiveUp, Fresh, Looks, Reserves, Releasing, Ends
  <2>2. OthersStay(r)
    BY <1>6 DEF GiveUp, OthersStay
  <2>3. TriesLeft(r)' /\ TokensHeld(r)'
    BY <1>6 DEF GiveUp, TriesLeft, TokensHeld, Held, Fresh, Looks, Reserves, Releasing, Ends
  <2>4. QED
    BY <2>1, <2>2, <2>3
<1>7. CASE ReserveRpm(r)
  <2>1. LoadTypeOK'
    BY <1>7, Typed DEF ReserveRpm, Fresh, Looks, Reserves, Releasing, Reserves
  <2>2. OthersStay(r)
    BY <1>7 DEF ReserveRpm, OthersStay
  <2>3. TriesLeft(r)' /\ TokensHeld(r)'
    BY <1>7, Typed DEF ReserveRpm, TriesLeft, TokensHeld, Held, Fresh, Looks, Reserves, Releasing, Reserves
  <2>4. QED
    BY <2>1, <2>2, <2>3
<1>8. CASE ReserveTpm(r)
  <2>1. LoadTypeOK'
    BY <1>8, Typed DEF ReserveTpm, Fresh, Looks, Reserves, Releasing, AddTokens
  <2>2. OthersStay(r)
    BY <1>8 DEF ReserveTpm, OthersStay, AddTokens
  <2>3. TriesLeft(r)' /\ TokensHeld(r)'
    BY <1>8, Typed DEF ReserveTpm, TriesLeft, TokensHeld, Held, Fresh, Looks, Reserves, Releasing, AddTokens
  <2>4. QED
    BY <2>1, <2>2, <2>3
<1>9. CASE ReserveGauge(r)
  <2>1. tries[r] < Attempts /\ tries[r] \in 0..Attempts /\ Attempts \in Nat
    BY <1>9, LoadAssumption DEF ReserveGauge, TriesLeft, Reserves
  <2>2. tries' \in [Requests -> 0..Attempts]
    BY <1>9, <2>1 DEF ReserveGauge
  <2>3. LoadTypeOK'
    BY <1>9, <2>2 DEF ReserveGauge, Corrections
  <2>4. OthersStay(r)
    BY <1>9 DEF ReserveGauge, OthersStay
  <2>5. TriesLeft(r)' /\ TokensHeld(r)'
    BY <1>9 DEF ReserveGauge, TriesLeft, TokensHeld, Held, Fresh, Looks, Reserves, Releasing
  <2>6. QED
    BY <2>3, <2>4, <2>5
<1>10. CASE CallServed(r)
  <2>1. LoadTypeOK'
    BY <1>10 DEF CallServed, Fresh, Looks, Reserves, Releasing, CallEnds
  <2>2. OthersStay(r)
    BY <1>10 DEF CallServed, OthersStay, CallEnds
  <2>3. TriesLeft(r)' /\ TokensHeld(r)'
    BY <1>10 DEF CallServed, TriesLeft, TokensHeld, Held, Fresh, Looks, Reserves, Releasing, CallEnds
  <2>4. QED
    BY <2>1, <2>2, <2>3
<1>11. CASE CallFailed(r)
  <2>1. LoadTypeOK'
    BY <1>11 DEF CallFailed, Fresh, Looks, Reserves, Releasing, CallEnds, TryAgain
  <2>2. OthersStay(r)
    BY <1>11 DEF CallFailed, OthersStay, CallEnds, TryAgain
  <2>3. TriesLeft(r)' /\ TokensHeld(r)'
    BY <1>11 DEF CallFailed, TriesLeft, TokensHeld, Held, Fresh, Looks, Reserves, Releasing, CallEnds, TryAgain
  <2>4. QED
    BY <2>1, <2>2, <2>3
<1>12. CASE CallRejected(r)
  <2>1. LoadTypeOK'
    BY <1>12 DEF CallRejected, Fresh, Looks, Reserves, Releasing, CallEnds
  <2>2. OthersStay(r)
    BY <1>12 DEF CallRejected, OthersStay, CallEnds
  <2>3. TriesLeft(r)' /\ TokensHeld(r)'
    BY <1>12 DEF CallRejected, TriesLeft, TokensHeld, Held, Fresh, Looks, Reserves, Releasing, CallEnds
  <2>4. QED
    BY <2>1, <2>2, <2>3
<1>13. CASE ReleaseGauge(r)
  <2>1. AfterGauge(r) \in {"release_tpm", "served", "failed"} \cup Reserves
    BY <1>13, NextStages DEF ReleaseGauge, AfterGauge, Releasing
  <2>2. LoadTypeOK'
    BY <1>13, <2>1, CommitTyped DEF ReleaseGauge, Ends, Corrections
  <2>3. OthersStay(r)
    BY <1>13 DEF ReleaseGauge, OthersStay
  <2>4. ASSUME gauge - 1 < 0 PROVE TriesLeft(r)' /\ TokensHeld(r)'
    BY <1>13, <2>4 DEF ReleaseGauge, TriesLeft, TokensHeld, Held, Fresh, Looks, Reserves, Releasing
  <2>5. ASSUME ~(gauge - 1 < 0) PROVE TriesLeft(r)' /\ TokensHeld(r)'
    <3>1. Goto(r, AfterGauge(r)) /\ Alive(r, stage[r]) /\ stage[r] \in Releasing
          /\ UNCHANGED <<tries, outcome, reported, moved>>
      BY <1>13, <2>5 DEF ReleaseGauge, Releasing
    <3>2. QED
      BY <3>1, AfterGaugeKeeps
  <2>6. QED
    BY <2>2, <2>3, <2>4, <2>5
<1>14. CASE ReleaseTpm(r)
  <2>1. Released(r) \in {"served", "failed"} \cup Reserves /\ stage[r] \in Releasing
    BY <1>14, NextStages DEF ReleaseTpm, Releasing
  <2>2. Owed(r) \in Nat /\ Projected[r] \in Nat
    BY NextStages, Typed
  <2>3. LoadTypeOK'
    BY <1>14, <2>1, <2>2 DEF ReleaseTpm, AddTokens, Ends
  <2>4. OthersStay(r)
    BY <1>14 DEF ReleaseTpm, AddTokens, OthersStay
  <2>5. moved'[r] = IF MaxTpm > 0 THEN Owed(r) ELSE 0
    <3>1. moved[r] = Projected[r] /\ MaxTpm > 0
      BY <1>14, <2>1 DEF ReleaseTpm, TokensHeld, Held
    <3>2. moved'[r] = moved[r] + (Owed(r) - Projected[r])
      BY <1>14 DEF ReleaseTpm, AddTokens
    <3>3. QED
      BY <2>2, <3>1, <3>2
  <2>6. TriesLeft(r)' /\ TokensHeld(r)'
    <3>1. Alive(r, stage[r]) /\ Goto(r, Released(r)) /\ UNCHANGED <<tries, outcome, reported>>
      BY <1>14 DEF ReleaseTpm
    <3>2. QED
      BY <2>1, <2>5, <3>1, ReleasedKeeps
  <2>7. QED
    BY <2>3, <2>4, <2>6
<1>15. CASE CorrectGauge(r)
  <2>1. CASE stage[r] = "correct_up"
    <3>1. LoadTypeOK'
      BY <1>15, <2>1 DEF CorrectGauge
    <3>2. OthersStay(r)
      BY <1>15, <2>1 DEF CorrectGauge, OthersStay
    <3>3. TriesLeft(r)' /\ TokensHeld(r)'
      BY <1>15, <2>1
         DEF CorrectGauge, TriesLeft, TokensHeld, Held, Fresh, Looks, Reserves, Releasing
    <3>4. QED
      BY <3>1, <3>2, <3>3
  <2>2. CASE stage[r] = "correct_down"
    <3>1. AfterGauge(r) \in {"release_tpm", "served", "failed"} \cup Reserves
      BY <2>2, NextStages DEF AfterGauge, Releasing
    <3>2. LoadTypeOK'
      BY <1>15, <2>2, <3>1 DEF CorrectGauge, Ends
    <3>3. OthersStay(r)
      BY <1>15, <2>2 DEF CorrectGauge, OthersStay
    <3>4. Goto(r, AfterGauge(r)) /\ Alive(r, stage[r]) /\ stage[r] \in Releasing
          /\ UNCHANGED <<tries, outcome, reported, moved>>
      BY <1>15, <2>2 DEF CorrectGauge, Releasing
    <3>5. QED
      BY <3>2, <3>3, <3>4, AfterGaugeKeeps
  <2>3. QED
    BY <1>15, <2>1, <2>2 DEF CorrectGauge, Corrections
<1>16. QED
  BY <1>1, <1>2, <1>3, <1>4, <1>5, <1>6, <1>7, <1>8, <1>9, <1>10, <1>11, <1>12, <1>13, <1>14, <1>15 DEF LoadStep

LEMMA LocalNext == LocalInv /\ [LoadNext]_loadVars => LocalInv'
<1> SUFFICES ASSUME LocalInv, [LoadNext]_loadVars PROVE LocalInv'
  OBVIOUS
<1>1. ASSUME NEW r \in Requests, LoadStep(r) PROVE LocalInv'
  BY <1>1, LocalStep
<1>2. CASE \/ NextMinute \/ LoseGauge \/ UNCHANGED loadVars
           \/ \E r \in Requests : Crash(r)
  <2>1. LoadTypeOK'
    <3> USE DEF LocalInv, LoadTypeOK, windows, results, others
    <3>1. CASE NextMinute
      BY <3>1 DEF NextMinute
    <3>2. CASE LoseGauge
      BY <3>2 DEF LoseGauge
    <3>3. ASSUME NEW r \in Requests, Crash(r) PROVE LoadTypeOK'
      BY <3>3 DEF Crash
    <3>4. CASE UNCHANGED loadVars
      BY <3>4 DEF loadVars
    <3>5. QED
      BY <1>2, <3>1, <3>2, <3>3, <3>4
  <2>2. UNCHANGED <<stage, tries, outcome, reported, moved>>
    BY <1>2 DEF NextMinute, LoseGauge, Crash, loadVars, windows, results, others
  <2>3. QED
    BY <2>1, <2>2 DEF LocalInv, TriesLeft, TokensHeld, Held
<1>3. QED
  BY <1>1, <1>2 DEF LoadNext

---------------------------------------------------------------------------
(***************************************************************************)
(* The gauge, and the requests between a look and the gauge.  The gauge is *)
(* exact until it is lost because a correction is only ever needed after   *)
(* that.                                                                   *)
(***************************************************************************)
CorrectionsAfterLoss == ~lost => \A r \in Requests : stage[r] \notin Corrections

LoadInv == LocalInv /\ GaugeHonest /\ LoadOvershoot /\ CorrectionsAfterLoss

LEMMA LoadInvInit == LoadInit => LoadInv
<1> SUFFICES ASSUME LoadInit PROVE LoadInv
  OBVIOUS
<1>1. Counted = {} /\ Committed = {}
  BY DEF LoadInit, Counted, Committed, Reserves
<1>2. Cardinality(Counted) = 0 /\ Cardinality(Committed) = 0
  BY <1>1, FS_EmptySet
<1>3. GaugeHonest /\ LoadOvershoot
  BY <1>2, LoadAssumption DEF LoadInit, GaugeHonest, LoadOvershoot
<1>4. QED
  BY <1>3, LocalInit DEF LoadInv, LoadInit, CorrectionsAfterLoss, Corrections

LEMMA CountedSets ==
  /\ IsFiniteSet(Counted) /\ Cardinality(Counted) \in Nat
  /\ IsFiniteSet(Committed) /\ Cardinality(Committed) \in Nat
  BY RequestsCounted DEF Counted, Committed

LEMMA CountedSetsNext ==
  /\ IsFiniteSet(Counted') /\ Cardinality(Counted') \in Nat
  /\ IsFiniteSet(Committed') /\ Cardinality(Committed') \in Nat
<1>1. Counted' \subseteq Requests /\ Committed' \subseteq Requests
  BY DEF Counted, Committed
<1>2. QED
  BY <1>1, RequestsCounted

(* A step that touches neither the sets nor the gauge.                     *)
LEMMA LoadFrame ==
  ASSUME LoadInv, UNCHANGED <<Counted, Committed, gauge, crowd, lost>>,
         \A r \in Requests : stage[r] \in Corrections <=> stage'[r] \in Corrections
  PROVE  GaugeHonest' /\ LoadOvershoot' /\ CorrectionsAfterLoss'
  BY DEF LoadInv, GaugeHonest, LoadOvershoot, CorrectionsAfterLoss

(* The steps of a request that do not move it in or out of these sets.     *)
Quiet(r) ==
    \/ Ask(r) \/ LookAtRpm(r) \/ LookAtTpm(r) \/ Poll(r) \/ GiveUp(r)
    \/ ReserveRpm(r) \/ ReserveTpm(r)
    \/ CallServed(r) \/ CallFailed(r) \/ CallRejected(r) \/ ReleaseTpm(r)

LEMMA QuietStays ==
  ASSUME LocalInv, NEW r \in Requests, Quiet(r)
  PROVE  /\ UNCHANGED <<gauge, crowd, lost>>
         /\ \A q \in Requests \ {r} : stage'[q] = stage[q] /\ outcome'[q] = outcome[q]
         /\ r \in Counted' <=> r \in Counted
         /\ r \in Committed' <=> r \in Committed
         /\ stage[r] \notin Corrections /\ stage'[r] \notin Corrections
<1> USE DEF Counted, Committed, Corrections, Reserves, Looks, Alive, Goto, LocalInv, LoadTypeOK,
        windows, results, others
<1>1. CASE Ask(r)
  BY <1>1, NextStages DEF Ask
<1>2. CASE LookAtRpm(r)
  BY <1>2, NextStages DEF LookAtRpm
<1>3. CASE LookAtTpm(r)
  BY <1>3, NextStages DEF LookAtTpm
<1>4. CASE Poll(r)
  BY <1>4, NextStages DEF Poll
<1>5. CASE GiveUp(r)
  BY <1>5 DEF GiveUp
<1>6. CASE ReserveRpm(r)
  BY <1>6 DEF ReserveRpm
<1>7. CASE ReserveTpm(r)
  BY <1>7 DEF ReserveTpm, AddTokens
<1>8. CASE CallServed(r)
  BY <1>8 DEF CallServed, CallEnds
<1>9. CASE CallFailed(r)
  BY <1>9 DEF CallFailed, CallEnds
<1>10. CASE CallRejected(r)
  BY <1>10 DEF CallRejected, CallEnds
<1>11. CASE ReleaseTpm(r)
  <2>1. stage'[r] = Released(r) /\ outcome'[r] = outcome[r] /\ stage[r] = "release_tpm"
    BY <1>11 DEF ReleaseTpm
  <2>2. /\ outcome[r] = "again" => stage'[r] \in Reserves
        /\ outcome[r] # "again" => stage'[r] \in {"served", "failed"}
    BY <2>1, NextStages DEF Releasing
  <2>3. QED
    BY <1>11, <2>1, <2>2 DEF ReleaseTpm, AddTokens
<1>12. QED
  BY <1>1, <1>2, <1>3, <1>4, <1>5, <1>6, <1>7, <1>8, <1>9, <1>10, <1>11 DEF Quiet

LEMMA QuietKeeps ==
  ASSUME LoadInv, NEW r \in Requests, Quiet(r)
  PROVE  GaugeHonest' /\ LoadOvershoot' /\ CorrectionsAfterLoss'
<1>1. LocalInv
  BY DEF LoadInv
<1>2. Counted' = Counted /\ Committed' = Committed
  <2>1. \A q \in Requests : /\ q \in Counted' <=> q \in Counted
                            /\ q \in Committed' <=> q \in Committed
    BY <1>1, QuietStays DEF Counted, Committed
  <2>2. QED
    BY <2>1 DEF Counted, Committed
<1>3. \A q \in Requests : stage[q] \in Corrections <=> stage'[q] \in Corrections
  BY <1>1, QuietStays
<1>4. QED
  BY <1>1, <1>2, <1>3, QuietStays, LoadFrame

LEMMA LookKeeps ==
  ASSUME LoadInv, NEW r \in Requests, LookAtGauge(r)
  PROVE  GaugeHonest' /\ LoadOvershoot' /\ CorrectionsAfterLoss'
<1> USE DEF LookAtGauge, Alive, Goto, LoadInv, LocalInv, LoadTypeOK, windows, results, others
<1>1. /\ stage[r] = "look_gauge"
      /\ stage'[r] \in Reserves \cup {"sleep", "turned_away"}
      /\ stage'[r] \in Reserves => Headroom(r)
      /\ \A q \in Requests \ {r} : stage'[q] = stage[q]
      /\ outcome' = outcome /\ gauge' = gauge /\ lost' = lost
  BY NextStages DEF Reserves
<1>2. /\ Counted' = Counted
      /\ \A q \in Requests : stage[q] \in Corrections <=> stage'[q] \in Corrections
  BY <1>1 DEF Counted, Reserves, Corrections
<1>3. r \notin Committed /\ Committed \subseteq Requests
  BY <1>1 DEF Committed, Reserves
<1>4. CASE stage'[r] \notin Reserves
  <2>1. Committed' = Committed
    BY <1>1, <1>3, <1>4 DEF Committed, Reserves
  <2>2. Cardinality(Committed) \in Nat /\ crowd \in Nat
    BY CountedSets
  <2>3. crowd' \in Nat /\ crowd' >= crowd
    <3> DEFINE n == Cardinality(Committed)
    <3>1. crowd' = Larger(crowd, n) /\ n \in Nat
      BY <2>1, <2>2 DEF Commit
    <3> HIDE DEF n
    <3>2. QED
      BY <2>2, <3>1, LargerBounds
  <2>4. QED
    BY <1>1, <1>2, <2>1, <2>2, <2>3, CountedSets, LoadAssumption
       DEF GaugeHonest, LoadOvershoot, CorrectionsAfterLoss
<1>5. CASE stage'[r] \in Reserves
  <2>1. Committed' = Committed \cup {r}
    BY <1>1, <1>3, <1>5 DEF Committed, Reserves
  <2>2. Cardinality(Committed') = Cardinality(Committed) + 1
    BY <1>3, <2>1, CountedSets, FS_AddElement
  <2>3. crowd' \in Nat /\ crowd' >= Cardinality(Committed')
    <3> DEFINE n == Cardinality(Committed')
    <3>1. crowd' = Larger(crowd, n) /\ n \in Nat /\ crowd \in Nat
      BY CountedSetsNext DEF Commit
    <3> HIDE DEF n
    <3>2. crowd' \in Nat /\ crowd' >= n
      BY <3>1, LargerBounds
    <3>3. QED
      BY <3>2 DEF n
  <2>4. MaxConcurrency > 0 => gauge < MaxConcurrency
    BY <1>1, <1>5 DEF Headroom
  <2>5. LoadOvershoot'
    <3>1. SUFFICES ASSUME MaxConcurrency > 0, ~lost
                   PROVE  Cardinality(Counted) + Cardinality(Committed')
                            <= MaxConcurrency - 1 + crowd'
      BY <1>1, <1>2 DEF LoadOvershoot
    <3>2. Cardinality(Counted) <= MaxConcurrency - 1
      BY <2>4, <3>1, CountedSets, LoadAssumption DEF GaugeHonest
    <3>3. QED
      BY <2>3, <3>2, CountedSets, CountedSetsNext, LoadAssumption
  <2>6. QED
    BY <1>1, <1>2, <2>5 DEF GaugeHonest, CorrectionsAfterLoss
<1>6. QED
  BY <1>4, <1>5

LEMMA ReserveKeeps ==
  ASSUME LoadInv, NEW r \in Requests, ReserveGauge(r)
  PROVE  GaugeHonest' /\ LoadOvershoot' /\ CorrectionsAfterLoss'
<1> USE DEF ReserveGauge, Alive, Goto, LoadInv, LocalInv, LoadTypeOK, windows, results, others
<1>1. /\ stage[r] = "reserve_gauge"
      /\ stage'[r] = IF gauge + 1 < 0 THEN "correct_up" ELSE "call"
      /\ \A q \in Requests \ {r} : stage'[q] = stage[q]
      /\ outcome' = outcome /\ gauge' = gauge + 1 /\ lost' = lost /\ crowd' = crowd
  OBVIOUS
<1>2. /\ r \notin Counted /\ Counted' = Counted \cup {r}
      /\ r \in Committed /\ Committed' = Committed \ {r}
  BY <1>1 DEF Counted, Committed, Reserves
<1>3. /\ Cardinality(Counted') = Cardinality(Counted) + 1
      /\ Cardinality(Committed') = Cardinality(Committed) - 1
  BY <1>2, CountedSets, FS_AddElement, FS_RemoveElement
<1>4. GaugeHonest'
  <2>1. gauge' < 0 => stage'[r] \in Corrections
    BY <1>1 DEF Corrections
  <2>2. QED
    BY <1>1, <1>3, <2>1, CountedSets DEF GaugeHonest
<1>5. LoadOvershoot'
  BY <1>1, <1>3, CountedSets, LoadAssumption DEF LoadOvershoot
<1>6. CorrectionsAfterLoss'
  <2>1. ~lost => ~(gauge + 1 < 0)
    BY CountedSets DEF GaugeHonest
  <2>2. QED
    BY <1>1, <2>1 DEF CorrectionsAfterLoss, Corrections
<1>7. QED
  BY <1>4, <1>5, <1>6

LEMMA ReleaseKeeps ==
  ASSUME LoadInv, NEW r \in Requests, ReleaseGauge(r)
  PROVE  GaugeHonest' /\ LoadOvershoot' /\ CorrectionsAfterLoss'
<1> USE DEF ReleaseGauge, Alive, Goto, LoadInv, LocalInv, LoadTypeOK, windows, results, others
<1>1. /\ stage[r] = "release_gauge" /\ stage[r] \in Releasing
      /\ stage'[r] = IF gauge - 1 < 0 THEN "correct_down" ELSE AfterGauge(r)
      /\ \A q \in Requests \ {r} : stage'[q] = stage[q]
      /\ outcome' = outcome /\ gauge' = gauge - 1 /\ lost' = lost
  BY DEF Releasing
<1>2. /\ AfterGauge(r) \in {"release_tpm", "served", "failed"} \cup Reserves
      /\ AfterGauge(r) \in {"served", "failed"} => outcome[r] # "again"
      /\ AfterGauge(r) \in Reserves => outcome[r] = "again"
  BY <1>1, NextStages DEF AfterGauge, Reserves
<1>3. /\ r \in Counted /\ Counted' = Counted \ {r}
      /\ r \notin Committed
      /\ Committed' \subseteq Committed \cup {r}
      /\ outcome[r] = "again" => Committed' = Committed \cup {r}
      /\ outcome[r] # "again" => Committed' = Committed
  BY <1>1, <1>2 DEF Counted, Committed, Reserves
<1>4. /\ Cardinality(Counted') = Cardinality(Counted) - 1
      /\ Cardinality(Committed') <= Cardinality(Committed) + 1
  <2>1. Cardinality(Counted') = Cardinality(Counted) - 1
    BY <1>3, CountedSets, FS_RemoveElement
  <2>2. Cardinality(Committed \cup {r}) = Cardinality(Committed) + 1
    BY <1>3, CountedSets, FS_AddElement
  <2>3. Committed' = Committed \/ Committed' = Committed \cup {r}
    BY <1>3
  <2>4. CASE Committed' = Committed
    BY <2>1, <2>4, CountedSets
  <2>5. CASE Committed' = Committed \cup {r}
    BY <2>1, <2>2, <2>5, CountedSets
  <2>6. QED
    BY <2>3, <2>4, <2>5
<1>5. GaugeHonest'
  <2>1. gauge' < 0 => stage'[r] \in Corrections
    BY <1>1 DEF Corrections
  <2>2. QED
    BY <1>1, <1>4, <2>1, CountedSets DEF GaugeHonest
<1>6. LoadOvershoot'
  <2>1. crowd' \in Nat /\ crowd' >= crowd /\ crowd \in Nat
    <3> DEFINE n == Cardinality(Committed')
    <3>1. crowd' = Larger(crowd, n) /\ n \in Nat /\ crowd \in Nat
      BY CountedSetsNext DEF Commit
    <3> HIDE DEF n
    <3>2. QED
      BY <3>1, LargerBounds
  <2>2. QED
    BY <1>1, <1>4, <2>1, CountedSets, CountedSetsNext, LoadAssumption DEF LoadOvershoot
<1>7. CorrectionsAfterLoss'
  <2>1. ~lost => ~(gauge - 1 < 0)
    <3>1. Cardinality(Counted) > 0
      BY <1>4, CountedSets, CountedSetsNext
    <3>2. QED
      BY <3>1, CountedSets DEF GaugeHonest
  <2>2. QED
    BY <1>1, <1>2, <2>1 DEF CorrectionsAfterLoss, Corrections, Reserves
<1>8. QED
  BY <1>5, <1>6, <1>7

LEMMA CorrectKeeps ==
  ASSUME LoadInv, NEW r \in Requests, CorrectGauge(r)
  PROVE  GaugeHonest' /\ LoadOvershoot' /\ CorrectionsAfterLoss'
<1> USE DEF CorrectGauge, Alive, Goto, LoadInv, LocalInv, LoadTypeOK, windows, results, others
<1>1. lost /\ lost' = lost /\ gauge' = 0
  BY DEF CorrectionsAfterLoss
<1>2. QED
  BY <1>1, CountedSetsNext DEF GaugeHonest, LoadOvershoot, CorrectionsAfterLoss

LEMMA LoadInvStep == LoadInv /\ [LoadNext]_loadVars => LoadInv'
<1> SUFFICES ASSUME LoadInv, [LoadNext]_loadVars PROVE LoadInv'
  OBVIOUS
<1>l. LocalInv'
  BY LocalNext DEF LoadInv
<1> SUFFICES GaugeHonest' /\ LoadOvershoot' /\ CorrectionsAfterLoss'
  BY <1>l DEF LoadInv
<1>1. ASSUME NEW r \in Requests, LoadStep(r)
      PROVE  GaugeHonest' /\ LoadOvershoot' /\ CorrectionsAfterLoss'
  <2>1. Quiet(r) \/ LookAtGauge(r) \/ ReserveGauge(r) \/ ReleaseGauge(r) \/ CorrectGauge(r)
    BY <1>1 DEF LoadStep, Quiet
  <2>2. QED
    BY <2>1, QuietKeeps, LookKeeps, ReserveKeeps, ReleaseKeeps, CorrectKeeps
<1>2. CASE LoseGauge
  <2>1. /\ gauge' = 0 /\ lost' = TRUE
        /\ Cardinality(Counted') \in Nat
    BY <1>2, CountedSetsNext DEF LoseGauge
  <2>2. QED
    BY <2>1 DEF GaugeHonest, LoadOvershoot, CorrectionsAfterLoss
<1>3. CASE NextMinute \/ UNCHANGED loadVars \/ \E r \in Requests : Crash(r)
  <2>1. UNCHANGED <<stage, outcome, gauge, crowd, lost>>
    BY <1>3 DEF NextMinute, loadVars, Crash, results, others
  <2>2. UNCHANGED <<Counted, Committed>>
    BY <2>1 DEF Counted, Committed
  <2>3. QED
    BY <2>1, <2>2, LoadFrame
<1>4. QED
  BY <1>1, <1>2, <1>3 DEF LoadNext

(* The gauge is honest through every interleaving of its commands, loss    *)
(* and crash.                                                              *)
THEOREM GaugeIsHonest == LoadSpec => []GaugeHonest
<1>1. LoadInv => GaugeHonest
  BY DEF LoadInv
<1>2. QED
  BY <1>1, LoadInvInit, LoadInvStep, PTL DEF LoadSpec

(* The concurrency of a model is overshot by no more than the requests     *)
(* between look and reservation.                                           *)
THEOREM LoadOvershootIsBounded == LoadSpec => []LoadOvershoot
<1>1. LoadInv => LoadOvershoot
  BY DEF LoadInv
<1>2. QED
  BY <1>1, LoadInvInit, LoadInvStep, PTL DEF LoadSpec

---------------------------------------------------------------------------
(***************************************************************************)
(* The service                                                             *)
(***************************************************************************)
LEMMA BilledBounds ==
  ASSUME AccountingTypeOK, NEW r \in Requests
  PROVE  /\ Billed(r) \in 0..MostTokens
         /\ Billed(r) * Price \in 0..MostCost
<1>1. /\ reported[r] \in Usages \cup {Unreported}
      /\ entry[r] \in Usages \cup {Unreported}
      /\ reported[r].prompt \in Nat /\ reported[r].completion \in Nat
      /\ entry[r].prompt \in Nat /\ entry[r].completion \in Nat
      /\ Projected[r] \in Nat /\ DispatchedTokens(r, reported[r]) \in Nat
  BY Typed DEF AccountingTypeOK, LoadTypeOK
<1>2. Billed(r) \in Nat
  BY <1>1 DEF Billed, CachedTokens, AccountedTokens, Or
<1>3. Billed(r) <= MostTokens
  BY <1>1, AccountingAssumption DEF Billed
<1>4. Billed(r) \in 0..MostTokens
  BY <1>2, <1>3, QuotaAssumption
<1>5. Billed(r) * Price <= MostCost
  BY <1>1, <1>4, AccountingAssumption
<1>6. Billed(r) * Price \in Nat
  BY <1>2, AccountingAssumption, OneMoreTimes
<1>7. QED
  BY <1>4, <1>5, <1>6, QuotaAssumption

---------------------------------------------------------------------------
(***************************************************************************)
(* A request that is booked was served, or answered from the cache without *)
(* ever asking the dispatcher; the tokens of one that is in the windows    *)
(* are those of LocalInv.                                                 *)
(***************************************************************************)
BookedFrom(r) ==
    /\ r \in cached => stage[r] = "new" /\ r \notin Streams
    /\ spending[r] = "booked" => (r \in cached \/ stage[r] = "served") /\ booked[r] = Billed(r)
    /\ spending[r] # "booked" => booked[r] = 0

BookingInv ==
    /\ cached \subseteq Requests
    /\ entry \in [Requests -> Usages \cup {Unreported}]
    /\ booked \in [Requests -> Nat]
    /\ \A r \in Requests : BookedFrom(r)

AccountingInv ==
    /\ AccountingTypeOK
    /\ LocalInv
    /\ \A r \in Requests : BookedFrom(r)

LEMMA AccountingInvInit == AccountingInit => AccountingInv
  BY QuotaTypeInit, LocalInit
     DEF AccountingInit, AccountingInv, AccountingTypeOK, LocalInv, BookedFrom, QuotaInit,
         LoadInit

(* Every step of the service is one of the quota's and one of the load     *)
(* tracker's, or leaves them alone.                                        *)
LEMMA StepOfQuota == AccountingTypeOK /\ [AccountingNext]_accountingVars => [QuotaNext]_quotaVars
<1> SUFFICES ASSUME AccountingTypeOK, [AccountingNext]_accountingVars
             PROVE  [QuotaNext]_quotaVars
  OBVIOUS
<1>1. ASSUME NEW r \in Requests, Book(r) PROVE QuotaNext
  BY <1>1, BilledBounds DEF Book, QuotaNext
<1>2. CASE MinutePasses \/ GaugeLost
  BY <1>2 DEF MinutePasses, GaugeLost, QuotaNext
<1>3. ASSUME NEW r \in Requests,
             \/ Admit(r) \/ AnswerFromCache(r) \/ Dispatch(r) \/ Fail(r)
             \/ BackgroundFails(r) \/ Dies(r)
      PROVE  [QuotaNext]_quotaVars
  BY <1>3 DEF Admit, AnswerFromCache, Dispatch, Fail, BackgroundFails, Dies, QuotaNext
<1>4. CASE UNCHANGED accountingVars
  BY <1>4 DEF accountingVars
<1>5. QED
  BY <1>1, <1>2, <1>3, <1>4 DEF AccountingNext

LEMMA StepOfLoad == [AccountingNext]_accountingVars => [LoadNext]_loadVars
<1> SUFFICES ASSUME [AccountingNext]_accountingVars PROVE [LoadNext]_loadVars
  OBVIOUS
<1>1. CASE MinutePasses \/ GaugeLost
  BY <1>1 DEF MinutePasses, GaugeLost, LoadNext
<1>2. ASSUME NEW r \in Requests,
             \/ Admit(r) \/ AnswerFromCache(r) \/ Dispatch(r) \/ Fail(r) \/ Book(r)
             \/ BackgroundFails(r) \/ Dies(r)
      PROVE  [LoadNext]_loadVars
  BY <1>2 DEF Admit, AnswerFromCache, Dispatch, Fail, Book, BackgroundFails, Dies, LoadNext
<1>3. CASE UNCHANGED accountingVars
  BY <1>3 DEF accountingVars
<1>4. QED
  BY <1>1, <1>2, <1>3 DEF AccountingNext

LEMMA AccountingInvStep ==
  AccountingInv /\ [AccountingNext]_accountingVars => AccountingInv'
<1> SUFFICES ASSUME AccountingInv, [AccountingNext]_accountingVars PROVE AccountingInv'
  OBVIOUS
<1>q. QuotaTypeOK'
  BY StepOfQuota, QuotaTypeStep DEF AccountingInv, AccountingTypeOK
<1>l. LocalInv'
  BY StepOfLoad, LocalNext DEF AccountingInv
<1>t. AccountingTypeOK /\ LocalInv /\ \A q \in Requests : BookedFrom(q)
  BY DEF AccountingInv
<1> SUFFICES BookingInv'
  BY <1>q, <1>l DEF AccountingInv, AccountingTypeOK, LocalInv, BookingInv
<1> USE DEF AccountingTypeOK, QuotaTypeOK, BookingInv
<1>1. ASSUME NEW r \in Requests, Dispatch(r)
      PROVE  BookingInv'
  <2>1. OthersStay(r)
    BY <1>1, <1>t, LocalStep DEF Dispatch
  <2>2. ASSUME NEW q \in Requests PROVE BookedFrom(q)'
    <3>1. CASE q = r
      BY <1>1, <1>t, <3>1 DEF Dispatch, quotaVars, BookedFrom
    <3>2. CASE q # r
      <4>1. stage'[q] = stage[q] /\ reported'[q] = reported[q]
        BY <2>1, <3>2 DEF OthersStay
      <4>2. spending' = spending /\ cached' = cached /\ entry' = entry /\ booked' = booked
        BY <1>1 DEF Dispatch, quotaVars
      <4>3. Billed(q)' = Billed(q)
        BY <4>1, <4>2 DEF Billed
      <4>4. QED
        BY <1>t, <4>1, <4>2, <4>3 DEF BookedFrom
    <3>3. QED
      BY <3>1, <3>2
  <2>3. QED
    BY <1>1, <1>t, <2>2 DEF Dispatch
<1>2. ASSUME NEW r \in Requests, AnswerFromCache(r)
      PROVE  BookingInv'
  <2>1. /\ stage' = stage /\ reported' = reported /\ spending' = spending /\ booked' = booked
        /\ stage[r] = "new" /\ spending[r] = "underway" /\ r \notin Streams
        /\ cached' = cached \cup {r}
        /\ entry' \in [Requests -> Usages \cup {Unreported}]
        /\ \A q \in Requests \ {r} : entry'[q] = entry[q]
    BY <1>2, <1>t DEF AnswerFromCache, Alive, loadVars, quotaVars
  <2>2. ASSUME NEW q \in Requests PROVE BookedFrom(q)'
    <3>1. CASE q = r
      BY <1>t, <2>1, <3>1 DEF BookedFrom
    <3>2. CASE q # r
      <4>1. Billed(q)' = Billed(q)
        BY <2>1, <3>2 DEF Billed
      <4>2. QED
        BY <1>t, <2>1, <3>2, <4>1 DEF BookedFrom
    <3>3. QED
      BY <3>1, <3>2
  <2>3. QED
    BY <1>t, <2>1, <2>2
<1>3. ASSUME NEW r \in Requests, Book(r)
      PROVE  BookingInv'
  <2>1. /\ stage' = stage /\ reported' = reported /\ cached' = cached /\ entry' = entry
        /\ spending' = [spending EXCEPT ![r] = "booked"]
        /\ booked' = [booked EXCEPT ![r] = Billed(r)]
        /\ stage[r] = "served" \/ r \in cached
    BY <1>3 DEF Book, Record, Spends, loadVars
  <2>2. ASSUME NEW q \in Requests PROVE Billed(q)' = Billed(q)
    BY <2>1 DEF Billed
  <2>3. ASSUME NEW q \in Requests PROVE BookedFrom(q)'
    BY <1>t, <2>1, <2>2 DEF BookedFrom
  <2>4. QED
    BY <1>t, <2>1, <2>3, BilledBounds
<1>4. CASE \E r \in Requests : Admit(r) \/ Fail(r) \/ BackgroundFails(r) \/ Dies(r)
  <2>1. PICK r \in Requests : Admit(r) \/ Fail(r) \/ BackgroundFails(r) \/ Dies(r)
    BY <1>4
  <2>2. UNCHANGED <<stage, reported, cached, entry, booked>>
    BY <2>1 DEF Admit, Fail, BackgroundFails, Dies, Crash, loadVars, results
  <2>3. /\ \A q \in Requests \ {r} : spending'[q] = spending[q]
        /\ spending[r] # "booked" /\ spending'[r] # "booked"
    BY <1>t, <2>1 DEF Admit, Fail, BackgroundFails, Dies, CheckSpend, Pass, Downgrade, Refuse,
                      Drop, Spends
  <2>4. ASSUME NEW q \in Requests PROVE Billed(q)' = Billed(q)
    BY <2>2 DEF Billed
  <2>5. ASSUME NEW q \in Requests PROVE BookedFrom(q)'
    BY <1>t, <2>2, <2>3, <2>4 DEF BookedFrom
  <2>6. QED
    BY <1>t, <2>2, <2>5
<1>5. CASE MinutePasses \/ GaugeLost \/ UNCHANGED accountingVars
  <2>1. UNCHANGED <<stage, reported, cached, entry, booked, spending>>
    BY <1>5 DEF MinutePasses, GaugeLost, accountingVars, NextMinute, NextPeriod, LoseGauge,
                loadVars, quotaVars, results
  <2>2. ASSUME NEW q \in Requests PROVE BookedFrom(q)'
    BY <1>t, <2>1 DEF BookedFrom, Billed
  <2>3. QED
    BY <1>t, <2>1, <2>2
<1>6. QED
  BY <1>1, <1>2, <1>3, <1>4, <1>5 DEF AccountingNext

---------------------------------------------------------------------------
(* The state of both ledgers and of every request keeps its shape.         *)
THEOREM AccountingTypeCorrect == AccountingSpec => []AccountingTypeOK
<1>1. AccountingInv => AccountingTypeOK
  BY DEF AccountingInv
<1>2. QED
  BY <1>1, AccountingInvInit, AccountingInvStep, PTL DEF AccountingSpec

(* The tokens that the model's windows and the tenant's quota see of a     *)
(* finished request are the same, but for the two exceptions.              *)
THEOREM LedgersDoAgree == AccountingSpec => []LedgersAgree
<1>1. AccountingInv => LedgersAgree
  <2> SUFFICES ASSUME AccountingInv, NEW r \in Requests
               PROVE  /\ stage[r] \in {"turned_away", "failed"} => moved[r] = 0 /\ booked[r] = 0
                      /\ MaxTpm > 0 /\ spending[r] = "booked" =>
                           /\ r \in cached => moved[r] = 0
                           /\ r \notin cached =>
                                booked[r] - moved[r] =
                                  IF r \in Streams /\ reported[r].prompt = 0
                                    THEN Projected[r] ELSE 0
    BY DEF LedgersAgree
  <2>1. TokensHeld(r) /\ BookedFrom(r)
    BY DEF AccountingInv, LocalInv
  <2>2. stage[r] \in {"turned_away", "failed"} => moved[r] = 0 /\ booked[r] = 0
    BY <2>1 DEF TokensHeld, BookedFrom
  <2>3. ASSUME MaxTpm > 0, spending[r] = "booked", r \in cached PROVE moved[r] = 0
    BY <2>1, <2>3 DEF TokensHeld, BookedFrom, Fresh
  <2>4. ASSUME MaxTpm > 0, spending[r] = "booked", r \notin cached
        PROVE  booked[r] - moved[r] =
                 IF r \in Streams /\ reported[r].prompt = 0 THEN Projected[r] ELSE 0
    <3>1. /\ moved[r] = DispatchedTokens(r, reported[r])
          /\ booked[r] = AccountedTokens(r, reported[r])
      BY <2>1, <2>4 DEF TokensHeld, BookedFrom, Billed
    <3>2. /\ Projected[r] \in Nat
          /\ reported[r].prompt \in Nat /\ reported[r].completion \in Nat
      BY Typed DEF AccountingInv, AccountingTypeOK, LoadTypeOK
    <3>3. CASE r \in Streams /\ reported[r].prompt = 0
      <4>1. /\ moved[r] = reported[r].completion
            /\ booked[r] = Projected[r] + reported[r].completion
        BY <3>1, <3>2, <3>3 DEF DispatchedTokens, AccountedTokens, Or
      <4>2. QED
        BY <3>2, <3>3, <4>1
    <3>4. CASE ~(r \in Streams /\ reported[r].prompt = 0)
      <4>1. moved[r] = booked[r] /\ booked[r] \in Nat
        BY <3>1, <3>2, <3>4 DEF DispatchedTokens, AccountedTokens, Or
      <4>2. QED
        BY <3>4, <4>1
    <3>5. QED
      BY <3>3, <3>4
  <2>5. QED
    BY <2>2, <2>3, <2>4
<1>2. QED
  BY <1>1, AccountingInvInit, AccountingInvStep, PTL DEF AccountingSpec

(* The service spends a tenant's quota as Quota.tla says, so the bound on  *)
(* the overshoot holds of it.                                              *)
THEOREM ServiceKeepsQuota == AccountingSpec => QuotaSpec /\ []QuotaOvershoot
<1>1. AccountingInit => QuotaInit
  BY DEF AccountingInit
<1>2. AccountingInv /\ [AccountingNext]_accountingVars => [QuotaNext]_quotaVars
  BY StepOfQuota DEF AccountingInv
<1>3. AccountingSpec => QuotaSpec
  BY <1>1, <1>2, AccountingInvInit, AccountingInvStep, PTL DEF AccountingSpec, QuotaSpec
<1>4. QED
  BY <1>3, SpendOvershootIsBounded, PTL

(* It uses the load tracker as LoadTracker.tla says, so the gauge is       *)
(* honest and the overshoot of the model bounded while it serves.          *)
THEOREM ServiceKeepsLoad == AccountingSpec => LoadSpec /\ []GaugeHonest /\ []LoadOvershoot
<1>1. AccountingInit => LoadInit
  BY DEF AccountingInit
<1>2. AccountingSpec => LoadSpec
  BY <1>1, StepOfLoad, PTL DEF AccountingSpec, LoadSpec
<1>3. QED
  BY <1>2, GaugeIsHonest, LoadOvershootIsBounded, PTL
=============================================================================
