---------------------------- MODULE GatewayProofs ----------------------------
(***************************************************************************)
(* What RateLimiter.tla and Gateway.tla promise for every set of requests, *)
(* models, chains, limits and token estimates and every combination of     *)
(* faults.  The limiter by itself comes first.  Then the service is shown  *)
(* to be a correct user of it, so what is proved of the limiter holds of   *)
(* the service; a slot is held while its request is served, the gauges of  *)
(* the models count the requests on them, and the whole is a reservation   *)
(* as Reservation.tla states it.                                           *)
(***************************************************************************)
EXTENDS Gateway, Sums

---------------------------------------------------------------------------
(***************************************************************************)
(* The limiter                                                             *)
(***************************************************************************)
USE DEF Over, ReleaseConcurrency

(* What TypeOK says of the single steps.  That the gauge never exceeds the *)
(* number of requests takes the exact gauge, see TypeCorrect.              *)
Typed ==
    /\ pc \in [Requests -> Stages]
    /\ inflight \in Nat
    /\ MaxConcurrency = 0 => inflight = 0
    /\ window \in Nat \ {0}
    /\ rpmUsed \in Int
    /\ tpmUsed \in Int
    /\ freed \subseteq Requests
    /\ charged \in [Requests -> Actual \cup {NotYet, 0}]
    /\ rpmTaken \in [Requests -> Nat]
    /\ rpmUndone \in [Requests -> Nat]
    /\ tpmTaken \in [Requests -> Nat]
    /\ tpmForeign \in Int

LEMMA TypeInit == Init => Typed
  BY DEF Init, Typed, Stages, NotYet

LEMMA TypeStep == Typed /\ [Next]_limiterVars => Typed'
<1> SUFFICES ASSUME Typed, [Next]_limiterVars PROVE Typed'
  OBVIOUS
<1> USE TokensAssumption, LimitsAssumption
    DEF Typed, Stages, Rejecting, Goto, history
<1>1. CASE Roll
  BY <1>1 DEF Roll
<1>2. ASSUME NEW r \in Requests, CheckAndConsume(r) PROVE Typed'
  <2>1. CASE TakeSlot(r)
    BY <2>1 DEF TakeSlot
  <2>2. CASE TakeRequest(r)
    BY <2>2 DEF TakeRequest
  <2>3. CASE TakeTokens(r)
    BY <2>3 DEF TakeTokens
  <2>4. CASE UndoTokens(r)
    BY <2>4 DEF UndoTokens, MoveTokens
  <2>5. CASE UndoRequest(r)
    BY <2>5 DEF UndoRequest
  <2>6. CASE UndoSlot(r)
    BY <2>6 DEF UndoSlot, Decremented
  <2>7. QED
    BY <1>2, <2>1, <2>2, <2>3, <2>4, <2>5, <2>6 DEF CheckAndConsume
<1>3. ASSUME NEW r \in Requests, Settle(r) PROVE Typed'
  <2>1. CASE Release(r)
    BY <2>1 DEF Release, Decremented
  <2>2. ASSUME NEW actual \in Actual \cup {0}, ReconcileTokens(r, actual)
        PROVE  Typed'
    BY <2>2 DEF ReconcileTokens, MoveTokens
  <2>3. QED
    BY <1>3, <2>1, <2>2 DEF Settle
<1>4. CASE UNCHANGED limiterVars
  BY <1>4 DEF limiterVars
<1>5. QED
  BY <1>1, <1>2, <1>3, <1>4 DEF Next

---------------------------------------------------------------------------
(***************************************************************************)
(* The concurrency limit.  It is not inductive: a check compares its limit *)
(* with the gauge, so the gauge must count every outstanding increment.    *)
(***************************************************************************)
FreedWereAdmitted == \A r \in freed : pc[r] = "admitted"

ConcurrencyInv == Typed /\ FreedWereAdmitted /\ GaugeExact /\ ConcurrencyLimit

LEMMA SubsetCardinality ==
  ASSUME NEW T, IsFiniteSet(T), NEW S \in SUBSET T
  PROVE  /\ IsFiniteSet(S)
         /\ Cardinality(S) \in Nat
         /\ Cardinality(T) \in Nat
         /\ Cardinality(S) <= Cardinality(T)
  BY FS_Subset, FS_CardinalityType

(* The sets of requests the limiter's counters are compared with.          *)
LEMMA RequestSetsFinite ==
  ASSUME NEW S \in SUBSET Requests
  PROVE  IsFiniteSet(S) /\ Cardinality(S) \in Nat
  BY RequestsAssumption, FS_Subset, FS_CardinalityType

LEMMA ConcurrencyInit == Init => ConcurrencyInv
<1> SUFFICES ASSUME Init PROVE ConcurrencyInv
  OBVIOUS
<1>1. Typed
  BY DEF Init, Typed, Stages, NotYet
<1>2. SlotUnits = {} /\ PassedConcurrency = {}
  BY DEF Init, SlotUnits, PassedConcurrency
<1>3. QED
  BY <1>1, <1>2, FS_EmptySet, LimitsAssumption
     DEF Init, ConcurrencyInv, FreedWereAdmitted, GaugeExact, ConcurrencyLimit

(* A step that leaves both sets and the gauge alone.                       *)
LEMMA ConcurrencyFrame ==
  ASSUME ConcurrencyInv, SlotUnits' = SlotUnits, inflight' = inflight,
         PassedConcurrency' \subseteq PassedConcurrency
  PROVE  GaugeExact' /\ ConcurrencyLimit'
<1>1. PassedConcurrency \subseteq Requests
  BY DEF PassedConcurrency
<1>2. Cardinality(PassedConcurrency') <= Cardinality(PassedConcurrency)
  BY <1>1, RequestSetsFinite, SubsetCardinality
<1>3. /\ Cardinality(PassedConcurrency) \in Nat
      /\ Cardinality(PassedConcurrency') \in Nat
  BY <1>1, RequestSetsFinite
<1>4. QED
  BY <1>2, <1>3, LimitsAssumption
     DEF ConcurrencyInv, GaugeExact, ConcurrencyLimit

(* A step that gives one unit back to the gauge.                           *)
LEMMA ConcurrencyRelease ==
  ASSUME ConcurrencyInv, NEW r \in SlotUnits, SlotUnits' = SlotUnits \ {r},
         inflight' = IF MaxConcurrency = 0 THEN inflight ELSE Decremented(inflight),
         PassedConcurrency' \subseteq PassedConcurrency
  PROVE  GaugeExact' /\ ConcurrencyLimit'
<1>1. PassedConcurrency \subseteq Requests /\ SlotUnits \subseteq Requests
  BY DEF PassedConcurrency, SlotUnits
<1>2. Cardinality(PassedConcurrency') <= Cardinality(PassedConcurrency)
  BY <1>1, RequestSetsFinite, SubsetCardinality
<1>3. /\ Cardinality(PassedConcurrency) \in Nat
      /\ Cardinality(PassedConcurrency') \in Nat
  BY <1>1, RequestSetsFinite
<1>4. /\ IsFiniteSet(SlotUnits)
      /\ Cardinality(SlotUnits) \in Nat
      /\ Cardinality(SlotUnits') = Cardinality(SlotUnits) - 1
      /\ Cardinality(SlotUnits') \in Nat
  BY <1>1, RequestSetsFinite, FS_RemoveElement
<1>5. QED
  BY <1>2, <1>3, <1>4, LimitsAssumption
     DEF ConcurrencyInv, GaugeExact, ConcurrencyLimit, Decremented

LEMMA ConcurrencyStep == ConcurrencyInv /\ [Next]_limiterVars => ConcurrencyInv'
<1> SUFFICES ASSUME ConcurrencyInv, [Next]_limiterVars PROVE ConcurrencyInv'
  OBVIOUS
<1>t. Typed'
  BY TypeStep DEF ConcurrencyInv
<1>1. CASE Roll
  <2>1. SlotUnits' = SlotUnits /\ PassedConcurrency' = PassedConcurrency
        /\ inflight' = inflight /\ FreedWereAdmitted'
    BY <1>1 DEF Roll, SlotUnits, PassedConcurrency, ConcurrencyInv, FreedWereAdmitted
  <2>2. QED
    BY <2>1, <1>t, ConcurrencyFrame DEF ConcurrencyInv
<1>2. ASSUME NEW r \in Requests, TakeSlot(r) PROVE ConcurrencyInv'
  <2> USE DEF ConcurrencyInv, Typed, TakeSlot, Goto, history
  <2>1. FreedWereAdmitted' /\ r \notin freed
    BY <1>2 DEF FreedWereAdmitted
  <2>2. /\ r \notin SlotUnits
        /\ SlotUnits' = SlotUnits \cup {r}
        /\ PassedConcurrency' \subseteq SlotUnits'
        /\ SlotUnits' \subseteq Requests
    BY <1>2, <2>1 DEF SlotUnits, PassedConcurrency, FreedWereAdmitted
  <2>3. /\ Cardinality(SlotUnits') = Cardinality(SlotUnits) + 1
        /\ Cardinality(SlotUnits) \in Nat
        /\ Cardinality(PassedConcurrency') \in Nat
        /\ Cardinality(PassedConcurrency') <= Cardinality(SlotUnits')
    BY <2>2, RequestSetsFinite, FS_AddElement, SubsetCardinality DEF SlotUnits
  <2>4. CASE MaxConcurrency = 0
    BY <2>1, <2>4, <1>t DEF GaugeExact, ConcurrencyLimit
  <2>5. CASE MaxConcurrency # 0 /\ inflight + 1 <= MaxConcurrency
    BY <1>2, <2>1, <2>3, <2>5, <1>t, LimitsAssumption DEF GaugeExact, ConcurrencyLimit
  <2>6. CASE MaxConcurrency # 0 /\ inflight + 1 > MaxConcurrency
    <3>1. PassedConcurrency' = PassedConcurrency
      BY <1>2, <2>6, <2>1 DEF PassedConcurrency
    <3>2. GaugeExact'
      BY <1>2, <2>3, <2>6 DEF GaugeExact
    <3>3. ConcurrencyLimit'
      BY <3>1 DEF ConcurrencyLimit
    <3>4. QED
      BY <3>2, <3>3, <2>1, <1>t
  <2>7. QED
    BY <2>4, <2>5, <2>6, LimitsAssumption
<1>3. ASSUME NEW r \in Requests,
             TakeRequest(r) \/ TakeTokens(r) \/ UndoTokens(r) \/ UndoRequest(r)
      PROVE  ConcurrencyInv'
  <2>1. /\ SlotUnits' = SlotUnits
        /\ inflight' = inflight
        /\ PassedConcurrency' \subseteq PassedConcurrency
        /\ FreedWereAdmitted'
    BY <1>3 DEF ConcurrencyInv, Typed, TakeRequest, TakeTokens, UndoTokens, UndoRequest,
                Goto, SlotUnits, PassedConcurrency, FreedWereAdmitted
  <2>2. QED
    BY <2>1, <1>t, ConcurrencyFrame DEF ConcurrencyInv
<1>4. ASSUME NEW r \in Requests, UndoSlot(r) \/ (r \notin freed /\ Release(r))
      PROVE  ConcurrencyInv'
  <2>1. /\ r \in SlotUnits
        /\ SlotUnits' = SlotUnits \ {r}
        /\ PassedConcurrency' \subseteq PassedConcurrency
        /\ FreedWereAdmitted'
    BY <1>4 DEF ConcurrencyInv, Typed, UndoSlot, Release, Goto,
                SlotUnits, PassedConcurrency, FreedWereAdmitted
  <2>2. inflight' = IF MaxConcurrency = 0 THEN inflight ELSE Decremented(inflight)
    BY <1>4 DEF UndoSlot, Release
  <2>3. QED
    BY <2>1, <2>2, <1>t, ConcurrencyRelease DEF ConcurrencyInv
<1>5. ASSUME NEW r \in Requests, NEW actual \in Actual \cup {0},
             ReconcileTokens(r, actual)
      PROVE  ConcurrencyInv'
  <2>1. SlotUnits' = SlotUnits /\ PassedConcurrency' = PassedConcurrency
        /\ inflight' = inflight /\ FreedWereAdmitted'
    BY <1>5 DEF ReconcileTokens, SlotUnits, PassedConcurrency, ConcurrencyInv,
                FreedWereAdmitted
  <2>2. QED
    BY <2>1, <1>t, ConcurrencyFrame DEF ConcurrencyInv
<1>6. CASE UNCHANGED limiterVars
  <2>1. SlotUnits' = SlotUnits /\ PassedConcurrency' = PassedConcurrency
        /\ inflight' = inflight /\ FreedWereAdmitted'
    BY <1>6 DEF limiterVars, SlotUnits, PassedConcurrency, ConcurrencyInv,
                FreedWereAdmitted
  <2>2. QED
    BY <2>1, <1>t, ConcurrencyFrame DEF ConcurrencyInv
<1>7. QED
  BY <1>1, <1>2, <1>3, <1>4, <1>5, <1>6 DEF Next, CheckAndConsume, Settle

LEMMA ConcurrencyTypes == ConcurrencyInv => TypeOK
<1> SUFFICES ASSUME ConcurrencyInv PROVE TypeOK
  OBVIOUS
<1>1. Typed /\ GaugeExact
  BY DEF ConcurrencyInv
<1>2. SlotUnits \in SUBSET Requests
  BY DEF SlotUnits
<1>3. /\ Cardinality(SlotUnits) \in Nat /\ Cardinality(Requests) \in Nat
      /\ Cardinality(SlotUnits) <= Cardinality(Requests)
  BY <1>2, SubsetCardinality, RequestsAssumption
<1>4. inflight \in 0..Cardinality(Requests)
  BY <1>1, <1>3, LimitsAssumption DEF Typed, GaugeExact
<1>5. QED
  BY <1>1, <1>4 DEF Typed, TypeOK

(* The type invariant: every counter keeps its shape, and the gauge never  *)
(* exceeds the number of requests, which takes more than its type: that    *)
(* every increment is undone by its own request.                           *)
THEOREM TypeCorrect == Spec => []TypeOK
  BY ConcurrencyTypes, ConcurrencyInit, ConcurrencyStep, PTL DEF Spec

(* The gauge counts exactly the outstanding increments: incr_gauge's clamp *)
(* at zero never hides a missing or an extra decrement.                    *)
THEOREM GaugeCorrect == Spec => []GaugeExact
<1>1. ConcurrencyInv => GaugeExact
  BY DEF ConcurrencyInv
<1>2. QED
  BY <1>1, ConcurrencyInit, ConcurrencyStep, PTL DEF Spec

(* At most max_concurrency of a tenant's requests hold a slot past the     *)
(* concurrency check, for every number of requests and replicas.           *)
THEOREM ConcurrencyCorrect == Spec => []ConcurrencyLimit
<1>1. ConcurrencyInv => ConcurrencyLimit
  BY DEF ConcurrencyInv
<1>2. QED
  BY <1>1, ConcurrencyInit, ConcurrencyStep, PTL DEF Spec

---------------------------------------------------------------------------
(***************************************************************************)
(* The request budget.  The counter of a minute is the number of requests  *)
(* that moved it up in this minute less the number that moved it down; the *)
(* latter are either its own rejected requests or strays from an earlier   *)
(* minute, and a request moves it at most once each way.                   *)
(***************************************************************************)
Taken == {r \in Requests : rpmTaken[r] = window}
Undone == {r \in Requests : rpmUndone[r] = window}

RpmCounter == rpmUsed = Cardinality(Taken) - Cardinality(Undone)

MovesOnce ==
  \A r \in Requests :
    /\ rpmTaken[r] <= window
    /\ rpmUndone[r] <= window
    /\ pc[r] \in {"new", "rpm"} => rpmTaken[r] = 0
    /\ pc[r] \in {"tpm", "undo_tpm", "undo_rpm"} => rpmTaken[r] # 0
    /\ pc[r] \notin {"undo_slot", "rejected"} => rpmUndone[r] = 0
    /\ pc[r] \in {"undo_slot", "rejected"} /\ rpmTaken[r] # 0 => rpmTaken[r] <= rpmUndone[r]

RpmInv == Typed /\ (Rpm # 0 => RpmCounter /\ MovesOnce /\ RpmBudget)

LEMMA DifferenceCardinality ==
  ASSUME NEW T \in SUBSET Requests, NEW U \in SUBSET Requests
  PROVE  /\ Cardinality(T \ U) = Cardinality(T) - Cardinality(U) + Cardinality(U \ T)
         /\ Cardinality(T \ U) \in Nat
         /\ Cardinality(U \ T) \in Nat
<1>1. IsFiniteSet(T) /\ IsFiniteSet(U) /\ IsFiniteSet(T \cap U)
  BY RequestSetsFinite
<1>2. /\ Cardinality(T) \in Nat /\ Cardinality(U) \in Nat
      /\ Cardinality(T \cap U) \in Nat
      /\ Cardinality(T \ U) \in Nat
      /\ Cardinality(U \ T) \in Nat
  BY RequestSetsFinite
<1>3. Cardinality(T \ U) = Cardinality(T) - Cardinality(T \cap U)
  BY <1>1, FS_Difference
<1>4. U \cap T = T \cap U
  OBVIOUS
<1>5. Cardinality(U \ T) = Cardinality(U) - Cardinality(T \cap U)
  BY <1>1, <1>4, FS_Difference, Zenon
<1>6. QED
  BY <1>2, <1>3, <1>5

LEMMA RpmInit == Init => RpmInv
<1> SUFFICES ASSUME Init PROVE RpmInv
  OBVIOUS
<1>1. Taken = {} /\ Undone = {} /\ PassedRpm = {} /\ StrayUndos = {}
  BY DEF Init, Taken, Undone, PassedRpm, StrayUndos
<1>2. MovesOnce
  BY DEF Init, MovesOnce
<1>3. QED
  BY <1>1, <1>2, TypeInit, FS_EmptySet, LimitsAssumption
     DEF Init, RpmInv, RpmCounter, RpmBudget

(* A step that moves no counter and lets nobody through the RPM check.     *)
LEMMA RpmFrame ==
  ASSUME RpmInv, Rpm # 0, rpmUsed' = rpmUsed,
         UNCHANGED <<window, rpmTaken, rpmUndone>>,
         PassedRpm' \subseteq PassedRpm
  PROVE  RpmCounter' /\ RpmBudget'
<1>1. Taken' = Taken /\ Undone' = Undone /\ StrayUndos' = StrayUndos
  BY DEF Taken, Undone, StrayUndos
<1>2. PassedRpm \subseteq Requests /\ StrayUndos \subseteq Requests
  BY DEF PassedRpm, StrayUndos
<1>3. /\ Cardinality(PassedRpm') <= Cardinality(PassedRpm)
      /\ Cardinality(PassedRpm) \in Nat
      /\ Cardinality(PassedRpm') \in Nat
      /\ Cardinality(StrayUndos) \in Nat
  BY <1>2, RequestSetsFinite, SubsetCardinality
<1>4. QED
  BY <1>1, <1>3, LimitsAssumption DEF RpmInv, RpmCounter, RpmBudget

LEMMA RpmStep == RpmInv /\ [Next]_limiterVars => RpmInv'
<1> SUFFICES ASSUME RpmInv, [Next]_limiterVars PROVE RpmInv'
  OBVIOUS
<1>t. Typed'
  BY TypeStep DEF RpmInv
<1>0. CASE Rpm = 0
  BY <1>0, <1>t DEF RpmInv
<1> SUFFICES ASSUME Rpm # 0 PROVE RpmInv'
  BY <1>0
<1>1. CASE Roll
  <2>1. MovesOnce'
    BY <1>1 DEF Roll, RpmInv, Typed, MovesOnce
  <2>2. Taken' = {} /\ Undone' = {} /\ PassedRpm' = {} /\ StrayUndos' = {}
    BY <1>1 DEF Roll, RpmInv, Typed, MovesOnce, Taken, Undone, PassedRpm, StrayUndos
  <2>3. RpmCounter' /\ RpmBudget'
    BY <1>1, <2>2, FS_EmptySet, LimitsAssumption DEF Roll, RpmCounter, RpmBudget
  <2>4. QED
    BY <2>1, <2>3, <1>t DEF RpmInv
<1>2. ASSUME NEW r \in Requests, TakeRequest(r) PROVE RpmInv'
  <2> USE DEF Typed, TakeRequest, Goto
  <2>1. MovesOnce'
    BY <1>2 DEF RpmInv, MovesOnce
  <2>2. /\ r \notin Taken
        /\ Taken' = Taken \cup {r}
        /\ Undone' = Undone
        /\ StrayUndos' = StrayUndos
        /\ Taken \subseteq Requests /\ Undone \subseteq Requests
        /\ PassedRpm \subseteq Requests /\ StrayUndos \subseteq Requests
    BY <1>2 DEF RpmInv, MovesOnce, Taken, Undone, StrayUndos, PassedRpm
  <2>3. /\ Cardinality(Taken') = Cardinality(Taken) + 1
        /\ Cardinality(Taken) \in Nat /\ Cardinality(Undone) \in Nat
    BY <2>2, RequestSetsFinite, FS_AddElement
  <2>4. RpmCounter'
    BY <1>2, <2>2, <2>3 DEF RpmInv, RpmCounter
  <2>5. CASE rpmUsed + 1 > Rpm
    <3>1. PassedRpm' = PassedRpm
      BY <1>2, <2>5 DEF RpmInv, PassedRpm
    <3>2. RpmBudget'
      BY <3>1, <2>2 DEF RpmInv, RpmBudget
    <3>3. QED
      BY <3>2, <2>1, <2>4, <1>t DEF RpmInv
  <2>6. CASE rpmUsed + 1 <= Rpm
    <3>1. PassedRpm' \subseteq Taken' \ Undone' /\ Undone' \ Taken' = StrayUndos'
      BY <2>1, <1>t DEF MovesOnce, PassedRpm, Taken, Undone, StrayUndos
    <3>2. /\ Cardinality(Taken' \ Undone')
               = Cardinality(Taken') - Cardinality(Undone') + Cardinality(Undone' \ Taken')
          /\ Cardinality(Taken' \ Undone') \in Nat
      BY <2>2, DifferenceCardinality
    <3>3. /\ Cardinality(PassedRpm') <= Cardinality(Taken' \ Undone')
          /\ Cardinality(PassedRpm') \in Nat
          /\ Cardinality(StrayUndos') \in Nat
      BY <3>1, <2>2, RequestSetsFinite, SubsetCardinality
    <3>4. rpmUsed' <= Rpm
      BY <1>2, <2>6
    <3>5. RpmBudget'
      BY <2>2, <2>3, <2>4, <3>1, <3>2, <3>3, <3>4, LimitsAssumption
         DEF RpmCounter, RpmBudget
    <3>6. QED
      BY <3>5, <2>1, <2>4, <1>t DEF RpmInv
  <2>7. QED
    BY <2>5, <2>6, LimitsAssumption DEF RpmInv
<1>3. ASSUME NEW r \in Requests, UndoRequest(r) PROVE RpmInv'
  <2> USE DEF Typed, UndoRequest, Goto
  <2>1. MovesOnce'
    BY <1>3 DEF RpmInv, MovesOnce
  <2>2. /\ r \notin Undone
        /\ Undone' = Undone \cup {r}
        /\ Taken' = Taken
        /\ StrayUndos \subseteq StrayUndos'
        /\ PassedRpm' = PassedRpm
        /\ Taken \subseteq Requests /\ Undone \subseteq Requests
        /\ PassedRpm \subseteq Requests /\ StrayUndos' \subseteq Requests
    BY <1>3 DEF RpmInv, MovesOnce, Taken, Undone, StrayUndos, PassedRpm
  <2>3. /\ Cardinality(Undone') = Cardinality(Undone) + 1
        /\ Cardinality(Taken) \in Nat /\ Cardinality(Undone) \in Nat
        /\ Cardinality(PassedRpm) \in Nat
        /\ Cardinality(StrayUndos) \in Nat
        /\ Cardinality(StrayUndos') \in Nat
        /\ Cardinality(StrayUndos) <= Cardinality(StrayUndos')
    BY <2>2, RequestSetsFinite, FS_AddElement, SubsetCardinality
  <2>4. RpmCounter'
    BY <1>3, <2>2, <2>3 DEF RpmInv, RpmCounter
  <2>5. RpmBudget'
    BY <2>2, <2>3, LimitsAssumption DEF RpmInv, RpmBudget
  <2>6. QED
    BY <2>1, <2>4, <2>5, <1>t DEF RpmInv
<1>4. ASSUME NEW r \in Requests,
             \/ TakeSlot(r) \/ TakeTokens(r) \/ UndoTokens(r) \/ UndoSlot(r)
             \/ Release(r) \/ \E actual \in Actual \cup {0} : ReconcileTokens(r, actual)
      PROVE  RpmInv'
  <2> USE DEF Typed, TakeSlot, TakeTokens, UndoTokens, UndoSlot, Release,
              ReconcileTokens, MoveTokens, Goto, history
  <2>1. /\ rpmUsed' = rpmUsed
        /\ UNCHANGED <<window, rpmTaken, rpmUndone>>
    BY <1>4
  <2>2. PassedRpm' \subseteq PassedRpm
    BY <1>4, <2>1 DEF RpmInv, MovesOnce, PassedRpm
  <2>3. MovesOnce'
    BY <1>4, <2>1 DEF RpmInv, MovesOnce
  <2>4. QED
    BY <2>1, <2>2, <2>3, <1>t, RpmFrame DEF RpmInv
<1>5. CASE UNCHANGED limiterVars
  <2>1. /\ rpmUsed' = rpmUsed
        /\ UNCHANGED <<window, rpmTaken, rpmUndone, pc>>
    BY <1>5 DEF limiterVars, history
  <2>2. PassedRpm' = PassedRpm /\ MovesOnce'
    BY <2>1 DEF PassedRpm, RpmInv, MovesOnce
  <2>3. QED
    BY <2>1, <2>2, <1>t, RpmFrame DEF RpmInv
<1>6. QED
  BY <1>1, <1>2, <1>3, <1>4, <1>5 DEF Next, CheckAndConsume, Settle

(* A minute lets through at most rpm requests more than the rollbacks that *)
(* strayed into it: the only way check_and_consume can exceed its limit.   *)
THEOREM RpmBudgetCorrect == Spec => []RpmBudget
<1>1. RpmInv => RpmBudget
  BY DEF RpmInv, RpmBudget
<1>2. QED
  BY <1>1, RpmInit, RpmStep, PTL DEF Spec

(* The overshoot is corrected: with no rejection in progress the counter   *)
(* is the number of requests this minute let through, less the strays.     *)
THEOREM RpmOvershootCorrected == Spec => []RpmCorrected
<1>1. ASSUME RpmInv PROVE RpmCorrected
  <2> SUFFICES ASSUME Rpm # 0, \A r \in Requests : pc[r] \notin Rejecting
               PROVE  rpmUsed = Cardinality(PassedRpm) - Cardinality(StrayUndos)
    BY DEF RpmCorrected
  <2>1. Taken \subseteq Requests /\ Undone \subseteq Requests
    BY DEF Taken, Undone
  <2>2. Taken \ Undone = PassedRpm /\ Undone \ Taken = StrayUndos
    BY <1>1 DEF RpmInv, Typed, Stages, Rejecting, MovesOnce, Taken, Undone,
                PassedRpm, StrayUndos
  <2>3. /\ Cardinality(Taken) \in Nat /\ Cardinality(Undone) \in Nat
        /\ Cardinality(PassedRpm) = Cardinality(Taken) - Cardinality(Undone)
                                      + Cardinality(StrayUndos)
        /\ Cardinality(StrayUndos) \in Nat
    BY <2>1, <2>2, DifferenceCardinality, RequestSetsFinite
  <2>4. QED
    BY <1>1, <2>3 DEF RpmInv, RpmCounter
<1>2. QED
  BY <1>1, RpmInit, RpmStep, PTL DEF Spec

---------------------------------------------------------------------------
(***************************************************************************)
(* The token budget.  A request weighs in the minute that reserved its     *)
(* tokens from the moment they are added until they are rolled back: the   *)
(* counter is the weight of these requests and what was moved on behalf of *)
(* requests of other minutes.                                              *)
(***************************************************************************)
Weight == [r \in Requests |-> Charge(r)]

Weighing ==
  {r \in Requests : pc[r] \in {"admitted", "undo_tpm"} /\ tpmTaken[r] = window}

TpmCounter == tpmUsed = SumOf(Weight, Weighing) + tpmForeign

ReservesOnce ==
  \A r \in Requests :
    /\ tpmTaken[r] <= window
    /\ pc[r] \in {"new", "rpm", "tpm"} => tpmTaken[r] = 0
    /\ pc[r] # "admitted" => charged[r] = NotYet

TpmInv == Typed /\ (Tpm # 0 => TpmCounter /\ ReservesOnce)

LEMMA WeightType == Typed => Weight \in [Requests -> Nat]
<1> SUFFICES ASSUME Typed PROVE Weight \in [Requests -> Nat]
  OBVIOUS
<1>1. ASSUME NEW r \in Requests PROVE Charge(r) \in Nat
  <2>1. charged[r] \in Actual \cup {NotYet, 0} /\ Projected[r] \in Nat
    BY TokensAssumption DEF Typed
  <2>2. charged[r] = NotYet \/ charged[r] \in Actual \/ charged[r] = 0
    BY <2>1
  <2>3. charged[r] # NotYet => charged[r] \in Nat
    <3>1. Actual \subseteq Nat /\ 0 \in Nat
      BY TokensAssumption
    <3>2. QED
      BY <2>2, <3>1, Zenon
  <2>4. QED
    BY <2>1, <2>3 DEF Charge
<1>2. QED
  BY <1>1 DEF Weight

(* The sum in the properties is one of those that Sums is about.           *)
LEMMA ChargesAreSummed ==
  ASSUME NEW S \in SUBSET Requests
  PROVE  MapThenSumSet(Charge, S) = SumOf(Weight, S)
<1> DEFINE Fits(g) ==
       g = [T \in SUBSET S |-> IF T = {} THEN 0 ELSE Charge(Chosen(T)) + g[T \ {Chosen(T)}]]
<1>1. ASSUME NEW g PROVE Fits(g) <=> PartialSums(g, Weight, S)
  <2>1. \A T \in SUBSET S : T # {} => Weight[Chosen(T)] = Charge(Chosen(T))
    BY ChosenIn DEF Weight
  <2>2. [T \in SUBSET S |-> IF T = {} THEN 0 ELSE Charge(Chosen(T)) + g[T \ {Chosen(T)}]]
          = [T \in SUBSET S |-> IF T = {} THEN 0 ELSE Weight[Chosen(T)] + g[T \ {Chosen(T)}]]
    BY <2>1
  <2>3. QED
    BY <2>2 DEF PartialSums
<1>2. IsFiniteSet(S)
  BY RequestSetsFinite
<1>3. Fits(CHOOSE g : Fits(g))
  <2>1. \E g : Fits(g)
    BY <1>1, <1>2, PartialSumsExist
  <2> HIDE DEF Fits
  <2>2. QED
    BY <2>1
<1>4. MapThenSumSet(Charge, S) = (CHOOSE g : Fits(g))[S]
  BY DEF MapThenSumSet, MapThenFoldSet, Chosen
<1>5. QED
  <2> HIDE DEF Fits
  <2>1. QED
    BY <1>1, <1>2, <1>3, <1>4, SumIsPartial

LEMMA TpmInit == Init => TpmInv
<1> SUFFICES ASSUME Init PROVE TpmInv
  OBVIOUS
<1>1. Weighing = {} /\ ReservesOnce
  BY DEF Init, Weighing, ReservesOnce
<1>2. QED
  BY <1>1, TypeInit, SumEmpty DEF Init, TpmInv, TpmCounter

(* A step that moves no tokens.                                            *)
LEMMA TpmFrame ==
  ASSUME TpmInv, Tpm # 0, Weighing' = Weighing,
         \A r \in Weighing : Weight'[r] = Weight[r],
         UNCHANGED <<tpmUsed, tpmForeign>>
  PROVE  TpmCounter'
<1>1. IsFiniteSet(Weighing)
  BY RequestSetsFinite DEF Weighing
<1>2. \A r \in Weighing : Weight[r] \in Int
  BY WeightType DEF TpmInv, Weighing
<1>3. SumOf(Weight, Weighing) = SumOf(Weight', Weighing)
  BY <1>1, <1>2, SumSame
<1>4. QED
  BY <1>3 DEF TpmInv, TpmCounter

(* A step of one request, which weighed before, or does after it, or both. *)
LEMMA TpmMoves ==
  ASSUME Typed, Typed', NEW r \in Requests,
         Weighing' \ {r} = Weighing \ {r},
         \A q \in Requests \ {r} : Weight'[q] = Weight[q]
  PROVE  SumOf(Weight, Weighing)' =
            SumOf(Weight, Weighing)
              - (IF r \in Weighing THEN Weight[r] ELSE 0)
              + (IF r \in Weighing' THEN Weight'[r] ELSE 0)
<1> DEFINE Others == Weighing \ {r}
<1>1. /\ Weighing \in SUBSET Requests /\ IsFiniteSet(Weighing)
      /\ Weighing' \in SUBSET Requests /\ IsFiniteSet(Weighing')
      /\ Others \in SUBSET Requests /\ IsFiniteSet(Others)
  <2>1. Weighing \in SUBSET Requests /\ Weighing' \in SUBSET Requests
    BY DEF Weighing
  <2>2. QED
    BY <2>1, RequestSetsFinite
<1>2. \A q \in Requests : Weight[q] \in Int /\ Weight'[q] \in Int
  <2>1. Weight \in [Requests -> Nat]
    BY WeightType
  <2>2. (Weight \in [Requests -> Nat])'
    BY WeightType, PTL
  <2>3. QED
    BY <2>1, <2>2
<1>3. SumOf(Weight, Weighing) =
        SumOf(Weight, Others) + (IF r \in Weighing THEN Weight[r] ELSE 0)
  <2>1. CASE r \in Weighing
    <3>1. SumOf(Weight, Weighing) = Weight[r] + SumOf(Weight, Others)
      BY <1>1, <1>2, <2>1, SumTakeOut
    <3>2. SumOf(Weight, Others) \in Int
      BY <1>1, <1>2, SumInt
    <3>3. QED
      BY <1>2, <2>1, <3>1, <3>2
  <2>2. CASE r \notin Weighing
    <3>1. Others = Weighing
      BY <2>2
    <3>2. SumOf(Weight, Others) \in Int
      BY <1>1, <1>2, SumInt
    <3> HIDE DEF Others
    <3>3. SumOf(Weight, Weighing) = SumOf(Weight, Others)
      BY <3>1
    <3>4. QED
      BY <2>2, <3>2, <3>3
  <2>3. QED
    BY <2>1, <2>2
<1>4. SumOf(Weight', Weighing') =
        SumOf(Weight', Others) + (IF r \in Weighing' THEN Weight'[r] ELSE 0)
  <2>1. CASE r \in Weighing'
    <3>1. SumOf(Weight', Weighing') = Weight'[r] + SumOf(Weight', Others)
      <4>1. SumOf(Weight', Weighing') = Weight'[r] + SumOf(Weight', Weighing' \ {r})
        BY <1>1, <1>2, <2>1, SumTakeOut
      <4>2. Others = Weighing' \ {r}
        OBVIOUS
      <4> HIDE DEF Others
      <4>3. QED
        BY <4>1, <4>2
    <3>2. SumOf(Weight', Others) \in Int
      BY <1>1, <1>2, SumInt
    <3>3. QED
      BY <1>2, <2>1, <3>1, <3>2
  <2>2. CASE r \notin Weighing'
    <3>1. Others = Weighing'
      BY <2>2
    <3>2. SumOf(Weight', Others) \in Int
      BY <1>1, <1>2, SumInt
    <3> HIDE DEF Others
    <3>3. SumOf(Weight', Weighing') = SumOf(Weight', Others)
      BY <3>1
    <3>4. QED
      BY <2>2, <3>2, <3>3
  <2>3. QED
    BY <2>1, <2>2
<1>5. SumOf(Weight, Others) = SumOf(Weight', Others)
  BY <1>1, <1>2, SumSame
<1>6. SumOf(Weight, Others) \in Int
  BY <1>1, <1>2, SumInt
<1>7. QED
  BY <1>2, <1>3, <1>4, <1>5, <1>6

LEMMA TpmStep == TpmInv /\ [Next]_limiterVars => TpmInv'
<1> SUFFICES ASSUME TpmInv, [Next]_limiterVars PROVE TpmInv'
  OBVIOUS
<1>t. Typed /\ Typed'
  BY TypeStep DEF TpmInv
<1>0. CASE Tpm = 0
  BY <1>0, <1>t DEF TpmInv
<1> SUFFICES ASSUME Tpm # 0 PROVE TpmInv'
  BY <1>0
<1> DEFINE total == SumOf(Weight, Weighing)
<1>n. total \in Int /\ tpmForeign \in Int /\ tpmUsed = total + tpmForeign
  <2>1. IsFiniteSet(Weighing)
    BY RequestSetsFinite DEF Weighing
  <2>2. \A r \in Weighing : Weight[r] \in Int
    BY <1>t, WeightType DEF Weighing
  <2>3. QED
    BY <2>1, <2>2, <1>t, SumInt DEF TpmInv, TpmCounter, Typed
<1> HIDE DEF total
<1>1. CASE Roll
  <2>1. ReservesOnce' /\ Weighing' = {}
    BY <1>1, <1>t DEF Roll, TpmInv, Typed, ReservesOnce, Weighing
  <2>2. TpmCounter'
    BY <1>1, <2>1, SumEmpty DEF Roll, TpmCounter
  <2>3. QED
    BY <2>1, <2>2, <1>t DEF TpmInv
<1>2. ASSUME NEW r \in Requests, TakeTokens(r) PROVE TpmInv'
  <2> USE DEF Typed, TakeTokens, Goto
  <2>1. ReservesOnce' /\ charged[r] = NotYet /\ r \notin Weighing
    BY <1>2, <1>t DEF TpmInv, ReservesOnce, Weighing
  <2>2. CASE Projected[r] = 0
    <3>1. Weighing' = Weighing /\ Weight' = Weight
      BY <1>2, <1>t, <2>1, <2>2 DEF TpmInv, ReservesOnce, Weighing, Weight, Charge
    <3>2. UNCHANGED <<tpmUsed, tpmForeign>>
      BY <1>2, <2>2
    <3>3. QED
      BY <3>1, <3>2, <2>1, <1>t, TpmFrame DEF TpmInv
  <2>3. CASE Projected[r] # 0
    <3>1. Weighing' = Weighing \cup {r} /\ Weight' = Weight /\ Weight[r] = Projected[r]
      BY <1>2, <1>t, <2>1, <2>3 DEF Weighing, Weight, Charge
    <3>2. SumOf(Weight, Weighing)' = total + Projected[r]
      <4>1. SumOf(Weight, Weighing)' = total - 0 + Projected[r]
        BY <1>t, <2>1, <3>1, TpmMoves DEF total
      <4>2. QED
        BY <4>1, <1>n
    <3>3. tpmUsed' = tpmUsed + Projected[r] /\ tpmForeign' = tpmForeign
      BY <1>2, <2>3
    <3>4. Projected[r] \in Nat
      BY TokensAssumption
    <3>5. TpmCounter'
      BY <3>2, <3>3, <3>4, <1>n DEF TpmCounter
    <3>6. QED
      BY <3>5, <2>1, <1>t DEF TpmInv
  <2>4. QED
    BY <2>2, <2>3
<1>3. ASSUME NEW r \in Requests, UndoTokens(r) PROVE TpmInv'
  <2> USE DEF Typed, UndoTokens, Goto
  <2>1. ReservesOnce' /\ charged[r] = NotYet
    BY <1>3, <1>t DEF TpmInv, ReservesOnce
  <2>2. /\ Weighing' = Weighing \ {r}
        /\ Weight' = Weight
        /\ Weight[r] = Projected[r]
        /\ r \in Weighing <=> tpmTaken[r] = window
    BY <1>3, <1>t, <2>1 DEF Weighing, Weight, Charge
  <2>3. SumOf(Weight, Weighing)' = total - (IF r \in Weighing THEN Projected[r] ELSE 0) + 0
    BY <1>t, <2>2, TpmMoves DEF total
  <2>4. /\ tpmUsed' = tpmUsed - Projected[r]
        /\ tpmForeign' = tpmForeign - (IF r \in Weighing THEN 0 ELSE Projected[r])
    BY <1>3, <1>t, <2>2, TokensAssumption DEF MoveTokens
  <2>5. Projected[r] \in Nat
    BY TokensAssumption
  <2>6. TpmCounter'
    BY <2>3, <2>4, <2>5, <1>n DEF TpmCounter
  <2>7. QED
    BY <2>1, <2>6, <1>t DEF TpmInv
<1>4. ASSUME NEW r \in Requests, NEW actual \in Actual \cup {0},
             charged[r] = NotYet, ReconcileTokens(r, actual)
      PROVE  TpmInv'
  <2> USE DEF Typed, ReconcileTokens
  <2>1. ReservesOnce'
    BY <1>4, <1>t DEF TpmInv, ReservesOnce
  <2>2. actual \in Nat /\ actual # NotYet /\ Projected[r] \in Nat
    BY TokensAssumption DEF NotYet
  <2>3. /\ Weighing' = Weighing
        /\ \A q \in Requests \ {r} : Weight'[q] = Weight[q]
        /\ Weight[r] = Projected[r]
        /\ Weight'[r] = actual
        /\ r \in Weighing <=> tpmTaken[r] = window
    BY <1>4, <1>t, <2>2 DEF Weighing, Weight, Charge
  <2>4. SumOf(Weight, Weighing)' =
          total - (IF r \in Weighing THEN Projected[r] ELSE 0)
                + (IF r \in Weighing THEN actual ELSE 0)
    BY <1>t, <2>3, TpmMoves DEF total
  <2>5. /\ tpmUsed' = tpmUsed + (actual - Projected[r])
        /\ tpmForeign' = tpmForeign + (IF r \in Weighing THEN 0 ELSE actual - Projected[r])
    BY <1>4, <2>3 DEF MoveTokens
  <2>6. TpmCounter'
    BY <2>2, <2>4, <2>5, <1>n DEF TpmCounter
  <2>7. QED
    BY <2>1, <2>6, <1>t DEF TpmInv
<1>5. ASSUME NEW r \in Requests,
             TakeSlot(r) \/ TakeRequest(r) \/ UndoRequest(r) \/ UndoSlot(r) \/ Release(r)
      PROVE  TpmInv'
  <2> USE DEF Typed, TakeSlot, TakeRequest, UndoRequest, UndoSlot, Release, Goto, history
  <2>1. /\ ReservesOnce'
        /\ Weighing' = Weighing
        /\ Weight' = Weight
        /\ UNCHANGED <<tpmUsed, tpmForeign>>
    BY <1>5, <1>t DEF TpmInv, ReservesOnce, Weighing, Weight, Charge
  <2>2. QED
    BY <2>1, <1>t, TpmFrame DEF TpmInv
<1>6. CASE UNCHANGED limiterVars
  <2>1. /\ ReservesOnce'
        /\ Weighing' = Weighing
        /\ Weight' = Weight
        /\ UNCHANGED <<tpmUsed, tpmForeign>>
    BY <1>6 DEF limiterVars, history, TpmInv, ReservesOnce, Weighing, Weight, Charge
  <2>2. QED
    BY <2>1, <1>t, TpmFrame DEF TpmInv
<1>7. QED
  BY <1>1, <1>2, <1>3, <1>4, <1>5, <1>6 DEF Next, CheckAndConsume, Settle

(* Reconciliation keeps the token counter accurate: with no rollback       *)
(* pending it is the real or projected usage of this minute's requests,    *)
(* plus what requests of other minutes moved in it.                        *)
THEOREM TokensAreAccurate == Spec => []TpmAccurate
<1>1. ASSUME TpmInv PROVE TpmAccurate
  <2> SUFFICES ASSUME Tpm # 0, \A r \in Requests : pc[r] # "undo_tpm"
               PROVE  tpmUsed = MapThenSumSet(Charge, ChargedHere) + tpmForeign
    BY DEF TpmAccurate
  <2>1. ChargedHere = Weighing /\ ChargedHere \in SUBSET Requests
    BY DEF ChargedHere, Weighing
  <2>2. MapThenSumSet(Charge, ChargedHere) = SumOf(Weight, Weighing)
    BY <2>1, ChargesAreSummed
  <2>3. QED
    BY <1>1, <2>2 DEF TpmInv, TpmCounter
<1>2. QED
  BY <1>1, TpmInit, TpmStep, PTL DEF Spec

(* The token check lets a request into a minute only if the usage of that  *)
(* minute, the request included, fits Tpm: what is being rolled back at    *)
(* the time can only make the check stricter.                              *)
THEOREM TokenBudgetCorrect == Spec => TpmBudget
<1>1. ASSUME TpmInv, [Next]_limiterVars, NEW r \in Requests, Tpm # 0, Projected[r] # 0,
             pc[r] = "tpm", pc'[r] = "admitted"
      PROVE  MapThenSumSet(Charge, ChargedHere) + Projected[r] + tpmForeign <= Tpm
  <2>1. TakeTokens(r)
    <3>1. ASSUME NEW q \in Requests, CheckAndConsume(q) \/ Settle(q) PROVE TakeTokens(r)
      BY <1>1, <3>1
         DEF TpmInv, Typed, CheckAndConsume, Settle, TakeSlot, TakeRequest, TakeTokens,
             UndoTokens, UndoRequest, UndoSlot, Release, ReconcileTokens, Goto
    <3>2. ~ Roll /\ ~ UNCHANGED limiterVars
      BY <1>1 DEF Roll, limiterVars
    <3>3. QED
      BY <1>1, <3>1, <3>2 DEF Next
  <2>2. tpmUsed + Projected[r] <= Tpm
    BY <1>1, <2>1, TokensAssumption, LimitsAssumption DEF TakeTokens, Goto, TpmInv, Typed
  <2>3. /\ ChargedHere \in SUBSET Weighing /\ ChargedHere \in SUBSET Requests
        /\ IsFiniteSet(Weighing) /\ IsFiniteSet(ChargedHere)
        /\ \A q \in Weighing : Weight[q] \in Nat
    <3>1. ChargedHere \in SUBSET Weighing /\ Weighing \in SUBSET Requests
      BY DEF ChargedHere, Weighing
    <3>2. QED
      BY <1>1, <3>1, RequestSetsFinite, WeightType DEF TpmInv
  <2>4. /\ SumOf(Weight, ChargedHere) <= SumOf(Weight, Weighing)
        /\ SumOf(Weight, ChargedHere) \in Int
        /\ SumOf(Weight, Weighing) \in Int
    BY <2>3, SumSubset, SumInt
  <2>5. MapThenSumSet(Charge, ChargedHere) = SumOf(Weight, ChargedHere)
    BY <2>3, ChargesAreSummed
  <2>6. /\ tpmUsed = SumOf(Weight, Weighing) + tpmForeign
        /\ tpmForeign \in Int /\ Projected[r] \in Nat
    BY <1>1, TokensAssumption DEF TpmInv, TpmCounter, Typed
  <2>7. QED
    BY <2>2, <2>4, <2>5, <2>6, LimitsAssumption
<1>2. TpmInv /\ [Next]_limiterVars =>
        [\A r \in Requests :
           (Tpm # 0 /\ Projected[r] # 0 /\ pc[r] = "tpm" /\ pc'[r] = "admitted") =>
             MapThenSumSet(Charge, ChargedHere) + Projected[r] + tpmForeign <= Tpm]_limiterVars
  BY <1>1
<1>3. QED
  BY <1>2, TpmInit, TpmStep, PTL DEF Spec, TpmBudget

HIDE DEF Over, ReleaseConcurrency

---------------------------------------------------------------------------
(***************************************************************************)
(* The service                                                             *)
(***************************************************************************)
\* The stages in which the request holds its slot.
Serving ==
    {"quota", "route", "prepared", "cache", "walk", "capacity", "reserve", "call",
     "backoff", "refund", "release_slot"} \cup ReleaseModelStages

\* The stages in which an answer has been obtained and is being delivered.
Delivering == {"release_ok", "model_finally", "release_slot", "accounting"}

FreshAtLimiter(r) == at[r] = "limiter" => r \notin freed /\ charged[r] = NotYet

HeldWhileServing(r) == at[r] \in Serving => pc[r] = "admitted" /\ r \notin freed

\* The tokens of a request are settled when it fails, or in the accounting.
UnsettledBeforeTheEnd(r) ==
    /\ at[r] \in Serving \ {"release_slot"} => charged[r] = NotYet
    /\ r \in succeeded /\ at[r] # "done" => charged[r] = NotYet

SucceededDelivers(r) ==
    /\ r \in succeeded => at[r] \in Delivering \cup {"done"}
    /\ at[r] = "accounting" => r \in succeeded /\ pc[r] = "admitted"

Entitled(r) ==
    FreshAtLimiter(r) /\ HeldWhileServing(r) /\ UnsettledBeforeTheEnd(r) /\ SucceededDelivers(r)

Shapes ==
    /\ Typed
    /\ at \in [Requests -> ServiceStages]
    /\ succeeded \subseteq Requests

ServiceInv == Shapes /\ \A r \in Requests : Entitled(r)

LEMMA ServiceInit == GatewayInit => ServiceInv
  BY TypeInit
     DEF GatewayInit, Init, ServiceInv, Shapes, Entitled, FreshAtLimiter, HeldWhileServing,
         UnsettledBeforeTheEnd, SucceededDelivers, Serving, ReleaseModelStages,
         ServiceStages, NotYet

---------------------------------------------------------------------------
(* What the steps of a request may do to the limiter *)

\* A call of the limiter by a request that is entitled to it.
LEMMA CallsAreSteps ==
  ASSUME ServiceInv, NEW r \in Requests
  PROVE  /\ CheckAndConsume(r) => [Next]_limiterVars
         /\ at[r] = "refund" /\ ReconcileTokens(r, 0) => [Next]_limiterVars
         /\ at[r] = "release_slot" /\ Release(r) => [Next]_limiterVars
         /\ \A actual \in Actual :
              at[r] = "accounting" /\ ReconcileTokens(r, actual) => [Next]_limiterVars
<1> USE DEF ServiceInv, Entitled
<1>1. CheckAndConsume(r) => Next
  BY DEF Next
<1>2. at[r] = "refund" => charged[r] = NotYet
  BY DEF UnsettledBeforeTheEnd, Serving
<1>3. at[r] = "release_slot" => r \notin freed
  BY DEF HeldWhileServing, Serving
<1>4. at[r] = "accounting" => charged[r] = NotYet
  BY DEF UnsettledBeforeTheEnd, SucceededDelivers
<1>5. Settle(r) => Next
  BY DEF Next
<1>6. at[r] = "refund" /\ ReconcileTokens(r, 0) => Settle(r)
  BY <1>2 DEF Settle
<1>7. at[r] = "release_slot" /\ Release(r) => Settle(r)
  BY <1>3 DEF Settle
<1>8. ASSUME NEW actual \in Actual
      PROVE  at[r] = "accounting" /\ ReconcileTokens(r, actual) => Settle(r)
  BY <1>4 DEF Settle
<1>9. QED
  BY <1>1, <1>5, <1>6, <1>7, <1>8

LEMMA InterruptedIsStep ==
  ASSUME ServiceInv, NEW r \in Requests, Interrupted(r)
  PROVE  [Next]_limiterVars
<1>1. CASE UNCHANGED <<limiterVars, modelInflight>>
  BY <1>1
<1>2. CASE Command(r)
  BY <1>2, CallsAreSteps DEF Command
<1>3. QED
  BY <1>1, <1>2 DEF Interrupted

(* Every step of the service is a step of the limiter or leaves it alone.  *)
LEMMA StepsMap == ServiceInv /\ [GatewayNext]_allVars => [Next]_limiterVars
<1> SUFFICES ASSUME ServiceInv, [GatewayNext]_allVars PROVE [Next]_limiterVars
  OBVIOUS
<1>1. CASE MinuteBoundary
  BY <1>1 DEF MinuteBoundary, Next
<1>2. CASE UNCHANGED allVars
  BY <1>2 DEF allVars
<1>3. ASSUME NEW r \in Requests, Step(r) PROVE [Next]_limiterVars
  <2>1. CASE Admission(r)
    BY <2>1, CallsAreSteps DEF Admission
  <2>2. CASE Refund(r)
    BY <2>2, CallsAreSteps DEF Refund
  <2>3. CASE ReleaseSlot(r)
    BY <2>3, CallsAreSteps DEF ReleaseSlot
  <2>4. CASE Account(r)
    BY <2>4, CallsAreSteps DEF Account
  <2>5. CASE CheckQuota(r) \/ Route(r) \/ Begin(r) \/ LookupCache(r)
    BY <2>5 DEF CheckQuota, Route, Begin, LookupCache, Only
  <2>6. CASE Exhausted(r) \/ AskBreaker(r) \/ EnsureCapacity(r) \/ Reserve(r)
    BY <2>6 DEF Exhausted, AskBreaker, EnsureCapacity, Reserve, Only
  <2>7. CASE RelayChunk(r) \/ CallSucceeds(r) \/ CallFails(r) \/ ReleaseModel(r) \/ Backoff(r)
    BY <2>7 DEF RelayChunk, CallSucceeds, CallFails, ReleaseModel, Backoff, Only
  <2>8. QED
    BY <1>3, <2>1, <2>2, <2>3, <2>4, <2>5, <2>6, <2>7 DEF Step
<1>4. ASSUME NEW r \in Requests, Fault(r) PROVE [Next]_limiterVars
  <2>1. CASE StreamBreaks(r)
    BY <2>1 DEF StreamBreaks, Only
  <2>2. CASE StorageError(r)
    BY <2>2, InterruptedIsStep DEF StorageError
  <2>3. CASE Disconnect(r)
    BY <2>3, InterruptedIsStep DEF Disconnect
  <2>4. CASE ModelRemoved(r)
    BY <2>4 DEF ModelRemoved, Only
  <2>5. QED
    BY <1>4, <2>1, <2>2, <2>3, <2>4 DEF Fault
<1>5. QED
  BY <1>1, <1>2, <1>3, <1>4 DEF GatewayNext

---------------------------------------------------------------------------
(* Each step of a request keeps it entitled and the other requests alone *)

Apart(r) ==
    \A q \in Requests \ {r} :
      /\ at'[q] = at[q] /\ pc'[q] = pc[q] /\ charged'[q] = charged[q]
      /\ (q \in freed' <=> q \in freed) /\ (q \in succeeded' <=> q \in succeeded)

LEMMA OthersStayEntitled ==
  ASSUME ServiceInv, NEW r \in Requests, Apart(r)
  PROVE  \A q \in Requests \ {r} : Entitled(q)'
  BY DEF ServiceInv, Apart, Entitled, FreshAtLimiter, HeldWhileServing,
         UnsettledBeforeTheEnd, SucceededDelivers

\* What a command of r changes of the limiter's record of the requests.
LEMMA CommandEffect ==
  ASSUME Typed, NEW r \in Requests
  PROVE  /\ CheckAndConsume(r) =>
              /\ pc' = [pc EXCEPT ![r] = pc'[r]]
              /\ pc[r] # "admitted"
              /\ UNCHANGED <<freed, charged>>
         /\ Release(r) => freed' = freed \cup {r} /\ UNCHANGED <<pc, charged>>
         /\ \A actual : ReconcileTokens(r, actual) =>
              charged' = [charged EXCEPT ![r] = actual] /\ UNCHANGED <<pc, freed>>
<1>1. ASSUME CheckAndConsume(r)
      PROVE  /\ pc' = [pc EXCEPT ![r] = pc'[r]]
             /\ pc[r] # "admitted"
             /\ UNCHANGED <<freed, charged>>
  BY <1>1 DEF CheckAndConsume, TakeSlot, TakeRequest, TakeTokens, UndoTokens, UndoRequest,
              UndoSlot, Goto, Typed
<1>2. QED
  BY <1>1 DEF Release, ReconcileTokens

\* The stage r goes to, and that it is a stage.
LEMMA ServeMoves ==
  ASSUME ServiceInv, NEW r \in Requests, NEW stage \in ServiceStages, Serve(r, stage)
  PROVE  /\ at' \in [Requests -> ServiceStages]
         /\ at'[r] = stage
         /\ \A q \in Requests \ {r} : at'[q] = at[q]
  BY DEF ServiceInv, Shapes, Serve

LEMMA StepKeepsEntitled ==
  ASSUME ServiceInv, NEW r \in Requests, Step(r)
  PROVE  Apart(r) /\ Entitled(r)' /\ at' \in [Requests -> ServiceStages]
           /\ succeeded' \subseteq Requests
<1> USE DEF ServiceInv, Shapes, Apart, Entitled, FreshAtLimiter, HeldWhileServing,
        UnsettledBeforeTheEnd, SucceededDelivers, Serving, Delivering, ReleaseModelStages,
        ServiceStages, Serve, Only, limiterVars
<1>1. CASE Admission(r)
  <2>1. /\ pc' = [pc EXCEPT ![r] = pc'[r]]
        /\ UNCHANGED <<freed, charged>>
    BY <1>1, CommandEffect DEF Admission
  <2>2. /\ at[r] = "limiter"
        /\ at' = [at EXCEPT ![r] = AfterCheck(pc'[r])]
        /\ UNCHANGED succeeded
    BY <1>1 DEF Admission
  <2>3. /\ AfterCheck(pc'[r]) \in {"limiter", "quota", "done"}
        /\ AfterCheck(pc'[r]) = "quota" => pc'[r] = "admitted"
    BY DEF AfterCheck
  <2>4. pc \in [Requests -> Stages] /\ charged \in [Requests -> Actual \cup {NotYet, 0}]
    BY DEF Typed
  <2>5. QED
    BY <2>1, <2>2, <2>3, <2>4
<1>2. CASE CheckQuota(r)
  BY <1>2 DEF CheckQuota
<1>3. CASE Route(r)
  BY <1>3 DEF Route
<1>4. CASE Begin(r)
  BY <1>4 DEF Begin
<1>5. CASE LookupCache(r)
  BY <1>5 DEF LookupCache
<1>6. CASE Exhausted(r)
  BY <1>6 DEF Exhausted
<1>7. CASE AskBreaker(r)
  BY <1>7 DEF AskBreaker
<1>8. CASE EnsureCapacity(r)
  BY <1>8 DEF EnsureCapacity
<1>9. CASE Reserve(r)
  BY <1>9 DEF Reserve
<1>10. CASE RelayChunk(r)
  BY <1>10 DEF RelayChunk
<1>11. CASE CallSucceeds(r)
  BY <1>11 DEF CallSucceeds
<1>12. CASE CallFails(r)
  BY <1>12 DEF CallFails
<1>13. CASE ReleaseModel(r)
  BY <1>13 DEF ReleaseModel, AfterRelease
<1>14. CASE Backoff(r)
  BY <1>14 DEF Backoff
<1>15. CASE Refund(r)
  <2>1. /\ charged' = [charged EXCEPT ![r] = 0]
        /\ UNCHANGED <<pc, freed, succeeded>>
    BY <1>15, CommandEffect DEF Refund
  <2>2. /\ at[r] = "refund"
        /\ at' = [at EXCEPT ![r] = "release_slot"]
    BY <1>15 DEF Refund
  <2>3. charged \in [Requests -> Actual \cup {NotYet, 0}]
    BY DEF Typed
  <2>4. QED
    BY <2>1, <2>2, <2>3
<1>16. CASE ReleaseSlot(r)
  BY <1>16, CommandEffect DEF ReleaseSlot
<1>17. CASE Account(r)
  <2>1. PICK actual \in Actual : charged' = [charged EXCEPT ![r] = actual]
    BY <1>17, CommandEffect DEF Account
  <2>2. /\ at[r] = "accounting"
        /\ at' = [at EXCEPT ![r] = "done"]
        /\ UNCHANGED <<pc, freed, succeeded>>
    BY <1>17, CommandEffect DEF Account
  <2>3. charged \in [Requests -> Actual \cup {NotYet, 0}]
    BY DEF Typed
  <2>4. QED
    BY <2>1, <2>2, <2>3
<1>18. QED
  BY <1>1, <1>2, <1>3, <1>4, <1>5, <1>6, <1>7, <1>8, <1>9, <1>10, <1>11, <1>12,
     <1>13, <1>14, <1>15, <1>16, <1>17 DEF Step

LEMMA FaultKeepsEntitled ==
  ASSUME ServiceInv, NEW r \in Requests, Fault(r)
  PROVE  Apart(r) /\ Entitled(r)' /\ at' \in [Requests -> ServiceStages]
           /\ succeeded' \subseteq Requests
<1> USE DEF ServiceInv, Shapes, Apart, Entitled, FreshAtLimiter, HeldWhileServing,
        UnsettledBeforeTheEnd, SucceededDelivers, Serving, Delivering, ReleaseModelStages,
        ServiceStages, Serve
<1> DEFINE Quiet == UNCHANGED <<pc, freed, charged>>
<1>1. /\ pc \in [Requests -> Stages]
      /\ charged \in [Requests -> Actual \cup {NotYet, 0}]
  BY DEF Typed
\* Where an interrupted command was about to be executed, and what it did.
<1>2. ASSUME Interrupted(r)
      PROVE  \/ Quiet
             \/ /\ at[r] = "limiter"
                /\ pc' = [pc EXCEPT ![r] = pc'[r]]
                /\ UNCHANGED <<freed, charged>>
             \/ /\ at[r] = "refund"
                /\ charged' = [charged EXCEPT ![r] = 0]
                /\ UNCHANGED <<pc, freed>>
             \/ /\ at[r] = "release_slot"
                /\ freed' = freed \cup {r}
                /\ UNCHANGED <<pc, charged>>
             \/ /\ at[r] = "accounting"
                /\ \E actual \in Actual : charged' = [charged EXCEPT ![r] = actual]
                /\ UNCHANGED <<pc, freed>>
  <2>1. CASE UNCHANGED <<limiterVars, modelInflight>>
    BY <2>1 DEF limiterVars
  <2>2. CASE Command(r)
    BY <2>2, CommandEffect DEF Command, limiterVars
  <2>3. QED
    BY <1>2, <2>1, <2>2 DEF Interrupted
<1>3. CASE StreamBreaks(r)
  BY <1>3 DEF StreamBreaks, Only, limiterVars
<1>4. CASE StorageError(r)
  <2>1. /\ at' = [at EXCEPT ![r] = Unwind(r)]
        /\ succeeded' = succeeded \ {r}
        /\ at[r] \in ReadStages \cup WriteStages
    BY <1>4 DEF StorageError
  <2>2. /\ at[r] = "limiter" => Unwind(r) = "done"
        /\ at[r] = "release_slot" => Unwind(r) = "done"
        /\ at[r] = "accounting" => Unwind(r) = "done"
        /\ at[r] = "refund" => Unwind(r) \in {"release_slot", "done"}
        /\ at[r] \in (ReadStages \cup ReleaseModelStages \cup {"reserve"}) =>
             Unwind(r) \in {"release_slot", "model_finally", "done"}
    BY DEF Unwind, ReadStages
  <2>3. QED
    BY <1>1, <1>2, <1>4, <2>1, <2>2 DEF StorageError, ReadStages, WriteStages
<1>5. CASE Disconnect(r)
  <2>1. /\ UNCHANGED succeeded
        /\ at[r] \in CancelStages
        /\ Streaming(r)
        /\ at' = [at EXCEPT ![r] =
                   IF at[r] = "release_slot" /\ r \in succeeded THEN "accounting"
                                                               ELSE Unwind(r)]
    BY <1>5 DEF Disconnect
  <2>2. /\ at[r] = "release_slot" => Unwind(r) = "done"
        /\ at[r] = "refund" => Unwind(r) = "release_slot"
        /\ at[r] \in {"call", "release_ok", "release_retry", "release_fatal"} =>
             Unwind(r) = "model_finally"
        /\ at[r] \in {"capacity", "reserve", "backoff", "model_finally"} =>
             Unwind(r) = "release_slot"
        /\ at[r] = "prepared" => Unwind(r) = "done"
    BY <2>1 DEF Unwind
  <2>3. QED
    BY <1>1, <1>2, <1>5, <2>1, <2>2 DEF Disconnect, CancelStages
<1>6. CASE ModelRemoved(r)
  BY <1>6 DEF ModelRemoved, Only, limiterVars
<1>7. QED
  BY <1>3, <1>4, <1>5, <1>6 DEF Fault

LEMMA ServiceStep == ServiceInv /\ [GatewayNext]_allVars => ServiceInv'
<1> SUFFICES ASSUME ServiceInv, [GatewayNext]_allVars PROVE ServiceInv'
  OBVIOUS
<1>1. Typed'
  BY StepsMap, TypeStep DEF ServiceInv, Shapes
<1>2. CASE MinuteBoundary \/ UNCHANGED allVars
  BY <1>1, <1>2
     DEF MinuteBoundary, Roll, allVars, limiterVars, gatewayVars, ServiceInv, Shapes, Entitled,
         FreshAtLimiter, HeldWhileServing, UnsettledBeforeTheEnd, SucceededDelivers
<1>3. ASSUME NEW r \in Requests, Step(r) \/ Fault(r) PROVE ServiceInv'
  <2>1. Apart(r) /\ Entitled(r)' /\ at' \in [Requests -> ServiceStages]
          /\ succeeded' \subseteq Requests
    BY <1>3, StepKeepsEntitled, FaultKeepsEntitled
  <2>2. \A q \in Requests : Entitled(q)'
    BY <2>1, OthersStayEntitled
  <2>3. QED
    BY <1>1, <2>1, <2>2 DEF ServiceInv, Shapes
<1>4. QED
  BY <1>2, <1>3 DEF GatewayNext

---------------------------------------------------------------------------
(* The service is a correct user of the limiter: whatever raises, breaks   *)
(* or is cancelled, it never releases a slot or reconciles a request's     *)
(* tokens a second time (service.py:8-10).                                 *)
THEOREM LimiterIsUsedRightly == GatewaySpec => UsesLimiterOnce
<1>1. GatewayInit => Init
  BY DEF GatewayInit
<1>2. QED
  BY <1>1, ServiceInit, ServiceStep, StepsMap, PTL DEF GatewaySpec, UsesLimiterOnce, Spec

(* The tenant's concurrency limit holds of the requests in service, and    *)
(* its gauge counts exactly their slots, though slots may be lost.         *)
THEOREM ServiceKeepsConcurrency == GatewaySpec => []ConcurrencyLimit /\ []GaugeExact
  BY LimiterIsUsedRightly, ConcurrencyCorrect, GaugeCorrect, PTL DEF UsesLimiterOnce

(* The same of the request and token windows: what the service refunds and *)
(* accounts keeps the token counter accurate and the check for Tpm right.  *)
THEOREM ServiceKeepsBudgets ==
  GatewaySpec => []RpmBudget /\ []TpmAccurate /\ TpmBudget
  BY LimiterIsUsedRightly, RpmBudgetCorrect, TokensAreAccurate, TokenBudgetCorrect, PTL
     DEF UsesLimiterOnce

(* From the routing decision to the end of the last upstream attempt a     *)
(* request holds its slot, on every error path of the dispatcher too.      *)
THEOREM SlotIsHeldWhileServing == GatewaySpec => []SlotHeldWhileServing
<1>1. ServiceInv => SlotHeldWhileServing
  BY DEF ServiceInv, Entitled, HeldWhileServing, Serving, SlotHeldWhileServing, Dispatching
<1>2. QED
  BY <1>1, ServiceInit, ServiceStep, PTL DEF GatewaySpec

---------------------------------------------------------------------------
(***************************************************************************)
(* The tokens of a dispatched request.  That a request which enters the    *)
(* walk of its chain ends is liveness; that it does not end unsettled is   *)
(* kept by every step, from the walk on.                                   *)
(***************************************************************************)
\* What the accounting of r must have left behind.
Settled(r) == IF r \in succeeded THEN charged[r] \in Actual ELSE charged[r] = 0

Attempting ==
    {"walk", "capacity", "reserve", "call", "release_retry", "release_fatal", "backoff", "refund"}

\* How far a request that no exception has touched is with settling.
Settling(r) ==
    \/ r \in harmed
    \/ at[r] \in Attempting
    \/ at[r] \in {"release_ok", "accounting"} /\ r \in succeeded
    \/ at[r] = "release_slot" /\ (r \notin succeeded => charged[r] = 0)
    \/ at[r] = "done" /\ Settled(r)

LEMMA StepKeepsSettling ==
  ASSUME ServiceInv, NEW r \in Requests, Settling(r), Step(r)
  PROVE  Settling(r)'
<1> USE DEF ServiceInv, Shapes, Entitled, SucceededDelivers, Delivering, Settling, Attempting,
            Settled, Serve, Only, limiterVars, circumstances, ServiceStages, ReleaseModelStages
<1>1. CASE Admission(r)
  BY <1>1 DEF Admission
<1>2. CASE CheckQuota(r) \/ Route(r) \/ Begin(r) \/ LookupCache(r)
  BY <1>2 DEF CheckQuota, Route, Begin, LookupCache
<1>3. CASE Exhausted(r) \/ AskBreaker(r) \/ EnsureCapacity(r) \/ Reserve(r) \/ Backoff(r)
  BY <1>3 DEF Exhausted, AskBreaker, EnsureCapacity, Reserve, Backoff
<1>4. CASE RelayChunk(r) \/ CallFails(r)
  BY <1>4 DEF RelayChunk, CallFails
<1>5. CASE CallSucceeds(r)
  BY <1>5 DEF CallSucceeds
<1>6. CASE ReleaseModel(r)
  BY <1>6 DEF ReleaseModel, AfterRelease
<1>7. CASE Refund(r)
  <2>1. charged'[r] = 0
    BY <1>7 DEF Refund, ReconcileTokens, Typed
  <2>2. at'[r] = "release_slot"
    BY <1>7 DEF Refund
  <2>3. QED
    BY <2>1, <2>2
<1>8. CASE ReleaseSlot(r)
  <2>1. UNCHANGED <<charged, succeeded, harmed>>
    BY <1>8 DEF ReleaseSlot, Release
  <2>2. at[r] = "release_slot" /\ at'[r] = IF r \in succeeded THEN "accounting" ELSE "done"
    BY <1>8 DEF ReleaseSlot
  <2>3. QED
    BY <2>1, <2>2
<1>9. CASE Account(r)
  <2>1. charged'[r] \in Actual
    BY <1>9 DEF Account, ReconcileTokens, Typed
  <2>2. at[r] = "accounting" /\ at'[r] = "done" /\ UNCHANGED <<succeeded, harmed>>
    BY <1>9 DEF Account
  <2>3. QED
    BY <2>1, <2>2
<1>10. QED
  BY <1>1, <1>2, <1>3, <1>4, <1>5, <1>6, <1>7, <1>8, <1>9 DEF Step

LEMMA HarmOnlyGrows ==
  ASSUME NEW r \in Requests, Step(r) \/ Fault(r)
  PROVE  harmed \subseteq harmed' /\ (Fault(r) => r \in harmed')
<1>1. Fault(r) => harmed' = harmed \cup {r}
  BY DEF Fault, StreamBreaks, StorageError, Disconnect, ModelRemoved, Harm
<1>2. Step(r) => UNCHANGED harmed
  BY DEF Step, Admission, CheckQuota, Route, Begin, LookupCache, Exhausted, AskBreaker,
         EnsureCapacity, Reserve, RelayChunk, CallSucceeds, CallFails, ReleaseModel, Backoff,
         Refund, ReleaseSlot, Account, Only, circumstances
<1>3. QED
  BY <1>1, <1>2

LEMMA SettlingStays ==
  ASSUME ServiceInv, NEW r \in Requests, Settling(r), [GatewayNext]_allVars
  PROVE  Settling(r)'
<1>1. CASE MinuteBoundary \/ UNCHANGED allVars
  BY <1>1 DEF MinuteBoundary, Roll, allVars, limiterVars, gatewayVars, circumstances, Settling,
              Settled
<1>2. ASSUME NEW q \in Requests, Step(q) \/ Fault(q) PROVE Settling(r)'
  <2>1. harmed \subseteq harmed' /\ (Fault(q) => q \in harmed')
    BY <1>2, HarmOnlyGrows
  <2>2. CASE q = r
    BY <1>2, <2>1, <2>2, StepKeepsSettling DEF Settling
  <2>3. CASE q # r
    <3>1. Apart(q)
      BY <1>2, StepKeepsEntitled, FaultKeepsEntitled
    <3>2. QED
      BY <2>1, <2>3, <3>1 DEF Apart, Settling, Settled
  <2>4. QED
    BY <2>2, <2>3
<1>3. QED
  BY <1>1, <1>2 DEF GatewayNext

(* What DispatchSettles says of the end: a request that has entered the    *)
(* walk of its chain, and is not itself cut short, ends with its real      *)
(* usage booked if it was answered, and with its whole reservation given   *)
(* back if not, whatever attempts and failovers lie between and whatever   *)
(* is raised in other requests (service.py:757-794).                       *)
THEOREM DispatchEndsSettled ==
  ASSUME NEW r \in Requests
  PROVE  GatewaySpec =>
           [](at[r] = "walk" => [](at[r] = "done" => r \in harmed \/ Settled(r)))
<1>1. at[r] = "walk" => Settling(r)
  BY DEF Settling, Attempting
<1>2. Settling(r) => (at[r] = "done" => r \in harmed \/ Settled(r))
  BY DEF Settling, Attempting
<1>3. ServiceInv /\ Settling(r) /\ [GatewayNext]_allVars => Settling(r)'
  BY SettlingStays
<1>4. QED
  BY <1>1, <1>2, <1>3, ServiceInit, ServiceStep, PTL DEF GatewaySpec

(* So all that DispatchSettles needs of fairness is that the requests end. *)
(* A reported usage of 0 could not be told from a refund.                  *)
THEOREM EndingSuffices ==
  ASSUME 0 \notin Actual
  PROVE  GatewaySpec =>
           ((\A r \in Requests : at[r] = "walk" ~> at[r] = "done") => DispatchSettles)
<1>1. ASSUME NEW r \in Requests
      PROVE  GatewaySpec =>
               ((at[r] = "walk" ~> at[r] = "done") =>
                  (at[r] = "walk" ~>
                     r \in harmed \/ (charged[r] # NotYet /\ (charged[r] = 0 <=> r \notin succeeded))))
  <2>1. Settled(r) => charged[r] # NotYet /\ (charged[r] = 0 <=> r \notin succeeded)
    BY <1>1, TokensAssumption DEF Settled, NotYet
  <2>2. GatewaySpec => [](at[r] = "walk" => [](at[r] = "done" => r \in harmed \/ Settled(r)))
    BY <1>1, DispatchEndsSettled
  <2>3. QED
    BY <2>1, <2>2, PTL
<1>2. QED
  BY <1>1 DEF DispatchSettles

---------------------------------------------------------------------------
(***************************************************************************)
(* The load gauges.  A request is counted with the model at the head of    *)
(* its chain, so that must exist whenever one is counted.                  *)
(***************************************************************************)
OnChain == {"capacity", "reserve", "call", "backoff"} \cup ReleaseModelStages

ModelRecord(r) ==
    /\ at[r] \in OnChain => chain[r] # <<>>
    /\ at[r] \in {"capacity", "reserve"} => attempts[r] < MaxAttempts
    /\ at[r] # "limiter" => r \in setting.arriving

ModelShapes ==
    /\ chain \in [Requests -> Seq(Models)]
    /\ attempts \in [Requests -> 0..MaxAttempts]
    /\ modelInflight \in [Models -> Nat]
    /\ sent \in [Requests -> {"nothing", "bytes", "complete", "error"}]
    /\ gone \subseteq harmed \cap Streams
    /\ harmed \subseteq setting.arriving
    /\ setting \in Settings

ModelInv == ServiceInv /\ ModelShapes /\ \A r \in Requests : ModelRecord(r)

LEMMA ModelInit == GatewayInit => ModelInv
  BY ServiceInit, GatewayAssumption
     DEF GatewayInit, ModelInv, ModelShapes, ModelRecord, OnChain, ReleaseModelStages

LEMMA ChainTail ==
  ASSUME NEW c \in Seq(Models), c # <<>>
  PROVE  Head(c) \in Models /\ Tail(c) \in Seq(Models)
  OBVIOUS

ModelsApart(r) ==
    /\ \A q \in Requests \ {r} :
         at'[q] = at[q] /\ chain'[q] = chain[q] /\ attempts'[q] = attempts[q]
    /\ UNCHANGED setting

LEMMA OthersKeepRecord ==
  ASSUME ModelInv, NEW r \in Requests, ModelsApart(r)
  PROVE  \A q \in Requests \ {r} : ModelRecord(q)'
  BY DEF ModelInv, ModelsApart, ModelRecord

LEMMA GaugesStayNatural ==
  ASSUME modelInflight \in [Models -> Nat], NEW r \in Requests, TakeModel(r) \/ GiveModelBack(r)
  PROVE  modelInflight' \in [Models -> Nat]
<1>1. CASE TakeModel(r)
  <2>1. ASSUME NEW m \in Models PROVE modelInflight'[m] \in Nat
    <3>1. CASE m = Model(r)
      BY <1>1, <3>1 DEF TakeModel
    <3>2. CASE m # Model(r)
      BY <1>1, <3>2 DEF TakeModel
    <3>3. QED
      BY <3>1, <3>2
  <2>2. QED
    BY <1>1, <2>1 DEF TakeModel
<1>2. \A n \in Nat : Decremented(n) \in Nat
  BY DEF Decremented
<1>3. CASE GiveModelBack(r)
  BY <1>2, <1>3 DEF GiveModelBack
<1>4. QED
  BY <1>1, <1>3

LEMMA StepKeepsRecord ==
  ASSUME ModelInv, NEW r \in Requests, Step(r)
  PROVE  ModelsApart(r) /\ ModelRecord(r)' /\ ModelShapes'
<1> USE GatewayAssumption
    DEF ModelInv, ServiceInv, Shapes, ModelsApart, ModelRecord, ModelShapes, OnChain,
        ReleaseModelStages, ServiceStages, Serve, Answer, Only, circumstances
<1>1. CASE Admission(r)
  BY <1>1 DEF Admission, AfterCheck
<1>2. CASE CheckQuota(r)
  BY <1>2 DEF CheckQuota
<1>3. CASE Route(r)
  <2>1. CASE \E c \in Chains : chain' = [chain EXCEPT ![r] = c]
    <3>1. PICK c \in Chains : chain' = [chain EXCEPT ![r] = c]
      BY <2>1
    <3>2. c \in Seq(Models) /\ at'[r] # "limiter"
      BY <1>3 DEF Route
    <3>3. chain' \in [Requests -> Seq(Models)]
      BY <3>1, <3>2
    <3>4. QED
      BY <1>3, <3>1, <3>3 DEF Route
  <2>2. CASE UNCHANGED chain
    BY <1>3, <2>2 DEF Route
  <2>3. QED
    BY <1>3, <2>1, <2>2 DEF Route
<1>4. CASE Begin(r)
  BY <1>4 DEF Begin
<1>5. CASE LookupCache(r)
  BY <1>5 DEF LookupCache
<1>6. CASE Exhausted(r)
  BY <1>6 DEF Exhausted
<1>7. CASE AskBreaker(r)
  <2>1. Tail(chain[r]) \in Seq(Models)
    BY <1>7, ChainTail DEF AskBreaker
  <2>2. CASE Serve(r, "capacity") /\ UNCHANGED chain
    BY <1>7, <2>2 DEF AskBreaker
  <2>3. CASE NextModel(r) /\ UNCHANGED at
    <3>1. chain' \in [Requests -> Seq(Models)]
      BY <2>1, <2>3 DEF NextModel
    <3>2. QED
      BY <1>7, <2>3, <3>1 DEF AskBreaker, NextModel
  <2>4. QED
    BY <1>7, <2>2, <2>3 DEF AskBreaker
<1>8. CASE EnsureCapacity(r)
  <2>1. Tail(chain[r]) \in Seq(Models)
    BY <1>8, ChainTail DEF EnsureCapacity
  <2>2. QED
    <3>1. CASE NextModel(r)
      <4>1. chain' \in [Requests -> Seq(Models)]
        BY <2>1, <3>1 DEF NextModel
      <4>2. QED
        BY <1>8, <3>1, <4>1 DEF EnsureCapacity, NextModel
    <3>2. CASE UNCHANGED chain
      BY <1>8, <3>2 DEF EnsureCapacity
    <3>3. QED
      BY <1>8, <3>1, <3>2 DEF EnsureCapacity
<1>9. CASE Reserve(r)
  <2>1. modelInflight' \in [Models -> Nat]
    BY <1>9, GaugesStayNatural DEF Reserve
  <2>2. attempts' \in [Requests -> 0..MaxAttempts]
    BY <1>9 DEF Reserve
  <2>3. QED
    BY <1>9, <2>1, <2>2 DEF Reserve
<1>10. CASE RelayChunk(r)
  BY <1>10 DEF RelayChunk
<1>11. CASE CallSucceeds(r)
  BY <1>11 DEF CallSucceeds
<1>12. CASE CallFails(r)
  BY <1>12 DEF CallFails
<1>13. CASE ReleaseModel(r)
  <2>1. modelInflight' \in [Models -> Nat]
    BY <1>13, GaugesStayNatural DEF ReleaseModel
  <2>2. /\ at[r] # "limiter" /\ chain[r] # <<>>
        /\ at'[r] \in {"release_slot", "backoff", "refund"}
    BY <1>13 DEF ReleaseModel, AfterRelease
  <2>3. QED
    BY <1>13, <2>1, <2>2 DEF ReleaseModel
<1>14. CASE Backoff(r)
  <2>1. Tail(chain[r]) \in Seq(Models)
    BY <1>14, ChainTail DEF Backoff
  <2>2. QED
    BY <1>14, <2>1 DEF Backoff, NextModel
<1>15. CASE Refund(r)
  BY <1>15 DEF Refund
<1>16. CASE ReleaseSlot(r)
  BY <1>16 DEF ReleaseSlot
<1>17. CASE Account(r)
  BY <1>17 DEF Account
<1>18. QED
  BY <1>1, <1>2, <1>3, <1>4, <1>5, <1>6, <1>7, <1>8, <1>9, <1>10, <1>11, <1>12,
     <1>13, <1>14, <1>15, <1>16, <1>17 DEF Step

LEMMA FaultKeepsRecord ==
  ASSUME ModelInv, NEW r \in Requests, Fault(r)
  PROVE  ModelsApart(r) /\ ModelRecord(r)' /\ ModelShapes' /\ r \in harmed'
<1> USE GatewayAssumption
    DEF ModelInv, ServiceInv, Shapes, ModelsApart, ModelRecord, ModelShapes, OnChain,
        ReleaseModelStages, ServiceStages, Serve, Only, Harm
<1>1. Interrupted(r) => modelInflight' \in [Models -> Nat]
  BY GaugesStayNatural DEF Interrupted, Command
<1>2. /\ Unwind(r) \in {"release_slot", "done", "model_finally"}
      /\ Unwind(r) = "model_finally" =>
           at[r] \in {"call", "release_ok", "release_retry", "release_fatal"}
  BY DEF Unwind
<1>3. CASE StreamBreaks(r)
  BY <1>3 DEF StreamBreaks
<1>4. CASE StorageError(r)
  BY <1>1, <1>2, <1>4 DEF StorageError
<1>5. CASE Disconnect(r)
  <2>1. r \in setting.arriving /\ r \in Streams
    BY <1>5 DEF Disconnect, CancelStages, Streaming
  <2>2. QED
    BY <1>1, <1>2, <1>5, <2>1 DEF Disconnect
<1>6. CASE ModelRemoved(r)
  BY <1>6 DEF ModelRemoved
<1>7. QED
  BY <1>3, <1>4, <1>5, <1>6 DEF Fault

LEMMA ModelStep == ModelInv /\ [GatewayNext]_allVars => ModelInv'
<1> SUFFICES ASSUME ModelInv, [GatewayNext]_allVars PROVE ModelInv'
  OBVIOUS
<1>1. ServiceInv'
  BY ServiceStep DEF ModelInv
<1>2. CASE MinuteBoundary \/ UNCHANGED allVars
  BY <1>1, <1>2
     DEF MinuteBoundary, allVars, gatewayVars, circumstances, ModelInv, ModelShapes, ModelRecord
<1>3. ASSUME NEW r \in Requests, Step(r) \/ Fault(r) PROVE ModelInv'
  <2>1. ModelsApart(r) /\ ModelRecord(r)' /\ ModelShapes'
    BY <1>3, StepKeepsRecord, FaultKeepsRecord
  <2>2. \A q \in Requests : ModelRecord(q)'
    BY <2>1, OthersKeepRecord
  <2>3. QED
    BY <1>1, <2>1, <2>2 DEF ModelInv
<1>4. QED
  BY <1>2, <1>3 DEF GatewayNext

(* Type correctness: chains stay chains of models, attempts within their   *)
(* limit, gauges natural, whatever is raised.                              *)
THEOREM GatewayTypeCorrect == GatewaySpec => []GatewayTypeOK
<1>1. ModelInv /\ TypeOK => GatewayTypeOK
  BY DEF ModelInv, ServiceInv, Shapes, ModelShapes, GatewayTypeOK
<1>2. GatewaySpec => []TypeOK
  BY LimiterIsUsedRightly, TypeCorrect DEF UsesLimiterOnce
<1>3. QED
  BY <1>1, <1>2, ModelInit, ModelStep, PTL DEF GatewaySpec

---------------------------------------------------------------------------
(***************************************************************************)
(* The first byte.  Once anything was sent for a request, it stands where  *)
(* no further attempt is made; only a reservation starts one.              *)
(***************************************************************************)
PastAttempts == {"call", "release_ok", "model_finally", "release_slot", "accounting", "done"}

Committed(r) == sent[r] # "nothing" => at[r] \in PastAttempts

CommitInv == ModelInv /\ \A r \in Requests : Committed(r)

CommitsApart(r) ==
    \A q \in Requests \ {r} : at'[q] = at[q] /\ sent'[q] = sent[q] /\ attempts'[q] = attempts[q]

\* What a step of r does as far as the first byte is concerned.
CommitsRightly(r) ==
    CommitsApart(r) /\ Committed(r)' /\ (sent[r] # "nothing" => attempts'[r] = attempts[r])

LEMMA StepCommitsRightly ==
  ASSUME CommitInv, NEW r \in Requests, Step(r)
  PROVE  CommitsRightly(r)
<1> USE DEF CommitInv, Committed, PastAttempts, ModelInv, ModelShapes, ServiceInv, Shapes,
            CommitsRightly, CommitsApart, ReleaseModelStages, ServiceStages, Serve, Answer, Only
<1>1. CASE Admission(r)
  BY <1>1 DEF Admission, AfterCheck
<1>2. CASE CheckQuota(r) \/ Route(r) \/ Begin(r) \/ LookupCache(r)
  BY <1>2 DEF CheckQuota, Route, Begin, LookupCache
<1>3. CASE Exhausted(r) \/ AskBreaker(r) \/ EnsureCapacity(r) \/ Backoff(r)
  BY <1>3 DEF Exhausted, AskBreaker, EnsureCapacity, Backoff
<1>4. CASE Reserve(r)
  BY <1>4 DEF Reserve
<1>5. CASE RelayChunk(r) \/ CallSucceeds(r) \/ CallFails(r)
  BY <1>5 DEF RelayChunk, CallSucceeds, CallFails
<1>6. CASE ReleaseModel(r)
  <2>1. at[r] \in {"release_ok", "model_finally"} => at'[r] = "release_slot"
    BY <1>6 DEF ReleaseModel, AfterRelease
  <2>2. UNCHANGED <<sent, attempts>> /\ CommitsApart(r)
    BY <1>6 DEF ReleaseModel
  <2>3. sent[r] # "nothing" => at[r] \in {"release_ok", "model_finally"}
    BY <1>6 DEF ReleaseModel
  <2>4. QED
    BY <2>1, <2>2, <2>3
<1>7. CASE Refund(r) \/ ReleaseSlot(r) \/ Account(r)
  BY <1>7 DEF Refund, ReleaseSlot, Account
<1>8. QED
  BY <1>1, <1>2, <1>3, <1>4, <1>5, <1>6, <1>7 DEF Step

LEMMA FaultCommitsRightly ==
  ASSUME CommitInv, NEW r \in Requests, Fault(r)
  PROVE  CommitsRightly(r)
<1> USE DEF CommitInv, Committed, PastAttempts, ModelInv, ModelShapes, ServiceInv, Shapes,
            CommitsRightly, CommitsApart, ReleaseModelStages, ServiceStages, Serve, Only
<1>1. Unwind(r) \in PastAttempts
  BY DEF Unwind
<1>2. CASE StreamBreaks(r)
  BY <1>2 DEF StreamBreaks
<1>3. CASE StorageError(r)
  BY <1>1, <1>3 DEF StorageError
<1>4. CASE Disconnect(r)
  BY <1>1, <1>4 DEF Disconnect
<1>5. CASE ModelRemoved(r)
  BY <1>5 DEF ModelRemoved
<1>6. QED
  BY <1>2, <1>3, <1>4, <1>5 DEF Fault

(* A stream of which a byte was sent is never attempted again, with or     *)
(* without failover, whatever is raised or cancelled                       *)
(* (dispatcher.py:189-243).                                                *)
THEOREM FirstByteIsCommitment == GatewaySpec => FirstByteCommits
<1>1. GatewayInit => CommitInv
  BY ModelInit DEF GatewayInit, CommitInv, Committed
<1>2. ASSUME CommitInv, [GatewayNext]_allVars
      PROVE  CommitInv' /\ \A r \in Requests : sent[r] # "nothing" => attempts'[r] = attempts[r]
  <2>1. ModelInv'
    BY <1>2, ModelStep DEF CommitInv
  <2>2. CASE MinuteBoundary \/ UNCHANGED allVars
    <3>1. UNCHANGED <<at, sent, attempts>>
      BY <2>2 DEF MinuteBoundary, allVars, gatewayVars
    <3>2. QED
      BY <1>2, <2>1, <3>1 DEF CommitInv, Committed
  <2>3. ASSUME NEW q \in Requests, Step(q) \/ Fault(q)
        PROVE  CommitInv' /\ \A r \in Requests : sent[r] # "nothing" => attempts'[r] = attempts[r]
    <3>1. CommitsRightly(q)
      BY <1>2, <2>3, StepCommitsRightly, FaultCommitsRightly
    <3>2. QED
      BY <1>2, <2>1, <3>1 DEF CommitsRightly, CommitsApart, CommitInv, Committed
  <2>4. QED
    BY <1>2, <2>2, <2>3 DEF GatewayNext
<1>3. CommitInv /\ [GatewayNext]_allVars =>
        [\A r \in Streams : sent[r] # "nothing" => attempts'[r] = attempts[r]]_allVars
  BY <1>2, GatewayAssumption
<1>4. CommitInv /\ [GatewayNext]_allVars => CommitInv'
  BY <1>2
<1>5. QED
  BY <1>1, <1>3, <1>4, PTL DEF GatewaySpec, FirstByteCommits

---------------------------------------------------------------------------
(***************************************************************************)
(* The gauge of a model counts the requests on it.  A step of r either     *)
(* leaves both alone, or puts r on its model, or takes it off.             *)
(***************************************************************************)
CountedStages == {"call"} \cup ReleaseModelStages

StaysOffGauge(r) ==
    /\ modelInflight' = modelInflight
    /\ at[r] \notin CountedStages /\ at'[r] \notin CountedStages

StaysOnModel(r) ==
    /\ modelInflight' = modelInflight
    /\ at[r] \in CountedStages /\ at'[r] \in CountedStages
    /\ chain'[r] = chain[r]

JoinsModel(r) ==
    /\ TakeModel(r)
    /\ at[r] \notin CountedStages /\ at'[r] \in CountedStages
    /\ chain'[r] = chain[r]

LeavesModel(r) ==
    /\ GiveModelBack(r)
    /\ at[r] \in CountedStages /\ at'[r] \notin CountedStages

MovesGauge(r) == StaysOffGauge(r) \/ StaysOnModel(r) \/ JoinsModel(r) \/ LeavesModel(r)

LEMMA StepMovesGauge ==
  ASSUME ModelInv, NEW r \in Requests, Step(r)
  PROVE  MovesGauge(r) /\ harmed' = harmed
<1> USE DEF ModelInv, ServiceInv, Shapes, MovesGauge, StaysOffGauge, CountedStages,
            ReleaseModelStages, ServiceStages, Serve, Only, circumstances
<1>1. CASE Admission(r)
  BY <1>1 DEF Admission, AfterCheck
<1>2. CASE CheckQuota(r) \/ Route(r) \/ Begin(r) \/ LookupCache(r)
  BY <1>2 DEF CheckQuota, Route, Begin, LookupCache
<1>3. CASE Exhausted(r) \/ AskBreaker(r) \/ EnsureCapacity(r) \/ Backoff(r)
  BY <1>3 DEF Exhausted, AskBreaker, EnsureCapacity, Backoff
<1>4. CASE Reserve(r)
  BY <1>4 DEF Reserve, JoinsModel
<1>5. CASE RelayChunk(r) \/ CallSucceeds(r) \/ CallFails(r)
  BY <1>5 DEF RelayChunk, CallSucceeds, CallFails, StaysOnModel
<1>6. CASE ReleaseModel(r)
  BY <1>6 DEF ReleaseModel, AfterRelease, LeavesModel
<1>7. CASE Refund(r) \/ ReleaseSlot(r) \/ Account(r)
  BY <1>7 DEF Refund, ReleaseSlot, Account
<1>8. QED
  BY <1>1, <1>2, <1>3, <1>4, <1>5, <1>6, <1>7 DEF Step

LEMMA OnModelFinite ==
  ASSUME NEW m
  PROVE  IsFiniteSet(OnModel(m)) /\ Cardinality(OnModel(m)) \in Nat
<1>1. OnModel(m) \in SUBSET Requests
  BY DEF OnModel
<1>2. QED
  BY <1>1, RequestsAssumption, FS_Subset, FS_CardinalityType

LEMMA GaugeFollows ==
  ASSUME ModelInv, NEW r \in Requests, ModelsApart(r), MovesGauge(r),
         NEW m \in Models, modelInflight[m] = Cardinality(OnModel(m))
  PROVE  modelInflight'[m] = Cardinality(OnModel(m)')
<1> USE DEF ModelInv, ModelShapes
<1>1. \A q \in Requests \ {r} : q \in OnModel(m)' <=> q \in OnModel(m)
  BY DEF ModelsApart, OnModel, Model
<1>2. OnModel(m) \subseteq Requests /\ OnModel(m)' \subseteq Requests
  BY DEF OnModel
<1>3. CASE StaysOffGauge(r) \/ StaysOnModel(r)
  <2>1. r \in OnModel(m)' <=> r \in OnModel(m)
    BY <1>3 DEF StaysOffGauge, StaysOnModel, OnModel, CountedStages, Model
  <2>2. OnModel(m)' = OnModel(m)
    <3>1. \A q : q \in OnModel(m)' <=> q \in OnModel(m)
      BY <1>1, <1>2, <2>1
    <3>2. QED
      BY <3>1, Zenon
  <2>3. QED
    BY <1>3, <2>2 DEF StaysOffGauge, StaysOnModel
<1>4. CASE JoinsModel(r)
  <2>1. r \notin OnModel(m) /\ (r \in OnModel(m)' <=> Model(r) = m)
    BY <1>4 DEF JoinsModel, OnModel, CountedStages, Model
  <2>2. CASE Model(r) = m
    <3>1. OnModel(m)' = OnModel(m) \cup {r}
      BY <1>1, <1>2, <2>1, <2>2
    <3>2. Cardinality(OnModel(m)') = Cardinality(OnModel(m)) + 1
      BY <2>1, <3>1, OnModelFinite, FS_AddElement
    <3>3. modelInflight'[m] = modelInflight[m] + 1
      BY <1>4, <2>2 DEF JoinsModel, TakeModel
    <3>4. QED
      BY <3>2, <3>3
  <2>3. CASE Model(r) # m
    <3>1. OnModel(m)' = OnModel(m)
      <4>1. \A q : q \in OnModel(m)' <=> q \in OnModel(m)
        BY <1>1, <1>2, <2>1, <2>3
      <4>2. QED
        BY <4>1, Zenon
    <3>2. modelInflight'[m] = modelInflight[m]
      BY <1>4, <2>3 DEF JoinsModel, TakeModel
    <3>3. QED
      BY <3>1, <3>2
  <2>4. QED
    BY <2>2, <2>3
<1>5. CASE LeavesModel(r)
  <2>1. r \notin OnModel(m)' /\ (r \in OnModel(m) <=> Model(r) = m)
    BY <1>5 DEF LeavesModel, OnModel, CountedStages, Model
  <2>2. CASE Model(r) = m
    <3>1. OnModel(m)' = OnModel(m) \ {r}
      BY <1>1, <1>2, <2>1
    <3>2. Cardinality(OnModel(m)') = Cardinality(OnModel(m)) - 1
      BY <2>1, <2>2, <3>1, OnModelFinite, FS_RemoveElement
    <3>3. Cardinality(OnModel(m)') \in Nat
      BY <3>1, OnModelFinite, FS_RemoveElement, FS_CardinalityType
    <3>4. modelInflight[m] > 0
      BY <3>2, <3>3, OnModelFinite
    <3>5. modelInflight'[m] = modelInflight[m] - 1
      BY <1>5, <2>2, <3>4 DEF LeavesModel, GiveModelBack, Decremented
    <3>6. QED
      BY <3>2, <3>5
  <2>3. CASE Model(r) # m
    <3>1. OnModel(m)' = OnModel(m)
      <4>1. \A q : q \in OnModel(m)' <=> q \in OnModel(m)
        BY <1>1, <1>2, <2>1, <2>3
      <4>2. QED
        BY <4>1, Zenon
    <3>2. modelInflight'[m] = modelInflight[m]
      BY <1>5, <2>3 DEF LeavesModel, GiveModelBack
    <3>3. QED
      BY <3>1, <3>2
  <2>4. QED
    BY <2>2, <2>3
<1>6. QED
  BY <1>3, <1>4, <1>5 DEF MovesGauge

(* The load gauge of every model counts exactly the requests between       *)
(* reserve and release on it, through retries and failover, as long as no  *)
(* exception has left one of the two in doubt.                             *)
THEOREM ModelGaugeIsExact == GatewaySpec => []ModelGaugeExact
<1>1. GatewayInit => ModelGaugeExact
  <2> SUFFICES ASSUME GatewayInit, NEW m \in Models
               PROVE  modelInflight[m] = Cardinality(OnModel(m))
    BY DEF ModelGaugeExact
  <2>1. OnModel(m) = {}
    BY DEF OnModel, GatewayInit, ReleaseModelStages
  <2>2. QED
    BY <2>1, FS_EmptySet DEF GatewayInit
<1>2. ModelInv /\ ModelGaugeExact /\ [GatewayNext]_allVars => ModelGaugeExact'
  <2> SUFFICES ASSUME ModelInv, ModelGaugeExact, [GatewayNext]_allVars, harmed' = {},
                      NEW m \in Models
               PROVE  modelInflight'[m] = Cardinality(OnModel(m)')
    BY DEF ModelGaugeExact
  <2>1. CASE MinuteBoundary \/ UNCHANGED allVars
    BY <2>1 DEF MinuteBoundary, allVars, gatewayVars, circumstances, ModelGaugeExact,
                OnModel, Model
  <2>2. ASSUME NEW r \in Requests, Step(r)
        PROVE  modelInflight'[m] = Cardinality(OnModel(m)')
    <3>1. MovesGauge(r) /\ harmed = {} /\ ModelsApart(r)
      BY <2>2, StepMovesGauge, StepKeepsRecord
    <3>2. QED
      BY <3>1, GaugeFollows DEF ModelGaugeExact
  <2>3. ASSUME NEW r \in Requests, Fault(r) PROVE FALSE
    BY <2>3, FaultKeepsRecord
  <2>4. QED
    BY <2>1, <2>2, <2>3 DEF GatewayNext
<1>3. QED
  BY <1>1, <1>2, ModelInit, ModelStep, PTL DEF GatewaySpec

---------------------------------------------------------------------------
(***************************************************************************)
(* The reservation of Reservation.tla.  A slot changes hands only in the   *)
(* calls of the limiter, so it is the limiter that keeps it, as long as it *)
(* is used rightly; the history tells the requests that failed the check   *)
(* from those that are rolled back after it.                               *)
(***************************************************************************)
Movements(r) ==
    /\ pc[r] = "new" => rpmTaken[r] = 0 /\ tpmTaken[r] = 0
    /\ pc[r] = "undo_rpm" => rpmTaken[r] # 0 \/ tpmTaken[r] # 0
    /\ pc[r] = "undo_tpm" => tpmTaken[r] # 0

SlotInv == ConcurrencyInv /\ \A r \in Requests : Movements(r)

SlotMoves(r) ==
    \/ HoldOf(r)' = HoldOf(r)
    \/ HoldOf(r) = "none" /\ HoldOf(r)' = "held" /\ inflight < MaxConcurrency
    \/ HoldOf(r) \in {"none", "held"} /\ HoldOf(r)' = "over"

\* What a step of another request leaves alone.
SlotApart(r) ==
    \A q \in Requests \ {r} :
      /\ pc'[q] = pc[q] /\ (q \in freed' <=> q \in freed)
      /\ rpmTaken'[q] = rpmTaken[q] /\ tpmTaken'[q] = tpmTaken[q]

LEMMA CallMovesSlot ==
  ASSUME SlotInv, MaxConcurrency # 0, NEW r \in Requests, CheckAndConsume(r) \/ Settle(r)
  PROVE  SlotMoves(r) /\ SlotApart(r) /\ Movements(r)'
<1> USE DEF SlotInv, SlotMoves, SlotApart, HoldOf, FailsCheck, Movements
<1>1. /\ pc \in [Requests -> Stages] /\ inflight \in Nat /\ MaxConcurrency \in Nat
      /\ rpmTaken \in [Requests -> Nat] /\ tpmTaken \in [Requests -> Nat]
      /\ window \in Nat \ {0}
      /\ r \in freed => pc[r] = "admitted"
  BY LimitsAssumption DEF ConcurrencyInv, Typed, FreedWereAdmitted
<1>2. CASE TakeSlot(r)
  BY <1>1, <1>2 DEF TakeSlot, Goto, Over, history
<1>3. CASE TakeRequest(r)
  BY <1>1, <1>3 DEF TakeRequest, Goto
<1>4. CASE TakeTokens(r)
  BY <1>1, <1>4 DEF TakeTokens, Goto
<1>5. CASE UndoTokens(r)
  BY <1>1, <1>5 DEF UndoTokens, Goto
<1>6. CASE UndoRequest(r)
  BY <1>1, <1>6 DEF UndoRequest, Goto
<1>7. CASE UndoSlot(r)
  BY <1>1, <1>7 DEF UndoSlot, Goto, history
<1>8. CASE Settle(r)
  BY <1>1, <1>8 DEF Settle, Release, ReconcileTokens, history
<1>9. QED
  BY <1>2, <1>3, <1>4, <1>5, <1>6, <1>7, <1>8 DEF CheckAndConsume

LEMMA SlotFrame ==
  ASSUME UNCHANGED <<pc, freed, rpmTaken, tpmTaken>>, NEW r \in Requests
  PROVE  HoldOf(r)' = HoldOf(r) /\ (Movements(r) => Movements(r)')
  BY DEF HoldOf, FailsCheck, Movements

LEMMA SlotStep ==
  ASSUME MaxConcurrency # 0, SlotInv, [Next]_limiterVars
  PROVE  SlotInv'
<1>1. ConcurrencyInv'
  BY ConcurrencyStep DEF SlotInv
<1>2. CASE Roll \/ UNCHANGED limiterVars
  BY <1>1, <1>2, SlotFrame DEF Roll, limiterVars, history, SlotInv
<1>3. ASSUME NEW r \in Requests, CheckAndConsume(r) \/ Settle(r) PROVE SlotInv'
  <2>1. SlotApart(r) /\ Movements(r)'
    BY <1>3, CallMovesSlot
  <2>2. \A q \in Requests \ {r} : Movements(q)'
    BY <2>1 DEF SlotApart, SlotInv, Movements
  <2>3. QED
    BY <1>1, <2>1, <2>2 DEF SlotInv
<1>4. QED
  BY <1>2, <1>3 DEF Next

(* The requests that hold a slot are counted in the gauge.                 *)
LEMMA HeldAreCounted ==
  ASSUME ConcurrencyInv, MaxConcurrency # 0
  PROVE  LET held == {q \in Requests : HoldOf(q) = "held"}
         IN  Cardinality(held) \in Nat /\ Cardinality(held) <= inflight
<1> DEFINE held == {q \in Requests : HoldOf(q) = "held"}
<1>1. held \subseteq SlotUnits /\ SlotUnits \subseteq Requests
  BY DEF SlotUnits, HoldOf
<1>2. Cardinality(held) \in Nat /\ Cardinality(held) <= Cardinality(SlotUnits)
  BY <1>1, RequestSetsFinite, SubsetCardinality
<1>3. QED
  BY <1>2 DEF ConcurrencyInv, GaugeExact

(* Whatever is raised and however a request ends, slots are only taken     *)
(* below the limit and none is given back twice.  A slot that is lost      *)
(* stays held here, so the bound counts it.                                *)
THEOREM ServiceKeepsReservation ==
  ASSUME MaxConcurrency # 0
  PROVE  GatewaySpec => Slots!Safe
<1> DEFINE hold == [r \in Requests |-> HoldOf(r)]
<1>1. Init => Slots!Init /\ SlotInv
  BY ConcurrencyInit DEF Init, Slots!Init, HoldOf, SlotInv, Movements
<1>2. SlotInv /\ [Next]_limiterVars => [Slots!Next]_hold
  <2> SUFFICES ASSUME SlotInv, [Next]_limiterVars
               PROVE  Slots!Next \/ hold' = hold
    OBVIOUS
  <2>1. CASE Roll \/ UNCHANGED limiterVars
    BY <2>1, SlotFrame DEF Roll, limiterVars, history
  <2>2. ASSUME NEW r \in Requests, CheckAndConsume(r) \/ Settle(r)
        PROVE  Slots!Next \/ hold' = hold
    <3>1. SlotMoves(r) /\ SlotApart(r)
      BY <2>2, CallMovesSlot
    <3>2. \A q \in Requests \ {r} : HoldOf(q)' = HoldOf(q)
      BY <3>1 DEF SlotApart, HoldOf, FailsCheck
    <3>3. hold' = [hold EXCEPT ![r] = HoldOf(r)']
      BY <3>2
    <3>4. CASE HoldOf(r)' = "over" /\ HoldOf(r) \in {"none", "held"}
      BY <3>3, <3>4 DEF Slots!Next, Slots!Refuse, Slots!GiveBack
    <3>5. CASE HoldOf(r)' = HoldOf(r)
      BY <3>3, <3>5
    <3>6. CASE /\ HoldOf(r) = "none" /\ HoldOf(r)' = "held"
               /\ inflight < MaxConcurrency
      <4>1. Slots!Held = {q \in Requests : HoldOf(q) = "held"}
        BY DEF Slots!Held
      <4>2. Cardinality(Slots!Held) < MaxConcurrency
        BY <3>6, <4>1, HeldAreCounted, LimitsAssumption
           DEF SlotInv, ConcurrencyInv, Typed
      <4>3. hold[r] = "none" /\ hold' = [hold EXCEPT ![r] = "held"]
        BY <3>3, <3>6
      <4>4. Slots!Take(r)
        BY <4>2, <4>3 DEF Slots!Take, Slots!Cardinality, Cardinality, Slots!IsFiniteSet, IsFiniteSet
      <4>5. QED
        BY <4>4 DEF Slots!Next
    <3>7. QED
      BY <3>1, <3>4, <3>5, <3>6 DEF SlotMoves
  <2>3. QED
    BY <2>1, <2>2 DEF Next
<1>3. Spec => Slots!Safe
  BY <1>1, <1>2, SlotStep, PTL DEF Spec, Slots!Safe
<1>4. QED
  BY <1>3, LimiterIsUsedRightly DEF UsesLimiterOnce
=============================================================================
