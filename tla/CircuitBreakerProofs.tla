------------------------ MODULE CircuitBreakerProofs ------------------------
(***************************************************************************)
(* What the breaker guarantees for every configuration, every number of    *)
(* callers and every order of their outcomes.                              *)
(***************************************************************************)
EXTENDS CircuitBreaker, FiniteSetTheorems, TLAPS

USE DEF Proves

(* A half-open period accounts for its probes: each was counted by the     *)
(* half_open_calls that let it through, and the count stops at the limit.  *)
ProbesCounted ==
  state = "HALF_OPEN" =>
    /\ Cardinality(probes) + proven <= half_open_calls
    /\ half_open_calls <= HalfOpenMaxCalls

(* A probe under way cannot be admitted a second time.                     *)
ProbesUnderway == \A c \in probes : stage[c] \in {"permitted", "calling"}

(* How far the callers are with their attempts.                            *)
TriesCounted ==
  \A c \in Callers : /\ stage[c] = "permitted" => tries[c] = 0
                     /\ stage[c] = "calling" => tries[c] > 0
                     /\ stage[c] = "retrying" => tries[c] \in 1..(MaxAttempts - 1)

(* Who is not on its way has made none.                                    *)
IdleIsFresh == \A c \in Callers : stage[c] \in {"idle", "routed"} => tries[c] = 0

(* A caller on its way had its permission before the breaker opened.       *)
StraysOwed ==
  /\ state # "OPEN" => strays = NoCalls
  /\ \A c \in Callers : /\ strays[c] <= MaxAttempts
                        /\ c \in Underway => strays[c] <= tries[c]

(* The caller that opened it had used an attempt.                          *)
Opener(c) == strays[c] < MaxAttempts /\ (c \in Underway => strays[c] < tries[c])
OpenedByOne == state = "OPEN" => \E c \in Callers : Opener(c)

CallsInv == TriesCounted /\ IdleIsFresh /\ StraysOwed /\ OpenedByOne

BreakerInv ==
  TypeOK /\ ProbesUnderway /\ ProbesCounted /\ ClosedBelowThreshold /\ CallsInv

LEMMA ProbeSets ==
  ASSUME NEW P \in SUBSET Callers, NEW c
  PROVE  /\ Cardinality(P) \in Nat
         /\ Cardinality(P \ {c}) \in Nat
         /\ Cardinality(P \ {c}) = IF c \in P THEN Cardinality(P) - 1 ELSE Cardinality(P)
         /\ Cardinality(P \cup {c}) = IF c \in P THEN Cardinality(P) ELSE Cardinality(P) + 1
<1>1. IsFiniteSet(P) /\ IsFiniteSet(P \ {c})
  BY CallersAssumption, FS_Subset
<1>2. QED
  BY <1>1, FS_CardinalityType, FS_AddElement, FS_RemoveElement

LEMMA SamplesTyped ==
  ASSUME events \in [Ages -> [ok : Nat, failed : Nat]]
  PROVE  /\ WithSuccess \in [Ages -> [ok : Nat, failed : Nat]]
         /\ WithFailure \in [Ages -> [ok : Nat, failed : Nat]]
<1>1. 0 \in Ages
  BY ConfigAssumption DEF Ages
<1>2. events[0].ok \in Nat /\ events[0].failed \in Nat
  BY <1>1
<1>3. /\ [ok |-> events[0].ok + 1, failed |-> events[0].failed] \in [ok : Nat, failed : Nat]
      /\ [ok |-> events[0].ok, failed |-> events[0].failed + 1] \in [ok : Nat, failed : Nat]
  BY <1>2
<1>4. QED
  BY <1>1, <1>3 DEF WithSuccess, WithFailure

LEMMA BreakerInit == Init => BreakerInv
  BY ConfigAssumption
     DEF Init, BreakerInv, TypeOK, States, NoEvents, NoSample, NoCalls, ProbesUnderway,
         ProbesCounted, ClosedBelowThreshold, CallsInv, TriesCounted, IdleIsFresh,
         StraysOwed, OpenedByOne, Underway

(* Consulting the breaker, with nobody let through by it.                  *)
LEMMA ConsultStep ==
  ASSUME BreakerInv, Consult, probes' = IF CooledDown THEN {} ELSE probes
  PROVE  /\ state' \in States /\ half_open_calls' \in 0..HalfOpenMaxCalls
         /\ half_open_successes' \in Nat /\ proven' \in Nat
         /\ elapsed' = elapsed /\ consecutive_failures' = consecutive_failures
         /\ events' = events
         /\ ProbesCounted'
         /\ (state' = "HALF_OPEN" /\ Allowed) =>
               Cardinality(probes') + proven' + 1 <= half_open_calls'
         /\ ClosedBelowThreshold'
<1> USE ConfigAssumption DEF BreakerInv, TypeOK, States
<1>1. CASE CooledDown
  <2>1. Cardinality(probes') = 0
    BY <1>1, FS_EmptySet
  <2>2. QED
    BY <1>1, <2>1 DEF Consult, Probing, ProbesUsed, Allowed, CooledDown, ProbesCounted,
                      ClosedBelowThreshold
<1>2. CASE ~CooledDown
  <2>1. Cardinality(probes) \in Nat /\ probes' = probes
    BY <1>2, ProbeSets
  <2>2. QED
    BY <1>2, <2>1 DEF Consult, Probing, ProbesUsed, Allowed, ProbesCounted,
                      ClosedBelowThreshold
<1>3. QED
  BY <1>1, <1>2

(* What the calls owe, step by step.                                       *)
CallsTyped == tries \in [Callers -> 0..MaxAttempts] /\ strays \in [Callers -> Nat]

(* The breaker moves, the callers do not.                                  *)
LEMMA CallsFrame ==
  ASSUME BreakerInv, UNCHANGED tries, Underway' = Underway,
         \A c \in Callers : stage'[c] = stage[c] \/ stage'[c] \in {"idle", "routed"},
         \/ UNCHANGED <<state, strays>>
         \/ state' # "OPEN" /\ strays' = NoCalls
  PROVE  CallsTyped' /\ CallsInv'
<1> USE ConfigAssumption DEF BreakerInv, CallsInv, CallsTyped, TypeOK, NoCalls
<1>1. CallsTyped'
  OBVIOUS
<1>2. TriesCounted'
  BY DEF TriesCounted
<1>3. IdleIsFresh'
  BY DEF IdleIsFresh, Underway
<1>4. StraysOwed' /\ OpenedByOne'
  BY DEF StraysOwed, OpenedByOne, Opener
<1>5. QED
  BY <1>1, <1>2, <1>3, <1>4

(* A caller ends, after an outcome or without one.                         *)
LEMMA CallsLeave ==
  ASSUME BreakerInv, NEW c \in Callers, Leave(c), UNCHANGED strays,
         state = "OPEN" \/ state' # "OPEN" \/ strays = NoCalls,
         state' # "OPEN" => strays = NoCalls
  PROVE  CallsTyped' /\ CallsInv'
<1> USE ConfigAssumption DEF BreakerInv, CallsInv, CallsTyped, TypeOK, Leave, Goto
<1>1. CallsTyped'
  OBVIOUS
<1>2. TriesCounted'
  BY DEF TriesCounted
<1>3. /\ c \notin Underway' /\ tries'[c] = 0
      /\ \A d \in Callers \ {c} : tries'[d] = tries[d] /\ (d \in Underway' <=> d \in Underway)
  BY DEF Underway
<1>4. StraysOwed'
  BY <1>3 DEF StraysOwed
<1>5. ASSUME state = "OPEN" PROVE OpenedByOne'
  BY <1>3, <1>5 DEF OpenedByOne, Opener
<1>6. ASSUME strays = NoCalls PROVE OpenedByOne'
  BY <1>3, <1>6 DEF OpenedByOne, Opener, NoCalls
<1>7. IdleIsFresh'
  BY DEF IdleIsFresh
<1>8. QED
  BY <1>1, <1>2, <1>4, <1>5, <1>6, <1>7 DEF OpenedByOne

LEMMA CallsStep ==
  ASSUME BreakerInv, [Next]_vars
  PROVE  CallsTyped' /\ CallsInv'
<1> USE ConfigAssumption
<1>1. CASE Tick \/ Outage \/ Recovery \/ UNCHANGED vars
  BY <1>1, CallsFrame DEF Tick, Outage, Recovery, vars, record, Underway
<1>2. CASE Readyz
  BY <1>2, CallsFrame DEF Readyz, Consult, Underway, CooledDown
<1>3. ASSUME NEW c \in Callers, RouteCheck(c) PROVE CallsTyped' /\ CallsInv'
  <2>1. Underway' = Underway
    BY <1>3 DEF RouteCheck, Goto, Underway, BreakerInv, TypeOK
  <2>2. \A d \in Callers : stage'[d] = stage[d] \/ stage'[d] \in {"idle", "routed"}
    BY <1>3 DEF RouteCheck, Goto, BreakerInv, TypeOK
  <2>3. QED
    BY <1>3, <2>1, <2>2, CallsFrame DEF RouteCheck, Consult
<1>4. ASSUME NEW c \in Callers, DispatchCheck(c) PROVE CallsTyped' /\ CallsInv'
  <2>1. Consult /\ UNCHANGED tries /\ stage[c] \in {"idle", "routed"}
        /\ stage' = [stage EXCEPT ![c] = IF Allowed THEN "permitted" ELSE "idle"]
    BY <1>4 DEF DispatchCheck, Goto
  <2>2. CASE ~Allowed
    <3>1. Underway' = Underway
      BY <2>1, <2>2 DEF Underway, BreakerInv, TypeOK
    <3>2. \A d \in Callers : stage'[d] = stage[d] \/ stage'[d] \in {"idle", "routed"}
      BY <2>1, <2>2 DEF BreakerInv, TypeOK
    <3>3. QED
      BY <2>1, <3>1, <3>2, CallsFrame DEF Consult
  <2>3. CASE Allowed
    <3>1. state' # "OPEN" /\ strays' = NoCalls
      BY <2>1, <2>3
         DEF Consult, Allowed, Probing, CooledDown, BreakerInv, CallsInv, StraysOwed
    <3>2. tries[c] = 0
      BY <2>1 DEF BreakerInv, CallsInv, IdleIsFresh
    <3>3. QED
      BY <2>1, <2>3, <3>1, <3>2
         DEF BreakerInv, TypeOK, CallsTyped, CallsInv, TriesCounted, StraysOwed, OpenedByOne,
             IdleIsFresh, NoCalls, Underway
  <2>4. QED
    BY <2>2, <2>3
<1>5. ASSUME NEW c \in Callers, SkipSaturated(c) \/ CallVanishes(c)
      PROVE  CallsTyped' /\ CallsInv'
  <2>1. Leave(c) /\ UNCHANGED <<state, strays>>
    BY <1>5 DEF SkipSaturated, CallVanishes, record
  <2>2. QED
    BY <2>1, CallsLeave DEF BreakerInv, CallsInv, StraysOwed
<1>6. ASSUME NEW c \in Callers, StartCall(c) PROVE CallsTyped' /\ CallsInv'
  <2>1. /\ stage[c] \in {"permitted", "retrying"} /\ state' = state
        /\ stage' = [stage EXCEPT ![c] = "calling"]
        /\ tries' = [tries EXCEPT ![c] = @ + 1]
        /\ strays' = IF state = "OPEN" THEN [strays EXCEPT ![c] = @ + 1] ELSE strays
    BY <1>6 DEF StartCall, Goto, record
  <2>2. tries[c] \in 0..(MaxAttempts - 1) /\ c \in Underway /\ Underway' = Underway
    BY <2>1 DEF BreakerInv, TypeOK, CallsInv, TriesCounted, Underway
  <2>3. CallsTyped'
    BY <2>1, <2>2 DEF BreakerInv, TypeOK, CallsTyped
  <2>4. TriesCounted' /\ IdleIsFresh'
    BY <2>1, <2>2 DEF BreakerInv, TypeOK, CallsInv, TriesCounted, IdleIsFresh
  <2>5. StraysOwed'
    BY <2>1, <2>2 DEF BreakerInv, TypeOK, CallsInv, StraysOwed
  <2>6. ASSUME NEW d \in Callers, Opener(d), state = "OPEN" PROVE Opener(d)'
    BY <2>1, <2>2, <2>6 DEF BreakerInv, TypeOK, Opener
  <2>7. OpenedByOne'
    BY <2>1, <2>6 DEF BreakerInv, CallsInv, OpenedByOne
  <2>8. QED
    BY <2>3, <2>4, <2>5, <2>7 DEF CallsInv
<1>7. ASSUME NEW c \in Callers, CallSucceeds(c) PROVE CallsTyped' /\ CallsInv'
  <2>1. Leave(c) /\ UNCHANGED strays /\ (state' = "OPEN" <=> state = "OPEN")
    BY <1>7 DEF CallSucceeds, RecordSuccess
  <2>2. QED
    BY <2>1, CallsLeave DEF BreakerInv, CallsInv, StraysOwed
<1>8. ASSUME NEW c \in Callers, CallFails(c) \/ CallRefused(c) PROVE CallsTyped' /\ CallsInv'
  <2>1. /\ RecordFailure(c) /\ stage[c] = "calling" /\ UNCHANGED strays
        /\ state' # "OPEN" => state' = state
        /\ state = "OPEN" => state' = "OPEN"
    BY <1>8 DEF CallFails, CallRefused, RecordFailure
  <2>2. state # "OPEN" => strays = NoCalls
    BY DEF BreakerInv, CallsInv, StraysOwed
  <2>3. CASE Leave(c)
    BY <2>1, <2>2, <2>3, CallsLeave
  <2>4. CASE Goto(c, "retrying") /\ UNCHANGED tries /\ tries[c] < MaxAttempts
    <3>1. tries[c] > 0 /\ Underway' = Underway
      BY <2>1, <2>4 DEF BreakerInv, TypeOK, CallsInv, TriesCounted, Underway, Goto
    <3>2. CallsTyped' /\ TriesCounted' /\ IdleIsFresh' /\ StraysOwed'
      BY <2>1, <2>4, <3>1
         DEF BreakerInv, TypeOK, CallsTyped, CallsInv, TriesCounted, IdleIsFresh, StraysOwed,
             Goto
    <3>3. CASE state = "OPEN"
      BY <2>1, <2>4, <3>1, <3>2, <3>3 DEF BreakerInv, CallsInv, OpenedByOne, Opener
    <3>4. CASE state # "OPEN"
      <4>1. Opener(c)'
        BY <2>1, <2>2, <2>4, <3>1, <3>4 DEF Opener, NoCalls
      <4>2. QED
        BY <3>2, <4>1 DEF CallsInv, OpenedByOne
    <3>5. QED
      BY <3>2, <3>3, <3>4 DEF CallsInv
  <2>5. QED
    BY <1>8, <2>3, <2>4 DEF CallFails, CallRefused
<1>9. QED
  BY <1>1, <1>2, <1>3, <1>4, <1>5, <1>6, <1>7, <1>8 DEF Next

LEMMA BreakerStep == BreakerInv /\ [Next]_vars => BreakerInv'
<1> SUFFICES ASSUME BreakerInv, [Next]_vars PROVE BreakerInv'
  OBVIOUS
<1> USE ConfigAssumption
<1>calls. CallsTyped' /\ CallsInv'
  BY CallsStep
<1> USE <1>calls DEF CallsTyped
<1>1. CASE Tick
  <2>1. elapsed' \in 0..OpenSeconds
    BY <1>1 DEF Tick, BreakerInv, TypeOK
  <2>2. events' \in [Ages -> [ok : Nat, failed : Nat]]
    BY <1>1 DEF Tick, BreakerInv, TypeOK, Ages, NoSample
  <2>3. QED
    BY <1>1, <2>1, <2>2
       DEF Tick, BreakerInv, TypeOK, ProbesUnderway, ProbesCounted, ClosedBelowThreshold
<1>2. CASE Outage \/ Recovery \/ UNCHANGED vars
  BY <1>2 DEF Outage, Recovery, vars, record, BreakerInv, TypeOK, ProbesUnderway,
              ProbesCounted, ClosedBelowThreshold
<1>3. CASE Readyz
  <2>1. Consult /\ probes' = (IF CooledDown THEN {} ELSE probes)
        /\ UNCHANGED <<stage, up>>
    BY <1>3 DEF Readyz
  <2>2. ProbesUnderway'
    BY <2>1 DEF BreakerInv, ProbesUnderway
  <2>3. QED
    BY <2>1, <2>2, ConsultStep DEF BreakerInv, TypeOK
<1>4. ASSUME NEW c \in Callers, RouteCheck(c) PROVE BreakerInv'
  <2>1. /\ Consult /\ probes' = (IF CooledDown THEN {} ELSE probes)
        /\ stage[c] = "idle" /\ UNCHANGED up
        /\ \E where \in {"routed", "idle"} : stage' = [stage EXCEPT ![c] = where]
    BY <1>4 DEF RouteCheck, Goto
  <2>2. ProbesUnderway'
    BY <2>1 DEF BreakerInv, TypeOK, ProbesUnderway
  <2>3. QED
    BY <2>1, <2>2, ConsultStep DEF BreakerInv, TypeOK
<1>5. ASSUME NEW c \in Callers, DispatchCheck(c) PROVE BreakerInv'
  <2> DEFINE kept == IF CooledDown THEN {} ELSE probes
  <2>1. /\ Consult /\ UNCHANGED up
        /\ stage[c] \in {"idle", "routed"}
        /\ stage' = [stage EXCEPT ![c] = IF Allowed THEN "permitted" ELSE "idle"]
        /\ probes' = kept \cup (IF Probing /\ Allowed THEN {c} ELSE {})
    BY <1>5 DEF DispatchCheck, Goto
  <2>2. c \notin probes /\ probes \subseteq Callers /\ kept \subseteq Callers
    BY <2>1 DEF BreakerInv, TypeOK, ProbesUnderway
  <2>3. ProbesUnderway'
    BY <2>1, <2>2 DEF BreakerInv, TypeOK, ProbesUnderway
  <2>4. /\ state' \in States /\ half_open_calls' \in 0..HalfOpenMaxCalls
        /\ half_open_successes' \in Nat /\ proven' \in Nat
        /\ elapsed' = elapsed /\ consecutive_failures' = consecutive_failures
        /\ events' = events
        /\ ClosedBelowThreshold'
    BY <2>1 DEF Consult, BreakerInv, TypeOK, States, ProbesUsed, ClosedBelowThreshold,
                CooledDown, Probing, Allowed
  <2>5. ProbesCounted'
    <3>1. CASE CooledDown
      <4>1. probes' = {c} /\ state' = "HALF_OPEN" /\ half_open_calls' = 1 /\ proven' = 0
        BY <2>1, <3>1 DEF Consult, Probing, ProbesUsed, Allowed
      <4>2. Cardinality(probes') = 1
        BY <4>1, FS_Singleton
      <4>3. QED
        BY <4>1, <4>2 DEF ProbesCounted
    <3>2. CASE ~CooledDown /\ Probing /\ Allowed
      <4>1. /\ probes' = probes \cup {c} /\ state = "HALF_OPEN"
            /\ half_open_calls < HalfOpenMaxCalls
            /\ half_open_calls' = half_open_calls + 1 /\ proven' = proven
        BY <2>1, <3>2 DEF Consult, Probing, ProbesUsed, Allowed
      <4>2. /\ Cardinality(probes') = Cardinality(probes) + 1
            /\ Cardinality(probes) \in Nat
        BY <2>2, <4>1, ProbeSets
      <4>3. QED
        BY <4>1, <4>2 DEF ProbesCounted, BreakerInv, TypeOK
    <3>3. CASE ~CooledDown /\ ~(Probing /\ Allowed)
      <4>1. /\ probes' = probes /\ state' = state
            /\ half_open_calls' = half_open_calls /\ proven' = proven
        BY <2>1, <3>3 DEF Consult, ProbesUsed, BreakerInv, TypeOK
      <4>2. QED
        BY <4>1 DEF ProbesCounted, BreakerInv
    <3>4. QED
      BY <3>1, <3>2, <3>3
  <2>6. QED
    BY <2>1, <2>2, <2>3, <2>4, <2>5 DEF BreakerInv, TypeOK
<1>6. ASSUME NEW c \in Callers, SkipSaturated(c) \/ CallVanishes(c) PROVE BreakerInv'
  <2>1. /\ UNCHANGED <<record, up, proven>>
        /\ stage' = [stage EXCEPT ![c] = "idle"]
        /\ probes' = probes \ {c}
    BY <1>6 DEF SkipSaturated, CallVanishes, Leave, Goto
  <2>2. /\ Cardinality(probes') <= Cardinality(probes)
        /\ Cardinality(probes) \in Nat /\ Cardinality(probes') \in Nat
    <3>1. probes \in SUBSET Callers
      BY DEF BreakerInv, TypeOK
    <3>2. /\ Cardinality(probes) \in Nat
          /\ Cardinality(probes \ {c}) \in Nat
          /\ Cardinality(probes \ {c})
               = IF c \in probes THEN Cardinality(probes) - 1 ELSE Cardinality(probes)
      BY <3>1, ProbeSets
    <3>3. QED
      BY <2>1, <3>2
  <2>3. QED
    BY <2>1, <2>2 DEF record, BreakerInv, TypeOK, ProbesUnderway, ProbesCounted,
                      ClosedBelowThreshold
<1>7. ASSUME NEW c \in Callers, StartCall(c) PROVE BreakerInv'
  BY <1>7 DEF StartCall, Goto, record, BreakerInv, TypeOK, ProbesUnderway, ProbesCounted,
              ClosedBelowThreshold
<1>8. ASSUME NEW c \in Callers, CallSucceeds(c) PROVE BreakerInv'
  <2>1. /\ RecordSuccess(c) /\ UNCHANGED up
        /\ stage' = [stage EXCEPT ![c] = "idle"]
    BY <1>8 DEF CallSucceeds, Leave, Goto
  <2>2. WithSuccess \in [Ages -> [ok : Nat, failed : Nat]]
    BY SamplesTyped DEF BreakerInv, TypeOK
  <2>3. TypeOK' /\ ClosedBelowThreshold'
    BY <2>1, <2>2 DEF RecordSuccess, BreakerInv, TypeOK, States, NoEvents, NoSample,
                      ClosedBelowThreshold
  <2>4. ProbesUnderway'
    BY <2>1 DEF RecordSuccess, BreakerInv, TypeOK, ProbesUnderway
  <2>5. ProbesCounted'
    <3>1. /\ Cardinality(probes) \in Nat
          /\ Cardinality(probes \ {c}) \in Nat
          /\ Cardinality(probes \ {c})
               = IF c \in probes THEN Cardinality(probes) - 1 ELSE Cardinality(probes)
      BY ProbeSets DEF BreakerInv, TypeOK
    <3>2. state' = "HALF_OPEN" => /\ state = "HALF_OPEN"
                                  /\ probes' = probes \ {c}
                                  /\ half_open_calls' = half_open_calls
                                  /\ proven' = IF c \in probes THEN proven + 1 ELSE proven
      BY <2>1 DEF RecordSuccess
    <3>3. SUFFICES ASSUME state' = "HALF_OPEN"
                   PROVE  /\ Cardinality(probes') + proven' <= half_open_calls'
                          /\ half_open_calls' <= HalfOpenMaxCalls
      BY DEF ProbesCounted
    <3>4. /\ Cardinality(probes) + proven <= half_open_calls
          /\ half_open_calls <= HalfOpenMaxCalls
          /\ proven \in Nat /\ half_open_calls \in Nat
      BY <3>2, <3>3 DEF ProbesCounted, BreakerInv, TypeOK
    <3>5. Cardinality(probes') = Cardinality(probes \ {c})
      BY <3>2, <3>3
    <3>6. CASE c \in probes
      BY <3>1, <3>2, <3>3, <3>4, <3>5, <3>6
    <3>7. CASE c \notin probes
      BY <3>1, <3>2, <3>3, <3>4, <3>5, <3>7
    <3>8. QED
      BY <3>6, <3>7
  <2>6. QED
    BY <2>3, <2>4, <2>5 DEF BreakerInv
<1>9. ASSUME NEW c \in Callers, CallFails(c) \/ CallRefused(c) PROVE BreakerInv'
  <2>1. /\ RecordFailure(c) /\ UNCHANGED up
        /\ \E where \in {"idle", "retrying"} : stage' = [stage EXCEPT ![c] = where]
    BY <1>9 DEF CallFails, CallRefused, Leave, Goto
  <2>2. WithFailure \in [Ages -> [ok : Nat, failed : Nat]]
    BY SamplesTyped DEF BreakerInv, TypeOK
  <2>3. TypeOK'
    BY <2>1, <2>2 DEF RecordFailure, BreakerInv, TypeOK, States
  <2>4. ClosedBelowThreshold'
    BY <2>1 DEF RecordFailure, Trips, BreakerInv, TypeOK, ClosedBelowThreshold
  <2>5. ProbesUnderway' /\ (state' = "HALF_OPEN" => FALSE)
    BY <2>1 DEF RecordFailure, Trips, BreakerInv, TypeOK, ProbesUnderway
  <2>6. QED
    BY <2>3, <2>4, <2>5 DEF BreakerInv, ProbesCounted
<1>10. QED
  BY <1>1, <1>2, <1>3, <1>4, <1>5, <1>6, <1>7, <1>8, <1>9 DEF Next

(* The breaker's record keeps its shape in every interleaving.             *)
THEOREM TypeCorrect == Spec => []TypeOK
<1>1. BreakerInv => TypeOK
  BY DEF BreakerInv
<1>2. QED
  BY <1>1, BreakerInit, BreakerStep, PTL DEF Spec

(* A half-open period never has more than half_open_max_calls probes under *)
(* way or succeeded, whoever else consults the breaker meanwhile.          *)
THEOREM ProbesBounded == Spec => []ProbeBound
<1>1. ASSUME BreakerInv PROVE ProbeBound
  <2>1. Cardinality(probes) \in Nat
    BY <1>1, ProbeSets DEF BreakerInv, TypeOK
  <2>2. QED
    BY <1>1, <2>1, ConfigAssumption DEF BreakerInv, TypeOK, ProbesCounted, ProbeBound
<1>2. QED
  BY <1>1, BreakerInit, BreakerStep, PTL DEF Spec

(* A closed breaker never hides a run of failures that reached the         *)
(* threshold, even one recorded while it was open or half-open.            *)
THEOREM ClosedIsBelowThreshold == Spec => []ClosedBelowThreshold
<1>1. BreakerInv => ClosedBelowThreshold
  BY DEF BreakerInv
<1>2. QED
  BY <1>1, BreakerInit, BreakerStep, PTL DEF Spec

(* An open breaker lets at most MaxAttempts calls through to each caller   *)
(* that had its permission before, and fewer to one of them: what the      *)
(* retries of dispatcher.py:76-86, which do not ask again, can amount to.  *)
THEOREM OpenCallsAreBounded == Spec => []OpenCallsBounded
<1>1. ASSUME BreakerInv PROVE OpenCallsBounded
  BY <1>1 DEF BreakerInv, CallsInv, StraysOwed, OpenedByOne, Opener, OpenCallsBounded
<1>2. QED
  BY <1>1, BreakerInit, BreakerStep, PTL DEF Spec
=============================================================================
