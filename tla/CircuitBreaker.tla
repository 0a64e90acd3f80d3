--------------------------- MODULE CircuitBreaker ---------------------------
(***************************************************************************)
(* The circuit breaker of one model (governance/circuit_breaker.py) and    *)
(* the callers that consult it.                                            *)
(*                                                                         *)
(* allows() is a check with a side effect: it moves an open breaker whose  *)
(* cool-down is over to half-open, and in half-open it counts the caller   *)
(* as a probe.  It is called by the router when it filters the candidates  *)
(* and builds the fallback chain, by the dispatcher before each model of   *)
(* the chain, and by the readiness probe; only the dispatcher goes on to   *)
(* make a call whose outcome is recorded.  Calls last: an outcome may be   *)
(* recorded in a later state of the breaker than the one it started in.    *)
(*                                                                         *)
(* The breaker is process-local and its methods contain no await, so each  *)
(* is one step.  Time is discrete and unbounded: ages and the run of       *)
(* failures saturate at the limit the code compares them with.             *)
(***************************************************************************)
EXTENDS Integers, FiniteSets, FiniteSetsExt

CONSTANTS
    Routed,             \* callers that reach the model through the router
    Pinned,             \* callers that name the model: only dispatch asks
    HealthChecks,       \* whether /readyz is polled
    Losses,             \* whether a permitted call may end unrecorded
    Refusals,           \* whether the upstream may refuse a request (4xx)
    ModelRetries,       \* whether a model is retried: model failover is off
    MaxAttempts,        \* retry.max_attempts
    FailureThreshold,   \* circuit_breaker.failure_threshold
    MinRequests,        \* circuit_breaker.min_requests
    RatePercent,        \* circuit_breaker.failure_rate_threshold, in percent
    OpenSeconds,        \* circuit_breaker.open_seconds, in ticks
    WindowSeconds,      \* circuit_breaker.window_seconds, in ticks
    HalfOpenMaxCalls,   \* circuit_breaker.half_open_max_calls
    MaxEvents           \* bound: samples and calls under way at one time

Callers == Routed \cup Pinned

ASSUME CallersAssumption ==
    /\ IsFiniteSet(Callers)
    /\ HealthChecks \in BOOLEAN
    /\ Losses \in BOOLEAN
    /\ Refusals \in BOOLEAN
    /\ ModelRetries \in BOOLEAN
ASSUME ConfigAssumption ==
    /\ FailureThreshold \in Nat \ {0}
    /\ MinRequests \in Nat \ {0}
    /\ RatePercent \in 1..100
    /\ OpenSeconds \in Nat \ {0}
    /\ WindowSeconds \in Nat \ {0}
    /\ HalfOpenMaxCalls \in Nat \ {0}
    /\ MaxAttempts \in Nat \ {0}
    /\ MaxEvents \in Nat

VARIABLES
    state,                \* BreakerState
    elapsed,              \* now - opened_at, saturating at OpenSeconds
    half_open_calls,
    half_open_successes,
    consecutive_failures,
    events,               \* events[a]: the samples of age a, by outcome
    stage,                \* stage[c]: where caller c is
    tries,                \* tries[c]: the calls c has made on its permission
    up,                   \* whether the upstream works; one that refuses does
    \* History of the current half-open period:
    probes,               \* the probe calls under way
    proven,               \* the probe calls that succeeded
    \* History of the current open period:
    strays                \* strays[c]: the calls c has started in it

record == <<state, elapsed, half_open_calls, half_open_successes,
            consecutive_failures, events>>
vars == <<record, stage, tries, up, probes, proven, strays>>

Ages == 0..WindowSeconds
NoSample == [ok |-> 0, failed |-> 0]
NoEvents == [a \in Ages |-> NoSample]
NoCalls == [c \in Callers |-> 0]

States == {"CLOSED", "OPEN", "HALF_OPEN"}

TypeOK ==
    /\ state \in States
    /\ elapsed \in 0..OpenSeconds
    /\ half_open_calls \in 0..HalfOpenMaxCalls
    /\ half_open_successes \in Nat
    /\ consecutive_failures \in 0..FailureThreshold
    /\ events \in [Ages -> [ok : Nat, failed : Nat]]
    /\ stage \in [Callers -> {"idle", "routed", "permitted", "calling", "retrying"}]
    /\ tries \in [Callers -> 0..MaxAttempts]
    /\ up \in BOOLEAN
    /\ probes \subseteq Callers
    /\ proven \in Nat
    /\ strays \in [Callers -> Nat]

Init ==
    /\ state = "CLOSED"
    /\ elapsed = OpenSeconds
    /\ half_open_calls = 0
    /\ half_open_successes = 0
    /\ consecutive_failures = 0
    /\ events = NoEvents
    /\ stage = [c \in Callers |-> "idle"]
    /\ tries = NoCalls
    /\ up = TRUE
    /\ probes = {}
    /\ proven = 0
    /\ strays = NoCalls

Goto(c, where) == stage' = [stage EXCEPT ![c] = where]
Leave(c) == Goto(c, "idle") /\ tries' = [tries EXCEPT ![c] = 0]

---------------------------------------------------------------------------
(* allows *)

CooledDown == state = "OPEN" /\ elapsed >= OpenSeconds
Probing == CooledDown \/ state = "HALF_OPEN"
ProbesUsed == IF CooledDown THEN 0 ELSE half_open_calls

AllowedOnceMore ==                          \* mutant: one probe too many
    state = "CLOSED" \/ (Probing /\ ProbesUsed <= HalfOpenMaxCalls)
AllowedStillOpen ==                         \* mutant: an open breaker is passed over
    ~Probing \/ ProbesUsed < HalfOpenMaxCalls
Allowed == state = "CLOSED" \/ (Probing /\ ProbesUsed < HalfOpenMaxCalls)

(* The side effect of allows(), whatever it answers. *)
Consult ==
    /\ state' = IF CooledDown THEN "HALF_OPEN" ELSE state
    /\ half_open_calls' = ProbesUsed + (IF Probing /\ Allowed THEN 1 ELSE 0)
    /\ half_open_successes' = IF CooledDown THEN 0 ELSE half_open_successes
    /\ proven' = IF CooledDown THEN 0 ELSE proven
    /\ strays' = IF CooledDown THEN NoCalls ELSE strays
    /\ UNCHANGED <<elapsed, consecutive_failures, events>>

Samples(evts) == MapThenSumSet(LAMBDA a : evts[a].ok + evts[a].failed, Ages)
Failures(evts) == MapThenSumSet(LAMBDA a : evts[a].failed, Ages)

WithSuccess == [events EXCEPT ![0] = [ok |-> @.ok + 1, failed |-> @.failed]]
WithFailure == [events EXCEPT ![0] = [ok |-> @.ok, failed |-> @.failed + 1]]

ProvesLate == half_open_successes >= HalfOpenMaxCalls \* mutant: one success more
Proves == half_open_successes + 1 >= HalfOpenMaxCalls

RecordSuccess(c) ==
    LET closes == state = "HALF_OPEN" /\ Proves
    IN  /\ consecutive_failures' = 0
        /\ half_open_successes' =
            IF state = "HALF_OPEN" THEN half_open_successes + 1 ELSE half_open_successes
        /\ state' = IF closes THEN "CLOSED" ELSE state
        /\ events' = IF closes THEN NoEvents ELSE WithSuccess
        /\ proven' = IF c \in probes THEN proven + 1 ELSE proven
        /\ probes' = IF closes THEN {} ELSE probes \ {c}
        /\ UNCHANGED <<elapsed, half_open_calls, strays>>

TripsLate ==                                \* mutant: one failure too many, no rate
    \/ state = "HALF_OPEN"
    \/ consecutive_failures >= FailureThreshold

Trips ==
    \/ state = "HALF_OPEN"
    \/ consecutive_failures + 1 >= FailureThreshold
    \/ /\ Samples(WithFailure) >= MinRequests
       /\ Failures(WithFailure) * 100 >= RatePercent * Samples(WithFailure)

(* While the breaker is open already, it starts the cool-down afresh.      *)
RecordFailure(c) ==
    /\ consecutive_failures' = IF consecutive_failures < FailureThreshold
                                 THEN consecutive_failures + 1 ELSE FailureThreshold
    /\ events' = WithFailure
    /\ IF Trips
         THEN /\ state' = "OPEN"
              /\ elapsed' = 0
              /\ half_open_calls' = 0
              /\ half_open_successes' = 0
              /\ probes' = {}
              /\ proven' = 0
         ELSE /\ probes' = probes \ {c}
              /\ UNCHANGED <<state, elapsed, half_open_calls, half_open_successes, proven>>
    /\ UNCHANGED strays

---------------------------------------------------------------------------
(* The callers *)

Underway == {c \in Callers : stage[c] \in {"permitted", "calling", "retrying"}}
HasRoom == Samples(events) + Cardinality(Underway) < MaxEvents

(* Router.route and _build_fallbacks: the model is kept or dropped.  A     *)
(* model that allows() refuses is still routed to when no candidate is     *)
(* healthy, and one it admits may lose to a better candidate.              *)
RouteCheck(c) ==
    /\ c \in Routed
    /\ stage[c] = "idle"
    /\ Consult
    /\ \E where \in {"routed", "idle"} : Goto(c, where)
    /\ probes' = IF CooledDown THEN {} ELSE probes
    /\ UNCHANGED <<tries, up>>

(* Dispatcher.dispatch / dispatch_stream: the model's turn in the chain.   *)
DispatchCheck(c) ==
    /\ stage[c] = "routed" \/ (c \in Pinned /\ stage[c] = "idle")
    /\ HasRoom
    /\ Consult
    /\ Goto(c, IF Allowed THEN "permitted" ELSE "idle")
    /\ probes' = (IF CooledDown THEN {} ELSE probes)
                    \cup (IF Probing /\ Allowed THEN {c} ELSE {})
    /\ UNCHANGED <<tries, up>>

(* _ensure_capacity: the saturated model is skipped, nothing is recorded.  *)
SkipSaturated(c) ==
    /\ Losses
    /\ stage[c] = "permitted"
    /\ Leave(c)
    /\ probes' = probes \ {c}
    /\ UNCHANGED <<record, up, proven, strays>>

(* An attempt: the breaker is not asked again, whatever its state is now.  *)
StartCall(c) ==
    /\ stage[c] \in {"permitted", "retrying"}
    /\ Goto(c, "calling")
    /\ tries' = [tries EXCEPT ![c] = @ + 1]
    /\ strays' = IF state = "OPEN" THEN [strays EXCEPT ![c] = @ + 1] ELSE strays
    /\ UNCHANGED <<record, up, probes, proven>>

CallSucceeds(c) ==
    /\ stage[c] = "calling"
    /\ up
    /\ RecordSuccess(c)
    /\ Leave(c)
    /\ UNCHANGED up

(* The upstream is down, overloaded or cannot be understood: the attempt   *)
(* is retryable, on this model if failover is off and attempts are left.   *)
CallFails(c) ==
    /\ stage[c] = "calling"
    /\ ~up
    /\ RecordFailure(c)
    /\ \/ Leave(c)
       \/ /\ ModelRetries /\ tries[c] < MaxAttempts /\ HasRoom
          /\ Goto(c, "retrying")
          /\ UNCHANGED tries
    /\ UNCHANGED up

(* A healthy upstream answers 4xx: "a genuine client error", which ends    *)
(* the request and is recorded as a failure of the model all the same.     *)
CallRefused(c) ==
    /\ Refusals
    /\ stage[c] = "calling"
    /\ up
    /\ RecordFailure(c)
    /\ Leave(c)
    /\ UNCHANGED up

(* A stream whose client disconnects, or that breaks off below httpx,      *)
(* leaves dispatch_stream without record_success or record_failure.        *)
CallVanishes(c) ==
    /\ Losses
    /\ stage[c] = "calling"
    /\ Leave(c)
    /\ probes' = probes \ {c}
    /\ UNCHANGED <<record, up, proven, strays>>

(* GET /readyz asks every breaker and calls nobody. *)
Readyz ==
    /\ HealthChecks
    /\ Consult
    /\ probes' = IF CooledDown THEN {} ELSE probes
    /\ UNCHANGED <<stage, tries, up>>

---------------------------------------------------------------------------
(* The environment *)

(* A second passes.  A sample that leaves the window is dropped here: the  *)
(* code prunes lazily, but always before it counts.                        *)
Tick ==
    /\ elapsed' = IF elapsed < OpenSeconds THEN elapsed + 1 ELSE elapsed
    /\ events' = [a \in Ages |-> IF a = 0 THEN NoSample ELSE events[a - 1]]
    /\ UNCHANGED <<state, half_open_calls, half_open_successes,
                   consecutive_failures, stage, tries, up, probes, proven, strays>>

Outage == up /\ up' = FALSE /\ UNCHANGED <<record, stage, tries, probes, proven, strays>>
Recovery == ~up /\ up' = TRUE /\ UNCHANGED <<record, stage, tries, probes, proven, strays>>

Next ==
    \/ Tick \/ Outage \/ Recovery \/ Readyz
    \/ \E c \in Callers :
         \/ RouteCheck(c) \/ DispatchCheck(c) \/ SkipSaturated(c)
         \/ StartCall(c) \/ CallSucceeds(c) \/ CallFails(c) \/ CallRefused(c)
         \/ CallVanishes(c)

Spec == Init /\ [][Next]_vars

(* Time passes, requests keep arriving and being dispatched, and a call    *)
(* ends, by an answer or by the client's timeout.                          *)
Fairness ==
    /\ WF_vars(Tick)
    /\ \A c \in Callers :
         /\ WF_vars(RouteCheck(c) /\ stage'[c] = "routed")
         /\ WF_vars(DispatchCheck(c))
         /\ WF_vars(StartCall(c))
         /\ WF_vars(CallSucceeds(c) \/ CallFails(c) \/ CallRefused(c))
FairSpec == Spec /\ Fairness

---------------------------------------------------------------------------
(* Properties *)

(* One half-open period lets through at most half_open_max_calls calls,    *)
(* those under way and those that have succeeded together, whoever else    *)
(* consults the breaker and whichever older calls end meanwhile.           *)
ProbeBound == state = "HALF_OPEN" => Cardinality(probes) + proven <= HalfOpenMaxCalls

(* A breaker is never closed with a run of failures that should have       *)
(* tripped it, even when the failures were recorded in another state.      *)
ClosedBelowThreshold == state = "CLOSED" => consecutive_failures < FailureThreshold

(* "OPEN = failing; calls are rejected outright" (circuit_breaker.py:22)   *)
(* is not what dispatch makes of it: attempts go on that were permitted    *)
(* before the breaker opened, each permission good for MaxAttempts calls,  *)
(* of which the caller that opened it has used one.  That is all: nothing  *)
(* that ends, is asked or is retried in an open period adds to it, though  *)
(* late failures prolong the period.                                       *)
OpenCallsBounded ==
    state = "OPEN" => /\ \A c \in Callers : strays[c] <= MaxAttempts
                      /\ \E c \in Callers : strays[c] < MaxAttempts

(* A model whose upstream has recovered for good returns to service: the   *)
(* breaker's purpose, "closed -> open -> half-open auto-probing".          *)
Recovers == <>[]up => <>[](state = "CLOSED")

(* All probes are spent, but not all on calls that have succeeded, and no  *)
(* call is left that could report an outcome.                              *)
Starved ==
    /\ state = "HALF_OPEN"
    /\ half_open_calls = HalfOpenMaxCalls
    /\ proven < HalfOpenMaxCalls
    /\ Underway = {}

(* Whatever calls are lost or skipped for capacity and whoever else asks,  *)
(* once the upstream works for good the breaker of allows()                *)
(* (circuit_breaker.py:56) closes for good, unless it has spent its probes *)
(* on callers that reported nothing or the upstream keeps refusing         *)
(* requests, which dispatch records as failures (dispatcher.py:91).        *)
RecoversOrStarves ==
    <>[]up => \/ <>[](state = "CLOSED")
              \/ <>[]Starved
              \/ []<><<\E c \in Callers : CallRefused(c)>>_vars
=============================================================================
