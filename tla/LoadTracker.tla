---------------------------- MODULE LoadTracker ----------------------------
(***************************************************************************)
(* The load of one model: ModelLoadTracker (governance/load.py) as the     *)
(* dispatcher uses it, over the windows and the gauge of redis_store.py    *)
(* that all replicas share.                                                *)
(*                                                                         *)
(* Every storage command is a step.  Capacity is looked at first, with up  *)
(* to three reads, and taken later with up to three writes, so requests    *)
(* overtake each other in between.  A gauge that a decrement finds below   *)
(* zero is set to zero by a second command.  Replicas die here at any      *)
(* command; commands that raise or are cancelled while their task goes on  *)
(* are Gateway.tla's.                                                      *)
(***************************************************************************)
EXTENDS Traffic

CONSTANTS
    MaxRpm, MaxTpm, MaxConcurrency,  \* capacity of the model; 0 is no limit
    Queueing,                        \* overflow.enabled and overflow.queue_enabled
    MaxPolls,                        \* bound: looks while queueing
    Attempts                         \* attempts on one model before failing over

ASSUME LoadAssumption ==
    /\ MaxRpm \in Nat /\ MaxTpm \in Nat /\ MaxConcurrency \in Nat
    /\ Queueing \in BOOLEAN
    /\ MaxPolls \in Nat
    /\ Attempts \in Nat \ {0}

VARIABLES
    rpm, tpm,     \* the windows of the current minute
    gauge,        \* model:inflight
    stage,        \* stage[r]: the command that r stands before
    room,         \* room[r]: what r read so far leaves room for it
    polls,        \* polls[r]: looks r has made while queueing
    tries,        \* tries[r]: attempts of r that were reserved
    outcome,      \* outcome[r]: how the last call of r ended
    reported,     \* reported[r]: the usage its answer reported
    crashed,      \* the requests whose replica died
    lost,         \* history: whether the gauge was ever lost
    moved,        \* history: the tokens r added to the windows in sum
    crowd         \* history: the most requests at once between look and gauge

loadVars == <<rpm, tpm, gauge, stage, room, polls, tries, outcome, reported,
              crashed, lost, moved, crowd>>

Looks == {"look_rpm", "look_tpm", "look_gauge"}
Reserves == {"reserve_rpm", "reserve_tpm", "reserve_gauge"}
Corrections == {"correct_up", "correct_down"}
Ends == {"turned_away", "served", "failed"}

Unreported == [prompt |-> 0, completion |-> 0]

LoadTypeOK ==
    /\ rpm \in Nat /\ tpm \in Int /\ gauge \in Int
    /\ stage \in [Requests -> {"new", "sleep", "call", "release_gauge", "release_tpm"}
                                \cup Looks \cup Reserves \cup Corrections \cup Ends]
    /\ room \in [Requests -> BOOLEAN]
    /\ polls \in [Requests -> 0..MaxPolls]
    /\ tries \in [Requests -> 0..Attempts]
    /\ outcome \in [Requests -> {"none", "served", "failed", "again"}]
    /\ reported \in [Requests -> Usages \cup {Unreported}]
    /\ crashed \subseteq Requests
    /\ lost \in BOOLEAN
    /\ moved \in [Requests -> Int]
    /\ crowd \in Nat

LoadInit ==
    /\ rpm = 0 /\ tpm = 0 /\ gauge = 0
    /\ stage = [r \in Requests |-> "new"]
    /\ room = [r \in Requests |-> TRUE]
    /\ polls = [r \in Requests |-> 0]
    /\ tries = [r \in Requests |-> 0]
    /\ outcome = [r \in Requests |-> "none"]
    /\ reported = [r \in Requests |-> Unreported]
    /\ crashed = {}
    /\ lost = FALSE
    /\ moved = [r \in Requests |-> 0]
    /\ crowd = 0

Alive(r, s) == stage[r] = s /\ r \notin crashed
Goto(r, s) == stage' = [stage EXCEPT ![r] = s]

(* The requests in the gauge, whatever became of their replica.            *)
Counted == {r \in Requests : stage[r] \in {"correct_up", "call", "release_gauge"}}

(* The requests that found room, or try again without looking for it, and  *)
(* are not counted (yet).                                                  *)
Committed ==
    {r \in Requests : \/ stage[r] \in Reserves
                      \/ stage[r] \in {"correct_down", "release_tpm"} /\ outcome[r] = "again"}
Commit == crowd' = Larger(crowd, Cardinality(Committed'))

windows == <<rpm, tpm, moved>>
results == <<tries, outcome, reported>>
others == <<crashed, lost>>

---------------------------------------------------------------------------
(* _ensure_capacity and wait_for_capacity over snapshot and has_headroom *)

FirstLook == CASE MaxRpm > 0 -> "look_rpm"
               [] MaxRpm = 0 /\ MaxTpm > 0 -> "look_tpm"
               [] OTHER -> "look_gauge"

AfterRpm == IF MaxTpm > 0 THEN "look_tpm" ELSE "look_gauge"

FirstReserve(r) == CASE MaxRpm > 0 -> "reserve_rpm"
                     [] MaxRpm = 0 /\ MaxTpm > 0 /\ Projected[r] > 0 -> "reserve_tpm"
                     [] OTHER -> "reserve_gauge"

Ask(r) ==
    /\ Alive(r, "new")
    /\ Goto(r, FirstLook)
    /\ UNCHANGED <<windows, gauge, room, polls, results, others, crowd>>

LookAtRpm(r) ==
    /\ Alive(r, "look_rpm")
    /\ room' = [room EXCEPT ![r] = rpm + 1 <= MaxRpm]
    /\ Goto(r, AfterRpm)
    /\ UNCHANGED <<windows, gauge, polls, results, others, crowd>>

LookAtTpm(r) ==
    /\ Alive(r, "look_tpm")
    /\ room' = [room EXCEPT ![r] = @ /\ tpm + Projected[r] <= MaxTpm]
    /\ Goto(r, "look_gauge")
    /\ UNCHANGED <<windows, gauge, polls, results, others, crowd>>

HeadroomUpToLimit(r) ==                     \* mutant: one request too many
    room[r] /\ (MaxConcurrency > 0 => gauge <= MaxConcurrency)
Headroom(r) == room[r] /\ (MaxConcurrency > 0 => gauge < MaxConcurrency)

(* The last read; the verdict follows in the same turn of the event loop.  *)
LookAtGauge(r) ==
    /\ Alive(r, "look_gauge")
    /\ Goto(r, CASE Headroom(r) -> FirstReserve(r)
                 [] ~Headroom(r) /\ Queueing -> "sleep"
                 [] OTHER -> "turned_away")
    /\ room' = [room EXCEPT ![r] = TRUE]
    /\ UNCHANGED <<windows, gauge, polls, results, others>>
    /\ Commit

Poll(r) ==
    /\ Alive(r, "sleep")
    /\ polls[r] < MaxPolls
    /\ polls' = [polls EXCEPT ![r] = @ + 1]
    /\ Goto(r, FirstLook)
    /\ UNCHANGED <<windows, gauge, room, results, others, crowd>>

(* The deadline has passed; the loop looked at least once. *)
GiveUp(r) ==
    /\ Alive(r, "sleep")
    /\ polls[r] > 0
    /\ Goto(r, "turned_away")
    /\ UNCHANGED <<windows, gauge, room, polls, results, others, crowd>>

---------------------------------------------------------------------------
(* reserve, the upstream call, release *)

ReserveRpm(r) ==
    /\ Alive(r, "reserve_rpm")
    /\ rpm' = rpm + 1
    /\ Goto(r, IF MaxTpm > 0 /\ Projected[r] > 0 THEN "reserve_tpm" ELSE "reserve_gauge")
    /\ UNCHANGED <<tpm, moved, gauge, room, polls, results, others, crowd>>

AddTokens(r, tokens) ==
    /\ tpm' = tpm + tokens
    /\ moved' = [moved EXCEPT ![r] = @ + tokens]

ReserveTpm(r) ==
    /\ Alive(r, "reserve_tpm")
    /\ AddTokens(r, Projected[r])
    /\ Goto(r, "reserve_gauge")
    /\ UNCHANGED <<rpm, gauge, room, polls, results, others, crowd>>

(* incr_gauge: INCRBY, and a correction to come if the answer is negative. *)
ReserveGauge(r) ==
    /\ Alive(r, "reserve_gauge")
    /\ gauge' = gauge + 1
    /\ tries' = [tries EXCEPT ![r] = @ + 1]
    /\ Goto(r, IF gauge + 1 < 0 THEN "correct_up" ELSE "call")
    /\ UNCHANGED <<windows, room, polls, outcome, reported, others, crowd>>

CallEnds(r, how) ==
    /\ Alive(r, "call")
    /\ outcome' = [outcome EXCEPT ![r] = how]
    /\ Goto(r, "release_gauge")
    /\ UNCHANGED <<windows, gauge, room, polls, tries, others, crowd>>

CallServed(r) ==
    /\ CallEnds(r, "served")
    /\ \E used \in Usages : reported' = [reported EXCEPT ![r] = used]

(* A response is tried again on the same model only if there is no         *)
(* failover (Attempts is 1 otherwise), a stream never.                     *)
TryAgain(r) == tries[r] < Attempts /\ r \notin Streams

(* An error, or a stream that breaks or is left by its client.             *)
CallFailed(r) ==
    /\ CallEnds(r, IF TryAgain(r) THEN "again" ELSE "failed")
    /\ UNCHANGED reported

CallRejected(r) ==                          \* an error that is not retryable
    /\ CallEnds(r, "failed")
    /\ UNCHANGED reported

(* actual_tokens of release; every failure passes 0.                       *)
OwedForFailure(r) == DispatchedTokens(r, reported[r])     \* mutant: also after a failure
Owed(r) == IF outcome[r] = "served" THEN DispatchedTokens(r, reported[r]) ELSE 0

Released(r) == IF outcome[r] = "again" THEN FirstReserve(r) ELSE outcome[r]

AfterGauge(r) ==
    IF MaxTpm > 0 /\ Owed(r) # Projected[r] THEN "release_tpm" ELSE Released(r)

ReleaseGaugeIfServed(r) ==                  \* mutant: a failed attempt stays counted
    /\ Alive(r, "release_gauge")
    /\ gauge' = IF outcome[r] = "served" THEN gauge - 1 ELSE gauge
    /\ Goto(r, IF gauge - 1 < 0 THEN "correct_down" ELSE AfterGauge(r))
    /\ UNCHANGED <<windows, room, polls, results, others>>
    /\ Commit

ReleaseGauge(r) ==
    /\ Alive(r, "release_gauge")
    /\ gauge' = gauge - 1
    /\ Goto(r, IF gauge - 1 < 0 THEN "correct_down" ELSE AfterGauge(r))
    /\ UNCHANGED <<windows, room, polls, results, others>>
    /\ Commit

ReleaseTpm(r) ==
    /\ Alive(r, "release_tpm")
    /\ AddTokens(r, Owed(r) - Projected[r])
    /\ Goto(r, Released(r))
    /\ UNCHANGED <<rpm, gauge, room, polls, results, others, crowd>>

(* The second command of incr_gauge: SET 0, whatever came in between.      *)
CorrectGauge(r) ==
    /\ stage[r] \in Corrections /\ r \notin crashed
    /\ gauge' = 0
    /\ Goto(r, IF stage[r] = "correct_up" THEN "call" ELSE AfterGauge(r))
    /\ UNCHANGED <<windows, room, polls, results, others, crowd>>

---------------------------------------------------------------------------
(* The clock and what goes wrong *)

NextMinute ==
    /\ rpm' = 0 /\ tpm' = 0
    /\ UNCHANGED <<gauge, stage, room, polls, results, others, moved, crowd>>

(* The key expires under a request of more than an hour, or the store      *)
(* restarts without it.                                                    *)
LoseGauge ==
    /\ gauge' = 0
    /\ lost' = TRUE
    /\ UNCHANGED <<windows, stage, room, polls, results, crashed, crowd>>

(* The replica that serves r dies: nobody releases what r reserved.        *)
Crash(r) ==
    /\ r \notin crashed
    /\ stage[r] \notin {"new"} \cup Ends
    /\ crashed' = crashed \cup {r}
    /\ UNCHANGED <<windows, gauge, stage, room, polls, results, lost, crowd>>

LoadStep(r) ==
    \/ Ask(r) \/ LookAtRpm(r) \/ LookAtTpm(r) \/ LookAtGauge(r) \/ Poll(r) \/ GiveUp(r)
    \/ ReserveRpm(r) \/ ReserveTpm(r) \/ ReserveGauge(r)
    \/ CallServed(r) \/ CallFailed(r) \/ CallRejected(r)
    \/ ReleaseGauge(r) \/ ReleaseTpm(r) \/ CorrectGauge(r)

LoadNext == NextMinute \/ LoseGauge \/ \E r \in Requests : LoadStep(r) \/ Crash(r)

LoadSpec == LoadInit /\ [][LoadNext]_loadVars

---------------------------------------------------------------------------
(* Properties *)

(* The gauge never makes a model look busier than it is, not even after    *)
(* corrections that overwrite another request's increment; it is exact     *)
(* as long as its key was never lost; and below zero, where it would       *)
(* invite too many requests, only until the correction of the request that *)
(* took it there (redis_store.py:219-228).                                 *)
GaugeHonest ==
    /\ gauge <= Cardinality(Counted)
    /\ ~lost => gauge = Cardinality(Counted)
    /\ gauge < 0 => \E r \in Requests : stage[r] \in Corrections

(* A snapshot is old when the reservation comes: the model is over its     *)
(* concurrency by at most the requests, but for one, that were once        *)
(* between the two at the same time, a retry that does not look again      *)
(* included (load.py:87-122, dispatcher.py:70-84).                         *)
LoadOvershoot ==
    MaxConcurrency > 0 /\ ~lost =>
        Cardinality(Counted) + Cardinality(Committed) <= MaxConcurrency - 1 + crowd
=============================================================================
