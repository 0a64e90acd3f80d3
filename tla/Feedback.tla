------------------------------ MODULE Feedback ------------------------------
(***************************************************************************)
(* The feedback loop (routing/feedback.py, GatewayService.submit_feedback) *)
(* over Redis: the statistics of one model, one record per complexity band *)
(* and the aggregate "all", which served requests and ratings update with  *)
(* RedisStorage.update_stats, and the correlation records that tie a       *)
(* rating to the request it is about.                                      *)
(*                                                                         *)
(* A job is the accounting of a request or the submission of a rating.     *)
(* Jobs run in any replica; one Redis command is one step.  A record is    *)
(* abstracted to the set of the samples that are folded into its averages. *)
(***************************************************************************)
EXTENDS Integers, FiniteSets

CONSTANTS
    Requests,   \* the requests a rating may name
    Earlier,    \* those that were accounted for and remembered before
    Ratings,    \* the submissions of explicit feedback
    Bands,      \* the complexity bands
    BandOf,     \* BandOf[q]: the band of request q, "all" if it was not assessed
    MaxTries,   \* the attempts of update_stats before it writes blindly
    Failures    \* whether storage commands may raise and replicas crash

Jobs == Requests \cup Ratings
Active == Jobs \ Earlier
Keys == Bands \cup {"all"}

ASSUME JobsAssumption ==
    /\ IsFiniteSet(Jobs)
    /\ Requests \cap Ratings = {}
    /\ Earlier \subseteq Requests
ASSUME BandsAssumption == BandOf \in [Requests -> Keys]
ASSUME TriesAssumption == MaxTries \in Nat \ {0}
ASSUME FailuresAssumption == Failures \in BOOLEAN

VARIABLES
    about,      \* about[f]: the request that rating f names, its request_id
    stats,      \* stats[k]: the samples in the record of k
    writes,     \* writes[k]: how often k was written; what WATCH looks at
    records,    \* the requests whose correlation record is stored
    at,         \* at[j]: the command job j stands before
    key,        \* key[j]: the record j is updating
    tries,      \* tries[j]: the conflicts of the update under way
    watched,    \* watched[j]: writes[key[j]] when j watched it
    seen,       \* seen[j]: the record as j read it
    folded,     \* folded[j]: the records that j has written
    accepted    \* the ratings that were answered with accepted = true

storage == <<stats, writes, records>>
vars == <<about, storage, at, key, tries, watched, seen, folded, accepted>>

Updating == {"watch", "exec", "read", "write"}

TypeOK ==
    /\ about \in [Ratings -> Requests]
    /\ stats \in [Keys -> SUBSET Jobs]
    /\ writes \in [Keys -> Nat]
    /\ records \subseteq Requests
    /\ at \in [Jobs -> {"start", "remember", "done"} \cup Updating]
    /\ key \in [Jobs -> Keys]
    /\ tries \in [Jobs -> 0..MaxTries]
    /\ watched \in [Jobs -> Nat]
    /\ seen \in [Jobs -> SUBSET Jobs]
    /\ folded \in [Jobs -> SUBSET Keys]
    /\ accepted \subseteq Ratings

Init ==
    /\ about \in [Ratings -> Requests]
    /\ stats = [k \in Keys |-> {}]
    /\ writes = [k \in Keys |-> 0]
    /\ records = Earlier
    /\ at = [j \in Jobs |-> IF j \in Earlier THEN "done" ELSE "start"]
    /\ key = [j \in Jobs |-> "all"]
    /\ tries = [j \in Jobs |-> 0]
    /\ watched = [j \in Jobs |-> 0]
    /\ seen = [j \in Jobs |-> {}]
    /\ folded = [j \in Jobs |-> {}]
    /\ accepted = {}

Subject(j) == IF j \in Ratings THEN about[j] ELSE j

(* for band in {band, "all"}: in any order, as a set of strings is.        *)
KeysOf(j) == {BandOf[Subject(j)], "all"}

Goto(j, place) == at' = [at EXCEPT ![j] = place]

(* The first attempt at the record k. *)
TurnKeepsTries(j, k) ==                     \* mutant: goes on counting conflicts
    /\ Goto(j, "watch")
    /\ key' = [key EXCEPT ![j] = k]
    /\ UNCHANGED tries

Turn(j, k) ==
    /\ Goto(j, "watch")
    /\ key' = [key EXCEPT ![j] = k]
    /\ tries' = [tries EXCEPT ![j] = 0]

---------------------------------------------------------------------------
(* The beginnings *)

(* record_outcome, by _finalise_success or _finalise_failure. *)
Record(q) ==
    /\ q \in Requests
    /\ at[q] = "start"
    /\ \E k \in KeysOf(q) : Turn(q, k)
    /\ UNCHANGED <<storage, watched, seen, folded, accepted>>

(* claim_request: read and delete in one script.                           *)
TakeRecordPeeks(f) == UNCHANGED records     \* mutant: reads without deleting
TakeRecord(f) == records' = records \ {about[f]}

Claim(f) ==
    /\ f \in Ratings
    /\ at[f] = "start"
    /\ IF about[f] \in records
         THEN TakeRecord(f) /\ \E k \in KeysOf(f) : Turn(f, k)
         ELSE Goto(f, "done") /\ UNCHANGED <<records, key, tries>>
    /\ UNCHANGED <<stats, writes, watched, seen, folded, accepted>>

---------------------------------------------------------------------------
(* update_stats *)

ReadRecord(j) == seen' = [seen EXCEPT ![j] = stats[key[j]]]

(* WATCH and GET.  A write between the two makes EXEC fail just as one     *)
(* after them does, so they are one step.                                  *)
Watch(j) ==
    /\ at[j] = "watch"
    /\ watched' = [watched EXCEPT ![j] = writes[key[j]]]
    /\ ReadRecord(j)
    /\ Goto(j, "exec")
    /\ UNCHANGED <<storage, key, tries, folded, accepted>>

(* SET of the record with j's sample folded in.                            *)
Store(j) ==
    /\ stats' = [stats EXCEPT ![key[j]] = seen[j] \cup {j}]
    /\ writes' = [writes EXCEPT ![key[j]] = @ + 1]
    /\ folded' = [folded EXCEPT ![j] = @ \cup {key[j]}]

(* What follows record_feedback and record_outcome: a request that failed  *)
(* upstream leaves a sample but nothing to rate.                           *)
After(j) == IF j \in Ratings THEN {"done"} ELSE {"remember", "done"}

(* The other record, or the end of record_outcome and record_feedback.     *)
ProceedAfterOne(j) ==                       \* mutant: the band only, or "all" only
    /\ \E place \in After(j) : Goto(j, place)
    /\ accepted' = accepted \cup (Ratings \cap {j})
    /\ UNCHANGED <<key, tries>>

Proceed(j) ==
    IF KeysOf(j) \subseteq folded'[j]
      THEN /\ \E place \in After(j) : Goto(j, place)
           /\ accepted' = accepted \cup (Ratings \cap {j})
           /\ UNCHANGED <<key, tries>>
      ELSE /\ \E k \in KeysOf(j) \ folded'[j] : Turn(j, k)
           /\ UNCHANGED accepted

UnwatchedIgnored(j) == TRUE                 \* mutant: no WATCH
Unwatched(j) == writes[key[j]] = watched[j]

(* EXEC takes effect if nobody has written the record since WATCH.         *)
Execute(j) ==
    /\ at[j] = "exec"
    /\ Unwatched(j)
    /\ Store(j)
    /\ Proceed(j)
    /\ UNCHANGED <<records, watched, seen>>

(* WatchError: try again, in the end without watching.                     *)
Conflict(j) ==
    /\ at[j] = "exec"
    /\ ~Unwatched(j)
    /\ tries' = [tries EXCEPT ![j] = @ + 1]
    /\ Goto(j, IF tries[j] + 1 < MaxTries THEN "watch" ELSE "read")
    /\ UNCHANGED <<storage, key, watched, seen, folded, accepted>>

(* "Contention beyond the retry budget": the last writer wins.             *)
Read(j) ==
    /\ at[j] = "read"
    /\ ReadRecord(j)
    /\ Goto(j, "write")
    /\ UNCHANGED <<storage, key, tries, watched, folded, accepted>>

Write(j) ==
    /\ at[j] = "write"
    /\ Store(j)
    /\ Proceed(j)
    /\ UNCHANGED <<records, watched, seen>>

---------------------------------------------------------------------------
(* remember_request, after the outcome was recorded. *)
Remember(q) ==
    /\ q \in Requests
    /\ at[q] = "remember"
    /\ records' = records \cup {q}
    /\ Goto(q, "done")
    /\ UNCHANGED <<stats, writes, key, tries, watched, seen, folded, accepted>>

(* The correlation record reaches its TTL.                                 *)
Expire(q) ==
    /\ q \in records
    /\ records' = records \ {q}
    /\ UNCHANGED <<stats, writes, at, key, tries, watched, seen, folded, accepted>>

(* A command raises or the replica crashes; the store may have executed it *)
(* all the same.  The job ends: a background task logs the error, a rating *)
(* is answered with one.                                                   *)
Raise(j) ==
    /\ Failures
    /\ at[j] # "done"
    /\ \/ UNCHANGED <<storage, folded>>
       \/ /\ at[j] = "start" /\ j \in Ratings
          /\ TakeRecord(j)
          /\ UNCHANGED <<stats, writes, folded>>
       \/ /\ at[j] = "write" \/ (at[j] = "exec" /\ Unwatched(j))
          /\ Store(j)
          /\ UNCHANGED records
       \/ /\ at[j] = "remember" /\ j \in Requests
          /\ records' = records \cup {j}
          /\ UNCHANGED <<stats, writes, folded>>
    /\ Goto(j, "done")
    /\ UNCHANGED <<key, tries, watched, seen, accepted>>

Step(j) ==
    \/ Record(j) \/ Claim(j)
    \/ Watch(j) \/ Execute(j) \/ Conflict(j) \/ Read(j) \/ Write(j)
    \/ Remember(j) \/ Raise(j)

Next ==
    /\ (\E j \in Jobs : Step(j)) \/ (\E q \in Requests : Expire(q))
    /\ UNCHANGED about

Spec == Init /\ [][Next]_vars

---------------------------------------------------------------------------
(* Properties *)

Counted(f) == \E k \in Keys : f \in stats[k]

(* "A request_id can only be scored once": no two ratings of a request are *)
(* in the statistics the router reads, however submissions and failures    *)
(* interleave.                                                             *)
RatedOnce ==
    \A f, g \in Ratings : about[f] = about[g] /\ Counted(f) /\ Counted(g) => f = g

(* The jobs that have written the record of k. *)
Folded(k) == {j \in Jobs : k \in folded[j]}

(* As many concurrent jobs as update_stats has attempts, and one more,     *)
(* cannot make a blind write overwrite another one's sample.               *)
FewJobs == Cardinality(Active) <= MaxTries + 1

(* "Atomically read-modify-write a statistics record" (storage/base.py):   *)
(* every sample that was written is still there, in spite of conflicts,    *)
(* blind writes and failures.                                              *)
NoSampleLost == FewJobs => \A k \in Keys : stats[k] = Folded(k)

(* A rating whose submitter was told that it was accepted counts, in the   *)
(* band of its request and in the aggregate.                               *)
AcceptedCounts == FewJobs => \A f \in accepted, k \in Keys : k \in KeysOf(f) => f \in stats[k]
=============================================================================
