------------------------------ MODULE Gateway ------------------------------
(***************************************************************************)
(* One request from admission to accounting: GatewayService.prepare,       *)
(* complete, stream and their background accounting (service.py), the      *)
(* dispatcher's walk of the fallback chain (upstream/dispatcher.py) and    *)
(* the model slots it reserves (governance/load.py), on top of the tenant  *)
(* rate limiter of RateLimiter.tla, whose actions it takes and whose       *)
(* counters it shares.                                                     *)
(*                                                                         *)
(* Every await is a step of its own, so the requests of the tenant         *)
(* interleave between any two of them.  An await may also be left by an    *)
(* exception instead of returning: setting.faults says which.  Circuit     *)
(* breakers answer anything here; CircuitBreaker.tla models them.          *)
(***************************************************************************)
EXTENDS RateLimiter, Sequences

CONSTANTS
    Streams,       \* the requests with stream = true
    Models,
    ModelLimit,    \* max_concurrency of each model
    Chains,        \* the chains (primary, then fallbacks) a routing may yield
    MaxAttempts,   \* retry.max_attempts
    RetryStreams,  \* retry.retry_streaming_before_first_chunk
    Settings       \* the circumstances that are explored, see below

(* Circumstances: the requests that arrive, the minutes that are explored, *)
(* retry.enable_model_failover, the exceptions that may happen and whether *)
(* a configuration reload may remove a model that answered a stream.       *)
AllFaults == {"read", "write", "disconnect", "transport", "reload"}

ASSUME GatewayAssumption ==
    /\ Streams \subseteq Requests
    /\ ModelLimit \in Nat \ {0}
    /\ Chains \subseteq Seq(Models) \ {<<>>}
    /\ MaxAttempts \in Nat \ {0}
    /\ RetryStreams \in BOOLEAN
    /\ Settings \subseteq
         [arriving : SUBSET Requests, minutes : Nat, failover : BOOLEAN,
          faults : SUBSET AllFaults]

VARIABLES
    at,             \* at[r]: the await request r stands before
    chain,          \* chain[r]: the models not yet exhausted
    attempts,       \* attempts_used
    succeeded,      \* requests with an answer, whose accounting will run
    modelInflight,  \* the inflight gauge of each model
    sent,           \* sent[r]: what the client has received
    gone,           \* the stream clients that disconnected
    harmed,         \* history: the requests an exception or a reload cut short
    setting         \* the circumstances; they never change

circumstances == <<gone, harmed, setting>>
gatewayVars == <<at, chain, attempts, succeeded, modelInflight, sent, circumstances>>
allVars == <<limiterVars, gatewayVars>>

ReleaseModelStages == {"release_ok", "release_retry", "release_fatal", "model_finally"}
ServiceStages ==
    {"limiter", "quota", "route", "prepared", "cache", "walk", "capacity", "reserve",
     "call", "backoff", "refund", "release_slot", "accounting", "done"}
        \cup ReleaseModelStages

GatewayTypeOK ==
    /\ TypeOK
    /\ at \in [Requests -> ServiceStages]
    /\ chain \in [Requests -> Seq(Models)]
    /\ attempts \in [Requests -> 0..MaxAttempts]
    /\ succeeded \subseteq Requests
    /\ modelInflight \in [Models -> Nat]
    /\ sent \in [Requests -> {"nothing", "bytes", "complete", "error"}]
    /\ gone \subseteq harmed \cap Streams
    /\ harmed \subseteq setting.arriving
    /\ setting \in Settings

GatewayInit ==
    /\ Init
    /\ at = [r \in Requests |-> "limiter"]
    /\ chain = [r \in Requests |-> <<>>]
    /\ attempts = [r \in Requests |-> 0]
    /\ succeeded = {}
    /\ modelInflight = [m \in Models |-> 0]
    /\ sent = [r \in Requests |-> "nothing"]
    /\ gone = {}
    /\ harmed = {}
    /\ setting \in Settings

Streaming(r) == r \in Streams
Model(r) == Head(chain[r])
Serve(r, stage) == at' = [at EXCEPT ![r] = stage]
Answer(r, what) == sent' = [sent EXCEPT ![r] = what]

\* What a step of the service leaves alone besides the limiter's variables.
Only(vars) == UNCHANGED <<limiterVars, vars>>

---------------------------------------------------------------------------
(* prepare *)

AfterCheckIgnored(stage) ==                 \* mutant: the verdict is not looked at
    IF stage \in {"admitted", "rejected"} THEN "quota" ELSE "limiter"
AfterCheck(stage) ==
    CASE stage = "admitted" -> "quota"
      [] stage = "rejected" -> "done"
      [] OTHER -> "limiter"

(* check_and_consume; a verdict that is not allowed raises RateLimitError  *)
(* before the try block: the limiter has already rolled everything back.   *)
Admission(r) ==
    /\ at[r] = "limiter" /\ r \in setting.arriving
    /\ CheckAndConsume(r)
    /\ Serve(r, AfterCheck(pc'[r]))
    /\ sent' = [sent EXCEPT ![r] = IF pc'[r] = "rejected" THEN "error" ELSE @]
    /\ UNCHANGED <<chain, attempts, succeeded, modelInflight, circumstances>>

(* quotas.check: "except Exception: release; raise". *)
CheckQuotaLeaks(r) ==                       \* mutant: raises outside the try block
    /\ at[r] = "quota"
    /\ \/ Serve(r, "route") /\ UNCHANGED sent
       \/ Serve(r, "done") /\ Answer(r, "error")
    /\ Only(<<chain, attempts, succeeded, modelInflight, circumstances>>)

CheckQuota(r) ==
    /\ at[r] = "quota"
    /\ \/ Serve(r, "route") /\ UNCHANGED sent
       \/ Serve(r, "release_slot") /\ Answer(r, "error")
    /\ Only(<<chain, attempts, succeeded, modelInflight, circumstances>>)

(* router.route and _apply_context_overflow: a chain, or NoCandidateError, *)
(* ModelNotFoundError, ContextOverflowError ...                            *)
Route(r) ==
    /\ at[r] = "route"
    /\ \/ /\ \E c \in Chains : chain' = [chain EXCEPT ![r] = c]
          /\ Serve(r, "prepared")
          /\ UNCHANGED sent
       \/ /\ Serve(r, "release_slot")
          /\ Answer(r, "error")
          /\ UNCHANGED chain
    /\ Only(<<attempts, succeeded, modelInflight, circumstances>>)

(* complete() starts with the response cache, stream() with the chain.     *)
Begin(r) ==
    /\ at[r] = "prepared"
    /\ Serve(r, IF Streaming(r) THEN "walk" ELSE "cache")
    /\ Only(<<chain, attempts, succeeded, modelInflight, sent, circumstances>>)

LookupCache(r) ==
    /\ at[r] = "cache"
    /\ \/ /\ Serve(r, "release_slot")
          /\ succeeded' = succeeded \cup {r}
       \/ Serve(r, "walk") /\ UNCHANGED succeeded
    /\ Only(<<chain, attempts, modelInflight, sent, circumstances>>)

---------------------------------------------------------------------------
(* dispatch and dispatch_stream: the walk of the chain *)

NextModel(r) == chain' = [chain EXCEPT ![r] = Tail(@)]

(* The chain or the attempts are used up: AllUpstreamsFailedError or       *)
(* NoCapacityError.                                                        *)
Exhausted(r) ==
    /\ at[r] = "walk"
    /\ chain[r] = <<>> \/ attempts[r] >= MaxAttempts
    /\ Serve(r, "refund")
    /\ Only(<<chain, attempts, succeeded, modelInflight, sent, circumstances>>)

(* The breaker of the next model lets the request through, or not. *)
AskBreaker(r) ==
    /\ at[r] = "walk"
    /\ chain[r] # <<>>
    /\ attempts[r] < MaxAttempts
    /\ \/ Serve(r, "capacity") /\ UNCHANGED chain
       \/ NextModel(r) /\ UNCHANGED at
    /\ Only(<<attempts, succeeded, modelInflight, sent, circumstances>>)

(* _ensure_capacity: a model at its concurrency limit is skipped; one      *)
(* below it may be too, for its RPM or its TPM.                            *)
EnsureCapacity(r) ==
    /\ at[r] = "capacity"
    /\ \/ /\ modelInflight[Model(r)] < ModelLimit
          /\ Serve(r, "reserve")
          /\ UNCHANGED chain
       \/ Serve(r, "walk") /\ NextModel(r)
    /\ Only(<<attempts, succeeded, modelInflight, sent, circumstances>>)

(* ModelLoadTracker.reserve and release: the gauge of the model.           *)
TakeModel(r) == modelInflight' = [modelInflight EXCEPT ![Model(r)] = @ + 1]
GiveModelBack(r) == modelInflight' = [modelInflight EXCEPT ![Model(r)] = Decremented(@)]

Reserve(r) ==
    /\ at[r] = "reserve"
    /\ attempts' = [attempts EXCEPT ![r] = @ + 1]
    /\ TakeModel(r)
    /\ Serve(r, "call")
    /\ Only(<<chain, succeeded, sent, circumstances>>)

(* A chunk is relayed; the first one commits the stream to its model.      *)
RelayChunk(r) ==
    /\ at[r] = "call"
    /\ Streaming(r)
    /\ sent[r] = "nothing"
    /\ Answer(r, "bytes")
    /\ Only(<<at, chain, attempts, succeeded, modelInflight, circumstances>>)

(* The answer, or the end of the stream with its [DONE]. *)
CallSucceeds(r) ==
    /\ at[r] = "call"
    /\ succeeded' = succeeded \cup {r}
    /\ IF Streaming(r) THEN Answer(r, "complete") ELSE UNCHANGED sent
    /\ Serve(r, "release_ok")
    /\ Only(<<chain, attempts, modelInflight, circumstances>>)

(* An UpstreamError.  In a stream only opening the response raises it, so  *)
(* it comes before the first chunk.                                        *)
CallFailsMidStream(r) ==                    \* mutant: fails over after the first byte
    /\ at[r] = "call"
    /\ Serve(r, "release_retry")
    /\ Only(<<chain, attempts, succeeded, modelInflight, sent, circumstances>>)

CallFails(r) ==
    /\ at[r] = "call"
    /\ sent[r] = "nothing"
    /\ \E stage \in {"release_retry", "release_fatal"} :
         /\ (Streaming(r) /\ ~RetryStreams) => stage = "release_fatal"
         /\ Serve(r, stage)
    /\ Only(<<chain, attempts, succeeded, modelInflight, sent, circumstances>>)

Harm(r) ==
    /\ harmed' = harmed \cup {r}
    /\ UNCHANGED setting

(* The connection breaks while lines are read: httpx raises, and nothing   *)
(* turns that into an UpstreamError.                                       *)
StreamBreaks(r) ==
    /\ "transport" \in setting.faults
    /\ at[r] = "call"
    /\ Streaming(r)
    /\ Harm(r)
    /\ Serve(r, "model_finally")
    /\ Only(<<chain, attempts, succeeded, modelInflight, sent, gone>>)

AfterReleaseTwice ==                        \* mutant: "released" is not set
    [release_ok    |-> "release_slot",
     release_retry |-> "model_finally",
     release_fatal |-> "refund",
     model_finally |-> "release_slot"]

AfterRelease ==
    [release_ok    |-> "release_slot",
     release_retry |-> "backoff",
     release_fatal |-> "refund",
     model_finally |-> "release_slot"]

ReleaseModel(r) ==
    /\ at[r] \in ReleaseModelStages
    /\ GiveModelBack(r)
    /\ Serve(r, AfterRelease[at[r]])
    /\ Only(<<chain, attempts, succeeded, sent, circumstances>>)

(* _backoff, then the same model again if failover is off and attempts are *)
(* left (never in a stream), else the next one.                            *)
Backoff(r) ==
    /\ at[r] = "backoff"
    /\ IF ~setting.failover /\ ~Streaming(r) /\ attempts[r] < MaxAttempts
         THEN Serve(r, "reserve") /\ UNCHANGED chain
         ELSE Serve(r, "walk") /\ NextModel(r)
    /\ Only(<<attempts, succeeded, modelInflight, sent, circumstances>>)

---------------------------------------------------------------------------
(* The end of complete() and stream(), and the accounting *)

(* _finalise_failure gives the whole token reservation back; a stream then *)
(* yields the error in-band and [DONE].                                    *)
RefundForgotten(r) ==                       \* mutant: keeps the reservation
    /\ at[r] = "refund"
    /\ Answer(r, "error")
    /\ Serve(r, "release_slot")
    /\ Only(<<chain, attempts, succeeded, modelInflight, circumstances>>)

Refund(r) ==
    /\ at[r] = "refund"
    /\ ReconcileTokens(r, 0)
    /\ Answer(r, "error")
    /\ Serve(r, "release_slot")
    /\ UNCHANGED <<chain, attempts, succeeded, modelInflight, circumstances>>

(* rate_limiter.release: after a cache hit, a success or a failure, on     *)
(* prepare's failure path, and in stream()'s finally.                      *)
ReleaseSlot(r) ==
    /\ at[r] = "release_slot"
    /\ Release(r)
    /\ Serve(r, IF r \in succeeded THEN "accounting" ELSE "done")
    /\ IF r \in succeeded /\ ~Streaming(r) THEN Answer(r, "complete") ELSE UNCHANGED sent
    /\ UNCHANGED <<chain, attempts, succeeded, modelInflight, circumstances>>

(* The background task: _finalise_success or _finalise_stream. *)
Account(r) ==
    /\ at[r] = "accounting"
    /\ \E actual \in Actual : ReconcileTokens(r, actual)
    /\ Serve(r, "done")
    /\ UNCHANGED <<chain, attempts, succeeded, modelInflight, sent, circumstances>>

---------------------------------------------------------------------------
(* Exceptions out of an await.  Unwind is where the handlers and finally   *)
(* blocks of prepare, complete, stream and dispatch_stream lead: only      *)
(* ChatRouterError is handled by complete, and dispatch has no finally.    *)

UnwindReleases(r) ==                        \* mutant: releases the slot on every way out
    IF at[r] \in {"limiter", "accounting"} THEN "done" ELSE "release_slot"

Unwind(r) ==
    IF at[r] \in {"quota", "route"} THEN "release_slot"
    ELSE IF ~Streaming(r) THEN "done"
    ELSE IF at[r] \in {"call", "release_ok", "release_retry", "release_fatal"}
           THEN "model_finally"
    ELSE IF at[r] \in {"capacity", "reserve", "backoff", "refund", "model_finally"}
           THEN "release_slot"
    ELSE "done"

ReadStages == {"quota", "route", "cache", "capacity"}
WriteStages == {"limiter", "reserve", "refund", "release_slot", "accounting"}
                 \cup ReleaseModelStages

(* What the command that r waits for changes.                              *)
Command(r) ==
    \/ at[r] = "limiter" /\ CheckAndConsume(r) /\ UNCHANGED modelInflight
    \/ at[r] = "reserve" /\ TakeModel(r) /\ UNCHANGED limiterVars
    \/ at[r] \in ReleaseModelStages /\ GiveModelBack(r) /\ UNCHANGED limiterVars
    \/ at[r] = "refund" /\ ReconcileTokens(r, 0) /\ UNCHANGED modelInflight
    \/ at[r] = "release_slot" /\ Release(r) /\ UNCHANGED modelInflight
    \/ /\ at[r] = "accounting"
       /\ \E actual \in Actual : ReconcileTokens(r, actual)
       /\ UNCHANGED modelInflight

(* An await is left by an exception; the storage may or may not have       *)
(* executed the command by then (a timeout, a cancelled task).             *)
Interrupted(r) == Command(r) \/ UNCHANGED <<limiterVars, modelInflight>>

(* Where the client can still be told by the status of the response.       *)
ErrorResponse(r) ==
    IF Streaming(r) THEN at[r] \in {"limiter", "quota", "route"} ELSE at[r] # "accounting"

StorageError(r) ==
    /\ \/ "read" \in setting.faults /\ at[r] \in ReadStages
       \/ "write" \in setting.faults /\ at[r] \in WriteStages
    /\ r \in setting.arriving
    /\ Interrupted(r)
    /\ Harm(r)
    /\ Serve(r, Unwind(r))
    /\ succeeded' = succeeded \ {r}
    /\ sent' = [sent EXCEPT ![r] = IF ErrorResponse(r) THEN "error" ELSE @]
    /\ UNCHANGED <<chain, attempts, gone>>

(* The client of a stream goes away: its task is cancelled at the await it *)
(* is in, again and again until it ends; a generator that was not started  *)
(* has no finally to run.  The background task then runs all the same.     *)
(* Nothing cancels prepare, the release on its failure path included.      *)
CancelStages == {"prepared", "capacity", "reserve", "call", "backoff", "refund",
                 "release_slot"} \cup ReleaseModelStages

FailedInPrepare(r) == sent[r] = "error" /\ charged[r] = NotYet

Disconnect(r) ==
    /\ "disconnect" \in setting.faults
    /\ Streaming(r)
    /\ at[r] \in CancelStages /\ ~FailedInPrepare(r)
    /\ gone' = gone \cup {r}
    /\ Interrupted(r)
    /\ Harm(r)
    /\ Serve(r, IF at[r] = "release_slot" /\ r \in succeeded THEN "accounting" ELSE Unwind(r))
    /\ UNCHANGED <<chain, attempts, succeeded, sent>>

(* _finalise_stream looks the model up again and returns before it         *)
(* reconciles when a configuration reload has removed it meanwhile.        *)
ModelRemoved(r) ==
    /\ "reload" \in setting.faults
    /\ at[r] = "accounting"
    /\ Streaming(r)
    /\ Harm(r)
    /\ Serve(r, "done")
    /\ Only(<<chain, attempts, succeeded, modelInflight, sent, gone>>)

---------------------------------------------------------------------------

Step(r) ==
    \/ Admission(r) \/ CheckQuota(r) \/ Route(r) \/ Begin(r) \/ LookupCache(r)
    \/ Exhausted(r) \/ AskBreaker(r) \/ EnsureCapacity(r) \/ Reserve(r)
    \/ RelayChunk(r) \/ CallSucceeds(r) \/ CallFails(r) \/ ReleaseModel(r)
    \/ Backoff(r) \/ Refund(r) \/ ReleaseSlot(r) \/ Account(r)

Fault(r) == StreamBreaks(r) \/ StorageError(r) \/ Disconnect(r) \/ ModelRemoved(r)

MinuteBoundary == window < setting.minutes /\ Roll /\ UNCHANGED gatewayVars

GatewayNext == MinuteBoundary \/ \E r \in Requests : Step(r) \/ Fault(r)

GatewaySpec == GatewayInit /\ [][GatewayNext]_allVars

(* The event loop runs every task, and an upstream call ends: the client's *)
(* timeout bounds it.  Nothing makes a fault happen.                       *)
FairGateway ==
    /\ GatewaySpec
    /\ \A r \in Requests : WF_allVars(Step(r))

---------------------------------------------------------------------------
(* Properties *)

(* The service is a correct user of the limiter whatever goes wrong: it    *)
(* never releases a slot or reconciles a request's tokens a second time.   *)
UsesLimiterOnce == Spec

Dispatching ==
    {r \in Requests : at[r] \in {"cache", "walk", "capacity", "reserve", "call", "backoff"}
                                  \cup ReleaseModelStages}

(* From the routing decision to the end of the last upstream attempt the   *)
(* request holds its slot: concurrency limits what reaches the upstreams,  *)
(* on every error path too.                                                *)
SlotHeldWhileServing ==
    \A r \in Dispatching : pc[r] = "admitted" /\ r \notin freed

OnModel(m) ==
    {r \in Requests : at[r] \in {"call"} \cup ReleaseModelStages /\ Model(r) = m}

(* The load gauge of a model counts the requests between reserve and       *)
(* release, through retries and failover, as long as no exception leaves   *)
(* one of the two in doubt.                                                *)
ModelGaugeExact ==
    harmed = {} => \A m \in Models : modelInflight[m] = Cardinality(OnModel(m))

(* "Streaming is retryable only until the first byte reaches the client":  *)
(* afterwards no other attempt is ever made.                               *)
FirstByteCommits ==
    [][\A r \in Streams : sent[r] # "nothing" => attempts'[r] = attempts[r]]_allVars

(* A token reservation is settled for every request that was dispatched,   *)
(* refunded if it failed, replaced by the real usage if it succeeded, the  *)
(* faults of the other requests notwithstanding.                           *)
DispatchSettles ==
    \A r \in Requests :
        at[r] = "walk" ~>
            r \in harmed \/ (charged[r] # NotYet /\ (charged[r] = 0 <=> r \notin succeeded))

(* The reservations the rate limiter made for a request are settled in the *)
(* end, the tokens as well as the slot.                                    *)
ReservationsSettle ==
    \A r \in Requests : pc[r] = "admitted" ~> (r \in freed /\ charged[r] # NotYet)

(* "Upstream failures are emitted in-band ... instead of a silent broken   *)
(* stream": a stream that was started ends with [DONE], after its answer   *)
(* or after an error event, unless the client itself went away.            *)
StreamNeverSilent ==
    \A r \in Streams \ gone : at[r] = "done" => sent[r] \in {"complete", "error"}

(* The tenant's concurrency limit as Reservation.tla states it.  A request *)
(* has its slot from the check it passes until the gauge is decremented    *)
(* for it: a slot that is lost stays held.  One whose check fails has had  *)
(* no slot, although it moves the gauge up and down again.                 *)
FailsCheck(r) == pc[r] = "undo_slot" /\ rpmTaken[r] = 0 /\ tpmTaken[r] = 0

HoldOf(r) ==
    CASE pc[r] = "new" \/ FailsCheck(r) -> "none"
      [] pc[r] = "rejected" \/ r \in freed -> "over"
      [] OTHER -> "held"

Slots == INSTANCE Reservation WITH
            Limit <- MaxConcurrency,
            hold <- [r \in Requests |-> HoldOf(r)]

(* "Reservations (concurrency slots ...) are released exactly once,        *)
(* including on failure paths" (service.py:8-10) is Slots!Spec, and not    *)
(* what the code does: exceptions that complete() does not handle, and a   *)
(* stream that is abandoned, leave the slot held for ever.  What is kept   *)
(* whatever is raised: no more slots than the limit are held and none is   *)
(* given back twice; and every request gives its slot back unless it is    *)
(* itself cut short, whatever happens to the others.                       *)
ImplementsReservation ==
    /\ Slots!Safe
    /\ \A r \in Requests : HoldOf(r) = "held" ~> HoldOf(r) = "over" \/ r \in harmed
=============================================================================
