---------------------------- MODULE ConfigReload ----------------------------
(***************************************************************************)
(* The configuration shared by the replicas of a deployment over Redis:    *)
(* the payload and version keys and the notification stream of             *)
(* storage/redis_store.py, and in every replica the start-up (app.py), the *)
(* admin update, the subscription task and the reconciler task of          *)
(* service.py.                                                             *)
(*                                                                         *)
(* A replica has four actors: "main" starts it, "admin" is an admin's      *)
(* update, and the two background tasks.  A storage command is one step;   *)
(* its caller keeps the answer and acts on it in a later step, so commands *)
(* of other actors and replicas come in between.                           *)
(*                                                                         *)
(* A document consists of sections.  It is named by the version that its   *)
(* writer obtained from INCR, and so is the content of a section that this *)
(* writer gave; the other sections it took from the document it served.    *)
(***************************************************************************)
EXTENDS Integers, Sequences, FiniteSets

CONSTANTS
    Replicas,
    Sections,    \* the parts of a document that an update may replace
    Settings     \* the deployments that are explored, see below

(* A deployment: whether storage holds document 1 before the first start,  *)
(* whether loads and writes overlap (see MayWrite), the version no admin   *)
(* goes beyond, the sections that the body of an update may have, which    *)
(* faults happen and how many stops, crashes and faults there are.  The    *)
(* last four bound what is explored.                                       *)
AllFaults == {"stop", "reload_fails", "update_fails", "subscription_dies"}

ASSUME ReloadAssumption ==
    /\ IsFiniteSet(Replicas) /\ IsFiniteSet(Sections)
    /\ Settings \subseteq [seeded : BOOLEAN, alone : BOOLEAN, maxVersion : Nat,
                           bodies : SUBSET SUBSET Sections, faults : SUBSET AllFaults, maxMishaps : Nat]

VARIABLES
    version,    \* config:version
    payload,    \* config:payload
    stream,     \* config:reload, the sequence of announced versions
    cursor,     \* cursor[r]: messages r's consumer group acknowledged; -1: no group
    config,     \* config[r]: the document r serves with
    applied,    \* _applied_config_version of r
    at,         \* at[r][a]: where actor a of r is
    held,       \* held[r][a]: the version that actor a of r has in hand, or 0
    draft,      \* draft[r][a]: the document that actor a of r has in hand, or none
    given,      \* history: given[r]: the sections of the update that r is storing
    mishaps,    \* stops, crashes and faults so far
    setting     \* the deployment; it never changes

storage == <<version, payload, stream>>
environment == <<mishaps, setting>>
vars == <<storage, cursor, config, applied, at, held, draft, given, environment>>

Tasks == {"watcher", "reconciler"}
Actors == {"main", "admin"} \cup Tasks
Places ==
    {"down", "load", "resolve", "seed", "read", "stamp", "running",
     "idle", "set", "swap", "publish", "compare", "fetch", "dead"}
Down == [a \in Actors |-> IF a = "main" THEN "down" ELSE "idle"]

Documents == [by : Nat, of : [Sections -> Nat]]
NoDocument == [by |-> 0, of |-> [s \in Sections |-> 0]]
NewDocument(v) == [by |-> v, of |-> [s \in Sections |-> v]]

(* State shapes; a group never acknowledges a message that was not sent.   *)
TypeOK ==
    /\ version \in Nat
    /\ payload \in Documents
    /\ stream \in Seq(Nat)
    /\ cursor \in [Replicas -> -1..Len(stream)]
    /\ config \in [Replicas -> Documents]
    /\ applied \in [Replicas -> Nat]
    /\ at \in [Replicas -> [Actors -> Places]]
    /\ held \in [Replicas -> [Actors -> Nat]]
    /\ draft \in [Replicas -> [Actors -> Documents]]
    /\ given \in [Replicas -> SUBSET Sections]
    /\ mishaps \in 0..setting.maxMishaps
    /\ setting \in Settings

Init ==
    /\ setting \in Settings
    /\ version = IF setting.seeded THEN 1 ELSE 0
    /\ payload = IF setting.seeded THEN NewDocument(1) ELSE NoDocument
    /\ stream = <<>>
    /\ cursor = [r \in Replicas |-> -1]
    /\ config = [r \in Replicas |-> NoDocument]
    /\ applied = [r \in Replicas |-> 0]
    /\ at = [r \in Replicas |-> Down]
    /\ held = [r \in Replicas |-> [a \in Actors |-> 0]]
    /\ draft = [r \in Replicas |-> [a \in Actors |-> NoDocument]]
    /\ given = [r \in Replicas |-> {}]
    /\ mishaps = 0

Running(r) == at[r]["main"] = "running"
Starting(r) == at[r]["main"] \notin {"down", "running"}
Writing == \E r \in Replicas : at[r]["admin"] # "idle" \/ at[r]["main"] = "seed"
Loading == \E r \in Replicas : Starting(r) \/ \E t \in Tasks : at[r][t] \notin {"idle", "dead"}

(* The environment in which writes of the configuration overlap neither    *)
(* each other nor a load.  Nothing in the code enforces it.                *)
MayWrite == setting.alone => ~Writing /\ ~Loading
MayLoad == setting.alone => ~Writing
MayStart == setting.alone => ~Writing /\ ~ \E r \in Replicas : Starting(r)

Goto(r, a, place) == at' = [at EXCEPT ![r][a] = place]
Keep(r, a, answer) == held' = [held EXCEPT ![r][a] = answer]
Hold(r, a, document) == draft' = [draft EXCEPT ![r][a] = document]

(* reload: the document in hand becomes the one served.                    *)
ServeOnce(r, a) ==                          \* mutant: the first document stays
    /\ config' = [config EXCEPT ![r] = IF @ = NoDocument THEN draft[r][a] ELSE @]
    /\ Hold(r, a, NoDocument)
Serve(r, a) ==
    /\ config' = [config EXCEPT ![r] = draft[r][a]]
    /\ Hold(r, a, NoDocument)

---------------------------------------------------------------------------
(* Start-up: lifespan, _resolve_authoritative_config, start *)

(* Storage.start: a new group begins after the last message of the stream, *)
(* an existing one (BUSYGROUP) goes on from what it has acknowledged.      *)
Connect(r) ==
    /\ at[r]["main"] = "down"
    /\ MayStart
    /\ cursor' = [cursor EXCEPT ![r] = IF @ = -1 THEN Len(stream) ELSE @]
    /\ Goto(r, "main", "load")
    /\ UNCHANGED <<storage, config, applied, held, draft, given, environment>>

LoadConfig(r) ==
    /\ at[r]["main"] = "load"
    /\ Hold(r, "main", payload)
    /\ Goto(r, "main", "resolve")
    /\ UNCHANGED <<storage, cursor, config, applied, held, given, environment>>

(* The INCR of set_config, by main or admin.                               *)
Bump(r, a) ==
    /\ version' = version + 1
    /\ Keep(r, a, version + 1)
    /\ UNCHANGED <<payload, stream>>

Adopt(r) ==
    /\ at[r]["main"] = "resolve"
    /\ draft[r]["main"] # NoDocument
    /\ Serve(r, "main")
    /\ Goto(r, "main", "read")
    /\ UNCHANGED <<storage, cursor, applied, held, given, environment>>

SeedBump(r) ==
    /\ at[r]["main"] = "resolve"
    /\ draft[r]["main"] = NoDocument
    /\ Bump(r, "main")
    /\ Hold(r, "main", NewDocument(version + 1))
    /\ Goto(r, "main", "seed")
    /\ UNCHANGED <<cursor, config, applied, given, environment>>

SeedSet(r) ==
    /\ at[r]["main"] = "seed"
    /\ payload' = draft[r]["main"]
    /\ Serve(r, "main")
    /\ Goto(r, "main", "read")
    /\ UNCHANGED <<version, stream, cursor, applied, held, given, environment>>

(* GET of config:version, whose answer becomes _applied_config_version: in *)
(* start, in reload_from_storage and in apply_config_update.               *)
ReadVersion(r, a) ==
    /\ at[r][a] = "read"
    /\ Keep(r, a, version)
    /\ Goto(r, a, "stamp")
    /\ UNCHANGED <<storage, cursor, config, applied, draft, given, environment>>

Started(r) ==
    /\ at[r]["main"] = "stamp"
    /\ applied' = [applied EXCEPT ![r] = held[r]["main"]]
    /\ Goto(r, "main", "running")
    /\ Keep(r, "main", 0)
    /\ UNCHANGED <<storage, cursor, config, draft, given, environment>>

---------------------------------------------------------------------------
(* An admin's update: apply_config_update over set_config and publish *)

(* admin_update_config: the sections of the body, and all others as this   *)
(* replica serves them.                                                    *)
MergeAll(r, sections, v) == NewDocument(v)  \* mutant: every section is replaced
Merge(r, sections, v) ==
    [by |-> v, of |-> [s \in Sections |-> IF s \in sections THEN v ELSE config[r].of[s]]]

(* The body is merged in the turn of the event loop that sends the INCR.   *)
AdminBump(r) ==
    /\ Running(r) /\ at[r]["admin"] = "idle"
    /\ MayWrite /\ version < setting.maxVersion
    /\ Bump(r, "admin")
    /\ \E sections \in setting.bodies :
         /\ Hold(r, "admin", Merge(r, sections, version + 1))
         /\ given' = [given EXCEPT ![r] = sections]
    /\ Goto(r, "admin", "set")
    /\ UNCHANGED <<cursor, config, applied, environment>>

AdminSetForgotten(r) ==                     \* mutant: announced but not stored
    /\ at[r]["admin"] = "set"
    /\ Goto(r, "admin", "swap")
    /\ UNCHANGED <<storage, cursor, config, applied, held, draft, given, environment>>

AdminSet(r) ==
    /\ at[r]["admin"] = "set"
    /\ payload' = draft[r]["admin"]
    /\ given' = [given EXCEPT ![r] = {}]
    /\ Goto(r, "admin", "swap")
    /\ UNCHANGED <<version, stream, cursor, config, applied, held, draft, environment>>

AdminSwap(r) ==
    /\ at[r]["admin"] = "swap"
    /\ Serve(r, "admin")
    /\ Goto(r, "admin", "read")
    /\ UNCHANGED <<storage, cursor, applied, held, given, environment>>

AdminStamp(r) ==
    /\ at[r]["admin"] = "stamp"
    /\ applied' = [applied EXCEPT ![r] = held[r]["admin"]]
    /\ Goto(r, "admin", "publish")
    /\ UNCHANGED <<storage, cursor, config, held, draft, given, environment>>

(* XADD of the version stamped: the message is put together in the same    *)
(* turn of the event loop as the stamp, before any other task runs.        *)
AdminPublish(r) ==
    /\ at[r]["admin"] = "publish"
    /\ stream' = Append(stream, held[r]["admin"])
    /\ Goto(r, "admin", "idle")
    /\ Keep(r, "admin", 0)
    /\ UNCHANGED <<version, payload, cursor, config, applied, draft, given, environment>>

---------------------------------------------------------------------------
(* The two background tasks *)

Acknowledged(r) == [cursor EXCEPT ![r] = @ + 1]

(* One turn of the watcher's loop: the next message that is not yet        *)
(* acknowledged, skipped or the start of a reload.                         *)
SkipMessage(r) ==
    /\ Running(r) /\ at[r]["watcher"] = "idle"
    /\ cursor[r] < Len(stream)
    /\ stream[cursor[r] + 1] <= applied[r]
    /\ cursor' = Acknowledged(r)
    /\ UNCHANGED <<storage, config, applied, at, held, draft, given, environment>>

TakeMessage(r) ==
    /\ Running(r) /\ at[r]["watcher"] = "idle"
    /\ cursor[r] < Len(stream)
    /\ MayLoad
    /\ stream[cursor[r] + 1] > applied[r]
    /\ Keep(r, "watcher", stream[cursor[r] + 1])
    /\ Goto(r, "watcher", "fetch")
    /\ UNCHANGED <<storage, cursor, config, applied, draft, given, environment>>

Poll(r) ==
    /\ Running(r) /\ at[r]["reconciler"] = "idle"
    /\ MayLoad
    /\ Keep(r, "reconciler", version)
    /\ Goto(r, "reconciler", "compare")
    /\ UNCHANGED <<storage, cursor, config, applied, draft, given, environment>>

DriftReversed(r) == held[r]["reconciler"] < applied[r] \* mutant: compares backwards
Drift(r) == held[r]["reconciler"] > applied[r]

Compare(r) ==
    /\ at[r]["reconciler"] = "compare"
    /\ IF Drift(r) THEN Goto(r, "reconciler", "fetch") /\ UNCHANGED held
                   ELSE Goto(r, "reconciler", "idle") /\ Keep(r, "reconciler", 0)
    /\ UNCHANGED <<storage, cursor, config, applied, draft, given, environment>>

(* The watcher acknowledges its message whatever became of the reload.     *)
FinishAcknowledges(r, t) ==                 \* mutant: the reconciler does it too
    /\ cursor' = Acknowledged(r)
    /\ Goto(r, t, "idle")
    /\ Keep(r, t, 0)
Finish(r, t) ==
    /\ cursor' = IF t = "watcher" THEN Acknowledged(r) ELSE cursor
    /\ Goto(r, t, "idle")
    /\ Keep(r, t, 0)

(* reload_from_storage: fetch, swap, read the version, stamp it.           *)
Fetch(r, t) ==
    /\ at[r][t] = "fetch"
    /\ Hold(r, t, payload)
    /\ IF payload = NoDocument THEN Finish(r, t)
                               ELSE Goto(r, t, "swap") /\ UNCHANGED <<cursor, held>>
    /\ UNCHANGED <<storage, config, applied, given, environment>>

Swap(r, t) ==
    /\ at[r][t] = "swap"
    /\ Serve(r, t)
    /\ Goto(r, t, "read")
    /\ UNCHANGED <<storage, cursor, applied, held, given, environment>>

Stamp(r, t) ==
    /\ at[r][t] = "stamp"
    /\ applied' = [applied EXCEPT ![r] = held[r][t]]
    /\ Finish(r, t)
    /\ UNCHANGED <<storage, config, draft, given, environment>>

---------------------------------------------------------------------------
(* What goes wrong *)

Mishap(fault) ==
    /\ fault \in setting.faults
    /\ mishaps < setting.maxMishaps
    /\ mishaps' = mishaps + 1
    /\ UNCHANGED setting

(* A replica is stopped or crashes: close cancels its tasks where they are *)
(* and the group keeps its place.                                          *)
Stop(r) ==
    /\ Mishap("stop")
    /\ at[r]["main"] # "down"
    /\ at' = [at EXCEPT ![r] = Down]
    /\ config' = [config EXCEPT ![r] = NoDocument]
    /\ applied' = [applied EXCEPT ![r] = 0]
    /\ draft' = [draft EXCEPT ![r] = [a \in Actors |-> NoDocument]]
    /\ given' = [given EXCEPT ![r] = {}]
    /\ held' = [held EXCEPT ![r] = [a \in Actors |-> 0]]
    /\ UNCHANGED <<storage, cursor>>

(* A storage command of a reload raises: the task logs it and goes on.     *)
ReloadFails(r, t) ==
    /\ Mishap("reload_fails")
    /\ at[r][t] \in {"fetch", "read"}
    /\ Finish(r, t)
    /\ UNCHANGED <<storage, config, applied, draft, given>>

(* A storage command of an update raises: the admin gets an error and the  *)
(* rest of the update does not happen.                                     *)
UpdateFails(r) ==
    /\ Mishap("update_fails")
    /\ at[r]["admin"] \in {"set", "read", "publish"}
    /\ Goto(r, "admin", "idle")
    /\ given' = [given EXCEPT ![r] = {}]
    /\ Keep(r, "admin", 0)
    /\ Hold(r, "admin", NoDocument)
    /\ UNCHANGED <<storage, cursor, config, applied>>

(* A command of the subscription raises: the task logs it and ends.        *)
SubscriptionDies(r) ==
    /\ Mishap("subscription_dies")
    /\ Running(r) /\ at[r]["watcher"] = "idle"
    /\ Goto(r, "watcher", "dead")
    /\ UNCHANGED <<storage, cursor, config, applied, held, draft, given>>

---------------------------------------------------------------------------
Startup(r) ==
    \/ Connect(r) \/ LoadConfig(r) \/ Adopt(r) \/ SeedBump(r) \/ SeedSet(r)
    \/ ReadVersion(r, "main") \/ Started(r)

Update(r) ==
    \/ AdminSet(r) \/ AdminSwap(r) \/ ReadVersion(r, "admin")
    \/ AdminStamp(r) \/ AdminPublish(r)

Reload(r, t) == Fetch(r, t) \/ Swap(r, t) \/ ReadVersion(r, t) \/ Stamp(r, t)
Watch(r) == SkipMessage(r) \/ TakeMessage(r) \/ Reload(r, "watcher")
Reconcile(r) == Poll(r) \/ Compare(r) \/ Reload(r, "reconciler")

Next ==
    \E r \in Replicas :
        \/ Startup(r) \/ AdminBump(r) \/ Update(r) \/ Watch(r) \/ Reconcile(r)
        \/ Stop(r) \/ UpdateFails(r) \/ SubscriptionDies(r)
        \/ \E t \in Tasks : ReloadFails(r, t)

Spec == Init /\ [][Next]_vars

(* A started replica is driven on by its event loop; the deployment        *)
(* restarts one that stopped.  No admin has to write anything.             *)
Fairness ==
    \A r \in Replicas :
        WF_vars(Startup(r)) /\ WF_vars(Update(r)) /\ WF_vars(Watch(r)) /\ WF_vars(Reconcile(r))

FairSpec == Spec /\ Fairness

---------------------------------------------------------------------------
(* Properties *)

(* Once the writes and mishaps are over, every replica comes to record the *)
(* stored version as the one it has applied, whatever notification was     *)
(* lost or failed and even without a subscription (the reconciler,         *)
(* service.py:289-316).                                                    *)
VersionsConverge ==
    <>[](\A r \in Replicas : Running(r) /\ applied[r] = version)

(* Once the writes and mishaps are over, every replica serves the stored   *)
(* document ("every other replica converges on the same configuration",    *)
(* service.py:219-220).                                                    *)
ReplicasConverge ==
    <>[](\A r \in Replicas : Running(r) /\ config[r] = payload)

(* They do as long as writes overlap neither each other nor a load, though *)
(* reloads fail and subscriptions end.                                     *)
ConfigsConverge == setting.alone => ReplicasConverge

(* As long as nothing overlaps, a reload that was started because of       *)
(* version v fetches the document of v or a later one, never one from      *)
(* before (redis_store.py:359-362).                                        *)
ReloadFetchesAnnounced ==
    [][\A r \in Replicas, t \in Tasks :
         setting.alone /\ at[r][t] = "fetch" /\ at'[r][t] = "swap"
            => draft'[r][t].by >= held[r][t]]_vars

(* "Only the sections present in the body are replaced" (routes.py:187):   *)
(* holds as long as nothing overlaps and the replica that merges the body  *)
(* has caught up with the stored version.  One that has not takes the      *)
(* other sections back to what it serves.                                  *)
OnlyGivenReplaced ==
    [][\A r \in Replicas :
         setting.alone /\ at[r]["admin"] = "set" /\ at'[r]["admin"] = "swap"
            /\ applied[r] = version - 1
         => \A s \in Sections \ given[r] : payload'.of[s] = payload.of[s]]_vars
=============================================================================
