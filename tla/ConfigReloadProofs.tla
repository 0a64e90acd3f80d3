------------------------- MODULE ConfigReloadProofs -------------------------
(***************************************************************************)
(* What ConfigReload.tla promises for every set of replicas, every         *)
(* division of a document into sections and every number of writes.        *)
(***************************************************************************)
EXTENDS ConfigReload, TLAPS

LEMMA DocumentsAre ==
  /\ NoDocument \in Documents
  /\ \A v \in Nat : NewDocument(v) \in Documents
  BY DEF NoDocument, NewDocument, Documents

---------------------------------------------------------------------------
(* Where an actor goes and what it takes in hand *)

LEMMA GotoMoves ==
  ASSUME at \in [Replicas -> [Actors -> Places]],
         NEW r \in Replicas, NEW a \in Actors, NEW place \in Places, Goto(r, a, place)
  PROVE  /\ at' \in [Replicas -> [Actors -> Places]]
         /\ at'[r][a] = place
         /\ \A q \in Replicas, b \in Actors : q # r \/ b # a => at'[q][b] = at[q][b]
  BY DEF Goto

LEMMA KeepTakes ==
  ASSUME held \in [Replicas -> [Actors -> Nat]],
         NEW r \in Replicas, NEW a \in Actors, NEW v \in Nat, Keep(r, a, v)
  PROVE  /\ held' \in [Replicas -> [Actors -> Nat]]
         /\ held'[r][a] = v
         /\ \A q \in Replicas, b \in Actors : q # r \/ b # a => held'[q][b] = held[q][b]
  BY DEF Keep

LEMMA HoldTakes ==
  ASSUME draft \in [Replicas -> [Actors -> Documents]],
         NEW r \in Replicas, NEW a \in Actors, NEW doc \in Documents, Hold(r, a, doc)
  PROVE  /\ draft' \in [Replicas -> [Actors -> Documents]]
         /\ draft'[r][a] = doc
         /\ \A q \in Replicas, b \in Actors : q # r \/ b # a => draft'[q][b] = draft[q][b]
  BY DEF Hold

LEMMA ServePutsInForce ==
  ASSUME draft \in [Replicas -> [Actors -> Documents]], config \in [Replicas -> Documents],
         NEW r \in Replicas, NEW a \in Actors, Serve(r, a)
  PROVE  /\ config' \in [Replicas -> Documents]
         /\ config'[r] = draft[r][a]
         /\ \A q \in Replicas \ {r} : config'[q] = config[q]
         /\ draft' \in [Replicas -> [Actors -> Documents]]
         /\ \A q \in Replicas, b \in Actors : q # r \/ b # a => draft'[q][b] = draft[q][b]
<1>1. Hold(r, a, NoDocument)
  BY DEF Serve
<1>2. QED
  BY <1>1, HoldTakes, DocumentsAre DEF Serve

LEMMA MergeIsDocument ==
  ASSUME config \in [Replicas -> Documents], NEW r \in Replicas,
         NEW sections \in SUBSET Sections, NEW v \in Nat
  PROVE  /\ Merge(r, sections, v) \in Documents
         /\ Merge(r, sections, v).by = v
         /\ \A s \in Sections \ sections : Merge(r, sections, v).of[s] = config[r].of[s]
  BY DEF Merge, Documents

---------------------------------------------------------------------------
(***************************************************************************)
(* Types.  The background tasks and the admin only act in a replica that   *)
(* runs, and a watcher at work has a message before it.                    *)
(***************************************************************************)
ActsWhenRunning ==
    \A r \in Replicas, a \in Actors \ {"main"} : ~Running(r) => at[r][a] = "idle"

WatcherHasMessage ==
    \A r \in Replicas :
        at[r]["watcher"] \notin {"idle", "dead"} => cursor[r] < Len(stream)

TypeInv == TypeOK /\ ActsWhenRunning /\ WatcherHasMessage

(* A replica that was started has its consumer group.                      *)
HasGroup == \A r \in Replicas : at[r]["main"] # "down" => cursor[r] >= 0

LEMMA TypeInit == Init => TypeInv
  BY ReloadAssumption, DocumentsAre
     DEF Init, TypeInv, TypeOK, ActsWhenRunning, WatcherHasMessage, Running, Down, Places, Actors, Tasks

LEMMA ActorsAre ==
  /\ "main" \in Actors /\ "admin" \in Actors /\ "watcher" \in Actors /\ "reconciler" \in Actors
  /\ Tasks \subseteq Actors \ {"main", "admin"}
  BY DEF Actors, Tasks

(* A step of one actor keeps the order: start-up moves on while the        *)
(* replica does not run, the others while it does.                         *)
LEMMA OrderKept ==
  ASSUME TypeInv, NEW r \in Replicas, NEW a \in Actors,
         at' \in [Replicas -> [Actors -> Places]],
         \A q \in Replicas, b \in Actors : q # r \/ b # a => at'[q][b] = at[q][b],
         (a = "main") <=> ~Running(r)
  PROVE  ActsWhenRunning'
<1>1. SUFFICES ASSUME NEW q \in Replicas, NEW b \in Actors \ {"main"}, ~Running(q)'
               PROVE  at'[q][b] = "idle"
  BY DEF ActsWhenRunning
<1>2. ~Running(q)
  BY <1>1, ActorsAre DEF Running
<1>3. q # r \/ b # a
  BY <1>2
<1>4. QED
  BY <1>1, <1>2, <1>3 DEF TypeInv, ActsWhenRunning

(* And it keeps the watcher's message unless the group moves on.           *)
LEMMA MessageKept ==
  ASSUME TypeInv, NEW r \in Replicas, NEW a \in Actors,
         at' \in [Replicas -> [Actors -> Places]],
         \A q \in Replicas, b \in Actors : q # r \/ b # a => at'[q][b] = at[q][b],
         a = "watcher" => at[r]["watcher"] \notin {"idle", "dead"} \/ at'[r]["watcher"] \in {"idle", "dead"},
         cursor' = cursor, stream' = stream
  PROVE  WatcherHasMessage'
<1>1. SUFFICES ASSUME NEW q \in Replicas, at'[q]["watcher"] \notin {"idle", "dead"}
               PROVE  cursor[q] < Len(stream)
  BY DEF WatcherHasMessage
<1>2. at[q]["watcher"] \notin {"idle", "dead"}
  BY <1>1, ActorsAre
<1>3. QED
  BY <1>2 DEF TypeInv, WatcherHasMessage

LEMMA ReadKeepsTypes ==
  ASSUME TypeInv, NEW r \in Replicas, NEW a \in Actors, ReadVersion(r, a)
  PROVE  TypeInv'
<1>t. TypeOK /\ ActsWhenRunning /\ WatcherHasMessage
  BY DEF TypeInv
<1>1. /\ at' \in [Replicas -> [Actors -> Places]]
      /\ at'[r][a] = "stamp"
      /\ \A q \in Replicas, b \in Actors : q # r \/ b # a => at'[q][b] = at[q][b]
  <2>1. Goto(r, a, "stamp") /\ "stamp" \in Places
    BY DEF ReadVersion, Places
  <2>2. QED
    BY <2>1, <1>t, GotoMoves DEF TypeOK
<1>2. held' \in [Replicas -> [Actors -> Nat]]
  <2>1. Keep(r, a, version) /\ version \in Nat
    BY <1>t DEF ReadVersion, TypeOK
  <2>2. QED
    BY <2>1, <1>t, KeepTakes DEF TypeOK
<1>3. TypeOK'
  BY <1>t, <1>1, <1>2 DEF ReadVersion, TypeOK, storage, environment
<1>4. (a = "main") <=> ~Running(r)
  BY <1>t DEF ReadVersion, ActsWhenRunning, Running
<1>5. ActsWhenRunning'
  BY <1>1, <1>4, OrderKept
<1>6. WatcherHasMessage'
  <2>1. cursor' = cursor /\ stream' = stream /\ at[r][a] \notin {"idle", "dead"}
    BY DEF ReadVersion, storage
  <2>2. QED
    BY <1>1, <2>1, MessageKept
<1>7. QED
  BY <1>3, <1>5, <1>6 DEF TypeInv

LEMMA StartupKeepsTypes ==
  ASSUME TypeInv, NEW r \in Replicas, Startup(r)
  PROVE  TypeInv'
<1>t. TypeOK /\ ActsWhenRunning /\ WatcherHasMessage
  BY DEF TypeInv
<1>p. at \in [Replicas -> [Actors -> Places]]
  BY <1>t DEF TypeOK
<1>1. CASE Connect(r)
  <2>1. /\ at' \in [Replicas -> [Actors -> Places]]
        /\ at'[r]["main"] = "load"
        /\ \A q \in Replicas, b \in Actors : q # r \/ b # "main" => at'[q][b] = at[q][b]
    <3>1. Goto(r, "main", "load") /\ "load" \in Places
      BY <1>1 DEF Connect, Places
    <3>2. QED
      BY <3>1, <1>p, ActorsAre, GotoMoves
  <2>2. cursor' \in [Replicas -> -1..Len(stream)] /\ \A q \in Replicas \ {r} : cursor'[q] = cursor[q]
    BY <1>1, <1>t DEF Connect, TypeOK
  <2>3. TypeOK'
    BY <1>1, <1>t, <2>1, <2>2, ActorsAre DEF Connect, TypeOK, storage, environment
  <2>4. ActsWhenRunning'
    <3>1. ~Running(r)
      BY <1>1, <1>t, ActorsAre DEF Connect, ActsWhenRunning, Running
    <3>2. QED
      BY <2>1, <3>1, ActorsAre, OrderKept
  <2>5. WatcherHasMessage'
    BY <1>1, <1>t, <2>1, <2>2, ActorsAre DEF Connect, WatcherHasMessage, ActsWhenRunning, Running, storage
  <2>6. QED
    BY <2>3, <2>4, <2>5 DEF TypeInv
<1>2. CASE LoadConfig(r)
  <2>1. /\ at' \in [Replicas -> [Actors -> Places]]
        /\ at'[r]["main"] = "resolve"
        /\ \A q \in Replicas, b \in Actors : q # r \/ b # "main" => at'[q][b] = at[q][b]
    <3>1. Goto(r, "main", "resolve") /\ "resolve" \in Places
      BY <1>2 DEF LoadConfig, Places
    <3>2. QED
      BY <3>1, <1>p, ActorsAre, GotoMoves
  <2>2. draft' \in [Replicas -> [Actors -> Documents]]
    <3>1. Hold(r, "main", payload) /\ payload \in Documents
      BY <1>2, <1>t, DocumentsAre DEF LoadConfig, TypeOK
    <3>2. QED
      BY <3>1, <1>t, ActorsAre, HoldTakes DEF TypeOK
  <2>3. TypeOK'
    BY <1>2, <1>t, <2>1, <2>2, ActorsAre DEF LoadConfig, TypeOK, storage, environment
  <2>4. ActsWhenRunning'
    <3>1. ~Running(r)
      BY <1>2, <1>t, ActorsAre DEF LoadConfig, ActsWhenRunning, Running
    <3>2. QED
      BY <2>1, <3>1, ActorsAre, OrderKept
  <2>5. WatcherHasMessage'
    <3>1. cursor' = cursor /\ stream' = stream
      BY <1>2 DEF LoadConfig, storage
    <3>2. QED
      BY <1>2, <2>1, <3>1, ActorsAre, MessageKept DEF LoadConfig
  <2>6. QED
    BY <2>3, <2>4, <2>5 DEF TypeInv
<1>3. CASE Adopt(r)
  <2>1. /\ at' \in [Replicas -> [Actors -> Places]]
        /\ at'[r]["main"] = "read"
        /\ \A q \in Replicas, b \in Actors : q # r \/ b # "main" => at'[q][b] = at[q][b]
    <3>1. Goto(r, "main", "read") /\ "read" \in Places
      BY <1>3 DEF Adopt, Places
    <3>2. QED
      BY <3>1, <1>p, ActorsAre, GotoMoves
  <2>2. draft' \in [Replicas -> [Actors -> Documents]] /\ config' \in [Replicas -> Documents]
    <3>1. Serve(r, "main")
      BY <1>3 DEF Adopt
    <3>2. QED
      BY <3>1, <1>t, ActorsAre, ServePutsInForce DEF TypeOK
  <2>3. TypeOK'
    BY <1>3, <1>t, <2>1, <2>2, ActorsAre DEF Adopt, TypeOK, storage, environment
  <2>4. ActsWhenRunning'
    <3>1. ~Running(r)
      BY <1>3, <1>t, ActorsAre DEF Adopt, ActsWhenRunning, Running
    <3>2. QED
      BY <2>1, <3>1, ActorsAre, OrderKept
  <2>5. WatcherHasMessage'
    <3>1. cursor' = cursor /\ stream' = stream
      BY <1>3 DEF Adopt, storage
    <3>2. QED
      BY <1>3, <2>1, <3>1, ActorsAre, MessageKept DEF Adopt
  <2>6. QED
    BY <2>3, <2>4, <2>5 DEF TypeInv
<1>4. CASE SeedBump(r)
  <2>1. /\ at' \in [Replicas -> [Actors -> Places]]
        /\ at'[r]["main"] = "seed"
        /\ \A q \in Replicas, b \in Actors : q # r \/ b # "main" => at'[q][b] = at[q][b]
    <3>1. Goto(r, "main", "seed") /\ "seed" \in Places
      BY <1>4 DEF SeedBump, Places
    <3>2. QED
      BY <3>1, <1>p, ActorsAre, GotoMoves
  <2>2. held' \in [Replicas -> [Actors -> Nat]]
    <3>1. Keep(r, "main", version + 1) /\ version + 1 \in Nat
      BY <1>4, <1>t DEF SeedBump, TypeOK, Bump
    <3>2. QED
      BY <3>1, <1>t, ActorsAre, KeepTakes DEF TypeOK
  <2>3. draft' \in [Replicas -> [Actors -> Documents]]
    <3>1. Hold(r, "main", NewDocument(version + 1)) /\ NewDocument(version + 1) \in Documents
      BY <1>4, <1>t, DocumentsAre DEF SeedBump, TypeOK
    <3>2. QED
      BY <3>1, <1>t, ActorsAre, HoldTakes DEF TypeOK
  <2>4. TypeOK'
    BY <1>4, <1>t, <2>1, <2>2, <2>3, ActorsAre DEF SeedBump, Bump, TypeOK, storage, environment
  <2>5. ActsWhenRunning'
    <3>1. ~Running(r)
      BY <1>4, <1>t, ActorsAre DEF SeedBump, ActsWhenRunning, Running
    <3>2. QED
      BY <2>1, <3>1, ActorsAre, OrderKept
  <2>6. WatcherHasMessage'
    <3>1. cursor' = cursor /\ stream' = stream
      BY <1>4 DEF SeedBump, storage, Bump
    <3>2. QED
      BY <1>4, <2>1, <3>1, ActorsAre, MessageKept DEF SeedBump
  <2>7. QED
    BY <2>4, <2>5, <2>6 DEF TypeInv
<1>5. CASE SeedSet(r)
  <2>1. /\ at' \in [Replicas -> [Actors -> Places]]
        /\ at'[r]["main"] = "read"
        /\ \A q \in Replicas, b \in Actors : q # r \/ b # "main" => at'[q][b] = at[q][b]
    <3>1. Goto(r, "main", "read") /\ "read" \in Places
      BY <1>5 DEF SeedSet, Places
    <3>2. QED
      BY <3>1, <1>p, ActorsAre, GotoMoves
  <2>2. draft' \in [Replicas -> [Actors -> Documents]] /\ config' \in [Replicas -> Documents]
    <3>1. Serve(r, "main")
      BY <1>5 DEF SeedSet
    <3>2. QED
      BY <3>1, <1>t, ActorsAre, ServePutsInForce DEF TypeOK
  <2>3. TypeOK'
    BY <1>5, <1>t, <2>1, <2>2, ActorsAre DEF SeedSet, TypeOK, storage, environment
  <2>4. ActsWhenRunning'
    <3>1. ~Running(r)
      BY <1>5, <1>t, ActorsAre DEF SeedSet, ActsWhenRunning, Running
    <3>2. QED
      BY <2>1, <3>1, ActorsAre, OrderKept
  <2>5. WatcherHasMessage'
    <3>1. cursor' = cursor /\ stream' = stream
      BY <1>5 DEF SeedSet, storage
    <3>2. QED
      BY <1>5, <2>1, <3>1, ActorsAre, MessageKept DEF SeedSet
  <2>6. QED
    BY <2>3, <2>4, <2>5 DEF TypeInv
<1>6. CASE ReadVersion(r, "main")
  BY <1>6, ActorsAre, ReadKeepsTypes
<1>7. CASE Started(r)
  <2>1. /\ at' \in [Replicas -> [Actors -> Places]]
        /\ at'[r]["main"] = "running"
        /\ \A q \in Replicas, b \in Actors : q # r \/ b # "main" => at'[q][b] = at[q][b]
    <3>1. Goto(r, "main", "running") /\ "running" \in Places
      BY <1>7 DEF Started, Places
    <3>2. QED
      BY <3>1, <1>p, ActorsAre, GotoMoves
  <2>2. held' \in [Replicas -> [Actors -> Nat]]
    <3>1. Keep(r, "main", 0) /\ 0 \in Nat
      BY <1>7, <1>t DEF Started, TypeOK
    <3>2. QED
      BY <3>1, <1>t, ActorsAre, KeepTakes DEF TypeOK
  <2>3. applied' \in [Replicas -> Nat]
    BY <1>7, <1>t, ActorsAre DEF Started, TypeOK
  <2>4. TypeOK'
    BY <1>7, <1>t, <2>1, <2>2, <2>3, ActorsAre DEF Started, TypeOK, storage, environment
  <2>5. ActsWhenRunning'
    <3>1. ~Running(r)
      BY <1>7, <1>t, ActorsAre DEF Started, ActsWhenRunning, Running
    <3>2. QED
      BY <2>1, <3>1, ActorsAre, OrderKept
  <2>6. WatcherHasMessage'
    <3>1. cursor' = cursor /\ stream' = stream
      BY <1>7 DEF Started, storage
    <3>2. QED
      BY <1>7, <2>1, <3>1, ActorsAre, MessageKept DEF Started
  <2>7. QED
    BY <2>4, <2>5, <2>6 DEF TypeInv
<1>8. QED
  BY <1>1, <1>2, <1>3, <1>4, <1>5, <1>6, <1>7 DEF Startup

LEMMA UpdateKeepsTypes ==
  ASSUME TypeInv, NEW r \in Replicas, AdminBump(r) \/ Update(r)
  PROVE  TypeInv'
<1>t. TypeOK /\ ActsWhenRunning /\ WatcherHasMessage
  BY DEF TypeInv
<1>p. at \in [Replicas -> [Actors -> Places]]
  BY <1>t DEF TypeOK
<1>1. CASE AdminBump(r)
  <2>1. /\ at' \in [Replicas -> [Actors -> Places]]
        /\ at'[r]["admin"] = "set"
        /\ \A q \in Replicas, b \in Actors : q # r \/ b # "admin" => at'[q][b] = at[q][b]
    <3>1. Goto(r, "admin", "set") /\ "set" \in Places
      BY <1>1 DEF AdminBump, Places
    <3>2. QED
      BY <3>1, <1>p, ActorsAre, GotoMoves
  <2>2. held' \in [Replicas -> [Actors -> Nat]]
    <3>1. Keep(r, "admin", version + 1) /\ version + 1 \in Nat
      BY <1>1, <1>t DEF AdminBump, TypeOK, Bump
    <3>2. QED
      BY <3>1, <1>t, ActorsAre, KeepTakes DEF TypeOK
  <2>b. draft' \in [Replicas -> [Actors -> Documents]] /\ given' \in [Replicas -> SUBSET Sections]
    <3>1. PICK sections \in setting.bodies :
            /\ Hold(r, "admin", Merge(r, sections, version + 1))
            /\ given' = [given EXCEPT ![r] = sections]
      BY <1>1 DEF AdminBump
    <3>2. sections \in SUBSET Sections
      BY <1>t, ReloadAssumption DEF TypeOK
    <3>3. Merge(r, sections, version + 1) \in Documents
      <4>1. version + 1 \in Nat /\ config \in [Replicas -> Documents]
        BY <1>t DEF TypeOK
      <4>2. QED
        BY <3>2, <4>1, MergeIsDocument
    <3>4. QED
      BY <1>t, <3>1, <3>2, <3>3, ActorsAre, HoldTakes DEF TypeOK
  <2>3. TypeOK'
    BY <1>1, <1>t, <2>1, <2>2, <2>b, ActorsAre DEF AdminBump, Bump, TypeOK, storage, environment
  <2>4. ActsWhenRunning'
    <3>1. Running(r)
      BY <1>1, <1>t, ActorsAre DEF AdminBump, ActsWhenRunning, Running
    <3>2. QED
      BY <2>1, <3>1, ActorsAre, OrderKept
  <2>5. WatcherHasMessage'
    <3>1. cursor' = cursor /\ stream' = stream
      BY <1>1 DEF AdminBump, storage, Bump
    <3>2. QED
      BY <1>1, <2>1, <3>1, ActorsAre, MessageKept DEF AdminBump
  <2>6. QED
    BY <2>3, <2>4, <2>5 DEF TypeInv
<1>2. CASE AdminSet(r)
  <2>1. /\ at' \in [Replicas -> [Actors -> Places]]
        /\ at'[r]["admin"] = "swap"
        /\ \A q \in Replicas, b \in Actors : q # r \/ b # "admin" => at'[q][b] = at[q][b]
    <3>1. Goto(r, "admin", "swap") /\ "swap" \in Places
      BY <1>2 DEF AdminSet, Places
    <3>2. QED
      BY <3>1, <1>p, ActorsAre, GotoMoves
  <2>2. given' \in [Replicas -> SUBSET Sections]
    BY <1>2, <1>t DEF AdminSet, TypeOK
  <2>3. TypeOK'
    BY <1>2, <1>t, <2>1, <2>2, ActorsAre DEF AdminSet, TypeOK, storage, environment
  <2>4. ActsWhenRunning'
    <3>1. Running(r)
      BY <1>2, <1>t, ActorsAre DEF AdminSet, ActsWhenRunning, Running
    <3>2. QED
      BY <2>1, <3>1, ActorsAre, OrderKept
  <2>5. WatcherHasMessage'
    <3>1. cursor' = cursor /\ stream' = stream
      BY <1>2 DEF AdminSet, storage
    <3>2. QED
      BY <1>2, <2>1, <3>1, ActorsAre, MessageKept DEF AdminSet
  <2>6. QED
    BY <2>3, <2>4, <2>5 DEF TypeInv
<1>3. CASE AdminSwap(r)
  <2>1. /\ at' \in [Replicas -> [Actors -> Places]]
        /\ at'[r]["admin"] = "read"
        /\ \A q \in Replicas, b \in Actors : q # r \/ b # "admin" => at'[q][b] = at[q][b]
    <3>1. Goto(r, "admin", "read") /\ "read" \in Places
      BY <1>3 DEF AdminSwap, Places
    <3>2. QED
      BY <3>1, <1>p, ActorsAre, GotoMoves
  <2>2. draft' \in [Replicas -> [Actors -> Documents]] /\ config' \in [Replicas -> Documents]
    <3>1. Serve(r, "admin")
      BY <1>3 DEF AdminSwap
    <3>2. QED
      BY <3>1, <1>t, ActorsAre, ServePutsInForce DEF TypeOK
  <2>3. TypeOK'
    BY <1>3, <1>t, <2>1, <2>2, ActorsAre DEF AdminSwap, TypeOK, storage, environment
  <2>4. ActsWhenRunning'
    <3>1. Running(r)
      BY <1>3, <1>t, ActorsAre DEF AdminSwap, ActsWhenRunning, Running
    <3>2. QED
      BY <2>1, <3>1, ActorsAre, OrderKept
  <2>5. WatcherHasMessage'
    <3>1. cursor' = cursor /\ stream' = stream
      BY <1>3 DEF AdminSwap, storage
    <3>2. QED
      BY <1>3, <2>1, <3>1, ActorsAre, MessageKept DEF AdminSwap
  <2>6. QED
    BY <2>3, <2>4, <2>5 DEF TypeInv
<1>4. CASE ReadVersion(r, "admin")
  BY <1>4, ActorsAre, ReadKeepsTypes
<1>5. CASE AdminStamp(r)
  <2>1. /\ at' \in [Replicas -> [Actors -> Places]]
        /\ at'[r]["admin"] = "publish"
        /\ \A q \in Replicas, b \in Actors : q # r \/ b # "admin" => at'[q][b] = at[q][b]
    <3>1. Goto(r, "admin", "publish") /\ "publish" \in Places
      BY <1>5 DEF AdminStamp, Places
    <3>2. QED
      BY <3>1, <1>p, ActorsAre, GotoMoves
  <2>2. applied' \in [Replicas -> Nat]
    BY <1>5, <1>t, ActorsAre DEF AdminStamp, TypeOK
  <2>3. TypeOK'
    BY <1>5, <1>t, <2>1, <2>2, ActorsAre DEF AdminStamp, TypeOK, storage, environment
  <2>4. ActsWhenRunning'
    <3>1. Running(r)
      BY <1>5, <1>t, ActorsAre DEF AdminStamp, ActsWhenRunning, Running
    <3>2. QED
      BY <2>1, <3>1, ActorsAre, OrderKept
  <2>5. WatcherHasMessage'
    <3>1. cursor' = cursor /\ stream' = stream
      BY <1>5 DEF AdminStamp, storage
    <3>2. QED
      BY <1>5, <2>1, <3>1, ActorsAre, MessageKept DEF AdminStamp
  <2>6. QED
    BY <2>3, <2>4, <2>5 DEF TypeInv
<1>6. CASE AdminPublish(r)
  <2>1. /\ at' \in [Replicas -> [Actors -> Places]]
        /\ at'[r]["admin"] = "idle"
        /\ \A q \in Replicas, b \in Actors : q # r \/ b # "admin" => at'[q][b] = at[q][b]
    <3>1. Goto(r, "admin", "idle") /\ "idle" \in Places
      BY <1>6 DEF AdminPublish, Places
    <3>2. QED
      BY <3>1, <1>p, ActorsAre, GotoMoves
  <2>2. held' \in [Replicas -> [Actors -> Nat]]
    <3>1. Keep(r, "admin", 0) /\ 0 \in Nat
      BY <1>6, <1>t DEF AdminPublish, TypeOK
    <3>2. QED
      BY <3>1, <1>t, ActorsAre, KeepTakes DEF TypeOK
  <2>3. stream' \in Seq(Nat) /\ Len(stream') = Len(stream) + 1
    BY <1>6, <1>t, ActorsAre DEF AdminPublish, TypeOK
  <2>4. TypeOK'
    BY <1>6, <1>t, <2>1, <2>2, <2>3, ActorsAre DEF AdminPublish, TypeOK, storage, environment
  <2>5. ActsWhenRunning'
    <3>1. Running(r)
      BY <1>6, <1>t, ActorsAre DEF AdminPublish, ActsWhenRunning, Running
    <3>2. QED
      BY <2>1, <3>1, ActorsAre, OrderKept
  <2>6. WatcherHasMessage'
    BY <1>6, <1>t, <2>1, <2>3, ActorsAre DEF AdminPublish, WatcherHasMessage, TypeOK
  <2>7. QED
    BY <2>4, <2>5, <2>6 DEF TypeInv
<1>7. QED
  BY <1>1, <1>2, <1>3, <1>4, <1>5, <1>6 DEF Update

LEMMA FinishKeepsTypes ==
  ASSUME TypeInv, NEW r \in Replicas, NEW t \in Tasks, Finish(r, t),
         at[r][t] \notin {"idle", "dead"}, stream' = stream
  PROVE  /\ at' \in [Replicas -> [Actors -> Places]] /\ at'[r][t] = "idle"
         /\ \A q \in Replicas, b \in Actors : q # r \/ b # t => at'[q][b] = at[q][b]
         /\ held' \in [Replicas -> [Actors -> Nat]]
         /\ cursor' \in [Replicas -> -1..Len(stream)]
         /\ ActsWhenRunning' /\ WatcherHasMessage'
<1>t. TypeOK /\ ActsWhenRunning /\ WatcherHasMessage
  BY DEF TypeInv
<1>p. /\ at \in [Replicas -> [Actors -> Places]]
      /\ held \in [Replicas -> [Actors -> Nat]]
      /\ cursor \in [Replicas -> -1..Len(stream)]
      /\ stream \in Seq(Nat)
  BY <1>t DEF TypeOK
<1>1. /\ at' \in [Replicas -> [Actors -> Places]] /\ at'[r][t] = "idle"
      /\ \A q \in Replicas, b \in Actors : q # r \/ b # t => at'[q][b] = at[q][b]
  <2>1. Goto(r, t, "idle") /\ "idle" \in Places
    BY DEF Finish, Places
  <2>2. QED
    BY <2>1, <1>p, ActorsAre, GotoMoves
<1>2. held' \in [Replicas -> [Actors -> Nat]]
  <2>1. Keep(r, t, 0) /\ 0 \in Nat
    BY DEF Finish
  <2>2. QED
    BY <2>1, <1>p, ActorsAre, KeepTakes
<1>3. t = "watcher" => cursor[r] < Len(stream)
  BY <1>t DEF WatcherHasMessage
<1>4. /\ cursor' \in [Replicas -> -1..Len(stream)]
      /\ \A q \in Replicas \ {r} : cursor'[q] = cursor[q]
      /\ t # "watcher" => cursor' = cursor
  BY <1>3, <1>p DEF Finish, Acknowledged
<1>5. ActsWhenRunning'
  <2>1. Running(r)
    BY <1>t, ActorsAre DEF ActsWhenRunning
  <2>2. QED
    BY <1>1, <2>1, ActorsAre, OrderKept
<1>6. WatcherHasMessage'
  <2>1. SUFFICES ASSUME NEW q \in Replicas, at'[q]["watcher"] \notin {"idle", "dead"}
                 PROVE  cursor'[q] < Len(stream)
    BY DEF WatcherHasMessage
  <2>2. cursor'[q] = cursor[q] /\ at'[q]["watcher"] = at[q]["watcher"]
    BY <2>1, <1>1, <1>4, ActorsAre
  <2>3. QED
    BY <2>1, <2>2, <1>t DEF WatcherHasMessage
<1>7. QED
  BY <1>1, <1>2, <1>4, <1>5, <1>6

LEMMA ReloadKeepsTypes ==
  ASSUME TypeInv, NEW r \in Replicas, NEW t \in Tasks, Reload(r, t)
  PROVE  TypeInv'
<1>t. TypeOK /\ ActsWhenRunning /\ WatcherHasMessage
  BY DEF TypeInv
<1>p. at \in [Replicas -> [Actors -> Places]]
  BY <1>t DEF TypeOK
<1>1. CASE Fetch(r, t) /\ payload = NoDocument
  <2>1. Finish(r, t) /\ at[r][t] \notin {"idle", "dead"} /\ stream' = stream
    BY <1>1 DEF Fetch, storage
  <2>2. draft' \in [Replicas -> [Actors -> Documents]]
    <3>1. Hold(r, t, payload) /\ payload \in Documents
      BY <1>1, <1>t DEF Fetch, TypeOK
    <3>2. QED
      BY <3>1, <1>t, ActorsAre, HoldTakes DEF TypeOK
  <2>3. TypeOK'
    BY <1>1, <1>t, <2>1, <2>2, FinishKeepsTypes DEF Fetch, TypeOK, storage, environment
  <2>4. QED
    BY <2>1, <2>3, FinishKeepsTypes DEF TypeInv
<1>2. CASE Fetch(r, t) /\ payload # NoDocument
  <2>1. /\ at' \in [Replicas -> [Actors -> Places]]
        /\ at'[r][t] = "swap"
        /\ \A q \in Replicas, b \in Actors : q # r \/ b # t => at'[q][b] = at[q][b]
    <3>1. Goto(r, t, "swap") /\ "swap" \in Places
      BY <1>2 DEF Fetch, Places
    <3>2. QED
      BY <3>1, <1>p, ActorsAre, GotoMoves
  <2>2. draft' \in [Replicas -> [Actors -> Documents]]
    <3>1. Hold(r, t, payload) /\ payload \in Documents
      BY <1>2, <1>t DEF Fetch, TypeOK
    <3>2. QED
      BY <3>1, <1>t, ActorsAre, HoldTakes DEF TypeOK
  <2>3. TypeOK'
    BY <1>2, <1>t, <2>1, <2>2 DEF Fetch, TypeOK, storage, environment
  <2>4. ActsWhenRunning'
    <3>1. Running(r)
      BY <1>2, <1>t, ActorsAre DEF Fetch, ActsWhenRunning
    <3>2. QED
      BY <2>1, <3>1, ActorsAre, OrderKept
  <2>5. WatcherHasMessage'
    <3>1. cursor' = cursor /\ stream' = stream
      BY <1>2 DEF Fetch, storage
    <3>2. QED
      BY <1>2, <2>1, <3>1, ActorsAre, MessageKept DEF Fetch
  <2>6. QED
    BY <2>3, <2>4, <2>5 DEF TypeInv
<1>3. CASE Swap(r, t)
  <2>1. /\ at' \in [Replicas -> [Actors -> Places]]
        /\ at'[r][t] = "read"
        /\ \A q \in Replicas, b \in Actors : q # r \/ b # t => at'[q][b] = at[q][b]
    <3>1. Goto(r, t, "read") /\ "read" \in Places
      BY <1>3 DEF Swap, Places
    <3>2. QED
      BY <3>1, <1>p, ActorsAre, GotoMoves
  <2>2. draft' \in [Replicas -> [Actors -> Documents]] /\ config' \in [Replicas -> Documents]
    <3>1. Serve(r, t)
      BY <1>3 DEF Swap
    <3>2. QED
      BY <3>1, <1>t, ActorsAre, ServePutsInForce DEF TypeOK
  <2>3. TypeOK'
    BY <1>3, <1>t, <2>1, <2>2 DEF Swap, TypeOK, storage, environment
  <2>4. ActsWhenRunning'
    <3>1. Running(r)
      BY <1>3, <1>t, ActorsAre DEF Swap, ActsWhenRunning
    <3>2. QED
      BY <2>1, <3>1, ActorsAre, OrderKept
  <2>5. WatcherHasMessage'
    <3>1. cursor' = cursor /\ stream' = stream
      BY <1>3 DEF Swap, storage
    <3>2. QED
      BY <1>3, <2>1, <3>1, ActorsAre, MessageKept DEF Swap
  <2>6. QED
    BY <2>3, <2>4, <2>5 DEF TypeInv
<1>4. CASE ReadVersion(r, t)
  BY <1>4, ActorsAre, ReadKeepsTypes
<1>5. CASE Stamp(r, t)
  <2>1. Finish(r, t) /\ at[r][t] \notin {"idle", "dead"} /\ stream' = stream
    BY <1>5 DEF Stamp, storage
  <2>2. applied' \in [Replicas -> Nat]
    BY <1>5, <1>t, ActorsAre DEF Stamp, TypeOK
  <2>3. TypeOK'
    BY <1>5, <1>t, <2>1, <2>2, FinishKeepsTypes DEF Stamp, TypeOK, storage, environment
  <2>4. QED
    BY <2>1, <2>3, FinishKeepsTypes DEF TypeInv
<1>6. QED
  BY <1>1, <1>2, <1>3, <1>4, <1>5 DEF Reload

LEMMA TasksKeepTypes ==
  ASSUME TypeInv, HasGroup, NEW r \in Replicas, Watch(r) \/ Reconcile(r)
  PROVE  TypeInv'
<1>t. TypeOK /\ ActsWhenRunning /\ WatcherHasMessage
  BY DEF TypeInv
<1>p. at \in [Replicas -> [Actors -> Places]]
  BY <1>t DEF TypeOK
<1>1. CASE SkipMessage(r)
  <2>1. /\ cursor' \in [Replicas -> -1..Len(stream)]
        /\ \A q \in Replicas \ {r} : cursor'[q] = cursor[q]
        /\ at' = at /\ stream' = stream
    BY <1>1, <1>t DEF SkipMessage, Acknowledged, TypeOK, storage
  <2>2. TypeOK'
    BY <1>1, <1>t, <2>1 DEF SkipMessage, TypeOK, storage, environment
  <2>3. ActsWhenRunning' /\ WatcherHasMessage'
    BY <1>1, <1>t, <2>1 DEF SkipMessage, ActsWhenRunning, WatcherHasMessage, Running
  <2>4. QED
    BY <2>2, <2>3 DEF TypeInv
<1>2. CASE TakeMessage(r)
  <2>1. /\ at' \in [Replicas -> [Actors -> Places]]
        /\ at'[r]["watcher"] = "fetch"
        /\ \A q \in Replicas, b \in Actors : q # r \/ b # "watcher" => at'[q][b] = at[q][b]
    <3>1. Goto(r, "watcher", "fetch") /\ "fetch" \in Places
      BY <1>2 DEF TakeMessage, Places
    <3>2. QED
      BY <3>1, <1>p, ActorsAre, GotoMoves
  <2>2. cursor[r] < Len(stream) /\ 0 <= cursor[r] /\ cursor' = cursor /\ stream' = stream
    BY <1>2, <1>t DEF TakeMessage, TypeOK, Running, HasGroup, storage
  <2>3. held' \in [Replicas -> [Actors -> Nat]]
    <3>1. Keep(r, "watcher", stream[cursor[r] + 1]) /\ stream[cursor[r] + 1] \in Nat
      BY <1>2, <1>t, <2>2 DEF TakeMessage, TypeOK
    <3>2. QED
      BY <3>1, <1>t, ActorsAre, KeepTakes DEF TypeOK
  <2>4. TypeOK'
    BY <1>2, <1>t, <2>1, <2>3 DEF TakeMessage, TypeOK, storage, environment
  <2>5. ActsWhenRunning'
    <3>1. Running(r)
      BY <1>2, <1>t, ActorsAre DEF TakeMessage, ActsWhenRunning
    <3>2. QED
      BY <2>1, <3>1, ActorsAre, OrderKept
  <2>6. WatcherHasMessage'
    BY <1>t, <2>1, <2>2, ActorsAre DEF WatcherHasMessage
  <2>7. QED
    BY <2>4, <2>5, <2>6 DEF TypeInv
<1>3. CASE Poll(r)
  <2>1. /\ at' \in [Replicas -> [Actors -> Places]]
        /\ at'[r]["reconciler"] = "compare"
        /\ \A q \in Replicas, b \in Actors : q # r \/ b # "reconciler" => at'[q][b] = at[q][b]
    <3>1. Goto(r, "reconciler", "compare") /\ "compare" \in Places
      BY <1>3 DEF Poll, Places
    <3>2. QED
      BY <3>1, <1>p, ActorsAre, GotoMoves
  <2>2. held' \in [Replicas -> [Actors -> Nat]]
    <3>1. Keep(r, "reconciler", version) /\ version \in Nat
      BY <1>3, <1>t DEF Poll, TypeOK
    <3>2. QED
      BY <3>1, <1>t, ActorsAre, KeepTakes DEF TypeOK
  <2>3. TypeOK'
    BY <1>3, <1>t, <2>1, <2>2 DEF Poll, TypeOK, storage, environment
  <2>4. ActsWhenRunning'
    <3>1. Running(r)
      BY <1>3, <1>t, ActorsAre DEF Poll, ActsWhenRunning
    <3>2. QED
      BY <2>1, <3>1, ActorsAre, OrderKept
  <2>5. WatcherHasMessage'
    <3>1. cursor' = cursor /\ stream' = stream
      BY <1>3 DEF Poll, storage
    <3>2. QED
      BY <1>3, <2>1, <3>1, ActorsAre, MessageKept DEF Poll
  <2>6. QED
    BY <2>3, <2>4, <2>5 DEF TypeInv
<1>4. CASE Compare(r) /\ Drift(r)
  <2>1. /\ at' \in [Replicas -> [Actors -> Places]]
        /\ at'[r]["reconciler"] = "fetch"
        /\ \A q \in Replicas, b \in Actors : q # r \/ b # "reconciler" => at'[q][b] = at[q][b]
    <3>1. Goto(r, "reconciler", "fetch") /\ "fetch" \in Places
      BY <1>4 DEF Compare, Places
    <3>2. QED
      BY <3>1, <1>p, ActorsAre, GotoMoves
  <2>2. TypeOK'
    BY <1>4, <1>t, <2>1 DEF Compare, TypeOK, storage, environment
  <2>3. ActsWhenRunning'
    <3>1. Running(r)
      BY <1>4, <1>t, ActorsAre DEF Compare, ActsWhenRunning
    <3>2. QED
      BY <2>1, <3>1, ActorsAre, OrderKept
  <2>4. WatcherHasMessage'
    <3>1. cursor' = cursor /\ stream' = stream
      BY <1>4 DEF Compare, storage
    <3>2. QED
      BY <1>4, <2>1, <3>1, ActorsAre, MessageKept DEF Compare
  <2>5. QED
    BY <2>2, <2>3, <2>4 DEF TypeInv
<1>5. CASE Compare(r) /\ ~Drift(r)
  <2>1. /\ at' \in [Replicas -> [Actors -> Places]]
        /\ at'[r]["reconciler"] = "idle"
        /\ \A q \in Replicas, b \in Actors : q # r \/ b # "reconciler" => at'[q][b] = at[q][b]
    <3>1. Goto(r, "reconciler", "idle") /\ "idle" \in Places
      BY <1>5 DEF Compare, Places
    <3>2. QED
      BY <3>1, <1>p, ActorsAre, GotoMoves
  <2>2. held' \in [Replicas -> [Actors -> Nat]]
    <3>1. Keep(r, "reconciler", 0) /\ 0 \in Nat
      BY <1>5 DEF Compare
    <3>2. QED
      BY <3>1, <1>t, ActorsAre, KeepTakes DEF TypeOK
  <2>3. TypeOK'
    BY <1>5, <1>t, <2>1, <2>2 DEF Compare, TypeOK, storage, environment
  <2>4. ActsWhenRunning'
    <3>1. Running(r)
      BY <1>5, <1>t, ActorsAre DEF Compare, ActsWhenRunning
    <3>2. QED
      BY <2>1, <3>1, ActorsAre, OrderKept
  <2>5. WatcherHasMessage'
    <3>1. cursor' = cursor /\ stream' = stream
      BY <1>5 DEF Compare, storage
    <3>2. QED
      BY <1>5, <2>1, <3>1, ActorsAre, MessageKept DEF Compare
  <2>6. QED
    BY <2>3, <2>4, <2>5 DEF TypeInv
<1>6. CASE \E t \in Tasks : Reload(r, t)
  BY <1>6, ReloadKeepsTypes
<1>7. QED
  BY <1>1, <1>2, <1>3, <1>4, <1>5, <1>6 DEF Watch, Reconcile, Tasks

LEMMA MishapsKeepTypes ==
  ASSUME TypeInv, NEW r \in Replicas,
         Stop(r) \/ UpdateFails(r) \/ SubscriptionDies(r) \/ \E t \in Tasks : ReloadFails(r, t)
  PROVE  TypeInv'
<1>t. TypeOK /\ ActsWhenRunning /\ WatcherHasMessage
  BY DEF TypeInv
<1>p. at \in [Replicas -> [Actors -> Places]]
  BY <1>t DEF TypeOK
<1>m. ASSUME NEW f \in AllFaults, Mishap(f)
      PROVE  mishaps' \in 0..setting.maxMishaps /\ setting' = setting
  <2>1. setting.maxMishaps \in Nat
    BY <1>t, ReloadAssumption DEF TypeOK
  <2>2. QED
    BY <1>m, <1>t, <2>1 DEF Mishap, TypeOK
<1>f. {"stop", "reload_fails", "update_fails", "subscription_dies"} \subseteq AllFaults
  BY DEF AllFaults
<1>1. CASE Stop(r)
  <2>1. mishaps' \in 0..setting.maxMishaps /\ setting' = setting
    BY <1>1, <1>m, <1>f DEF Stop
  <2>2. Down \in [Actors -> Places] /\ \A b \in Actors \ {"main"} : Down[b] = "idle"
    BY DEF Down, Places
  <2>3. /\ at' \in [Replicas -> [Actors -> Places]] /\ at'[r] = Down
        /\ \A q \in Replicas \ {r} : at'[q] = at[q]
    BY <1>1, <1>p, <2>2 DEF Stop
  <2>4. TypeOK'
    BY <1>1, <1>t, <2>1, <2>3, DocumentsAre DEF Stop, TypeOK, storage
  <2>5. ActsWhenRunning'
    <3>1. SUFFICES ASSUME NEW q \in Replicas, NEW b \in Actors \ {"main"}, ~Running(q)'
                   PROVE  at'[q][b] = "idle"
      BY DEF ActsWhenRunning
    <3>2. QED
      BY <3>1, <1>t, <2>2, <2>3 DEF ActsWhenRunning, Running
  <2>6. WatcherHasMessage'
    BY <1>1, <1>t, <2>2, <2>3, ActorsAre DEF Stop, WatcherHasMessage, storage
  <2>7. QED
    BY <2>4, <2>5, <2>6 DEF TypeInv
<1>2. CASE UpdateFails(r)
  <2>1. /\ at' \in [Replicas -> [Actors -> Places]]
        /\ at'[r]["admin"] = "idle"
        /\ \A q \in Replicas, b \in Actors : q # r \/ b # "admin" => at'[q][b] = at[q][b]
    <3>1. Goto(r, "admin", "idle") /\ "idle" \in Places
      BY <1>2 DEF UpdateFails, Places
    <3>2. QED
      BY <3>1, <1>p, ActorsAre, GotoMoves
  <2>2. mishaps' \in 0..setting.maxMishaps /\ setting' = setting
    BY <1>2, <1>m, <1>f DEF UpdateFails
  <2>3. held' \in [Replicas -> [Actors -> Nat]]
    <3>1. Keep(r, "admin", 0) /\ 0 \in Nat
      BY <1>2 DEF UpdateFails
    <3>2. QED
      BY <3>1, <1>t, ActorsAre, KeepTakes DEF TypeOK
  <2>4. draft' \in [Replicas -> [Actors -> Documents]]
    <3>1. Hold(r, "admin", NoDocument)
      BY <1>2 DEF UpdateFails
    <3>2. QED
      BY <3>1, <1>t, ActorsAre, DocumentsAre, HoldTakes DEF TypeOK
  <2>5. TypeOK'
    BY <1>2, <1>t, <2>1, <2>2, <2>3, <2>4 DEF UpdateFails, TypeOK, storage
  <2>6. ActsWhenRunning'
    <3>1. Running(r)
      BY <1>2, <1>t, ActorsAre DEF UpdateFails, ActsWhenRunning
    <3>2. QED
      BY <2>1, <3>1, ActorsAre, OrderKept
  <2>7. WatcherHasMessage'
    <3>1. cursor' = cursor /\ stream' = stream
      BY <1>2 DEF UpdateFails, storage
    <3>2. QED
      BY <1>2, <2>1, <3>1, ActorsAre, MessageKept DEF UpdateFails
  <2>8. QED
    BY <2>5, <2>6, <2>7 DEF TypeInv
<1>3. CASE SubscriptionDies(r)
  <2>1. /\ at' \in [Replicas -> [Actors -> Places]]
        /\ at'[r]["watcher"] = "dead"
        /\ \A q \in Replicas, b \in Actors : q # r \/ b # "watcher" => at'[q][b] = at[q][b]
    <3>1. Goto(r, "watcher", "dead") /\ "dead" \in Places
      BY <1>3 DEF SubscriptionDies, Places
    <3>2. QED
      BY <3>1, <1>p, ActorsAre, GotoMoves
  <2>2. mishaps' \in 0..setting.maxMishaps /\ setting' = setting
    BY <1>3, <1>m, <1>f DEF SubscriptionDies
  <2>3. TypeOK'
    BY <1>3, <1>t, <2>1, <2>2 DEF SubscriptionDies, TypeOK, storage
  <2>4. ActsWhenRunning'
    <3>1. Running(r)
      BY <1>3, <1>t, ActorsAre DEF SubscriptionDies, ActsWhenRunning
    <3>2. QED
      BY <2>1, <3>1, ActorsAre, OrderKept
  <2>5. WatcherHasMessage'
    <3>1. cursor' = cursor /\ stream' = stream
      BY <1>3 DEF SubscriptionDies, storage
    <3>2. QED
      BY <1>3, <2>1, <3>1, ActorsAre, MessageKept DEF SubscriptionDies
  <2>6. QED
    BY <2>3, <2>4, <2>5 DEF TypeInv
<1>4. CASE \E t \in Tasks : ReloadFails(r, t)
  <2>1. PICK t \in Tasks : ReloadFails(r, t)
    BY <1>4
  <2>2. mishaps' \in 0..setting.maxMishaps /\ setting' = setting
    BY <2>1, <1>m, <1>f DEF ReloadFails
  <2>3. Finish(r, t) /\ at[r][t] \notin {"idle", "dead"} /\ stream' = stream
    BY <2>1 DEF ReloadFails, storage
  <2>4. TypeOK'
    BY <2>1, <1>t, <2>2, <2>3, FinishKeepsTypes DEF ReloadFails, TypeOK, storage
  <2>5. QED
    BY <2>3, <2>4, FinishKeepsTypes DEF TypeInv
<1>5. QED
  BY <1>1, <1>2, <1>3, <1>4

---------------------------------------------------------------------------
(* The consumer group of a replica is made at its first start and stays *)

LEMMA GroupKept ==
  ASSUME TypeOK, HasGroup, NEW r \in Replicas, NEW a \in Actors, NEW place \in Places,
         Goto(r, a, place), at[r]["main"] # "down",
         \A q \in Replicas : cursor[q] >= 0 => cursor'[q] >= 0
  PROVE  HasGroup'
<1>1. at \in [Replicas -> [Actors -> Places]]
  BY DEF TypeOK
<1>2. SUFFICES ASSUME NEW q \in Replicas, at'[q]["main"] # "down"
               PROVE  cursor'[q] >= 0
  BY DEF HasGroup
<1>3. at[q]["main"] # "down"
  BY <1>1, <1>2, ActorsAre, GotoMoves
<1>4. QED
  BY <1>3 DEF HasGroup

LEMMA GroupStep ==
  ASSUME TypeInv, HasGroup, NEW r \in Replicas,
         \/ Startup(r) \/ AdminBump(r) \/ Update(r) \/ Watch(r) \/ Reconcile(r)
         \/ Stop(r) \/ UpdateFails(r) \/ SubscriptionDies(r)
         \/ \E t \in Tasks : ReloadFails(r, t)
  PROVE  HasGroup'
<1>t. /\ TypeOK /\ ActsWhenRunning
      /\ at \in [Replicas -> [Actors -> Places]]
      /\ cursor \in [Replicas -> -1..Len(stream)] /\ Len(stream) \in Nat
  BY DEF TypeInv, TypeOK
<1>r. \A b \in Actors \ {"main"} : at[r][b] # "idle" => at[r]["main"] # "down"
  BY <1>t DEF ActsWhenRunning, Running
<1>n. ASSUME NEW a \in Actors, NEW place \in Places, Goto(r, a, place), at[r]["main"] # "down",
             cursor' = cursor
      PROVE  HasGroup'
  BY <1>n, <1>t, GroupKept
<1>f. ASSUME NEW t \in Tasks, Finish(r, t), at[r][t] # "idle"
      PROVE  HasGroup'
  <2>1. \A q \in Replicas : cursor[q] >= 0 => cursor'[q] >= 0
    BY <1>f, <1>t DEF Finish, Acknowledged
  <2>2. QED
    BY <1>f, <1>t, <1>r, <2>1, ActorsAre, GroupKept DEF Finish, Places
<1>1. CASE Connect(r)
  <2>1. \A q \in Replicas \ {r} : cursor'[q] = cursor[q] /\ at'[q] = at[q]
    BY <1>1, <1>t DEF Connect, Goto
  <2>2. cursor'[r] >= 0
    BY <1>1, <1>t DEF Connect
  <2>3. QED
    BY <2>1, <2>2 DEF HasGroup
<1>2. CASE LoadConfig(r) \/ Adopt(r) \/ SeedBump(r) \/ SeedSet(r) \/ Started(r)
  BY <1>2, <1>n, ActorsAre DEF LoadConfig, Adopt, SeedBump, SeedSet, Started, Places
<1>3. CASE \E a \in Actors : ReadVersion(r, a)
  BY <1>3, <1>n, <1>r DEF ReadVersion, Places
<1>4. CASE AdminBump(r) \/ AdminSet(r) \/ AdminSwap(r) \/ AdminStamp(r) \/ AdminPublish(r)
  BY <1>4, <1>n, <1>r, ActorsAre
     DEF AdminBump, AdminSet, AdminSwap, AdminStamp, AdminPublish, Running, Places
<1>5. CASE SkipMessage(r)
  <2>1. \A q \in Replicas : cursor[q] >= 0 => cursor'[q] >= 0
    BY <1>5, <1>t DEF SkipMessage, Acknowledged
  <2>2. at' = at
    BY <1>5 DEF SkipMessage
  <2>3. QED
    BY <2>1, <2>2 DEF HasGroup
<1>6. CASE TakeMessage(r) \/ Poll(r) \/ (Compare(r) /\ Drift(r))
  BY <1>6, <1>n, <1>r, ActorsAre DEF TakeMessage, Poll, Compare, Running, Places
<1>7. CASE Compare(r) /\ ~Drift(r)
  BY <1>7, <1>n, <1>r, ActorsAre DEF Compare, Places
<1>8. CASE \E t \in Tasks : (Fetch(r, t) /\ payload # NoDocument) \/ Swap(r, t)
  BY <1>8, <1>n, <1>r, ActorsAre DEF Fetch, Swap, Places
<1>9. CASE \E t \in Tasks : (Fetch(r, t) /\ payload = NoDocument) \/ Stamp(r, t) \/ ReloadFails(r, t)
  BY <1>9, <1>f, <1>r DEF Fetch, Stamp, ReloadFails
<1>10. CASE Stop(r)
  <2>1. cursor' = cursor /\ \A q \in Replicas \ {r} : at'[q] = at[q]
    BY <1>10, <1>t DEF Stop
  <2>2. at'[r]["main"] = "down"
    BY <1>10, <1>t, ActorsAre DEF Stop, Down
  <2>3. QED
    BY <2>1, <2>2 DEF HasGroup
<1>11. CASE UpdateFails(r) \/ SubscriptionDies(r)
  BY <1>11, <1>n, <1>r, ActorsAre DEF UpdateFails, SubscriptionDies, Running, Places
<1>12. CASE \E t \in Tasks : Reload(r, t)
  BY <1>12, <1>3, <1>8, <1>9, ActorsAre DEF Reload
<1>13. "watcher" \in Tasks /\ "reconciler" \in Tasks
  BY DEF Tasks
<1>14. CASE Startup(r) \/ AdminBump(r) \/ Update(r)
  BY <1>1, <1>2, <1>3, <1>4, <1>14, ActorsAre DEF Startup, Update
<1>15. CASE Watch(r) \/ Reconcile(r)
  BY <1>5, <1>6, <1>7, <1>12, <1>13, <1>15 DEF Watch, Reconcile
<1>16. QED
  BY <1>9, <1>10, <1>11, <1>14, <1>15

LEMMA TypeStep == TypeInv /\ HasGroup /\ [Next]_vars => TypeInv' /\ HasGroup'
<1>1. ASSUME TypeInv, HasGroup, NEW r \in Replicas,
             \/ Startup(r) \/ AdminBump(r) \/ Update(r) \/ Watch(r) \/ Reconcile(r)
             \/ Stop(r) \/ UpdateFails(r) \/ SubscriptionDies(r)
             \/ \E t \in Tasks : ReloadFails(r, t)
      PROVE  TypeInv' /\ HasGroup'
  <2>1. HasGroup'
    BY <1>1, GroupStep
  <2>2. CASE Startup(r)
    BY <2>1, <2>2, <1>1, StartupKeepsTypes
  <2>3. CASE AdminBump(r) \/ Update(r)
    BY <2>1, <2>3, <1>1, UpdateKeepsTypes
  <2>4. CASE Watch(r) \/ Reconcile(r)
    BY <2>1, <2>4, <1>1, TasksKeepTypes
  <2>5. CASE Stop(r) \/ UpdateFails(r) \/ SubscriptionDies(r) \/ \E t \in Tasks : ReloadFails(r, t)
    BY <2>1, <2>5, <1>1, MishapsKeepTypes
  <2>6. QED
    BY <1>1, <2>2, <2>3, <2>4, <2>5
<1>2. TypeInv /\ HasGroup /\ UNCHANGED vars => TypeInv' /\ HasGroup'
  BY DEF TypeInv, TypeOK, ActsWhenRunning, WatcherHasMessage, HasGroup, Running,
         vars, storage, environment
<1>3. QED
  BY <1>1, <1>2 DEF Next

(* A replica is always in a state its tasks are written for: the admin and *)
(* the tasks act in a running replica only, and no group acknowledges a    *)
(* message that was not sent, whoever of the tasks reloads                 *)
(* (redis_store.py:472-523, service.py:250-316).                           *)
THEOREM TypeCorrect == Spec => []TypeOK
<1>1. TypeInv => TypeOK
  BY DEF TypeInv
<1>2. Init => HasGroup
  BY ActorsAre DEF Init, HasGroup, Down
<1>3. QED
  BY <1>1, <1>2, TypeInit, TypeStep, PTL DEF Spec

---------------------------------------------------------------------------
(* No version is announced, applied or in hand that was not given out *)

KnownVersions ==
    /\ \A r \in Replicas : applied[r] <= version
    /\ \A r \in Replicas, a \in Actors : held[r][a] <= version
    /\ \A i \in 1..Len(stream) : stream[i] <= version

LEMMA FinishTakes ==
  ASSUME TypeOK, NEW r \in Replicas, NEW t \in Tasks, Finish(r, t)
  PROVE  \A q \in Replicas, b \in Actors : held'[q][b] = held[q][b] \/ held'[q][b] = 0
<1>1. Keep(r, t, 0) /\ held \in [Replicas -> [Actors -> Nat]] /\ t \in Actors
  BY ActorsAre DEF Finish, TypeOK
<1>2. QED
  BY <1>1 DEF Keep

LEMMA KnownStep == TypeInv /\ HasGroup /\ KnownVersions /\ [Next]_vars => KnownVersions'
<1> SUFFICES ASSUME TypeInv, HasGroup, KnownVersions, [Next]_vars
             PROVE  KnownVersions'
  OBVIOUS
<1>t. /\ TypeOK
      /\ version \in Nat /\ stream \in Seq(Nat)
      /\ applied \in [Replicas -> Nat]
      /\ held \in [Replicas -> [Actors -> Nat]]
  BY DEF TypeInv, TypeOK
<1>h. \A q \in Replicas, b \in Actors : held[q][b] \in Nat /\ held[q][b] <= version
  BY <1>t DEF KnownVersions
<1>k. ASSUME NEW r \in Replicas, NEW a \in Actors, NEW v \in Nat, Keep(r, a, v), version' \in Nat,
             v <= version', version <= version', stream' = stream, applied' = applied
      PROVE  KnownVersions'
  <2>1. /\ held' \in [Replicas -> [Actors -> Nat]] /\ held'[r][a] = v
        /\ \A q \in Replicas, b \in Actors : q # r \/ b # a => held'[q][b] = held[q][b]
    BY <1>k, <1>t, KeepTakes
  <2>2. \A q \in Replicas, b \in Actors : held'[q][b] <= version'
    <3>1. ASSUME NEW q \in Replicas, NEW b \in Actors
          PROVE  held'[q][b] <= version'
      <4>1. CASE q = r /\ b = a
        BY <1>k, <2>1, <4>1
      <4>2. CASE q # r \/ b # a
        <5>1. held'[q][b] = held[q][b] /\ held[q][b] \in Nat /\ held[q][b] <= version
          BY <1>h, <2>1, <4>2
        <5>2. QED
          BY <1>k, <1>t, <5>1
      <4>3. QED
        BY <4>1, <4>2
    <3>2. QED
      BY <3>1
  <2>3. QED
    BY <1>k, <1>t, <2>2 DEF KnownVersions
<1>l. ASSUME version' = version, stream' = stream,
             \A q \in Replicas : applied'[q] <= version,
             \A q \in Replicas, b \in Actors : held'[q][b] = held[q][b] \/ held'[q][b] = 0
      PROVE  KnownVersions'
  <2>1. \A q \in Replicas, b \in Actors : held'[q][b] <= version
    BY <1>l, <1>h, <1>t
  <2>2. QED
    BY <1>l, <2>1 DEF KnownVersions
<1>s. ASSUME NEW r \in Replicas, NEW a \in Actors, applied' = [applied EXCEPT ![r] = held[r][a]]
      PROVE  \A q \in Replicas : applied'[q] <= version
  BY <1>s, <1>t DEF KnownVersions
<1>u. ASSUME version' = version, stream' = stream, applied' = applied, held' = held
      PROVE  KnownVersions'
  BY <1>u DEF KnownVersions
<1>1. ASSUME NEW r \in Replicas, SeedBump(r) \/ AdminBump(r)
      PROVE  KnownVersions'
  <2>1. PICK a \in Actors : Bump(r, a) /\ applied' = applied
    BY <1>1, ActorsAre DEF SeedBump, AdminBump
  <2>2. QED
    BY <2>1, <1>k, <1>t DEF Bump
<1>2. ASSUME NEW r \in Replicas, Connect(r) \/ LoadConfig(r) \/ Adopt(r) \/ SeedSet(r)
      PROVE  KnownVersions'
  BY <1>2, <1>u DEF Connect, LoadConfig, Adopt, SeedSet, storage
<1>3. ASSUME NEW r \in Replicas, NEW a \in Actors, ReadVersion(r, a)
      PROVE  KnownVersions'
  BY <1>3, <1>k, <1>t DEF ReadVersion, storage
<1>4. ASSUME NEW r \in Replicas, Started(r)
      PROVE  KnownVersions'
  <2>1. \A q \in Replicas, b \in Actors : held'[q][b] = held[q][b] \/ held'[q][b] = 0
    BY <1>4, <1>t DEF Started, Keep
  <2>2. QED
    BY <1>4, <1>l, <1>s, <2>1, ActorsAre DEF Started, storage
<1>5. ASSUME NEW r \in Replicas, AdminSet(r) \/ AdminSwap(r)
      PROVE  KnownVersions'
  BY <1>5, <1>u DEF AdminSet, AdminSwap, storage
<1>6. ASSUME NEW r \in Replicas, AdminStamp(r)
      PROVE  KnownVersions'
  BY <1>6, <1>l, <1>s, ActorsAre DEF AdminStamp, storage
<1>7. ASSUME NEW r \in Replicas, AdminPublish(r)
      PROVE  KnownVersions'
  <2>1. \A q \in Replicas, b \in Actors : held'[q][b] = held[q][b] \/ held'[q][b] = 0
    BY <1>7, <1>t DEF AdminPublish, Keep
  <2>2. held[r]["admin"] \in Nat /\ held[r]["admin"] <= version
    BY <1>t, ActorsAre DEF KnownVersions
  <2>3. \A i \in 1..Len(stream') : stream'[i] <= version
    BY <1>7, <1>t, <2>2 DEF AdminPublish, KnownVersions
  <2>4. \A q \in Replicas, b \in Actors : held'[q][b] <= version
    BY <1>t, <2>1 DEF KnownVersions
  <2>5. QED
    BY <1>7, <2>3, <2>4 DEF AdminPublish, KnownVersions
<1>8. ASSUME NEW r \in Replicas, SkipMessage(r)
      PROVE  KnownVersions'
  BY <1>8, <1>u DEF SkipMessage, storage
<1>9. ASSUME NEW r \in Replicas, TakeMessage(r)
      PROVE  KnownVersions'
  <2>1. cursor[r] + 1 \in 1..Len(stream) /\ Len(stream) \in Nat
    <3>1. cursor[r] \in Int /\ Len(stream) \in Nat
      BY <1>t DEF TypeOK
    <3>2. cursor[r] >= 0 /\ cursor[r] < Len(stream)
      BY <1>9 DEF TakeMessage, Running, HasGroup
    <3>3. QED
      BY <3>1, <3>2
  <2>2. stream[cursor[r] + 1] \in Nat /\ stream[cursor[r] + 1] <= version
    BY <1>t, <2>1 DEF KnownVersions
  <2>3. QED
    BY <1>9, <1>k, <1>t, <2>2, ActorsAre DEF TakeMessage, storage
<1>10. ASSUME NEW r \in Replicas, Poll(r)
       PROVE  KnownVersions'
  BY <1>10, <1>k, <1>t, ActorsAre DEF Poll, storage
<1>11. ASSUME NEW r \in Replicas, Compare(r)
       PROVE  KnownVersions'
  <2>1. \A q \in Replicas, b \in Actors : held'[q][b] = held[q][b] \/ held'[q][b] = 0
    BY <1>11, <1>t DEF Compare, Keep
  <2>2. QED
    BY <1>11, <1>l, <2>1 DEF Compare, storage, KnownVersions
<1>12. ASSUME NEW r \in Replicas, NEW t \in Tasks, Fetch(r, t) \/ ReloadFails(r, t)
       PROVE  KnownVersions'
  <2>1. \A q \in Replicas, b \in Actors : held'[q][b] = held[q][b] \/ held'[q][b] = 0
    BY <1>12, <1>t, FinishTakes DEF Fetch, ReloadFails
  <2>2. QED
    BY <1>12, <1>l, <2>1 DEF Fetch, ReloadFails, storage, KnownVersions
<1>13. ASSUME NEW r \in Replicas, NEW t \in Tasks, Swap(r, t)
       PROVE  KnownVersions'
  BY <1>13, <1>u DEF Swap, storage
<1>14. ASSUME NEW r \in Replicas, NEW t \in Tasks, Stamp(r, t)
       PROVE  KnownVersions'
  <2>1. \A q \in Replicas, b \in Actors : held'[q][b] = held[q][b] \/ held'[q][b] = 0
    BY <1>14, <1>t, FinishTakes DEF Stamp
  <2>2. QED
    BY <1>14, <1>l, <1>s, <2>1, ActorsAre DEF Stamp, storage
<1>15. ASSUME NEW r \in Replicas, Stop(r)
       PROVE  KnownVersions'
  <2>1. \A q \in Replicas, b \in Actors : held'[q][b] = held[q][b] \/ held'[q][b] = 0
    BY <1>15, <1>t DEF Stop
  <2>2. \A q \in Replicas : applied'[q] <= version
    BY <1>15, <1>t DEF Stop, KnownVersions
  <2>3. QED
    BY <1>15, <1>l, <2>1, <2>2 DEF Stop, storage
<1>16. ASSUME NEW r \in Replicas, UpdateFails(r)
       PROVE  KnownVersions'
  BY <1>16, <1>k, <1>t, ActorsAre DEF UpdateFails, storage
<1>17. ASSUME NEW r \in Replicas, SubscriptionDies(r)
       PROVE  KnownVersions'
  BY <1>17, <1>u DEF SubscriptionDies, storage
<1>18. CASE UNCHANGED vars
  BY <1>18, <1>u DEF vars, storage
<1>19. CASE Next
  BY <1>19, <1>1, <1>2, <1>3, <1>4, <1>5, <1>6, <1>7, <1>8, <1>9, <1>10, <1>11, <1>12,
     <1>13, <1>14, <1>15, <1>16, <1>17, ActorsAre
     DEF Next, Startup, Update, Watch, Reconcile, Reload, Tasks
<1>20. QED
  BY <1>18, <1>19

---------------------------------------------------------------------------
(***************************************************************************)
(* Deployments in which nothing overlaps.  A write is then alone from its  *)
(* INCR to its end, so that payload and version are at most one apart; the *)
(* writer is not torn from its work, which a stop or a failing command     *)
(* would do.                                                               *)
(***************************************************************************)
Uninterrupted == \A s \in Settings : s.alone => s.faults \cap {"stop", "update_fails"} = {}

Busy(r, a) == at[r][a] \notin {"idle", "dead", "down", "running"}

(* A busy admin is the only busy actor, and one replica starts at a time.  *)
Exclusive ==
    \A r, q \in Replicas :
        /\ Busy(r, "admin") => \A a \in Actors : Busy(q, a) => q = r /\ a = "admin"
        /\ Busy(r, "main") /\ Busy(q, "main") => q = r

(* What is stored: a document once a replica got past its start, and the   *)
(* one of the version unless a writer has yet to store it.                 *)
StoredFollows ==
    /\ \A r \in Replicas :
         /\ at[r]["main"] \in {"read", "stamp", "running"} => payload # NoDocument
         /\ at[r]["main"] = "resolve" => draft[r]["main"] = payload
         /\ at[r]["main"] = "seed" =>
              payload = NoDocument /\ draft[r]["main"].by = version /\ version > 0
         /\ at[r]["admin"] = "set" =>
              /\ draft[r]["admin"].by = version /\ version > 0
              /\ \A q \in Replicas : applied[q] < version
    /\ (\A r \in Replicas : at[r]["main"] # "seed" /\ at[r]["admin"] # "set")
         => payload.by = version

(* What is served: the stored document, by a replica that has loaded or    *)
(* written it and by one that has caught up.                               *)
ServedFollows ==
    \A r \in Replicas :
        /\ \A a \in Actors :
             /\ at[r][a] = "swap" => draft[r][a] = payload
             /\ at[r][a] \in {"read", "stamp", "publish"} => config[r] = payload
        /\ Running(r) /\ applied[r] = version => config[r] = payload
        /\ at[r]["admin"] = "set" /\ applied[r] = version - 1 =>
             \A s \in Sections \ given[r] : draft[r]["admin"].of[s] = payload.of[s]

AloneInv == setting.alone => Exclusive /\ StoredFollows /\ ServedFollows

(* What AloneInv says of a deployment in which nothing overlaps.           *)
Consistent == Exclusive /\ StoredFollows /\ ServedFollows

LEMMA AloneStarts == Init => Consistent
<1> SUFFICES ASSUME Init
             PROVE  Consistent
  OBVIOUS
<1>1. /\ \A r \in Replicas : at[r]["main"] = "down"
      /\ \A r \in Replicas, a \in Actors : a # "main" => at[r][a] = "idle"
  BY ActorsAre DEF Init, Down
<1>2. payload.by = version
  BY DEF Init, NewDocument, NoDocument
<1>3. Exclusive
  BY <1>1, ActorsAre DEF Exclusive, Busy
<1>4. StoredFollows
  BY <1>1, <1>2, ActorsAre DEF StoredFollows
<1>5. ServedFollows
  BY <1>1, ActorsAre DEF ServedFollows, Running
<1>6. QED
  BY <1>3, <1>4, <1>5 DEF Consistent

(* Who moves on or comes to rest makes nobody else busy.                   *)
LEMMA ExclusiveShrinks ==
  ASSUME Exclusive, NEW r \in Replicas, NEW a \in Actors,
         \A q \in Replicas, b \in Actors : q # r \/ b # a => at'[q][b] = at[q][b],
         Busy(r, a) \/ ~Busy(r, a)'
  PROVE  Exclusive'
<1>1. \A q \in Replicas, b \in Actors : Busy(q, b)' => Busy(q, b)
  BY DEF Busy
<1>2. QED
  BY <1>1, ActorsAre DEF Exclusive

(* A step that leaves the version and what is stored as they are.          *)
LEMMA QuietStep ==
  ASSUME TypeOK, Exclusive, StoredFollows, ServedFollows,
         NEW r \in Replicas, NEW a \in Actors,
         \A q \in Replicas, b \in Actors : q # r \/ b # a =>
            at'[q][b] = at[q][b] /\ draft'[q][b] = draft[q][b],
         \A q \in Replicas \ {r} : config'[q] = config[q] /\ applied'[q] = applied[q],
         version' = version, payload' = payload, given' = given,
         at[r][a] \notin {"seed", "set"}, at'[r][a] \notin {"seed", "set"},
         config'[r] = config[r] \/ config'[r] = payload,
         applied' = applied \/ (Busy(r, a) /\ config'[r] = payload),
         a = "main" /\ at'[r][a] \in {"read", "stamp", "running"} =>
            payload # NoDocument /\ (config'[r] = payload \/ at[r][a] = "running"),
         a = "main" /\ at'[r][a] = "resolve" => draft'[r][a] = payload,
         at'[r][a] = "swap" => draft'[r][a] = payload,
         at'[r][a] \in {"read", "stamp", "publish"} => config'[r] = payload
  PROVE  StoredFollows' /\ ServedFollows'
<1>1. ASSUME NEW q \in Replicas, at'[q]["admin"] = "set"
      PROVE  /\ at[q]["admin"] = "set" /\ draft'[q]["admin"] = draft[q]["admin"]
             /\ applied' = applied
  <2>1. q # r \/ "admin" # a
    BY <1>1
  <2>2. at[q]["admin"] = "set" /\ draft'[q]["admin"] = draft[q]["admin"]
    BY <1>1, <2>1, ActorsAre
  <2>3. ~Busy(r, a)
    BY <2>1, <2>2 DEF Exclusive, Busy
  <2>4. QED
    BY <2>2, <2>3
<1>2. ASSUME NEW q \in Replicas, at'[q]["main"] = "seed"
      PROVE  at[q]["main"] = "seed" /\ draft'[q]["main"] = draft[q]["main"]
  BY <1>2, ActorsAre
<1>3. ASSUME NEW q \in Replicas
      PROVE  /\ at'[q]["main"] \in {"read", "stamp", "running"} => payload # NoDocument
             /\ at'[q]["main"] = "resolve" => draft'[q]["main"] = payload
  <2>1. CASE q # r \/ "main" # a
    BY <2>1, ActorsAre DEF StoredFollows
  <2>2. CASE q = r /\ "main" = a
    BY <2>2
  <2>3. QED
    BY <2>1, <2>2
<1>4. (\A q \in Replicas : at'[q]["main"] # "seed" /\ at'[q]["admin"] # "set") => payload.by = version
  <2>1. \A q \in Replicas, b \in Actors : at[q][b] \in {"seed", "set"} => at'[q][b] = at[q][b]
    OBVIOUS
  <2>2. QED
    BY <2>1, ActorsAre DEF StoredFollows
<1>5. StoredFollows'
  BY <1>1, <1>2, <1>3, <1>4 DEF StoredFollows
<1>6. ASSUME NEW q \in Replicas
      PROVE  /\ \A b \in Actors :
                  /\ at'[q][b] = "swap" => draft'[q][b] = payload
                  /\ at'[q][b] \in {"read", "stamp", "publish"} => config'[q] = payload
             /\ Running(q)' /\ applied'[q] = version => config'[q] = payload
  <2>1. ASSUME NEW b \in Actors
        PROVE  /\ at'[q][b] = "swap" => draft'[q][b] = payload
               /\ at'[q][b] \in {"read", "stamp", "publish"} => config'[q] = payload
    <3>1. CASE q # r \/ b # a
      BY <3>1 DEF ServedFollows
    <3>2. CASE q = r /\ b = a
      BY <3>2
    <3>3. QED
      BY <3>1, <3>2
  <2>2. ASSUME Running(q)', applied'[q] = version
        PROVE  config'[q] = payload
    <3>1. CASE q # r
      BY <2>2, <3>1, ActorsAre DEF ServedFollows, Running
    <3>2. CASE q = r /\ a = "main"
      BY <2>2, <3>2 DEF ServedFollows, Running
    <3>3. CASE q = r /\ a # "main"
      BY <2>2, <3>3, ActorsAre DEF ServedFollows, Running
    <3>4. QED
      BY <3>1, <3>2, <3>3
  <2>3. QED
    BY <2>1, <2>2
<1>7. ASSUME NEW q \in Replicas, at'[q]["admin"] = "set", applied'[q] = version - 1
      PROVE  \A s \in Sections \ given[q] : draft'[q]["admin"].of[s] = payload.of[s]
  BY <1>1, <1>7 DEF ServedFollows
<1>8. ServedFollows'
  BY <1>6, <1>7 DEF ServedFollows, Running
<1>9. QED
  BY <1>5, <1>8

(* Such a step in which an actor only moves.                               *)
LEMMA MoveStep ==
  ASSUME TypeOK, Exclusive, StoredFollows, ServedFollows,
         NEW r \in Replicas, NEW a \in Actors, NEW place \in Places, Goto(r, a, place),
         UNCHANGED <<version, payload, given, config, applied, draft>>,
         at[r][a] \notin {"seed", "set", "running"},
         place \notin {"seed", "set", "resolve", "swap", "read", "publish", "running"},
         place = "stamp" => at[r][a] = "read"
  PROVE  StoredFollows' /\ ServedFollows'
<1>1. /\ at'[r][a] = place
      /\ \A q \in Replicas, b \in Actors : q # r \/ b # a => at'[q][b] = at[q][b]
  BY GotoMoves DEF TypeOK
<1>2. place = "stamp" => config[r] = payload /\ (a = "main" => payload # NoDocument)
  BY ActorsAre DEF ServedFollows, StoredFollows
<1>3. QED
  BY <1>1, <1>2, QuietStep

LEMMA AloneRead ==
  ASSUME TypeInv, Consistent, NEW r \in Replicas, NEW a \in Actors, ReadVersion(r, a)
  PROVE  Consistent'
<1>e. Exclusive /\ StoredFollows /\ ServedFollows
  BY DEF Consistent
<1>t. /\ TypeOK /\ ActsWhenRunning /\ WatcherHasMessage
      /\ at \in [Replicas -> [Actors -> Places]]
      /\ draft \in [Replicas -> [Actors -> Documents]]
      /\ config \in [Replicas -> Documents]
      /\ applied \in [Replicas -> Nat] /\ version \in Nat
  BY DEF TypeInv, TypeOK
<1>1. /\ Goto(r, a, "stamp") /\ "stamp" \in Places /\ at[r][a] = "read"
      /\ UNCHANGED <<version, payload, given, config, applied, draft>>
  BY DEF ReadVersion, Places, storage
<1>2. StoredFollows' /\ ServedFollows'
  BY <1>t, <1>e, <1>1, MoveStep
<1>3. \A q \in Replicas, b \in Actors : q # r \/ b # a => at'[q][b] = at[q][b]
  BY <1>t, <1>1, GotoMoves
<1>4. Busy(r, a)
  BY <1>1 DEF Busy
<1>5. Exclusive'
  BY <1>e, <1>3, <1>4, ExclusiveShrinks
<1>6. QED
  BY <1>2, <1>5 DEF Consistent

LEMMA AloneStartup ==
  ASSUME TypeInv, KnownVersions, Consistent, setting.alone, NEW r \in Replicas, Startup(r)
  PROVE  Consistent'
<1>e. Exclusive /\ StoredFollows /\ ServedFollows
  BY DEF Consistent
<1>t. /\ TypeOK /\ ActsWhenRunning /\ WatcherHasMessage
      /\ at \in [Replicas -> [Actors -> Places]]
      /\ draft \in [Replicas -> [Actors -> Documents]]
      /\ config \in [Replicas -> Documents]
      /\ applied \in [Replicas -> Nat] /\ version \in Nat
  BY DEF TypeInv, TypeOK
<1>1. CASE Connect(r)
  <2>1. /\ Goto(r, "main", "load") /\ "load" \in Places
        /\ at[r]["main"] \notin {"seed", "set", "running"}
        /\ UNCHANGED <<version, payload, given, config, applied, draft>>
    BY <1>1 DEF Connect, Places, storage
  <2>2. StoredFollows' /\ ServedFollows'
    BY <1>t, <1>e, <2>1, ActorsAre, MoveStep
  <2>3. \A q \in Replicas : ~Busy(q, "admin") /\ ~Busy(q, "main")
    BY <1>1 DEF Connect, MayStart, Writing, Starting, Busy
  <2>4. Exclusive'
    <3>1. \A q \in Replicas, b \in Actors : q # r \/ b # "main" => at'[q][b] = at[q][b]
      BY <1>t, <2>1, ActorsAre, GotoMoves
    <3>2. \A q \in Replicas, b \in Actors : Busy(q, b)' => Busy(q, b) \/ (q = r /\ b = "main")
      BY <3>1 DEF Busy
    <3>3. QED
      BY <1>e, <2>3, <3>2, ActorsAre DEF Exclusive
  <2>5. QED
    BY <2>2, <2>4 DEF Consistent
<1>2. CASE LoadConfig(r)
  <2>1. /\ at[r]["main"] = "load" /\ at'[r]["main"] = "resolve"
        /\ \A q \in Replicas, b \in Actors : q # r \/ b # "main" => at'[q][b] = at[q][b]
    <3>1. Goto(r, "main", "resolve") /\ "resolve" \in Places /\ at[r]["main"] = "load"
      BY <1>2 DEF LoadConfig, Finish, Places
    <3>2. QED
      BY <3>1, <1>t, ActorsAre, GotoMoves
  <2>2. /\ draft'[r]["main"] = payload
        /\ \A q \in Replicas, b \in Actors : q # r \/ b # "main" => draft'[q][b] = draft[q][b]
    <3>1. Hold(r, "main", payload) /\ payload \in Documents
      BY <1>2, <1>t DEF LoadConfig, TypeOK
    <3>2. QED
      BY <3>1, <1>t, ActorsAre, HoldTakes
  <2>3. UNCHANGED <<version, payload, given, config, applied>>
    BY <1>2 DEF LoadConfig, storage
  <2>4. Busy(r, "main")
    BY <2>1 DEF Busy
  <2>5. Exclusive'
    BY <1>e, <2>1, <2>4, ActorsAre, ExclusiveShrinks
  <2>6. StoredFollows' /\ ServedFollows'
    BY <1>t, <1>e, <2>1, <2>2, <2>3, <2>4, ActorsAre, QuietStep
  <2>7. QED
    BY <2>5, <2>6 DEF Consistent
<1>3. CASE Adopt(r)
  <2>1. /\ at[r]["main"] = "resolve" /\ at'[r]["main"] = "read"
        /\ \A q \in Replicas, b \in Actors : q # r \/ b # "main" => at'[q][b] = at[q][b]
    <3>1. Goto(r, "main", "read") /\ "read" \in Places /\ at[r]["main"] = "resolve"
      BY <1>3 DEF Adopt, Finish, Places
    <3>2. QED
      BY <3>1, <1>t, ActorsAre, GotoMoves
  <2>2. /\ config'[r] = draft[r]["main"] /\ \A q \in Replicas \ {r} : config'[q] = config[q]
        /\ \A q \in Replicas, b \in Actors : q # r \/ b # "main" => draft'[q][b] = draft[q][b]
    <3>1. Serve(r, "main")
      BY <1>3 DEF Adopt
    <3>2. QED
      BY <3>1, <1>t, ActorsAre, ServePutsInForce
  <2>p. draft[r]["main"] = payload
    BY <1>e, <2>1, ActorsAre DEF StoredFollows
  <2>3. UNCHANGED <<version, payload, given, applied>> /\ payload # NoDocument
    BY <1>3, <2>p DEF Adopt, storage
  <2>4. Busy(r, "main")
    BY <2>1 DEF Busy
  <2>5. Exclusive'
    BY <1>e, <2>1, <2>4, ActorsAre, ExclusiveShrinks
  <2>6. StoredFollows' /\ ServedFollows'
    BY <1>t, <1>e, <2>1, <2>2, <2>3, <2>4, <2>p, ActorsAre, QuietStep
  <2>7. QED
    BY <2>5, <2>6 DEF Consistent
<1>4. CASE SeedBump(r)
  <2>1. /\ at[r]["main"] = "resolve" /\ at'[r]["main"] = "seed"
        /\ \A q \in Replicas, b \in Actors : q # r \/ b # "main" => at'[q][b] = at[q][b]
    <3>1. Goto(r, "main", "seed") /\ "seed" \in Places /\ at[r]["main"] = "resolve"
      BY <1>4 DEF SeedBump, Places
    <3>2. QED
      BY <3>1, <1>t, ActorsAre, GotoMoves
  <2>2. /\ draft'[r]["main"] = NewDocument(version + 1)
        /\ \A q \in Replicas, b \in Actors : q # r \/ b # "main" => draft'[q][b] = draft[q][b]
    <3>1. Hold(r, "main", NewDocument(version + 1)) /\ NewDocument(version + 1) \in Documents
      BY <1>4, <1>t, DocumentsAre DEF SeedBump
    <3>2. QED
      BY <3>1, <1>t, ActorsAre, HoldTakes
  <2>3. /\ UNCHANGED <<payload, given, config, applied>> /\ version' = version + 1
        /\ payload = NoDocument
    BY <1>4, <1>e, <2>1, ActorsAre DEF SeedBump, Bump, StoredFollows
  <2>4. Busy(r, "main")
    BY <2>1 DEF Busy
  <2>5. Exclusive'
    BY <1>e, <2>1, <2>4, ActorsAre, ExclusiveShrinks
  <2>6. \A q \in Replicas : /\ at[q]["admin"] # "set"
                            /\ Busy(q, "main") => q = r
    BY <1>e, <2>4, ActorsAre DEF Exclusive, Busy
  <2>7. StoredFollows'
    <3>1. ASSUME NEW q \in Replicas
          PROVE  /\ at'[q]["main"] \in {"read", "stamp", "running"} => payload # NoDocument
                 /\ at'[q]["main"] = "resolve" => draft'[q]["main"] = payload
                 /\ at'[q]["admin"] # "set"
      BY <1>e, <2>1, <2>2, <2>6, ActorsAre DEF StoredFollows
    <3>2. ASSUME NEW q \in Replicas, at'[q]["main"] = "seed"
          PROVE  q = r
      BY <2>1, <2>6, <3>2, ActorsAre DEF Busy
    <3>3. draft'[r]["main"].by = version'
      BY <2>2, <2>3 DEF NewDocument
    <3>4. version' > 0
      BY <1>t, <2>3
    <3>5. QED
      BY <2>1, <2>3, <3>1, <3>2, <3>3, <3>4 DEF StoredFollows
  <2>8. ServedFollows'
    <3>1. ASSUME NEW q \in Replicas, NEW b \in Actors
          PROVE  /\ at'[q][b] = "swap" => draft'[q][b] = payload
                 /\ at'[q][b] \in {"read", "stamp", "publish"} => config[q] = payload
      BY <1>e, <2>1, <2>2 DEF ServedFollows
    <3>2. \A q \in Replicas : applied[q] # version + 1
      BY <1>t DEF KnownVersions
    <3>3. \A q \in Replicas : at'[q]["admin"] # "set"
      BY <2>1, <2>6, ActorsAre
    <3>4. QED
      BY <2>3, <3>1, <3>2, <3>3 DEF ServedFollows
  <2>9. QED
    BY <2>5, <2>7, <2>8 DEF Consistent
<1>5. CASE SeedSet(r)
  <2>1. /\ at[r]["main"] = "seed" /\ at'[r]["main"] = "read"
        /\ \A q \in Replicas, b \in Actors : q # r \/ b # "main" => at'[q][b] = at[q][b]
    <3>1. Goto(r, "main", "read") /\ "read" \in Places /\ at[r]["main"] = "seed"
      BY <1>5 DEF SeedSet, Places
    <3>2. QED
      BY <3>1, <1>t, ActorsAre, GotoMoves
  <2>2. /\ config'[r] = draft[r]["main"]
        /\ \A q \in Replicas, b \in Actors : q # r \/ b # "main" => draft'[q][b] = draft[q][b]
    <3>1. Serve(r, "main")
      BY <1>5 DEF SeedSet
    <3>2. QED
      BY <3>1, <1>t, ActorsAre, ServePutsInForce
  <2>3. /\ UNCHANGED <<version, given, applied>> /\ payload' = draft[r]["main"]
        /\ payload = NoDocument /\ payload'.by = version /\ version > 0
    BY <1>5, <1>e, <2>1 DEF SeedSet, StoredFollows
  <2>4. payload' # NoDocument
    BY <1>t, <2>3 DEF NoDocument
  <2>5. Busy(r, "main")
    BY <2>1 DEF Busy
  <2>6. Exclusive'
    BY <1>e, <2>1, <2>5, ActorsAre, ExclusiveShrinks
  <2>7. \A q \in Replicas : /\ ~Busy(q, "admin") /\ (Busy(q, "main") => q = r)
                            /\ at[q]["main"] # "running"
    BY <1>e, <2>3, <2>5, ActorsAre DEF Exclusive, StoredFollows
  <2>8. \A q \in Replicas, b \in Actors \ {"main"} : at'[q][b] = "idle"
    BY <1>t, <2>1, <2>7 DEF ActsWhenRunning, Running
  <2>9. \A q \in Replicas :
          at'[q]["main"] \in {"seed", "resolve", "swap", "read", "stamp", "publish", "running"} => q = r
    BY <2>1, <2>7, ActorsAre DEF Busy
  <2>10. StoredFollows'
    BY <2>1, <2>3, <2>4, <2>8, <2>9, ActorsAre DEF StoredFollows
  <2>11. ServedFollows'
    <3>1. ASSUME NEW q \in Replicas, NEW b \in Actors
          PROVE  /\ at'[q][b] # "swap"
                 /\ at'[q][b] \in {"read", "stamp", "publish"} => config'[q] = payload'
      <4>1. CASE b # "main"
        BY <2>8, <4>1
      <4>2. CASE b = "main"
        BY <2>1, <2>2, <2>3, <2>9, <4>2
      <4>3. QED
        BY <4>1, <4>2
    <3>2. \A q \in Replicas : ~Running(q)' /\ at'[q]["admin"] # "set"
      BY <2>1, <2>8, <2>9, ActorsAre DEF Running
    <3>3. QED
      BY <3>1, <3>2 DEF ServedFollows, Running
  <2>12. QED
    BY <2>6, <2>10, <2>11 DEF Consistent
<1>6. CASE ReadVersion(r, "main")
  BY <1>6, ActorsAre, AloneRead
<1>7. CASE Started(r)
  <2>1. /\ at[r]["main"] = "stamp" /\ at'[r]["main"] = "running"
        /\ \A q \in Replicas, b \in Actors : q # r \/ b # "main" => at'[q][b] = at[q][b]
    <3>1. Goto(r, "main", "running") /\ "running" \in Places /\ at[r]["main"] = "stamp"
      BY <1>7 DEF Started, Finish, Places
    <3>2. QED
      BY <3>1, <1>t, ActorsAre, GotoMoves
  <2>2. config[r] = payload /\ ("main" = "main" => payload # NoDocument)
    BY <1>e, <2>1, ActorsAre DEF ServedFollows, StoredFollows
  <2>3. /\ UNCHANGED <<version, payload, given, config, draft>>
        /\ \A q \in Replicas \ {r} : applied'[q] = applied[q]
    BY <1>7, <1>t DEF Started, storage
  <2>4. Busy(r, "main")
    BY <2>1 DEF Busy
  <2>5. Exclusive'
    BY <1>e, <2>1, <2>4, ActorsAre, ExclusiveShrinks
  <2>6. StoredFollows' /\ ServedFollows'
    BY <1>t, <1>e, <2>1, <2>2, <2>3, <2>4, ActorsAre, QuietStep
  <2>7. QED
    BY <2>5, <2>6 DEF Consistent
<1>8. QED
  BY <1>1, <1>2, <1>3, <1>4, <1>5, <1>6, <1>7 DEF Startup

LEMMA AloneUpdate ==
  ASSUME TypeInv, KnownVersions, Consistent, setting.alone, NEW r \in Replicas,
         AdminBump(r) \/ Update(r)
  PROVE  Consistent'
<1>e. Exclusive /\ StoredFollows /\ ServedFollows
  BY DEF Consistent
<1>t. /\ TypeOK /\ ActsWhenRunning /\ WatcherHasMessage
      /\ at \in [Replicas -> [Actors -> Places]]
      /\ draft \in [Replicas -> [Actors -> Documents]]
      /\ config \in [Replicas -> Documents]
      /\ applied \in [Replicas -> Nat] /\ version \in Nat
  BY DEF TypeInv, TypeOK
<1>1. CASE AdminBump(r)
  <2>1. /\ at[r]["admin"] = "idle" /\ at'[r]["admin"] = "set"
        /\ \A q \in Replicas, b \in Actors : q # r \/ b # "admin" => at'[q][b] = at[q][b]
    <3>1. Goto(r, "admin", "set") /\ "set" \in Places /\ at[r]["admin"] = "idle"
      BY <1>1 DEF AdminBump, Places
    <3>2. QED
      BY <3>1, <1>t, ActorsAre, GotoMoves
  <2>2. PICK sections \in setting.bodies :
          /\ Hold(r, "admin", Merge(r, sections, version + 1))
          /\ given' = [given EXCEPT ![r] = sections]
    BY <1>1 DEF AdminBump
  <2>3. sections \in SUBSET Sections /\ version + 1 \in Nat
    BY <1>t, ReloadAssumption DEF TypeOK
  <2>4. /\ Merge(r, sections, version + 1) \in Documents
        /\ Merge(r, sections, version + 1).by = version + 1
        /\ \A s \in Sections \ sections : Merge(r, sections, version + 1).of[s] = config[r].of[s]
    BY <1>t, <2>3, MergeIsDocument
  <2>5. /\ draft'[r]["admin"] = Merge(r, sections, version + 1)
        /\ \A q \in Replicas, b \in Actors : q # r \/ b # "admin" => draft'[q][b] = draft[q][b]
    BY <1>t, <2>2, <2>4, ActorsAre, HoldTakes
  <2>6. given'[r] = sections
    BY <1>t, <2>2 DEF TypeOK
  <2>7. /\ UNCHANGED <<payload, config, applied>> /\ version' = version + 1 /\ Running(r)
    BY <1>1 DEF AdminBump, Bump
  <2>8. \A q \in Replicas, b \in Actors : ~Busy(q, b)
    <3>1. ~Writing /\ ~Loading
      BY <1>1 DEF AdminBump, MayWrite
    <3>2. ASSUME NEW q \in Replicas, NEW b \in Actors
          PROVE  ~Busy(q, b)
      <4>1. CASE b = "main"
        BY <3>1, <4>1 DEF Loading, Starting, Busy
      <4>2. CASE b = "admin"
        BY <3>1, <4>2 DEF Writing, Busy
      <4>3. CASE b \in Tasks
        BY <3>1, <4>3 DEF Loading, Busy
      <4>4. QED
        BY <4>1, <4>2, <4>3 DEF Actors
    <3>3. QED
      BY <3>2
  <2>9. \A q \in Replicas, b \in Actors : Busy(q, b)' => q = r /\ b = "admin"
    BY <2>1, <2>8 DEF Busy
  <2>10. Exclusive'
    BY <2>9, ActorsAre DEF Exclusive
  <2>11. \A q \in Replicas : applied[q] < version + 1
    BY <1>t DEF KnownVersions
  <2>12. StoredFollows'
    <3>1. ASSUME NEW q \in Replicas
          PROVE  /\ at'[q]["main"] \in {"read", "stamp", "running"} => payload # NoDocument
                 /\ at'[q]["main"] \notin {"resolve", "seed"}
                 /\ at'[q]["admin"] = "set" => q = r
      BY <1>e, <2>1, <2>9, ActorsAre DEF StoredFollows, Busy
    <3>2. draft'[r]["admin"].by = version' /\ version' > 0
      BY <1>t, <2>4, <2>5, <2>7
    <3>3. QED
      BY <2>1, <2>7, <2>11, <3>1, <3>2 DEF StoredFollows
  <2>13. ServedFollows'
    <3>1. ASSUME NEW q \in Replicas, NEW b \in Actors
          PROVE  at'[q][b] \notin {"swap", "read", "stamp", "publish"}
      BY <2>1, <2>9 DEF Busy
    <3>2. \A q \in Replicas : applied[q] # version + 1
      BY <1>t, <2>11
    <3>3. ASSUME NEW q \in Replicas, at'[q]["admin"] = "set", applied[q] = version
          PROVE  \A s \in Sections \ given'[q] : draft'[q]["admin"].of[s] = payload.of[s]
      <4>1. q = r
        BY <2>9, <3>3, ActorsAre DEF Busy
      <4>2. config[r] = payload
        BY <1>e, <2>7, <3>3, <4>1 DEF ServedFollows
      <4>3. QED
        BY <2>4, <2>5, <2>6, <4>1, <4>2
    <3>4. version' - 1 = version
      BY <1>t, <2>7
    <3>5. QED
      BY <2>7, <3>1, <3>2, <3>3, <3>4 DEF ServedFollows
  <2>14. QED
    BY <2>10, <2>12, <2>13 DEF Consistent
<1>2. CASE AdminSet(r)
  <2>1. /\ at[r]["admin"] = "set" /\ at'[r]["admin"] = "swap"
        /\ \A q \in Replicas, b \in Actors : q # r \/ b # "admin" => at'[q][b] = at[q][b]
    <3>1. Goto(r, "admin", "swap") /\ "swap" \in Places /\ at[r]["admin"] = "set"
      BY <1>2 DEF AdminSet, Places
    <3>2. QED
      BY <3>1, <1>t, ActorsAre, GotoMoves
  <2>2. /\ UNCHANGED <<version, config, applied, draft>> /\ payload' = draft[r]["admin"]
    BY <1>2 DEF AdminSet
  <2>3. payload'.by = version /\ version > 0 /\ \A q \in Replicas : applied[q] < version
    BY <1>e, <2>1, <2>2 DEF StoredFollows
  <2>4. payload' # NoDocument
    BY <1>t, <2>3 DEF NoDocument
  <2>5. Busy(r, "admin")
    BY <2>1 DEF Busy
  <2>6. Exclusive'
    BY <1>e, <2>1, <2>5, ActorsAre, ExclusiveShrinks
  <2>7. \A q \in Replicas, b \in Actors : Busy(q, b)' => q = r /\ b = "admin"
    BY <1>e, <2>1, <2>5, ActorsAre DEF Exclusive, Busy
  <2>8. StoredFollows'
    <3>1. ASSUME NEW q \in Replicas
          PROVE  at'[q]["main"] \notin {"resolve", "seed"} /\ at'[q]["admin"] # "set"
      BY <2>1, <2>7, ActorsAre DEF Busy
    <3>2. QED
      BY <2>2, <2>3, <2>4, <3>1 DEF StoredFollows
  <2>9. ServedFollows'
    <3>1. ASSUME NEW q \in Replicas, NEW b \in Actors
          PROVE  /\ at'[q][b] = "swap" => draft'[q][b] = payload'
                 /\ at'[q][b] \notin {"read", "stamp", "publish", "set"}
      BY <2>1, <2>2, <2>7, ActorsAre DEF Busy
    <3>2. \A q \in Replicas : applied[q] # version
      BY <1>t, <2>3
    <3>3. QED
      BY <2>2, <3>1, <3>2, ActorsAre DEF ServedFollows
  <2>10. QED
    BY <2>6, <2>8, <2>9 DEF Consistent
<1>3. CASE AdminSwap(r)
  <2>1. /\ at[r]["admin"] = "swap" /\ at'[r]["admin"] = "read"
        /\ \A q \in Replicas, b \in Actors : q # r \/ b # "admin" => at'[q][b] = at[q][b]
    <3>1. Goto(r, "admin", "read") /\ "read" \in Places /\ at[r]["admin"] = "swap"
      BY <1>3 DEF AdminSwap, Finish, Places
    <3>2. QED
      BY <3>1, <1>t, ActorsAre, GotoMoves
  <2>2. /\ config'[r] = draft[r]["admin"] /\ \A q \in Replicas \ {r} : config'[q] = config[q]
        /\ \A q \in Replicas, b \in Actors : q # r \/ b # "admin" => draft'[q][b] = draft[q][b]
    <3>1. Serve(r, "admin")
      BY <1>3 DEF AdminSwap
    <3>2. QED
      BY <3>1, <1>t, ActorsAre, ServePutsInForce
  <2>p. draft[r]["admin"] = payload
    BY <1>e, <2>1, ActorsAre DEF ServedFollows
  <2>3. UNCHANGED <<version, payload, given, applied>>
    BY <1>3 DEF AdminSwap, storage
  <2>4. Busy(r, "admin")
    BY <2>1 DEF Busy
  <2>5. Exclusive'
    BY <1>e, <2>1, <2>4, ActorsAre, ExclusiveShrinks
  <2>6. StoredFollows' /\ ServedFollows'
    BY <1>t, <1>e, <2>1, <2>2, <2>3, <2>4, <2>p, ActorsAre, QuietStep
  <2>7. QED
    BY <2>5, <2>6 DEF Consistent
<1>4. CASE ReadVersion(r, "admin")
  BY <1>4, ActorsAre, AloneRead
<1>5. CASE AdminStamp(r)
  <2>1. /\ at[r]["admin"] = "stamp" /\ at'[r]["admin"] = "publish"
        /\ \A q \in Replicas, b \in Actors : q # r \/ b # "admin" => at'[q][b] = at[q][b]
    <3>1. Goto(r, "admin", "publish") /\ "publish" \in Places /\ at[r]["admin"] = "stamp"
      BY <1>5 DEF AdminStamp, Finish, Places
    <3>2. QED
      BY <3>1, <1>t, ActorsAre, GotoMoves
  <2>2. config[r] = payload /\ ("admin" = "main" => payload # NoDocument)
    BY <1>e, <2>1, ActorsAre DEF ServedFollows, StoredFollows
  <2>3. /\ UNCHANGED <<version, payload, given, config, draft>>
        /\ \A q \in Replicas \ {r} : applied'[q] = applied[q]
    BY <1>5, <1>t DEF AdminStamp, storage
  <2>4. Busy(r, "admin")
    BY <2>1 DEF Busy
  <2>5. Exclusive'
    BY <1>e, <2>1, <2>4, ActorsAre, ExclusiveShrinks
  <2>6. StoredFollows' /\ ServedFollows'
    BY <1>t, <1>e, <2>1, <2>2, <2>3, <2>4, ActorsAre, QuietStep
  <2>7. QED
    BY <2>5, <2>6 DEF Consistent
<1>6. CASE AdminPublish(r)
  <2>1. /\ Goto(r, "admin", "idle") /\ "idle" \in Places
        /\ at[r]["admin"] \notin {"seed", "set", "running"}
        /\ UNCHANGED <<version, payload, given, config, applied, draft>>
    BY <1>6 DEF AdminPublish, Finish, Places, storage
  <2>2. StoredFollows' /\ ServedFollows'
    BY <1>t, <1>e, <2>1, ActorsAre, MoveStep
  <2>3. Exclusive'
    <3>1. /\ at'[r]["admin"] = "idle"
          /\ \A q \in Replicas, b \in Actors : q # r \/ b # "admin" => at'[q][b] = at[q][b]
      BY <1>t, <2>1, ActorsAre, GotoMoves
    <3>2. Busy(r, "admin") \/ ~Busy(r, "admin")'
      BY <1>6, <3>1 DEF AdminPublish, Busy
    <3>3. QED
      BY <1>e, <3>1, <3>2, ActorsAre, ExclusiveShrinks
  <2>4. QED
    BY <2>2, <2>3 DEF Consistent
<1>7. QED
  BY <1>1, <1>2, <1>3, <1>4, <1>5, <1>6 DEF Update

LEMMA AloneReload ==
  ASSUME TypeInv, Consistent, NEW r \in Replicas, NEW t \in Tasks, Reload(r, t)
  PROVE  Consistent'
<1>e. Exclusive /\ StoredFollows /\ ServedFollows
  BY DEF Consistent
<1>t. /\ TypeOK /\ ActsWhenRunning /\ WatcherHasMessage
      /\ at \in [Replicas -> [Actors -> Places]]
      /\ draft \in [Replicas -> [Actors -> Documents]]
      /\ config \in [Replicas -> Documents]
      /\ applied \in [Replicas -> Nat] /\ version \in Nat
  BY DEF TypeInv, TypeOK
<1>m. t \in Actors /\ t # "main"
  BY ActorsAre
<1>1. CASE Fetch(r, t) /\ payload = NoDocument
  <2>1. /\ at[r][t] = "fetch" /\ at'[r][t] = "idle"
        /\ \A q \in Replicas, b \in Actors : q # r \/ b # t => at'[q][b] = at[q][b]
    <3>1. Goto(r, t, "idle") /\ "idle" \in Places /\ at[r][t] = "fetch"
      BY <1>1 DEF Fetch, Finish, Places
    <3>2. QED
      BY <3>1, <1>t, ActorsAre, GotoMoves
  <2>2. /\ draft'[r][t] = payload
        /\ \A q \in Replicas, b \in Actors : q # r \/ b # t => draft'[q][b] = draft[q][b]
    <3>1. Hold(r, t, payload) /\ payload \in Documents
      BY <1>1, <1>t DEF Fetch, TypeOK
    <3>2. QED
      BY <3>1, <1>t, ActorsAre, HoldTakes
  <2>3. UNCHANGED <<version, payload, given, config, applied>>
    BY <1>1 DEF Fetch, storage
  <2>4. Busy(r, t)
    BY <2>1 DEF Busy
  <2>5. Exclusive'
    BY <1>e, <2>1, <2>4, ActorsAre, ExclusiveShrinks
  <2>6. StoredFollows' /\ ServedFollows'
    BY <1>t, <1>e, <2>1, <2>2, <2>3, <2>4, <1>m, QuietStep
  <2>7. QED
    BY <2>5, <2>6 DEF Consistent
<1>2. CASE Fetch(r, t) /\ payload # NoDocument
  <2>1. /\ at[r][t] = "fetch" /\ at'[r][t] = "swap"
        /\ \A q \in Replicas, b \in Actors : q # r \/ b # t => at'[q][b] = at[q][b]
    <3>1. Goto(r, t, "swap") /\ "swap" \in Places /\ at[r][t] = "fetch"
      BY <1>2 DEF Fetch, Finish, Places
    <3>2. QED
      BY <3>1, <1>t, ActorsAre, GotoMoves
  <2>2. /\ draft'[r][t] = payload
        /\ \A q \in Replicas, b \in Actors : q # r \/ b # t => draft'[q][b] = draft[q][b]
    <3>1. Hold(r, t, payload) /\ payload \in Documents
      BY <1>2, <1>t DEF Fetch, TypeOK
    <3>2. QED
      BY <3>1, <1>t, ActorsAre, HoldTakes
  <2>3. UNCHANGED <<version, payload, given, config, applied>>
    BY <1>2 DEF Fetch, storage
  <2>4. Busy(r, t)
    BY <2>1 DEF Busy
  <2>5. Exclusive'
    BY <1>e, <2>1, <2>4, ActorsAre, ExclusiveShrinks
  <2>6. StoredFollows' /\ ServedFollows'
    BY <1>t, <1>e, <2>1, <2>2, <2>3, <2>4, <1>m, QuietStep
  <2>7. QED
    BY <2>5, <2>6 DEF Consistent
<1>3. CASE Swap(r, t)
  <2>1. /\ at[r][t] = "swap" /\ at'[r][t] = "read"
        /\ \A q \in Replicas, b \in Actors : q # r \/ b # t => at'[q][b] = at[q][b]
    <3>1. Goto(r, t, "read") /\ "read" \in Places /\ at[r][t] = "swap"
      BY <1>3 DEF Swap, Finish, Places
    <3>2. QED
      BY <3>1, <1>t, ActorsAre, GotoMoves
  <2>2. /\ config'[r] = draft[r][t] /\ \A q \in Replicas \ {r} : config'[q] = config[q]
        /\ \A q \in Replicas, b \in Actors : q # r \/ b # t => draft'[q][b] = draft[q][b]
    <3>1. Serve(r, t)
      BY <1>3 DEF Swap
    <3>2. QED
      BY <3>1, <1>t, ActorsAre, ServePutsInForce
  <2>p. draft[r][t] = payload
    BY <1>e, <2>1, ActorsAre DEF ServedFollows
  <2>3. UNCHANGED <<version, payload, given, applied>>
    BY <1>3 DEF Swap, storage
  <2>4. Busy(r, t)
    BY <2>1 DEF Busy
  <2>5. Exclusive'
    BY <1>e, <2>1, <2>4, ActorsAre, ExclusiveShrinks
  <2>6. StoredFollows' /\ ServedFollows'
    BY <1>t, <1>e, <2>1, <2>2, <2>3, <2>4, <2>p, <1>m, QuietStep
  <2>7. QED
    BY <2>5, <2>6 DEF Consistent
<1>4. CASE ReadVersion(r, t)
  BY <1>4, ActorsAre, AloneRead
<1>5. CASE Stamp(r, t)
  <2>1. /\ at[r][t] = "stamp" /\ at'[r][t] = "idle"
        /\ \A q \in Replicas, b \in Actors : q # r \/ b # t => at'[q][b] = at[q][b]
    <3>1. Goto(r, t, "idle") /\ "idle" \in Places /\ at[r][t] = "stamp"
      BY <1>5 DEF Stamp, Finish, Places
    <3>2. QED
      BY <3>1, <1>t, ActorsAre, GotoMoves
  <2>2. config[r] = payload /\ (t = "main" => payload # NoDocument)
    BY <1>e, <2>1, ActorsAre DEF ServedFollows, StoredFollows
  <2>3. /\ UNCHANGED <<version, payload, given, config, draft>>
        /\ \A q \in Replicas \ {r} : applied'[q] = applied[q]
    BY <1>5, <1>t DEF Stamp, storage
  <2>4. Busy(r, t)
    BY <2>1 DEF Busy
  <2>5. Exclusive'
    BY <1>e, <2>1, <2>4, ActorsAre, ExclusiveShrinks
  <2>6. StoredFollows' /\ ServedFollows'
    BY <1>t, <1>e, <2>1, <2>2, <2>3, <2>4, <1>m, QuietStep
  <2>7. QED
    BY <2>5, <2>6 DEF Consistent
<1>6. QED
  BY <1>1, <1>2, <1>3, <1>4, <1>5 DEF Reload

LEMMA AloneTasks ==
  ASSUME TypeInv, Consistent, setting.alone, NEW r \in Replicas, Watch(r) \/ Reconcile(r)
  PROVE  Consistent'
<1>e. Exclusive /\ StoredFollows /\ ServedFollows
  BY DEF Consistent
<1>t. /\ TypeOK /\ ActsWhenRunning /\ WatcherHasMessage
      /\ at \in [Replicas -> [Actors -> Places]]
      /\ draft \in [Replicas -> [Actors -> Documents]]
      /\ config \in [Replicas -> Documents]
      /\ applied \in [Replicas -> Nat] /\ version \in Nat
  BY DEF TypeInv, TypeOK
<1>1. CASE SkipMessage(r)
  <2>1. UNCHANGED <<version, payload, given, config, applied, draft, at>>
    BY <1>1 DEF SkipMessage, storage
  <2>2. QED
    BY <1>e, <2>1 DEF Consistent, Exclusive, Busy, StoredFollows, ServedFollows, Running
<1>2. CASE TakeMessage(r)
  <2>1. /\ Goto(r, "watcher", "fetch") /\ "fetch" \in Places
        /\ at[r]["watcher"] \notin {"seed", "set", "running"}
        /\ UNCHANGED <<version, payload, given, config, applied, draft>>
    BY <1>2 DEF TakeMessage, Places, storage
  <2>2. StoredFollows' /\ ServedFollows'
    BY <1>t, <1>e, <2>1, ActorsAre, MoveStep
  <2>3. \A q \in Replicas : ~Busy(q, "admin")
    BY <1>2 DEF TakeMessage, MayLoad, Writing, Busy
  <2>4. Exclusive'
    <3>1. \A q \in Replicas, b \in Actors : q # r \/ b # "watcher" => at'[q][b] = at[q][b]
      BY <1>t, <2>1, ActorsAre, GotoMoves
    <3>2. \A q \in Replicas, b \in Actors : Busy(q, b)' => Busy(q, b) \/ (q = r /\ b = "watcher")
      BY <3>1 DEF Busy
    <3>3. QED
      BY <1>e, <2>3, <3>2, ActorsAre DEF Exclusive
  <2>5. QED
    BY <2>2, <2>4 DEF Consistent
<1>3. CASE Poll(r)
  <2>1. /\ Goto(r, "reconciler", "compare") /\ "compare" \in Places
        /\ at[r]["reconciler"] \notin {"seed", "set", "running"}
        /\ UNCHANGED <<version, payload, given, config, applied, draft>>
    BY <1>3 DEF Poll, Places, storage
  <2>2. StoredFollows' /\ ServedFollows'
    BY <1>t, <1>e, <2>1, ActorsAre, MoveStep
  <2>3. \A q \in Replicas : ~Busy(q, "admin")
    BY <1>3 DEF Poll, MayLoad, Writing, Busy
  <2>4. Exclusive'
    <3>1. \A q \in Replicas, b \in Actors : q # r \/ b # "reconciler" => at'[q][b] = at[q][b]
      BY <1>t, <2>1, ActorsAre, GotoMoves
    <3>2. \A q \in Replicas, b \in Actors : Busy(q, b)' => Busy(q, b) \/ (q = r /\ b = "reconciler")
      BY <3>1 DEF Busy
    <3>3. QED
      BY <1>e, <2>3, <3>2, ActorsAre DEF Exclusive
  <2>5. QED
    BY <2>2, <2>4 DEF Consistent
<1>4. CASE Compare(r) /\ Drift(r)
  <2>1. /\ Goto(r, "reconciler", "fetch") /\ "fetch" \in Places
        /\ at[r]["reconciler"] \notin {"seed", "set", "running"}
        /\ UNCHANGED <<version, payload, given, config, applied, draft>>
    BY <1>4 DEF Compare, Finish, Places, storage
  <2>2. StoredFollows' /\ ServedFollows'
    BY <1>t, <1>e, <2>1, ActorsAre, MoveStep
  <2>3. Exclusive'
    <3>1. /\ at'[r]["reconciler"] = "fetch"
          /\ \A q \in Replicas, b \in Actors : q # r \/ b # "reconciler" => at'[q][b] = at[q][b]
      BY <1>t, <2>1, ActorsAre, GotoMoves
    <3>2. Busy(r, "reconciler") \/ ~Busy(r, "reconciler")'
      BY <1>4, <3>1 DEF Compare, Busy
    <3>3. QED
      BY <1>e, <3>1, <3>2, ActorsAre, ExclusiveShrinks
  <2>4. QED
    BY <2>2, <2>3 DEF Consistent
<1>5. CASE Compare(r) /\ ~Drift(r)
  <2>1. /\ Goto(r, "reconciler", "idle") /\ "idle" \in Places
        /\ at[r]["reconciler"] \notin {"seed", "set", "running"}
        /\ UNCHANGED <<version, payload, given, config, applied, draft>>
    BY <1>5 DEF Compare, Finish, Places, storage
  <2>2. StoredFollows' /\ ServedFollows'
    BY <1>t, <1>e, <2>1, ActorsAre, MoveStep
  <2>3. Exclusive'
    <3>1. /\ at'[r]["reconciler"] = "idle"
          /\ \A q \in Replicas, b \in Actors : q # r \/ b # "reconciler" => at'[q][b] = at[q][b]
      BY <1>t, <2>1, ActorsAre, GotoMoves
    <3>2. Busy(r, "reconciler") \/ ~Busy(r, "reconciler")'
      BY <1>5, <3>1 DEF Compare, Busy
    <3>3. QED
      BY <1>e, <3>1, <3>2, ActorsAre, ExclusiveShrinks
  <2>4. QED
    BY <2>2, <2>3 DEF Consistent
<1>6. CASE \E t \in Tasks : Reload(r, t)
  BY <1>6, AloneReload
<1>7. QED
  BY <1>1, <1>2, <1>3, <1>4, <1>5, <1>6 DEF Watch, Reconcile, Tasks

LEMMA AloneFaults ==
  ASSUME TypeInv, Consistent, NEW r \in Replicas,
         SubscriptionDies(r) \/ \E t \in Tasks : ReloadFails(r, t)
  PROVE  Consistent'
<1>e. Exclusive /\ StoredFollows /\ ServedFollows
  BY DEF Consistent
<1>t. /\ TypeOK /\ ActsWhenRunning /\ WatcherHasMessage
      /\ at \in [Replicas -> [Actors -> Places]]
      /\ draft \in [Replicas -> [Actors -> Documents]]
      /\ config \in [Replicas -> Documents]
      /\ applied \in [Replicas -> Nat] /\ version \in Nat
  BY DEF TypeInv, TypeOK
<1>1. CASE SubscriptionDies(r)
  <2>1. /\ Goto(r, "watcher", "dead") /\ "dead" \in Places
        /\ at[r]["watcher"] \notin {"seed", "set", "running"}
        /\ UNCHANGED <<version, payload, given, config, applied, draft>>
    BY <1>1 DEF SubscriptionDies, Finish, Places, storage
  <2>2. StoredFollows' /\ ServedFollows'
    BY <1>t, <1>e, <2>1, ActorsAre, MoveStep
  <2>3. Exclusive'
    <3>1. /\ at'[r]["watcher"] = "dead"
          /\ \A q \in Replicas, b \in Actors : q # r \/ b # "watcher" => at'[q][b] = at[q][b]
      BY <1>t, <2>1, ActorsAre, GotoMoves
    <3>2. Busy(r, "watcher") \/ ~Busy(r, "watcher")'
      BY <1>1, <3>1 DEF SubscriptionDies, Busy
    <3>3. QED
      BY <1>e, <3>1, <3>2, ActorsAre, ExclusiveShrinks
  <2>4. QED
    BY <2>2, <2>3 DEF Consistent
<1>2. ASSUME NEW t \in Tasks, ReloadFails(r, t)
      PROVE  Consistent'
  <2>1. /\ Goto(r, t, "idle") /\ "idle" \in Places
        /\ at[r][t] \notin {"seed", "set", "running"}
        /\ UNCHANGED <<version, payload, given, config, applied, draft>>
    BY <1>2 DEF ReloadFails, Finish, Places, storage
  <2>2. StoredFollows' /\ ServedFollows'
    BY <1>t, <1>e, <2>1, ActorsAre, MoveStep
  <2>3. Exclusive'
    <3>1. /\ at'[r][t] = "idle"
          /\ \A q \in Replicas, b \in Actors : q # r \/ b # t => at'[q][b] = at[q][b]
      BY <1>t, <2>1, ActorsAre, GotoMoves
    <3>2. Busy(r, t) \/ ~Busy(r, t)'
      BY <1>2, <3>1 DEF ReloadFails, Busy
    <3>3. QED
      BY <1>e, <3>1, <3>2, ActorsAre, ExclusiveShrinks
  <2>4. QED
    BY <2>2, <2>3 DEF Consistent
<1>3. QED
  BY <1>1, <1>2

LEMMA SettingStays == [Next]_vars => setting' = setting
  BY DEF Next, Startup, Update, Watch, Reconcile, Reload, Connect, LoadConfig, Adopt, SeedBump,
         SeedSet, ReadVersion, Started, AdminBump, AdminSet, AdminSwap, AdminStamp,
         AdminPublish, SkipMessage, TakeMessage, Poll, Compare, Fetch, Swap, Stamp, Stop,
         UpdateFails, SubscriptionDies, ReloadFails, Mishap, environment, vars

LEMMA AloneStep ==
  ASSUME Uninterrupted
  PROVE  TypeInv /\ KnownVersions /\ AloneInv /\ [Next]_vars => AloneInv'
<1> SUFFICES ASSUME TypeInv, KnownVersions, AloneInv, [Next]_vars
             PROVE  AloneInv'
  OBVIOUS
<1>1. CASE UNCHANGED vars
  BY <1>1 DEF AloneInv, Exclusive, Busy, StoredFollows, ServedFollows, Running,
              vars, storage, environment
<1>2. CASE Next
  <2>1. setting' = setting
    BY SettingStays
  <2>2. SUFFICES ASSUME setting.alone
                 PROVE  Consistent'
    BY <2>1 DEF AloneInv, Consistent
  <2>3. Consistent
    BY <2>2 DEF AloneInv, Consistent
  <2>4. \A r \in Replicas : ~Stop(r) /\ ~UpdateFails(r)
    <3>1. setting \in Settings
      BY DEF TypeInv, TypeOK
    <3>2. "stop" \notin setting.faults /\ "update_fails" \notin setting.faults
      BY <2>2, <3>1 DEF Uninterrupted
    <3>3. QED
      BY <3>2 DEF Stop, UpdateFails, Mishap
  <2>5. PICK r \in Replicas :
          \/ Startup(r) \/ AdminBump(r) \/ Update(r) \/ Watch(r) \/ Reconcile(r)
          \/ SubscriptionDies(r) \/ \E t \in Tasks : ReloadFails(r, t)
    BY <1>2, <2>4 DEF Next
  <2>6. CASE Startup(r)
    BY <2>2, <2>3, <2>6, AloneStartup
  <2>7. CASE AdminBump(r) \/ Update(r)
    BY <2>2, <2>3, <2>7, AloneUpdate
  <2>8. CASE Watch(r) \/ Reconcile(r)
    BY <2>2, <2>3, <2>8, AloneTasks
  <2>9. CASE SubscriptionDies(r) \/ \E t \in Tasks : ReloadFails(r, t)
    BY <2>3, <2>9, AloneFaults
  <2>10. QED
    BY <2>5, <2>6, <2>7, <2>8, <2>9
<1>3. QED
  BY <1>1, <1>2

LEMMA AloneAlways ==
  ASSUME Uninterrupted
  PROVE  Spec => [](TypeInv /\ KnownVersions /\ AloneInv)
<1>1. Init => TypeInv /\ HasGroup /\ KnownVersions /\ AloneInv
  <2>1. SUFFICES ASSUME Init
                 PROVE  HasGroup /\ KnownVersions /\ AloneInv
    BY TypeInit
  <2>2. HasGroup
    BY <2>1, ActorsAre DEF Init, HasGroup, Down
  <2>3. version \in Nat
    BY <2>1 DEF Init
  <2>4. KnownVersions
    BY <2>1, <2>3 DEF Init, KnownVersions
  <2>5. AloneInv
    BY <2>1, AloneStarts DEF AloneInv, Consistent
  <2>6. QED
    BY <2>2, <2>4, <2>5
<1>2. TypeInv /\ HasGroup /\ KnownVersions /\ AloneInv /\ [Next]_vars
        => TypeInv' /\ HasGroup' /\ KnownVersions' /\ AloneInv'
  BY TypeStep, KnownStep, AloneStep
<1>3. QED
  BY <1>1, <1>2, PTL DEF Spec

(* A step that takes an actor from one place to another one is its own.    *)
LEMMA OwnStep ==
  ASSUME TypeInv, Next, NEW r \in Replicas, NEW a \in Actors, at'[r][a] # at[r][a], at'[r][a] = "swap"
  PROVE  \/ a = "admin" /\ AdminSet(r)
         \/ a \in Tasks /\ Fetch(r, a)
<1>t. at \in [Replicas -> [Actors -> Places]]
  BY DEF TypeInv, TypeOK
<1>g. ASSUME NEW q \in Replicas, NEW b \in Actors, NEW place \in Places, Goto(q, b, place)
      PROVE  place = "swap" /\ q = r /\ b = a
  BY <1>g, <1>t, GotoMoves
<1>p. Places \ {"swap"} = {"down", "load", "resolve", "seed", "read", "stamp", "running",
                           "idle", "set", "publish", "compare", "fetch", "dead"}
  BY DEF Places
<1>1. ASSUME NEW q \in Replicas, Startup(q)
      PROVE  FALSE
  BY <1>1, <1>g, <1>p, ActorsAre
     DEF Startup, Connect, LoadConfig, Adopt, SeedBump, SeedSet, ReadVersion, Started
<1>2. ASSUME NEW q \in Replicas, AdminBump(q) \/ Update(q)
      PROVE  a = "admin" /\ AdminSet(r)
  <2>1. CASE AdminSet(q)
    BY <2>1, <1>g, ActorsAre DEF AdminSet, Places
  <2>2. CASE ~AdminSet(q)
    BY <1>2, <2>2, <1>g, <1>p, ActorsAre
       DEF AdminBump, Update, AdminSwap, ReadVersion, AdminStamp, AdminPublish
  <2>3. QED
    BY <2>1, <2>2
<1>3. ASSUME NEW q \in Replicas, NEW t \in Tasks, Reload(q, t)
      PROVE  a \in Tasks /\ Fetch(r, a)
  <2>1. CASE Fetch(q, t) /\ payload # NoDocument
    BY <2>1, <1>g, ActorsAre DEF Fetch, Places
  <2>2. CASE ~(Fetch(q, t) /\ payload # NoDocument)
    BY <1>3, <2>2, <1>g, <1>p, ActorsAre DEF Reload, Fetch, Finish, Swap, ReadVersion, Stamp
  <2>3. QED
    BY <2>1, <2>2
<1>4. ASSUME NEW q \in Replicas, SkipMessage(q) \/ TakeMessage(q) \/ Poll(q) \/ Compare(q)
      PROVE  FALSE
  BY <1>4, <1>g, <1>p, ActorsAre DEF SkipMessage, TakeMessage, Poll, Compare
<1>5. ASSUME NEW q \in Replicas, Stop(q)
      PROVE  FALSE
  <2>1. \A p \in Replicas, b \in Actors : at'[p][b] = at[p][b] \/ at'[p][b] \in {"down", "idle"}
    BY <1>5, <1>t DEF Stop, Down
  <2>2. QED
    BY <2>1
<1>6. ASSUME NEW q \in Replicas,
             UpdateFails(q) \/ SubscriptionDies(q) \/ \E t \in Tasks : ReloadFails(q, t)
      PROVE  FALSE
  BY <1>6, <1>g, <1>p, ActorsAre DEF UpdateFails, SubscriptionDies, ReloadFails, Finish
<1>7. QED
  BY <1>1, <1>2, <1>3, <1>4, <1>5, <1>6 DEF Next, Watch, Reconcile, Tasks

---------------------------------------------------------------------------
(* A reload that was started because of version v fetches the document of  *)
(* v or a later one (redis_store.py:359-362), for any number of replicas,  *)
(* writes, failing reloads and ending subscriptions, where nothing         *)
(* overlaps and no writer is torn from its write.                          *)
THEOREM ReloadsFetchWhatIsAnnounced ==
  ASSUME Uninterrupted
  PROVE  Spec => ReloadFetchesAnnounced
<1>1. ASSUME TypeInv, KnownVersions, AloneInv, [Next]_vars, setting.alone,
             NEW r \in Replicas, NEW t \in Tasks, at[r][t] = "fetch", at'[r][t] = "swap"
      PROVE  draft'[r][t].by >= held[r][t]
  <2>1. t \in Actors /\ t # "main" /\ t # "admin"
    BY ActorsAre
  <2>2. Running(r)
    BY <1>1, <2>1 DEF TypeInv, ActsWhenRunning
  <2>3. \A q \in Replicas : at[q]["main"] # "seed" /\ at[q]["admin"] # "set"
    <3>1. Busy(r, t)
      BY <1>1 DEF Busy
    <3>2. \A q \in Replicas : ~Busy(q, "admin")
      BY <1>1, <2>1, <3>1 DEF AloneInv, Exclusive
    <3>3. payload # NoDocument
      BY <1>1, <2>2 DEF AloneInv, StoredFollows, Running
    <3>4. QED
      BY <1>1, <3>2, <3>3 DEF AloneInv, StoredFollows, Busy
  <2>4. payload.by = version
    BY <1>1, <2>3 DEF AloneInv, StoredFollows
  <2>5. held[r][t] <= version /\ held[r][t] \in Nat /\ version \in Nat
    BY <1>1, <2>1 DEF KnownVersions, TypeInv, TypeOK
  <2>6. Fetch(r, t)
    <3>1. Next
      BY <1>1 DEF vars
    <3>2. QED
      BY <1>1, <2>1, <3>1, OwnStep
  <2>7. Hold(r, t, payload) /\ payload \in Documents /\ draft \in [Replicas -> [Actors -> Documents]]
    BY <1>1, <2>6 DEF Fetch, TypeInv, TypeOK
  <2>8. draft'[r][t] = payload
    BY <2>1, <2>7, HoldTakes
  <2>9. QED
    BY <2>4, <2>5, <2>8
<1>2. TypeInv /\ KnownVersions /\ AloneInv /\ [Next]_vars
        => [\A r \in Replicas, t \in Tasks :
              setting.alone /\ at[r][t] = "fetch" /\ at'[r][t] = "swap"
                => draft'[r][t].by >= held[r][t]]_vars
  BY <1>1
<1>3. QED
  BY <1>2, AloneAlways, PTL DEF Spec, ReloadFetchesAnnounced

(* "Only the sections present in the body are replaced" (routes.py:187):   *)
(* holds for every division of a document into sections and every body,    *)
(* where nothing overlaps and the replica has caught up.                   *)
THEOREM UpdateKeepsOtherSections ==
  ASSUME Uninterrupted
  PROVE  Spec => OnlyGivenReplaced
<1>1. ASSUME TypeInv, KnownVersions, AloneInv, [Next]_vars, setting.alone,
             NEW r \in Replicas, at[r]["admin"] = "set", at'[r]["admin"] = "swap",
             applied[r] = version - 1
      PROVE  \A s \in Sections \ given[r] : payload'.of[s] = payload.of[s]
  <2>1. AdminSet(r)
    <3>1. Next
      BY <1>1 DEF vars
    <3>2. QED
      BY <1>1, <3>1, ActorsAre, OwnStep
  <2>2. payload' = draft[r]["admin"]
    BY <2>1 DEF AdminSet
  <2>3. QED
    BY <1>1, <2>2 DEF AloneInv, ServedFollows
<1>2. TypeInv /\ KnownVersions /\ AloneInv /\ [Next]_vars
        => [\A r \in Replicas :
              setting.alone /\ at[r]["admin"] = "set" /\ at'[r]["admin"] = "swap"
                 /\ applied[r] = version - 1
              => \A s \in Sections \ given[r] : payload'.of[s] = payload.of[s]]_vars
  BY <1>1
<1>3. QED
  BY <1>2, AloneAlways, PTL DEF Spec, OnlyGivenReplaced

(* A replica that records the stored version as applied serves the stored  *)
(* document, where nothing overlaps: the reconciler and the watcher        *)
(* (service.py:303-310 and 254-260), which stay idle in such a replica,    *)
(* have nothing to repair there.                                           *)
CaughtUpIsCurrent ==
    setting.alone =>
      \A r \in Replicas : Running(r) /\ applied[r] = version => config[r] = payload

(* Every reachable state keeps this: an operation that runs alone records  *)
(* the version of the document it applied (service.py:211 and 234).        *)
THEOREM CaughtUpServesTheStored ==
  ASSUME Uninterrupted
  PROVE  Spec => []CaughtUpIsCurrent
<1>1. AloneInv => CaughtUpIsCurrent
  BY DEF AloneInv, ServedFollows, CaughtUpIsCurrent
<1>2. QED
  BY <1>1, AloneAlways, PTL

(* So what the reconciler compares is enough: if the versions the replicas *)
(* have applied converge to the stored one (VersionsConverge), which is a  *)
(* matter of fairness, the configurations they serve do too.               *)
THEOREM VersionsSuffice ==
  ASSUME Uninterrupted
  PROVE  Spec => (VersionsConverge => ConfigsConverge)
<1> DEFINE Alone == setting.alone
           CaughtUp == \A r \in Replicas : Running(r) /\ applied[r] = version
           Current == \A r \in Replicas : Running(r) /\ config[r] = payload
<1>1. Alone /\ [Next]_vars => Alone'
  BY SettingStays
<1>2. CaughtUpIsCurrent /\ Alone /\ CaughtUp => Current
  BY DEF CaughtUpIsCurrent
<1>3. VersionsConverge <=> <>[]CaughtUp
  BY DEF VersionsConverge
<1>4. ConfigsConverge <=> (Alone => <>[]Current)
  BY DEF ConfigsConverge, ReplicasConverge
<1> HIDE DEF Alone, CaughtUp, Current
<1>5. QED
  BY <1>1, <1>2, <1>3, <1>4, CaughtUpServesTheStored, PTL DEF Spec
=============================================================================
