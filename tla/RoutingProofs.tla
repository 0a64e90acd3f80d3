--------------------------- MODULE RoutingProofs ---------------------------
(***************************************************************************)
(* What Routing.tla promises for any models, tenant, requests and number   *)
(* of overlapping turns.                                                   *)
(***************************************************************************)
EXTENDS Routing, FiniteSetTheorems, WellFoundedInduction, TLAPS

---------------------------------------------------------------------------
(* The decision *)

(* A finite set of models that is not empty has one of the widest window:  *)
(* the one above which the fewest are.                                     *)
LEMMA WidestIn ==
  ASSUME NEW S \in SUBSET Models, S # {}
  PROVE  Widest(S) \in S
<1> DEFINE Above(m) == {n \in S : Window[n] > Window[m]}
           T == {Above(m) : m \in S}
<1>1. T \subseteq FiniteSubsetsOf(S) /\ T # {}
  <2>1. IsFiniteSet(S)
    BY FS_Subset, ModelsAssumption
  <2>2. \A m \in S : Above(m) \in SUBSET S /\ IsFiniteSet(Above(m))
    BY <2>1, FS_Subset
  <2>3. QED
    BY <2>2 DEF FiniteSubsetsOf
<1>2. PICK x \in T : \A y \in T : ~(<<y, x>> \in StrictSubsetOrdering(S))
  BY <1>1, FS_StrictSubsetOrderingWellFounded, WFMin
<1>3. PICK m \in S : x = Above(m)
  OBVIOUS
<1>4. ASSUME NEW n \in S, Window[n] > Window[m] PROVE FALSE
  <2>1. Above(n) \subseteq Above(m) /\ n \in Above(m) /\ n \notin Above(n)
    BY <1>4, ModelsAssumption
  <2>2. <<Above(n), Above(m)>> \in StrictSubsetOrdering(S)
    BY <2>1 DEF StrictSubsetOrdering
  <2>3. QED
    BY <1>2, <1>3, <2>2
<1>5. \A n \in S : Window[n] <= Window[m]
  BY <1>4, ModelsAssumption
<1>6. QED
  BY <1>5 DEF Widest

LEMMA ScoredAllowed ==
  ASSUME NEW q \in Asks
  PROVE  Scored[q] \subseteq Allowed(q.exclude)
<1>1. Capable(q) \subseteq Allowed(q.exclude) /\ Allowed(q.exclude) \in SUBSET Models
  BY DEF Capable, Allowed
<1>2. Candidates(q) \subseteq Allowed(q.exclude)
  BY <1>1, WidestIn DEF Candidates
<1>3. QED
  BY <1>2 DEF Scored

LEMMA FallbacksKeepPolicy ==
  ASSUME NEW p \in Models, NEW excluded \in SUBSET Models, NEW f \in Fallbacks[p][excluded]
  PROVE  /\ f \in Seq(Models)
         /\ \A i \in DOMAIN f : \/ i = Len(f) /\ f[i] = DefaultModel
                                \/ f[i] \in Allowed(excluded)
<1> DEFINE others == Allowed(excluded) \ {p}
           kept == {S \in SUBSET others : Cardinality(S) <= Higher(1, MaxAttempts)}
           ranked == {g \in UNION {SetToSeqs(S) : S \in kept} :
                        \A i, j \in DOMAIN g : i < j => Group(p, g[i]) <= Group(p, g[j])}
<1>1. f \in IF others = {} THEN {<<>>} ELSE {WithDefault(p, g) : g \in ranked}
  BY DEF Fallbacks
<1>2. CASE others = {}
  BY <1>1, <1>2
<1>3. CASE others # {}
  <2>1. PICK g \in ranked : f = WithDefault(p, g)
    BY <1>1, <1>3
  <2>2. PICK S \in kept : g \in SetToSeqs(S)
    OBVIOUS
  <2>3. S \in SUBSET Allowed(excluded) /\ S \in SUBSET Models
    BY DEF Allowed
  <2>9. Cardinality(S) \in Nat
    BY <2>3, FS_Subset, FS_CardinalityType, ModelsAssumption
  <2>4. g \in [1..Cardinality(S) -> S]
    BY <2>2 DEF SetToSeqs
  <2>5. g \in Seq(Models) /\ \A i \in DOMAIN g : g[i] \in Allowed(excluded)
    BY <2>3, <2>9, <2>4
  <2>6. CASE f = g
    BY <2>5, <2>6
  <2>7. CASE f = Append(g, DefaultModel) /\ DefaultModel \in Models
    BY <2>5, <2>7
  <2>8. QED
    BY <2>1, <2>6, <2>7 DEF WithDefault
<1>4. QED
  BY <1>2, <1>3

(* The primary model and its fallbacks.                                    *)
LEMMA ChainKeepsPolicy ==
  ASSUME NEW p \in Models, Permits(p), NEW excluded \in SUBSET Models,
         NEW f \in Fallbacks[p][excluded] \cup {<<>>}
  PROVE  LET c == <<p>> \o f
         IN  /\ c \in Seq(Models) /\ c # <<>>
             /\ \A i \in DOMAIN c :
                  \/ i > 1 /\ i = Len(c) /\ c[i] = DefaultModel
                  \/ Permits(c[i]) /\ (c[i] = p \/ c[i] \notin excluded)
<1> DEFINE c == <<p>> \o f
<1>1. /\ f \in Seq(Models)
      /\ \A i \in DOMAIN f : \/ i = Len(f) /\ f[i] = DefaultModel
                             \/ f[i] \in Allowed(excluded)
  <2>1. CASE f \in Fallbacks[p][excluded]
    BY <2>1, FallbacksKeepPolicy
  <2>2. CASE f = <<>>
    BY <2>2
  <2>3. QED
    BY <2>1, <2>2
<1>2. c \in Seq(Models) /\ Len(c) = Len(f) + 1 /\ c[1] = p
      /\ \A i \in 2..Len(c) : c[i] = f[i - 1]
  BY <1>1
<1>3. ASSUME NEW i \in DOMAIN c
      PROVE  \/ i > 1 /\ i = Len(c) /\ c[i] = DefaultModel
             \/ Permits(c[i]) /\ (c[i] = p \/ c[i] \notin excluded)
  <2>1. CASE i = 1
    BY <1>2, <2>1
  <2>2. CASE i > 1
    <3>1. i - 1 \in DOMAIN f /\ c[i] = f[i - 1]
      BY <1>1, <1>2, <2>2
    <3>2. \/ i - 1 = Len(f) /\ f[i - 1] = DefaultModel
          \/ f[i - 1] \in Allowed(excluded)
      BY <1>1, <3>1
    <3>3. QED
      BY <1>1, <1>2, <2>2, <3>1, <3>2 DEF Allowed
  <2>3. QED
    BY <1>1, <1>2, <2>1, <2>2
<1>4. QED
  BY <1>2, <1>3

---------------------------------------------------------------------------
(* The invariant *)

(* What a turn has behind it at each of its awaits.                        *)
Progress ==
    \A t \in Turns :
        /\ at[t] # "idle" => ask[t] \in Asks
        /\ at[t] \in {"idle", "choose"} <=> chain[t] = <<>>
        /\ at[t] \in {"account", "ttl", "store"} => served[t] \in Models

(* The prefixes that turns have read are those of turns booked before.     *)
PrefixInv == PrefixNotInflated /\ \A t \in Turns : seen[t].prefix <= booked

(* Until the entry is put the binding lives as long as was read, less the  *)
(* time that has passed since.                                             *)
LifetimeInv ==
    /\ CacheOutlivesByDelay
    /\ \A t \in Turns : at[t] = "store" => room[t] <= binding.left + delay[t]

RoutingInv == TypeOK /\ Progress /\ TenantPolicy /\ PrefixInv /\ LifetimeInv

LEMMA RoutingInit == Init => RoutingInv
  BY SessionAssumption, ModelsAssumption
     DEF Init, RoutingInv, TypeOK, Progress, TenantPolicy, PrefixInv, PrefixNotInflated,
         LifetimeInv, CacheOutlivesByDelay, Unbound, Nothing, Model

LEMMA EndTyped ==
  ASSUME RoutingInv, NEW t \in Turns, End(t)
  PROVE  /\ at' \in [Turns -> {"idle", "choose", "cache", "call", "account", "ttl", "store"}]
         /\ ask' \in [Turns -> Asks \cup {NoAsk}]
         /\ seen' \in [Turns -> [model : Model, prefix : Nat]]
         /\ chain' \in [Turns -> Seq(Models)]
         /\ served' \in [Turns -> Model]
         /\ replayed' \in [Turns -> BOOLEAN]
         /\ room' \in [Turns -> 0..AffinityTtl]
         /\ delay' \in [Turns -> 0..AffinityTtl]
         /\ Progress'
         /\ TenantPolicy'
         /\ \A u \in Turns : seen'[u].prefix <= booked
         /\ \A u \in Turns : at'[u] = "store" => room'[u] <= binding.left + delay'[u]
<1> USE DEF RoutingInv, TypeOK, End, Goto, Nothing, Model
<1>1. /\ at' \in [Turns -> {"idle", "choose", "cache", "call", "account", "ttl", "store"}]
      /\ ask' \in [Turns -> Asks \cup {NoAsk}]
      /\ seen' \in [Turns -> [model : Model, prefix : Nat]]
      /\ chain' \in [Turns -> Seq(Models)]
      /\ served' \in [Turns -> Model]
      /\ replayed' \in [Turns -> BOOLEAN]
      /\ room' \in [Turns -> 0..AffinityTtl]
      /\ delay' \in [Turns -> 0..AffinityTtl]
  BY SessionAssumption
<1>2. Progress'
  BY DEF Progress
<1>3. TenantPolicy'
  <2>1. ASSUME NEW u \in Turns, u # t PROVE chain'[u] = chain[u] /\ ask'[u] = ask[u]
    BY <2>1
  <2>2. chain'[t] = <<>>
    OBVIOUS
  <2>3. QED
    BY <2>1, <2>2 DEF TenantPolicy, Routed
<1>4. /\ at'[t] = "idle" /\ seen'[t].prefix = 0
      /\ \A u \in Turns : u # t => /\ at'[u] = at[u] /\ room'[u] = room[u]
                                   /\ seen'[u] = seen[u] /\ delay'[u] = delay[u]
  OBVIOUS
<1>5. \A u \in Turns : seen'[u].prefix <= booked
  BY <1>4 DEF PrefixInv
<1>6. \A u \in Turns : at'[u] = "store" => room'[u] <= binding.left + delay'[u]
  BY <1>4 DEF LifetimeInv
<1>7. QED
  BY <1>1, <1>2, <1>3, <1>5, <1>6

LEMMA DecideKeeps ==
  ASSUME RoutingInv, NEW t \in Turns, NEW q \in Asks, ask' = [ask EXCEPT ![t] = q],
         NEW p \in Models, Permits(p), Routed(q) => p \notin q.exclude,
         NEW excluded \in SUBSET Models, Routed(q) => excluded = q.exclude,
         NEW f \in Fallbacks[p][excluded] \cup {<<>>}, Decide(t, p, f), UNCHANGED served
  PROVE  /\ at' \in [Turns -> {"idle", "choose", "cache", "call", "account", "ttl", "store"}]
         /\ chain' \in [Turns -> Seq(Models)]
         /\ Progress'
         /\ TenantPolicy'
         /\ \A u \in Turns : at'[u] # "store" \/ at'[u] = at[u]
<1> DEFINE c == <<p>> \o f
<1>1. c \in Seq(Models) /\ c # <<>>
  BY ChainKeepsPolicy
<1>2. \A i \in DOMAIN c :
         \/ i > 1 /\ i = Len(c) /\ c[i] = DefaultModel
         \/ Permits(c[i]) /\ (Routed(q) => c[i] \notin q.exclude)
  BY ChainKeepsPolicy
<1> HIDE DEF c
<1>3. chain' = [chain EXCEPT ![t] = c]
  BY DEF Decide, c
<1>4. \E place \in {"call", "cache"} : at' = [at EXCEPT ![t] = place]
  BY DEF Decide, Goto
<1>5. \A u \in Turns : u # t => chain'[u] = chain[u] /\ ask'[u] = ask[u] /\ at'[u] = at[u]
  BY <1>3, <1>4 DEF RoutingInv, TypeOK
<1>6. chain'[t] = c /\ ask'[t] = q /\ at'[t] \in {"call", "cache"}
  BY <1>3, <1>4 DEF RoutingInv, TypeOK
<1>7. TenantPolicy'
  BY <1>2, <1>5, <1>6 DEF RoutingInv, TenantPolicy, Routed
<1>8. Progress'
  BY <1>1, <1>5, <1>6 DEF RoutingInv, Progress
<1>9. QED
  BY <1>1, <1>3, <1>4, <1>6, <1>7, <1>8 DEF RoutingInv, TypeOK

LEMMA BindTyped ==
  ASSUME TypeOK, NEW m \in Models, NEW prefix \in Nat, Bind(m, prefix)
  PROVE  /\ binding' \in [model : Model, prefix : Nat, left : 0..AffinityTtl]
         /\ binding'.prefix = prefix
         /\ binding'.left >= binding.left
  BY SessionAssumption DEF TypeOK, Bind, Model

LEMMA BeginsTyped ==
  ASSUME TypeOK, NEW t \in Turns, NEW q \in Asks, Begins(t, q)
  PROVE  /\ ask' \in [Turns -> Asks \cup {NoAsk}]
         /\ lastServed' \in Model /\ calm' \in BOOLEAN
         /\ at[t] = "idle"
  BY DEF TypeOK, Begins, Model

LEMMA PutAddsAtMost ==
  ASSUME NEW entry, Put(entry)
  PROVE  \A e \in cache' : e \in cache \/ (e = entry /\ entry.left # 0)
<1>1. CASE entry.left = 0
  BY <1>1 DEF Put
<1>2. CASE entry.left # 0
  <2>1. cache' = {e \in cache : ~(e.question = entry.question /\ e.model = entry.model)}
                    \cup {entry}
    BY <1>2 DEF Put
  <2>2. QED
    BY <1>2, <2>1
<1>3. QED
  BY <1>1, <1>2

(* A binding that is written anew lives longer, not shorter.               *)
LEMMA LifetimeFrame ==
  ASSUME RoutingInv, binding'.left \in 0..AffinityTtl, binding'.left >= binding.left,
         UNCHANGED <<cache, room, delay>>,
         \A u \in Turns : at'[u] = "store" => at[u] = "store"
  PROVE  LifetimeInv'
<1>1. /\ binding.left \in Int /\ binding'.left \in Int
      /\ \A u \in Turns : room[u] \in Int /\ delay[u] \in Int
      /\ \A e \in cache : e.left \in Int /\ e.late \in Int
  BY SessionAssumption DEF RoutingInv, TypeOK
<1>2. /\ \A e \in cache : e.left <= binding.left + e.late
      /\ \A u \in Turns : at[u] = "store" => room[u] <= binding.left + delay[u]
  BY DEF RoutingInv, LifetimeInv, CacheOutlivesByDelay
<1>3. QED
  BY <1>1, <1>2 DEF LifetimeInv, CacheOutlivesByDelay

LEMMA RoutingStep == RoutingInv /\ [Next]_vars => RoutingInv'
<1> SUFFICES ASSUME RoutingInv, [Next]_vars PROVE RoutingInv'
  OBVIOUS
<1>0. TypeOK
  BY DEF RoutingInv
<1>1. CASE UNCHANGED vars
  BY <1>1 DEF RoutingInv, vars, context, history, TypeOK, Progress, TenantPolicy, Routed,
              PrefixInv, PrefixNotInflated, LifetimeInv, CacheOutlivesByDelay
<1>2. ASSUME NEW t \in Turns, NEW q \in Asks, Explicit(t, q) PROVE RoutingInv'
  <2> DEFINE named == IF q.pin # NoModel THEN q.pin ELSE q.model
  <2>1. named \in Models /\ ~Routed(q) /\ Permits(named)
    BY <1>2, SessionAssumption DEF Explicit, Routed, Ask
  <2>2. PICK f \in Fallbacks[named][{}] \cup {<<>>} : Decide(t, named, f)
    BY <1>2 DEF Explicit
  <2>3. /\ Begins(t, q)
        /\ UNCHANGED <<binding, cache, seen, served, replayed, room, delay, booked>>
    BY <1>2 DEF Explicit
  <2> HIDE DEF named
  <2>4. /\ at' \in [Turns -> {"idle", "choose", "cache", "call", "account", "ttl", "store"}]
        /\ chain' \in [Turns -> Seq(Models)]
        /\ Progress' /\ TenantPolicy'
        /\ \A u \in Turns : at'[u] # "store" \/ at'[u] = at[u]
    BY <2>1, <2>2, <2>3, DecideKeeps DEF Begins
  <2>5. TypeOK'
    BY <1>0, <2>3, <2>4, BeginsTyped DEF TypeOK
  <2>6. QED
    BY <2>3, <2>4, <2>5
       DEF RoutingInv, PrefixInv, PrefixNotInflated, LifetimeInv, CacheOutlivesByDelay
<1>3. ASSUME NEW t \in Turns, NEW q \in Asks, ReadBinding(t, q) PROVE RoutingInv'
  <2>1. /\ Begins(t, q) /\ at' = [at EXCEPT ![t] = "choose"]
        /\ seen' = [seen EXCEPT ![t] = [model |-> binding.model, prefix |-> binding.prefix]]
        /\ UNCHANGED <<binding, cache, chain, served, replayed, room, delay, booked>>
    BY <1>3 DEF ReadBinding, Goto
  <2>2. ask' = [ask EXCEPT ![t] = q] /\ at[t] = "idle"
    BY <2>1 DEF Begins
  <2>3. TypeOK'
    BY <1>0, <2>1, BeginsTyped DEF TypeOK
  <2>4. Progress'
    BY <2>1, <2>2 DEF RoutingInv, TypeOK, Progress
  <2>5. TenantPolicy'
    <3>1. chain[t] = <<>>
      BY <2>2 DEF RoutingInv, Progress
    <3>2. \A u \in Turns : u # t => ask'[u] = ask[u]
      BY <2>2 DEF RoutingInv, TypeOK
    <3>3. QED
      BY <2>1, <3>1, <3>2 DEF RoutingInv, TenantPolicy, Routed
  <2>6. PrefixInv'
    BY <2>1 DEF RoutingInv, TypeOK, PrefixInv, PrefixNotInflated
  <2>7. LifetimeInv'
    BY <2>1 DEF RoutingInv, TypeOK, LifetimeInv, CacheOutlivesByDelay
  <2>8. QED
    BY <2>3, <2>4, <2>5, <2>6, <2>7 DEF RoutingInv
<1>4. ASSUME NEW t \in Turns, Choose(t) PROVE RoutingInv'
  <2> DEFINE q == ask[t]
  <2>1. at[t] = "choose" /\ q \in Asks
    BY <1>4 DEF RoutingInv, Progress, Choose
  <2>2. PICK pool \in SUBSET Scored[q] : ChooseFrom(t, pool)
    BY <1>4 DEF Choose
  <2>3. PICK m \in pool : /\ PersistChoice(t, m)
                         /\ \E f \in Fallbacks[m][q.exclude] :
                              UNCHANGED ask /\ Decide(t, m, f)
    BY <2>2 DEF ChooseFrom, Winners, Sticky
  <2>4. m \in Models /\ Permits(m) /\ m \notin q.exclude
    BY <2>1, ScoredAllowed DEF Allowed
  <2>5. q.exclude \in SUBSET Models /\ ask = [ask EXCEPT ![t] = q]
    BY <2>1, SessionAssumption DEF Ask, RoutingInv, TypeOK
  <2>6. PICK f \in Fallbacks[m][q.exclude] : UNCHANGED ask /\ Decide(t, m, f)
    BY <2>3
  <2>7. /\ Bind(m, seen[t].prefix)
        /\ UNCHANGED <<cache, seen, served, replayed, room, delay, history>>
    BY <2>2, <2>3 DEF ChooseFrom, PersistChoice
  <2>8. /\ at' \in [Turns -> {"idle", "choose", "cache", "call", "account", "ttl", "store"}]
        /\ chain' \in [Turns -> Seq(Models)]
        /\ Progress' /\ TenantPolicy'
        /\ \A u \in Turns : at'[u] # "store" \/ at'[u] = at[u]
    BY <2>1, <2>4, <2>5, <2>6, <2>7, DecideKeeps
  <2>9. /\ binding' \in [model : Model, prefix : Nat, left : 0..AffinityTtl]
        /\ binding'.prefix = seen[t].prefix
        /\ binding'.left >= binding.left
    BY <1>0, <2>4, <2>7, BindTyped DEF TypeOK
  <2>10. TypeOK'
    BY <1>0, <2>6, <2>7, <2>8, <2>9 DEF TypeOK, history
  <2>11. PrefixInv'
    BY <2>7, <2>9 DEF RoutingInv, PrefixInv, PrefixNotInflated, history
  <2>12. LifetimeInv'
    <3>1. \A u \in Turns : at'[u] = "store" => at[u] = "store"
      BY <2>8
    <3>2. QED
      BY <2>7, <2>9, <3>1, LifetimeFrame
  <2>13. QED
    BY <2>8, <2>10, <2>11, <2>12 DEF RoutingInv
<1>5. ASSUME NEW t \in Turns, LookupCache(t) \/ Answer(t) PROVE RoutingInv'
  <2>1. /\ at[t] \in {"cache", "call"}
        /\ \/ /\ \E m \in Models : served' = [served EXCEPT ![t] = m]
              /\ at' = [at EXCEPT ![t] = "account"]
           \/ /\ at' = [at EXCEPT ![t] = "call"]
              /\ UNCHANGED served
        /\ replayed' \in [Turns -> BOOLEAN]
        /\ UNCHANGED <<binding, cache, ask, seen, chain, room, delay, history>>
    <3>1. \A c \in Seq(Models) : ToSet(c) \subseteq Models /\ (c # <<>> => Head(c) \in Models)
      BY DEF ToSet
    <3>2. CASE LookupCache(t)
      <4>1. chain[t] \in Seq(Models) /\ chain[t] # <<>>
        BY <3>2 DEF LookupCache, RoutingInv, TypeOK, Progress
      <4>2. QED
        BY <1>0, <3>1, <3>2, <4>1 DEF LookupCache, Goto, Primary, TypeOK
    <3>3. CASE Answer(t)
      BY <1>0, <3>1, <3>3 DEF Answer, Goto, TypeOK
    <3>4. QED
      BY <1>5, <3>2, <3>3
  <2>2. TypeOK'
    <3>1. /\ served' \in [Turns -> Model]
          /\ at' \in [Turns -> {"idle", "choose", "cache", "call", "account", "ttl", "store"}]
      <4>1. /\ served \in [Turns -> Model] /\ Models \subseteq Model
            /\ at \in [Turns -> {"idle", "choose", "cache", "call", "account", "ttl", "store"}]
        BY <1>0 DEF TypeOK, Model
      <4>2. served' \in [Turns -> Model]
        BY <2>1, <4>1
      <4>3. \E place \in {"account", "call"} : at' = [at EXCEPT ![t] = place]
        BY <2>1
      <4>4. QED
        BY <4>1, <4>2, <4>3
    <3>2. /\ replayed' \in [Turns -> BOOLEAN]
          /\ UNCHANGED <<binding, cache, ask, seen, chain, room, delay, history>>
      BY <2>1
    <3>3. QED
      BY <1>0, <3>1, <3>2 DEF TypeOK, history
  <2>3. Progress'
    BY <2>1 DEF RoutingInv, TypeOK, Progress
  <2>4. TenantPolicy' /\ PrefixInv'
    BY <2>1 DEF RoutingInv, TenantPolicy, Routed, PrefixInv, PrefixNotInflated, history
  <2>5. LifetimeInv'
    BY <2>1 DEF RoutingInv, TypeOK, LifetimeInv, CacheOutlivesByDelay
  <2>6. QED
    BY <2>2, <2>3, <2>4, <2>5 DEF RoutingInv
<1>6. ASSUME NEW t \in Turns, Account(t) PROVE RoutingInv'
  <2>1. at[t] = "account" /\ served[t] \in Models /\ ask[t].tokens \in Nat
    BY <1>6, SessionAssumption DEF Account, RoutingInv, Progress, Ask
  <2>2. /\ binding' \in [model : Model, prefix : Nat, left : 0..AffinityTtl]
        /\ binding'.prefix <= booked'
        /\ binding'.left >= binding.left
        /\ booked' \in Nat /\ booked' >= booked
        /\ lastServed' \in Model
    <3>1. CASE Routed(ask[t])
      <4> DEFINE prefix == Lower(seen[t].prefix + ask[t].tokens, Window[served[t]])
      <4>1. prefix \in Nat /\ prefix <= booked + ask[t].tokens
        BY <1>0, <2>1, ModelsAssumption DEF Lower, TypeOK, RoutingInv, PrefixInv
      <4>2. /\ Bind(served[t], prefix)
            /\ booked' = booked + ask[t].tokens
            /\ lastServed' = IF calm THEN served[t] ELSE NoModel
        BY <1>6, <3>1 DEF Account, UpdateAffinity, AccountedModel
      <4> HIDE DEF prefix
      <4>3. booked \in Nat /\ lastServed' \in Model
        BY <1>0, <2>1, <4>2 DEF TypeOK, Model
      <4>4. /\ binding' \in [model : Model, prefix : Nat, left : 0..AffinityTtl]
            /\ binding'.prefix = prefix /\ binding'.left >= binding.left
        BY <1>0, <2>1, <4>1, <4>2, BindTyped
      <4>5. QED
        BY <2>1, <4>1, <4>2, <4>3, <4>4
    <3>2. CASE ~Routed(ask[t])
      <4>1. UNCHANGED <<binding, booked, lastServed>>
        BY <1>6, <3>2 DEF Account
      <4>2. QED
        BY <1>0, <4>1 DEF TypeOK, RoutingInv, PrefixInv, PrefixNotInflated
    <3>3. QED
      BY <3>1, <3>2
  <2>3. UNCHANGED <<cache, calm>>
    BY <1>6 DEF Account
  <2>4. CASE End(t)
    <3>1. TypeOK'
      BY <1>0, <2>2, <2>3, <2>4, EndTyped DEF TypeOK
    <3>2. PrefixInv'
      <4>1. \A u \in Turns : seen'[u].prefix \in Nat /\ seen'[u].prefix <= booked
        BY <2>4, <3>1, EndTyped DEF TypeOK
      <4>2. booked \in Nat
        BY <1>0 DEF TypeOK
      <4>3. QED
        BY <2>2, <4>1, <4>2 DEF PrefixInv, PrefixNotInflated
    <3>3. LifetimeInv'
      <4>1. /\ \A u \in Turns : room'[u] \in Int /\ delay'[u] \in Int
            /\ \A e \in cache : e.left \in Int /\ e.late \in Int
            /\ binding.left \in Int /\ binding'.left \in Int
        BY <1>0, <3>1 DEF TypeOK
      <4>2. \A u \in Turns : at'[u] = "store" => room'[u] <= binding.left + delay'[u]
        BY <2>4, EndTyped
      <4>3. \A e \in cache : e.left <= binding.left + e.late
        BY DEF RoutingInv, LifetimeInv, CacheOutlivesByDelay
      <4>4. QED
        BY <2>2, <2>3, <4>1, <4>2, <4>3 DEF LifetimeInv, CacheOutlivesByDelay
    <3>4. QED
      BY <2>4, <3>1, <3>2, <3>3, EndTyped DEF RoutingInv
  <2>5. CASE at' = [at EXCEPT ![t] = "ttl"] /\ UNCHANGED context
    <3>1. TypeOK'
      BY <1>0, <2>2, <2>3, <2>5 DEF TypeOK, context
    <3>2. Progress' /\ TenantPolicy'
      BY <1>0, <2>1, <2>5 DEF RoutingInv, TypeOK, Progress, TenantPolicy, Routed, context
    <3>3. PrefixInv'
      BY <1>0, <2>2, <2>5 DEF RoutingInv, TypeOK, PrefixInv, PrefixNotInflated, context
    <3>4. LifetimeInv'
      <4>1. \A u \in Turns : at'[u] = "store" => at[u] = "store"
        BY <1>0, <2>5 DEF TypeOK
      <4>2. QED
        BY <2>2, <2>3, <2>5, <4>1, LifetimeFrame DEF context
    <3>5. QED
      BY <3>1, <3>2, <3>3, <3>4 DEF RoutingInv
  <2>6. QED
    BY <1>6, <2>4, <2>5 DEF Account, Goto
<1>7. ASSUME NEW t \in Turns, ReadTtl(t) PROVE RoutingInv'
  <2>1. /\ at[t] = "ttl"
        /\ at' = [at EXCEPT ![t] = "store"]
        /\ room' = [room EXCEPT ![t] = binding.left]
        /\ UNCHANGED <<binding, cache, ask, seen, chain, served, replayed, delay, history>>
    BY <1>7 DEF ReadTtl, Goto
  <2>2. TypeOK'
    BY <1>0, <2>1 DEF TypeOK, history
  <2>3. Progress' /\ TenantPolicy' /\ PrefixInv'
    BY <1>0, <2>1 DEF RoutingInv, TypeOK, Progress, TenantPolicy, Routed,
                      PrefixInv, PrefixNotInflated, history
  <2>4. LifetimeInv'
    BY <1>0, <2>1 DEF RoutingInv, TypeOK, LifetimeInv, CacheOutlivesByDelay
  <2>5. QED
    BY <2>2, <2>3, <2>4 DEF RoutingInv
<1>8. ASSUME NEW t \in Turns, StoreAnswer(t) PROVE RoutingInv'
  <2> DEFINE entry == [question |-> ask[t].question, model |-> Primary(t), left |-> Lifetime(t),
                       late |-> delay[t]]
  <2>1. at[t] = "store" /\ End(t) /\ Put(entry) /\ UNCHANGED <<binding, history>>
    BY <1>8 DEF StoreAnswer
  <2>2. ask[t].question \in Nat /\ Primary(t) \in Models
    BY <1>0, <2>1, SessionAssumption DEF RoutingInv, Progress, TypeOK, Primary, Ask
  <2>3. Lifetime(t) \in 0..CacheTtl /\ Lifetime(t) <= binding.left + delay[t]
    BY <1>0, <2>1, SessionAssumption DEF RoutingInv, TypeOK, LifetimeInv, Lifetime, Lower
  <2> HIDE DEF entry
  <2>4. \A e \in cache' : e \in cache \/ (e = entry /\ entry.left # 0)
    BY <2>1, PutAddsAtMost
  <2>5. entry.left # 0 => /\ entry \in [question : Nat, model : Models, left : 1..CacheTtl, late : 0..AffinityTtl]
                          /\ entry.left <= binding.left + entry.late
    <3>1. delay[t] \in 0..AffinityTtl
      BY <1>0 DEF TypeOK
    <3>2. QED
      BY <2>2, <2>3, <3>1 DEF entry
  <2>6. TypeOK'
    BY <1>0, <2>1, <2>4, <2>5, EndTyped DEF TypeOK, history
  <2>7. PrefixInv'
    BY <1>0, <2>1, EndTyped DEF RoutingInv, TypeOK, PrefixInv, PrefixNotInflated, history
  <2>8. LifetimeInv'
    BY <1>0, <2>1, <2>4, <2>5, EndTyped DEF RoutingInv, TypeOK, LifetimeInv, CacheOutlivesByDelay
  <2>9. QED
    BY <2>1, <2>6, <2>7, <2>8, EndTyped DEF RoutingInv
<1>9. ASSUME NEW t \in Turns, Fail(t) PROVE RoutingInv'
  <2>1. /\ End(t) /\ calm' = FALSE /\ lastServed' = NoModel
        /\ UNCHANGED <<binding, cache, booked>>
    BY <1>9 DEF Fail
  <2>2. TypeOK'
    BY <1>0, <2>1, EndTyped DEF TypeOK, Model
  <2>3. PrefixInv' /\ LifetimeInv'
    BY <1>0, <2>1, EndTyped
       DEF RoutingInv, TypeOK, PrefixInv, PrefixNotInflated, LifetimeInv, CacheOutlivesByDelay
  <2>4. QED
    BY <2>1, <2>2, <2>3, EndTyped DEF RoutingInv
<1>10. CASE Tick
  <2>1. /\ binding' = IF binding.left > 1 THEN [binding EXCEPT !.left = @ - 1] ELSE Unbound
        /\ cache' = {[e EXCEPT !.left = @ - 1] : e \in {d \in cache : d.left > 1}}
        /\ lastServed' \in {lastServed, NoModel}
        /\ delay' = [t \in Turns |->
              IF at[t] = "store" THEN Lower(delay[t] + 1, AffinityTtl) ELSE 0]
        /\ UNCHANGED <<at, ask, seen, chain, served, replayed, room, booked, calm>>
    BY <1>10 DEF Tick
  <2>2. \A e \in cache : e \in [question : Nat, model : Models, left : 1..CacheTtl, late : 0..AffinityTtl]
                          /\ e.left <= binding.left + e.late
    BY DEF RoutingInv, TypeOK, LifetimeInv, CacheOutlivesByDelay
  <2>3. /\ binding' \in [model : Model, prefix : Nat, left : 0..AffinityTtl]
        /\ binding'.prefix \in {0, binding.prefix}
        /\ binding.left > 1 => binding'.left = binding.left - 1
    <3>1. CASE binding.left > 1
      <4>1. binding \in [model : Model, prefix : Nat, left : 0..AffinityTtl]
        BY <1>0 DEF TypeOK
      <4>2. binding' = [binding EXCEPT !.left = binding.left - 1]
        BY <2>1, <3>1
      <4>3. binding.left - 1 \in 0..AffinityTtl
        BY <3>1, <4>1, SessionAssumption
      <4>4. QED
        BY <4>1, <4>2, <4>3
    <3>2. CASE ~(binding.left > 1)
      BY <2>1, <3>2, SessionAssumption DEF Unbound, Model
    <3>3. QED
      BY <3>1, <3>2
  <2>4. \A e \in cache' : /\ e \in [question : Nat, model : Models, left : 1..CacheTtl, late : 0..AffinityTtl]
                           /\ e.left <= binding'.left + e.late
    <3>1. SUFFICES ASSUME NEW d \in cache, d.left > 1
                   PROVE  LET e == [d EXCEPT !.left = @ - 1]
                          IN  /\ e \in [question : Nat, model : Models, left : 1..CacheTtl, late : 0..AffinityTtl]
                              /\ e.left <= binding'.left + e.late
      BY <2>1
    <3>2. d \in [question : Nat, model : Models, left : 1..CacheTtl, late : 0..AffinityTtl] 
                               /\ d.left <= binding.left + d.late
      BY <2>2
    <3>3. /\ binding.left \in Nat /\ binding'.left \in Nat
          /\ binding'.left >= binding.left - 1
      BY <1>0, <2>3, SessionAssumption DEF TypeOK
    <3>4. /\ d.left - 1 \in 1..CacheTtl /\ d.late \in Int
          /\ d.left - 1 <= binding'.left + d.late
      BY <3>1, <3>2, <3>3, SessionAssumption
    <3>5. QED
      BY <3>2, <3>4
  <2>5. TypeOK'
    <3>1. delay' \in [Turns -> 0..AffinityTtl]
      <4>1. \A t \in Turns : delay[t] \in 0..AffinityTtl
        BY <1>0 DEF TypeOK
      <4>2. \A t \in Turns : Lower(delay[t] + 1, AffinityTtl) \in 0..AffinityTtl
        BY <4>1, SessionAssumption DEF Lower
      <4>3. QED
        BY <2>1, <4>2, SessionAssumption
    <3>2. cache' \subseteq [question : Nat, model : Models, left : 1..CacheTtl,
                            late : 0..AffinityTtl]
      BY <2>4
    <3>3. QED
      BY <1>0, <2>1, <2>3, <3>1, <3>2 DEF TypeOK, Model
  <2>6. Progress' /\ TenantPolicy'
    BY <2>1 DEF RoutingInv, Progress, TenantPolicy, Routed
  <2>7. PrefixInv'
    BY <1>0, <2>1, <2>3 DEF RoutingInv, TypeOK, PrefixInv, PrefixNotInflated
  <2>8. LifetimeInv'
    <3>1. ASSUME NEW t \in Turns, at[t] = "store" PROVE room[t] <= binding'.left + delay'[t]
      <4>1. /\ room[t] <= binding.left + delay[t] /\ room[t] \in 0..AffinityTtl
            /\ delay[t] \in 0..AffinityTtl /\ binding.left \in 0..AffinityTtl
        BY <1>0, <3>1 DEF TypeOK, RoutingInv, LifetimeInv
      <4>2. delay'[t] = Lower(delay[t] + 1, AffinityTtl)
        BY <2>1, <3>1
      <4>3. binding'.left \in 0..AffinityTtl /\ binding'.left >= binding.left - 1
        BY <2>3, <4>1, SessionAssumption
      <4>4. QED
        BY <4>1, <4>2, <4>3, SessionAssumption DEF Lower
    <3>2. QED
      BY <2>1, <2>4, <3>1 DEF LifetimeInv, CacheOutlivesByDelay
  <2>9. QED
    BY <2>5, <2>6, <2>7, <2>8 DEF RoutingInv
<1>11. QED
  BY <1>1, <1>2, <1>3, <1>4, <1>5, <1>6, <1>7, <1>8, <1>9, <1>10 DEF Next, Step

THEOREM RoutingInvariant == Spec => []RoutingInv
  BY RoutingInit, RoutingStep, PTL DEF Spec

---------------------------------------------------------------------------
(* The history *)

Settled(t) == at[t] \in {"idle", "choose", "ttl", "store"} \/ ~Routed(ask[t])

(* While turns have followed one another at most one is under way, the     *)
(* binding has the prefix that it read until it is accounted, and the      *)
(* model of the last one accounted whenever no other has been chosen.      *)
CalmInv ==
    calm =>
        /\ \A t, u \in Turns : at[t] # "idle" /\ at[u] # "idle" => t = u
        /\ \A t \in Turns : at[t] = "choose" =>
              Routed(ask[t]) /\ (lastServed # NoModel => seen[t].model = lastServed)
        /\ \A t \in Turns :
              Alive /\ at[t] \in {"cache", "call", "account"} /\ Routed(ask[t])
                => binding.prefix = seen[t].prefix
        /\ lastServed # NoModel => Alive
        /\ (lastServed # NoModel /\ \A t \in Turns : Settled(t))
              => binding.model = lastServed

LEMMA CalmInit == Init => CalmInv
  BY DEF Init, CalmInv, Alive

LEMMA BeginsCalm ==
  ASSUME CalmInv, NEW t \in Turns, NEW q \in Asks, Begins(t, q), calm'
  PROVE  /\ calm /\ \A u \in Turns : at[u] = "idle"
         /\ lastServed' = lastServed
         /\ lastServed # NoModel => Alive /\ binding.model = lastServed
  BY DEF Begins, CalmInv, Settled

LEMMA EndCalm ==
  ASSUME TypeOK, NEW t \in Turns, End(t)
  PROVE  /\ at'[t] = "idle"
         /\ \A u \in Turns : u # t => at'[u] = at[u] /\ ask'[u] = ask[u] /\ seen'[u] = seen[u]
  BY DEF TypeOK, End, Goto

LEMMA CalmStep == RoutingInv /\ CalmInv /\ [Next]_vars => CalmInv'
<1> SUFFICES ASSUME RoutingInv, CalmInv, [Next]_vars, calm' PROVE CalmInv'
  BY DEF CalmInv
<1>0. TypeOK
  BY DEF RoutingInv
<1>1. CASE UNCHANGED vars
  BY <1>1 DEF vars, context, history, CalmInv, Alive, Settled, Routed
<1>2. ASSUME NEW t \in Turns, NEW q \in Asks, Explicit(t, q) PROVE CalmInv'
  <2>1. /\ Begins(t, q) /\ ask' = [ask EXCEPT ![t] = q] /\ ~Routed(q)
        /\ \E place \in {"call", "cache"} : at' = [at EXCEPT ![t] = place]
        /\ UNCHANGED <<binding, cache, seen, served, replayed, room, delay, booked>>
    BY <1>2 DEF Explicit, Begins, Decide, Goto
  <2>2. /\ at'[t] \in {"call", "cache"} /\ ~Routed(ask'[t])
        /\ \A u \in Turns : u # t => at'[u] = "idle"
    BY <1>0, <2>1, BeginsCalm DEF TypeOK, Routed
  <2>3. QED
    BY <2>1, <2>2, BeginsCalm DEF CalmInv, Alive, Settled, Routed
<1>3. ASSUME NEW t \in Turns, NEW q \in Asks, ReadBinding(t, q) PROVE CalmInv'
  <2>1. /\ Begins(t, q) /\ ask' = [ask EXCEPT ![t] = q] /\ Routed(q)
        /\ at' = [at EXCEPT ![t] = "choose"]
        /\ seen' = [seen EXCEPT ![t] = [model |-> binding.model, prefix |-> binding.prefix]]
        /\ UNCHANGED <<binding, cache, chain, served, replayed, room, delay, booked>>
    BY <1>3 DEF ReadBinding, Begins, Goto
  <2>2. /\ at'[t] = "choose" /\ Routed(ask'[t]) /\ seen'[t].model = binding.model
        /\ \A u \in Turns : u # t => at'[u] = "idle"
    BY <1>0, <2>1, BeginsCalm DEF TypeOK, Routed
  <2>3. QED
    BY <2>1, <2>2, BeginsCalm DEF CalmInv, Alive, Settled, Routed
<1>4. ASSUME NEW t \in Turns, Choose(t) PROVE CalmInv'
  <2>1. /\ at[t] = "choose" /\ UNCHANGED <<ask, seen, calm, lastServed>>
        /\ \E place \in {"call", "cache"} : at' = [at EXCEPT ![t] = place]
        /\ binding'.prefix = seen[t].prefix /\ binding'.left = AffinityTtl
    <3>1. PICK pool \in SUBSET Scored[ask[t]] : ChooseFrom(t, pool)
      BY <1>4 DEF Choose
    <3>2. PICK m \in Winners(seen[t].model, pool, ask[t]) :
            /\ PersistChoice(t, m)
            /\ \E f \in Fallbacks[m][ask[t].exclude] : UNCHANGED ask /\ Decide(t, m, f)
      BY <3>1 DEF ChooseFrom
    <3>3. \E place \in {"call", "cache"} : at' = [at EXCEPT ![t] = place] /\ UNCHANGED ask
      BY <3>2 DEF Decide, Goto
    <3>4. QED
      BY <1>4, <3>1, <3>2, <3>3 DEF Choose, ChooseFrom, PersistChoice, Bind, history
  <2>2. /\ Routed(ask[t]) /\ at'[t] \in {"call", "cache"}
        /\ \A u \in Turns : u # t => at'[u] = "idle"
    BY <1>0, <2>1 DEF TypeOK, CalmInv
  <2>3. QED
    BY <2>1, <2>2, SessionAssumption DEF CalmInv, Alive, Settled, Routed
<1>5. ASSUME NEW t \in Turns, LookupCache(t) \/ Answer(t) PROVE CalmInv'
  <2>1. /\ at[t] \in {"cache", "call"}
        /\ \E place \in {"call", "account"} : at' = [at EXCEPT ![t] = place]
        /\ UNCHANGED <<binding, ask, seen, calm, lastServed>>
    BY <1>5 DEF LookupCache, Answer, Goto, history
  <2>2. /\ at'[t] \in {"call", "account"}
        /\ \A u \in Turns : u # t => at'[u] = at[u]
    BY <1>0, <2>1 DEF TypeOK
  <2>3. QED
    BY <2>1, <2>2 DEF CalmInv, Alive, Settled, Routed
<1>6. ASSUME NEW t \in Turns, Account(t) PROVE CalmInv'
  <2>1. at[t] = "account" /\ served[t] \in Models /\ UNCHANGED calm
    BY <1>6 DEF Account, RoutingInv, Progress
  <2>2. /\ at'[t] \in {"idle", "ttl"}
        /\ \A u \in Turns : u # t => at'[u] = "idle"
    <3>1. \A u \in Turns : u # t => at[u] = "idle"
      BY <2>1 DEF CalmInv
    <3>2. End(t) \/ at' = [at EXCEPT ![t] = "ttl"]
      BY <1>6 DEF Account, Goto
    <3>3. QED
      BY <1>0, <3>1, <3>2, EndCalm DEF TypeOK
  <2>3. CASE Routed(ask[t])
    <3>1. binding'.model = served[t] /\ binding'.left = AffinityTtl /\ lastServed' = served[t]
      BY <1>6, <2>1, <2>3 DEF Account, UpdateAffinity, AccountedModel, Bind
    <3>2. QED
      BY <2>1, <2>2, <3>1, SessionAssumption DEF CalmInv, Alive, Settled
  <2>4. CASE ~Routed(ask[t])
    <3>1. UNCHANGED <<binding, lastServed>>
      BY <1>6, <2>4 DEF Account
    <3>2. \A u \in Turns : Settled(u)
      BY <2>1, <2>4 DEF CalmInv, Settled
    <3>3. QED
      BY <2>1, <2>2, <3>1, <3>2 DEF CalmInv, Alive, Settled
  <2>5. QED
    BY <2>3, <2>4
<1>7. ASSUME NEW t \in Turns, ReadTtl(t) \/ StoreAnswer(t) PROVE CalmInv'
  <2>1. at[t] \in {"ttl", "store"} /\ UNCHANGED <<binding, calm, lastServed>>
    BY <1>7 DEF ReadTtl, StoreAnswer, history
  <2>2. /\ at'[t] \in {"idle", "store"}
        /\ \A u \in Turns : u # t => at'[u] = "idle" /\ at[u] = "idle"
    BY <1>0, <1>7, <2>1, EndCalm DEF ReadTtl, StoreAnswer, Goto, TypeOK, CalmInv
  <2>3. QED
    BY <2>1, <2>2 DEF CalmInv, Alive, Settled
<1>8. ASSUME NEW t \in Turns, Fail(t) PROVE CalmInv'
  BY <1>8 DEF Fail
<1>9. CASE Tick
  <2>1. /\ UNCHANGED <<at, ask, seen, calm>>
        /\ \/ /\ binding.left > 1 /\ binding' = [binding EXCEPT !.left = binding.left - 1]
              /\ UNCHANGED lastServed
           \/ /\ binding' = Unbound
              /\ lastServed' = NoModel
    BY <1>9 DEF Tick
  <2>2. \/ /\ binding'.model = binding.model /\ binding'.prefix = binding.prefix
           /\ binding'.left > 0 /\ binding.left > 0 /\ UNCHANGED lastServed
        \/ /\ ~(binding'.left > 0)
           /\ lastServed' = NoModel
    BY <1>0, <2>1, SessionAssumption DEF TypeOK, Unbound
  <2>3. QED
    BY <2>1, <2>2 DEF CalmInv, Alive, Settled, Routed
<1>10. QED
  BY <1>1, <1>2, <1>3, <1>4, <1>5, <1>6, <1>7, <1>8, <1>9 DEF Next, Step

---------------------------------------------------------------------------
(* The results *)

(* The turns, the binding and the cache are what they should be; chains    *)
(* consist of configured models and no cached answer is kept for longer    *)
(* than the cache allows.                                                  *)
THEOREM TypeCorrect == Spec => []TypeOK
  BY RoutingInvariant, PTL DEF RoutingInv

(* Whatever the router scores, relaxes, keeps by affinity or explores, no  *)
(* model but the configured default answers against the tenant's policy.   *)
THEOREM TenantPolicyKept == Spec => []TenantPolicy
  BY RoutingInvariant, PTL DEF RoutingInv

(* Overlapping and failing turns write stale prefixes over each other but  *)
(* never count a token that was not booked or count one twice.             *)
THEOREM PrefixIsNotInflated == Spec => []PrefixNotInflated
  BY RoutingInvariant, PTL DEF RoutingInv, PrefixInv

(* The lifetime that is read in one command and used in the next lets the  *)
(* cached answer outlive the session's binding by the seconds that pass    *)
(* between the two and no more, whatever other turns bind meanwhile        *)
(* (service.py:593-602).                                                   *)
THEOREM CacheOutlivesByDelayOnly == Spec => []CacheOutlivesByDelay
  BY RoutingInvariant, PTL DEF RoutingInv, LifetimeInv

(* A session whose turns follow one another stays with the model that has  *)
(* answered it last whenever it is a candidate near enough to the task.    *)
THEOREM SessionsStay == Spec => SessionStays
<1> DEFINE Stays == \A t \in Turns :
         (/\ calm /\ Alive /\ lastServed # NoModel
          /\ at[t] = "choose" /\ Near(lastServed, ask[t])
          /\ \E pool \in SUBSET Models : lastServed \in pool /\ ChooseFrom(t, pool))
            => Head(chain'[t]) = lastServed
<1>1. ASSUME RoutingInv, CalmInv, [Next]_vars PROVE [Stays]_vars
  <2> SUFFICES ASSUME NEW t \in Turns, calm, lastServed # NoModel, at[t] = "choose",
                      Near(lastServed, ask[t]),
                      NEW pool \in SUBSET Models, lastServed \in pool, ChooseFrom(t, pool)
               PROVE  Head(chain'[t]) = lastServed
    OBVIOUS
  <2>1. Winners(seen[t].model, pool, ask[t]) = {lastServed}
    BY <1>1 DEF Winners, Sticky, CalmInv
  <2>2. PICK f \in Fallbacks[lastServed][ask[t].exclude] : Decide(t, lastServed, f)
    BY <2>1 DEF ChooseFrom
  <2>3. ask[t].exclude \in SUBSET Models
    BY <1>1, SessionAssumption DEF RoutingInv, Progress, Ask
  <2>4. f \in Seq(Models)
    BY <2>2, <2>3, FallbacksKeepPolicy
  <2>5. chain'[t] = <<lastServed>> \o f
    BY <1>1, <2>2 DEF Decide, RoutingInv, TypeOK
  <2>6. QED
    BY <2>4, <2>5
<1>2. QED
  BY <1>1, RoutingInit, RoutingStep, CalmInit, CalmStep, PTL DEF Spec, SessionStays

(* The tokens of a turn are added to the stored prefix, although that was  *)
(* read when the turn was routed, if turns follow one another.             *)
THEOREM PrefixesAccumulate == Spec => PrefixAccumulates
<1> DEFINE Adds == \A t \in Turns :
         (calm /\ Alive /\ at[t] = "account" /\ booked' # booked)
            => binding'.prefix =
                 Lower(binding.prefix + ask[t].tokens, Window[binding'.model])
<1>1. ASSUME RoutingInv, CalmInv, [Next]_vars PROVE [Adds]_vars
  <2> SUFFICES ASSUME NEW t \in Turns, calm, Alive, at[t] = "account", booked' # booked
               PROVE  binding'.prefix =
                        Lower(binding.prefix + ask[t].tokens, Window[binding'.model])
    OBVIOUS
  <2>1. PICK u \in Turns : Account(u)
    BY <1>1 DEF Next, Step, Tick, Explicit, ReadBinding, Choose, ChooseFrom, LookupCache,
                Answer, ReadTtl, StoreAnswer, Fail, vars, history
  <2>2. u = t
    BY <1>1, <2>1 DEF Account, CalmInv
  <2>3. Routed(ask[t]) /\ UpdateAffinity(t)
    BY <2>1, <2>2 DEF Account
  <2>4. binding.prefix = seen[t].prefix
    BY <1>1, <2>3 DEF CalmInv
  <2>5. QED
    BY <2>3, <2>4 DEF UpdateAffinity, AccountedModel, Bind
<1>2. QED
  BY <1>1, RoutingInit, RoutingStep, CalmInit, CalmStep, PTL DEF Spec, PrefixAccumulates
=============================================================================
