------------------------------ MODULE Routing ------------------------------
(***************************************************************************)
(* The turns of one session of a tenant: the routing decision              *)
(* (routing/router.py), the response cache around the dispatch (cache/)    *)
(* and the accounting that keeps the session's affinity binding and the    *)
(* cache (service.py).                                                     *)
(*                                                                         *)
(* Turns may overlap, and the accounting of a turn runs after its answer   *)
(* was sent, so the next turn may be routed before it.  A storage command  *)
(* is one step.  What scores, load and breakers make of the candidates is  *)
(* a free choice; so is which model of the chain answers.                  *)
(***************************************************************************)
EXTENDS Integers, Sequences, FiniteSets, FiniteSetsExt, SequencesExt

CONSTANTS
    Models, NoModel,   \* the enabled models, and none
    Tier, Window,      \* tier.rank and context_window of each
    AllowedModels, DeniedModels, MaxTier,   \* the tenant's; {} allows all
    DefaultModel,                           \* routing.default_model
    AllowDowngrade, AllowUpgrade,           \* routing.*
    RejectOverflow,                         \* context_overflow.strategy
    MaxAttempts,                            \* resilience.retry.max_attempts
    MaxDrift, AffinityTtl,                  \* session_affinity.*
    CacheTtl,                               \* response_cache.ttl_seconds
    Turns,             \* the turns that may be under way at one time
    Asks,              \* the requests a turn may make
    MaxBooked          \* bound: no turn begins once so many tokens are booked

Tiers == 0..3          \* economy, standard, premium, reasoning

(* exclude, floor and roof are the hints exclude_models, min_tier and      *)
(* max_tier; able are the models with the features the request requires,   *)
(* tier the assessment; question is what the cache key is made of besides  *)
(* the model.  tokens stands for the prompt and the projected tokens.      *)
Ask == [question : Nat, stream : BOOLEAN, tokens : Nat \ {0}, tier : Tiers,
        able : SUBSET Models, pin : Models \cup {NoModel}, model : Models \cup {NoModel},
        exclude : SUBSET Models, floor : Tiers, roof : Tiers, downgraded : BOOLEAN]

ASSUME ModelsAssumption ==
    /\ IsFiniteSet(Models)
    /\ NoModel \notin Models
    /\ Tier \in [Models -> Tiers]
    /\ Window \in [Models -> Nat \ {0}]
ASSUME PolicyAssumption ==
    /\ AllowedModels \subseteq Models /\ DeniedModels \subseteq Models
    /\ MaxTier \in Tiers
    /\ DefaultModel \in Models \cup {NoModel}
    /\ AllowDowngrade \in BOOLEAN /\ AllowUpgrade \in BOOLEAN /\ RejectOverflow \in BOOLEAN
    /\ MaxAttempts \in Nat
ASSUME SessionAssumption ==
    /\ IsFiniteSet(Turns)
    /\ Asks \subseteq Ask
    /\ MaxDrift \in Nat /\ MaxBooked \in Nat
    /\ AffinityTtl \in Nat \ {0} /\ CacheTtl \in Nat \ {0}

VARIABLES
    binding,     \* affinity:{session}: model, prefix tokens, seconds left
    cache,       \* the live entries of the response cache; late is history
    at,          \* at[t]: the await turn t stands before
    ask,         \* ask[t]: the request of turn t
    seen,        \* seen[t]: the binding as t read it
    chain,       \* chain[t]: decision.chain(), the primary model first
    served,      \* served[t]: the model whose name is on the answer
    replayed,    \* replayed[t]: whether the answer came from the cache
    room,        \* room[t]: the binding's TTL as t read it
    \* History:
    delay,       \* delay[t]: the seconds since then, saturating at AffinityTtl
    booked,      \* the tokens of the turns added to the prefix so far
    calm,        \* no turn has overlapped another or failed after its routing
    lastServed   \* while calm: the model that answered the last turn of the binding

context == <<ask, seen, chain, served, replayed, room, delay>>
history == <<booked, lastServed, calm>>
vars == <<binding, cache, at, context, history>>

Model == Models \cup {NoModel}
Unbound == [model |-> NoModel, prefix |-> 0, left |-> 0]
NoAsk == [question |-> 0, stream |-> FALSE, tokens |-> 1, tier |-> 0, able |-> {},
          pin |-> NoModel, model |-> NoModel, exclude |-> {}, floor |-> 0, roof |-> 0,
          downgraded |-> FALSE]

TypeOK ==
    /\ binding \in [model : Model, prefix : Nat, left : 0..AffinityTtl]
    /\ cache \subseteq [question : Nat, model : Models, left : 1..CacheTtl,
                        late : 0..AffinityTtl]
    /\ at \in [Turns -> {"idle", "choose", "cache", "call", "account", "ttl", "store"}]
    /\ ask \in [Turns -> Asks \cup {NoAsk}]
    /\ seen \in [Turns -> [model : Model, prefix : Nat]]
    /\ chain \in [Turns -> Seq(Models)]
    /\ served \in [Turns -> Model]
    /\ replayed \in [Turns -> BOOLEAN]
    /\ room \in [Turns -> 0..AffinityTtl]
    /\ delay \in [Turns -> 0..AffinityTtl]
    /\ booked \in Nat
    /\ lastServed \in Model
    /\ calm \in BOOLEAN

Nothing == [model |-> NoModel, prefix |-> 0]

Init ==
    /\ binding = Unbound
    /\ cache = {}
    /\ at = [t \in Turns |-> "idle"]
    /\ ask = [t \in Turns |-> NoAsk]
    /\ seen = [t \in Turns |-> Nothing]
    /\ chain = [t \in Turns |-> <<>>]
    /\ served = [t \in Turns |-> NoModel]
    /\ replayed = [t \in Turns |-> FALSE]
    /\ room = [t \in Turns |-> 0]
    /\ delay = [t \in Turns |-> 0]
    /\ booked = 0
    /\ lastServed = NoModel
    /\ calm = TRUE

Goto(t, place) == at' = [at EXCEPT ![t] = place]

(* The request's context is dropped with the request.                      *)
End(t) ==
    /\ Goto(t, "idle")
    /\ ask' = [ask EXCEPT ![t] = NoAsk]
    /\ seen' = [seen EXCEPT ![t] = Nothing]
    /\ chain' = [chain EXCEPT ![t] = <<>>]
    /\ served' = [served EXCEPT ![t] = NoModel]
    /\ replayed' = [replayed EXCEPT ![t] = FALSE]
    /\ room' = [room EXCEPT ![t] = 0]
    /\ delay' = [delay EXCEPT ![t] = 0]

Lower(a, b) == IF a <= b THEN a ELSE b
Higher(a, b) == IF a <= b THEN b ELSE a

---------------------------------------------------------------------------
(* The decision *)

(* _assert_tenant_allows, and the tenant's part of _allowed_models.        *)
Permits(m) ==
    /\ m \notin DeniedModels
    /\ AllowedModels = {} \/ m \in AllowedModels
    /\ Tier[m] <= MaxTier

Allowed(excluded) == {m \in Models \ excluded : Permits(m)}

Capable(q) == {m \in Allowed(q.exclude) : m \in q.able /\ q.tokens <= Window[m]}

Widest(S) == CHOOSE m \in S : \A n \in S : Window[n] <= Window[m]

(* Empty if route raises NoCandidateError or ContextOverflowError; the     *)
(* constraints are relaxed unless no model can hold the prompt.            *)
Candidates(q) ==
    LET allowed == Allowed(q.exclude)
    IN  IF Capable(q) # {} \/ allowed = {} THEN Capable(q)
        ELSE IF \A m \in allowed : q.tokens > Window[m]
        THEN IF RejectOverflow THEN {} ELSE {Widest(allowed)}
        ELSE allowed

CheapestTier(S) == CHOOSE k \in {Tier[m] : m \in S} : \A m \in S : k <= Tier[m]

(* The tier of the task within the ceilings of tenant and request, lowered *)
(* for an exhausted quota, raised by the request's min_tier.               *)
Target == [q \in Asks |->
    LET ceiled == Lower(q.tier, Lower(MaxTier, q.roof))
        spared == IF q.downgraded THEN Lower(ceiled, CheapestTier(Candidates(q))) ELSE ceiled
    IN  Higher(spared, q.floor)]

Scored == [q \in Asks |->
    {m \in Candidates(q) : /\ Tier[m] >= Target[q] \/ AllowDowngrade
                           /\ Tier[m] <= Target[q] \/ AllowUpgrade}]

Near(m, q) == Tier[m] - Target[q] \in -MaxDrift .. MaxDrift

StickyRegardless(bound, pool, q) == bound # NoModel /\ Near(bound, q) \* mutant: even if it is no candidate
Sticky(bound, pool, q) == bound \in pool /\ Near(bound, q)

(* The session's model if it may stay there; otherwise the best of the     *)
(* pool or, exploring, another one of it.                                  *)
Winners(bound, pool, q) == IF Sticky(bound, pool, q) THEN {bound} ELSE pool

(* The order of preference among the fallbacks of a model.                 *)
Group(primary, m) ==
    IF Tier[m] = Tier[primary] THEN 0 ELSE IF Tier[m] > Tier[primary] THEN 1 ELSE 2

WithDefault(primary, f) ==
    IF DefaultModel \in Models \ ({primary} \cup ToSet(f)) THEN Append(f, DefaultModel) ELSE f

(* _build_fallbacks, whichever of the others the breakers allow.           *)
Fallbacks == [primary \in Models |-> [excluded \in SUBSET Models |->
    LET others == Allowed(excluded) \ {primary}
        kept == {S \in SUBSET others : Cardinality(S) <= Higher(1, MaxAttempts)}
        ranked == {f \in UNION {SetToSeqs(S) : S \in kept} :
                     \A i, j \in DOMAIN f : i < j => Group(primary, f[i]) <= Group(primary, f[j])}
    IN  IF others = {} THEN {<<>>} ELSE {WithDefault(primary, f) : f \in ranked}]]

---------------------------------------------------------------------------
(* route *)

Routed(q) == q.pin = NoModel /\ q.model = NoModel
Begins(t, q) ==
    /\ at[t] = "idle"
    /\ booked < MaxBooked
    /\ ask' = [ask EXCEPT ![t] = q]
    /\ calm' = (calm /\ \A u \in Turns : at[u] = "idle")
    /\ lastServed' = IF calm' THEN lastServed ELSE NoModel

Decide(t, primary, fallbacks) ==
    /\ chain' = [chain EXCEPT ![t] = <<primary>> \o fallbacks]
    /\ Goto(t, IF ask'[t].stream THEN "call" ELSE "cache")

(* pin_model, or a model name where explicit names are respected: the      *)
(* fallbacks of the latter are built without the request's hints.          *)
Explicit(t, q) ==
    LET named == IF q.pin # NoModel THEN q.pin ELSE q.model
    IN  /\ ~Routed(q) /\ Permits(named)
        /\ Begins(t, q)
        /\ \E f \in IF q.pin # NoModel THEN {<<>>} ELSE Fallbacks[named][{}] :
              Decide(t, named, f)
        /\ UNCHANGED <<binding, cache, seen, served, replayed, room, delay, booked>>

(* get_session_affinity, unless there is nothing to choose from: then, and *)
(* if the tenant may not use a model it names, the request is refused.     *)
ReadBinding(t, q) ==
    /\ Routed(q) /\ Scored[q] # {}
    /\ Begins(t, q)
    /\ seen' = [seen EXCEPT ![t] = [model |-> binding.model, prefix |-> binding.prefix]]
    /\ Goto(t, "choose")
    /\ UNCHANGED <<binding, cache, chain, served, replayed, room, delay, booked>>

(* set_session_affinity. *)
Bind(m, prefix) == binding' = [model |-> m, prefix |-> prefix, left |-> AffinityTtl]

PersistChoiceCounts(t, m) == Bind(m, seen[t].prefix + ask[t].tokens) \* mutant: counts the turn here too
PersistChoice(t, m) == Bind(m, seen[t].prefix)

(* The choice from those of the scored candidates that are healthy and not *)
(* saturated, or from all of them if there are none; and its SET.          *)
ChooseFrom(t, pool) ==
    /\ \E m \in Winners(seen[t].model, pool, ask[t]) :
         /\ PersistChoice(t, m)
         /\ \E f \in Fallbacks[m][ask[t].exclude] : UNCHANGED ask /\ Decide(t, m, f)
    /\ UNCHANGED <<cache, seen, served, replayed, room, delay, history>>

Choose(t) ==
    /\ at[t] = "choose"
    /\ \E pool \in SUBSET Scored[ask[t]] \ {{}} : ChooseFrom(t, pool)

Primary(t) == Head(chain[t])

---------------------------------------------------------------------------
(* complete and stream *)

Hit(t) == \E e \in cache : e.question = ask[t].question /\ e.model = Primary(t)

LookupCache(t) ==
    /\ at[t] = "cache"
    /\ IF Hit(t) THEN /\ served' = [served EXCEPT ![t] = Primary(t)]
                      /\ replayed' = [replayed EXCEPT ![t] = TRUE]
                      /\ Goto(t, "account")
                 ELSE Goto(t, "call") /\ UNCHANGED <<served, replayed>>
    /\ UNCHANGED <<binding, cache, ask, seen, chain, room, delay, history>>

(* dispatch or dispatch_stream: a model of the chain answers.              *)
Answer(t) ==
    /\ at[t] = "call"
    /\ \E m \in ToSet(chain[t]) : served' = [served EXCEPT ![t] = m]
    /\ Goto(t, "account")
    /\ UNCHANGED <<binding, cache, ask, seen, chain, replayed, room, delay, history>>

---------------------------------------------------------------------------
(* The accounting in the background *)

AccountedModelPrimary(t) == Primary(t)      \* mutant: the routed model
AccountedModel(t) == served[t]

UpdateAffinityReplaces(t) ==                \* mutant: the turn's tokens alone
    Bind(AccountedModel(t), Lower(ask[t].tokens, Window[AccountedModel(t)]))
UpdateAffinity(t) ==
    LET m == AccountedModel(t)
    IN  Bind(m, Lower(seen[t].prefix + ask[t].tokens, Window[m]))

(* _update_session_affinity; then the cache, for a fresh completion that   *)
(* is not empty.                                                           *)
Account(t) ==
    /\ at[t] = "account"
    /\ IF Routed(ask[t])
         THEN /\ UpdateAffinity(t)
              /\ booked' = booked + ask[t].tokens
              /\ lastServed' = IF calm THEN served[t] ELSE NoModel
         ELSE UNCHANGED <<binding, booked, lastServed>>
    /\ \/ ~ask[t].stream /\ ~replayed[t] /\ Goto(t, "ttl") /\ UNCHANGED context
       \/ End(t)
    /\ UNCHANGED <<cache, calm>>

(* session_affinity_ttl *)
ReadTtl(t) ==
    /\ at[t] = "ttl"
    /\ room' = [room EXCEPT ![t] = binding.left]
    /\ Goto(t, "store")
    /\ UNCHANGED <<binding, cache, ask, seen, chain, served, replayed, delay, history>>

LifetimeUncapped(t) == CacheTtl             \* mutant: the cache's own TTL
Lifetime(t) == Lower(CacheTtl, room[t])

(* ResponseCache.put, under the key and the name of the primary model.  An *)
(* entry with no time left is refused by Redis and dead in memory.         *)
PutAlways(entry) == cache' = cache \cup {entry} \* mutant: a lifetime of 0 is stored
Put(entry) ==
    cache' = IF entry.left = 0 THEN cache
             ELSE {e \in cache : ~(e.question = entry.question /\ e.model = entry.model)} \cup {entry}

StoreAnswer(t) ==
    /\ at[t] = "store"
    /\ Put([question |-> ask[t].question, model |-> Primary(t), left |-> Lifetime(t),
            late |-> delay[t]])
    /\ End(t)
    /\ UNCHANGED <<binding, history>>

---------------------------------------------------------------------------
(* The whole chain fails, a storage command raises or the client leaves:   *)
(* nothing is accounted for the turn any more.                             *)
Fail(t) ==
    /\ at[t] # "idle"
    /\ End(t)
    /\ calm' = FALSE
    /\ lastServed' = NoModel
    /\ UNCHANGED <<binding, cache, booked>>

(* A second passes: the binding and the entries of the cache expire.       *)
Tick ==
    /\ binding.left > 0 \/ cache # {}
    /\ binding' = IF binding.left > 1 THEN [binding EXCEPT !.left = @ - 1] ELSE Unbound
    /\ cache' = {[e EXCEPT !.left = @ - 1] : e \in {d \in cache : d.left > 1}}
    /\ lastServed' = IF binding.left > 1 THEN lastServed ELSE NoModel
    /\ delay' = [t \in Turns |-> IF at[t] = "store" THEN Lower(delay[t] + 1, AffinityTtl) ELSE 0]
    /\ UNCHANGED <<at, ask, seen, chain, served, replayed, room, booked, calm>>

Step(t) ==
    \/ \E q \in Asks : Explicit(t, q) \/ ReadBinding(t, q)
    \/ Choose(t)
    \/ LookupCache(t) \/ Answer(t)
    \/ Account(t) \/ ReadTtl(t) \/ StoreAnswer(t)
    \/ Fail(t)

Next == Tick \/ \E t \in Turns : Step(t)

Spec == Init /\ [][Next]_vars

---------------------------------------------------------------------------
(* Properties *)

(* The tenant's lists of models and its "hard ceiling on the tier"         *)
(* (config/models.py:153) hold for every model that may answer, named,     *)
(* routed, kept by affinity or a fallback, and so do a routed turn's       *)
(* exclusions: but for the default model, which closes the chain of        *)
(* _build_fallbacks unchecked.  Cached answers bear the primary's name.    *)
TenantPolicy ==
    \A t \in Turns : \A i \in DOMAIN chain[t] :
        \/ i > 1 /\ i = Len(chain[t]) /\ chain[t][i] = DefaultModel
        \/ /\ Permits(chain[t][i])
           /\ Routed(ask[t]) => chain[t][i] \notin ask[t].exclude

Alive == binding.left > 0

(* A session whose turns follow one another stays on the model that has    *)
(* answered it last, be it by failover, whenever the router chooses among  *)
(* candidates that include it and it is close enough to the task.          *)
SessionStays ==
    [][\A t \in Turns :
         (/\ calm /\ Alive /\ lastServed # NoModel
          /\ at[t] = "choose" /\ Near(lastServed, ask[t])
          /\ \E pool \in SUBSET Models : lastServed \in pool /\ ChooseFrom(t, pool))
            => Head(chain'[t]) = lastServed]_vars

(* "each turn's prompt tokens are added to the session's historical        *)
(* prefix" (service.py:727): to the stored one, although it was read when  *)
(* the turn was routed, if turns follow one another and nothing expired.   *)
PrefixAccumulates ==
    [][\A t \in Turns :
         (calm /\ Alive /\ at[t] = "account" /\ booked' # booked)
            => binding'.prefix =
                 Lower(binding.prefix + ask[t].tokens, Window[binding'.model])]_vars

(* However turns overlap, fail and write stale prefixes, no tokens are     *)
(* counted that were not booked, and none twice.                           *)
PrefixNotInflated == binding.prefix <= booked

(* "A cached answer can never outlive the model the session is pinned to"  *)
(* (service.py:593-596) is true but for the pause between the command that *)
(* reads the TTL of the binding and the one that puts the entry: an entry  *)
(* may outlive the binding by so much and by no more, though turns overlap *)
(* and however old either gets since.                                      *)
CacheOutlivesByDelay == \A e \in cache : e.left <= binding.left + e.late
=============================================================================
