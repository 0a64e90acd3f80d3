----------------------------- MODULE MCRouting -----------------------------
(* Three models, of which the tenant may use two; the third is above its   *)
(* ceiling and is the default model.                                       *)
EXTENDS Routing

CONSTANTS lo, mid, top, t1, t2

Symmetry == Permutations({t1, t2})

MCModels == {lo, mid, top}
MCTier == lo :> 0 @@ mid :> 1 @@ top :> 3
MCWindow == lo :> 1 @@ mid :> 2 @@ top :> 2

Auto ==
    [question |-> 1, stream |-> FALSE, tokens |-> 1, tier |-> 1, able |-> MCModels,
     pin |-> NoModel, model |-> NoModel, exclude |-> {}, floor |-> 0, roof |-> 3,
     downgraded |-> FALSE]
Stream == [Auto EXCEPT !.stream = TRUE]

(* A question, which is asked again; a hard task too long for the models   *)
(* left; a long one with a floor; one that no model satisfies, on an       *)
(* exhausted quota; a name; a pin.                                         *)
MCAsks ==
    {Auto,
     [Stream EXCEPT !.tokens = 2, !.tier = 3, !.exclude = {mid}],
     [Stream EXCEPT !.tokens = 2, !.tier = 0, !.floor = 1],
     [Stream EXCEPT !.able = {top}, !.downgraded = TRUE],
     [Auto EXCEPT !.model = mid, !.exclude = {lo}],
     [Stream EXCEPT !.pin = lo]}
=============================================================================
