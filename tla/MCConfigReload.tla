---------------------------- MODULE MCConfigReload ----------------------------
(* Two replicas for the runs of ConfigReload.                              *)
EXTENDS ConfigReload

CONSTANTS a, b, models, tenants

MCReplicas == {a, b}
MCSections == {models, tenants}

\* Everything overlaps, and one stop, crash or fault of any kind.
Overlapping ==
    [seeded |-> TRUE, alone |-> FALSE, maxVersion |-> 2, bodies |-> {MCSections},
     faults |-> AllFaults, maxMishaps |-> 1]
\* Writes and loads do not overlap; reloads fail and subscriptions die.
Orderly ==
    [seeded |-> FALSE, alone |-> TRUE, maxVersion |-> 3, bodies |-> SUBSET MCSections,
     faults |-> {"reload_fails", "subscription_dies"}, maxMishaps |-> 2]
\* Two replicas start on an empty store, at the same time too; one update.
Empty == [Overlapping EXCEPT !.seeded = FALSE, !.faults = {}, !.maxMishaps = 0]
\* One update and the tasks of two replicas, no faults.
Undisturbed == [Overlapping EXCEPT !.faults = {}, !.maxMishaps = 0]

MCSettings == {Overlapping, Orderly, Empty}
MCUndisturbed == {Undisturbed}
=============================================================================
