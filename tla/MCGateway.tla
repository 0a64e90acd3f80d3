------------------------------ MODULE MCGateway ------------------------------
(* Small instances of the gateway for TLC. *)
EXTENDS Gateway

CONSTANTS r1, r2, r3, m1, m2

MCProjected == [r \in Requests |-> IF r = r2 THEN 3 ELSE 2]
MCActual == {1, 3}
\* A request with a fallback, and one that was pinned to a model.
MCChains == {<<m1, m2>>, <<m2>>}

\* A stream and a completion over two minutes, nothing raises.
Pair == [arriving |-> {r1, r2}, minutes |-> 2, failover |-> TRUE, faults |-> {}]
\* A stream and two completions within a minute.
Crowd == [Pair EXCEPT !.arriving = {r1, r2, r3}, !.minutes = 1]
\* A stream and a completion without failover, every await may raise.
Trouble == [Pair EXCEPT !.minutes = 1, !.failover = FALSE, !.faults = AllFaults]
\* An upstream connection may break.
Broken == [Pair EXCEPT !.faults = {"transport"}]

MCSettings == {Pair, Crowd, Trouble}
MCPair == {Pair}
MCBroken == {Broken}
=============================================================================
