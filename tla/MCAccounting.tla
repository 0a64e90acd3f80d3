---------------------------- MODULE MCAccounting ----------------------------
(* A stream and a plain request, small limits, answers with and without    *)
(* usage.                                                                  *)
EXTENDS Accounting

CONSTANTS s, c

MCProjected == [r \in Requests |-> IF r = s THEN 2 ELSE 1]
MCUsages == {Unreported, [prompt |-> 0, completion |-> 2], [prompt |-> 1, completion |-> 1]}
=============================================================================
