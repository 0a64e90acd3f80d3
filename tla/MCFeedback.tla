----------------------------- MODULE MCFeedback -----------------------------
(* Two requests of before, one that is being accounted for, not assessed,  *)
(* and three ratings of any of them.                                       *)
EXTENDS Feedback

CONSTANTS q1, q2, q3, f1, f2, f3, low

MCBandOf == [q \in {q1, q2, q3} |-> IF q = q3 THEN "all" ELSE low]
=============================================================================
