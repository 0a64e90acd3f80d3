------------------------------- MODULE Tokens -------------------------------
(***************************************************************************)
(* The token estimates of core/tokens.py.  The length of a text in tokens  *)
(* is part of the message that holds it.                                   *)
(***************************************************************************)
EXTENDS Integers, Sequences, FiniteSetsExt

(* count_message_tokens: 4 tokens of framing per message, 3 for the reply. *)
CountTokens(messages) ==
    LET cost(i) == 4 + messages[i].tokens
    IN  MapThenSumSet(cost, 1..Len(messages)) + 3
=============================================================================
