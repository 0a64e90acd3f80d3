----------------------------- MODULE ContextFit -----------------------------
(***************************************************************************)
(* How an over-long conversation is made to fit a model: trim_to_fit       *)
(* (routing/context_fit.py) under the trim_history strategy, as            *)
(* _apply_context_overflow (service.py) calls it.  A message is any record *)
(* with its number of tokens.                                              *)
(***************************************************************************)
EXTENDS Tokens

CONSTANTS
    ContextWindow,     \* context_window of the selected model
    TargetRatio,       \* trim_target_ratio, in hundredths
    ReserveOutput,     \* requested_max_tokens; 0 if not given
    KeepLeading,       \* keep_leading_messages
    KeepTrailing,      \* keep_trailing_messages
    InsertNotice,      \* insert_elision_notice
    Notice             \* the elision notice, a message

ASSUME ContextFitAssumption ==
    /\ ContextWindow \in Nat \ {0}
    /\ TargetRatio \in 1..100
    /\ ReserveOutput \in Nat
    /\ KeepLeading \in Nat
    /\ KeepTrailing \in Nat \ {0}
    /\ InsertNotice \in BOOLEAN
    /\ Notice.tokens \in Nat

Fits(messages) == CountTokens(messages) + ReserveOutput <= ContextWindow

Budget ==
    LET target == (ContextWindow * TargetRatio) \div 100
        left == ContextWindow - ReserveOutput
    IN  Max({1, IF ReserveOutput > 0 THEN Min({target, left}) ELSE target})

Lead(messages) == Min({KeepLeading, Len(messages)})
Trail(messages) == Min({KeepTrailing, Len(messages) - Lead(messages)})

Opening(messages) == SubSeq(messages, 1, Lead(messages))
Middle(messages) == SubSeq(messages, Lead(messages) + 1, Len(messages) - Trail(messages))
Closing(messages) == SubSeq(messages, Len(messages) - Trail(messages) + 1, Len(messages))

(* What n times middle.pop(0) leaves. *)
PopOldest(middle, n) == SubSeq(middle, n + 1, Len(middle))

StopsLate(messages, n) ==                   \* mutant: stops below the budget, not at it
    CountTokens(Opening(messages) \o PopOldest(Middle(messages), n) \o Closing(messages)) < Budget
(* The loop ends when the rest is within the budget. *)
Stops(messages, n) ==
    CountTokens(Opening(messages) \o PopOldest(Middle(messages), n) \o Closing(messages)) <= Budget

(* The loop's count of removed messages, from n on. *)
Removed(messages) ==
    LET size == Len(Middle(messages))
        loop[n \in 0..size] == IF n = size \/ Stops(messages, n) THEN n ELSE loop[n + 1]
    IN  loop[0]

Elision(removed) == IF removed > 0 /\ InsertNotice THEN <<Notice>> ELSE <<>>

(* What the notes say of the result: "trimmed" and "over budget". *)
Notes(removed, tokens) ==
    (IF removed > 0 THEN {"trimmed"} ELSE {})
        \cup (IF tokens > Budget THEN {"over budget"} ELSE {})

Untouched(messages) == [messages |-> messages, removed |-> 0, notes |-> {}]

TrimToFit(messages) ==
    IF CountTokens(messages) <= Budget
      THEN Untouched(messages)
      ELSE LET removed == Removed(messages)
               result == Opening(messages) \o Elision(removed)
                           \o PopOldest(Middle(messages), removed) \o Closing(messages)
           IN  [messages |-> result,
                removed  |-> removed,
                notes    |-> Notes(removed, CountTokens(result))]

(* _apply_context_overflow: what is sent upstream, and what the decision's *)
(* notes say of it.  The result of a trim that removed nothing is dropped, *)
(* its notes with it.                                                      *)
ApplyContextOverflow(messages) ==
    IF Fits(messages) THEN Untouched(messages)
    ELSE IF TrimToFit(messages).removed = 0 THEN Untouched(messages)
    ELSE TrimToFit(messages)
=============================================================================
