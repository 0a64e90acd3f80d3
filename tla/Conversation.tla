---------------------------- MODULE Conversation ----------------------------
(***************************************************************************)
(* A thread as the gateway sees it: the client sends the whole history     *)
(* with every request, the analyser scores it (Complexity.tla) and, when   *)
(* the selected model cannot hold it, the middle is cut out of what is     *)
(* sent upstream (ContextFit.tla).  The client keeps its own history: the  *)
(* next request brings the cut messages back.                              *)
(***************************************************************************)
EXTENDS Complexity, ContextFit

CONSTANTS
    Prompts,      \* the system messages a thread may begin with
    Questions,    \* the messages a client may add: user turns and tool results
    Answers,      \* the assistant's
    MaxMessages   \* bound on the length of the thread

ASSUME ConversationAssumption ==
    /\ MaxMessages \in Nat \ {0}
    /\ \A m \in Prompts : m.role = "system"
    /\ \A m \in Questions : m.role \in {"user", "tool"}
    /\ \A m \in Answers : m.role = "assistant"
    /\ Prompts \cup Questions \cup Answers \subseteq Message

VARIABLES
    messages,     \* the client's history
    assessment,   \* of the last request: its ComplexityAssessment
    upstream      \* of the last request: what was sent on, and the notes

vars == <<messages, assessment, upstream>>

NotAssessed == [signals |-> [s \in Signals |-> 0], score |-> 0, tier |-> "none"]

Init ==
    /\ messages \in {<<>>} \cup {<<m>> : m \in Prompts}
    /\ assessment = NotAssessed
    /\ upstream = Untouched(<<>>)

\* The thread waits for an answer: its last message is the client's.
Asked == messages # <<>> /\ messages[Len(messages)].role \in {"user", "tool"}

(* prepare: route, which analyses the request, then _apply_context_overflow. *)
Ask(m) ==
    /\ Len(messages) < MaxMessages
    /\ ~Asked
    /\ messages' = Append(messages, m)
    /\ assessment' = Analyse(messages')
    /\ upstream' = ApplyContextOverflow(messages')

(* The client adds the answer to its history. *)
Answer(m) ==
    /\ Len(messages) < MaxMessages
    /\ Asked
    /\ messages' = Append(messages, m)
    /\ UNCHANGED <<assessment, upstream>>

Next == (\E m \in Questions : Ask(m)) \/ (\E m \in Answers : Answer(m))

Spec == Init /\ [][Next]_vars

---------------------------------------------------------------------------
(* Properties *)

Window == LastN(messages, MaxAnalysed)
Turn(i) == AnalyseTurn(Window[i])
Evidence(i) == MaxOf({Turn(i).reasoning, Turn(i).code, Turn(i).structured})
Last == Turn(Len(Window))

\* A polite "thanks" or "ok" at the start of a thread nobody complained in.
Pleasantry ==
    /\ Last.trivial
    /\ UserTurns(Window) <= 2
    /\ \A i \in Positions(Window) : Turn(i).dissatisfaction = 0

(* "A hard requirement stated up-front is never forgotten"                 *)
(* (complexity.py, recency weighting and escalation memory): as long as    *)
(* the message with the demand is among those analysed the thread stays    *)
(* off the economy tier, whatever came after it; the trivial-turn shortcut *)
(* is the one way down.  And a follow-up to hard material is scored as     *)
(* premium at least, not on its own surface form.                          *)
NeverForgotten ==
    Asked =>
      /\ (\E i \in Positions(Window) : Turn(i).reasoning >= 700) /\ ~Pleasantry
           => assessment.tier # "economy"
      /\ Last.anaphoric /\ (\E i \in 1..(Len(Window) - 1) : Evidence(i) >= 950)
           => assessment.tier \in {"premium", "reasoning"}

(* Parameters with which that holds: a hard demand that is all but gone    *)
(* from the mean lifts the dominant signal over the economy tier by its    *)
(* memory alone, and a follow-up is lifted over the standard tier by its.  *)
(* The defaults do, with 252 against 250 and 570 against 550.              *)
DemandsOutlast ==
    LET heaviest == MaxOf({1, MaxOf(Range(SignalWeights))})
        kept == (EscalationMemory * 700) \div 100
        dominant == (kept * SignalWeights["reasoning_keywords"]) \div heaviest
    IN  (dominant * 60) \div 100 > EconomyMax
FollowUpsInherit == (EscalationMemory * 950) \div 100 > StandardMax

\* The thread had message i demanded more.
Harder(i) == [messages EXCEPT ![i].strongest = 10, ![i].demands = @ + 1]
\* The thread had message i been long code.
Denser(i) == [messages EXCEPT ![i].fences = @ + 2, ![i].hints = @ + 6]

(* More evidence anywhere in the thread never makes it cheaper: the score  *)
(* is monotonic through weighting, memory, the blend of mean and dominant  *)
(* signal ("monotonic in every signal", complexity.py:393), the shortcut   *)
(* and the inheritance of a follow-up.                                     *)
EvidenceNeverCheapens ==
    Asked =>
      \A i \in Positions(messages) :
        \A thread \in {Harder(i), Denser(i)} : Analyse(thread).score >= assessment.score

\* What is left of the thread once its n oldest messages in the middle are gone.
Without(n) ==
    LET first == Lead(messages) + 1
    IN  SubSeq(messages, 1, first - 1) \o SubSeq(messages, first + n, Len(messages))

(* Trimming keeps the opening and the most recent turns, takes the oldest  *)
(* of the middle and no more of it than needed, marks the place, and says  *)
(* so when the result is over the budget (context_fit.py).  Nothing goes   *)
(* upstream that the model cannot hold without that note, unless there was *)
(* no middle to take from.                                                 *)
TrimSound ==
    Asked =>
      LET n == upstream.removed
          kept == Without(n)
          cut == IF n > 0 /\ InsertNotice THEN <<Notice>> ELSE <<>>
          marked == SubSeq(kept, 1, Lead(messages)) \o cut
                      \o SubSeq(kept, Lead(messages) + 1, Len(kept))
      IN  /\ upstream.messages = marked
          /\ n <= Len(messages) - Lead(messages) - Trail(messages)
          /\ n > 0 => ~Fits(messages) /\ CountTokens(Without(n - 1)) > Budget
          /\ n > 0 /\ n < Len(Middle(messages)) => CountTokens(kept) <= Budget
          /\ n > 0 => (CountTokens(marked) > Budget <=> "over budget" \in upstream.notes)
          /\ ~Fits(upstream.messages) =>
               "over budget" \in upstream.notes \/ Middle(messages) = <<>>
=============================================================================
