----------------------------- MODULE Complexity -----------------------------
(***************************************************************************)
(* The complexity score of a conversation (routing/complexity.py), in      *)
(* thousandths.  What the regular expressions find in a message is part of *)
(* the message; how findings become evidence, evidence becomes signals and *)
(* signals a score is computed as in the code, with every division rounded *)
(* down.                                                                   *)
(*                                                                         *)
(* A message is a record: its role and whether its text is blank; demands, *)
(* how many of the reasoning patterns it matches, and strongest, the       *)
(* greatest weight of these, in tenths; the number of code fences, code    *)
(* hints and instruction markers; the set of its marks, "trace" (a stack   *)
(* trace), "format" (structured output asked for), "long" (long output     *)
(* asked for), "unhappy", "mixed" (Chinese and Latin), "trivial",          *)
(* "followup" and "calls" (tool calls); and its tokens.                    *)
(***************************************************************************)
EXTENDS Tokens

CONSTANTS
    MaxAnalysed,            \* max_messages_analysed; 1 stands for enabled = False
    RecencyDecay,           \* recency_decay, in hundredths
    EscalationMemory,       \* escalation_memory, in hundredths
    PressureThreshold,      \* context_pressure_threshold, in hundredths
    SignalWeights,          \* signal_weights, in tenths
    EconomyMax, StandardMax, PremiumMax,   \* thresholds, in thousandths
    DeclaredTools,          \* the number of request.tools
    ToolsTokens,            \* count_tools_tokens of these
    RequestedMax,           \* requested_max_tokens; 0 if not given
    WindowHint              \* context_window_hint

Signals ==
    {"conversation_depth", "context_length", "reasoning_keywords", "code_content",
     "structured_output", "tool_usage", "multilingual", "unresolved_thread",
     "instruction_density", "requested_output_size"}

Message ==
    [role : {"system", "user", "assistant", "tool"}, blank : BOOLEAN,
     strongest : 0..10, demands : Nat, fences : Nat, hints : Nat, markers : Nat,
     marks : SUBSET {"trace", "format", "long", "unhappy", "mixed", "trivial", "followup", "calls"},
     tokens : Nat]

ASSUME ComplexityAssumption ==
    /\ MaxAnalysed \in Nat \ {0}
    /\ RecencyDecay \in 1..100
    /\ EscalationMemory \in 0..100
    /\ PressureThreshold \in 1..100
    /\ SignalWeights \in [Signals -> Nat]
    /\ {EconomyMax, StandardMax, PremiumMax} \subseteq 0..1000
    /\ EconomyMax < StandardMax /\ StandardMax < PremiumMax
    /\ DeclaredTools \in Nat /\ ToolsTokens \in Nat
    /\ RequestedMax \in Nat /\ WindowHint \in Nat

One == 1000
Clamp(value) == IF value < 0 THEN 0 ELSE IF value > One THEN One ELSE value

(* value / (value + half point), the half point given in tenths.           *)
Saturating(value, half) == IF value = 0 THEN 0 ELSE (value * 10 * One) \div (value * 10 + half)

MaxOf(S) == Max(S \cup {0})
Sum(term(_), S) == MapThenSumSet(term, S)
Positions(seq) == 1..Len(seq)
LastN(seq, n) == SubSeq(seq, IF Len(seq) > n THEN Len(seq) - n + 1 ELSE 1, Len(seq))

---------------------------------------------------------------------------
(* _analyse_turn *)

NoEvidence ==
    [reasoning |-> 0, code |-> 0, structured |-> 0, long_output |-> 0, dissatisfaction |-> 0,
     instruction_density |-> 0, multilingual |-> 0, trivial |-> FALSE, anaphoric |-> FALSE]

Marked(m, mark, evidence) == IF mark \in m.marks THEN evidence ELSE 0

AnalyseTurn(m) ==
    IF m.blank
      THEN [NoEvidence EXCEPT !.reasoning = IF m.role = "tool" THEN 300 ELSE 0]
      ELSE LET user == m.role = "user"
           IN
           [reasoning |-> IF m.demands = 0 THEN 0
                            ELSE Clamp(100 * m.strongest + 80 * (m.demands - 1)),
            code |-> Clamp(Clamp((Saturating(m.fences, 10) * 7) \div 10
                                   + Saturating(m.hints, 60) \div 2)
                             + Marked(m, "trace", 350)),
            structured |-> Marked(m, "format", 700),
            long_output |-> IF user THEN Marked(m, "long", 800) ELSE 0,
            dissatisfaction |-> IF user THEN Marked(m, "unhappy", One) ELSE 0,
            instruction_density |-> Saturating(m.markers, 50),
            multilingual |-> Marked(m, "mixed", 600),
            trivial |-> user /\ "trivial" \in m.marks,
            anaphoric |-> user /\ "followup" \in m.marks]

---------------------------------------------------------------------------
(* The signals of a sequence of evidences *)

DecayPower[k \in Nat] ==
    IF k = 0 THEN One ELSE (DecayPower[k - 1] * RecencyDecay) \div 100

Weighted(evidences, attr) ==
    LET weight(i) == DecayPower[Len(evidences) - i]
        term(i) == evidences[i][attr] * weight(i)
    IN  Sum(term, Positions(evidences)) \div Sum(weight, Positions(evidences))

Peak(evidences, attr) == MaxOf({evidences[i][attr] : i \in Positions(evidences)})

WithMemory(evidences, attr) ==
    LET avg == Weighted(evidences, attr)
        above == Peak(evidences, attr) - avg
    IN  Clamp(avg + (EscalationMemory * (IF above > 0 THEN above ELSE 0)) \div 100)

UserTurns(analysed) == Cardinality({i \in Positions(analysed) : analysed[i].role = "user"})

Unresolved(evidences) ==
    LET Unhappy(es) == Cardinality({i \in Positions(es) : es[i].dissatisfaction > 0})
    IN  Clamp(Saturating(Unhappy(evidences), 15)
                + IF Unhappy(LastN(evidences, 4)) > 0 THEN 250 ELSE 0)

ContextPressure(messages) ==
    LET ratio == ((CountTokens(messages) + ToolsTokens) * One) \div MaxOf({1, WindowHint})
    IN  Clamp((ratio * 100) \div PressureThreshold)

SignalsOf(messages, analysed, evidences) ==
    LET turns == UserTurns(analysed)
        tools == Cardinality({i \in Positions(analysed) :
                                analysed[i].role = "tool" \/ "calls" \in analysed[i].marks})
    IN
    [conversation_depth    |-> Saturating(IF turns > 1 THEN turns - 1 ELSE 0, 40),
     context_length        |-> ContextPressure(messages),
     reasoning_keywords    |-> WithMemory(evidences, "reasoning"),
     code_content          |-> WithMemory(evidences, "code"),
     structured_output     |-> WithMemory(evidences, "structured"),
     tool_usage            |-> Clamp((Saturating(DeclaredTools, 40) * 6) \div 10
                                       + (Saturating(tools, 20) * 7) \div 10),
     multilingual          |-> Weighted(evidences, "multilingual"),
     unresolved_thread     |-> Unresolved(evidences),
     instruction_density   |-> WithMemory(evidences, "instruction_density"),
     requested_output_size |-> MaxOf({WithMemory(evidences, "long_output"),
                                      Saturating(RequestedMax, 40960)})]

---------------------------------------------------------------------------
(* The score *)

Blend(mean, dominant) ==
    Clamp((dominant * 60) \div 100 + (mean * 40) \div 100
            + (((dominant * mean) \div One) * 35) \div 100)

Dominant(values) ==
    LET heaviest == MaxOf(Range(SignalWeights))
    IN  MaxOf({(values[s] * SignalWeights[s]) \div MaxOf({1, heaviest}) : s \in Signals})

AggregateLoud(values) ==                    \* mutant: the mean of the signals that are not silent
    LET loud == {s \in Signals : values[s] > 0}
        term(s) == values[s] * SignalWeights[s]
        weight(s) == SignalWeights[s]
    IN  Blend(Sum(term, loud) \div MaxOf({1, Sum(weight, loud)}), Dominant(values))
Aggregate(values) ==
    LET term(s) == values[s] * SignalWeights[s]
        weight(s) == SignalWeights[s]
    IN  Blend(Sum(term, Signals) \div MaxOf({1, Sum(weight, Signals)}), Dominant(values))

ShallowEver(score, unresolved, turns) ==    \* mutant: the number of turns is not looked at
    score < StandardMax /\ unresolved = 0
Shallow(score, unresolved, turns) ==
    score < StandardMax /\ unresolved = 0 /\ turns <= 2

(* The trivial-turn shortcut. *)
Shortened(score, last, unresolved, turns) ==
    IF last.trivial /\ Shallow(score, unresolved, turns) /\ (EconomyMax * 6) \div 10 < score
      THEN (EconomyMax * 6) \div 10
      ELSE score

(* The follow-up that inherits from the turns before it. *)
Inherited(score, evidences) ==
    LET earlier == 1..(Len(evidences) - 1)
        best == MaxOf({MaxOf({evidences[i].reasoning, evidences[i].code, evidences[i].structured}) :
                         i \in earlier})
    IN  IF evidences[Len(evidences)].anaphoric /\ best > score
          THEN Clamp(score + (EscalationMemory * (best - score)) \div 100)
          ELSE score

TierFor(score) ==
    CASE score <= EconomyMax -> "economy"
      [] score > EconomyMax /\ score <= StandardMax -> "standard"
      [] score > StandardMax /\ score <= PremiumMax -> "premium"
      [] OTHER -> "reasoning"

EvidencesOf(analysed) ==
    SubSeq([i \in Positions(analysed) |-> AnalyseTurn(analysed[i])], 1, Len(analysed))

(* analyse: the signals and the score of a request with these messages.    *)
Analyse(messages) ==
    LET analysed == LastN(messages, MaxAnalysed)
        evidences == EvidencesOf(analysed)
        signals == SignalsOf(messages, analysed, evidences)
        shortened == Shortened(Aggregate(signals), evidences[Len(evidences)],
                               signals["unresolved_thread"], UserTurns(analysed))
        score == Inherited(shortened, evidences)
    IN  [signals |-> signals, score |-> score, tier |-> TierFor(score)]
=============================================================================
