--------------------------- MODULE MCConversation ---------------------------
(* A small vocabulary, the default weights and a narrow context window.    *)
EXTENDS Conversation

Text(role, tokens) ==
    [role |-> role, blank |-> FALSE, strongest |-> 0, demands |-> 0, fences |-> 0,
     hints |-> 0, markers |-> 0, marks |-> {}, tokens |-> tokens]
Demanding(m, strongest, demands) == [m EXCEPT !.strongest = strongest, !.demands = demands]

MCPrompts == {Demanding(Text("system", 12), 10, 1)}
MCQuestions ==
    {Demanding(Text("user", 20), 10, 2),                      \* "prove this, step by step"
     Demanding(Text("user", 20), 7, 1),                       \* "which algorithm ..."
     Text("user", 20),
     [Text("user", 1) EXCEPT !.marks = {"trivial"}],          \* "ok"
     [Text("user", 4) EXCEPT !.marks = {"followup"}],         \* "and the other case?"
     [Text("user", 4) EXCEPT !.marks = {"unhappy"}],          \* "still wrong"
     [Text("user", 60) EXCEPT !.marks = {"trace", "format"}, !.fences = 1, !.hints = 6,
                              !.markers = 2],                 \* pasted code
     [Text("tool", 0) EXCEPT !.blank = TRUE]}
MCAnswers == {Text("assistant", 30), [Text("assistant", 20) EXCEPT !.marks = {"calls"}]}
MCNotice == Text("system", 8)

\* The defaults of ComplexitySignalWeights, in tenths.
MCWeights ==
    [conversation_depth |-> 10, context_length |-> 10, reasoning_keywords |-> 15,
     code_content |-> 12, structured_output |-> 8, tool_usage |-> 10, multilingual |-> 5,
     unresolved_thread |-> 13, instruction_density |-> 9, requested_output_size |-> 7]

\* The defaults meet what the memory of a thread needs.
ASSUME DefaultsRemember == DemandsOutlast /\ FollowUpsInherit
=============================================================================
