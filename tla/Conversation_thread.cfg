\* Threads of up to seven messages; half of them do not fit the model.
SPECIFICATION Spec
CONSTANTS
    Prompts <- MCPrompts
    Questions <- MCQuestions
    Answers <- MCAnswers
    MaxMessages = 7
    MaxAnalysed = 5
    RecencyDecay = 85
    EscalationMemory = 60
    PressureThreshold = 35
    SignalWeights <- MCWeights
    EconomyMax = 250
    StandardMax = 550
    PremiumMax = 800
    DeclaredTools = 0
    ToolsTokens = 0
    RequestedMax = 20
    WindowHint = 1000
    ContextWindow = 150
    TargetRatio = 70
    ReserveOutput = 20
    KeepLeading = 1
    KeepTrailing = 2
    InsertNotice = TRUE
    Notice <- MCNotice
INVARIANTS NeverForgotten EvidenceNeverCheapens TrimSound
\* The thread ends at its bound.
CHECK_DEADLOCK FALSE
