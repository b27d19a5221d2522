SPECIFICATION Spec
CONSTANTS
    Width = 3
INVARIANTS
    SlotsMatchHeader
    AnswerIsResult
