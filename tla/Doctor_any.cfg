SPECIFICATION Spec
CONSTANTS
    Issues = {1, 2, 3}
    Payloads <- FourLooks
    Requested = 2
    Window = 2
    Statements <- SomeDdl
    MaxChanges = 1
INVARIANTS EveryCheckReported NothingUnseenIsJudged VerdictsAreTrue SchemaIsCompared ExitAgrees
CHECK_DEADLOCK FALSE
