SPECIFICATION Spec
CONSTANTS
    Never = Never
    Timeouts <- MCTimeouts
    PollIntervals <- MCPollIntervals
    DefaultPoll = 2
    Latency = 2
INVARIANTS TypeOK TimeoutMissesNothing WithinWindow CancelIsPrompt
PROPERTIES MeetsOutcome WaitReturns
CHECK_DEADLOCK FALSE
