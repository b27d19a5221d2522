\* Every path opened once: progress, shutdown and the refinement.
CONSTANTS
    h1 = h1  h2 = h2
    w1 = w1  w2 = w2
    None = None
    Handlers = {h1, h2}
    Workers = {w1, w2}
    Reopen = FALSE
    MaxCalls = 2
SPECIFICATION FairSpec
PROPERTIES
    CallsAnswered
    ShutdownCompletes
    ServiceRefinement
    ServiceProgress
