\* Safety with reloads: two paths, three workers shared among them.
CONSTANTS
    h1 = h1  h2 = h2
    w1 = w1  w2 = w2  w3 = w3
    None = None
    Handlers = {h1, h2}
    Workers = {w1, w2, w3}
    Reopen = TRUE
    MaxCalls = 3
SPECIFICATION Spec
SYMMETRY Symmetry
INVARIANTS
    TypeOK
    OneCallAtATime
    ExactlyOnce
    FifoUnlessReopened
    NoLostWakeup
    JoinedUnlessReopened
