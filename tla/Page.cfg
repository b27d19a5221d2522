\* Two pages, two workers on one queue, four calls of either kind.
SPECIFICATION FairSpec
CONSTANTS
    Workers = {w1, w2}
    MaxCalls = 4
    MaxReloads = 1
INVARIANTS
    TypeOK
    ResultIsOwn
PROPERTIES
    EveryPromiseSettles
