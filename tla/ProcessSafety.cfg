\* Safety: two names, three runs of them.
CONSTANTS
    c1 = c1  c2 = c2
    r1 = r1  r2 = r2  r3 = r3
    None = None
    Commands = {c1, c2}
    Runners = {r1, r2, r3}
    MaxLines = 1
SPECIFICATION Spec
SYMMETRY Symmetry
INVARIANTS
    TypeOK
    Killable
    ExitAfterDeath
PROPERTIES
    OutputBeforeExit
