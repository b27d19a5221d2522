\* Progress: of kills whatever the children do, of exits when they all exit.
CONSTANTS
    c1 = c1  c2 = c2
    r1 = r1  r2 = r2
    None = None
    Commands = {c1, c2}
    Runners = {r1, r2}
    MaxLines = 1
SPECIFICATION FairSpec
PROPERTIES
    KillReturns
    ExitReported
    QuitCompletes
