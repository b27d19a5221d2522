\* A command is killed and run again.
CONSTANTS
    c1 = c1  c2 = c2
    r1 = r1  r2 = r2
    None = None
    Commands = {c1, c2}
    Runners = {r1, r2}
    MaxLines = 1
SPECIFICATION Spec
PROPERTIES
    ExitIsOfTheRunningCommand
