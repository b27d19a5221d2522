\* One file, three downloads of it, everything that can go wrong once.
SPECIFICATION Spec
CONSTANTS
    Threads = {t1, t2}
    Gui = gui
    Files = {f1}
    MaxStarts = 3
    MaxPublish = 1
    MaxCrashes = 1
    MaxFaults = 1
SYMMETRY ThreadSymmetry
INVARIANTS
    TypeOK
    WholeUnlessDisturbed
    DateIsHonest
PROPERTIES
    DoneIsCurrent
