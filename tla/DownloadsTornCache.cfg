\* The program dies while it copies, and downloads the file again.
SPECIFICATION Spec
CONSTANTS
    Threads = {t1, t2}
    Gui = gui
    Files = {f1}
    MaxStarts = 2
    MaxPublish = 0
    MaxCrashes = 1
    MaxFaults = 0
PROPERTIES
    CachedVersionIsWhole
