\* Two homes, a crash, an error, a change of the setting, two calls of init().
SPECIFICATION FairSpec
CONSTANTS
    Homes = {"spring", "data"}
    Default = "spring"
    Paths <- MCPaths
    Parent <- MCParent
    Root = "root"
    Packages <- MCPackages
    Present <- MCPresent
    MaxCrashes = 1
    MaxFaults = 1
    MaxInits = 2
    MaxWrites = 1
INVARIANTS
    TypeOK
    SettingKept
    DataKept
PROPERTIES
    DataArrives
