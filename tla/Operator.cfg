CONSTANTS
    Builds = {b1}
    BuildSpecs = {s1, s2}
    Tasks = {t1, t2}
    Unnamed = Unnamed
    NoTask = NoTask
    Managers = {m1}
    Services = {api}
    Clients = {c1}
    Server <- OneServer
    Malformed = Malformed
    Count = 7
    Given <- OneProperty
    LeaderElect = TRUE
    ClientKinds <- BothKinds
    MaxActs = 3
    MaxFaults = 1

SPECIFICATION FairSpec


INVARIANTS
    TypeOK
    IInv
    NoLostRecount

PROPERTIES
    PutsAreExact
    CountsWereTrue
    CountsConverge

\* Users stop.
CHECK_DEADLOCK FALSE
