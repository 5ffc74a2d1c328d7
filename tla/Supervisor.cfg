SPECIFICATION FairSpec
CONSTANTS
    Components <- TwoComponents
    Web <- OneWeb
    Commands = {c1, c2}
    Supervisors = {s1, s2}
    NoOne = NoOne
    Pids <- SomePids
    MaxRestarts = 1
    MaxFaults = 2
CHECK_DEADLOCK FALSE
INVARIANTS TypeOK OneSupervisor ChildrenOwned StateFileTrue
PROPERTIES CrashHandled StopHonoured
