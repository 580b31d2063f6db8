\* Violated: Workbench is left open as the controller asks, the call waits.
CONSTANTS
    c1 = c1
    c2 = c2
    Calls = {c1}
    Packaged = {c1}
    None = None
    Fixed = Fixed
    Serial = TRUE
    Faults <- NoFaults
    Leftovers <- AllLeftovers
    MaxPolls = 1
SPECIFICATION FairSpec
PROPERTY SolvedIsAnswered
