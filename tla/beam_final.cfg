\* Violated: SUCCESS is announced, then the project save raises.
CONSTANTS
    c1 = c1
    c2 = c2
    Calls = {c1}
    Packaged = {c1}
    None = None
    Fixed = Fixed
    Serial = TRUE
    Faults <- NoFaults
    Leftovers <- AllLeftovers
    MaxPolls = 1
SPECIFICATION Spec
INVARIANT CompletedIsFinal
