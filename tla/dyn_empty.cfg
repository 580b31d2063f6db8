\* Violated: the results file is printed while it is being written.
CONSTANTS
    c1 = c1
    c2 = c2
    Calls = {c1}
    Edits <- OneEdit
    None = None
    Fixed = Fixed
    Faults <- NoFaults
    Leftovers <- AllLeftovers
    Discipline = "quiet"
    MaxWaits = 1
SPECIFICATION Spec
INVARIANT CompletedIsWhole
