\* Violated: a run is answered with the late results of the run before.
CONSTANTS
    c1 = c1
    c2 = c2
    Calls = {c1, c2}
    Edits <- OneEdit
    None = None
    Fixed = Fixed
    Faults <- NoFaults
    Leftovers <- SomeLeftovers
    Discipline = "serial"
    MaxWaits = 1
SPECIFICATION Spec
INVARIANT CompletedIsOwn
