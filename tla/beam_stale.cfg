\* Violated: a failed run is answered with an older run of the results file.
CONSTANTS
    c1 = c1
    c2 = c2
    Calls = {c1, c2}
    Packaged = {c1}
    None = None
    Fixed = Fixed
    Serial = TRUE
    Faults <- NoFaults
    Leftovers <- AfterSuccess
    MaxPolls = 1
SPECIFICATION Spec
INVARIANT ResultsAreOfThisRun
