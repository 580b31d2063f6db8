\* Tools of the server without a try around its reads and runs of the dynamic
\* controller overlap on the four files, no faults.
CONSTANTS
    c1 = c1
    c2 = c2
    Calls = {c1, c2}
    Packaged = {}
    None = None
    Fixed = Fixed
    Serial = FALSE
    Faults <- NoFaults
    Leftovers <- SomeLeftovers
    Edits <- OneEdit
    MaxPolls = 1
    MaxWaits = 0
SYMMETRY Interchangeable
SPECIFICATION FolderSpec
INVARIANTS WorkbenchIsWatched SolvedIsNotOld PrintedIsNotOld OnlyRunsRemove
