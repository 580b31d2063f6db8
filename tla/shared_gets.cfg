\* Violated: a run removes the results between a tool's look and its read.
CONSTANTS
    c1 = c1
    c2 = c2
    Calls = {c1, c2}
    Packaged = {}
    None = None
    Fixed = Fixed
    Serial = TRUE
    Faults <- NoFaults
    Leftovers <- SomeLeftovers
    Edits <- OneEdit
    MaxPolls = 1
    MaxWaits = 0
SPECIFICATION FolderSpec
INVARIANT GetNeverRaises
