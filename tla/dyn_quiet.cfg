\* Two runs, the second after the first Workbench is gone, every fault.
CONSTANTS
    c1 = c1
    c2 = c2
    Calls = {c1, c2}
    Edits <- SomeEdits
    None = None
    Fixed = Fixed
    Faults <- AllFaults
    Leftovers <- SomeLeftovers
    Discipline = "quiet"
    MaxWaits = 1
SPECIFICATION FairSpec
INVARIANTS TypeOK PrintedIsOwn FailureHasFile DrawsCheckedSizes ToolRequestsNeverRun
PROPERTIES RefusedWithReason EveryStepCounts ImplementsRuns ControllerEnds
