\* One simulation at a time, of which the first's tool and script may fail to write:
\* every answer and verdict is of its own run.
CONSTANTS
    c1 = c1
    c2 = c2
    Calls = {c1, c2}
    Packaged = {c1}
    None = None
    Fixed = Fixed
    Serial = TRUE
    Faults <- FirstWritesFail
    Leftovers <- SomeLeftovers
    MaxPolls = 2
SPECIFICATION Spec
INVARIANTS TypeOK FreshWhenSolved OneWorkbench VerdictIsOwn FailureExplained
PROPERTIES ImplementsService EveryStepCounts
