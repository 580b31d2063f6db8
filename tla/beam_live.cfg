\* One call, every fault, fair programs and an unfair user.
CONSTANTS
    c1 = c1
    c2 = c2
    Calls = {c1}
    Packaged = {c1}
    None = None
    Fixed = Fixed
    Serial = TRUE
    Faults <- FirstFails
    Leftovers <- AllLeftovers
    MaxPolls = 2
SPECIFICATION FairSpec
PROPERTIES JournalWaitEnds AnsweredOnceClosed
