\* One connection with three requests, two of them under one id.
CONSTANTS
    c1 = c1
    c2 = c2
    c3 = c3
    Calls = {c1, c2, c3}
    None = None
    IdOf <- SharedId
    Inline = {c3}
    Timed = {c1}
    RoomToServer = 1
    RoomToClient = 2
SPECIFICATION FairSpec
INVARIANTS TypeOK AtMostOneAnswer CancelledIsSilent WantedIsCancellable
    WantedIsNotCancelled OutcomeIsOwn
PROPERTIES CallerReturns ServerFollows ImplementsCalls
