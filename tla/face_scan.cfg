\* Every body of up to four faces with three places for a centroid.
CONSTANTS
    Xs <- MCXs
    Unreadable = Unreadable
    Sentinel = 2
    MaxFaces = 4
SPECIFICATION FewFacesSpec
INVARIANTS EndsAreExtreme RefusedOnlyIfUnreadable
