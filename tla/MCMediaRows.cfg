\* Every limit of the code is cut to one or two images, so that two rooms exceed it.
SPECIFICATION Spec
CONSTANTS
    Sources = {1, 2, 3}
    Rooms <- MCRooms
    Size <- MCSize
    CacheCapacity = 2
    DecodeCapacity = 1
    MaxPlaying = 1
    Stale = 1
    EventCapacity = 1
    MaxRequests = 4
    MaxTurns = 2
CHECK_DEADLOCK FALSE
INVARIANTS DownloadingIsAwaited ReadyHasFile CacheBounded PlayingIsBounded
