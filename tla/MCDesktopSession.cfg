CONSTANTS
    Accounts = {a1}
    None = None
    SlowScreen = TRUE
    QueueRoom = 1
    MaxRestarts = 1
SPECIFICATION Spec
INVARIANTS
    TypeOK
    IntentIsAwaited
    SessionSyncs
    RoomViewHasSession
    LogoutLeavesNothing
PROPERTIES
    FormIsReleased
