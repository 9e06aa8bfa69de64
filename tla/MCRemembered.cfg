CONSTANTS
    Accounts = {a1}
    None = None
    SlowScreen = FALSE
    QueueRoom = 1
    MaxRestarts = 1
SPECIFICATION Spec
INVARIANTS
    RememberedMeansRestored
