\* Two homeservers and two accounts, so that a session can be mistaken for
\* another; one room; the retry bound of the code is 3, 1 keeps both sides of
\* the comparison.  Words of 5000000: the delay reaches the maximum and the product
\* of the largest shift saturates.
CONSTANTS
    Homeservers = {h1, h2}
    Users = {u1, u2}
    Rooms = {r1}
    None = None
    MaxLoginRetries = 1
    BaseDelay = 5
    MaxDelay = 3000000
    WordMax = 5000000
    DefaultWait = 2000
    LeastWait = 250
SPECIFICATION Spec
INVARIANT
    SyncingMeansRunning
