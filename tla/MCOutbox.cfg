\* Five ids: two items with an upload each and a retry.  One turn lets the static
\* counter run ahead, an item be removed, a text be sent or the session end.
SPECIFICATION Spec
CONSTANTS
    MaxTxn = 5
    Capacity = 2
    MaxTurns = 1
CHECK_DEADLOCK FALSE
INVARIANTS InFlightIsAwaited PostsWereAskedFor
PROPERTIES ListedUntilPosted EveryTryEnds
