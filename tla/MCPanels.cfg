\* Four steps of the user and the sync task together, at most three of them commands:
\* a key, another one and a restore, or an invite asked for, withdrawn, sent and asked
\* for again.
SPECIFICATION Spec
CONSTANTS
    Rooms = {r1}
    None = None
    MaxAsks = 3
    MaxSteps = 4
CHECK_DEADLOCK FALSE
INVARIANTS NothingWaitsInVain InviteAskedOnce KeyShownWorks
PROPERTY KeyStaysShown
