\* Three events: a message, its edit and its redaction, or two messages and an edit.
\* The first page is one event, so that there is history to page; a buffer of three
\* overflows on the copies that an opened room adds; two stream events let one delta
\* be skipped.
CONSTANTS
    MaxEvents = 3
    OpenLimit = 1
    PageLimit = 2
    RefreshLimit = 2
    MaxItems = 3
    Capacity = 2
    Sealable = {1}
    MaxTurns = 2
    None = None
SPECIFICATION Spec
INVARIANTS
    TypeOK
    ViewFollowsBuffer
    ShownInOrder
    ShownRight
    HistoryConnected
CHECK_DEADLOCK FALSE
