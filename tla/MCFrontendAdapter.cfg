\* Three callers: two can hold a command each while a third is queued; a channel of
\* one makes them wait.
CONSTANTS
    Callers = {c1, c2, c3}
    Capacity = 1
    MaxCommands = 4
SPECIFICATION Spec
INVARIANTS
    EachCommandOnce
PROPERTIES
    ImplementsQueue
    CommandsArrive
CHECK_DEADLOCK FALSE
