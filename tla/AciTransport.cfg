\* Both interfaces; the queues are flushed at any time and may be overrun.
CONSTANTS
    Size = 2
    Wrap = 4
    MaxCommands = 5
    MaxEvents = 5
    Flushes = TRUE
SPECIFICATION EitherSpec
INVARIANTS NeverSpins EventsInOrder CommandsInOrder CommandRequested
PROPERTIES CommandsGetOut EventsGetIn
