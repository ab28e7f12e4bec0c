\* Both queues: the main context consumes from one and produces into the other.
CONSTANTS
    Messages = {a, b}
    NoMessage = NoMessage
    QueueSize = 4
    IndexWrap = 256
    MaxCount = 6
SPECIFICATION QueueSpec
PROPERTIES IsFifo OverrunAtWrap
