\* The count wraps and is torn; the sensor may never answer; the application
\* may set no timeout, or set it before or after vl53l0x_init.
CONSTANTS
    Byte = 3
    Timeout = 4
    Pace = 1
SPECIFICATION FairSpec
INVARIANTS NotEarly NotLate ReadingReported
PROPERTIES WaitEnds
