SPECIFICATION Spec
CONSTANTS
    e1 = e1
    e2 = e2
    e3 = e3
    s1 = s1
    Events = {e1, e2, e3}
    Streams = {s1}
    StreamOf <- MCStreamOf
    SequenceOf <- MCSequenceOf
    Skew = 1
    Window = 2
    Offsets <- MCOffsets
    MaxAttempts = 3
    ScheduleLength = 1
    CallLimit <- MCCallLimit
INVARIANTS
    NonceOutlivesTimestamp
    OutcomesTrue
PROPERTIES
    ImplementsEventStream
    GapIsFinal
