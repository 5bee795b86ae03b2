SPECIFICATION FairSpec
CONSTANTS
    Packets <- MCPackets
    DataWord = 2
    Capacity = 2
    SclTimeout = 1
    Blockings <- MCBlockings
    MayDie = {"writer", "reader"}
INVARIANTS
    TypeOK
    ReaderSees
PROPERTIES
    Refines
    CallsReturn
    AllDelivered
\* A reader without O_NONBLOCK waits for the next call for ever.
CHECK_DEADLOCK FALSE
