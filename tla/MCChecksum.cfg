SPECIFICATION Spec
CONSTANTS
    Buffer <- SomeBuffer
    Segment <- SomeSegment
    Address <- SomeAddress
INVARIANTS SumsWords OnesComplement Accepted
CHECK_DEADLOCK FALSE
