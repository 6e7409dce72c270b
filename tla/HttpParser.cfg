SPECIFICATION Spec
CONSTANTS
    InitSize = 12
    Streams <- MCStreams
    OffEnd = {"NO_REQUEST", "BAD_REQUEST"}
    Responses <- MCResponses
    Refusals <- MCRefusals
    Cuts = {2}
INVARIANT WithinCapacity
INVARIANT FifoWhileTight
INVARIANT AnsweredAsWhole
INVARIANT ResponsesInOrder
PROPERTY RefusedForGood
CHECK_DEADLOCK FALSE
