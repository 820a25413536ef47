SPECIFICATION SubscriberSpec
CONSTANTS
    proto = proto
    garbage = garbage
    NoSample = NoSample
    Readers = {r1, r2}
    Messages = {proto, garbage}
    Stamps = {1, 2}
    Parsable <- MCParsable
    SizeOf <- MCSizeOf
    MaxPayload = 1
    Capacity = 2
    MaxArrivals = 3
CHECK_DEADLOCK FALSE
INVARIANTS
    SubscriberTypeOK
    SuffixOfArrivals
    TimestampOfMessage
PROPERTIES
    ImplementsQueue
    ReadsReturn
