SPECIFICATION FairSpec
CONSTANTS
    Stream = {s1, s2}
    Conversation = {c1, c2}
    Nobody = Nobody
    MaxQueue = 2
INVARIANTS
    TypeOK
    TurnIsBound
    AnswersDelivered
PROPERTIES
    ImplementsCallLine
    StreamEnds
CHECK_DEADLOCK FALSE
