SPECIFICATION FairSpec
CONSTANTS
    MaxMessages = 2
    MaxBeats = 2
    MaxLength = 2
    Env = {"refused", "garbage", "badlength", "lost", "close"}
INVARIANT
    TypeOK
    DeliveredInOrder
    OneHeartbeat
PROPERTY
    MessagesAreDelivered
    HeartbeatEnds
