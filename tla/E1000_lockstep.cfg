SPECIFICATION FairDriverSpec
CONSTANTS
    NUM_RX_DESC = 3
    MaxFrames = 7
    MaxUnread = 1
    MaxInits = 1
    NUM_TX_DESC = 2
    MaxSends = 4
    MaxGiveUps = 0
CHECK_DEADLOCK FALSE
INVARIANTS InOrder NoReceiveStall SentIntact
PROPERTIES EventuallyReturned
