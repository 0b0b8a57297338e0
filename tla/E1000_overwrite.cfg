SPECIFICATION DriverSpec
CONSTANTS
    NUM_RX_DESC = 3
    MaxFrames = 7
    MaxUnread = 2
    MaxInits = 1
    NUM_TX_DESC = 2
    MaxSends = 0
    MaxGiveUps = 0
CHECK_DEADLOCK FALSE
PROPERTIES NoOverwrite
