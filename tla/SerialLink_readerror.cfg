SPECIFICATION FairSpec
CONSTANTS
    MaxUp = 1
    MaxDown = 1
    MaxHangups = 1
    Kinds <- OnePacket
    ReadErrors = TRUE
PROPERTY ReadErrorReconnects
