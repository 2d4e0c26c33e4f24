SPECIFICATION FairSpec
CONSTANTS
  Packet <- MCPacket
  BufLen <- MCBufLen
  Offset <- MCOffset
CHECK_DEADLOCK FALSE
INVARIANTS TypeOK OwnBytesOnly ReadAsSent ParsersAgree
PROPERTIES ParsingEnds
