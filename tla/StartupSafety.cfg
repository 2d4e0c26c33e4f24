SPECIFICATION Spec
CONSTANTS
  Nethernet = Nethernet  Junk = Junk  Commented = Commented  Val <- MCVal
  NoHost = NoHost  Loopback = Loopback  Loopback6 = Loopback6  IPv6 <- MCIPv6
  OwnIP = OwnIP  Elsewhere = Elsewhere
  NoBds = NoBds  NoFile = NoFile  Torn = Torn
  raknet = raknet  fixed = fixed  motd = motd  note = note
  home1 = home1  home2 = home2  public1 = public1  public2 = public2
  Unnamed = Unnamed  Name = Name  Enter = Enter  IP <- MCIP
  GuessAt <- MCGuessAt  NameAt <- MCNameAt  PublicAnswer <- MCPublicAnswer
  Port <- MCPort  Ephemeral = 40000  ListenAnswer <- MCListenAnswer  BdsAnswer <- MCBdsAnswer
  Content <- TwoOrNone
  CommandLine <- Usual
  Midway = FALSE
  MaxStarts = 2  MaxEdits = 1  MaxSecond = 1
CHECK_DEADLOCK FALSE
INVARIANTS TypeOK FixRepairs OriginalKept ConflictsResolved FixCarriedThrough SaveRoundTrip
PROPERTIES BackedUpFirst AdvertisedAfresh
