SPECIFICATION Spec
CONSTANTS
  Nethernet = Nethernet  Junk = Junk  Commented = Commented  Val <- MCVal
  NoHost = NoHost  Loopback = Loopback  Loopback6 = Loopback6  IPv6 <- MCIPv6
  OwnIP = OwnIP  Elsewhere = Elsewhere
  NoBds = NoBds  NoFile = NoFile  Torn = Torn
  raknet = raknet  fixed = fixed  motd = motd  note = note
  home1 = home1  home2 = home2  public1 = public1  public2 = public2
  Unnamed = Unnamed  Name = Name  Enter = Enter  IP <- MCIP
  GuessAt <- MCGuessAt  NameAt <- MCNameAt  PublicAnswer <- JustAccepts
  Port <- MCPort  Ephemeral = 40000  ListenAnswer <- MCListenAnswer  BdsAnswer <- MCBdsAnswer
  Content <- JustOnePort
  CommandLine <- JustReadme
  Midway = FALSE
  MaxStarts = 2  MaxEdits = 0  MaxSecond = 1
CHECK_DEADLOCK FALSE
INVARIANT SavedMatchesFix
