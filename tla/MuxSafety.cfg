SPECIFICATION Spec
CONSTANTS
  c1 = c1  c2 = c2  b1 = b1  b2 = b2
  p1 = p1  p2 = p2  p3 = p3
  k1 = k1  k2 = k2  v1 = v1  v2 = v2  v3 = v3
  w1 = w1  w2 = w2  w3 = w3  wc = wc
  NoAddr = NoAddr  NoUfrag = NoUfrag  NoPwd = NoPwd  NoMic = NoMic  NoPacket = NoPacket
  Addr <- MCAddr  Port <- MCPort  PortOf <- MCPortOf  Local <- BdsHere
  Ufrag <- MCUfrag  Pwd <- MCPwd
  Exchange <- ReusedPorts
  Packet <- MCPacket
  MaxRegistrations = 3
  MaxSessions = 2
  MaxAddrs = 1
  Insecure = FALSE
INVARIANTS TypeOK AddressesDisjoint SnapshotExact WithinLimits ClaimsAreFirst RoutingInv
PROPERTIES LearnsOnlyVerified DeliveryWithinSession NoCrosstalk ReplyNotLost ImplementsAddressBook
