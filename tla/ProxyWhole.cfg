SPECIFICATION FairSpec
CONSTANTS
  c1 = c1  c2 = c2  c3 = c3  b1 = b1  b2 = b2  pub = pub  p1 = p1  p2 = p2  p3 = p3
  r1 = r1  r2 = r2  k1 = k1  k2 = k2  v1 = v1  v2 = v2  w1 = w1  w2 = w2  wc = wc
  NoAddr = NoAddr  NoUfrag = NoUfrag  NoPwd = NoPwd  NoMic = NoMic  NoPacket = NoPacket
  Addr <- MCAddr  Port <- MCPort  PortOf <- MCPortOf  Local <- MCLocal
  Ufrag <- MCUfrag  Pwd <- MCPwd
  Exchange <- MCExchange
  MaxRegistrations = 2
  MaxSessions = 2
  MaxAddrs = 1
  Insecure = FALSE
  Request <- MCRequest  Offer <- MCOffer
  Cand <- MCCand  AddrOf <- MCAddrOf  MuxCand = pub
  Answer <- MCAnswer
  ReadTimeout = 0
  WriteTimeout = 0
  BackendTimeout = 0
  ShutdownTimeout = 0
  Packet <- MCPacket
  Home <- MCHome  Earlier <- MCEarlier
  Stray <- MCStray
  Patient = {r1}
  MaxStarts = 2
CHECK_DEADLOCK FALSE
INVARIANTS TypeOK 

PROPERTIES NeverTooEarly IsMux 
