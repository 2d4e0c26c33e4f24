SPECIFICATION FairSpec
CONSTANTS
  b1 = b1  b2 = b2  pub = pub  p1 = p1  p2 = p2  p3 = p3  m1 = m1
  r1 = r1  r2 = r2  k1 = k1  v1 = v1  v2 = v2  w1 = w1  w2 = w2
  NoAddr = NoAddr  NoUfrag = NoUfrag  NoPwd = NoPwd
  Addr <- MCAddr  Port <- MCPort  PortOf <- MCPortOf  Local <- MCLocal
  Ufrag <- MCUfrag  Pwd <- MCPwd
  Exchange <- MCExchange
  MaxRegistrations = 2
  MaxSessions = 1
  MaxAddrs = 1
  Insecure = FALSE
  Request <- MCRequest  Offer <- SameOffer
  Cand <- MCCand  AddrOf <- MCAddrOf  MuxCand = pub
  Answer <- FewAnswers
  ReadTimeout = 1
  WriteTimeout = 2
  BackendTimeout = 1
  ShutdownTimeout = 1
CHECK_DEADLOCK FALSE
PROPERTIES RequestsEnd RoomAgain
