------------------------------ MODULE MuxProofs ------------------------------
(***************************************************************************)
(* Theorems about Mux, for any number of addresses, ports, ufrags, sessions  *)
(* and packets.  TypeOK and RoutingInv are inductive together; the other     *)
(* safety properties follow from them.                                       *)
(***************************************************************************)
EXTENDS Mux, FiniteSetTheorems, TLAPS

(* Every registered session has somewhere to relay to. *)
LEMMA RelayTargetIsAddr ==
  ASSUME NEW x \in Exchange
  PROVE  /\ RelayTarget(x) \in Addr
         /\ x \in ExchangeType
BY ConstAssumption DEF RelayTarget, ExchangeType

(* An entry of a rebuilt snapshot is one of the sessions holding the key, and  *)
(* there is one whenever some session holds it.                               *)
LEMMA LastOfIndexes ==
  ASSUME NEW C \in SUBSET Session, NEW last \in IterationOrder
  PROVE  /\ LastOf(last, C) \in SUBSET Session
         /\ Indexes(LastOf(last, C), C)
         /\ AtMostOne(LastOf(last, C))
<1>1. CASE C = {}
  BY <1>1 DEF LastOf, Indexes, AtMostOne
<1>2. CASE C # {}
  <2>1. C \in DOMAIN last /\ last[C] \in C
    BY <1>2 DEF IterationOrder
  <2> QED
    BY <1>2, <2>1 DEF LastOf, Indexes, AtMostOne
<1> QED
  BY <1>1, <1>2

(* rebuildLocked, in any iteration order, yields an exact snapshot. *)
LEMMA PublishExact ==
  ASSUME sessions' \in SUBSET Session, Publish
  PROVE  /\ (cur \in Snapshot)'
         /\ Exact'
         /\ \A u \in Ufrag : AtMostOne(cur'.byUfrag[u])
         /\ \A p \in Port : AtMostOne(cur'.byBdsPort[p])
<1>1. PICK last \in IterationOrder : cur' = Rebuild(sessions', info', addrs', last)
  BY DEF Publish
<1>2. \A u \in Ufrag : OfUfrag(sessions', info', u) \in SUBSET Session
  BY DEF OfUfrag
<1>3. \A p \in Port : OfPort(sessions', info', p) \in SUBSET Session
  BY DEF OfPort
<1>4. \A a \in Addr : OfClient(sessions', addrs', a) \in SUBSET Session
  BY DEF OfClient
<1>5. /\ cur'.byUfrag = [u \in Ufrag |-> LastOf(last, OfUfrag(sessions', info', u))]
      /\ cur'.byBdsPort = [p \in Port |-> LastOf(last, OfPort(sessions', info', p))]
      /\ cur'.byClient = [a \in Addr |-> LastOf(last, OfClient(sessions', addrs', a))]
      /\ cur' = [byUfrag |-> cur'.byUfrag, byBdsPort |-> cur'.byBdsPort,
                 byClient |-> cur'.byClient]
  BY <1>1 DEF Rebuild
<1>6. \A u \in Ufrag : /\ cur'.byUfrag[u] \in SUBSET Session
                       /\ Indexes(cur'.byUfrag[u], OfUfrag(sessions', info', u))
                       /\ AtMostOne(cur'.byUfrag[u])
  BY <1>2, <1>5, LastOfIndexes
<1>7. \A p \in Port : /\ cur'.byBdsPort[p] \in SUBSET Session
                      /\ Indexes(cur'.byBdsPort[p], OfPort(sessions', info', p))
                      /\ AtMostOne(cur'.byBdsPort[p])
  <2> TAKE p \in Port
  <2>1. cur'.byBdsPort[p] = LastOf(last, OfPort(sessions', info', p))
    BY <1>5
  <2> QED
    BY <1>3, <2>1, LastOfIndexes
<1>8. \A a \in Addr : /\ cur'.byClient[a] \in SUBSET Session
                      /\ Indexes(cur'.byClient[a], OfClient(sessions', addrs', a))
  <2> TAKE a \in Addr
  <2>1. cur'.byClient[a] = LastOf(last, OfClient(sessions', addrs', a))
    BY <1>5
  <2> QED
    BY <1>4, <2>1, LastOfIndexes
<1>9. Exact'
  BY <1>6, <1>7, <1>8 DEF Exact
<1>10. cur' \in Snapshot
  BY <1>5, <1>6, <1>7, <1>8 DEF Snapshot
<1> QED
  BY <1>6, <1>7, <1>9, <1>10

(* What an exact snapshot of disjoint sessions is worth to the mux. *)
LEMMA PublishRoutes ==
  ASSUME sessions' \in SUBSET Session, Publish,
         sessions' \subseteq 1 .. born', AddressesDisjoint'
  PROVE  Sound(cur)' /\ KnowsClients(cur)' /\ KnowsUfrags' /\ Apart(cur)' /\ Exact'
<1>1. /\ Exact'
      /\ \A u \in Ufrag : AtMostOne(cur'.byUfrag[u])
      /\ \A p \in Port : AtMostOne(cur'.byBdsPort[p])
  BY PublishExact
<1>2. Sound(cur)'
  BY <1>1 DEF Sound, Exact, Indexes, OfUfrag, OfPort, OfClient
<1>3. KnowsClients(cur)'
  <2> SUFFICES ASSUME NEW a \in Addr, NEW s \in OfClient(sessions', addrs', a)
               PROVE  cur'.byClient[a] = {s}
    BY DEF KnowsClients
  <2>1. OfClient(sessions', addrs', a) \subseteq {s}
    BY DEF OfClient, AddressesDisjoint
  <2>2. Indexes(cur'.byClient[a], OfClient(sessions', addrs', a))
    BY <1>1 DEF Exact
  <2> QED
    BY <2>1, <2>2 DEF Indexes
<1>4. KnowsUfrags'
  BY <1>1 DEF KnowsUfrags, Exact, Indexes
<1>5. Apart(cur)'
  BY <1>1 DEF Apart, AddressesDisjoint, Exact, Indexes, OfPort
<1> QED
  BY <1>1, <1>2, <1>3, <1>4, <1>5

-----------------------------------------------------------------------------
(* Types *)

LEMMA EmptySnapshotType == EmptySnapshot \in Snapshot
BY DEF EmptySnapshot, Snapshot

(* relayPacket returns with a well-formed outcome if a packet that is sent has *)
(* an address to go to.                                                       *)
LEMMA FinishType ==
  ASSUME NEW verdict, NEW S \in SUBSET Session, NEW to, Finish(verdict, S, to),
         \/ verdict \in Relayed \cup {"reply"} /\ to \in Addr
         \/ verdict \in Rejected \cup Dropped /\ to = NoAddr
  PROVE  /\ muxPc' = "read" /\ pkt' = NoPacket /\ cand' = {}
         /\ snap' \in Snapshot
         /\ out' \in Outcome
BY EmptySnapshotType DEF Finish, Outcome

(* The rest of the state, when only the mux goroutine's own variables change. *)
LEMMA TableTypeUnchanged ==
  ASSUME TypeOK, UNCHANGED tableVars, (muxPc \in {"read", "relay", "claim"})',
         (pkt \in Packet \cup {NoPacket})', (snap \in Snapshot)',
         (cand \subseteq Session)', (out \in Outcome)'
  PROVE  TypeOK'
BY DEF TypeOK, tableVars

LEMMA TypeInit == Init => TypeOK
<1> SUFFICES ASSUME Init PROVE TypeOK
  OBVIOUS
<1>1. cur \in Snapshot /\ snap \in Snapshot
  BY EmptySnapshotType DEF Init, TableInit, MuxInit
<1>2. out \in Outcome
  BY DEF Init, MuxInit, NoOutcome, Outcome
<1>3. born \in 0 .. MaxRegistrations
  BY ConstAssumption DEF Init, TableInit
<1>4. info \in [Session -> Exchange \cup {NoExchange}]
  BY DEF Init, TableInit
<1>5. addrs \in [Session -> SUBSET Addr] /\ clientAddr \in [Session -> Addr \cup {NoAddr}]
  BY DEF Init, TableInit
<1> QED
  BY <1>1, <1>2, <1>3, <1>4, <1>5 DEF Init, TableInit, MuxInit, TypeOK

(* A verdict that is not claimOK is one of those relayPacket counts as         *)
(* rejected or dropped.                                                       *)
LEMMA ClaimVerdictType ==
  ASSUME NEW p, NEW F
  PROVE  ClaimVerdict(p, F) \in {"claimOK"} \cup Rejected \cup Dropped
BY DEF ClaimVerdict, Rejected, Dropped

LEMMA LookupType ==
  ASSUME NEW sn \in Snapshot, NEW u
  PROVE  LookupByUsername(sn, u) \subseteq Session
BY DEF LookupByUsername, Snapshot

LEMMA TypeStep ==
  ASSUME TypeOK, RoutingInv, [Next]_vars
  PROVE  TypeOK'
<1> USE DEF TypeOK
<1>1. ASSUME SomeRegister PROVE TypeOK'
  <2>1. PICK x \in Exchange : Register(x) /\ UNCHANGED muxVars
    BY <1>1 DEF SomeRegister
  <2>2. sessions' \in SUBSET Session /\ Publish
    BY <2>1 DEF Register
  <2>3. cur' \in Snapshot
    BY <2>2, PublishExact
  <2>4. born' \in 0 .. MaxRegistrations /\ quiet' \subseteq Session
    BY <2>1, ConstAssumption DEF Register, Session, Touch
  <2>5. info' \in [Session -> Exchange \cup {NoExchange}]
    BY <2>1 DEF Register
  <2> QED
    BY <2>1, <2>2, <2>3, <2>4, <2>5 DEF Register, gcVars, muxVars
<1>2. ASSUME GcStep PROVE TypeOK'
  <2>1. CASE GcLock
    BY <1>2, <2>1 DEF GcStep, GcLock, muxVars
  <2>2. ASSUME NEW s \in Session, GcLook(s) PROVE TypeOK'
    BY <1>2, <2>2 DEF GcStep, GcLook, muxVars
  <2>3. CASE GcDelete
    BY <1>2, <2>3 DEF GcStep, GcDelete, muxVars
  <2>4. CASE GcUnlock
    <3>1. cur' \in Snapshot
      BY <2>4, PublishExact DEF GcUnlock
    <3> QED
      BY <1>2, <2>4, <3>1 DEF GcStep, GcUnlock, muxVars
  <2> QED
    BY <1>2, <2>1, <2>2, <2>3, <2>4 DEF GcStep
<1>3. ASSUME Quieten PROVE TypeOK'
  BY <1>3 DEF Quieten, GoQuiet, gcVars, muxVars
<1>4. ASSUME SomeReceive PROVE TypeOK'
  <2>1. out' \in Outcome
    BY <1>4 DEF SomeReceive, Receive, NoOutcome, Outcome
  <2> QED
    BY <1>4, <2>1, TableTypeUnchanged DEF SomeReceive, Receive
<1>5. ASSUME RelayKnown PROVE TypeOK'
  <2>1. PICK s \in KnownSession :
          /\ Touch(s)
          /\ clientAddr' = [clientAddr EXCEPT ![s] = pkt.src]
          /\ Finish("known", {s}, RelayTarget(info[s]))
    BY <1>5 DEF RelayKnown
  <2>2. pkt.src \in Addr
    BY <1>5, PacketAssumption DEF RelayKnown, RoutingInv, PacketInHand
  <2>3. s \in 1 .. born /\ s \in Session
    BY <1>5, <2>2, ConstAssumption
    DEF RelayKnown, RoutingInv, PacketInHand, Sound, KnownSession, OfClient, Session
  <2>4. RelayTarget(info[s]) \in Addr
    BY <2>3, RelayTargetIsAddr DEF RoutingInv, SessionsWellFormed
  <2>5. /\ muxPc' = "read" /\ pkt' = NoPacket /\ cand' = {}
        /\ snap' \in Snapshot /\ out' \in Outcome
    BY <2>1, <2>3, <2>4, FinishType DEF Relayed
  <2> QED
    BY <1>5, <2>1, <2>2, <2>3, <2>5 DEF RelayKnown, Touch, gcVars
<1>6. ASSUME RelayReply PROVE TypeOK'
  <2>1. PICK s \in ReplySession :
          /\ Touch(s)
          /\ IF clientAddr[s] # NoAddr
               THEN Finish("reply", {s}, clientAddr[s])
               ELSE Finish("noClientYet", {s}, NoAddr)
    BY <1>6 DEF RelayReply
  <2>2. pkt.src \in Addr
    BY <1>6, PacketAssumption DEF RelayReply, RoutingInv, PacketInHand
  <2>3. s \in Session
    BY <2>2, ConstAssumption DEF ReplySession, Snapshot
  <2>4. /\ muxPc' = "read" /\ pkt' = NoPacket /\ cand' = {}
        /\ snap' \in Snapshot /\ out' \in Outcome
    <3>1. CASE clientAddr[s] # NoAddr
      BY <2>1, <2>3, <3>1, FinishType DEF Relayed
    <3>2. CASE clientAddr[s] = NoAddr
      BY <2>1, <2>3, <3>2, FinishType DEF Dropped
    <3> QED
      BY <3>1, <3>2
  <2> QED
    BY <1>6, <2>1, <2>4 DEF RelayReply, Touch, gcVars
<1>7. ASSUME ClaimVerify PROVE TypeOK'
  <2> DEFINE found == LookupByUsername(cur, pkt.user)
             verdict == ClaimVerdict(pkt, found)
  <2>1. CASE verdict = "claimOK"
    BY <1>7, <2>1, LookupType, TableTypeUnchanged DEF ClaimVerify
  <2>2. CASE verdict # "claimOK"
    <3>1. Finish(verdict, {}, NoAddr) /\ UNCHANGED tableVars
      BY <1>7, <2>2 DEF ClaimVerify
    <3>2. verdict \in Rejected \cup Dropped
      BY <2>2, ClaimVerdictType
    <3> HIDE DEF verdict
    <3> QED
      BY <3>1, <3>2, FinishType, TableTypeUnchanged
  <2> QED
    BY <2>1, <2>2
<1>8. ASSUME ClaimLearn PROVE TypeOK'
  <2>1. PICK s \in cand :
          ClaimBind(s, pkt.src) /\ Finish("claimOK", {s}, RelayTarget(info[s]))
    BY <1>8 DEF ClaimLearn
  <2>2. pkt.src \in Addr
    BY <1>8, PacketAssumption DEF ClaimLearn, RoutingInv, PacketInHand
  <2>3. s \in 1 .. born /\ s \in Session
    BY <2>1, ConstAssumption DEF ClaimBind, RoutingInv, SessionsWellFormed
  <2>4. RelayTarget(info[s]) \in Addr
    BY <2>3, RelayTargetIsAddr DEF RoutingInv, SessionsWellFormed
  <2>5. /\ muxPc' = "read" /\ pkt' = NoPacket /\ cand' = {}
        /\ snap' \in Snapshot /\ out' \in Outcome
    BY <2>1, <2>3, <2>4, FinishType DEF Relayed
  <2>6. sessions' \in SUBSET Session
    BY <2>1 DEF ClaimBind
  <2>7. cur' \in Snapshot
    BY <2>1, <2>6, PublishExact DEF ClaimBind
  <2> QED
    BY <2>1, <2>2, <2>3, <2>5, <2>7 DEF ClaimBind, Touch, gcVars
<1>9. ASSUME ClaimRefuse PROVE TypeOK'
  <2>1. \E v \in {"claimNoSession", "claimTooManyAddrs"} : Finish(v, {}, NoAddr)
    BY <1>9 DEF ClaimRefuse
  <2> QED
    BY <1>9, <2>1, FinishType, TableTypeUnchanged DEF ClaimRefuse, Rejected, Dropped
<1>10. ASSUME UNCHANGED vars PROVE TypeOK'
  BY <1>10 DEF vars, tableVars, muxVars
<1> QED
  BY <1>1, <1>2, <1>3, <1>4, <1>5, <1>6, <1>7, <1>8, <1>9, <1>10
  DEF Next, MuxStep, ClaimLocked

-----------------------------------------------------------------------------
(* Routing *)

LEMMA RoutingInit == Init => RoutingInv
<1> SUFFICES ASSUME Init PROVE RoutingInv
  OBVIOUS
<1> USE DEF Init, TableInit, MuxInit
<1>1. SessionsWellFormed /\ AddressesDisjoint
  BY DEF SessionsWellFormed, AddressesDisjoint
<1>2. /\ \A u \in Ufrag : cur.byUfrag[u] = {}
      /\ \A p \in Port : cur.byBdsPort[p] = {}
      /\ \A a \in Addr : cur.byClient[a] = {}
  BY DEF EmptySnapshot
<1>3. Sound(cur) /\ KnowsClients(cur) /\ KnowsUfrags /\ Apart(cur) /\ Exact
  BY <1>2 DEF Sound, KnowsClients, KnowsUfrags, Apart, Exact, Indexes, AtMostOne, OfUfrag, OfPort,
     OfClient
<1>4. PacketInHand
  BY DEF PacketInHand
<1> QED
  BY <1>1, <1>3, <1>4 DEF RoutingInv

(* A step of the table that creates no session and learns no address keeps    *)
(* what is known of the snapshots: sessions may go, but none comes.           *)
LEMMA ShrinkKeepsRouting ==
  ASSUME RoutingInv, UNCHANGED <<born, info, addrs>>, sessions' \subseteq sessions
  PROVE  /\ AddressesDisjoint'
         /\ sessions' \subseteq 1 .. born'
         /\ cur' = cur => Sound(cur)' /\ KnowsClients(cur)' /\ KnowsUfrags' /\ Apart(cur)'
         /\ UNCHANGED muxVars => PacketInHand'
<1>1. AddressesDisjoint' /\ sessions' \subseteq 1 .. born'
  BY DEF RoutingInv, AddressesDisjoint, SessionsWellFormed
<1>2. ASSUME cur' = cur
      PROVE  Sound(cur)' /\ KnowsClients(cur)' /\ KnowsUfrags' /\ Apart(cur)'
  <2>1. Sound(cur)'
    BY <1>2 DEF RoutingInv, Sound
  <2>2. KnowsClients(cur)' /\ KnowsUfrags' /\ Apart(cur)'
    BY <1>2 DEF RoutingInv, KnowsClients, KnowsUfrags, Apart, OfClient, OfUfrag
  <2> QED
    BY <2>1, <2>2
<1>3. ASSUME UNCHANGED muxVars PROVE PacketInHand'
  <2> USE <1>3 DEF RoutingInv, PacketInHand, muxVars
  <2>1. (muxPc # "read" => pkt \in Packet /\ Sound(snap))'
    BY DEF Sound
  <2>2. (muxPc = "relay" => KnowsClients(snap) /\ Apart(snap))'
    BY DEF KnowsClients, Apart, OfClient
  <2>3. (muxPc = "claim" => /\ ReplySession = {}
                            /\ \A s \in sessions : pkt.src \notin addrs[s]
                            /\ \A s \in cand : Verified(s))'
    BY DEF ReplySession, Verified
  <2> QED
    BY <2>1, <2>2, <2>3
<1> QED
  BY <1>1, <1>2, <1>3

LEMMA SameTableSameIndex ==
  ASSUME Exact, UNCHANGED <<sessions, info, addrs, cur>>
  PROVE  Exact'
BY DEF Exact

(* register: the new session has learned nothing, and an earlier snapshot      *)
(* says nothing of it.                                                        *)
LEMMA RegisterRouting ==
  ASSUME TypeOK, RoutingInv, SomeRegister
  PROVE  RoutingInv'
<1>1. PICK x \in Exchange : Register(x) /\ UNCHANGED muxVars
  BY DEF SomeRegister
<1> DEFINE new == born + 1
<1>2. /\ new \in Session /\ new \notin 1 .. born /\ 1 .. born' = (1 .. born) \cup {new}
      /\ born' = new /\ sessions' = sessions \cup {new}
      /\ info' = [info EXCEPT ![new] = x]
      /\ UNCHANGED <<addrs, clientAddr, gcExpired, gcPc>>
      /\ LockFree /\ Publish
  BY <1>1, ConstAssumption DEF Register, TypeOK, Session, gcVars
<1>3. addrs[new] = {}
  BY <1>2, ConstAssumption DEF RoutingInv, SessionsWellFormed, TypeOK, Session
<1>4. \A s \in 1 .. born : info'[s] = info[s] /\ s \in Session
  BY <1>2, ConstAssumption DEF TypeOK, Session
<1>5. SessionsWellFormed'
  <2>1. (sessions \subseteq 1 .. born /\ \A s \in 1 .. born : info[s] \in Exchange)'
    BY <1>2, <1>4 DEF RoutingInv, SessionsWellFormed, TypeOK
  <2>2. (/\ \A s \in Session : s > born => addrs[s] = {}
         /\ \A s \in Session : clientAddr[s] # NoAddr => clientAddr[s] \in addrs[s])'
    BY <1>2, ConstAssumption DEF RoutingInv, SessionsWellFormed, TypeOK, Session
  <2> QED
    BY <2>1, <2>2 DEF SessionsWellFormed
<1>6. AddressesDisjoint'
  BY <1>2, <1>3 DEF RoutingInv, AddressesDisjoint
<1>7. Sound(cur)' /\ KnowsClients(cur)' /\ KnowsUfrags' /\ Apart(cur)' /\ Exact'
  BY <1>2, <1>5, <1>6, PublishRoutes DEF SessionsWellFormed, TypeOK
<1>8. PacketInHand'
  <2> UNCHANGED <<muxPc, pkt, snap, cand>>
    BY <1>1 DEF muxVars
  <2>1. (muxPc # "read" => pkt \in Packet /\ Sound(snap))'
    BY <1>2, <1>4 DEF RoutingInv, PacketInHand, Sound, OfUfrag, OfPort, OfClient
  <2>2. ASSUME muxPc = "relay" PROVE (KnowsClients(snap) /\ Apart(snap))'
    <3> KnowsClients(snap) /\ Apart(snap)
      BY <2>2 DEF RoutingInv, PacketInHand
    <3>1. KnowsClients(snap)'
      BY <1>2, <1>3 DEF KnowsClients, OfClient
    <3>2. Apart(snap)'
      BY <1>2, <1>3 DEF Apart
    <3> QED
      BY <3>1, <3>2
  <2>3. ASSUME muxPc = "claim"
        PROVE  (/\ ReplySession = {}
                /\ \A s \in sessions : pkt.src \notin addrs[s]
                /\ \A s \in cand : Verified(s))'
    BY <1>2, <1>3, <1>4, <2>3 DEF RoutingInv, PacketInHand, ReplySession, Verified
  <2> QED
    BY <2>1, <2>2, <2>3 DEF PacketInHand
<1> QED
  BY <1>5, <1>6, <1>7, <1>8 DEF RoutingInv

LEMMA SameSessionsWellFormed ==
  ASSUME RoutingInv, UNCHANGED <<born, info, addrs, clientAddr>>,
         sessions' \subseteq sessions
  PROVE  SessionsWellFormed'
BY DEF RoutingInv, SessionsWellFormed

(* gc: between a deletion and the publication the snapshot is merely sound. *)
LEMMA GcRouting ==
  ASSUME TypeOK, RoutingInv, GcStep
  PROVE  RoutingInv'
<1>1. /\ UNCHANGED <<born, info, addrs, clientAddr, muxVars>>
      /\ sessions' \subseteq sessions
  BY DEF GcStep, GcLock, GcLook, GcDelete, GcUnlock
<1>2. SessionsWellFormed' /\ AddressesDisjoint' /\ PacketInHand'
  BY <1>1, ShrinkKeepsRouting, SameSessionsWellFormed
<1>3. /\ Sound(cur)' /\ KnowsClients(cur)' /\ KnowsUfrags' /\ Apart(cur)'
      /\ (LockFree \/ ~gcExpired => Exact)'
  <2>1. CASE GcLock
    <3>1. Exact /\ UNCHANGED <<cur, sessions>>
      BY <2>1 DEF GcLock, RoutingInv
    <3> QED
      BY <1>1, <3>1, ShrinkKeepsRouting, SameTableSameIndex
  <2>2. ASSUME NEW s \in Session, GcLook(s)
        PROVE  /\ Sound(cur)' /\ KnowsClients(cur)' /\ KnowsUfrags' /\ Apart(cur)'
               /\ (LockFree \/ ~gcExpired => Exact)'
    <3>1. UNCHANGED <<cur, sessions, gcPc, gcExpired>>
      BY <2>2 DEF GcLook
    <3>2. (LockFree \/ ~gcExpired => Exact)'
      BY <1>1, <3>1, SameTableSameIndex DEF RoutingInv, LockFree
    <3> QED
      BY <1>1, <3>1, <3>2, ShrinkKeepsRouting
  <2>3. CASE GcDelete
    <3>1. gcPc' = "scan" /\ gcExpired' = TRUE /\ cur' = cur
      BY <2>3 DEF GcDelete
    <3> QED
      BY <1>1, <3>1, ShrinkKeepsRouting DEF LockFree
  <2>4. CASE GcUnlock
    <3>1. CASE gcExpired
      BY <1>1, <1>2, <2>4, <3>1, PublishRoutes
      DEF GcUnlock, TypeOK, SessionsWellFormed
    <3>2. CASE ~gcExpired
      <4>1. Exact /\ UNCHANGED <<cur, sessions>>
        BY <2>4, <3>2 DEF GcUnlock, RoutingInv
      <4> QED
        BY <1>1, <4>1, ShrinkKeepsRouting, SameTableSameIndex
    <3> QED
      BY <3>1, <3>2
  <2> QED
    BY <2>1, <2>2, <2>3, <2>4 DEF GcStep
<1> QED
  BY <1>2, <1>3 DEF RoutingInv

(* A step that leaves the sessions and what they learned as they are: the mux *)
(* goroutine has only its own variables, or the latest client, to change.     *)
LEMMA SameTableRouting ==
  ASSUME RoutingInv, UNCHANGED <<born, sessions, info, addrs, cur, gcPc, gcExpired>>,
         SessionsWellFormed', PacketInHand'
  PROVE  RoutingInv'
<1>1. (LockFree \/ ~gcExpired => Exact)'
  BY SameTableSameIndex DEF RoutingInv, LockFree
<1> QED
  BY <1>1, ShrinkKeepsRouting DEF RoutingInv

LEMMA QuietenRouting ==
  ASSUME RoutingInv, Quieten
  PROVE  RoutingInv'
<1>1. UNCHANGED <<born, sessions, info, addrs, clientAddr, cur, gcPc, gcExpired, muxVars>>
  BY DEF Quieten, GoQuiet, gcVars
<1> QED
  BY <1>1, ShrinkKeepsRouting, SameSessionsWellFormed, SameTableRouting

(* The snapshot in hand starts as the published one. *)
LEMMA ReceiveRouting ==
  ASSUME RoutingInv, SomeReceive
  PROVE  RoutingInv'
<1>1. PICK p \in Packet : Receive(p)
  BY DEF SomeReceive
<1>2. UNCHANGED <<born, sessions, info, addrs, clientAddr, cur, gcPc, gcExpired>>
  BY <1>1 DEF Receive, tableVars
<1>3. SessionsWellFormed' /\ Sound(cur)' /\ KnowsClients(cur)' /\ Apart(cur)'
  BY <1>2, ShrinkKeepsRouting, SameSessionsWellFormed
<1>4. muxPc' = "relay" /\ pkt' = p /\ snap' = cur'
  BY <1>1, <1>2 DEF Receive
<1>5. Sound(snap)' /\ KnowsClients(snap)' /\ Apart(snap)'
  BY <1>3, <1>4 DEF Sound, KnowsClients, Apart
<1>6. PacketInHand'
  BY <1>4, <1>5 DEF PacketInHand
<1> QED
  BY <1>2, <1>3, <1>6, SameTableRouting

LEMMA RelayKnownRouting ==
  ASSUME TypeOK, RoutingInv, RelayKnown
  PROVE  RoutingInv'
<1>1. PICK s \in KnownSession :
        clientAddr' = [clientAddr EXCEPT ![s] = pkt.src] /\ muxPc' = "read"
  BY DEF RelayKnown, Finish
<1>2. UNCHANGED <<born, sessions, info, addrs, cur, gcPc, gcExpired>> /\ muxPc = "relay"
  BY DEF RelayKnown, gcVars
<1>3. pkt.src \in Addr
  BY <1>2, PacketAssumption DEF RoutingInv, PacketInHand
<1>4. pkt.src \in addrs[s]
  BY <1>2, <1>3 DEF RoutingInv, PacketInHand, Sound, KnownSession, OfClient
<1>5. SessionsWellFormed'
  BY <1>1, <1>2, <1>4 DEF RoutingInv, SessionsWellFormed, TypeOK
<1>6. PacketInHand'
  BY <1>1 DEF PacketInHand
<1> QED
  BY <1>2, <1>5, <1>6, SameTableRouting

LEMMA RelayReplyRouting ==
  ASSUME RoutingInv, RelayReply
  PROVE  RoutingInv'
<1>1. /\ UNCHANGED <<born, sessions, info, addrs, clientAddr, cur, gcPc, gcExpired>>
      /\ muxPc' = "read"
  BY DEF RelayReply, Finish, gcVars
<1>2. PacketInHand'
  BY <1>1 DEF PacketInHand
<1> QED
  BY <1>1, <1>2, SameSessionsWellFormed, SameTableRouting

(* The session a USERNAME leads to, if any, is one and holds a part of it. *)
LEMMA LookupFinds ==
  ASSUME NEW sn, Sound(sn), NEW u \in Seq(Ufrag \cup {NoUfrag}),
         NEW s \in LookupByUsername(sn, u)
  PROVE  /\ s \in 1 .. born
         /\ \E i \in DOMAIN u : u[i] \in Ufrag \cap {info[s].cufrag, info[s].sufrag}
         /\ LookupByUsername(sn, u) = {s}
<1> DEFINE hits  == {i \in DOMAIN u : u[i] \in Ufrag /\ sn.byUfrag[u[i]] # {}}
           first == {i \in hits : \A j \in hits : i <= j}
<1>1. LookupByUsername(sn, u) = UNION {sn.byUfrag[u[i]] : i \in first}
  BY DEF LookupByUsername
<1>2. PICK i \in first : s \in sn.byUfrag[u[i]]
  BY <1>1
<1>3. \A j \in first : j = i
  <2>1. hits \subseteq Nat
    OBVIOUS
  <2> QED
    BY <2>1
<1>4. u[i] \in Ufrag
  BY <1>2
<1>5. s \in OfUfrag(1 .. born, info, u[i])
  BY <1>2, <1>4 DEF Sound
<1>6. sn.byUfrag[u[i]] = {s}
  BY <1>2, <1>4 DEF Sound, AtMostOne
<1> QED
  BY <1>1, <1>2, <1>3, <1>4, <1>5, <1>6 DEF OfUfrag

(* A source that is not in the snapshot in hand is in no live session.        *)
LEMMA SourceUnknown ==
  ASSUME RoutingInv, muxPc = "relay", KnownSession = {}
  PROVE  \A s \in sessions : pkt.src \notin addrs[s]
<1>1. KnowsClients(snap) /\ pkt.src \in Addr
  BY PacketAssumption DEF RoutingInv, PacketInHand
<1>2. \A s \in OfClient(sessions, addrs, pkt.src) : KnownSession = {s}
  BY <1>1 DEF KnowsClients, KnownSession
<1> QED
  BY <1>2 DEF OfClient

(* The MESSAGE-INTEGRITY check is made against the session it is then learned *)
(* for, and against it alone.                                                 *)
LEMMA ClaimVerifyRouting ==
  ASSUME TypeOK, RoutingInv, ClaimVerify
  PROVE  RoutingInv'
<1> DEFINE found == LookupByUsername(cur, pkt.user)
<1>1. /\ muxPc = "relay" /\ KnownSession = {} /\ ReplySession = {}
      /\ UNCHANGED tableVars
  BY DEF ClaimVerify
<1>2. pkt \in Packet /\ pkt.src \in Addr /\ pkt.user \in Seq(Ufrag \cup {NoUfrag})
  BY <1>1, PacketAssumption DEF RoutingInv, PacketInHand
<1>3. UNCHANGED <<born, sessions, info, addrs, clientAddr, cur, gcPc, gcExpired>>
  BY <1>1 DEF tableVars
<1>4. PacketInHand'
  <2>1. CASE ClaimVerdict(pkt, found) = "claimOK"
    <3>1. muxPc' = "claim" /\ cand' = found /\ UNCHANGED <<pkt, snap>>
      BY <2>1 DEF ClaimVerify
    <3>2. \A s \in sessions : pkt.src \notin addrs[s]
      BY <1>1, SourceUnknown
    <3>3. ASSUME NEW s \in found PROVE Verified(s)
      <4>1. /\ s \in 1 .. born /\ found = {s}
            /\ \E i \in DOMAIN pkt.user :
                 pkt.user[i] \in Ufrag \cap {info[s].cufrag, info[s].sufrag}
        BY <1>2, <3>3, LookupFinds DEF RoutingInv
      <4>2. (CHOOSE t \in found : TRUE) = s
        BY <4>1
      <4>3. IF info[s].pwd = NoPwd THEN Insecure ELSE pkt.mic = info[s].pwd
        <5> HIDE DEF found
        <5> QED
          BY <2>1, <4>1, <4>2 DEF ClaimVerdict
      <4> QED
        BY <4>1, <4>3 DEF Verified
    <3>4. (/\ ReplySession = {}
           /\ \A s \in sessions : pkt.src \notin addrs[s]
           /\ \A s \in cand : Verified(s))'
      BY <1>1, <1>3, <3>1, <3>2, <3>3 DEF ReplySession, Verified
    <3>5. Sound(snap)'
      BY <1>1, <1>3, <3>1 DEF RoutingInv, PacketInHand, Sound
    <3> QED
      BY <1>2, <3>1, <3>4, <3>5 DEF PacketInHand
  <2>2. CASE ClaimVerdict(pkt, found) # "claimOK"
    BY <2>2 DEF ClaimVerify, Finish, PacketInHand
  <2> QED
    BY <2>1, <2>2
<1> QED
  BY <1>3, <1>4, SameSessionsWellFormed, SameTableRouting

(* An address is learned when no live session holds it. *)
LEMMA ClaimLearnRouting ==
  ASSUME TypeOK, RoutingInv, ClaimLearn
  PROVE  RoutingInv'
<1>1. PICK s \in cand : ClaimBind(s, pkt.src) /\ muxPc' = "read"
  BY DEF ClaimLearn, Finish
<1>2. /\ muxPc = "claim" /\ LockFree /\ s \in sessions
      /\ UNCHANGED <<born, sessions, info, gcPc, gcExpired>>
      /\ addrs' = [addrs EXCEPT ![s] = @ \cup {pkt.src}]
      /\ clientAddr' = [clientAddr EXCEPT ![s] = pkt.src]
  BY <1>1 DEF ClaimLearn, ClaimBind, gcVars
<1>3. \A t \in sessions : pkt.src \notin addrs[t]
  BY <1>2 DEF RoutingInv, PacketInHand
<1>4. Publish
  BY <1>1, <1>2, <1>3 DEF ClaimBind
<1>5. SessionsWellFormed'
  BY <1>2, ConstAssumption DEF RoutingInv, SessionsWellFormed, TypeOK, Session
<1>6. AddressesDisjoint'
  BY <1>2, <1>3 DEF RoutingInv, AddressesDisjoint, TypeOK
<1>7. Sound(cur)' /\ KnowsClients(cur)' /\ KnowsUfrags' /\ Apart(cur)' /\ Exact'
  BY <1>2, <1>4, <1>5, <1>6, PublishRoutes DEF SessionsWellFormed, TypeOK
<1>8. PacketInHand'
  BY <1>1 DEF PacketInHand
<1> QED
  BY <1>5, <1>6, <1>7, <1>8 DEF RoutingInv

LEMMA ClaimRefuseRouting ==
  ASSUME RoutingInv, ClaimRefuse
  PROVE  RoutingInv'
<1>1. /\ UNCHANGED <<born, sessions, info, addrs, clientAddr, cur, gcPc, gcExpired>>
      /\ muxPc' = "read"
  BY DEF ClaimRefuse, Finish, tableVars
<1>2. PacketInHand'
  BY <1>1 DEF PacketInHand
<1> QED
  BY <1>1, <1>2, SameSessionsWellFormed, SameTableRouting

LEMMA RoutingStep ==
  ASSUME TypeOK, RoutingInv, [Next]_vars
  PROVE  RoutingInv'
<1>1. ASSUME UNCHANGED vars PROVE RoutingInv'
  <2>1. UNCHANGED <<born, sessions, info, addrs, clientAddr, cur, gcPc, gcExpired, muxVars>>
    BY <1>1 DEF vars, tableVars
  <2> QED
    BY <2>1, ShrinkKeepsRouting, SameSessionsWellFormed, SameTableRouting
<1> QED
  BY <1>1, RegisterRouting, GcRouting, QuietenRouting, ReceiveRouting, RelayKnownRouting,
     RelayReplyRouting, ClaimVerifyRouting, ClaimLearnRouting, ClaimRefuseRouting
  DEF Next, MuxStep, ClaimLocked

-----------------------------------------------------------------------------
(* The theorems *)

(* relayPacket, register and gc keep every variable in its type and every      *)
(* routing snapshot sound, however their steps interleave.                    *)
THEOREM Invariance == Spec => [](TypeOK /\ RoutingInv)
<1>1. Init => TypeOK /\ RoutingInv
  BY TypeInit, RoutingInit
<1>2. TypeOK /\ RoutingInv /\ [Next]_vars => (TypeOK /\ RoutingInv)'
  BY TypeStep, RoutingStep
<1> QED
  BY <1>1, <1>2, PTL DEF Spec

(* session.go, mux.go: types; no packet is ever written to a nil address. *)
THEOREM TypeCorrect == Spec => []TypeOK
BY Invariance, PTL

(* session.go:34-36: the lock-free forwarding path never misroutes. *)
THEOREM RoutingCorrect == Spec => []RoutingInv
BY Invariance, PTL

(* claim: a client address belongs to at most one live session. *)
THEOREM AddressesAreDisjoint == Spec => []AddressesDisjoint
<1>1. RoutingInv => AddressesDisjoint
  BY DEF RoutingInv
<1> QED
  BY <1>1, RoutingCorrect, PTL

(* rebuildLocked: the snapshot published when the lock is free indexes exactly *)
(* the live sessions.                                                         *)
THEOREM SnapshotIsExact == Spec => []SnapshotExact
<1>1. RoutingInv => SnapshotExact
  BY DEF RoutingInv, SnapshotExact
<1> QED
  BY <1>1, RoutingCorrect, PTL

(* claim: what relayPacket found in its snapshot, that no live session knows   *)
(* the source, still holds when claim learns it.                              *)
THEOREM ClaimsComeFirst == Spec => []ClaimsAreFirst
<1>1. RoutingInv => ClaimsAreFirst
  BY DEF RoutingInv, PacketInHand, ClaimsAreFirst
<1> QED
  BY <1>1, RoutingCorrect, PTL

(* claim: an address is learned only by the live session the packet names, and *)
(* whose ice-pwd the packet was made with.                                    *)
THEOREM ClaimsAreVerified == Spec => LearnsOnlyVerified
<1> DEFINE A == \A s \in Session : \A a \in addrs'[s] \ addrs[s] :
                  /\ s \in sessions /\ a = pkt.src
                  /\ \E i \in DOMAIN pkt.user :
                       pkt.user[i] \in {info[s].cufrag, info[s].sufrag}
                  /\ IF info[s].pwd = NoPwd THEN Insecure ELSE pkt.mic = info[s].pwd
<1>1. ASSUME TypeOK, RoutingInv, Next PROVE A
  <2>1. CASE addrs' = addrs
    BY <2>1
  <2>2. CASE ClaimLearn
    <3>1. PICK t \in cand : ClaimBind(t, pkt.src) /\ muxPc = "claim"
      BY <2>2 DEF ClaimLearn
    <3>2. Verified(t)
      BY <1>1, <3>1 DEF RoutingInv, PacketInHand
    <3>3. \A s \in Session : \A a \in addrs'[s] \ addrs[s] : s = t /\ a = pkt.src
      BY <1>1, <3>1 DEF ClaimBind, TypeOK
    <3>4. t \in sessions
      BY <3>1 DEF ClaimBind
    <3> QED
      BY <3>2, <3>3, <3>4 DEF Verified
  <2>3. Next => addrs' = addrs \/ ClaimLearn
    BY DEF Next, SomeRegister, Register, GcStep, GcLock, GcLook, GcDelete, GcUnlock,
       Quieten, GoQuiet, SomeReceive, Receive, tableVars, MuxStep, RelayKnown, RelayReply,
       ClaimVerify, ClaimLocked, ClaimRefuse
  <2> QED
    BY <1>1, <2>1, <2>2, <2>3
<1>2. TypeOK /\ RoutingInv /\ [Next]_vars => [A]_vars
  BY <1>1
<1> QED
  BY <1>2, Invariance, PTL DEF Spec, LearnsOnlyVerified

(* relayPacket returns from one of five places. *)
LEMMA FinishingSteps ==
  ASSUME Next, Finishing
  PROVE  RelayKnown \/ RelayReply \/ ClaimVerify \/ ClaimLearn \/ ClaimRefuse
BY DEF Next, Finishing, MuxStep, ClaimLocked, SomeRegister, GcStep, Quieten, SomeReceive,
   Receive, muxVars

(* The reverse path: what relayPacket writes, and for whom. *)
LEMMA ReplyStep ==
  ASSUME TypeOK, RoutingInv, RelayReply
  PROVE  \E s \in ReplySession :
           /\ s \in 1 .. born /\ PortOf[pkt.src] \in BdsPorts(info[s])
           /\ UNCHANGED addrs
           /\ out'.sess = {s}
           /\ IF clientAddr[s] # NoAddr
                THEN out'.verdict = "reply" /\ out'.to = clientAddr[s] /\ out'.to \in addrs[s]
                ELSE out'.verdict = "noClientYet"
           /\ \A t \in sessions : s # t => addrs[s] \cap addrs[t] = {}
<1>1. PICK s \in ReplySession :
        IF clientAddr[s] # NoAddr
          THEN Finish("reply", {s}, clientAddr[s])
          ELSE Finish("noClientYet", {s}, NoAddr)
  BY DEF RelayReply
<1>2. muxPc = "relay" /\ UNCHANGED addrs
  BY DEF RelayReply
<1>3. Sound(snap) /\ Apart(snap) /\ pkt.src \in Addr
  BY <1>2, PacketAssumption DEF RoutingInv, PacketInHand
<1>4. PortOf[pkt.src] \in Port /\ s \in snap.byBdsPort[PortOf[pkt.src]]
  BY <1>1, <1>3, ConstAssumption DEF ReplySession
<1>5. s \in 1 .. born /\ PortOf[pkt.src] \in BdsPorts(info[s])
  BY <1>3, <1>4 DEF Sound, OfPort
<1>6. s \in Session /\ (clientAddr[s] # NoAddr => clientAddr[s] \in addrs[s])
  BY <1>5, ConstAssumption DEF RoutingInv, SessionsWellFormed, TypeOK, Session
<1>7. \A t \in sessions : s # t => addrs[s] \cap addrs[t] = {}
  BY <1>3, <1>4 DEF Apart
<1> QED
  BY <1>1, <1>2, <1>5, <1>6, <1>7 DEF Finish

(* The forward path: RelayKnown and ClaimLearn. *)
LEMMA ForwardStep ==
  ASSUME TypeOK, RoutingInv, RelayKnown \/ ClaimLearn
  PROVE  \E s \in Session :
           /\ out'.sess = {s} /\ out'.verdict \in Relayed
           /\ pkt.src \in addrs'[s] /\ out'.to = RelayTarget(info[s])
<1>1. CASE RelayKnown
  <2>1. PICK s \in KnownSession : Finish("known", {s}, RelayTarget(info[s]))
    BY <1>1 DEF RelayKnown
  <2>2. Sound(snap) /\ pkt.src \in Addr /\ addrs' = addrs
    BY <1>1, PacketAssumption DEF RelayKnown, RoutingInv, PacketInHand
  <2>3. s \in Session /\ pkt.src \in addrs[s]
    BY <2>2, ConstAssumption DEF KnownSession, Sound, OfClient, TypeOK, Session
  <2> QED
    BY <2>1, <2>2, <2>3 DEF Finish, Relayed
<1>2. CASE ClaimLearn
  <2>1. PICK s \in cand :
          ClaimBind(s, pkt.src) /\ Finish("claimOK", {s}, RelayTarget(info[s]))
    BY <1>2 DEF ClaimLearn
  <2>2. s \in Session /\ pkt.src \in addrs'[s]
    BY <2>1 DEF ClaimBind, TypeOK
  <2> QED
    BY <2>1, <2>2 DEF Finish, Relayed
<1> QED
  BY <1>1, <1>2

(* A packet that is not forwarded is forwarded on nobody's behalf. *)
LEMMA RefuseStep ==
  ASSUME ClaimVerify \/ ClaimRefuse, Finishing
  PROVE  out'.sess = {} /\ out'.verdict \in Rejected \cup Dropped
<1>1. CASE ClaimVerify
  <2> DEFINE found == LookupByUsername(cur, pkt.user)
             verdict == ClaimVerdict(pkt, found)
  <2>1. verdict # "claimOK" /\ Finish(verdict, {}, NoAddr)
    BY <1>1 DEF ClaimVerify, Finishing
  <2>2. verdict \in Rejected \cup Dropped
    BY <2>1, ClaimVerdictType
  <2> HIDE DEF verdict
  <2> QED
    BY <2>1, <2>2 DEF Finish
<1>2. CASE ClaimRefuse
  BY <1>2 DEF ClaimRefuse, Finish, Rejected, Dropped
<1> QED
  BY <1>1, <1>2

(* relayPacket: packets go between the addresses a session has learned and     *)
(* its own BDS sockets.                                                       *)
THEOREM DeliversWithinSession == Spec => DeliveryWithinSession
<1> DEFINE A == Finishing => \A s \in out'.sess :
                  /\ out'.verdict \in Relayed =>
                       pkt.src \in addrs'[s] /\ out'.to = RelayTarget(info[s])
                  /\ out'.verdict = "reply" =>
                       PortOf[pkt.src] \in BdsPorts(info[s]) /\ out'.to \in addrs[s]
<1>1. ASSUME TypeOK, RoutingInv, Next, Finishing PROVE A
  <2>1. CASE RelayKnown \/ ClaimLearn
    BY <1>1, <2>1, ForwardStep DEF Relayed
  <2>2. CASE RelayReply
    BY <1>1, <2>2, ReplyStep DEF Relayed
  <2>3. CASE ClaimVerify \/ ClaimRefuse
    BY <1>1, <2>3, RefuseStep
  <2> QED
    BY <1>1, <2>1, <2>2, <2>3, FinishingSteps
<1>2. TypeOK /\ RoutingInv /\ [Next]_vars => [A]_vars
  BY <1>1
<1> QED
  BY <1>2, Invariance, PTL DEF Spec, DeliveryWithinSession

(* relayPacket, reverse path: no reply reaches a player of another session,    *)
(* however old the snapshot that routed it.                                   *)
THEOREM RepliesDoNotCross == Spec => NoCrosstalk
<1> DEFINE A == Finishing /\ out'.verdict = "reply" =>
                  \A t \in sessions : out'.to \in addrs[t]
                                        => PortOf[pkt.src] \in BdsPorts(info[t])
<1>1. ASSUME TypeOK, RoutingInv, Next, Finishing, out'.verdict = "reply" PROVE A
  <2>1. RelayReply
    BY <1>1, FinishingSteps, ForwardStep, RefuseStep DEF Relayed, Rejected, Dropped
  <2>2. PICK s \in ReplySession :
          /\ PortOf[pkt.src] \in BdsPorts(info[s]) /\ out'.to \in addrs[s]
          /\ \A t \in sessions : s # t => addrs[s] \cap addrs[t] = {}
    BY <1>1, <2>1, ReplyStep
  <2> QED
    BY <2>2
<1>2. TypeOK /\ RoutingInv /\ [Next]_vars => [A]_vars
  BY <1>1
<1> QED
  BY <1>2, Invariance, PTL DEF Spec, NoCrosstalk

(* relayPacket, reverse path: with BDS on the host of the proxy, what its      *)
(* relay targets send is lost only while the client is unknown.               *)
THEOREM RepliesAreNotLost ==
  ASSUME \A x \in Exchange : RelayTarget(x) \in Local
  PROVE  Spec => ReplyNotLost
<1> DEFINE A == Finishing /\ out'.verdict \in Dropped \cup Rejected =>
                  \A s \in snap.byBdsPort[PortOf[pkt.src]] :
                    pkt.src = RelayTarget(info[s]) => clientAddr[s] = NoAddr
<1>1. ASSUME TypeOK, RoutingInv, Next, Finishing, out'.verdict \in Dropped \cup Rejected
      PROVE  A
  <2>1. CASE RelayReply
    <3>1. muxPc = "relay"
      BY <2>1 DEF RelayReply
    <3>2. pkt.src \in Addr /\ PortOf[pkt.src] \in Port /\ Sound(snap)
      BY <3>1, <1>1, PacketAssumption, ConstAssumption DEF RoutingInv, PacketInHand
    <3>3. PICK s \in ReplySession :
            Finish("noClientYet", {s}, NoAddr) /\ clientAddr[s] = NoAddr
      BY <1>1, <2>1 DEF RelayReply, Finish, Rejected, Dropped
    <3>4. \A t \in snap.byBdsPort[PortOf[pkt.src]] : t = s
      BY <3>2 DEF Sound, AtMostOne, ReplySession
    <3> QED
      BY <3>3, <3>4
  <2>2. CASE ClaimVerify \/ ClaimRefuse
    <3>1. /\ ReplySession = {} /\ Sound(snap)
          /\ pkt.src \in Addr /\ PortOf[pkt.src] \in Port
      BY <1>1, <2>2, PacketAssumption, ConstAssumption
      DEF ClaimVerify, ClaimRefuse, RoutingInv, PacketInHand
    <3>2. \A s \in snap.byBdsPort[PortOf[pkt.src]] : info[s] \in Exchange
      BY <1>1, <3>1 DEF Sound, OfPort, RoutingInv, SessionsWellFormed
    <3> QED
      BY <3>1, <3>2 DEF ReplySession
  <2> QED
    BY <1>1, <2>1, <2>2, FinishingSteps, ForwardStep DEF Relayed, Rejected, Dropped
<1>2. TypeOK /\ RoutingInv /\ [Next]_vars => [A]_vars
  BY <1>1
<1> QED
  BY <1>2, Invariance, PTL DEF Spec, ReplyNotLost

-----------------------------------------------------------------------------
(* Limits *)

(* Steps other than register and the first claim of an address add nothing to  *)
(* the sets that are limited.                                                 *)
LEMMA LimitedSteps ==
  ASSUME Next
  PROVE  SomeRegister \/ ClaimLearn \/ (sessions' \subseteq sessions /\ addrs' = addrs)
BY DEF Next, GcStep, GcLock, GcLook, GcDelete, GcUnlock, Quieten, GoQuiet, SomeReceive,
   Receive, tableVars, MuxStep, RelayKnown, RelayReply, ClaimVerify, ClaimLocked, ClaimRefuse

Finite == \A s \in Session : IsFiniteSet(addrs[s])

LEMMA SessionsAreFinite ==
  ASSUME NEW S \in SUBSET Session
  PROVE  IsFiniteSet(S) /\ Cardinality(S) \in Nat
<1>1. IsFiniteSet(Session)
  BY ConstAssumption, FS_Interval DEF Session
<1> QED
  BY <1>1, FS_Subset, FS_CardinalityType

LEMMA LimitsInvariance == Spec => [](WithinLimits /\ Finite)
<1>1. Init => WithinLimits /\ Finite
  BY FS_EmptySet, ConstAssumption DEF Init, TableInit, WithinLimits, Finite
<1>2. ASSUME TypeOK, WithinLimits, Finite, [Next]_vars PROVE WithinLimits' /\ Finite'
  <2>1. CASE SomeRegister
    <3>1. PICK x \in Exchange : Register(x)
      BY <2>1 DEF SomeRegister
    <3>2. /\ sessions' = sessions \cup {born + 1} /\ addrs' = addrs
          /\ Cardinality(sessions) < MaxSessions
      BY <3>1 DEF Register
    <3>3. IsFiniteSet(sessions) /\ Cardinality(sessions) \in Nat
      BY <1>2, SessionsAreFinite DEF TypeOK
    <3>4. Cardinality(sessions') \in {Cardinality(sessions), Cardinality(sessions) + 1}
      BY <3>2, <3>3, FS_AddElement
    <3>5. Cardinality(sessions') <= MaxSessions
      BY <3>2, <3>3, <3>4, ConstAssumption
    <3> QED
      BY <1>2, <3>2, <3>5 DEF WithinLimits, Finite
  <2>2. CASE ClaimLearn
    <3>1. PICK s \in cand : ClaimBind(s, pkt.src)
      BY <2>2 DEF ClaimLearn
    <3>2. /\ s \in Session /\ sessions' = sessions /\ ~TooManyAddrs(s, pkt.src)
          /\ addrs' = [addrs EXCEPT ![s] = addrs[s] \cup {pkt.src}]
      BY <1>2, <3>1 DEF ClaimBind, TypeOK
    <3>3. addrs'[s] = addrs[s] \cup {pkt.src} /\ \A t \in Session \ {s} : addrs'[t] = addrs[t]
      BY <1>2, <3>2 DEF TypeOK
    <3>4. IsFiniteSet(addrs[s]) /\ Cardinality(addrs[s]) \in Nat
      BY <1>2, <3>2, FS_CardinalityType DEF Finite
    <3>5. /\ IsFiniteSet(addrs'[s])
          /\ Cardinality(addrs'[s]) =
               IF pkt.src \in addrs[s] THEN Cardinality(addrs[s]) ELSE Cardinality(addrs[s]) + 1
      BY <3>3, <3>4, FS_AddElement
    <3>6. Cardinality(addrs'[s]) <= MaxAddrs
      BY <1>2, <3>2, <3>4, <3>5, ConstAssumption DEF TooManyAddrs, WithinLimits
    <3> QED
      BY <1>2, <3>2, <3>3, <3>5, <3>6 DEF WithinLimits, Finite
  <2>3. CASE sessions' \subseteq sessions /\ addrs' = addrs
    <3>1. IsFiniteSet(sessions) /\ Cardinality(sessions) \in Nat
      BY <1>2, SessionsAreFinite DEF TypeOK
    <3>2. Cardinality(sessions') <= Cardinality(sessions) /\ Cardinality(sessions') \in Nat
      BY <2>3, <3>1, FS_Subset, FS_CardinalityType
    <3>3. Cardinality(sessions') <= MaxSessions
      BY <1>2, <3>1, <3>2, ConstAssumption DEF WithinLimits
    <3> QED
      BY <1>2, <2>3, <3>3 DEF WithinLimits, Finite
  <2>4. CASE UNCHANGED vars
    BY <1>2, <2>4 DEF vars, tableVars, WithinLimits, Finite
  <2> QED
    BY <1>2, <2>1, <2>2, <2>3, <2>4, LimitedSteps
<1> QED
  BY <1>1, <1>2, TypeCorrect, PTL DEF Spec

(* register, claim: len(t.sessions) <= t.maxSessions and len(s.addrs) <=       *)
(* t.maxAddrs, whatever handlers, gc and the mux do at the same time.         *)
THEOREM LimitsHold == Spec => []WithinLimits
BY LimitsInvariance, PTL

-----------------------------------------------------------------------------
(* Admission *)

(* signaling.go registers what BDS answers, and BDS draws ufrag and password   *)
(* anew for every answer, as ICE agents do.                                   *)
FreshCredentials ==
  /\ NoMic # NoPwd
  /\ \A x \in Exchange : x.sufrag \in Ufrag /\ x.pwd \in Pwd
  /\ \A x, y \in Exchange : x # y =>
       /\ x.pwd # y.pwd
       /\ \A u \in Ufrag : ~(u \in {x.cufrag, x.sufrag} /\ u \in {y.cufrag, y.sufrag})

NoneTwice == \A s, t \in 1 .. born : info[s] = info[t] => s = t

LEMMA NoneTwiceStep ==
  ASSUME TypeOK, NoneTwice, [Next]_vars
  PROVE  NoneTwice'
<1>1. CASE SomeRegister
  <2>1. PICK x \in Exchange \ {info[s] : s \in 1 .. born} : Register(x)
    BY <1>1 DEF SomeRegister
  <2>2. /\ born + 1 \in Session /\ born' = born + 1 /\ born \in Nat
        /\ info' = [info EXCEPT ![born + 1] = x]
    BY <2>1, ConstAssumption DEF Register, TypeOK
  <2>3. /\ info'[born + 1] = x
        /\ \A s \in 1 .. born : info'[s] = info[s] /\ info'[s] # x
    BY <2>1, <2>2, ConstAssumption DEF TypeOK, Session
  <2> QED
    BY <2>2, <2>3 DEF NoneTwice
<1>2. CASE UNCHANGED <<born, info>>
  BY <1>2 DEF NoneTwice
<1>3. [Next]_vars => SomeRegister \/ UNCHANGED <<born, info>>
  BY DEF Next, GcStep, GcLock, GcLook, GcDelete, GcUnlock, Quieten, GoQuiet, SomeReceive,
     Receive, MuxStep, RelayKnown, RelayReply, ClaimVerify, ClaimLocked, ClaimLearn,
     ClaimBind, ClaimRefuse, vars, tableVars
<1> QED
  BY <1>1, <1>2, <1>3

(* A check leads claim to the session it is a check of ... *)
LEMMA CheckLocates ==
  ASSUME TypeOK, RoutingInv, NoneTwice, FreshCredentials, muxPc = "relay",
         NEW s \in sessions, CheckOf(s)
  PROVE  /\ LookupByUsername(cur, pkt.user) = {s}
         /\ ClaimVerdict(pkt, LookupByUsername(cur, pkt.user)) = "claimOK"
<1>1. /\ s \in 1 .. born /\ info[s] \in Exchange
      /\ pkt \in Packet /\ pkt.user \in Seq(Ufrag \cup {NoUfrag}) /\ pkt.mic \in Pwd \cup {NoMic}
  BY PacketAssumption DEF RoutingInv, SessionsWellFormed, PacketInHand
<1>2. 1 \in DOMAIN pkt.user /\ pkt.user[1] \in Ufrag /\ pkt.user[1] = info[s].sufrag
  BY <1>1 DEF CheckOf, FreshCredentials
<1>3. cur.byUfrag[pkt.user[1]] = {s}
  <2>1. cur.byUfrag[pkt.user[1]] # {}
    BY <1>2 DEF RoutingInv, KnowsUfrags, OfUfrag
  <2>2. cur.byUfrag[pkt.user[1]] \subseteq OfUfrag(1 .. born, info, pkt.user[1])
    BY <1>2 DEF RoutingInv, Sound
  <2>3. ASSUME NEW t \in 1 .. born, pkt.user[1] \in {info[t].cufrag, info[t].sufrag}
        PROVE  t = s
    <3>1. info[t] \in Exchange
      BY DEF RoutingInv, SessionsWellFormed
    <3>2. info[t] = info[s]
      BY <1>1, <1>2, <2>3, <3>1 DEF FreshCredentials
    <3> QED
      BY <1>1, <3>2 DEF NoneTwice
  <2> QED
    BY <2>1, <2>2, <2>3 DEF OfUfrag
<1>4. LookupByUsername(cur, pkt.user) = {s}
  <2> DEFINE hits == {i \in DOMAIN pkt.user :
                        pkt.user[i] \in Ufrag /\ cur.byUfrag[pkt.user[i]] # {}}
  <2>1. DOMAIN pkt.user = 1 .. Len(pkt.user) /\ Len(pkt.user) \in Nat
    BY <1>1
  <2>2. cur.byUfrag[pkt.user[1]] # {}
    BY <1>3
  <2>3. 1 \in hits /\ \A j \in hits : j \in Nat /\ 1 <= j
    BY <1>2, <2>1, <2>2
  <2>4. {i \in hits : \A j \in hits : i <= j} = {1}
    <3> HIDE DEF hits
    <3> QED
      BY <2>3
  <2> QED
    BY <1>3, <2>4 DEF LookupByUsername
<1>5. pkt.user # << >> /\ info[s].pwd # NoPwd /\ pkt.mic = info[s].pwd
  BY <1>1, <1>2, ConstAssumption DEF CheckOf, FreshCredentials
<1>6. (CHOOSE t \in {s} : TRUE) = s
  OBVIOUS
<1> QED
  BY <1>4, <1>5, <1>6 DEF ClaimVerdict

(* ... and the session claim has verified a check against is the one it is a   *)
(* check of, also if that one was registered only a moment ago.                *)
LEMMA CheckVerifies ==
  ASSUME TypeOK, RoutingInv, NoneTwice, FreshCredentials, muxPc = "claim",
         NEW s \in sessions, CheckOf(s), NEW t \in cand
  PROVE  t = s
<1>1. s \in 1 .. born /\ t \in 1 .. born
  BY DEF RoutingInv, SessionsWellFormed, PacketInHand, Verified
<1>2. info[s] \in Exchange /\ info[t] \in Exchange
  BY <1>1 DEF RoutingInv, SessionsWellFormed
<1>3. info[t].pwd # NoPwd
  BY <1>2, ConstAssumption DEF FreshCredentials
<1>4. pkt.mic = info[t].pwd /\ pkt.mic = info[s].pwd
  BY <1>3 DEF RoutingInv, PacketInHand, Verified, CheckOf
<1>5. info[t] = info[s]
  BY <1>2, <1>4 DEF FreshCredentials
<1> QED
  BY <1>1, <1>5 DEF NoneTwice

(* claim: a check of a live session from an address nobody has learned is      *)
(* admitted unless the session has learned its fill, if BDS draws fresh        *)
(* credentials: whatever register, claim and gc do in between.                 *)
THEOREM ValidChecksAreAdmitted ==
  ASSUME FreshCredentials
  PROVE  Spec => ValidCheckAdmitted
<1> DEFINE A == Finishing /\ KnownSession = {} /\ ReplySession = {} =>
                  \A s \in sessions : CheckOf(s) =>
                    \/ out'.verdict = "claimOK" /\ out'.sess = {s}
                    \/ out'.verdict = "claimTooManyAddrs"
<1>1. ASSUME TypeOK, RoutingInv, NoneTwice, Next, Finishing, KnownSession = {},
             ReplySession = {}, NEW s \in sessions, CheckOf(s)
      PROVE  \/ out'.verdict = "claimOK" /\ out'.sess = {s}
             \/ out'.verdict = "claimTooManyAddrs"
  <2>1. CASE RelayKnown \/ RelayReply
    BY <1>1, <2>1 DEF RelayKnown, RelayReply
  <2>2. CASE ClaimVerify
    <3>1. muxPc = "relay"
      BY <2>2 DEF ClaimVerify
    <3>2. muxPc' = "claim"
      BY <1>1, <2>2, <3>1, CheckLocates DEF ClaimVerify
    <3> QED
      BY <1>1, <3>2 DEF Finishing
  <2>3. CASE ClaimLearn
    <3>1. PICK t \in cand : Finish("claimOK", {t}, RelayTarget(info[t])) /\ muxPc = "claim"
      BY <2>3 DEF ClaimLearn
    <3> QED
      BY <1>1, <3>1, CheckVerifies DEF Finish
  <2>4. CASE ClaimRefuse
    <3>1. PICK t \in cand :
            \/ t \notin sessions
            \/ Finish("claimTooManyAddrs", {}, NoAddr)
      BY <2>4 DEF ClaimRefuse
    <3>2. t = s
      BY <1>1, <2>4, CheckVerifies DEF ClaimRefuse
    <3> QED
      BY <3>1, <3>2 DEF Finish
  <2> QED
    BY <1>1, <2>1, <2>2, <2>3, <2>4, FinishingSteps
<1>2. Init => NoneTwice
  BY DEF Init, TableInit, NoneTwice
<1>3. TypeOK /\ NoneTwice /\ [Next]_vars => NoneTwice'
  BY NoneTwiceStep
<1>4. TypeOK /\ RoutingInv /\ NoneTwice /\ [Next]_vars => [A]_vars
  BY <1>1
<1> QED
  BY <1>2, <1>3, <1>4, Invariance, PTL DEF Spec, ValidCheckAdmitted

=============================================================================
