---------------------------- MODULE MuxRefinement ----------------------------
(***************************************************************************)
(* The mux implements AddressBook, for all values of the constants: the      *)
(* initial states of Mux are those of the book, and every step is a step of  *)
(* the book or leaves it as it is, in states where TypeOK and RoutingInv     *)
(* hold and gc still has to look at sessions of the table only.              *)
(***************************************************************************)
EXTENDS MuxProofs

(* gc's loop variable: what it has yet to look at is in the table, and the     *)
(* session it is about to delete is not among it.                             *)
GcScans ==
  /\ LockFree => gcDoomed = {}
  /\ ~LockFree => gcTodo \subseteq sessions \ gcDoomed

LEMMA GcScansStep ==
  ASSUME GcScans, [Next]_vars
  PROVE  GcScans'
<1> USE DEF GcScans, LockFree
<1>1. ASSUME SomeRegister PROVE GcScans'
  BY <1>1 DEF SomeRegister, Register, gcVars
<1>2. ASSUME GcStep PROVE GcScans'
  BY <1>2 DEF GcStep, GcLock, GcLook, GcDelete, GcUnlock
<1>3. ASSUME ClaimLearn PROVE GcScans'
  BY <1>3 DEF ClaimLearn, ClaimBind, gcVars
<1>4. ASSUME UNCHANGED <<sessions, gcVars>> PROVE GcScans'
  BY <1>4 DEF gcVars
<1>5. ASSUME Quieten \/ SomeReceive \/ MuxStep \/ ClaimRefuse \/ UNCHANGED vars
      PROVE  UNCHANGED <<sessions, gcVars>>
  BY <1>5 DEF Quieten, GoQuiet, SomeReceive, Receive, MuxStep, RelayKnown, RelayReply,
     ClaimVerify, ClaimRefuse, vars, tableVars, gcVars
<1> QED
  BY <1>1, <1>2, <1>3, <1>4, <1>5 DEF Next, ClaimLocked

(* Between two packets the mux has none in hand. *)
HandEmpty == muxPc = "read" => pkt = NoPacket

LEMMA HandEmptyStep ==
  ASSUME HandEmpty, [Next]_vars
  PROVE  HandEmpty'
BY DEF HandEmpty, Next, SomeRegister, GcStep, Quieten, SomeReceive, Receive, MuxStep, RelayKnown,
   RelayReply, ClaimVerify, ClaimLocked, ClaimLearn, ClaimRefuse, Finish, vars, muxVars

-----------------------------------------------------------------------------
(* A set of natural numbers that is not empty has a smallest member. *)
LEMMA SmallestNat ==
  ASSUME NEW H \in SUBSET Nat, NEW i \in H
  PROVE  \E j \in H : \A k \in H : j <= k
<1> DEFINE R == {ss \in Nat \X Nat : ss[1] < ss[2]}
<1>1. IsWellFoundedOn(R, Nat)
  BY NatLessThanWellFounded DEF OpToRel
<1> HIDE DEF R
<1>2. PICK j \in H : \A k \in H : <<k, j>> \notin R
  BY <1>1, WFMin
<1>3. \A k \in H : ~(k < j)
  BY <1>2 DEF R
<1> QED
  BY <1>3

LEMMA RoutedTo ==
  ASSUME NEW sn, NEW s
  PROVE  s \in Routed(sn) <=> \/ \E u \in Ufrag : s \in sn.byUfrag[u]
                              \/ \E p \in Port : s \in sn.byBdsPort[p]
                              \/ \E a \in Addr : s \in sn.byClient[a]
BY DEF Routed

(* Publishing ends all fading but that of the packet in hand; deleting is what *)
(* starts it.                                                                 *)
LEMMA FadingShrinks ==
  ASSUME sessions' \in SUBSET Session, cur' = cur \/ Publish,
         snap' \in {snap, cur, EmptySnapshot}
  PROVE  Book!FadeOnly
<1>1. ASSUME NEW s \in Routed(cur'), s \notin sessions' PROVE s \in Routed(cur)
  <2>1. CASE cur' = cur
    BY <1>1, <2>1
  <2>2. CASE Publish
    <3>1. Exact'
      BY <2>2, PublishExact
    <3>2. s \in sessions'
      BY <1>1, <3>1, RoutedTo DEF Exact, Indexes, OfUfrag, OfPort, OfClient
    <3> QED
      BY <1>1, <3>2
  <2> QED
    BY <2>1, <2>2
<1>2. Routed(EmptySnapshot) = {}
  BY RoutedTo DEF EmptySnapshot
<1>3. Fading' = (Routed(cur') \cup Routed(snap')) \ sessions'
  BY DEF Fading, Routed
<1>4. Fading' \subseteq Fading \cup (sessions \ sessions')
  BY <1>1, <1>2, <1>3 DEF Fading
<1> QED
  BY <1>4 DEF Book!FadeOnly

LEMMA FadeStep ==
  ASSUME Book!FadeOnly, UNCHANGED <<born, info, sessions, quiet, gcDoomed, addrs, clientAddr,
                                    pkt, out>>
  PROVE  Book!Next
BY DEF Book!Fade, Book!Next

(* AddressBook extends FiniteSets for itself. *)
LEMMA SameCardinality == ASSUME NEW S PROVE Book!Cardinality(S) = Cardinality(S)
BY DEF Book!Cardinality, Cardinality

-----------------------------------------------------------------------------
LEMMA InitMapped == Init => Book!Init
<1> SUFFICES ASSUME Init PROVE Book!Init
  OBVIOUS
<1>1. Fading = {}
  BY RoutedTo DEF Init, TableInit, MuxInit, Fading, EmptySnapshot
<1> QED
  BY <1>1 DEF Init, TableInit, MuxInit, Book!Init, Book!Session, Session, Book!Nowhere, NoOutcome

LEMMA RegisterMapped ==
  ASSUME TypeOK, TypeOK', SomeRegister
  PROVE  Book!Next
<1>1. PICK x \in Exchange : Register(x) /\ UNCHANGED muxVars
  BY DEF SomeRegister
<1>2. Book!FadeOnly
  BY <1>1, FadingShrinks DEF Register, muxVars, TypeOK
<1>3. Book!Join(x)
  BY <1>1, <1>2, SameCardinality DEF Register, Touch, gcVars, muxVars, Book!Join, Book!Session, Session
<1> QED
  BY <1>3 DEF Book!Next

LEMMA GcMapped ==
  ASSUME TypeOK, TypeOK', GcScans, GcStep
  PROVE  Book!Next
<1>1. Book!FadeOnly
  BY FadingShrinks DEF GcStep, GcLock, GcLook, GcDelete, GcUnlock, muxVars, TypeOK
<1>2. UNCHANGED <<born, info, addrs, clientAddr, quiet, pkt, out>>
  BY DEF GcStep, GcLock, GcLook, GcDelete, GcUnlock, muxVars
<1>3. CASE GcLock \/ GcUnlock
  BY <1>1, <1>2, <1>3, FadeStep DEF GcLock, GcUnlock
<1>4. ASSUME NEW s \in Session, GcLook(s) PROVE Book!Next
  <2>1. s \in sessions /\ gcDoomed = {} /\ gcDoomed' = {s} \cap quiet /\ UNCHANGED sessions
    BY <1>4 DEF GcLook, GcScans, LockFree
  <2>2. CASE s \in quiet
    <3>1. Book!Notice(s)
      BY <1>1, <1>2, <2>1, <2>2 DEF Book!Notice
    <3> QED
      BY <3>1 DEF Book!Next, Book!Session, Session
  <2>3. CASE s \notin quiet
    BY <1>1, <1>2, <2>1, <2>3, FadeStep
  <2> QED
    BY <2>2, <2>3
<1>5. CASE GcDelete
  BY <1>1, <1>2, <1>5 DEF GcDelete, Book!Leave, Book!Next
<1> QED
  BY <1>3, <1>4, <1>5 DEF GcStep

LEMMA QuietenMapped ==
  ASSUME TypeOK, TypeOK', Quieten
  PROVE  Book!Next
<1>1. PICK s \in Session : GoQuiet(s) /\ UNCHANGED muxVars
  BY DEF Quieten
<1>2. Book!FadeOnly
  BY <1>1, FadingShrinks DEF GoQuiet, muxVars, TypeOK
<1>3. Book!FallIdle(s)
  BY <1>1, <1>2 DEF GoQuiet, gcVars, muxVars, Book!FallIdle
<1> QED
  BY <1>3 DEF Book!Next, Book!Session, Session

LEMMA ReceiveMapped ==
  ASSUME TypeOK, TypeOK', HandEmpty, SomeReceive
  PROVE  Book!Next
<1>1. PICK p \in Packet : Receive(p)
  BY DEF SomeReceive
<1>2. Book!FadeOnly
  BY <1>1, FadingShrinks DEF Receive, tableVars, TypeOK
<1>3. Book!Take(p)
  BY <1>1, <1>2 DEF Receive, tableVars, NoOutcome, HandEmpty, Book!Take, Book!Nowhere
<1> QED
  BY <1>3 DEF Book!Next
(* What every packet that is decided on has in common. *)
LEMMA InHand ==
  ASSUME RoutingInv, muxPc # "read"
  PROVE  /\ pkt \in Packet /\ pkt \in {pkt} \ {NoPacket} /\ Sound(snap)
         /\ pkt.src \in Addr /\ pkt.user \in Seq(Ufrag \cup {NoUfrag})
         /\ PortOf[pkt.src] \in Port
BY PacketAssumption, ConstAssumption DEF RoutingInv, PacketInHand

LEMMA SnapServed ==
  ASSUME TypeOK, NEW s \in Routed(snap) \cup Routed(cur)
  PROVE  s \in Book!Served
BY DEF Book!Served, Fading

LEMMA FinishFades ==
  ASSUME TypeOK, TypeOK', NEW verdict, NEW S, NEW to, Finish(verdict, S, to),
         cur' = cur \/ Publish
  PROVE  Book!FadeOnly
BY FadingShrinks DEF Finish, TypeOK

LEMMA RelayKnownMapped ==
  ASSUME TypeOK, TypeOK', RoutingInv, RelayKnown
  PROVE  Book!Next
<1>1. PICK s \in KnownSession :
        /\ Touch(s)
        /\ clientAddr' = [clientAddr EXCEPT ![s] = pkt.src]
        /\ Finish("known", {s}, RelayTarget(info[s]))
  BY DEF RelayKnown
<1>2. muxPc = "relay" /\ UNCHANGED <<born, sessions, info, addrs, cur, gcVars>>
  BY DEF RelayKnown
<1>3. Book!FadeOnly
  BY <1>1, <1>2, FinishFades
<1>4. s \in Book!Served
  BY <1>1, <1>2, InHand, SnapServed, RoutedTo DEF KnownSession
<1>5. pkt.src \in addrs[s]
  BY <1>1, <1>2, InHand DEF KnownSession, Sound, OfClient
<1>6. ASSUME NEW t \in sessions, pkt.src \in addrs[t] PROVE t = s
  <2>1. t \in OfClient(sessions, addrs, pkt.src) /\ KnowsClients(snap)
    BY <1>2, <1>6 DEF OfClient, RoutingInv, PacketInHand
  <2>2. KnownSession = {t}
    BY <1>2, <2>1, InHand DEF KnowsClients, KnownSession
  <2> QED
    BY <1>1, <2>2
<1>7. Book!Forward(pkt)
  BY <1>1, <1>2, <1>3, <1>4, <1>5, <1>6
  DEF Touch, Finish, RelayTarget, gcVars, Book!Forward, Book!Serve
<1> QED
  BY <1>2, <1>7, InHand DEF Book!Next

LEMMA RelayReplyMapped ==
  ASSUME TypeOK, TypeOK', RoutingInv, RelayReply
  PROVE  Book!Next
<1>1. PICK s \in ReplySession :
        /\ Touch(s)
        /\ IF clientAddr[s] # NoAddr
             THEN Finish("reply", {s}, clientAddr[s])
             ELSE Finish("noClientYet", {s}, NoAddr)
  BY DEF RelayReply
<1>2. /\ muxPc = "relay" /\ KnownSession = {}
      /\ UNCHANGED <<born, sessions, info, addrs, clientAddr, cur, gcVars>>
  BY DEF RelayReply
<1>3. Book!FadeOnly
  BY <1>1, <1>2, FinishFades
<1>4. pkt.src \in Local /\ s \in snap.byBdsPort[PortOf[pkt.src]]
  BY <1>1 DEF ReplySession
<1>5. s \in Book!Served
  BY <1>2, <1>4, InHand, SnapServed, RoutedTo
<1>6. s \in 1 .. born /\ \E i \in DOMAIN info[s].addrs : PortOf[pkt.src] = PortOf[info[s].addrs[i]]
  BY <1>2, <1>4, InHand DEF Sound, OfPort, BdsPorts
<1>7. Book!Unknown(pkt.src)
  BY <1>2, SourceUnknown DEF Book!Unknown
<1>8. ASSUME NEW t \in sessions, clientAddr[s] \in addrs[t] PROVE t = s
  <2>1. t \in Session /\ s \in Session /\ addrs[t] \subseteq Addr
    BY <1>6, ConstAssumption DEF TypeOK, Session
  <2>2. clientAddr[s] \in addrs[s]
    BY <1>8, <2>1, ConstAssumption DEF RoutingInv, SessionsWellFormed
  <2>3. Apart(snap)
    BY <1>2 DEF RoutingInv, PacketInHand
  <2> QED
    BY <1>2, <1>4, <1>8, <2>2, <2>3, InHand DEF Apart
<1>9. Book!Reply(pkt)
  <2>1. IF clientAddr[s] = NoAddr THEN Book!Serve(s, "noClientYet", NoAddr)
                                  ELSE Book!Serve(s, "reply", clientAddr[s])
    BY <1>1, <1>2, <1>3 DEF Touch, Finish, gcVars, Book!Serve
  <2> QED
    BY <1>2, <1>4, <1>5, <1>6, <1>7, <1>8, <2>1 DEF Book!Reply
<1> QED
  BY <1>2, <1>9, InHand DEF Book!Next

-----------------------------------------------------------------------------
(* What makes claim refuse a packet without the lock is true of the book. *)
LEMMA VerdictMapped ==
  ASSUME TypeOK, RoutingInv, muxPc = "relay",
         NEW verdict, verdict = ClaimVerdict(pkt, LookupByUsername(cur, pkt.user)),
         verdict # "claimOK"
  PROVE  verdict \in Book!Refusals /\ Book!Reason(verdict, pkt)
<1> DEFINE found == LookupByUsername(cur, pkt.user)
<1>1. pkt.user \in Seq(Ufrag \cup {NoUfrag}) /\ Sound(cur)
  BY InHand DEF RoutingInv
<1>2. CASE pkt.user = << >>
  BY <1>2 DEF ClaimVerdict, Book!Refusals, Book!Reason
<1>3. CASE pkt.user # << >> /\ found = {}
  <2>1. ASSUME NEW s \in sessions, Book!Names(pkt, s) PROVE FALSE
    <3>1. PICK i \in DOMAIN pkt.user : pkt.user[i] \in Ufrag /\ pkt.user[i] \in {info[s].cufrag, info[s].sufrag}
      BY <2>1 DEF Book!Names
    <3>2. cur.byUfrag[pkt.user[i]] # {}
      BY <3>1 DEF RoutingInv, KnowsUfrags, OfUfrag
    <3> DEFINE hits == {j \in DOMAIN pkt.user :
                          pkt.user[j] \in Ufrag /\ cur.byUfrag[pkt.user[j]] # {}}
    <3>3. i \in hits /\ hits \subseteq Nat
      BY <1>1, <3>1, <3>2
    <3>4. PICK j \in hits : \A k \in hits : j <= k
      <4> HIDE DEF hits
      <4> QED
        BY <3>3, SmallestNat
    <3>5. found # {}
      BY <3>4 DEF LookupByUsername
    <3> QED
      BY <1>3, <3>5
  <2> QED
    BY <1>3, <2>1 DEF ClaimVerdict, Book!Refusals, Book!Reason
<1>4. CASE pkt.user # << >> /\ found # {}
  <2>1. PICK s \in found : TRUE
    BY <1>4
  <2>2. /\ found = {s} /\ Book!Names(pkt, s)
        /\ \E i \in DOMAIN pkt.user : pkt.user[i] \in Ufrag /\ s \in cur.byUfrag[pkt.user[i]]
    <3>1. /\ found = {s}
          /\ \E i \in DOMAIN pkt.user :
               pkt.user[i] \in Ufrag \cap {info[s].cufrag, info[s].sufrag}
      BY <1>1, <2>1, LookupFinds
    <3>2. \E i \in DOMAIN pkt.user : pkt.user[i] \in Ufrag /\ s \in cur.byUfrag[pkt.user[i]]
      BY <2>1 DEF LookupByUsername
    <3> QED
      BY <3>1, <3>2 DEF Book!Names
  <2>3. s \in Book!Served
    BY <2>2, SnapServed, RoutedTo
  <2>4. (CHOOSE t \in found : TRUE) = s
    BY <2>2
  <2> HIDE DEF found
  <2> QED
    BY <1>4, <2>2, <2>3, <2>4 DEF ClaimVerdict, found, Book!Refusals, Book!Reason, Book!Accepts
<1> QED
  BY <1>2, <1>3, <1>4

LEMMA RefuseMapped ==
  ASSUME TypeOK, TypeOK', RoutingInv, muxPc # "read", UNCHANGED tableVars,
         NEW verdict \in Book!Refusals, Book!Reason(verdict, pkt), Book!Unknown(pkt.src),
         Finish(verdict, {}, NoAddr)
  PROVE  Book!Next
<1>1. Book!FadeOnly
  BY FinishFades DEF tableVars
<1>2. Book!Refuse(pkt)
  BY <1>1 DEF Finish, tableVars, Book!Refuse, Book!Nowhere
<1> QED
  BY <1>2, InHand DEF Book!Next

LEMMA ClaimVerifyMapped ==
  ASSUME TypeOK, TypeOK', RoutingInv, ClaimVerify
  PROVE  Book!Next
<1> DEFINE verdict == ClaimVerdict(pkt, LookupByUsername(cur, pkt.user))
<1>1. muxPc = "relay" /\ KnownSession = {} /\ UNCHANGED tableVars
  BY DEF ClaimVerify
<1>2. CASE verdict = "claimOK"
  <2>1. UNCHANGED <<pkt, snap, out>>
    BY <1>2 DEF ClaimVerify
  <2>2. Book!FadeOnly
    BY <1>1, <2>1, FadingShrinks DEF tableVars, TypeOK
  <2> QED
    BY <1>1, <2>1, <2>2, FadeStep DEF tableVars
<1>3. CASE verdict # "claimOK"
  <2>1. Finish(verdict, {}, NoAddr)
    BY <1>3 DEF ClaimVerify
  <2>2. Book!Unknown(pkt.src)
    BY <1>1, SourceUnknown DEF Book!Unknown
  <2>3. verdict \in Book!Refusals /\ Book!Reason(verdict, pkt)
    BY <1>1, <1>3, VerdictMapped
  <2> HIDE DEF verdict
  <2> QED
    BY <1>1, <2>1, <2>2, <2>3, RefuseMapped
<1> QED
  BY <1>2, <1>3

(* At the locked half of claim the source is still unknown to the book, and    *)
(* the session the packet was verified against still what it was.             *)
LEMMA AtClaim ==
  ASSUME RoutingInv, muxPc = "claim", NEW s \in cand
  PROVE  /\ Book!Unknown(pkt.src)
         /\ s \in 1 .. born /\ Book!Names(pkt, s) /\ Book!Accepts(s, pkt)
BY DEF RoutingInv, PacketInHand, Verified, Book!Unknown, Book!Names, Book!Accepts

LEMMA ClaimLearnMapped ==
  ASSUME TypeOK, TypeOK', RoutingInv, Finite, ClaimLearn
  PROVE  Book!Next
<1>1. PICK s \in cand :
        ClaimBind(s, pkt.src) /\ Finish("claimOK", {s}, RelayTarget(info[s]))
  BY DEF ClaimLearn
<1>2. muxPc = "claim" /\ s \in sessions
  BY <1>1 DEF ClaimLearn, ClaimBind
<1>3. Book!Unknown(pkt.src) /\ Book!Names(pkt, s) /\ Book!Accepts(s, pkt)
  BY <1>2, AtClaim
<1>4. pkt.src \notin addrs[s]
  BY <1>2, <1>3 DEF Book!Unknown
<1>5. Book!FadeOnly
  BY <1>1, FinishFades DEF ClaimBind
<1>6. Cardinality(addrs[s]) < MaxAddrs
  <2>1. Cardinality(addrs[s]) \in Nat
    BY <1>2, FS_CardinalityType DEF Finite, TypeOK
  <2> QED
    BY <1>1, <1>4, <2>1, ConstAssumption DEF ClaimBind, TooManyAddrs
<1>7. Book!Admit(pkt)
  BY <1>1, <1>2, <1>3, <1>5, <1>6, SameCardinality
  DEF ClaimBind, Touch, Finish, RelayTarget, gcVars, Book!Admit, Book!Serve
<1> QED
  BY <1>2, <1>7, InHand DEF Book!Next

LEMMA ClaimRefuseMapped ==
  ASSUME TypeOK, TypeOK', RoutingInv, ClaimRefuse
  PROVE  Book!Next
<1>1. PICK s \in cand :
        \/ s \notin sessions /\ Finish("claimNoSession", {}, NoAddr)
        \/ /\ s \in sessions /\ TooManyAddrs(s, pkt.src)
           /\ Finish("claimTooManyAddrs", {}, NoAddr)
  BY DEF ClaimRefuse
<1>2. muxPc = "claim" /\ UNCHANGED tableVars
  BY DEF ClaimRefuse
<1>3. /\ Book!Unknown(pkt.src)
      /\ s \in 1 .. born /\ Book!Names(pkt, s) /\ Book!Accepts(s, pkt)
  BY <1>2, AtClaim
<1>4. CASE s \notin sessions
  BY <1>1, <1>2, <1>3, <1>4, RefuseMapped DEF Book!Refusals, Book!Reason
<1>5. CASE s \in sessions
  BY <1>1, <1>2, <1>3, <1>5, RefuseMapped, SameCardinality
  DEF TooManyAddrs, Book!Refusals, Book!Reason
<1> QED
  BY <1>4, <1>5

-----------------------------------------------------------------------------
LEMMA StepMapped ==
  ASSUME TypeOK, TypeOK', RoutingInv, Finite, GcScans, HandEmpty, [Next]_vars
  PROVE  [Book!Next]_(Book!vars)
<1>1. CASE UNCHANGED vars
  <2>1. UNCHANGED <<tableVars, muxVars>>
    BY <1>1 DEF vars
  <2>2. UNCHANGED Fading
    BY <2>1 DEF tableVars, muxVars, Fading, Routed
  <2> QED
    BY <2>1, <2>2 DEF tableVars, muxVars, Book!vars
<1>2. CASE Next
  BY <1>2, RegisterMapped, GcMapped, QuietenMapped, ReceiveMapped, RelayKnownMapped,
     RelayReplyMapped, ClaimVerifyMapped, ClaimLearnMapped, ClaimRefuseMapped
  DEF Next, MuxStep, ClaimLocked
<1> QED
  BY <1>1, <1>2

(* session.go, mux.go: with its lock-free snapshots, its two loads in claim    *)
(* and gc beside it, the mux behaves like one book in which each packet is    *)
(* decided in one step, for a reason that holds in that step.                 *)
THEOREM MuxImplementsAddressBook == Spec => ImplementsAddressBook
<1>1. Init => Book!Init /\ GcScans /\ HandEmpty
  BY InitMapped DEF Init, TableInit, MuxInit, GcScans, LockFree, HandEmpty
<1>2. GcScans /\ HandEmpty /\ [Next]_vars => GcScans' /\ HandEmpty'
  BY GcScansStep, HandEmptyStep
<1>3. TypeOK /\ TypeOK' /\ RoutingInv /\ Finite /\ GcScans /\ HandEmpty /\ [Next]_vars
        => [Book!Next]_(Book!vars)
  BY StepMapped
<1> QED
  BY <1>1, <1>2, <1>3, Invariance, LimitsInvariance, PTL DEF Spec, ImplementsAddressBook, Book!Spec

=============================================================================
