--------------------------------- MODULE Mux ---------------------------------
(***************************************************************************)
(* mux.go on top of the session table: the one goroutine that reads the UDP *)
(* socket and decides, packet by packet, where a packet goes, beside the     *)
(* signaling handlers that register sessions and the gc of runStats.         *)
(*                                                                         *)
(* The network is a set of packets any of which may arrive at any time and   *)
(* any number of times: loss, duplication, delay and reordering are all      *)
(* there.  A packet is its source, the parts of its STUN USERNAME (none if   *)
(* it is not STUN) and the password its MESSAGE-INTEGRITY was made with.     *)
(***************************************************************************)
EXTENDS SessionTable

CONSTANTS
  NoMic,    \* no (readable) MESSAGE-INTEGRITY
  Packet,   \* the packets of the model
  NoPacket

ASSUME PacketAssumption ==
  /\ NoMic \notin Pwd
  /\ Packet \subseteq [src : Addr, user : Seq(Ufrag \cup {NoUfrag}), mic : Pwd \cup {NoMic}]
  /\ NoPacket \notin Packet

VARIABLES
  muxPc,   \* "read": in ReadFrom; "relay": snapshot loaded; "claim": MIC verified
  pkt,     \* the packet in hand
  snap,    \* the snapshot relayPacket loaded
  cand,    \* the session claim has verified the packet against
  out      \* what became of the last packet: verdict, session, where it was sent

muxVars == <<muxPc, pkt, snap, cand, out>>
vars == <<tableVars, muxVars>>

Relayed  == {"known", "claimOK"}
Rejected == {"claimBadMIC", "claimNoMIC", "claimTooManyAddrs"}
Dropped  == {"noClientYet", "claimNotSTUN", "claimNoSession", "claimNoPwd"}

(* A packet that is written has somewhere to go; any other has not. *)
Outcome ==
  [verdict : Relayed \cup {"reply"}, sess : SUBSET Session, to : Addr] \cup
  [verdict : Rejected \cup Dropped \cup {"none"}, sess : SUBSET Session, to : {NoAddr}]

NoOutcome == [verdict |-> "none", sess |-> {}, to |-> NoAddr]

MuxInit ==
  /\ muxPc = "read" /\ pkt = NoPacket /\ snap = EmptySnapshot /\ cand = {}
  /\ out = NoOutcome

Init == TableInit /\ MuxInit

-----------------------------------------------------------------------------
(* conn.ReadFrom, and the t.cur.Load() relayPacket starts with. *)
Receive(p) ==
  /\ muxPc = "read"
  /\ muxPc' = "relay" /\ pkt' = p /\ snap' = cur
  /\ out' = NoOutcome
  /\ UNCHANGED <<cand, tableVars>>

(* relayPacket returns: the packet left for "to" on behalf of session s, or   *)
(* nowhere.                                                                   *)
Finish(verdict, S, to) ==
  /\ muxPc' = "read" /\ pkt' = NoPacket /\ snap' = EmptySnapshot /\ cand' = {}
  /\ out' = [verdict |-> verdict, sess |-> S, to |-> to]

(* Mutant: no fast path, every packet of a client is claimed anew. *)
KnownSessionMissed == {}
KnownSession == snap.byClient[pkt.src]
(* Mutant: BDS's own ICE checks are tried as claims first. *)
ReplySessionAfterStun ==
  IF pkt.src \in Local /\ pkt.user = << >> THEN snap.byBdsPort[PortOf[pkt.src]] ELSE {}
ReplySession == IF pkt.src \in Local THEN snap.byBdsPort[PortOf[pkt.src]] ELSE {}

(* The source is a learned client address: forward to BDS. *)
RelayKnown ==
  /\ muxPc = "relay"
  /\ \E s \in KnownSession :
       /\ Touch(s)
       /\ clientAddr' = [clientAddr EXCEPT ![s] = pkt.src]
       /\ Finish("known", {s}, RelayTarget(info[s]))
  /\ UNCHANGED <<born, sessions, info, addrs, cur, gcVars>>

(* Mutant: no test for a nil client address. *)
RelayReplyUntested ==
  /\ muxPc = "relay"
  /\ KnownSession = {}
  /\ \E s \in ReplySession : Touch(s) /\ Finish("reply", {s}, clientAddr[s])
  /\ UNCHANGED <<born, sessions, info, addrs, clientAddr, cur, gcVars>>

(* A local source whose port is in the snapshot: BDS answers its client. *)
RelayReply ==
  /\ muxPc = "relay"
  /\ KnownSession = {}
  /\ \E s \in ReplySession :
       /\ Touch(s)
       /\ IF clientAddr[s] # NoAddr
            THEN Finish("reply", {s}, clientAddr[s])
            ELSE Finish("noClientYet", {s}, NoAddr)
  /\ UNCHANGED <<born, sessions, info, addrs, clientAddr, cur, gcVars>>

(* Mutant: knowing the ufrag is enough. *)
ClaimVerdictByUfrag(p, F) ==
  IF p.user = << >> THEN "claimNotSTUN" ELSE IF F = {} THEN "claimNoSession" ELSE "claimOK"
(* The lock-free half of claim: the verdict on packet p for the sessions F    *)
(* its USERNAME leads to (none or one).  stunVerify tells a wrong             *)
(* MESSAGE-INTEGRITY from a missing one.                                      *)
ClaimVerdict(p, F) ==
  IF p.user = << >> THEN "claimNotSTUN"
  ELSE IF F = {} THEN "claimNoSession"
  ELSE LET pwd == info[CHOOSE s \in F : TRUE].pwd IN
       IF pwd = NoPwd THEN IF Insecure THEN "claimOK" ELSE "claimNoPwd"
       ELSE IF p.mic = pwd THEN "claimOK"
       ELSE IF p.mic = NoMic THEN "claimNoMIC" ELSE "claimBadMIC"

(* Mutant: a local source whose port is not in the snapshot is dropped. *)
ClaimVerifyRemoteOnly ==
  /\ muxPc = "relay"
  /\ KnownSession = {} /\ ReplySession = {}
  /\ LET found   == LookupByUsername(cur, pkt.user)
         verdict == IF pkt.src \in Local THEN "claimNoSession" ELSE ClaimVerdict(pkt, found)
     IN  IF verdict = "claimOK"
           THEN muxPc' = "claim" /\ cand' = found /\ UNCHANGED <<pkt, snap, out>>
           ELSE Finish(verdict, {}, NoAddr)
  /\ UNCHANGED tableVars

(* Mutant: claim makes do with the snapshot relayPacket has loaded. *)
ClaimVerifyStale ==
  /\ muxPc = "relay"
  /\ KnownSession = {} /\ ReplySession = {}
  /\ LET found   == LookupByUsername(snap, pkt.user)
         verdict == ClaimVerdict(pkt, found)
     IN  IF verdict = "claimOK"
           THEN muxPc' = "claim" /\ cand' = found /\ UNCHANGED <<pkt, snap, out>>
           ELSE Finish(verdict, {}, NoAddr)
  /\ UNCHANGED tableVars

(* claim loads the snapshot anew, so it may see a session register has just   *)
(* added and relayPacket has not.                                             *)
ClaimVerify ==
  /\ muxPc = "relay"
  /\ KnownSession = {} /\ ReplySession = {}
  /\ LET found   == LookupByUsername(cur, pkt.user)
         verdict == ClaimVerdict(pkt, found)
     IN  IF verdict = "claimOK"
           THEN /\ muxPc' = "claim" /\ cand' = found
                /\ UNCHANGED <<pkt, snap, out>>
           ELSE Finish(verdict, {}, NoAddr)
  /\ UNCHANGED tableVars

(* The locked half of claim: learn the address and forward the packet ... *)
ClaimLearn ==
  /\ muxPc = "claim"
  /\ LockFree
  /\ \E s \in cand :
       /\ ClaimBind(s, pkt.src)
       /\ Finish("claimOK", {s}, RelayTarget(info[s]))

(* Mutant: the client address is stored before the limit is tested. *)
ClaimRefuseLate ==
  /\ muxPc = "claim"
  /\ LockFree
  /\ \E s \in cand :
       /\ s \in sessions => TooManyAddrs(s, pkt.src)
       /\ clientAddr' = [clientAddr EXCEPT ![s] = pkt.src]
       /\ Finish("claimTooManyAddrs", {}, NoAddr)
  /\ UNCHANGED <<born, sessions, info, addrs, quiet, cur, gcVars>>

(* ... or give up: gc has taken the session, or it has learned its fill. *)
ClaimRefuse ==
  /\ muxPc = "claim"
  /\ LockFree
  /\ \E s \in cand :
       \/ s \notin sessions /\ Finish("claimNoSession", {}, NoAddr)
       \/ /\ s \in sessions /\ TooManyAddrs(s, pkt.src)
          /\ Finish("claimTooManyAddrs", {}, NoAddr)
  /\ UNCHANGED tableVars

-----------------------------------------------------------------------------
(* BDS draws fresh credentials for every answer, so no exchange comes twice. *)
SomeRegister ==
  \E x \in Exchange \ {info[s] : s \in 1 .. born} : Register(x) /\ UNCHANGED muxVars
GcStep == (GcLock \/ (\E s \in Session : GcLook(s)) \/ GcDelete \/ GcUnlock)
          /\ UNCHANGED muxVars
Quieten == \E s \in Session : GoQuiet(s) /\ UNCHANGED muxVars
SomeReceive == \E p \in Packet : Receive(p)
MuxStep == RelayKnown \/ RelayReply \/ ClaimVerify
ClaimLocked == ClaimLearn \/ ClaimRefuse

Next == SomeRegister \/ GcStep \/ Quieten \/ SomeReceive \/ MuxStep \/ ClaimLocked

Spec == Init /\ [][Next]_vars

(* runStats ticks for ever, the mux goroutine runs, and Go's mutex serves a    *)
(* waiter after at most a millisecond of starvation, so the lock is acquired   *)
(* by whoever finds it free again and again.  Nothing is assumed of the        *)
(* network, of the clients or of BDS.                                          *)
Fairness == WF_vars(GcStep) /\ WF_vars(MuxStep) /\ SF_vars(ClaimLocked)
FairSpec == Spec /\ Fairness

-----------------------------------------------------------------------------
(* Every variable has its type; in particular no packet is written to a nil   *)
(* address (a reply arriving before the client has been heard of).            *)
TypeOK ==
  /\ born \in 0 .. MaxRegistrations
  /\ sessions \subseteq Session
  /\ info \in [Session -> Exchange \cup {NoExchange}]
  /\ addrs \in [Session -> SUBSET Addr]
  /\ clientAddr \in [Session -> Addr \cup {NoAddr}]
  /\ quiet \subseteq Session
  /\ cur \in Snapshot
  /\ gcPc \in {"sleep", "scan"} /\ gcTodo \subseteq Session
  /\ gcDoomed \subseteq Session /\ gcExpired \in BOOLEAN
  /\ muxPc \in {"read", "relay", "claim"}
  /\ pkt \in Packet \cup {NoPacket}
  /\ snap \in Snapshot
  /\ cand \subseteq Session
  /\ out \in Outcome

-----------------------------------------------------------------------------
(* Safety *)

(* A client address belongs to at most one live session.  Nothing in claim    *)
(* looks for the address in other sessions: it is the single mux goroutine,   *)
(* asking the snapshot before it claims, that keeps the sets apart.           *)
AddressesDisjoint ==
  \A s, t \in sessions : s # t => addrs[s] \cap addrs[t] = {}

(* Whenever nobody holds the lock, what the forwarding path will load next is *)
(* an index of the live sessions: it leads to no session that is gone and     *)
(* forgets no key of one that is not.                                         *)
Indexes(entry, holders) == entry \subseteq holders /\ (holders # {} => entry # {})
Exact ==
  /\ \A u \in Ufrag : Indexes(cur.byUfrag[u], OfUfrag(sessions, info, u))
  /\ \A p \in Port : Indexes(cur.byBdsPort[p], OfPort(sessions, info, p))
  /\ \A a \in Addr : Indexes(cur.byClient[a], OfClient(sessions, addrs, a))
SnapshotExact == LockFree => Exact

(* The limits of newSessionTable hold at every moment, with handlers          *)
(* registering while gc deletes.                                              *)
WithinLimits ==
  /\ Cardinality(sessions) <= MaxSessions
  /\ \A s \in Session : Cardinality(addrs[s]) <= MaxAddrs

(* By the time a packet reaches the locked half of claim its source is still  *)
(* unknown to every live session, whatever register and gc did since the      *)
(* snapshot was loaded.                                                       *)
ClaimsAreFirst ==
  muxPc = "claim" => \A s \in sessions : pkt.src \notin addrs[s]

(* An address is learned from the packet in hand only, by a session that is   *)
(* live, that the packet names, and whose password the packet was made with   *)
(* (with no password to check against, only under -insecure-claim).           *)
LearnsOnlyVerified ==
  [][\A s \in Session : \A a \in addrs'[s] \ addrs[s] :
       /\ s \in sessions /\ a = pkt.src
       /\ \E i \in DOMAIN pkt.user : pkt.user[i] \in {info[s].cufrag, info[s].sufrag}
       /\ IF info[s].pwd = NoPwd THEN Insecure ELSE pkt.mic = info[s].pwd]_vars

(* The step with which relayPacket returns. *)
Finishing == muxPc # "read" /\ muxPc' = "read"

(* A packet goes to BDS only from an address the session has learned, and to  *)
(* that session's relay target; a reply goes only from a port of the session  *)
(* to an address it has learned.                                              *)
DeliveryWithinSession ==
  [][Finishing => \A s \in out'.sess :
       /\ out'.verdict \in Relayed =>
            pkt.src \in addrs'[s] /\ out'.to = RelayTarget(info[s])
       /\ out'.verdict = "reply" =>
            PortOf[pkt.src] \in BdsPorts(info[s]) /\ out'.to \in addrs[s]]_vars

(* A reply never reaches an address that a live session not listing the       *)
(* reply's port has learned, even when it was routed by a snapshot that gc    *)
(* and register have since replaced.                                          *)
NoCrosstalk ==
  [][Finishing /\ out'.verdict = "reply" =>
       \A t \in sessions : out'.to \in addrs[t]
                              => PortOf[pkt.src] \in BdsPorts(info[t])]_vars

(* A packet from the relay target of the session its port leads to is dropped *)
(* or rejected only while that session has learned no client address.         *)
ReplyNotLost ==
  [][Finishing /\ out'.verdict \in Dropped \cup Rejected =>
       \A s \in snap.byBdsPort[PortOf[pkt.src]] :
         pkt.src = RelayTarget(info[s]) => clientAddr[s] = NoAddr]_vars

(* The packet in hand is a check of session s: it leads with the server ufrag  *)
(* of s, which no other live session uses, and carries the password of s.     *)
CheckOf(s) ==
  /\ pkt.user # << >> /\ pkt.user[1] = info[s].sufrag
  /\ OfUfrag(sessions, info, info[s].sufrag) = {s}
  /\ pkt.mic = info[s].pwd

(* A check of a live session from an address nobody has learned is admitted,   *)
(* wherever it comes from, a client on the proxy's own host included, unless   *)
(* the session has learned its fill or the port is that of a BDS socket.       *)
ValidCheckAdmitted ==
  [][Finishing /\ KnownSession = {} /\ ReplySession = {} =>
       \A s \in sessions : CheckOf(s) =>
         \/ out'.verdict = "claimOK" /\ out'.sess = {s}
         \/ out'.verdict = "claimTooManyAddrs"]_vars

-----------------------------------------------------------------------------
(* Liveness, under FairSpec *)

(* A packet in hand never blocks the socket: the goroutine gets back to       *)
(* ReadFrom although claim has to wait for the lock gc holds.                 *)
PacketDisposed == muxPc # "read" ~> muxPc = "read"

(* An idle session is collected, unless traffic revives it. *)
IdleCollected ==
  \A s \in Session : (s \in sessions \cap quiet) ~> (s \notin sessions \cap quiet)

-----------------------------------------------------------------------------
(* Why the safety properties hold: the inductive invariant.                   *)

AtMostOne(entry) == \A s, t \in entry : s = t

(* A snapshot, published or in hand, never misroutes: what it says of a        *)
(* session was true of it when it was published, and since the fields of a     *)
(* session are only added to it is true for ever, collected or not.            *)
Sound(sn) ==
  /\ \A u \in Ufrag : /\ sn.byUfrag[u] \subseteq OfUfrag(1 .. born, info, u)
                     /\ AtMostOne(sn.byUfrag[u])
  /\ \A p \in Port : /\ sn.byBdsPort[p] \subseteq OfPort(1 .. born, info, p)
                    /\ AtMostOne(sn.byBdsPort[p])
  /\ \A a \in Addr : sn.byClient[a] \subseteq OfClient(1 .. born, addrs, a)

(* It leads from every address that a live session has learned to that        *)
(* session: only the mux goroutine learns addresses, and publishes them at    *)
(* once.  The published one also leads from every ufrag in use to a session.  *)
KnowsClients(sn) ==
  \A a \in Addr : \A s \in OfClient(sessions, addrs, a) : sn.byClient[a] = {s}
KnowsUfrags == \A u \in Ufrag : OfUfrag(sessions, info, u) # {} => cur.byUfrag[u] # {}

(* The sessions replies are routed to, collected or not, share no client       *)
(* address with any live session.                                             *)
Apart(sn) ==
  \A p \in Port : \A s \in sn.byBdsPort[p] : \A t \in sessions :
     s # t => addrs[s] \cap addrs[t] = {}

SessionsWellFormed ==
  /\ sessions \subseteq 1 .. born
  /\ \A s \in 1 .. born : info[s] \in Exchange
  /\ \A s \in Session : s > born => addrs[s] = {}
  /\ \A s \in Session : clientAddr[s] # NoAddr => clientAddr[s] \in addrs[s]

(* The password check that let session s through still describes it.          *)
Verified(s) ==
  /\ s \in 1 .. born
  /\ \E i \in DOMAIN pkt.user :
       pkt.user[i] \in Ufrag \cap {info[s].cufrag, info[s].sufrag}
  /\ IF info[s].pwd = NoPwd THEN Insecure ELSE pkt.mic = info[s].pwd

PacketInHand ==
  /\ muxPc # "read" => pkt \in Packet /\ Sound(snap)
  /\ muxPc = "relay" => KnowsClients(snap) /\ Apart(snap)
  /\ muxPc = "claim" => /\ ReplySession = {}
                        /\ \A s \in sessions : pkt.src \notin addrs[s]
                        /\ \A s \in cand : Verified(s)

(* session.go:34-36, mux.go:11: the forwarding path decides on a snapshot      *)
(* without a lock and nothing goes astray for it.  Whatever the table and gc   *)
(* are doing, the published snapshot and the one in hand lead only to sessions *)
(* that hold the key, miss no learned address, and keep clients apart.         *)
RoutingInv ==
  /\ SessionsWellFormed
  /\ AddressesDisjoint
  /\ Sound(cur) /\ KnowsClients(cur) /\ KnowsUfrags /\ Apart(cur)
  /\ LockFree \/ ~gcExpired => Exact
  /\ PacketInHand

-----------------------------------------------------------------------------
(* The book the mux keeps.  A session fades while a snapshot, the published   *)
(* one or that of the packet in hand, still leads to it.                      *)
Routed(sn) == UNION ({sn.byUfrag[u] : u \in Ufrag} \cup {sn.byBdsPort[p] : p \in Port} \cup
                     {sn.byClient[a] : a \in Addr})
Fading == (Routed(cur) \cup Routed(snap)) \ sessions

Book == INSTANCE AddressBook WITH
  count <- born, joined <- info, live <- sessions, idle <- quiet, leaving <- gcDoomed,
  fading <- Fading, learned <- addrs, client <- clientAddr, hand <- pkt

(* The lock-free snapshots, the two loads of claim, and gc deleting behind     *)
(* their back cannot be told from one book in which each packet is decided    *)
(* atomically: what is forwarded, answered, admitted or refused has its        *)
(* reason in the table of that very moment (mux.go:12-20, session.go:34-36).  *)
ImplementsAddressBook == Book!Spec

-----------------------------------------------------------------------------
(* What the repository says of the program and the runs refute *)

(* session.go:107-111, README: sessions whose BDS ports overlap are handled   *)
(* by the newest session.                                                     *)
NewestSessionWins ==
  \A p \in Port : \A s \in cur.byBdsPort[p] :
     \A t \in OfPort(sessions, info, p) : t <= s

=============================================================================
