-------------------------------- MODULE Proxy --------------------------------
(***************************************************************************)
(* The proxy as a whole, between clients and BDS: the handlers of Signaling   *)
(* register what the mux goroutine of Mux routes by, gc collects it, a client *)
(* starts its ICE checks when the answer has come back to it, and BDS replies *)
(* to the checks that reach one of its sockets and are good.  The process may *)
(* be killed and started again; nothing of it is kept, while clients and BDS  *)
(* go on with what they know.                                               *)
(*                                                                         *)
(* Clients and BDS are modelled after the stand-ins the repository tests the  *)
(* proxy with.  Both repeat what they send, so once there is reason to send a  *)
(* packet it may come at any later time, and any number of times: the network *)
(* is a function of what clients and BDS have got (Net), and never empties.   *)
(*                                                                         *)
(* There is no clock: a handler may give up at any moment (OfferBad,          *)
(* BackendFails, a partial AnswerRead), which covers its deadlines.  Clients   *)
(* that hang up and the orderly shutdown are left to Signaling.               *)
(***************************************************************************)
EXTENDS SessionTable

CONSTANTS
  Request, Offer, Cand, AddrOf, MuxCand, Answer,                      \* of Signaling
  ReadTimeout, WriteTimeout, BackendTimeout, ShutdownTimeout,
  NoMic, Packet, NoPacket,                                            \* of Mux
  Home,        \* the address the client of a request sends from
  Earlier,     \* the requests a request waits for
  Patient,     \* the requests whose client and BDS keep trying
  Stray,       \* packets of others that reach the mux
  MaxStarts    \* bound of the model: starts of the proxy in a behaviour

VARIABLES
  pc, age, asked, answer, body, reply, sess, present, got, phase, drain,
  muxPc, pkt, snap, cand, out,
  toBds,      \* the packets it has written to BDS, with the socket each went to
  toClient,   \* the packets it has written to clients, with their addresses
  starts,     \* how often the proxy was started
  lost        \* the requests whose session an earlier process had

Sig == INSTANCE Signaling
M == INSTANCE Mux

sigVars == <<pc, age, asked, answer, body, reply, sess, present, got, phase, drain>>
muxVars == <<muxPc, pkt, snap, cand, out>>
worldVars == <<toBds, toClient, starts, lost>>
vars == <<tableVars, sigVars, muxVars, worldVars>>

ASSUME ProxyAssumption ==
  /\ Home \in [Request -> Addr] /\ Earlier \in [Request -> SUBSET Request]
  /\ Patient \subseteq Request /\ Stray \subseteq Packet
  /\ MaxStarts \in Nat \ {0}

(* The parts a handler may read of an answer. *)
Parts(a) == {SubSeq(a.lines, 1, n) : n \in 0 .. Len(a.lines)}
Registrable(lines) == Sig!ParseCandidateAddrs(lines) # << >>

(* What Signaling and Mux assume of their constants. *)
ASSUME SignalingConstants ==
  /\ Offer \in [Request -> Ufrag \cup {NoUfrag}]
  /\ AddrOf \in [Cand \cup {MuxCand} -> Addr]
  /\ Answer \subseteq Sig!Response
  /\ {ReadTimeout, WriteTimeout, BackendTimeout, ShutdownTimeout} \subseteq Nat
  /\ \A r \in Request, a \in Answer : a.isAnswer =>
       \A n \in 0 .. Len(a.lines) :
          LET read == SubSeq(a.lines, 1, n)
          IN  Sig!ParseCandidateAddrs(read) # << >> => Sig!Join(Offer[r], read) \in Exchange
ASSUME MuxConstants ==
  /\ NoMic \notin Pwd
  /\ Packet \subseteq [src : Addr, user : Seq(Ufrag \cup {NoUfrag}), mic : Pwd \cup {NoMic}]
  /\ NoPacket \notin Packet

Init ==
  /\ Sig!Init /\ M!MuxInit
  /\ toBds = {} /\ toClient = {} /\ starts = 1 /\ lost = {}

-----------------------------------------------------------------------------
(* Clients and BDS *)

Sockets(lines) ==
  {AddrOf[lines[i].val] : i \in {j \in DOMAIN lines : lines[j].kind = "candidate"}}

(* A check from an address with the credentials of an answer: the server's     *)
(* ufrag first, and made with its password.                                   *)
Check(from, lines, cufrag) ==
  [src |-> from, mic |-> Sig!FirstOf(lines, "ice-pwd", NoMic),
   user |-> <<Sig!FirstOf(lines, "ice-ufrag", NoUfrag), cufrag>>]
CheckOf(r) == Check(Home[r], body[r], Offer[r])

(* The client of r has an answer with credentials and a candidate of the proxy. *)
Usable(lines) ==
  /\ Sig!Advertises(Sig!RewriteCandidates(lines))
  /\ Sig!FirstOf(lines, "ice-ufrag", NoUfrag) # NoUfrag
  /\ Sig!FirstOf(lines, "ice-pwd", NoPwd) # NoPwd
Joining(r) == got[r] = "rewritten answer" /\ Usable(body[r])

(* The connection BDS has made for r responds, without a USERNAME, from the     *)
(* socket that got a check made with what BDS has answered.                   *)
Response(b) == [src |-> b, user |-> << >>, mic |-> NoMic]
Responding(r) ==
  {b \in Sockets(answer[r].lines) :
     \E m \in toBds : m.to = b /\ m.pkt = Check(m.pkt.src, answer[r].lines, Offer[r])}

(* Packet is large enough for what clients and BDS send. *)
ASSUME PacketsSuffice ==
  \A a \in Answer :
    /\ \A lines \in Parts(a), r \in Request :
         Usable(lines) => Check(Home[r], lines, Offer[r]) \in Packet
    /\ \A b \in Sockets(a.lines) : Response(b) \in Packet

(* BDS draws fresh credentials for every answer, and nobody else knows the        *)
(* password.  On the host of the proxy, who sends from the port of one of its     *)
(* sockets is that connection of BDS: a UDP port is held by one program.         *)
Passwords(a) == {a.lines[i].val : i \in {j \in DOMAIN a.lines : a.lines[j].kind = "ice-pwd"}}
Senders == {p.src : p \in Stray} \cup {Home[r] : r \in Request}
             \cup UNION {Sockets(a.lines) : a \in Answer}
ASSUME FreshAnswers ==
  \A a, c \in Answer : a # c =>
    /\ Passwords(a) \cap Passwords(c) = {}
    /\ \A x \in Parts(a), y \in Parts(c) : Registrable(x) /\ Registrable(y) =>
         \A r, q \in Request : Sig!Join(Offer[r], x) # Sig!Join(Offer[q], y)
ASSUME OwnPasswords == \A p \in Stray, a \in Answer : p.mic \notin Passwords(a)
ASSUME OwnPorts ==
  \A a \in Answer, x \in Senders \cap Local :
    (\E b \in Sockets(a.lines) : PortOf[b] = PortOf[x]) => x \in Sockets(a.lines)

(* The packets that may come to the mux. *)
Net == Stray \cup {CheckOf(r) : r \in {q \in Request : Joining(q)}}
             \cup UNION {{Response(b) : b \in Responding(r)} : r \in Request}

-----------------------------------------------------------------------------
(* The proxy *)

Handler(r) ==
  /\ \A q \in Earlier[r] : pc[q] \notin Sig!Running \cup {"new"}
  /\ \/ Sig!Arrive(r) \/ Sig!OfferRead(r) \/ Sig!OfferBad(r) \/ Sig!BackendFails(r)
     \/ Sig!BackendAnswers(r) \/ Sig!AnswerRead(r) \/ Sig!EntersTable(r) \/ Sig!WriteReply(r)
  /\ UNCHANGED <<muxVars, worldVars>>

Gc == M!GcStep /\ UNCHANGED <<sigVars, worldVars>>
Quieten == M!Quieten /\ UNCHANGED <<sigVars, worldVars>>
Receive(p) == p \in Net /\ M!Receive(p) /\ UNCHANGED <<sigVars, worldVars>>

(* conn.WriteTo: what the packet that is done with has become. *)
Sent(verdicts) ==
  IF M!Finishing /\ out'.verdict \in verdicts THEN {[to |-> out'.to, pkt |-> pkt]} ELSE {}
Writing ==
  /\ toBds' = toBds \cup Sent(M!Relayed)
  /\ toClient' = toClient \cup Sent({"reply"})
  /\ UNCHANGED <<sigVars, starts, lost>>

Relay == M!MuxStep /\ Writing
Claim == M!ClaimLocked /\ Writing

(* The process is killed and started again: table, snapshot and the packet in  *)
(* hand are gone, and the connections of all handlers with them.              *)
Restart ==
  /\ starts < MaxStarts /\ starts' = starts + 1
  /\ born' = 0 /\ sessions' = {} /\ quiet' = {} /\ cur' = EmptySnapshot
  /\ info' = [s \in Session |-> NoExchange]
  /\ addrs' = [s \in Session |-> {}] /\ clientAddr' = [s \in Session |-> NoAddr]
  /\ gcPc' = "sleep" /\ gcTodo' = {} /\ gcDoomed' = {} /\ gcExpired' = FALSE
  /\ muxPc' = "read" /\ pkt' = NoPacket /\ snap' = EmptySnapshot /\ cand' = {}
  /\ out' = M!NoOutcome
  /\ pc' = [r \in Request |-> IF pc[r] \in Sig!Running THEN "killed" ELSE pc[r]]
  /\ sess' = [r \in Request |-> 0]
  /\ lost' = lost \cup {r \in Request : sess[r] # 0}
  /\ UNCHANGED <<age, asked, answer, body, reply, present, got, phase, drain,
                 toBds, toClient>>

-----------------------------------------------------------------------------
Next ==
  \/ \E r \in Request : Handler(r)
  \/ Gc \/ Quieten \/ Relay \/ Claim \/ Restart
  \/ \E p \in Net : Receive(p)

Spec == Init /\ [][Next]_vars

(* The mux goroutine runs, the lock is not withheld from it for ever, gc ends. *)
(* A patient client repeats its check as BDS repeats its response, and of a    *)
(* packet sent again and again one gets through while the socket is read.     *)
Fairness ==
  /\ WF_vars(Gc) /\ WF_vars(Relay) /\ SF_vars(Claim)
  /\ \A r \in Patient :
       /\ SF_vars(Joining(r) /\ Receive(CheckOf(r)))
       /\ SF_vars(\E b \in Responding(r) : Receive(Response(b)))
FairSpec == Spec /\ Fairness

-----------------------------------------------------------------------------
(* Every variable has its type. *)
TypeOK ==
  /\ Sig!TypeOK /\ M!TypeOK
  /\ Net \subseteq Packet
  /\ \A m \in toBds \cup toClient : m.to \in Addr /\ m.pkt \in Packet
  /\ starts \in 1 .. MaxStarts /\ lost \subseteq Request

(* A client converses with the sockets of its own answer and with no other,   *)
(* across handlers, gc and restarts: what the mux has written to anybody came  *)
(* from the other end of one conversation.  Whoever has no answer is neither   *)
(* forwarded nor replied to (attacker/main.go:10-11).                         *)
OwnConversation ==
  /\ \A m \in toBds : \E r \in Request :
       m.pkt.src = Home[r] /\ Joining(r) /\ m.to \in Sockets(answer[r].lines)
  /\ \A m \in toClient : \E r \in Request :
       m.to = Home[r] /\ Joining(r) /\ m.pkt.src \in Sockets(answer[r].lines)

(* The session of r is no more: gc has taken it, or a process that is no more   *)
(* had it.                                                                    *)
Gone(r) == r \in lost \/ (sess[r] # 0 /\ sess[r] \notin sessions)

(* A client that has its answer is never too early: its check is refused for   *)
(* want of a session only if the session has been there and is gone.          *)
NeverTooEarly ==
  [][M!Finishing /\ out'.verdict = "claimNoSession" =>
       \A r \in Request : Joining(r) /\ pkt = CheckOf(r) => Gone(r)]_vars

(* To the mux the other components are what Mux takes them for, so what holds  *)
(* of Mux for any packets and exchanges holds of it here, from every start.   *)
IsMux == M!Init /\ [][M!Next \/ Restart]_<<tableVars, muxVars>>

(* A join that was answered succeeds: the client hears from BDS, unless its    *)
(* session falls idle before, or the proxy is restarted.                      *)
Heard(r) == \E m \in toClient : m.to = Home[r] /\ m.pkt.src \in Sockets(answer[r].lines)
JoinSucceeds == \A r \in Patient : Joining(r) ~> Heard(r) \/ Gone(r)

=============================================================================
