----------------------------- MODULE AddressBook -----------------------------
(***************************************************************************)
(* What the session table and the mux promise together, without the means:   *)
(* no lock, no snapshot, no goroutines.  There is one book of sessions and   *)
(* the addresses they have learned, and what becomes of a packet is decided  *)
(* in one step, by the book as it is in that step.                           *)
(*                                                                         *)
(* The one concession is "fading": a session that has left the book may be   *)
(* served a little longer, but it is never in the way of one that is there.  *)
(***************************************************************************)
EXTENDS Naturals, FiniteSets, Sequences

CONSTANTS Addr, Port, PortOf, Local, Ufrag, Pwd, NoAddr, NoUfrag, NoPwd, NoMic,
          Exchange, Packet, MaxRegistrations, MaxSessions, MaxAddrs, Insecure,
          NoExchange, NoPacket

VARIABLES
  count,    \* how many sessions have joined
  joined,   \* what each has joined with
  live,     \* the sessions in the book
  idle,     \* those nothing has been heard of for long
  leaving,  \* those found idle, and about to leave
  fading,   \* those that have left and may still be served
  learned,  \* the client addresses of each session
  client,   \* the latest of them
  hand,     \* the packet to be decided on
  out       \* what became of the last one

vars == <<count, joined, live, idle, leaving, fading, learned, client, hand, out>>

Session == 1 .. MaxRegistrations
Nowhere(verdict) == [verdict |-> verdict, sess |-> {}, to |-> NoAddr]

Init ==
  /\ count = 0 /\ joined = [s \in Session |-> NoExchange]
  /\ live = {} /\ idle = {} /\ leaving = {} /\ fading = {}
  /\ learned = [s \in Session |-> {}] /\ client = [s \in Session |-> NoAddr]
  /\ hand = NoPacket /\ out = Nowhere("none")

-----------------------------------------------------------------------------
Served == live \cup fading
FadeOnly == fading' \subseteq fading \cup (live \ live')

Names(p, s) == \E i \in DOMAIN p.user : p.user[i] \in Ufrag \cap {joined[s].cufrag, joined[s].sufrag}
Accepts(s, p) == IF joined[s].pwd = NoPwd THEN Insecure ELSE p.mic = joined[s].pwd
Unknown(a) == \A t \in live : a \notin learned[t]

Join(x) ==
  LET s == count + 1 IN
  /\ s \in Session /\ Cardinality(live) < MaxSessions
  /\ count' = s
  /\ joined' = [joined EXCEPT ![s] = x]
  /\ live' = live \cup {s} /\ idle' = idle \ {s}
  /\ FadeOnly
  /\ UNCHANGED <<leaving, learned, client, hand, out>>

(* A session becomes idle, is noticed, and leaves, even if it has been heard   *)
(* of since it was noticed.                                                   *)
FallIdle(s) ==
  /\ s \in live
  /\ idle' = idle \cup {s}
  /\ FadeOnly
  /\ UNCHANGED <<count, joined, live, leaving, learned, client, hand, out>>
Notice(s) ==
  /\ s \in live \cap idle /\ leaving = {}
  /\ leaving' = {s}
  /\ FadeOnly
  /\ UNCHANGED <<count, joined, live, idle, learned, client, hand, out>>
Leave ==
  /\ leaving # {} /\ live' = live \ leaving /\ leaving' = {}
  /\ FadeOnly
  /\ UNCHANGED <<count, joined, idle, learned, client, hand, out>>

-----------------------------------------------------------------------------
(* A packet comes in. *)
Take(p) ==
  /\ hand = NoPacket /\ hand' = p
  /\ out' = Nowhere("none")
  /\ FadeOnly
  /\ UNCHANGED <<count, joined, live, idle, leaving, learned, client>>

Serve(s, verdict, to) ==
  /\ idle' = idle \ {s}
  /\ hand' = NoPacket
  /\ out' = [verdict |-> verdict, sess |-> {s}, to |-> to]
  /\ FadeOnly
  /\ UNCHANGED <<count, joined, live, leaving>>

(* From a client: to BDS, on behalf of the one session in the book that has    *)
(* learned its address, whatever the packet says.                             *)
Forward(p) ==
  \E s \in Served :
    /\ p.src \in learned[s]
    /\ \A t \in live : p.src \in learned[t] => t = s
    /\ client' = [client EXCEPT ![s] = p.src]
    /\ Serve(s, "known", joined[s].addrs[1])
    /\ UNCHANGED learned

(* From BDS: to the latest client of a session with that port, and so to       *)
(* nobody else's client.                                                      *)
Reply(p) ==
  \E s \in Served :
    /\ p.src \in Local /\ Unknown(p.src)
    /\ \E i \in DOMAIN joined[s].addrs : PortOf[p.src] = PortOf[joined[s].addrs[i]]
    /\ \A t \in live : client[s] \in learned[t] => t = s
    /\ IF client[s] = NoAddr THEN Serve(s, "noClientYet", NoAddr)
                             ELSE Serve(s, "reply", client[s])
    /\ UNCHANGED <<learned, client>>

(* From an address nobody has: admitted by a session that it names, whose      *)
(* password it was made with and that has room for another address ...        *)
Admit(p) ==
  \E s \in live :
    /\ Unknown(p.src)
    /\ Names(p, s) /\ Accepts(s, p) /\ Cardinality(learned[s]) < MaxAddrs
    /\ learned' = [learned EXCEPT ![s] = @ \cup {p.src}]
    /\ client' = [client EXCEPT ![s] = p.src]
    /\ Serve(s, "claimOK", joined[s].addrs[1])

(* ... or refused, and never without the reason being there: a packet is not   *)
(* turned away as unknown while the book has a session that it names.          *)
Reason(verdict, p) ==
  CASE verdict = "claimNotSTUN" -> p.user = << >>
    [] verdict = "claimNoSession" ->
         \/ \A s \in live : ~Names(p, s)
         \/ \E s \in (1 .. count) \ live : Names(p, s)
    [] verdict = "claimNoPwd" ->
         \E s \in Served : Names(p, s) /\ joined[s].pwd = NoPwd /\ ~Insecure
    [] verdict = "claimNoMIC" ->
         \E s \in Served : Names(p, s) /\ ~Accepts(s, p) /\ p.mic = NoMic
    [] verdict = "claimBadMIC" ->
         \E s \in Served : Names(p, s) /\ ~Accepts(s, p) /\ p.mic # NoMic
    [] verdict = "claimTooManyAddrs" ->
         \E s \in live : Names(p, s) /\ Accepts(s, p) /\ Cardinality(learned[s]) >= MaxAddrs
Refusals == {"claimNotSTUN", "claimNoSession", "claimNoPwd", "claimNoMIC", "claimBadMIC",
             "claimTooManyAddrs"}
Refuse(p) ==
  \E verdict \in Refusals :
    /\ Unknown(p.src)
    /\ Reason(verdict, p)
    /\ hand' = NoPacket /\ out' = Nowhere(verdict)
    /\ FadeOnly
    /\ UNCHANGED <<count, joined, live, idle, leaving, learned, client>>

Fade == FadeOnly /\ UNCHANGED <<count, joined, live, idle, leaving, learned, client, hand, out>>

-----------------------------------------------------------------------------
Next ==
  \/ \E x \in Exchange : Join(x)
  \/ \E s \in Session : FallIdle(s) \/ Notice(s)
  \/ Leave \/ Fade
  \/ \E p \in Packet : Take(p)
  \/ \E p \in {hand} \ {NoPacket} : Forward(p) \/ Reply(p) \/ Admit(p) \/ Refuse(p)

Spec == Init /\ [][Next]_vars

=============================================================================
