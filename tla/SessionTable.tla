---------------------------- MODULE SessionTable ----------------------------
(***************************************************************************)
(* The session table of session.go: the authoritative set of sessions, kept *)
(* under the mutex t.mu, and the immutable routing snapshot t.cur that the  *)
(* forwarding path reads without a lock.  A writer changes the set, rebuilds *)
(* the whole snapshot and publishes it with one atomic store.               *)
(*                                                                         *)
(* Every critical section is one action, for its effect becomes visible to  *)
(* the lock-free reader at the single cur.Store.  The exception is gc: it   *)
(* reads s.lastSeen, which the forwarding path writes without the lock, so  *)
(* each look at a session, each deletion and the publication are actions of  *)
(* their own, and the lock is held from the first to the last.              *)
(***************************************************************************)
EXTENDS Naturals, FiniteSets, Sequences

CONSTANTS
  Addr,             \* UDP source addresses ip:port, of clients and of BDS sockets
  Port,             \* UDP port numbers
  PortOf,           \* the port of an address
  Local,            \* the addresses isLocalAddr accepts
  Ufrag,            \* ICE user fragments
  Pwd,              \* ICE passwords
  NoAddr, NoUfrag, NoPwd,  \* nil address, empty ufrag, empty password
  Exchange,         \* the signaling exchanges that may be registered
  MaxRegistrations, \* bound of the model: registrations in a behaviour
  MaxSessions,      \* t.maxSessions
  MaxAddrs,         \* t.maxAddrs
  Insecure          \* t.insecure

(* What register is called with: the ufrags of offer and answer, the answer's *)
(* ice-pwd and its candidate addresses, the first of which is the relay       *)
(* target.  register ignores an exchange without candidates.                  *)
ExchangeType == [cufrag : Ufrag \cup {NoUfrag}, sufrag : Ufrag \cup {NoUfrag},
                 pwd : Pwd \cup {NoPwd}, addrs : Seq(Addr)]

ASSUME ConstAssumption ==
  /\ PortOf \in [Addr -> Port]
  /\ Local \subseteq Addr
  /\ NoAddr \notin Addr /\ NoUfrag \notin Ufrag /\ NoPwd \notin Pwd
  /\ Exchange \subseteq {x \in ExchangeType : x.addrs # << >>}
  /\ MaxRegistrations \in Nat /\ MaxSessions \in Nat /\ MaxAddrs \in Nat
  /\ Insecure \in BOOLEAN

(* Session objects are numbered in the order register creates them. *)
Session == 1 .. MaxRegistrations

RelayTarget(x) == x.addrs[1]
BdsPorts(x) == {PortOf[x.addrs[i]] : i \in DOMAIN x.addrs}

VARIABLES
  born,        \* how many sessions register has created
  sessions,    \* t.sessions: the live sessions
  info,        \* what each session was registered with
  addrs,       \* s.addrs: the client addresses a session has learned
  clientAddr,  \* s.clientAddr: the latest active one
  quiet,       \* the sessions with s.lastSeen more than t.idle ago
  cur,         \* t.cur: the published snapshot
  gcPc,        \* where gc is; it holds t.mu unless it is at "sleep"
  gcTodo,      \* the sessions gc has yet to look at
  gcDoomed,    \* the session gc has found idle and is about to delete
  gcExpired    \* expired > 0

tableVars == <<born, sessions, info, addrs, clientAddr, quiet, cur,
               gcPc, gcTodo, gcDoomed, gcExpired>>
gcVars == <<gcPc, gcTodo, gcDoomed, gcExpired>>

LockFree == gcPc = "sleep"

-----------------------------------------------------------------------------
(* A snapshot maps a key to the session found under it: {} if there is none, *)
(* a singleton otherwise.                                                    *)
Snapshot == [byUfrag   : [Ufrag -> SUBSET Session],
             byBdsPort : [Port -> SUBSET Session],
             byClient  : [Addr -> SUBSET Session]]

EmptySnapshot == [byUfrag   |-> [u \in Ufrag |-> {}],
                  byBdsPort |-> [p \in Port |-> {}],
                  byClient  |-> [a \in Addr |-> {}]]

(* rebuildLocked ranges over a Go map, whose order is unspecified and may     *)
(* differ between any two rebuilds; a later session overwrites an earlier     *)
(* one.  An order is given by the session it visits last in every set, and is *)
(* a linear order exactly when dropping other members leaves the last last.   *)
IterationOrder ==
  {last \in [SUBSET Session \ {{}} -> Session] :
     /\ \A C \in DOMAIN last : last[C] \in C
     /\ \A C, D \in DOMAIN last :
          C \subseteq D /\ last[D] \in C => last[C] = last[D]}

LastOf(last, C) == IF C = {} THEN {} ELSE {last[C]}

OfUfrag(S, inf, u)  == {s \in S : u \in {inf[s].cufrag, inf[s].sufrag}}
OfPort(S, inf, p)   == {s \in S : p \in BdsPorts(inf[s])}
OfClient(S, adr, a) == {s \in S : a \in adr[s]}

(* Mutant: the learned addresses are left out of the rebuild. *)
RebuildWithoutClients(S, inf, adr, last) ==
  [byUfrag   |-> [u \in Ufrag |-> LastOf(last, OfUfrag(S, inf, u))],
   byBdsPort |-> [p \in Port |-> LastOf(last, OfPort(S, inf, p))],
   byClient  |-> [a \in Addr |-> {}]]

Rebuild(S, inf, adr, last) ==
  [byUfrag   |-> [u \in Ufrag |-> LastOf(last, OfUfrag(S, inf, u))],
   byBdsPort |-> [p \in Port |-> LastOf(last, OfPort(S, inf, p))],
   byClient  |-> [a \in Addr |-> LastOf(last, OfClient(S, adr, a))]]

(* rebuildLocked of the primed table, published. *)
Publish == \E last \in IterationOrder : cur' = Rebuild(sessions', info', addrs', last)

-----------------------------------------------------------------------------
NoExchange == [cufrag |-> NoUfrag, sufrag |-> NoUfrag, pwd |-> NoPwd, addrs |-> << >>]

TableInit ==
  /\ born = 0
  /\ sessions = {}
  /\ info = [s \in Session |-> NoExchange]
  /\ addrs = [s \in Session |-> {}]
  /\ clientAddr = [s \in Session |-> NoAddr]
  /\ quiet = {}
  /\ cur = EmptySnapshot
  /\ gcPc = "sleep" /\ gcTodo = {} /\ gcDoomed = {} /\ gcExpired = FALSE

(* s.touch() *)
Touch(s) == quiet' = quiet \ {s}

(* Mutant: the new session is not published. *)
RegisterUnpublished(x) ==
  /\ born + 1 \in Session
  /\ LockFree
  /\ Cardinality(sessions) < MaxSessions
  /\ born' = born + 1
  /\ info' = [info EXCEPT ![born + 1] = x]
  /\ sessions' = sessions \cup {born + 1}
  /\ Touch(born + 1)
  /\ UNCHANGED <<addrs, clientAddr, cur, gcVars>>

(* register on behalf of a signaling handler.  At the limit it returns        *)
(* errTooManySessions and changes nothing.                                    *)
Register(x) ==
  LET s == born + 1 IN
  /\ s \in Session
  /\ LockFree
  /\ Cardinality(sessions) < MaxSessions
  /\ born' = s
  /\ info' = [info EXCEPT ![s] = x]
  /\ sessions' = sessions \cup {s}
  /\ Touch(s)
  /\ UNCHANGED <<addrs, clientAddr>>
  /\ Publish
  /\ UNCHANGED gcVars

(* lookupByUsername: u holds the parts of the USERNAME; the first part that   *)
(* is a known ufrag decides.                                                  *)
LookupByUsername(sn, u) ==
  LET hits  == {i \in DOMAIN u : u[i] \in Ufrag /\ sn.byUfrag[u[i]] # {}}
      first == {i \in hits : \A j \in hits : i <= j}
  IN  UNION {sn.byUfrag[u[i]] : i \in first}

(* Mutant: the limit is off by one. *)
TooManyAddrsOffByOne(s, a) == a \notin addrs[s] /\ Cardinality(addrs[s]) > MaxAddrs

(* Session s may not learn address a: its table is full. *)
TooManyAddrs(s, a) == a \notin addrs[s] /\ Cardinality(addrs[s]) >= MaxAddrs

(* Mutant: the new address is not published. *)
ClaimBindUnpublished(s, a) ==
  /\ s \in sessions
  /\ ~TooManyAddrs(s, a)
  /\ addrs' = [addrs EXCEPT ![s] = @ \cup {a}]
  /\ clientAddr' = [clientAddr EXCEPT ![s] = a]
  /\ Touch(s)
  /\ UNCHANGED <<born, sessions, info, cur, gcVars>>

(* The locked half of claim: session s learns address a, unless it has been   *)
(* collected since the lookup.                                                *)
ClaimBind(s, a) ==
  /\ s \in sessions
  /\ ~TooManyAddrs(s, a)
  /\ addrs' = [addrs EXCEPT ![s] = @ \cup {a}]
  /\ clientAddr' = [clientAddr EXCEPT ![s] = a]
  /\ Touch(s)
  /\ UNCHANGED <<born, sessions, info>>
  /\ IF a \in addrs[s] THEN cur' = cur ELSE Publish
  /\ UNCHANGED gcVars

-----------------------------------------------------------------------------
(* gc, called every 60 seconds by runStats. *)
GcLock ==
  /\ LockFree
  /\ gcPc' = "scan" /\ gcTodo' = sessions /\ gcExpired' = FALSE
  /\ UNCHANGED <<gcDoomed, born, sessions, info, addrs, clientAddr, quiet, cur>>

(* Mutants: a session no client has claimed is never idle; the loop does not  *)
(* advance.                                                                   *)
GcLookAtClaimed(s) ==
  /\ gcPc = "scan" /\ gcDoomed = {}
  /\ s \in gcTodo
  /\ gcTodo' = gcTodo \ {s}
  /\ gcDoomed' = {s} \cap {q \in quiet : clientAddr[q] # NoAddr}
  /\ UNCHANGED <<gcPc, gcExpired, born, sessions, info, addrs, clientAddr, quiet, cur>>
GcLookStuck(s) ==
  /\ gcPc = "scan" /\ gcDoomed = {}
  /\ s \in gcTodo
  /\ gcTodo' = gcTodo
  /\ gcDoomed' = {s} \cap quiet
  /\ UNCHANGED <<gcPc, gcExpired, born, sessions, info, addrs, clientAddr, quiet, cur>>

(* s.idleFor(t.idle) for the next session of the range loop. *)
GcLook(s) ==
  /\ gcPc = "scan" /\ gcDoomed = {}
  /\ s \in gcTodo
  /\ gcTodo' = gcTodo \ {s}
  /\ gcDoomed' = {s} \cap quiet
  /\ UNCHANGED <<gcPc, gcExpired, born, sessions, info, addrs, clientAddr, quiet, cur>>

(* delete(t.sessions, s): s may have been touched since gc looked at it. *)
GcDelete ==
  /\ gcPc = "scan" /\ gcDoomed # {}
  /\ sessions' = sessions \ gcDoomed
  /\ gcDoomed' = {} /\ gcExpired' = TRUE
  /\ UNCHANGED <<gcPc, gcTodo, born, info, addrs, clientAddr, quiet, cur>>

(* Mutant: the deletions are not published. *)
GcUnlockUnpublished ==
  /\ gcPc = "scan" /\ gcTodo = {} /\ gcDoomed = {}
  /\ gcPc' = "sleep" /\ gcExpired' = FALSE
  /\ UNCHANGED <<gcTodo, gcDoomed, born, sessions, info, addrs, clientAddr, quiet, cur>>

(* The end of gc: publish if anything expired, and unlock. *)
GcUnlock ==
  /\ gcPc = "scan" /\ gcTodo = {} /\ gcDoomed = {}
  /\ gcPc' = "sleep" /\ gcExpired' = FALSE
  /\ UNCHANGED <<gcTodo, gcDoomed, born, sessions, info, addrs, clientAddr, quiet>>
  /\ IF gcExpired THEN Publish ELSE cur' = cur

(* Time: more than t.idle passes since session s was last touched.  It makes   *)
(* no difference to a session gc no longer looks at.                          *)
GoQuiet(s) ==
  /\ s \in sessions
  /\ s \notin quiet
  /\ quiet' = quiet \cup {s}
  /\ UNCHANGED <<born, sessions, info, addrs, clientAddr, cur, gcVars>>

=============================================================================
