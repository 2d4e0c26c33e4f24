------------------------------ MODULE Signaling ------------------------------
(***************************************************************************)
(* signaling.go on top of the session table: the HTTP handlers that pass an  *)
(* offer on to BDS, register the session its answer describes and give the   *)
(* client the answer with the candidates rewritten.  net/http runs one       *)
(* handler per request, all at once; the deadlines of the server, the        *)
(* timeout of the client that talks to BDS, clients that hang up, and the    *)
(* shutdown on a signal are modelled with a clock that ticks for everybody.  *)
(*                                                                         *)
(* Nothing a handler computes takes time: the clock stands still while one   *)
(* is at "register" or "write".  forwardRaw touches no state of the proxy    *)
(* and is left out.                                                         *)
(***************************************************************************)
EXTENDS SessionTable

CONSTANTS
  Request,          \* the POST /v1/join/ requests
  Offer,            \* the ufrag in the offer of each request
  Cand,             \* the address fields of candidate lines, as text
  AddrOf,           \* the address parseCandidateAddrs makes of each
  MuxCand,          \* the address fields the proxy advertises instead
  Answer,           \* what BDS may answer
  ReadTimeout,      \* http.Server.ReadTimeout
  WriteTimeout,     \* http.Server.WriteTimeout
  BackendTimeout,   \* http.Client.Timeout
  ShutdownTimeout   \* how long Shutdown waits for handlers

(* A response of BDS: whether its status and content type are those of an      *)
(* answer, and the lines that matter.                                         *)
Line == [kind : {"ice-ufrag"}, val : Ufrag] \cup [kind : {"ice-pwd"}, val : Pwd] \cup
        [kind : {"candidate"}, val : Cand \cup {MuxCand}]
Response == [isAnswer : BOOLEAN, lines : Seq(Line)]

NoResponse == [isAnswer |-> FALSE, lines |-> << >>]

ASSUME SignalingAssumption ==
  /\ Offer \in [Request -> Ufrag \cup {NoUfrag}]
  /\ AddrOf \in [Cand \cup {MuxCand} -> Addr]
  /\ Answer \subseteq Response
  /\ {ReadTimeout, WriteTimeout, BackendTimeout, ShutdownTimeout} \subseteq Nat

VARIABLES
  pc,      \* where the handler of a request is
  age,     \* time since its header was read
  asked,   \* time since BDS was asked
  answer,  \* what BDS answered
  body,    \* the lines the handler has read of it
  reply,   \* what the handler replies
  sess,    \* the session it has registered, 0 if none
  present, \* the clients that have not hung up
  got,     \* what the client of a request got
  phase,   \* "up", "draining" after a signal, "down" after exit
  drain    \* time since the signal

sigVars == <<pc, age, asked, answer, body, reply, sess, present, got, phase, drain>>
vars == <<tableVars, sigVars>>

Running == {"body", "backend", "answer", "register", "write"}
Errors == {"bad offer", "bad gateway", "as BDS said", "busy"}
Replies == Errors \cup {"rewritten answer"}

Init ==
  /\ TableInit
  /\ pc = [r \in Request |-> "new"]
  /\ age = [r \in Request |-> 0] /\ asked = [r \in Request |-> 0]
  /\ answer = [r \in Request |-> NoResponse] /\ body = [r \in Request |-> << >>]
  /\ reply = [r \in Request |-> "nothing"] /\ sess = [r \in Request |-> 0]
  /\ present = Request
  /\ got = [r \in Request |-> "nothing"]
  /\ phase = "up" /\ drain = 0

-----------------------------------------------------------------------------
(* firstSubmatch *)
FirstOf(lines, kind, none) ==
  LET of == {i \in DOMAIN lines : lines[i].kind = kind}
  IN  IF of = {} THEN none ELSE lines[CHOOSE i \in of : \A j \in of : i <= j].val

(* parseCandidateAddrs: every candidate once, in order; a name that is not an  *)
(* IP becomes the loopback address (AddrOf).                                  *)
ParseCandidateAddrs(lines) ==
  LET cands == {i \in DOMAIN lines : lines[i].kind = "candidate"}
      texts == {lines[i].val : i \in cands}
      Before(c, d) == \E i \in cands : lines[i].val = c /\ \A j \in cands : lines[j].val = d => i < j
      out == CHOOSE s \in [1 .. Cardinality(texts) -> texts] :
               \A k, m \in DOMAIN s : k < m => Before(s[k], s[m])
  IN  [k \in 1 .. Cardinality(texts) |-> AddrOf[out[k]]]

(* rewriteCandidates *)
RewriteCandidates(lines) ==
  [i \in DOMAIN lines |->
     IF lines[i].kind = "candidate" THEN [lines[i] EXCEPT !.val = MuxCand] ELSE lines[i]]

(* What is registered for an offer and the answer read. *)
Join(offer, lines) ==
  [cufrag |-> offer, sufrag |-> FirstOf(lines, "ice-ufrag", NoUfrag),
   pwd |-> FirstOf(lines, "ice-pwd", NoPwd), addrs |-> ParseCandidateAddrs(lines)]

(* What an answer leads to, whole or broken off, may be registered. *)
ASSUME RegistrableAssumption ==
  \A r \in Request, a \in Answer : a.isAnswer =>
    \A n \in 0 .. Len(a.lines) :
       LET read == SubSeq(a.lines, 1, n)
       IN  ParseCandidateAddrs(read) # << >> => Join(Offer[r], read) \in Exchange

-----------------------------------------------------------------------------
(* A request comes in; its header has been read. *)
Arrive(r) ==
  /\ phase = "up" /\ pc[r] = "new"
  /\ pc' = [pc EXCEPT ![r] = "body"]
  /\ UNCHANGED <<age, asked, answer, body, reply, sess, present, got, phase, drain, tableVars>>

(* The handler makes up its mind. *)
Decide(r, what) ==
  /\ pc' = [pc EXCEPT ![r] = "write"]
  /\ reply' = [reply EXCEPT ![r] = what]

(* io.ReadAll(r.Body) succeeds, and BDS is asked ... *)
OfferRead(r) ==
  /\ pc[r] = "body" /\ r \in present
  /\ pc' = [pc EXCEPT ![r] = "backend"]
  /\ UNCHANGED <<age, asked, answer, body, reply, sess, present, got, phase, drain, tableVars>>

(* ... or the offer is empty or too long, or the client hangs up or is too     *)
(* slow for ReadTimeout.                                                      *)
OfferBad(r) ==
  /\ pc[r] = "body"
  /\ Decide(r, "bad offer")
  /\ UNCHANGED <<age, asked, answer, body, sess, present, got, phase, drain, tableVars>>

(* s.client.Do fails, for want of BDS or of time, or there is no request to send:  *)
(* that http.NewRequest fails (signaling.go:138-142) is another status for the     *)
(* client, 500, and else the same, with nothing registered ...                   *)
BackendFails(r) ==
  /\ pc[r] = "backend"
  /\ Decide(r, "bad gateway")
  /\ UNCHANGED <<age, asked, answer, body, sess, present, got, phase, drain, tableVars>>

(* ... or returns, with the header of a response.  BDS draws fresh credentials *)
(* for every offer.                                                           *)
BackendAnswers(r) ==
  /\ pc[r] = "backend"
  /\ \E a \in Answer \ {answer[q] : q \in Request} : answer' = [answer EXCEPT ![r] = a]
  /\ pc' = [pc EXCEPT ![r] = "answer"]
  /\ UNCHANGED <<age, asked, body, reply, sess, present, got, phase, drain, tableVars>>

(* io.ReadAll of the response body, whose error is discarded: if BDS dies or   *)
(* the client's timeout strikes meanwhile, what was read passes for the whole. *)
AnswerRead(r) ==
  /\ pc[r] = "answer"
  /\ \E n \in 0 .. Len(answer[r].lines) :
       LET read == SubSeq(answer[r].lines, 1, n) IN
       /\ body' = [body EXCEPT ![r] = read]
       /\ \/ (~answer[r].isAnswer \/ n = 0) /\ Decide(r, "as BDS said")
          \/ /\ answer[r].isAnswer /\ n # 0 /\ ParseCandidateAddrs(read) = << >>
             /\ Decide(r, "rewritten answer")
          \/ /\ answer[r].isAnswer /\ n # 0 /\ ParseCandidateAddrs(read) # << >>
             /\ pc' = [pc EXCEPT ![r] = "register"] /\ reply' = reply
  /\ UNCHANGED <<age, asked, answer, sess, present, got, phase, drain, tableVars>>

(* Mutant: the server's ufrag is looked up in the offer. *)
RegisterWithOfferUfrag(r) ==
  /\ pc[r] = "register"
  /\ Register([Join(Offer[r], body[r]) EXCEPT !.sufrag = Offer[r]])
  /\ sess' = [sess EXCEPT ![r] = born']
  /\ Decide(r, "rewritten answer")
  /\ UNCHANGED <<age, asked, answer, body, present, got, phase, drain>>

RegisterSession(r) ==
  /\ pc[r] = "register"
  /\ Register(Join(Offer[r], body[r]))
  /\ sess' = [sess EXCEPT ![r] = born']
  /\ Decide(r, "rewritten answer")
  /\ UNCHANGED <<age, asked, answer, body, present, got, phase, drain>>

(* Mutant: the error of register is not looked at. *)
RegisterFullIgnored(r) ==
  /\ pc[r] = "register"
  /\ LockFree /\ Cardinality(sessions) >= MaxSessions
  /\ Decide(r, "rewritten answer")
  /\ UNCHANGED <<age, asked, answer, body, sess, present, got, phase, drain, tableVars>>

(* errTooManySessions; BDS keeps the connection it has made for the answer. *)
RegisterFull(r) ==
  /\ pc[r] = "register"
  /\ LockFree /\ Cardinality(sessions) >= MaxSessions
  /\ Decide(r, "busy")
  /\ UNCHANGED <<age, asked, answer, body, sess, present, got, phase, drain, tableVars>>

(* Mutant: the answer is passed on before its session is registered. *)
WriteReplyEager(r) ==
  /\ pc[r] \in {"register", "write"}
  /\ pc' = [pc EXCEPT ![r] = IF @ = "write" THEN "done" ELSE @]
  /\ got' = [got EXCEPT ![r] = IF pc[r] = "write" THEN reply[r] ELSE "rewritten answer"]
  /\ UNCHANGED <<age, asked, answer, body, reply, sess, present, phase, drain, tableVars>>

(* The handler returns.  Its reply gets to a client that is still there if the *)
(* server's write deadline, counted from the header, has not passed.          *)
WriteReply(r) ==
  /\ pc[r] = "write"
  /\ pc' = [pc EXCEPT ![r] = "done"]
  /\ got' = [got EXCEPT ![r] =
               IF r \in present /\ age[r] <= WriteTimeout THEN reply[r] ELSE "nothing"]
  /\ age' = [age EXCEPT ![r] = 0] /\ asked' = [asked EXCEPT ![r] = 0]
  /\ UNCHANGED <<answer, body, reply, sess, present, phase, drain, tableVars>>

HangUp(r) ==
  /\ pc[r] \in Running /\ r \in present
  /\ present' = present \ {r}
  /\ UNCHANGED <<pc, age, asked, answer, body, reply, sess, got, phase, drain, tableVars>>

-----------------------------------------------------------------------------
(* Mutant: the client that talks to BDS has no Timeout. *)
OverdueButForBackend(r) ==
  \/ pc[r] = "body" /\ (age[r] >= ReadTimeout \/ r \notin present)
  \/ pc[r] \in {"register", "write"}
(* Time cannot pass before the handler has moved. *)
Overdue(r) ==
  \/ pc[r] = "body" /\ (age[r] >= ReadTimeout \/ r \notin present)
  \/ pc[r] \in {"backend", "answer"} /\ asked[r] >= BackendTimeout
  \/ pc[r] \in {"register", "write"}

Tick ==
  /\ \A r \in Request : ~Overdue(r)
  /\ phase = "draining" => drain < ShutdownTimeout
  /\ \E r \in Request : pc[r] \in Running
  /\ age' = [r \in Request |-> IF pc[r] \in Running THEN age[r] + 1 ELSE age[r]]
  /\ asked' = [r \in Request |->
                 IF pc[r] \in {"backend", "answer"} THEN asked[r] + 1 ELSE asked[r]]
  /\ drain' = IF phase = "draining" THEN drain + 1 ELSE drain
  /\ UNCHANGED <<pc, answer, body, reply, sess, present, got, phase, tableVars>>

(* SIGINT or SIGTERM: the listener is closed and the handlers may finish. *)
Signal ==
  /\ phase = "up"
  /\ phase' = "draining"
  /\ UNCHANGED <<pc, age, asked, answer, body, reply, sess, present, got, drain, tableVars>>

(* Shutdown returns, for want of handlers or of time, and main with it. *)
Exit ==
  /\ phase = "draining"
  /\ (\A r \in Request : pc[r] \notin Running) \/ drain >= ShutdownTimeout
  /\ phase' = "down"
  /\ pc' = [r \in Request |-> IF pc[r] \in Running THEN "killed" ELSE pc[r]]
  /\ UNCHANGED <<age, asked, answer, body, reply, sess, present, got, drain, tableVars>>

-----------------------------------------------------------------------------
(* The steps of a handler that need nobody else, or that a timeout forces. *)
GivesUp(r) == Overdue(r) /\ (OfferBad(r) \/ BackendFails(r) \/ AnswerRead(r))
EntersTable(r) == RegisterSession(r) \/ RegisterFull(r)
HandlerStep(r) ==
  \/ Arrive(r) \/ OfferRead(r) \/ OfferBad(r) \/ BackendFails(r) \/ BackendAnswers(r)
  \/ AnswerRead(r) \/ EntersTable(r) \/ WriteReply(r) \/ HangUp(r)
GcStep == (GcLock \/ (\E s \in Session : GcLook(s)) \/ GcDelete \/ GcUnlock)
          /\ UNCHANGED sigVars
Quieten(s) == GoQuiet(s) /\ UNCHANGED sigVars

Next ==
  \/ phase # "down" /\ \/ \E r \in Request : HandlerStep(r)
                       \/ \E s \in Session : Quieten(s)
                       \/ GcStep \/ Tick
  \/ Signal \/ Exit

Spec == Init /\ [][Next]_vars

(* Time passes, also for the sessions, which no packet revives here; timers    *)
(* fire; handlers and gc run.  Nothing is assumed of the clients or of BDS.    *)
Fairness ==
  /\ WF_vars(phase # "down" /\ Tick) /\ WF_vars(phase # "down" /\ GcStep) /\ WF_vars(Exit)
  /\ \A s \in Session : WF_vars(phase # "down" /\ Quieten(s))
  /\ \A r \in Request : /\ WF_vars(phase # "down" /\ GivesUp(r))
                        /\ WF_vars(phase # "down" /\ WriteReply(r))
                        /\ SF_vars(phase # "down" /\ EntersTable(r))
FairSpec == Spec /\ Fairness

-----------------------------------------------------------------------------
(* Every variable has its type. *)
TypeOK ==
  /\ pc \in [Request -> Running \cup {"new", "done", "killed"}]
  /\ age \in [Request -> Nat] /\ asked \in [Request -> Nat] /\ drain \in Nat
  /\ answer \in [Request -> Answer \cup {NoResponse}]
  /\ body \in [Request -> Seq(Line)]
  /\ reply \in [Request -> Replies \cup {"nothing"}]
  /\ got \in [Request -> Replies \cup {"nothing"}]
  /\ sess \in [Request -> 0 .. born]
  /\ born \in 0 .. MaxRegistrations /\ info \in [Session -> Exchange \cup {NoExchange}]
  /\ present \subseteq Request
  /\ phase \in {"up", "draining", "down"}

(* An answer with a candidate that leads to the mux. *)
Advertises(lines) == \E i \in DOMAIN lines : lines[i] = [kind |-> "candidate", val |-> MuxCand]

(* What the client is told agrees with the table.  Before it can see a         *)
(* candidate of the proxy, and so send a first check to the mux, the session   *)
(* is registered with what that answer says; and if it is told of an error,    *)
(* no session was registered on its behalf.                                   *)
ReplyMatchesTable ==
  \A r \in Request :
    /\ got[r] = "rewritten answer" /\ Advertises(RewriteCandidates(body[r])) =>
         sess[r] # 0 /\ info[sess[r]] = Join(Offer[r], body[r])
    /\ got[r] \in Errors => sess[r] = 0

(* A handler that has read the offer early enough replies in time, however     *)
(* long BDS takes: a client that waits gets an answer.                        *)
PromptOfferAnswered ==
  [][\A r \in Request :
       pc[r] = "write" /\ pc'[r] = "done" /\ r \in present
         /\ age[r] - asked[r] <= WriteTimeout - BackendTimeout
       => got'[r] # "nothing"]_vars

(* To the table the handlers are what Mux assumes: each registration is of an  *)
(* exchange that may be registered and that has not been before.              *)
RegistersAsMuxAssumes ==
  [][\A s \in born + 1 .. born' :
       info'[s] \in Exchange /\ info'[s] \notin {info[t] : t \in 1 .. born}]_vars

(* Every request is disposed of, whatever its client and BDS do or fail to do. *)
RequestsEnd == \A r \in Request : pc[r] \in Running ~> pc[r] \notin Running

(* A table full of sessions no client has claimed does not stay full: joins    *)
(* abandoned half-way lock the others out for a while only.                   *)
RoomAgain ==
  Cardinality(sessions) >= MaxSessions ~> Cardinality(sessions) < MaxSessions \/ phase = "down"

-----------------------------------------------------------------------------
(* What the repository says of the program and the runs refute *)

(* signaling.go:190-191: all candidates of the answer are extracted, the       *)
(* first to relay to and the ports of all to tell replies by.                  *)
RegistersWholeAnswer ==
  \A r \in Request : sess[r] # 0 => info[sess[r]] = Join(Offer[r], answer[r].lines)

=============================================================================
