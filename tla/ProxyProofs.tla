---------------------------- MODULE ProxyProofs ----------------------------
(***************************************************************************)
(* Theorems about Proxy, for any number of clients and answers, any packets   *)
(* of others and any number of starts.  To the mux and the table the rest of *)
(* the system is what Mux takes it for, so the invariant of MuxProofs holds   *)
(* from every start; with what is known of requests, and what BDS draws anew  *)
(* for each answer, conversations are kept apart.                           *)
(***************************************************************************)
EXTENDS Proxy, SequenceTheorems, TLAPS

MP == INSTANCE MuxProofs
SP == INSTANCE SignalingProofs

-----------------------------------------------------------------------------
(* What the two modules have proved, in the terms of this one. *)

LEMMA MuxInvariant ==
  /\ M!Init => MP!TypeOK /\ MP!RoutingInv
  /\ MP!TypeOK /\ MP!RoutingInv /\ [MP!Next]_MP!vars => MP!TypeOK' /\ MP!RoutingInv'
<1>1. M!Init <=> MP!Init
  BY DEF M!Init, MP!Init, M!TableInit, MP!TableInit, M!MuxInit, MP!MuxInit, M!EmptySnapshot,
         MP!EmptySnapshot, M!NoOutcome, MP!NoOutcome, M!Session, MP!Session, M!NoExchange,
         MP!NoExchange
<1>2. MP!Init => MP!TypeOK /\ MP!RoutingInv
  BY MP!TypeInit, MP!RoutingInit, ConstAssumption, MuxConstants DEF ExchangeType, MP!ExchangeType
<1>3. MP!TypeOK /\ MP!RoutingInv /\ [MP!Next]_MP!vars => MP!TypeOK' /\ MP!RoutingInv'
  BY MP!TypeStep, MP!RoutingStep, ConstAssumption, MuxConstants DEF ExchangeType, MP!ExchangeType
<1> QED
  BY <1>1, <1>2, <1>3

LEMMA SigOperators ==
  /\ Sig!Line = SP!Line /\ Sig!Response = SP!Response
  /\ \A lines : /\ Sig!ParseCandidateAddrs(lines) = SP!ParseCandidateAddrs(lines)
                /\ Sig!RewriteCandidates(lines) = SP!RewriteCandidates(lines)
                /\ Sig!Advertises(lines) <=> SP!Advertises(lines)
  /\ \A lines, kind, none : Sig!FirstOf(lines, kind, none) = SP!FirstOf(lines, kind, none)
<1>1. Sig!Line = SP!Line /\ Sig!Response = SP!Response
  BY DEF Sig!Line, SP!Line, Sig!Response, SP!Response
<1>2. \A lines : Sig!ParseCandidateAddrs(lines) = SP!ParseCandidateAddrs(lines)
  <2> TAKE lines
  <2> QED
    BY Zenon DEF Sig!ParseCandidateAddrs, SP!ParseCandidateAddrs, Sig!Cardinality, SP!Cardinality
<1>3. \A lines : Sig!RewriteCandidates(lines) = SP!RewriteCandidates(lines)
  BY DEF Sig!RewriteCandidates, SP!RewriteCandidates
<1>4. \A lines : Sig!Advertises(lines) <=> SP!Advertises(lines)
  BY DEF Sig!Advertises, SP!Advertises
<1>5. \A lines, kind, none : Sig!FirstOf(lines, kind, none) = SP!FirstOf(lines, kind, none)
  BY DEF Sig!FirstOf, SP!FirstOf
<1> QED
  BY <1>1, <1>2, <1>3, <1>4, <1>5

LEMMA SigFacts ==
  ASSUME NEW lines \in Seq(Sig!Line)
  PROVE  /\ Sig!Advertises(Sig!RewriteCandidates(lines)) => Registrable(lines)
         /\ \A k \in DOMAIN Sig!ParseCandidateAddrs(lines) : \E i \in DOMAIN lines :
              /\ lines[i].kind = "candidate"
              /\ Sig!ParseCandidateAddrs(lines)[k] = AddrOf[lines[i].val]
         /\ \A kind, none : Sig!FirstOf(lines, kind, none) # none =>
              \E i \in DOMAIN lines :
                /\ lines[i].kind = kind
                /\ \A other : Sig!FirstOf(lines, kind, other) = lines[i].val
<1> USE ConstAssumption, SignalingConstants
<1>1. SP!Advertises(SP!RewriteCandidates(lines)) => SP!ParseCandidateAddrs(lines) # << >>
  BY SigOperators, SP!AdvertisedIsRegistered
  DEF ExchangeType, SP!ExchangeType, Sig!Join, SP!Join
<1>2. ASSUME NEW k \in DOMAIN Sig!ParseCandidateAddrs(lines)
      PROVE  \E i \in DOMAIN lines : /\ lines[i].kind = "candidate"
                                    /\ Sig!ParseCandidateAddrs(lines)[k] = AddrOf[lines[i].val]
  BY SigOperators, SP!ParsedAreCandidates DEF ExchangeType, SP!ExchangeType, Sig!Join, SP!Join
<1>3. ASSUME NEW kind, NEW none, Sig!FirstOf(lines, kind, none) # none
      PROVE  \E i \in DOMAIN lines : /\ lines[i].kind = kind
                                    /\ \A other : Sig!FirstOf(lines, kind, other) = lines[i].val
  <2>1. SP!FirstOf(lines, kind, none) # none
    BY <1>3, SigOperators
  <2>2. lines \in Seq(SP!Line)
    BY SigOperators
  <2>3. \E i \in DOMAIN lines : /\ lines[i].kind = kind
                               /\ \A other : SP!FirstOf(lines, kind, other) = lines[i].val
    BY <2>1, <2>2, SigOperators, SP!FirstOfKind
    DEF ExchangeType, SP!ExchangeType, Sig!Join, SP!Join
  <2> QED
    BY <2>3, SigOperators
<1> QED
  BY <1>1, <1>2, <1>3, SigOperators DEF Registrable

(* The steps of the mux and of gc. *)
LEMMA MuxActions ==
  /\ M!GcStep <=> MP!GcStep
  /\ M!Quieten <=> MP!Quieten
  /\ (\A p : M!Receive(p) <=> MP!Receive(p))
  /\ M!RelayKnown <=> MP!RelayKnown
  /\ M!RelayReply <=> MP!RelayReply
  /\ M!ClaimVerify <=> MP!ClaimVerify
  /\ M!ClaimLearn <=> MP!ClaimLearn
  /\ M!ClaimRefuse <=> MP!ClaimRefuse
<1>1. M!GcStep <=> MP!GcStep
  BY DEF M!GcStep, MP!GcStep, M!GcLock, MP!GcLock, M!GcLook, MP!GcLook, M!GcDelete,
         MP!GcDelete, M!GcUnlock, MP!GcUnlock, M!tableVars, MP!tableVars, M!Session,
         MP!Session, M!LockFree, MP!LockFree, M!gcVars, MP!gcVars, M!muxVars,
         MP!muxVars, M!Touch, MP!Touch, M!Publish, MP!Publish, M!IterationOrder,
         MP!IterationOrder, M!Rebuild, MP!Rebuild, M!LastOf, MP!LastOf, M!OfUfrag,
         MP!OfUfrag, M!OfPort, MP!OfPort, M!OfClient, MP!OfClient, M!BdsPorts,
         MP!BdsPorts
<1>2. M!Quieten <=> MP!Quieten
  BY DEF M!Quieten, MP!Quieten, M!GoQuiet, MP!GoQuiet, M!Session, MP!Session,
         M!LockFree, MP!LockFree, M!gcVars, MP!gcVars, M!muxVars, MP!muxVars, M!Touch,
         MP!Touch
<1>3. (\A p : M!Receive(p) <=> MP!Receive(p))
  BY DEF M!Receive, MP!Receive, M!tableVars, MP!tableVars, M!gcVars, MP!gcVars,
         M!NoOutcome, MP!NoOutcome
<1>4. M!RelayKnown <=> MP!RelayKnown
  BY DEF M!RelayKnown, MP!RelayKnown, M!KnownSession, MP!KnownSession, M!RelayTarget,
         MP!RelayTarget, M!Session, MP!Session, M!LockFree, MP!LockFree, M!gcVars,
         MP!gcVars, M!muxVars, MP!muxVars, M!Touch, MP!Touch, M!Finish, MP!Finish,
         M!EmptySnapshot, MP!EmptySnapshot
<1>5. M!RelayReply <=> MP!RelayReply
  BY DEF M!RelayReply, MP!RelayReply, M!KnownSession, MP!KnownSession, M!ReplySession,
         MP!ReplySession, M!Session, MP!Session, M!LockFree, MP!LockFree, M!gcVars,
         MP!gcVars, M!muxVars, MP!muxVars, M!Touch, MP!Touch, M!Finish, MP!Finish,
         M!EmptySnapshot, MP!EmptySnapshot
<1>6. M!ClaimVerify <=> MP!ClaimVerify
  BY DEF M!ClaimVerify, MP!ClaimVerify, M!KnownSession, MP!KnownSession,
         M!ReplySession, MP!ReplySession, M!LookupByUsername, MP!LookupByUsername,
         M!ClaimVerdict, MP!ClaimVerdict, M!tableVars, MP!tableVars, M!Session,
         MP!Session, M!LockFree, MP!LockFree, M!gcVars, MP!gcVars, M!muxVars,
         MP!muxVars, M!Touch, MP!Touch, M!Finish, MP!Finish, M!EmptySnapshot,
         MP!EmptySnapshot
<1>7. M!ClaimLearn <=> MP!ClaimLearn
  BY DEF M!ClaimLearn, MP!ClaimLearn, M!ClaimBind, MP!ClaimBind, M!TooManyAddrs,
         MP!TooManyAddrs, M!RelayTarget, MP!RelayTarget, M!Cardinality,
         MP!Cardinality, M!Session, MP!Session, M!LockFree, MP!LockFree, M!gcVars,
         MP!gcVars, M!muxVars, MP!muxVars, M!Touch, MP!Touch, M!Publish, MP!Publish,
         M!IterationOrder, MP!IterationOrder, M!Rebuild, MP!Rebuild, M!LastOf,
         MP!LastOf, M!OfUfrag, MP!OfUfrag, M!OfPort, MP!OfPort, M!OfClient,
         MP!OfClient, M!BdsPorts, MP!BdsPorts, M!Finish, MP!Finish, M!EmptySnapshot,
         MP!EmptySnapshot
<1>8. M!ClaimRefuse <=> MP!ClaimRefuse
  BY DEF M!ClaimRefuse, MP!ClaimRefuse, M!TooManyAddrs, MP!TooManyAddrs,
         M!Cardinality, MP!Cardinality, M!tableVars, MP!tableVars, M!Session,
         MP!Session, M!LockFree, MP!LockFree, M!gcVars, MP!gcVars, M!muxVars,
         MP!muxVars, M!Touch, MP!Touch, M!Finish, MP!Finish, M!EmptySnapshot,
         MP!EmptySnapshot
<1> QED
  BY <1>1, <1>2, <1>3, <1>4, <1>5, <1>6, <1>7, <1>8

(* The steps of the handlers change the table only by Register. *)
LEMMA SigRegister ==
  ASSUME NEW x, Sig!Register(x)
  PROVE  MP!Register(x)
BY DEF Sig!Register, MP!Register, Sig!Session, MP!Session, Sig!LockFree, MP!LockFree, Sig!Touch,
       MP!Touch, Sig!gcVars, MP!gcVars, Sig!Publish, MP!Publish, Sig!IterationOrder,
       MP!IterationOrder, Sig!Rebuild, MP!Rebuild, Sig!LastOf, MP!LastOf, Sig!OfUfrag,
       MP!OfUfrag, Sig!OfPort, MP!OfPort, Sig!OfClient, MP!OfClient, Sig!BdsPorts,
       MP!BdsPorts, Sig!Cardinality, MP!Cardinality

-----------------------------------------------------------------------------
(* What is known of the requests.  It differs from what SignalingProofs knows in  *)
(* that a restart forgets sessions.                                            *)
Undecided == {"new", "body", "backend", "answer", "register"}

ReadOf(r) == answer[r] \in Answer /\ answer[r].isAnswer /\ body[r] \in Parts(answer[r])
Parsed(r) == ReadOf(r) /\ Registrable(body[r])

RequestInv(r) ==
  /\ pc[r] \in {"new", "body", "backend"} => answer[r] = Sig!NoResponse
  /\ pc[r] = "answer" => answer[r] \in Answer
  /\ pc[r] \in Undecided => sess[r] = 0 /\ reply[r] = "nothing" /\ r \notin lost
  /\ got[r] \in {"nothing", reply[r]}
  /\ got[r] # "nothing" => pc[r] = "done"
  /\ pc[r] = "register" \/ sess[r] # 0 => Parsed(r)
  /\ sess[r] # 0 => info[sess[r]] = Sig!Join(Offer[r], body[r])
  /\ reply[r] = "rewritten answer" =>
       ReadOf(r) /\ (Registrable(body[r]) => sess[r] # 0 \/ r \in lost)

AnswersDiffer ==
  \A r, q \in Request : r # q /\ answer[r].isAnswer => answer[r] # answer[q]
Booked == \A t \in 1 .. born : \E r \in Request : sess[r] = t

SigInv ==
  /\ Sig!TypeOK /\ lost \subseteq Request
  /\ \A r \in Request : RequestInv(r)
  /\ AnswersDiffer /\ Booked

LEMMA OtherRequest ==
  ASSUME NEW q \in Request, RequestInv(q),
         pc'[q] = pc[q], sess'[q] = sess[q], reply'[q] = reply[q], got'[q] = got[q],
         answer'[q] = answer[q], body'[q] = body[q], lost' = lost,
         sess[q] # 0 => info'[sess[q]] = info[sess[q]]
  PROVE  RequestInv(q)'
BY DEF RequestInv, ReadOf, Parsed

LEMMA SigInitially ==
  ASSUME Init
  PROVE  SigInv
<1>1. Sig!TypeOK
  BY ConstAssumption DEF Init, Sig!Init, Sig!TableInit, Sig!TypeOK, Sig!NoResponse, Sig!NoExchange
<1>2. \A r \in Request : RequestInv(r)
  BY DEF Init, Sig!Init, RequestInv, Undecided
<1>3. AnswersDiffer
  BY DEF Init, Sig!Init, AnswersDiffer, Sig!NoResponse
<1>4. Booked /\ lost \subseteq Request
  BY DEF Init, Sig!Init, Sig!TableInit, Booked
<1> QED
  BY <1>1, <1>2, <1>3, <1>4 DEF SigInv

(* Steps of the mux, of gc and of time. *)
LEMMA SameRequests ==
  ASSUME SigInv, UNCHANGED <<born, info, sigVars, lost>>
  PROVE  SigInv'
<1>1. Sig!TypeOK'
  BY DEF SigInv, Sig!TypeOK, sigVars, Sig!Session, Sig!NoExchange, Sig!NoResponse, Sig!Running,
         Sig!Replies, Sig!Errors
<1>2. \A r \in Request : RequestInv(r)'
  BY OtherRequest DEF SigInv, sigVars
<1>3. AnswersDiffer' /\ Booked' /\ lost' \subseteq Request
  BY DEF SigInv, AnswersDiffer, Booked, sigVars
<1> QED
  BY <1>1, <1>2, <1>3 DEF SigInv

LEMMA HandlerKeeps ==
  ASSUME SigInv, NEW r \in Request, Sig!TypeOK', RequestInv(r)',
         \A q \in Request \ {r} :
           pc'[q] = pc[q] /\ reply'[q] = reply[q] /\ got'[q] = got[q] /\ body'[q] = body[q],
         UNCHANGED <<born, info, sess, answer, lost>>
  PROVE  SigInv'
<1>1. \A q \in Request : RequestInv(q)'
  <2> TAKE q \in Request
  <2>1. CASE q # r
    BY <2>1, OtherRequest DEF SigInv
  <2> QED
    BY <2>1
<1>2. AnswersDiffer' /\ Booked'
  BY DEF SigInv, AnswersDiffer, Booked
<1> QED
  BY <1>1, <1>2 DEF SigInv

LEMMA HandlerSteps ==
  ASSUME SigInv, NEW r \in Request, lost' = lost,
         \/ Sig!Arrive(r) \/ Sig!OfferRead(r) \/ Sig!OfferBad(r) \/ Sig!BackendFails(r)
         \/ Sig!RegisterFull(r) \/ Sig!WriteReply(r)
  PROVE  SigInv'
<1>1. Sig!TypeOK /\ RequestInv(r)
  BY DEF SigInv
<1> USE DEF Sig!tableVars
<1>2. CASE Sig!Arrive(r) \/ Sig!OfferRead(r)
  <2>1. Sig!TypeOK'
    BY <1>1, <1>2 DEF Sig!TypeOK, Sig!Arrive, Sig!OfferRead, Sig!Running
  <2>2. RequestInv(r)'
    BY <1>1, <1>2
    DEF RequestInv, ReadOf, Parsed, Sig!TypeOK, Sig!Arrive, Sig!OfferRead, Undecided
  <2> QED
    BY <1>1, <1>2, <2>1, <2>2, HandlerKeeps DEF Sig!TypeOK, Sig!Arrive, Sig!OfferRead
<1>3. CASE Sig!OfferBad(r) \/ Sig!BackendFails(r) \/ Sig!RegisterFull(r)
  <2>1. Sig!TypeOK'
    BY <1>1, <1>3
    DEF Sig!TypeOK, Sig!OfferBad, Sig!BackendFails, Sig!RegisterFull, Sig!Decide, Sig!Running,
        Sig!Replies, Sig!Errors
  <2>2. RequestInv(r)'
    BY <1>1, <1>3
    DEF RequestInv, ReadOf, Parsed, Sig!TypeOK, Sig!OfferBad, Sig!BackendFails,
        Sig!RegisterFull, Sig!Decide, Undecided
  <2> QED
    BY <1>1, <1>3, <2>1, <2>2, HandlerKeeps
    DEF Sig!TypeOK, Sig!OfferBad, Sig!BackendFails, Sig!RegisterFull, Sig!Decide
<1>4. CASE Sig!WriteReply(r)
  <2>1. Sig!TypeOK'
    BY <1>1, <1>4 DEF Sig!TypeOK, Sig!WriteReply, Sig!Running
  <2>2. RequestInv(r)'
    <3>1. pc[r] = "write" /\ pc'[r] = "done" /\ got'[r] \in {"nothing", reply[r]}
      BY <1>1, <1>4 DEF Sig!TypeOK, Sig!WriteReply
    <3>2. UNCHANGED <<info, sess, answer, body, reply>>
      BY <1>4 DEF Sig!WriteReply
    <3> QED
      BY <1>1, <3>1, <3>2 DEF RequestInv, ReadOf, Parsed, Undecided
  <2> QED
    BY <1>1, <1>4, <2>1, <2>2, HandlerKeeps DEF Sig!TypeOK, Sig!WriteReply
<1> QED
  BY <1>2, <1>3, <1>4

LEMMA BackendAnswersKeeps ==
  ASSUME SigInv, NEW r \in Request, Sig!BackendAnswers(r), lost' = lost
  PROVE  SigInv'
<1>1. Sig!TypeOK /\ RequestInv(r)
  BY DEF SigInv
<1>2. PICK a \in Answer \ {answer[q] : q \in Request} : answer' = [answer EXCEPT ![r] = a]
  BY DEF Sig!BackendAnswers
<1>3. Sig!TypeOK'
  BY <1>1, <1>2 DEF Sig!TypeOK, Sig!BackendAnswers, Sig!Running, Sig!tableVars
<1>4. RequestInv(r)'
  BY <1>1, <1>2
  DEF RequestInv, ReadOf, Parsed, Sig!TypeOK, Sig!BackendAnswers, Undecided, Sig!tableVars
<1>5. \A q \in Request : RequestInv(q)'
  <2> TAKE q \in Request
  <2>1. CASE q # r
    <3>1. /\ pc'[q] = pc[q] /\ answer'[q] = answer[q]
          /\ UNCHANGED <<sess, reply, got, body, info>>
      BY <1>1, <1>2, <2>1 DEF Sig!TypeOK, Sig!BackendAnswers, Sig!tableVars
    <3> QED
      BY <2>1, <3>1, OtherRequest DEF SigInv
  <2> QED
    BY <1>4, <2>1
<1>6. AnswersDiffer'
  BY <1>1, <1>2 DEF SigInv, AnswersDiffer, Sig!TypeOK
<1>7. Booked' /\ lost' \subseteq Request
  BY DEF SigInv, Booked, Sig!BackendAnswers, Sig!tableVars
<1> QED
  BY <1>3, <1>5, <1>6, <1>7 DEF SigInv

LEMMA PartsAreLines ==
  ASSUME NEW a \in Answer, NEW lines \in Parts(a)
  PROVE  lines \in Seq(Sig!Line)
<1>1. a.lines \in Seq(Sig!Line)
  BY SignalingConstants DEF Sig!Response
<1>2. PICK n \in 0 .. Len(a.lines) : lines = SubSeq(a.lines, 1, n)
  BY DEF Parts
<1>3. \A i \in 1 .. n : a.lines[i] \in Sig!Line
  BY <1>1
<1> QED
  BY <1>2, <1>3, SubSeqProperties

LEMMA AnswerReadKeeps ==
  ASSUME SigInv, NEW r \in Request, Sig!AnswerRead(r), lost' = lost
  PROVE  SigInv'
<1>1. Sig!TypeOK /\ RequestInv(r) /\ pc[r] = "answer"
  BY DEF SigInv, Sig!AnswerRead
<1>2. answer[r] \in Answer
  BY <1>1 DEF RequestInv
<1>3. PICK n \in 0 .. Len(answer[r].lines) :
        /\ body' = [body EXCEPT ![r] = SubSeq(answer[r].lines, 1, n)]
        /\ \/ Sig!Decide(r, "as BDS said")
           \/ /\ answer[r].isAnswer /\ ~Registrable(SubSeq(answer[r].lines, 1, n))
              /\ Sig!Decide(r, "rewritten answer")
           \/ /\ answer[r].isAnswer /\ Registrable(SubSeq(answer[r].lines, 1, n))
              /\ pc' = [pc EXCEPT ![r] = "register"] /\ reply' = reply
  BY DEF Sig!AnswerRead, Registrable
<1> DEFINE read == SubSeq(answer[r].lines, 1, n)
<1>4. read \in Parts(answer[r])
  BY DEF Parts
<1> HIDE DEF read
<1>5. body' = [body EXCEPT ![r] = read] /\ body'[r] = read
  BY <1>1, <1>3 DEF read, Sig!TypeOK
<1>6. UNCHANGED <<age, asked, answer, sess, present, got, phase, drain, tableVars>>
  BY DEF Sig!AnswerRead, Sig!tableVars, tableVars
<1>7. /\ pc' \in [Request -> Sig!Running \cup {"new", "done", "killed"}]
      /\ reply' \in [Request -> Sig!Replies \cup {"nothing"}]
  BY <1>1, <1>3 DEF Sig!TypeOK, Sig!Decide, Sig!Running, Sig!Replies, Sig!Errors
<1>8. Sig!TypeOK'
  <2>1. read \in Seq(Sig!Line)
    BY <1>2, <1>4, PartsAreLines
  <2> QED
    BY <1>1, <1>5, <1>6, <1>7, <2>1
    DEF Sig!TypeOK, tableVars, Sig!Session, Sig!NoExchange, Sig!NoResponse
<1>9. RequestInv(r)'
  <2>1. sess[r] = 0 /\ got[r] = "nothing" /\ reply[r] = "nothing" /\ r \notin lost
    BY <1>1 DEF RequestInv, Undecided
  <2>2. \/ pc'[r] = "write" /\ reply'[r] = "as BDS said"
        \/ /\ pc'[r] = "write" /\ reply'[r] = "rewritten answer"
           /\ answer[r].isAnswer /\ ~Registrable(read)
        \/ /\ pc'[r] = "register" /\ reply'[r] = "nothing"
           /\ answer[r].isAnswer /\ Registrable(read)
    BY <1>1, <1>3, <2>1 DEF Sig!Decide, Sig!TypeOK, read
  <2>3. answer'[r] = answer[r] /\ sess'[r] = 0 /\ got'[r] = "nothing"
    BY <1>6, <2>1
  <2>4. pc'[r] = "register" \/ reply'[r] = "rewritten answer" => ReadOf(r)'
    BY <1>2, <1>4, <1>5, <2>2, <2>3 DEF ReadOf
  <2> QED
    BY <1>2, <1>5, <2>1, <2>2, <2>3, <2>4 DEF RequestInv, Parsed, Undecided
<1>10. \A q \in Request \ {r} : pc'[q] = pc[q] /\ reply'[q] = reply[q] /\ body'[q] = body[q]
  BY <1>1, <1>3, <1>5 DEF Sig!Decide, Sig!TypeOK
<1> QED
  BY <1>6, <1>8, <1>9, <1>10, HandlerKeeps DEF tableVars

(* A restart: the handlers that were running and all sessions are gone. *)
LEMMA RestartKeeps ==
  ASSUME SigInv, Restart
  PROVE  SigInv'
<1>1. Sig!TypeOK
  BY DEF SigInv
<1>2. Sig!TypeOK'
  BY <1>1, ConstAssumption
  DEF Restart, Sig!TypeOK, Sig!Running, Sig!Session, Session, Sig!NoExchange, NoExchange,
      Sig!NoResponse
<1>3. \A r \in Request : RequestInv(r)'
  <2> TAKE r \in Request
  <2>1. RequestInv(r)
    BY DEF SigInv
  <2>2. /\ pc'[r] = (IF pc[r] \in Sig!Running THEN "killed" ELSE pc[r])
        /\ sess'[r] = 0 /\ (r \in lost' <=> r \in lost \/ sess[r] # 0)
        /\ answer'[r] = answer[r] /\ body'[r] = body[r] /\ reply'[r] = reply[r]
        /\ got'[r] = got[r]
    BY DEF Restart
  <2>3. got[r] # "nothing" => pc[r] = "done"
    BY <2>1 DEF RequestInv
  <2>4. pc'[r] \in Undecided => pc[r] = "new" /\ pc'[r] = "new"
    BY <2>2 DEF Undecided, Sig!Running
  <2>5. pc'[r] \notin {"body", "backend", "answer", "register"}
    BY <2>2 DEF Sig!Running
  <2>6. pc[r] = "done" => pc'[r] = "done"
    BY <2>2 DEF Sig!Running
  <2> QED
    BY <2>1, <2>2, <2>3, <2>4, <2>5, <2>6 DEF RequestInv, ReadOf, Parsed, Undecided
<1>4. AnswersDiffer' /\ Booked' /\ lost' \subseteq Request
  BY DEF Restart, SigInv, AnswersDiffer, Booked
<1> QED
  BY <1>2, <1>3, <1>4 DEF SigInv

LEMMA RegisterKeeps ==
  ASSUME SigInv, NEW r \in Request, Sig!RegisterSession(r), lost' = lost
  PROVE  /\ SigInv'
         /\ born' = born + 1 /\ info'[born'] = Sig!Join(Offer[r], body[r])
         /\ info'[born'] \in Exchange
<1>1. Sig!TypeOK /\ RequestInv(r) /\ pc[r] = "register"
  BY DEF SigInv, Sig!RegisterSession
<1> DEFINE x == Sig!Join(Offer[r], body[r])
<1>2. x \in Exchange
  <2>1. answer[r] \in Answer /\ answer[r].isAnswer /\ Registrable(body[r])
    BY <1>1 DEF RequestInv, Parsed, ReadOf
  <2>2. PICK n \in 0 .. Len(answer[r].lines) : body[r] = SubSeq(answer[r].lines, 1, n)
    BY <1>1 DEF RequestInv, Parsed, ReadOf, Parts
  <2> QED
    BY <2>1, <2>2, SignalingConstants DEF Registrable
<1> HIDE DEF x
<1>3. /\ born' = born + 1 /\ born + 1 \in 1 .. MaxRegistrations
      /\ info' = [info EXCEPT ![born + 1] = x] /\ sess' = [sess EXCEPT ![r] = born + 1]
      /\ pc' = [pc EXCEPT ![r] = "write"] /\ reply' = [reply EXCEPT ![r] = "rewritten answer"]
      /\ UNCHANGED <<age, asked, answer, body, present, got, phase, drain>>
  BY DEF Sig!RegisterSession, Sig!Register, Sig!Decide, Sig!Session, x
<1>4. born \in Nat /\ MaxRegistrations \in Nat /\ born \in 0 .. MaxRegistrations
  BY <1>1, ConstAssumption DEF Sig!TypeOK
<1>5. /\ born' = born + 1 /\ born + 1 # 0 /\ born + 1 \in 0 .. born + 1
      /\ born' \in 0 .. MaxRegistrations
      /\ 0 .. born \subseteq 0 .. born + 1 /\ 0 \notin 1 .. born
      /\ 1 .. born + 1 = (1 .. born) \cup {born + 1}
  <2>1. born' = born + 1 /\ born + 1 \in 1 .. MaxRegistrations
    BY <1>3
  <2> QED
    BY <1>4, <2>1
<1>6. info \in [1 .. MaxRegistrations -> Exchange \cup {Sig!NoExchange}]
  BY <1>1 DEF Sig!TypeOK, Sig!Session
<1>7. info' \in [1 .. MaxRegistrations -> Exchange \cup {Sig!NoExchange}]
      /\ info'[born + 1] = x
  BY <1>2, <1>3, <1>6
<1>8. \A t \in 1 .. born : info'[t] = info[t]
  <2> TAKE t \in 1 .. born
  <2>1. t \in 1 .. MaxRegistrations /\ t # born + 1
    BY <1>4
  <2> QED
    BY <1>3, <1>6, <2>1
<1>9. Sig!TypeOK'
  <2>1. sess' \in [Request -> 0 .. born']
    <3>1. sess \in [Request -> 0 .. born']
      BY <1>1, <1>5 DEF Sig!TypeOK
    <3>2. sess' = [sess EXCEPT ![r] = born + 1] /\ born + 1 \in 0 .. born'
      BY <1>3, <1>5
    <3> QED
      BY <3>1, <3>2
  <2>2. /\ pc' \in [Request -> Sig!Running \cup {"new", "done", "killed"}]
        /\ reply' \in [Request -> Sig!Replies \cup {"nothing"}]
    BY <1>1, <1>3 DEF Sig!TypeOK, Sig!Running, Sig!Replies
  <2> QED
    BY <1>1, <1>3, <1>5, <1>7, <2>1, <2>2
    DEF Sig!TypeOK, Sig!Session, Sig!NoExchange, Sig!NoResponse
<1>10. RequestInv(r)'
  <2>1. sess'[r] = born + 1 /\ pc'[r] = "write" /\ reply'[r] = "rewritten answer"
    BY <1>1, <1>3 DEF Sig!TypeOK
  <2>2. sess'[r] # 0
    BY <1>5, <2>1
  <2>3. info'[sess'[r]] = Sig!Join(Offer[r], body[r])
    BY <1>7, <2>1 DEF x
  <2>4. got'[r] = "nothing" /\ body'[r] = body[r] /\ answer'[r] = answer[r]
    BY <1>1, <1>3 DEF RequestInv, Undecided
  <2> QED
    BY <1>1, <2>1, <2>2, <2>3, <2>4 DEF RequestInv, Parsed, ReadOf, Undecided
<1>11. \A q \in Request : RequestInv(q)'
  <2> TAKE q \in Request
  <2>1. CASE q # r
    <3>1. /\ pc'[q] = pc[q] /\ sess'[q] = sess[q] /\ reply'[q] = reply[q]
          /\ UNCHANGED <<got, answer, body>>
      BY <1>1, <1>3, <2>1 DEF Sig!TypeOK
    <3>2. sess[q] # 0 => sess[q] \in 1 .. born
      BY <1>1, <1>4 DEF Sig!TypeOK
    <3> QED
      BY <1>8, <3>1, <3>2, OtherRequest DEF SigInv
  <2> QED
    BY <1>10, <2>1
<1>12. AnswersDiffer'
  BY <1>3 DEF SigInv, AnswersDiffer
<1>13. Booked'
  <2> SUFFICES ASSUME NEW t \in 1 .. born' PROVE \E q \in Request : sess'[q] = t
    BY DEF Booked
  <2>1. CASE t = born + 1
    BY <1>1, <1>3, <2>1 DEF Sig!TypeOK
  <2>2. CASE t \in 1 .. born
    <3>1. PICK q \in Request : sess[q] = t
      BY <2>2 DEF SigInv, Booked
    <3>2. sess[r] = 0 /\ t # 0
      BY <1>1, <1>5, <2>2 DEF RequestInv, Undecided
    <3> QED
      BY <1>1, <1>3, <3>1, <3>2 DEF Sig!TypeOK
  <2>3. t = born + 1 \/ t \in 1 .. born
    BY <1>5
  <2> QED
    BY <2>1, <2>2, <2>3
<1> QED
  BY <1>2, <1>3, <1>7, <1>9, <1>11, <1>12, <1>13 DEF SigInv, x

(* Every step of a handler is one of these. *)
LEMMA HandlersKeep ==
  ASSUME SigInv, NEW r \in Request, Handler(r)
  PROVE  /\ SigInv'
         /\ \/ UNCHANGED tableVars
            \/ Sig!RegisterSession(r)
<1>1. lost' = lost
  BY DEF Handler, worldVars
<1>2. CASE Sig!RegisterSession(r)
  BY <1>1, <1>2, RegisterKeeps
<1>3. CASE Sig!BackendAnswers(r)
  <2>1. UNCHANGED tableVars
    BY <1>3 DEF Sig!BackendAnswers, Sig!tableVars, tableVars
  <2> QED
    BY <1>1, <1>3, <2>1, BackendAnswersKeeps
<1>4. CASE Sig!AnswerRead(r)
  <2>1. UNCHANGED tableVars
    BY <1>4 DEF Sig!AnswerRead, Sig!tableVars, tableVars
  <2> QED
    BY <1>1, <1>4, <2>1, AnswerReadKeeps
<1>5. CASE \/ Sig!Arrive(r) \/ Sig!OfferRead(r) \/ Sig!OfferBad(r) \/ Sig!BackendFails(r)
           \/ Sig!RegisterFull(r) \/ Sig!WriteReply(r)
  <2>1. UNCHANGED tableVars
    BY <1>5
    DEF Sig!Arrive, Sig!OfferRead, Sig!OfferBad, Sig!BackendFails, Sig!RegisterFull,
        Sig!WriteReply, Sig!tableVars, tableVars
  <2> QED
    BY <1>1, <1>5, <2>1, HandlerSteps
<1> QED
  BY <1>2, <1>3, <1>4, <1>5 DEF Handler, Sig!EntersTable

-----------------------------------------------------------------------------
(* To the mux and the table, every step is one of Mux or a restart. *)

MuxInv == MP!TypeOK /\ MP!RoutingInv

(* A client that joins has read what BDS answered it. *)
LEMMA JoiningHasRead ==
  ASSUME SigInv, NEW r \in Request, Joining(r)
  PROVE  /\ pc[r] = "done" /\ ReadOf(r) /\ Registrable(body[r])
         /\ body[r] \in Seq(Sig!Line)
         /\ sess[r] # 0 \/ r \in lost
<1>1. RequestInv(r) /\ got[r] = "rewritten answer"
  BY DEF SigInv, Joining
<1>2. pc[r] = "done" /\ reply[r] = "rewritten answer" /\ ReadOf(r)
  BY <1>1 DEF RequestInv
<1>3. body[r] \in Seq(Sig!Line)
  BY DEF SigInv, Sig!TypeOK
<1>4. Registrable(body[r])
  BY <1>3, SigFacts DEF Joining, Usable
<1> QED
  BY <1>1, <1>2, <1>3, <1>4 DEF RequestInv

LEMMA SocketsOfAnswers ==
  ASSUME SigInv, NEW r \in Request, NEW b \in Sockets(answer[r].lines)
  PROVE  answer[r] \in Answer /\ b \in Addr
<1>1. answer[r] \in Answer
  <2>1. answer[r] \in Answer \cup {Sig!NoResponse}
    BY DEF SigInv, Sig!TypeOK
  <2>2. Sockets(Sig!NoResponse.lines) = {}
    BY DEF Sockets, Sig!NoResponse
  <2> QED
    BY <2>1, <2>2
<1>2. PICK i \in DOMAIN answer[r].lines :
        answer[r].lines[i].kind = "candidate" /\ b = AddrOf[answer[r].lines[i].val]
  BY DEF Sockets
<1>3. answer[r].lines[i] \in Sig!Line
  BY <1>1, SignalingConstants DEF Sig!Response
<1>4. answer[r].lines[i].val \in Cand \cup {MuxCand}
  BY <1>2, <1>3 DEF Sig!Line
<1> QED
  BY <1>1, <1>2, <1>4, SignalingConstants

LEMMA NetOfPackets ==
  ASSUME SigInv
  PROVE  Net \subseteq Packet
<1>1. ASSUME NEW r \in Request, Joining(r)
      PROVE  CheckOf(r) \in Packet
  <2>1. answer[r] \in Answer /\ body[r] \in Parts(answer[r]) /\ Usable(body[r])
    BY <1>1, JoiningHasRead DEF ReadOf, Joining
  <2> QED
    BY <2>1, PacketsSuffice DEF CheckOf
<1>2. ASSUME NEW r \in Request, NEW b \in Responding(r)
      PROVE  Response(b) \in Packet
  BY SocketsOfAnswers, PacketsSuffice DEF Responding
<1> QED
  BY <1>1, <1>2, ProxyAssumption DEF Net

LEMMA MuxVars == UNCHANGED <<tableVars, muxVars>> => UNCHANGED MP!vars
BY DEF MP!vars, MP!tableVars, MP!muxVars, tableVars, muxVars

LEMMA MuxNext == M!Next <=> MP!Next
<1>1. M!SomeRegister <=> MP!SomeRegister
  BY DEF M!SomeRegister, MP!SomeRegister, M!muxVars, MP!muxVars, M!Register, MP!Register,
         M!Session, MP!Session, M!LockFree, MP!LockFree, M!Touch, MP!Touch, M!gcVars, MP!gcVars,
         M!Publish, MP!Publish, M!IterationOrder, MP!IterationOrder, M!Rebuild, MP!Rebuild,
         M!LastOf, MP!LastOf, M!OfUfrag, MP!OfUfrag, M!OfPort, MP!OfPort, M!OfClient,
         MP!OfClient, M!BdsPorts, MP!BdsPorts, M!Cardinality, MP!Cardinality
<1> QED
  BY <1>1, MuxActions
  DEF M!Next, MP!Next, M!SomeReceive, MP!SomeReceive, M!MuxStep, MP!MuxStep, M!ClaimLocked,
      MP!ClaimLocked

LEMMA StepsOfMux ==
  ASSUME SigInv, Next
  PROVE  Restart \/ MP!Next \/ UNCHANGED <<tableVars, muxVars>>
<1>1. ASSUME NEW r \in Request, Handler(r)
      PROVE  MP!Next \/ UNCHANGED <<tableVars, muxVars>>
  <2>1. UNCHANGED muxVars
    BY <1>1 DEF Handler
  <2>2. CASE UNCHANGED tableVars
    BY <2>1, <2>2
  <2>3. CASE Sig!RegisterSession(r)
    <3> DEFINE x == Sig!Join(Offer[r], body[r])
    <3>1. Sig!Register(x) /\ pc[r] = "register" /\ lost' = lost
      BY <1>1, <2>3 DEF Sig!RegisterSession, Handler, worldVars
    <3>2. x \in Exchange
      BY <2>3, <3>1, RegisterKeeps
    <3>3. /\ sess[r] = 0 /\ answer[r] \in Answer /\ answer[r].isAnswer
          /\ body[r] \in Parts(answer[r]) /\ Registrable(body[r])
      BY <3>1 DEF SigInv, RequestInv, Undecided, Parsed, ReadOf
    <3>4. ASSUME NEW t \in 1 .. born PROVE info[t] # x
      <4>1. PICK q \in Request : sess[q] = t
        BY DEF SigInv, Booked
      <4>2. sess[q] # 0 /\ q # r
        <5>1. t # 0
          OBVIOUS
        <5> QED
          BY <3>3, <4>1, <5>1
      <4>3. /\ info[t] = Sig!Join(Offer[q], body[q]) /\ answer[q] \in Answer
            /\ body[q] \in Parts(answer[q]) /\ Registrable(body[q])
        BY <4>1, <4>2 DEF SigInv, RequestInv, Parsed, ReadOf
      <4>4. answer[q] # answer[r]
        BY <3>3, <4>2 DEF SigInv, AnswersDiffer
      <4> QED
        BY <3>3, <4>3, <4>4, FreshAnswers
    <3>5. x \in Exchange \ {info[t] : t \in 1 .. born}
      BY <3>2, <3>4
    <3>6. MP!Register(x) /\ UNCHANGED MP!muxVars
      BY <2>1, <3>1, SigRegister DEF MP!muxVars, muxVars
    <3> HIDE DEF x
    <3> QED
      BY <3>5, <3>6 DEF MP!Next, MP!SomeRegister
  <2> QED
    BY <1>1, <2>2, <2>3, HandlersKeep
<1>2. CASE Gc \/ Quieten
  BY <1>2, MuxActions DEF Gc, Quieten, MP!Next
<1>3. CASE Relay \/ Claim
  BY <1>3, MuxActions
  DEF Relay, Claim, M!MuxStep, MP!MuxStep, M!ClaimLocked, MP!ClaimLocked, MP!Next
<1>4. ASSUME NEW p \in Net, Receive(p)
      PROVE  MP!Next
  BY <1>4, MuxActions, NetOfPackets DEF Receive, MP!SomeReceive, MP!Next
<1> QED
  BY <1>1, <1>2, <1>3, <1>4 DEF Next

-----------------------------------------------------------------------------
(* The invariant of the whole, but for who converses with whom. *)

Written(ms) == \A m \in ms : m.to \in Addr /\ m.pkt \in Packet
IInv ==
  /\ SigInv /\ MuxInv
  /\ starts \in 1 .. MaxStarts
  /\ Written(toBds) /\ Written(toClient)

LEMMA Initially ==
  ASSUME Init
  PROVE  IInv
<1>1. M!Init
  BY DEF Init, Sig!Init, Sig!TableInit, M!Init, M!TableInit, Sig!EmptySnapshot, M!EmptySnapshot,
         Sig!Session, M!Session, Sig!NoExchange, M!NoExchange
<1>2. MuxInv
  BY <1>1, MuxInvariant DEF MuxInv
<1>3. starts \in 1 .. MaxStarts /\ Written(toBds) /\ Written(toClient)
  BY ProxyAssumption DEF Init, Written
<1> QED
  BY <1>2, <1>3, SigInitially DEF IInv

LEMMA MuxStarts == M!Init => MuxInv
BY MuxInvariant DEF MuxInv

LEMMA RestartStartsMux ==
  ASSUME Restart
  PROVE  MuxInv'
<1>1. M!Init'
  BY DEF Restart, M!Init, M!TableInit, M!MuxInit, M!EmptySnapshot, EmptySnapshot, M!Session,
         Session, M!NoExchange, NoExchange, M!NoOutcome
<1>2. M!Init' => MuxInv'
  BY MuxStarts, PTL
<1> QED
  BY <1>1, <1>2

(* What a step of the mux writes is the packet in hand, to the address of its   *)
(* outcome.                                                                   *)
LEMMA SentPackets ==
  ASSUME IInv, MuxInv', NEW m,
         m \in Sent(M!Relayed) \/ m \in Sent({"reply"})
  PROVE  m.to \in Addr /\ m.pkt \in Packet
<1>1. M!Finishing /\ m = [to |-> out'.to, pkt |-> pkt]
      /\ out'.verdict \in {"known", "claimOK", "reply"}
  BY DEF Sent, M!Relayed
<1>2. pkt \in Packet
  BY <1>1 DEF IInv, MuxInv, M!Finishing, MP!RoutingInv, MP!PacketInHand
<1>3. out' \in MP!Outcome
  BY DEF MuxInv, MP!TypeOK
<1>4. out'.to \in Addr
  BY <1>1, <1>3 DEF MP!Outcome, MP!Relayed, MP!Rejected, MP!Dropped
<1> QED
  BY <1>1, <1>2, <1>4

LEMMA Step ==
  ASSUME IInv, [Next]_vars
  PROVE  IInv'
<1>1. CASE Restart
  <2>1. SigInv' /\ MuxInv'
    BY <1>1, RestartKeeps, RestartStartsMux DEF IInv
  <2>2. starts' \in 1 .. MaxStarts
    BY <1>1, ProxyAssumption DEF IInv, Restart
  <2>3. Written(toBds)' /\ Written(toClient)'
    BY <1>1 DEF IInv, Restart, Written
  <2> QED
    BY <2>1, <2>2, <2>3 DEF IInv
<1>2. CASE ~Restart
  <2>1. MuxInv'
    <3>1. [MP!Next]_MP!vars
      BY <1>2, StepsOfMux, MuxVars DEF IInv, vars
    <3> QED
      BY <3>1, MuxInvariant DEF IInv, MuxInv
  <2>2. ASSUME NEW r \in Request, Handler(r)
        PROVE  IInv'
    <3>1. UNCHANGED <<starts, toBds, toClient>>
      BY <2>2 DEF Handler, worldVars
    <3> QED
      BY <2>1, <2>2, <3>1, HandlersKeep DEF IInv, Written
  <2>3. CASE UNCHANGED <<born, info, sigVars, lost, starts>>
    <3>1. SigInv'
      BY <2>3, SameRequests DEF IInv
    <3>2. CASE Writing
      <4>1. \A m \in toBds' \ toBds : m \in Sent(M!Relayed)
        BY <3>2 DEF Writing
      <4>2. \A m \in toClient' \ toClient : m \in Sent({"reply"})
        BY <3>2 DEF Writing
      <4>3. Written(toBds')
        BY <2>1, <4>1, SentPackets DEF IInv, Written
      <4>4. Written(toClient')
        BY <2>1, <4>2, SentPackets DEF IInv, Written
      <4> QED
        BY <2>1, <2>3, <3>1, <4>3, <4>4 DEF IInv, Written
    <3>3. CASE UNCHANGED <<toBds, toClient>>
      BY <2>1, <2>3, <3>1, <3>3 DEF IInv, Written
    <3>4. Writing \/ UNCHANGED <<toBds, toClient>> \/ \E r \in Request : Handler(r)
      BY <1>2 DEF Next, Gc, Quieten, Relay, Claim, Receive, vars, worldVars
    <3> QED
      BY <2>2, <3>2, <3>3, <3>4
  <2>4. UNCHANGED <<born, info, sigVars, lost, starts>> \/ \E r \in Request : Handler(r)
    <3>1. CASE Gc \/ Quieten
      BY <3>1
      DEF Gc, Quieten, M!GcStep, M!GcLock, M!GcLook, M!GcDelete, M!GcUnlock, M!Quieten,
          M!GoQuiet, worldVars
    <3>2. CASE Relay \/ Claim
      BY <3>2
      DEF Relay, Claim, Writing, M!MuxStep, M!RelayKnown, M!RelayReply, M!ClaimVerify,
          M!ClaimLocked, M!ClaimLearn, M!ClaimBind, M!ClaimRefuse, M!tableVars
    <3>3. CASE \E p \in Net : Receive(p)
      BY <3>3 DEF Receive, M!Receive, M!tableVars, worldVars
    <3>4. CASE UNCHANGED vars
      BY <3>4 DEF vars, tableVars, worldVars
    <3> QED
      BY <1>2, <3>1, <3>2, <3>3, <3>4 DEF Next
  <2> QED
    BY <2>2, <2>3, <2>4
<1> QED
  BY <1>1, <1>2

LEMMA Invariance == Spec => []IInv
BY Initially, Step, PTL DEF Spec

(* Every variable of Proxy always has its type; what comes to the mux is a      *)
(* packet, and no packet is written to a nil address.                          *)
THEOREM ProxyTypeCorrect == Spec => []TypeOK
<1>1. ASSUME IInv PROVE TypeOK
  <2>1. MP!TypeOK => M!TypeOK
    BY DEF M!TypeOK, MP!TypeOK, M!Session, MP!Session, M!NoExchange, MP!NoExchange, M!Snapshot,
           MP!Snapshot, M!Outcome, MP!Outcome, M!Relayed, MP!Relayed, M!Rejected, MP!Rejected,
           M!Dropped, MP!Dropped
  <2> QED
    BY <1>1, <2>1, NetOfPackets DEF IInv, MuxInv, SigInv, TypeOK, Written
<1> QED
  BY <1>1, Invariance, PTL

(* signaling.go registers, clients and BDS send, and all are for the mux and    *)
(* the table as Mux has them; a start finds them as the first did.  So what    *)
(* MuxProofs proves of one life of the mux is proved of each.                 *)
THEOREM ProxyIsMux == Spec => IsMux
<1>1. Init => M!Init
  BY DEF Init, Sig!Init, Sig!TableInit, M!Init, M!TableInit, Sig!EmptySnapshot, M!EmptySnapshot,
         Sig!Session, M!Session, Sig!NoExchange, M!NoExchange
<1>2. ASSUME IInv, [Next]_vars PROVE [M!Next \/ Restart]_<<tableVars, muxVars>>
  BY <1>2, StepsOfMux, MuxNext DEF IInv, vars
<1> QED
  BY <1>1, <1>2, Invariance, PTL DEF Spec, IsMux

-----------------------------------------------------------------------------
(* Whose is what.  A session that has learned an address has learned that of    *)
(* the client it was registered for, which has its answer; and the packet in    *)
(* hand is a third party's, the check of a client that has its answer, or a     *)
(* response of BDS.                                                           *)
Learned(r) ==
  sess[r] # 0 => addrs[sess[r]] \subseteq {Home[r]} /\ (addrs[sess[r]] # {} => Joining(r))
FromWorld(p) ==
  \/ p \in Stray
  \/ \E r \in Request : Joining(r) /\ p = CheckOf(r)
  \/ \E r \in Request : \E b \in Sockets(answer[r].lines) : p = Response(b)
ToItsBds(m) ==
  \E r \in Request : m.pkt.src = Home[r] /\ Joining(r) /\ m.to \in Sockets(answer[r].lines)
ToItsClient(m) ==
  \E r \in Request : m.to = Home[r] /\ Joining(r) /\ m.pkt.src \in Sockets(answer[r].lines)
OwnInv ==
  /\ \A r \in Request : Learned(r)
  /\ muxPc # "read" => FromWorld(pkt)
  /\ (\A m \in toBds : ToItsBds(m)) /\ (\A m \in toClient : ToItsClient(m))

(* What a part of an answer says, the answer says. *)
LEMMA PartsSayTheSame ==
  ASSUME NEW a \in Answer, NEW lines \in Parts(a)
  PROVE  /\ Sockets(lines) \subseteq Sockets(a.lines)
         /\ \A i \in DOMAIN lines : lines[i].kind = "ice-pwd" => lines[i].val \in Passwords(a)
<1>1. a.lines \in Seq(Sig!Line)
  BY SignalingConstants DEF Sig!Response
<1>2. PICK n \in 0 .. Len(a.lines) : lines = SubSeq(a.lines, 1, n)
  BY DEF Parts
<1>3. \A i \in DOMAIN lines : i \in DOMAIN a.lines /\ lines[i] = a.lines[i]
  BY <1>1, <1>2
<1> QED
  BY <1>3 DEF Sockets, Passwords

LEMMA BookedSession ==
  ASSUME IInv, NEW q \in Request, sess[q] # 0
  PROVE  /\ Parsed(q) /\ sess[q] \in 1 .. born /\ info[sess[q]] \in Exchange
         /\ info[sess[q]] = Sig!Join(Offer[q], body[q])
         /\ RelayTarget(info[sess[q]]) \in Sockets(answer[q].lines)
         /\ \A p \in BdsPorts(info[sess[q]]) :
              \E b \in Sockets(answer[q].lines) : PortOf[b] = p
<1> DEFINE x == info[sess[q]]
<1>1. Parsed(q) /\ x = Sig!Join(Offer[q], body[q]) /\ body[q] \in Seq(Sig!Line)
  BY DEF IInv, SigInv, RequestInv, Sig!TypeOK
<1>2. sess[q] \in 1 .. born
  <2>1. sess[q] \in 0 .. born
    BY DEF IInv, SigInv, Sig!TypeOK
  <2>2. born \in Nat
    BY ConstAssumption DEF IInv, SigInv, Sig!TypeOK
  <2> QED
    BY <2>1, <2>2
<1>3. x \in Exchange
  BY <1>2 DEF IInv, MuxInv, MP!RoutingInv, MP!SessionsWellFormed
<1>4. x.addrs = Sig!ParseCandidateAddrs(body[q])
  BY <1>1 DEF Sig!Join
<1>5. \A i \in DOMAIN x.addrs : x.addrs[i] \in Sockets(answer[q].lines)
  <2> TAKE i \in DOMAIN x.addrs
  <2>1. x.addrs[i] \in Sockets(body[q])
    BY <1>1, <1>4, SigFacts DEF Sockets
  <2> QED
    BY <1>1, <2>1, PartsSayTheSame DEF Parsed, ReadOf
<1>6. 1 \in DOMAIN x.addrs
  <2>1. x.addrs \in Seq(Addr) /\ x.addrs # << >>
    BY <1>3, ConstAssumption DEF ExchangeType
  <2> QED
    BY <2>1
<1> HIDE DEF x
<1>7. RelayTarget(x) \in Sockets(answer[q].lines)
  BY <1>5, <1>6 DEF RelayTarget
<1>8. \A p \in BdsPorts(x) : \E b \in Sockets(answer[q].lines) : PortOf[b] = p
  BY <1>5 DEF BdsPorts
<1> QED
  BY <1>1, <1>2, <1>3, <1>7, <1>8 DEF x

(* The password of a session is of the answer it was registered with, and so    *)
(* is the one a client makes its check with.                                  *)
LEMMA PasswordOfSession ==
  ASSUME IInv, NEW q \in Request, sess[q] # 0, info[sess[q]].pwd # NoPwd
  PROVE  info[sess[q]].pwd \in Passwords(answer[q]) /\ info[sess[q]].pwd \in Pwd
<1>1. /\ Parsed(q) /\ body[q] \in Seq(Sig!Line) /\ info[sess[q]] \in Exchange
      /\ info[sess[q]] = Sig!Join(Offer[q], body[q])
  BY BookedSession DEF IInv, SigInv, Sig!TypeOK
<1>2. info[sess[q]].pwd = Sig!FirstOf(body[q], "ice-pwd", NoPwd)
  BY <1>1 DEF Sig!Join
<1>3. PICK i \in DOMAIN body[q] :
        body[q][i].kind = "ice-pwd" /\ info[sess[q]].pwd = body[q][i].val
  BY <1>1, <1>2, SigFacts
<1>4. info[sess[q]].pwd \in Pwd
  BY <1>1, ConstAssumption DEF ExchangeType
<1> QED
  BY <1>1, <1>3, <1>4, PartsSayTheSame DEF Parsed, ReadOf

LEMMA PasswordOfCheck ==
  ASSUME IInv, NEW r \in Request, Joining(r)
  PROVE  CheckOf(r).mic \in Passwords(answer[r])
<1>1. ReadOf(r) /\ body[r] \in Seq(Sig!Line)
  BY JoiningHasRead DEF IInv
<1>2. Sig!FirstOf(body[r], "ice-pwd", NoPwd) # NoPwd
  BY DEF Joining, Usable
<1>3. PICK i \in DOMAIN body[r] :
        /\ body[r][i].kind = "ice-pwd"
        /\ \A other : Sig!FirstOf(body[r], "ice-pwd", other) = body[r][i].val
  BY <1>1, <1>2, SigFacts
<1>4. CheckOf(r).mic = body[r][i].val
  BY <1>3 DEF CheckOf, Check
<1> QED
  BY <1>1, <1>3, <1>4, PartsSayTheSame DEF ReadOf

(* So a password tells the request. *)
LEMMA PasswordTells ==
  ASSUME IInv, NEW q \in Request, sess[q] # 0, info[sess[q]].pwd # NoPwd,
         NEW r \in Request, Joining(r), CheckOf(r).mic = info[sess[q]].pwd
  PROVE  q = r
<1>1. answer[q] \in Answer /\ answer[q].isAnswer /\ answer[r] \in Answer
  BY BookedSession, JoiningHasRead DEF IInv, Parsed, ReadOf
<1>2. answer[q] = answer[r]
  BY <1>1, PasswordOfSession, PasswordOfCheck, FreshAnswers
<1> QED
  BY <1>1, <1>2 DEF IInv, SigInv, AnswersDiffer

(* A packet session q is verified against is the check of the client of q. *)
LEMMA VerifiedIsOwn ==
  ASSUME IInv, ~Insecure, FromWorld(pkt), NEW q \in Request, sess[q] # 0, MP!Verified(sess[q])
  PROVE  Joining(q) /\ pkt = CheckOf(q)
<1>1. info[sess[q]].pwd # NoPwd /\ pkt.mic = info[sess[q]].pwd
  BY DEF MP!Verified
<1>2. pkt.mic \in Passwords(answer[q]) /\ pkt.mic \in Pwd /\ answer[q] \in Answer
  BY <1>1, PasswordOfSession, BookedSession DEF Parsed, ReadOf
<1>3. pkt \notin Stray
  BY <1>2, OwnPasswords
<1>4. ~\E r \in Request : \E b \in Sockets(answer[r].lines) : pkt = Response(b)
  BY <1>2, MuxConstants DEF Response
<1>5. PICK r \in Request : Joining(r) /\ pkt = CheckOf(r)
  BY <1>3, <1>4 DEF FromWorld
<1> QED
  BY <1>1, <1>5, PasswordTells

(* What a client has, it keeps; so what has come into the world stays in it. *)
LEMMA ClientsKeep ==
  ASSUME IInv, [Next]_vars, NEW r \in Request
  PROVE  /\ Joining(r) => Joining(r)' /\ answer'[r] = answer[r] /\ CheckOf(r)' = CheckOf(r)
         /\ Sockets(answer[r].lines) # {} => answer'[r] = answer[r]
<1>1. Joining(r) => pc[r] = "done"
  BY JoiningHasRead DEF IInv
<1>2. pc[r] = "backend" => Sockets(answer[r].lines) = {}
  <2>1. pc[r] = "backend" => answer[r] = Sig!NoResponse
    BY DEF IInv, SigInv, RequestInv
  <2> QED
    BY <2>1 DEF Sockets, Sig!NoResponse
<1>3. /\ pc[r] = "done" => UNCHANGED <<got[r], body[r], answer[r]>>
      /\ pc[r] # "backend" => UNCHANGED answer[r]
  <2>1. ASSUME NEW q \in Request, Handler(q)
        PROVE  /\ pc[r] = "done" => UNCHANGED <<got[r], body[r], answer[r]>>
               /\ pc[r] # "backend" => UNCHANGED answer[r]
    <3>1. Sig!TypeOK
      BY DEF IInv, SigInv
    <3>2. CASE Sig!BackendAnswers(q)
      BY <3>1, <3>2 DEF Sig!TypeOK, Sig!BackendAnswers
    <3>3. CASE Sig!AnswerRead(q)
      BY <3>1, <3>3 DEF Sig!TypeOK, Sig!AnswerRead
    <3>4. CASE Sig!WriteReply(q)
      BY <3>1, <3>4 DEF Sig!TypeOK, Sig!WriteReply
    <3> QED
      BY <2>1, <3>2, <3>3, <3>4
      DEF Handler, Sig!Arrive, Sig!OfferRead, Sig!OfferBad, Sig!BackendFails, Sig!EntersTable,
          Sig!RegisterSession, Sig!RegisterFull
  <2>2. CASE ~\E q \in Request : Handler(q)
    BY <2>2 DEF Next, Gc, Quieten, Relay, Claim, Writing, Receive, Restart, vars, sigVars
  <2> QED
    BY <2>1, <2>2
<1>4. Joining(r) => Joining(r)' /\ answer'[r] = answer[r] /\ body'[r] = body[r]
  BY <1>1, <1>3 DEF Joining
<1>5. body'[r] = body[r] => CheckOf(r)' = CheckOf(r)
  BY DEF CheckOf, Check
<1> QED
  BY <1>2, <1>3, <1>4, <1>5

LEMMA WorldKeeps ==
  ASSUME IInv, [Next]_vars
  PROVE  /\ \A p : FromWorld(p) => FromWorld(p)'
         /\ \A m : (ToItsBds(m) => ToItsBds(m)') /\ (ToItsClient(m) => ToItsClient(m)')
<1>1. \A r \in Request : Joining(r) =>
        Joining(r)' /\ answer'[r] = answer[r] /\ CheckOf(r)' = CheckOf(r)
  BY ClientsKeep
<1>2. \A r \in Request : Sockets(answer[r].lines) # {} => answer'[r] = answer[r]
  BY ClientsKeep
<1> QED
  BY <1>1, <1>2 DEF FromWorld, ToItsBds, ToItsClient

(* What the mux writes. *)
LEMMA ForwardedToOwn ==
  ASSUME IInv, OwnInv, ~Insecure, M!RelayKnown \/ M!ClaimLearn
  PROVE  /\ out'.verdict \in M!Relayed
         /\ ToItsBds([to |-> out'.to, pkt |-> pkt])
<1>1. muxPc # "read"
  BY DEF M!RelayKnown, M!ClaimLearn
<1>2. FromWorld(pkt) /\ pkt.src \in Addr
  BY <1>1, MuxConstants DEF IInv, OwnInv, MuxInv, MP!RoutingInv, MP!PacketInHand
<1>3. \E s \in 1 .. born :
        /\ out'.verdict \in {"known", "claimOK"} /\ out'.to = RelayTarget(info[s])
        /\ \/ pkt.src \in addrs[s]
           \/ MP!Verified(s)
  <2>1. CASE M!RelayKnown
    <3>1. PICK s \in snap.byClient[pkt.src] :
            out'.verdict = "known" /\ out'.to = RelayTarget(info[s])
      BY <2>1 DEF M!RelayKnown, M!KnownSession, M!Finish, M!RelayTarget, RelayTarget
    <3>2. s \in 1 .. born /\ pkt.src \in addrs[s]
      BY <1>1, <1>2, <3>1
      DEF IInv, MuxInv, MP!RoutingInv, MP!PacketInHand, MP!Sound, MP!OfClient
    <3> QED
      BY <3>1, <3>2
  <2>2. CASE M!ClaimLearn
    <3>1. PICK s \in cand : out'.verdict = "claimOK" /\ out'.to = RelayTarget(info[s])
      BY <2>2 DEF M!ClaimLearn, M!Finish, M!RelayTarget, RelayTarget
    <3>2. MP!Verified(s) /\ s \in 1 .. born
      BY <2>2 DEF M!ClaimLearn, IInv, MuxInv, MP!RoutingInv, MP!PacketInHand, MP!Verified
    <3> QED
      BY <3>1, <3>2
  <2> QED
    BY <2>1, <2>2
<1>4. PICK s \in 1 .. born :
        /\ out'.verdict \in {"known", "claimOK"} /\ out'.to = RelayTarget(info[s])
        /\ \/ pkt.src \in addrs[s]
           \/ MP!Verified(s)
  BY <1>3
<1>5. PICK q \in Request : sess[q] = s
  BY DEF IInv, SigInv, Booked
<1>6. sess[q] # 0
  <2>1. s # 0
    OBVIOUS
  <2> QED
    BY <1>5, <2>1
<1>7. pkt.src = Home[q] /\ Joining(q)
  <2>1. CASE pkt.src \in addrs[s]
    BY <1>5, <1>6, <2>1 DEF OwnInv, Learned
  <2>2. CASE MP!Verified(s)
    BY <1>2, <1>5, <1>6, <2>2, VerifiedIsOwn DEF CheckOf, Check
  <2> QED
    BY <1>4, <2>1, <2>2
<1>8. out'.to \in Sockets(answer[q].lines)
  BY <1>4, <1>5, <1>6, BookedSession
<1> QED
  BY <1>4, <1>7, <1>8 DEF ToItsBds, M!Relayed

LEMMA WorldSends ==
  ASSUME IInv, FromWorld(pkt)
  PROVE  pkt.src \in Senders
<1>1. CASE pkt \in Stray
  BY <1>1 DEF Senders
<1>2. ASSUME NEW r \in Request, pkt = CheckOf(r)
      PROVE  pkt.src \in Senders
  BY <1>2 DEF Senders, CheckOf, Check
<1>3. ASSUME NEW r \in Request, NEW b \in Sockets(answer[r].lines), pkt = Response(b)
      PROVE  pkt.src \in Senders
  BY <1>3, SocketsOfAnswers DEF IInv, Senders, Response
<1> QED
  BY <1>1, <1>2, <1>3 DEF FromWorld

LEMMA RepliedToOwn ==
  ASSUME IInv, OwnInv, M!RelayReply, out'.verdict # "noClientYet"
  PROVE  /\ out'.verdict = "reply"
         /\ ToItsClient([to |-> out'.to, pkt |-> pkt])
<1>1. muxPc = "relay" /\ pkt \in Packet
  BY DEF M!RelayReply, IInv, MuxInv, MP!RoutingInv, MP!PacketInHand
<1>2. pkt.src \in Addr /\ PortOf[pkt.src] \in Port
  BY <1>1, MuxConstants, ConstAssumption
<1>3. PICK s \in snap.byBdsPort[PortOf[pkt.src]] :
        /\ pkt.src \in Local /\ clientAddr[s] # NoAddr
        /\ out'.verdict = "reply" /\ out'.to = clientAddr[s]
  BY DEF M!RelayReply, M!ReplySession, M!Finish
<1>4. s \in 1 .. born /\ PortOf[pkt.src] \in MP!BdsPorts(info[s])
  BY <1>1, <1>2, <1>3 DEF IInv, MuxInv, MP!RoutingInv, MP!PacketInHand, MP!Sound, MP!OfPort
<1>5. PICK q \in Request : sess[q] = s
  BY <1>4 DEF IInv, SigInv, Booked
<1>6. sess[q] # 0
  <2>1. s # 0
    BY <1>4
  <2> QED
    BY <1>5, <2>1
<1>7. out'.to \in addrs[s]
  <2>1. s \in MP!Session
    <3>1. born \in 0 .. MaxRegistrations
      BY DEF IInv, MuxInv, MP!TypeOK
    <3> QED
      BY <1>4, <3>1, ConstAssumption DEF MP!Session
  <2> QED
    BY <1>3, <2>1 DEF IInv, MuxInv, MP!RoutingInv, MP!SessionsWellFormed
<1>8. out'.to = Home[q] /\ Joining(q)
  BY <1>5, <1>6, <1>7 DEF OwnInv, Learned
<1>9. pkt.src \in Sockets(answer[q].lines)
  <2>1. PICK b \in Sockets(answer[q].lines) : PortOf[b] = PortOf[pkt.src]
    BY <1>4, <1>5, <1>6, BookedSession DEF BdsPorts, MP!BdsPorts
  <2>2. answer[q] \in Answer
    BY <1>6, BookedSession DEF Parsed, ReadOf
  <2>3. pkt.src \in Senders \cap Local
    BY <1>1, <1>3, WorldSends DEF OwnInv
  <2> QED
    BY <2>1, <2>2, <2>3, OwnPorts
<1> QED
  BY <1>3, <1>8, <1>9 DEF ToItsClient

LEMMA RefusedGoesNowhere ==
  ASSUME M!ClaimVerify \/ M!ClaimRefuse, M!Finishing
  PROVE  out'.verdict \notin M!Relayed \cup {"reply"}
<1>1. CASE M!ClaimVerify
  <2> DEFINE verdict == M!ClaimVerdict(pkt, M!LookupByUsername(cur, pkt.user))
  <2>1. verdict # "claimOK" /\ out'.verdict = verdict
    BY <1>1 DEF M!ClaimVerify, M!Finish, M!Finishing
  <2>2. verdict # "known" /\ verdict # "reply"
    BY DEF M!ClaimVerdict
  <2> QED
    BY <2>1, <2>2 DEF M!Relayed
<1>2. CASE M!ClaimRefuse
  BY <1>2 DEF M!ClaimRefuse, M!Finish, M!Relayed
<1> QED
  BY <1>1, <1>2

LEMMA WritesToOwn ==
  ASSUME IInv, OwnInv, ~Insecure, Relay \/ Claim
  PROVE  /\ \A m \in Sent(M!Relayed) : ToItsBds(m)
         /\ \A m \in Sent({"reply"}) : ToItsClient(m)
<1>1. CASE M!RelayKnown \/ M!ClaimLearn
  <2>1. out'.verdict \in M!Relayed /\ ToItsBds([to |-> out'.to, pkt |-> pkt])
    BY <1>1, ForwardedToOwn
  <2>2. out'.verdict \notin {"reply"}
    BY <2>1 DEF M!Relayed
  <2> QED
    BY <2>1, <2>2 DEF Sent
<1>2. CASE M!RelayReply /\ out'.verdict # "noClientYet"
  <2>1. out'.verdict = "reply" /\ ToItsClient([to |-> out'.to, pkt |-> pkt])
    BY <1>2, RepliedToOwn
  <2>2. out'.verdict \notin M!Relayed
    BY <2>1 DEF M!Relayed
  <2> QED
    BY <2>1, <2>2 DEF Sent
<1>3. CASE out'.verdict = "noClientYet"
  BY <1>3 DEF Sent, M!Relayed
<1>4. CASE M!ClaimVerify \/ M!ClaimRefuse
  BY <1>4, RefusedGoesNowhere DEF Sent
<1> QED
  BY <1>1, <1>2, <1>3, <1>4 DEF Relay, Claim, M!MuxStep, M!ClaimLocked

(* A session learns only the address of its own client. *)
LEMMA LearnsOwn ==
  ASSUME IInv, OwnInv, ~Insecure, [Next]_vars
  PROVE  \A r \in Request : Learned(r)'
<1>1. \A r \in Request : Learned(r) /\ (Joining(r) => Joining(r)')
  BY ClientsKeep DEF OwnInv
<1>2. CASE UNCHANGED <<addrs, sess>>
  BY <1>1, <1>2 DEF Learned
<1>3. CASE Restart
  BY <1>3 DEF Restart, Learned
<1>4. ASSUME NEW q \in Request, Handler(q), Sig!RegisterSession(q)
      PROVE  \A r \in Request : Learned(r)'
  <2>1. /\ addrs' = addrs /\ sess' = [sess EXCEPT ![q] = born + 1]
        /\ born + 1 \in 1 .. MaxRegistrations
    BY <1>4 DEF Sig!RegisterSession, Sig!Register, Sig!Session
  <2>2. born \in Nat
    BY ConstAssumption DEF IInv, SigInv, Sig!TypeOK
  <2>3. born + 1 > born
    BY <2>2
  <2>4. addrs[born + 1] = {}
    BY <2>1, <2>3 DEF IInv, MuxInv, MP!RoutingInv, MP!SessionsWellFormed, MP!Session
  <2>5. \A r \in Request : sess'[r] = IF r = q THEN born + 1 ELSE sess[r]
    BY <2>1 DEF IInv, SigInv, Sig!TypeOK
  <2> QED
    BY <1>1, <2>1, <2>4, <2>5 DEF Learned
<1>5. CASE Claim /\ M!ClaimLearn
  <2>1. PICK s \in cand : /\ s \in sessions
                          /\ addrs' = [addrs EXCEPT ![s] = addrs[s] \cup {pkt.src}]
    BY <1>5 DEF M!ClaimLearn, M!ClaimBind
  <2>2. MP!Verified(s) /\ s \in 1 .. born /\ FromWorld(pkt)
    BY <1>5
    DEF M!ClaimLearn, IInv, MuxInv, MP!RoutingInv, MP!PacketInHand, MP!Verified, OwnInv
  <2>3. sess' = sess
    BY <1>5 DEF Claim, Writing, sigVars
  <2>4. ASSUME NEW r \in Request, sess[r] = s
        PROVE  Learned(r)'
    <3>1. sess[r] # 0
      <4>1. s # 0
        BY <2>2
      <4> QED
        BY <2>4, <4>1
    <3>2. Joining(r) /\ pkt.src = Home[r]
      BY <2>2, <2>4, <3>1, VerifiedIsOwn DEF CheckOf, Check
    <3>3. addrs'[s] \subseteq addrs[s] \cup {pkt.src}
      BY <2>1
    <3> QED
      BY <1>1, <2>3, <2>4, <3>1, <3>2, <3>3 DEF Learned
  <2>5. ASSUME NEW r \in Request, sess[r] # s
        PROVE  Learned(r)'
    <3>1. addrs'[sess[r]] = addrs[sess[r]]
      BY <2>1, <2>5
    <3> QED
      BY <1>1, <2>3, <3>1 DEF Learned
  <2> QED
    BY <2>4, <2>5
<1>6. \/ UNCHANGED <<addrs, sess>> \/ Restart
      \/ \E q \in Request : Handler(q) /\ Sig!RegisterSession(q)
      \/ Claim /\ M!ClaimLearn
  <2>1. ASSUME NEW q \in Request, Handler(q), ~Sig!RegisterSession(q)
        PROVE  UNCHANGED <<addrs, sess>>
    BY <2>1
    DEF Handler, Sig!Arrive, Sig!OfferRead, Sig!OfferBad, Sig!BackendFails,
        Sig!BackendAnswers, Sig!AnswerRead, Sig!EntersTable, Sig!RegisterFull, Sig!WriteReply,
        Sig!tableVars
  <2>2. CASE Gc \/ Quieten
    BY <2>2
    DEF Gc, Quieten, M!GcStep, M!GcLock, M!GcLook, M!GcDelete, M!GcUnlock, M!Quieten,
        M!GoQuiet, sigVars
  <2>3. CASE Relay \/ (Claim /\ ~M!ClaimLearn)
    BY <2>3
    DEF Relay, Claim, Writing, M!MuxStep, M!RelayKnown, M!RelayReply, M!ClaimVerify,
        M!ClaimLocked, M!ClaimRefuse, M!tableVars, sigVars
  <2>4. CASE (\E p \in Net : Receive(p)) \/ UNCHANGED vars
    BY <2>4 DEF Receive, M!Receive, M!tableVars, vars, tableVars, sigVars
  <2> QED
    BY <2>1, <2>2, <2>3, <2>4 DEF Next
<1> QED
  BY <1>2, <1>3, <1>4, <1>5, <1>6

LEMMA OwnStep ==
  ASSUME IInv, OwnInv, ~Insecure, [Next]_vars
  PROVE  OwnInv'
<1>1. (muxPc # "read" => FromWorld(pkt))'
  <2>1. CASE muxPc # "read" /\ pkt' = pkt
    BY <2>1, WorldKeeps DEF OwnInv
  <2>2. ASSUME NEW p \in Net, Receive(p)
        PROVE  FromWorld(pkt)'
    <3>1. FromWorld(p)
      BY DEF Net, FromWorld, Responding
    <3>2. pkt' = p
      BY <2>2 DEF Receive, M!Receive
    <3>3. FromWorld(p)'
      BY <3>1, WorldKeeps
    <3> QED
      BY <3>2, <3>3 DEF FromWorld
  <2>3. \/ muxPc' = "read" \/ (muxPc # "read" /\ pkt' = pkt)
        \/ \E p \in Net : Receive(p)
    <3>1. CASE UNCHANGED muxVars
      BY <3>1 DEF muxVars
    <3>2. CASE Relay \/ Claim
      BY <3>2
      DEF Relay, Claim, M!MuxStep, M!RelayKnown, M!RelayReply, M!ClaimVerify, M!ClaimLocked,
          M!ClaimLearn, M!ClaimRefuse, M!Finish
    <3>3. CASE Restart
      BY <3>3 DEF Restart
    <3>4. UNCHANGED muxVars \/ Relay \/ Claim \/ Restart \/ \E p \in Net : Receive(p)
      BY DEF Next, Handler, Gc, Quieten, M!GcStep, M!Quieten, M!muxVars, muxVars, vars
    <3> QED
      BY <3>1, <3>2, <3>3, <3>4
  <2> QED
    BY <2>1, <2>2, <2>3
<1>2. (\A m \in toBds' : ToItsBds(m)') /\ (\A m \in toClient' : ToItsClient(m)')
  <2>1. (\A m \in toBds : ToItsBds(m)') /\ (\A m \in toClient : ToItsClient(m)')
    BY WorldKeeps DEF OwnInv
  <2>2. CASE Relay \/ Claim
    <3>1. /\ \A m \in Sent(M!Relayed) : ToItsBds(m)'
          /\ \A m \in Sent({"reply"}) : ToItsClient(m)'
      BY <2>2, WritesToOwn, WorldKeeps
    <3>2. toBds' = toBds \cup Sent(M!Relayed) /\ toClient' = toClient \cup Sent({"reply"})
      BY <2>2 DEF Relay, Claim, Writing
    <3> QED
      BY <2>1, <3>1, <3>2
  <2>3. CASE UNCHANGED <<toBds, toClient>>
    BY <2>1, <2>3
  <2>4. Relay \/ Claim \/ UNCHANGED <<toBds, toClient>>
    BY DEF Next, Handler, Gc, Quieten, Receive, Restart, worldVars, vars
  <2> QED
    BY <2>2, <2>3, <2>4
<1> QED
  BY <1>1, <1>2, LearnsOwn DEF OwnInv, ToItsBds, ToItsClient

-----------------------------------------------------------------------------
LEMMA OwnInvariance ==
  ASSUME ~Insecure
  PROVE  Spec => []OwnInv
<1>1. Init => OwnInv
  BY DEF Init, Sig!Init, M!MuxInit, OwnInv, Learned
<1>2. IInv /\ OwnInv /\ [Next]_vars => OwnInv'
  BY OwnStep
<1> QED
  BY <1>1, <1>2, Invariance, PTL DEF Spec

(* relayPacket, claim: the proxy keeps the players apart.  Without               *)
(* -insecure-claim what it writes to BDS is from the client of that answer, what *)
(* it writes to a client is from BDS's sockets of its answer, and nobody else is *)
(* written to: for any packets of others, through gc and restarts.            *)
THEOREM ConversationsAreOwn ==
  ASSUME ~Insecure
  PROVE  Spec => []OwnConversation
<1>1. OwnInv => OwnConversation
  BY DEF OwnInv, OwnConversation, ToItsBds, ToItsClient
<1> QED
  BY <1>1, OwnInvariance, PTL

(* The check of a client whose session is live finds a session. *)
LEMMA OwnSessionFound ==
  ASSUME IInv, NEW r \in Request, Joining(r), pkt = CheckOf(r), sess[r] \in sessions
  PROVE  M!LookupByUsername(cur, pkt.user) # {}
<1> DEFINE u == Sig!FirstOf(body[r], "ice-ufrag", NoUfrag)
<1>1. sess[r] \in 1 .. born
  BY DEF IInv, MuxInv, MP!RoutingInv, MP!SessionsWellFormed
<1>2. sess[r] # 0
  BY <1>1
<1>3. info[sess[r]] \in Exchange /\ info[sess[r]].sufrag = u /\ u # NoUfrag
  <2>1. u # NoUfrag
    BY DEF Joining, Usable
  <2>2. info[sess[r]] \in Exchange /\ info[sess[r]] = Sig!Join(Offer[r], body[r])
    BY <1>2, BookedSession
  <2>3. Sig!Join(Offer[r], body[r]).sufrag = u
    BY DEF Sig!Join
  <2> QED
    BY <2>1, <2>2, <2>3
<1>4. u \in Ufrag
  BY <1>3, ConstAssumption DEF ExchangeType
<1> HIDE DEF u
<1>5. cur.byUfrag[u] # {}
  BY <1>3, <1>4 DEF IInv, MuxInv, MP!RoutingInv, MP!KnowsUfrags, MP!OfUfrag
<1>6. pkt.user = <<u, Offer[r]>>
  BY DEF CheckOf, Check, u
<1> DEFINE hits == {i \in DOMAIN pkt.user : pkt.user[i] \in Ufrag /\ cur.byUfrag[pkt.user[i]] # {}}
           first == {i \in hits : \A j \in hits : i <= j}
<1>7. 1 \in hits /\ hits \subseteq {1, 2}
  BY <1>4, <1>5, <1>6
<1>8. 1 \in first
  <2> HIDE DEF hits
  <2> QED
    BY <1>7
<1>9. M!LookupByUsername(cur, pkt.user) = UNION {cur.byUfrag[pkt.user[i]] : i \in first}
  BY DEF M!LookupByUsername
<1>10. pkt.user[1] = u
  BY <1>6
<1> HIDE DEF first
<1> QED
  BY <1>5, <1>8, <1>9, <1>10

(* A check is refused for want of a session by the lookup, or because gc has     *)
(* come between the lookup and the lock.                                       *)
LEMMA RefusedForWant ==
  ASSUME IInv, Next, M!Finishing, out'.verdict = "claimNoSession"
  PROVE  \/ M!LookupByUsername(cur, pkt.user) = {}
         \/ muxPc = "claim" /\ \E s \in cand : s \notin sessions
<1>1. CASE Relay /\ M!ClaimVerify
  <2> DEFINE found == M!LookupByUsername(cur, pkt.user)
  <2>1. out'.verdict = M!ClaimVerdict(pkt, found)
    BY <1>1 DEF M!ClaimVerify, M!Finish, M!Finishing
  <2> HIDE DEF found
  <2>2. found = {}
    BY <2>1 DEF M!ClaimVerdict
  <2> QED
    BY <2>2 DEF found
<1>2. CASE Claim /\ M!ClaimRefuse
  BY <1>2 DEF M!ClaimRefuse, M!Finish
<1>3. CASE \/ M!RelayKnown \/ M!RelayReply \/ M!ClaimLearn
  BY <1>3 DEF M!RelayKnown, M!RelayReply, M!ClaimLearn, M!Finish
<1>4. CASE Restart
  BY <1>4 DEF Restart, M!NoOutcome
<1>5. Restart \/ Relay \/ Claim
  BY DEF Next, Handler, Gc, Quieten, M!GcStep, M!Quieten, M!muxVars, muxVars, Receive,
         M!Receive, M!Finishing
<1> QED
  BY <1>1, <1>2, <1>3, <1>4, <1>5 DEF Relay, Claim, M!MuxStep, M!ClaimLocked

(* handleSDPExchange registers a session before it writes the answer, and claim  *)
(* loads the snapshot anew: a client that has its answer may send a check at     *)
(* once.  Without -insecure-claim the check is refused for want of a session    *)
(* only if the session has been collected, or was lost in a restart.           *)
THEOREM NobodyIsTooEarly ==
  ASSUME ~Insecure
  PROVE  Spec => NeverTooEarly
<1> DEFINE A == M!Finishing /\ out'.verdict = "claimNoSession" =>
                  \A r \in Request : Joining(r) /\ pkt = CheckOf(r) => Gone(r)
<1>1. ASSUME IInv, OwnInv, Next, M!Finishing, out'.verdict = "claimNoSession",
             NEW r \in Request, Joining(r), pkt = CheckOf(r)
      PROVE  Gone(r)
  <2>1. sess[r] # 0 \/ r \in lost
    BY <1>1, JoiningHasRead DEF IInv
  <2>2. CASE M!LookupByUsername(cur, pkt.user) = {}
    BY <1>1, <2>1, <2>2, OwnSessionFound DEF Gone
  <2>3. CASE muxPc = "claim" /\ \E s \in cand : s \notin sessions
    <3>1. PICK s \in cand : s \notin sessions
      BY <2>3
    <3>2. MP!Verified(s) /\ s \in 1 .. born
      BY <1>1, <2>3 DEF IInv, MuxInv, MP!RoutingInv, MP!PacketInHand, MP!Verified
    <3>3. PICK q \in Request : sess[q] = s
      BY <1>1, <3>2 DEF IInv, SigInv, Booked
    <3>4. sess[q] # 0
      <4>1. s # 0
        BY <3>2
      <4> QED
        BY <3>3, <4>1
    <3>5. info[sess[q]].pwd # NoPwd /\ CheckOf(r).mic = info[sess[q]].pwd
      BY <1>1, <3>2, <3>3 DEF MP!Verified
    <3>6. q = r
      BY <1>1, <3>4, <3>5, PasswordTells
    <3> QED
      BY <3>1, <3>3, <3>4, <3>6 DEF Gone
  <2> QED
    BY <1>1, <2>2, <2>3, RefusedForWant
<1>2. IInv /\ OwnInv /\ [Next]_vars => [A]_vars
  BY <1>1
<1> QED
  BY <1>2, Invariance, OwnInvariance, PTL DEF Spec, NeverTooEarly

=============================================================================
