--------------------------- MODULE SignalingProofs ---------------------------
(***************************************************************************)
(* The safety properties of Signaling, for any number of requests, any       *)
(* answers of BDS and any timeouts.                                          *)
(***************************************************************************)
EXTENDS Signaling, SequenceTheorems, FiniteSetTheorems, NaturalsInduction, TLAPS

PartOf(lines, a) == \E n \in 0 .. Len(a.lines) : lines = SubSeq(a.lines, 1, n)

(* Before the handler of a request writes, nothing has come of it. *)
Undecided == {"new", "body", "backend", "answer", "register"}

RequestInv(r) ==
  /\ pc[r] \in Undecided => sess[r] = 0 /\ reply[r] = "nothing" /\ got[r] = "nothing"
  /\ pc[r] \in {"write", "done"} => reply[r] \in Replies
  /\ got[r] \in {"nothing", reply[r]}
  /\ asked[r] <= BackendTimeout
  /\ pc[r] \in {"answer", "register"} \/ sess[r] # 0 => answer[r] \in Answer
  /\ pc[r] = "register" \/ sess[r] # 0 =>
       /\ answer[r].isAnswer /\ PartOf(body[r], answer[r])
       /\ ParseCandidateAddrs(body[r]) # << >>
  /\ sess[r] # 0 => info[sess[r]] = Join(Offer[r], body[r])
  /\ reply[r] \in Errors => sess[r] = 0
  /\ reply[r] = "rewritten answer" /\ ParseCandidateAddrs(body[r]) # << >> => sess[r] # 0

AnswersDiffer ==
  \A r, q \in Request : r # q /\ answer[r].isAnswer => answer[r] # answer[q]

(* Every session there has been is that of a request. *)
Booked == \A t \in 1 .. born : \E r \in Request : sess[r] = t

IInv ==
  /\ TypeOK
  /\ \A r \in Request : RequestInv(r)
  /\ AnswersDiffer
  /\ Booked

-----------------------------------------------------------------------------
(* An answer that shows the client a candidate of the proxy has a candidate to  *)
(* register: the two expressions that look for candidates find the same lines. *)
LEMMA AdvertisedIsRegistered ==
  ASSUME NEW lines \in Seq(Line), Advertises(RewriteCandidates(lines))
  PROVE  ParseCandidateAddrs(lines) # << >>
<1> DEFINE cands == {i \in DOMAIN lines : lines[i].kind = "candidate"}
           texts == {lines[i].val : i \in cands}
<1>1. PICK i \in DOMAIN lines : lines[i].kind = "candidate"
  <2>1. PICK i \in DOMAIN RewriteCandidates(lines) :
          RewriteCandidates(lines)[i] = [kind |-> "candidate", val |-> MuxCand]
    BY DEF Advertises
  <2>2. i \in DOMAIN lines
    BY <2>1 DEF RewriteCandidates
  <2>3. CASE lines[i].kind # "candidate"
    <3>1. RewriteCandidates(lines)[i] = lines[i]
      BY <2>2, <2>3 DEF RewriteCandidates
    <3> QED
      BY <2>1, <2>3, <3>1
  <2> QED
    BY <2>2, <2>3
<1>2. IsFiniteSet(texts)
  <2>1. IsFiniteSet(cands)
    <3>1. IsFiniteSet(1 .. Len(lines)) /\ cands \subseteq 1 .. Len(lines)
      BY FS_Interval
    <3> QED
      BY <3>1, FS_Subset
  <2> DEFINE f == [k \in cands |-> lines[k].val]
  <2>2. f \in Surjection(cands, texts)
    BY DEF Surjection
  <2> HIDE DEF f, cands, texts
  <2> QED
    BY <2>1, <2>2, FS_Surjection
<1>3. Cardinality(texts) \in Nat /\ Cardinality(texts) # 0
  <2>1. texts # {}
    BY <1>1
  <2> HIDE DEF cands, texts
  <2> QED
    BY <1>2, <2>1, FS_CardinalityType, FS_EmptySet
<1>4. DOMAIN ParseCandidateAddrs(lines) = 1 .. Cardinality(texts)
  BY DEF ParseCandidateAddrs
<1>5. 1 \in DOMAIN ParseCandidateAddrs(lines)
  BY <1>3, <1>4
<1> QED
  BY <1>5

-----------------------------------------------------------------------------
(* A finite set of natural numbers can be listed in order.  This is by least    *)
(* counterexample, as the induction theorems cannot be instantiated.            *)
LEMMA LeastOf ==
  ASSUME NEW H \in SUBSET Nat, H # {}
  PROVE  \E j \in H : \A k \in H : j <= k
<1> DEFINE R == {ss \in Nat \X Nat : ss[1] < ss[2]}
<1>1. IsWellFoundedOn(R, Nat)
  BY NatLessThanWellFounded DEF OpToRel
<1> HIDE DEF R
<1>2. PICK j \in H : \A k \in H : <<k, j>> \notin R
  BY <1>1, WFMin
<1>3. \A k \in H : ~(k < j)
  BY <1>2 DEF R
<1> QED
  BY <1>3

Listing(s, U) ==
  /\ s \in [1 .. Cardinality(U) -> U]
  /\ \A k, m \in 1 .. Cardinality(U) : k < m => s[k] < s[m]

LEMMA Listable ==
  ASSUME NEW T \in SUBSET Nat, IsFiniteSet(T)
  PROVE  \E s : Listing(s, T)
<1> DEFINE Bad == {n \in Nat : \E U \in SUBSET T : Cardinality(U) = n /\ ~\E s : Listing(s, U)}
<1> SUFFICES ASSUME ~\E s : Listing(s, T)
             PROVE  FALSE
  OBVIOUS
<1>1. Bad # {}
  BY FS_CardinalityType
<1>2. PICK n \in Bad : \A k \in Bad : n <= k
  BY <1>1, LeastOf, Bad \subseteq Nat
<1>3. PICK U \in SUBSET T : Cardinality(U) = n /\ ~\E s : Listing(s, U)
  BY <1>2
<1>4. IsFiniteSet(U)
  BY FS_Subset
<1>5. U # {}
  <2> SUFFICES ASSUME U = {} PROVE FALSE
    OBVIOUS
  <2>1. Cardinality(U) = 0
    BY FS_EmptySet
  <2>2. Listing([k \in 1 .. 0 |-> k], U)
    BY <2>1 DEF Listing
  <2> QED
    BY <1>3, <2>2
<1>6. PICK m \in U : \A k \in U : m <= k
  BY <1>5, LeastOf, U \subseteq Nat
<1> DEFINE V == U \ {m}
<1>7. n \in Nat \ {0} /\ Cardinality(V) = n - 1
  BY <1>2, <1>3, <1>4, <1>5, FS_RemoveElement, FS_EmptySet
<1>8. n - 1 \notin Bad
  BY <1>2, <1>7
<1>9. PICK s : Listing(s, V)
  BY <1>7, <1>8
<1> DEFINE t == [k \in 1 .. n |-> IF k = 1 THEN m ELSE s[k - 1]]
<1>10. ASSUME NEW k \in 1 .. n, k # 1
       PROVE  k - 1 \in 1 .. n - 1 /\ s[k - 1] \in V
  <2>1. k - 1 \in 1 .. n - 1
    BY <1>7, <1>10
  <2>2. s \in [1 .. n - 1 -> V]
    BY <1>7, <1>9 DEF Listing
  <2> HIDE DEF V
  <2> QED
    BY <2>1, <2>2
<1>11. \A v \in V : m < v
  BY <1>6
<1>12. t \in [1 .. n -> U]
  BY <1>10
<1>13. ASSUME NEW k \in 1 .. n, NEW l \in 1 .. n, k < l
       PROVE  t[k] < t[l]
  <2>1. l # 1 /\ t[l] = s[l - 1]
    BY <1>7, <1>13
  <2>2. CASE k = 1
    BY <1>10, <1>11, <2>1, <2>2
  <2>3. CASE k # 1
    <3>1. k - 1 \in 1 .. n - 1 /\ l - 1 \in 1 .. n - 1 /\ k - 1 < l - 1
      BY <1>7, <1>13, <2>1, <2>3
    <3> QED
      BY <1>7, <1>9, <2>1, <2>3, <3>1 DEF Listing
  <2> QED
    BY <2>2, <2>3
<1>14. Listing(t, U)
  BY <1>3, <1>12, <1>13 DEF Listing
<1> QED
  BY <1>3, <1>14

(* What is registered as an address of BDS is that of a candidate of the answer:  *)
(* parseCandidateAddrs lists the candidates, and there is a way to list them.     *)
LEMMA ParsedAreCandidates ==
  ASSUME NEW lines \in Seq(Line), NEW k \in DOMAIN ParseCandidateAddrs(lines)
  PROVE  \E i \in DOMAIN lines :
           lines[i].kind = "candidate" /\ ParseCandidateAddrs(lines)[k] = AddrOf[lines[i].val]
<1> DEFINE cands == {i \in DOMAIN lines : lines[i].kind = "candidate"}
           texts == {lines[i].val : i \in cands}
           firsts == {i \in cands : \A j \in cands : lines[j].val = lines[i].val => i <= j}
           Before(c, d) == \E i \in cands :
             lines[i].val = c /\ \A j \in cands : lines[j].val = d => i < j
           n == Cardinality(texts)
           Ordered(s) == \A h, m \in DOMAIN s : h < m => Before(s[h], s[m])
           out == CHOOSE s \in [1 .. n -> texts] : Ordered(s)
<1>1. IsFiniteSet(firsts) /\ firsts \in SUBSET Nat
  <2>1. 1 \in Int /\ Len(lines) \in Int
    OBVIOUS
  <2>2. IsFiniteSet(1 .. Len(lines))
    BY <2>1, FS_Interval
  <2>3. firsts \in SUBSET (1 .. Len(lines))
    OBVIOUS
  <2> HIDE DEF firsts
  <2>4. IsFiniteSet(firsts)
    BY <2>2, <2>3, FS_Subset
  <2> QED
    BY <2>3, <2>4
<1>2. Cardinality(firsts) = n
  <2> DEFINE f == [i \in firsts |-> lines[i].val]
  <2>1. f \in [firsts -> texts]
    OBVIOUS
  <2>2. \A i, j \in firsts : f[i] = f[j] => i = j
    OBVIOUS
  <2>3. ASSUME NEW v \in texts PROVE \E i \in firsts : f[i] = v
    <3> DEFINE of == {i \in cands : lines[i].val = v}
    <3>1. of # {} /\ of \in SUBSET Nat
      OBVIOUS
    <3>2. PICK i \in of : \A j \in of : i <= j
      <4> HIDE DEF of
      <4> QED
        BY <3>1, LeastOf
    <3> QED
      BY <3>2
  <2>4. f \in Surjection(firsts, texts) /\ f \in Injection(firsts, texts)
    BY <2>1, <2>2, <2>3 DEF Surjection, Injection, IsInjective
  <2> HIDE DEF f, firsts, texts, cands
  <2> QED
    BY <1>1, <2>4, FS_Surjection
<1>3. PICK s : Listing(s, firsts)
  <2> HIDE DEF firsts
  <2> QED
    BY <1>1, Listable
<1> DEFINE t == [h \in 1 .. n |-> lines[s[h]].val]
<1>4. /\ s \in [1 .. n -> firsts]
      /\ \A h, m \in 1 .. n : h < m => s[h] < s[m]
  <2> HIDE DEF firsts, n
  <2> QED
    BY <1>2, <1>3 DEF Listing
<1>5. t \in [1 .. n -> texts]
  <2> HIDE DEF n
  <2> QED
    BY <1>4
<1>6. ASSUME NEW h \in 1 .. n, NEW m \in 1 .. n, h < m
      PROVE  Before(t[h], t[m])
  <2> HIDE DEF n
  <2>1. s[h] \in firsts /\ s[m] \in firsts /\ s[h] < s[m]
    BY <1>4, <1>6
  <2>2. \A j \in cands : lines[j].val = lines[s[m]].val => s[h] < j
    BY <2>1
  <2>3. s[h] \in cands /\ t[h] = lines[s[h]].val /\ t[m] = lines[s[m]].val
    BY <2>1
  <2> QED
    BY <2>2, <2>3
<1>7. out \in [1 .. n -> texts]
  <2>1. DOMAIN t = 1 .. n
    OBVIOUS
  <2>2. Ordered(t)
    <3> HIDE DEF Before, t
    <3> QED
      BY <1>6, <2>1
  <2> HIDE DEF Ordered, t, n, texts
  <2> QED
    BY <1>5, <2>2
<1>8. ParseCandidateAddrs(lines) = [h \in 1 .. n |-> AddrOf[out[h]]]
  BY DEF ParseCandidateAddrs
<1> HIDE DEF out, n
<1>9. out[k] \in texts /\ ParseCandidateAddrs(lines)[k] = AddrOf[out[k]]
  <2> HIDE DEF texts
  <2> QED
    BY <1>7, <1>8
<1> QED
  BY <1>9

(* firstSubmatch: the value of a line of that kind, or none. *)
LEMMA FirstOfKind ==
  ASSUME NEW lines \in Seq(Line), NEW kind, NEW none,
         FirstOf(lines, kind, none) # none
  PROVE  \E i \in DOMAIN lines :
           /\ lines[i].kind = kind
           /\ \A other : FirstOf(lines, kind, other) = lines[i].val
<1> DEFINE of == {i \in DOMAIN lines : lines[i].kind = kind}
<1>1. of # {} /\ of \in SUBSET Nat
  BY DEF FirstOf
<1>2. \E i \in of : \A j \in of : i <= j
  <2> HIDE DEF of
  <2> QED
    BY <1>1, LeastOf
<1> DEFINE first == CHOOSE i \in of : \A j \in of : i <= j
<1>3. first \in of
  <2> HIDE DEF of
  <2> QED
    BY <1>2
<1>4. \A other : FirstOf(lines, kind, other) = lines[first].val
  BY <1>1 DEF FirstOf
<1> QED
  BY <1>3, <1>4

(* The part of an answer a handler has read. *)
LEMMA PartsAreLines ==
  ASSUME NEW a \in Response, NEW n \in 0 .. Len(a.lines)
  PROVE  SubSeq(a.lines, 1, n) \in Seq(Line)
<1>1. a.lines \in Seq(Line)
  BY DEF Response
<1>2. \A i \in 1 .. n : a.lines[i] \in Line
  BY <1>1
<1> QED
  BY <1>2, SubSeqProperties

(* A request nothing happens to. *)
LEMMA OtherRequest ==
  ASSUME NEW q \in Request, RequestInv(q),
         pc'[q] = pc[q], sess'[q] = sess[q], reply'[q] = reply[q], got'[q] = got[q],
         asked'[q] = asked[q], answer'[q] = answer[q], body'[q] = body[q],
         sess[q] # 0 => info'[sess[q]] = info[sess[q]]
  PROVE  RequestInv(q)'
BY DEF RequestInv, PartOf

LEMMA Initially ==
  ASSUME Init
  PROVE  IInv
<1>1. TypeOK
  BY ConstAssumption DEF Init, TableInit, TypeOK, NoResponse
<1>2. \A r \in Request : RequestInv(r)
  BY SignalingAssumption DEF Init, RequestInv, Undecided, Errors
<1>3. AnswersDiffer
  BY DEF Init, AnswersDiffer, NoResponse
<1>4. Booked
  BY DEF Init, TableInit, Booked
<1> QED
  BY <1>1, <1>2, <1>3, <1>4 DEF IInv

-----------------------------------------------------------------------------
(* Steps that leave what a request has to do with the table as it is: those of  *)
(* gc, of the clients, and the end.                                            *)
LEMMA SameTable ==
  ASSUME IInv, TypeOK', born' = born, info' = info, sess' = sess, answer' = answer,
         body' = body, reply' = reply, got' = got,
         \A r \in Request : /\ pc'[r] \in {pc[r], "killed"}
                            /\ asked'[r] <= BackendTimeout
  PROVE  IInv'
<1>1. \A r \in Request : RequestInv(r)'
  <2> TAKE r \in Request
  <2>1. RequestInv(r) /\ pc'[r] \in {pc[r], "killed"} /\ asked'[r] <= BackendTimeout
    BY DEF IInv
  <2> QED
    BY <2>1 DEF RequestInv, Undecided, PartOf
<1>2. AnswersDiffer' /\ Booked'
  BY DEF IInv, AnswersDiffer, Booked
<1> QED
  BY <1>1, <1>2 DEF IInv

LEMMA OtherSteps ==
  ASSUME IInv,
         \/ \E r \in Request : HangUp(r)
         \/ \E s \in Session : Quieten(s)
         \/ GcStep \/ Tick \/ Signal \/ Exit \/ UNCHANGED vars
  PROVE  IInv'
<1> USE DEF IInv
<1>1. CASE \E r \in Request : HangUp(r)
  <2>1. TypeOK'
    BY <1>1 DEF TypeOK, HangUp, tableVars
  <2> QED
    BY <1>1, <2>1, SameTable DEF HangUp, RequestInv, tableVars
<1>2. CASE (\E s \in Session : Quieten(s)) \/ GcStep
  <2>1. born' = born /\ info' = info /\ UNCHANGED sigVars
    BY <1>2 DEF Quieten, GoQuiet, GcStep, GcLock, GcLook, GcDelete, GcUnlock
  <2>2. TypeOK'
    BY <2>1 DEF TypeOK, sigVars
  <2> QED
    BY <2>1, <2>2, SameTable DEF RequestInv, sigVars
<1>3. CASE Tick
  <2>1. TypeOK'
    <3>1. age' \in [Request -> Nat] /\ asked' \in [Request -> Nat] /\ drain' \in Nat
      <4>1. \A r \in Request : age[r] \in Nat /\ asked[r] \in Nat
        BY DEF TypeOK
      <4>2. drain \in Nat
        BY DEF TypeOK
      <4> QED
        BY <1>3, <4>1, <4>2 DEF Tick
    <3>2. UNCHANGED <<pc, answer, body, reply, sess, present, got, phase, born, info>>
      BY <1>3 DEF Tick, tableVars
    <3> QED
      BY <3>1, <3>2 DEF TypeOK
  <2>2. \A r \in Request : asked'[r] <= BackendTimeout
    <3> TAKE r \in Request
    <3>1. asked[r] \in Nat /\ BackendTimeout \in Nat /\ asked[r] <= BackendTimeout
      BY SignalingAssumption DEF TypeOK, RequestInv
    <3>2. asked'[r] = IF pc[r] \in {"backend", "answer"} THEN asked[r] + 1 ELSE asked[r]
      BY <1>3 DEF Tick
    <3>3. pc[r] \in {"backend", "answer"} => ~(asked[r] >= BackendTimeout)
      BY <1>3 DEF Tick, Overdue
    <3> QED
      BY <3>1, <3>2, <3>3
  <2>3. \A r \in Request : pc'[r] = pc[r]
    BY <1>3 DEF Tick
  <2>4. UNCHANGED <<born, info, sess, answer, body, reply, got>>
    BY <1>3 DEF Tick, tableVars
  <2> QED
    BY <2>1, <2>2, <2>3, <2>4, SameTable
<1>4. CASE Signal
  <2>1. TypeOK'
    BY <1>4 DEF TypeOK, Signal, tableVars
  <2> QED
    BY <1>4, <2>1, SameTable DEF Signal, RequestInv, tableVars
<1>5. CASE Exit
  <2>1. TypeOK'
    BY <1>5 DEF TypeOK, Exit, Running, tableVars
  <2>2. \A r \in Request : pc'[r] \in {pc[r], "killed"}
    BY <1>5 DEF Exit
  <2> QED
    BY <1>5, <2>1, <2>2, SameTable DEF Exit, RequestInv, tableVars
<1>6. CASE UNCHANGED vars
  <2>1. TypeOK'
    BY <1>6 DEF TypeOK, vars, sigVars, tableVars
  <2> QED
    BY <1>6, <2>1, SameTable DEF vars, sigVars, tableVars, RequestInv
<1> QED
  BY <1>1, <1>2, <1>3, <1>4, <1>5, <1>6

-----------------------------------------------------------------------------
(* Steps of the handler of r that concern neither the table nor another's       *)
(* answer.                                                                    *)
LEMMA HandlerKeeps ==
  ASSUME IInv, NEW r \in Request, TypeOK', RequestInv(r)',
         \A q \in Request \ {r} :
           /\ pc'[q] = pc[q] /\ reply'[q] = reply[q] /\ got'[q] = got[q]
           /\ asked'[q] = asked[q] /\ body'[q] = body[q],
         UNCHANGED <<born, info, sess, answer>>
  PROVE  IInv'
<1>1. \A q \in Request : RequestInv(q)'
  <2> TAKE q \in Request
  <2>1. CASE q # r
    BY <2>1, OtherRequest DEF IInv
  <2> QED
    BY <2>1
<1>2. AnswersDiffer' /\ Booked'
  BY DEF IInv, AnswersDiffer, Booked
<1> QED
  BY <1>1, <1>2 DEF IInv

LEMMA HandlerSteps ==
  ASSUME IInv, NEW r \in Request,
         \/ Arrive(r) \/ OfferRead(r) \/ OfferBad(r) \/ BackendFails(r)
         \/ RegisterFull(r) \/ WriteReply(r)
  PROVE  IInv'
<1>1. TypeOK /\ RequestInv(r)
  BY DEF IInv
<1>2. CASE Arrive(r) \/ OfferRead(r)
  <2>1. TypeOK'
    BY <1>1, <1>2 DEF TypeOK, Arrive, OfferRead, Running, tableVars
  <2>2. RequestInv(r)'
    BY <1>1, <1>2 DEF RequestInv, PartOf, TypeOK, Arrive, OfferRead, Undecided, tableVars
  <2> QED
    BY <1>1, <1>2, <2>1, <2>2, HandlerKeeps DEF TypeOK, Arrive, OfferRead, tableVars
<1>3. CASE OfferBad(r) \/ BackendFails(r) \/ RegisterFull(r)
  <2>1. TypeOK'
    BY <1>1, <1>3 DEF TypeOK, OfferBad, BackendFails, RegisterFull, Decide, Running, Replies,
      Errors, tableVars
  <2>2. RequestInv(r)'
    BY <1>1, <1>3 DEF RequestInv, PartOf, TypeOK, OfferBad, BackendFails, RegisterFull, Decide,
      Undecided, Replies, Errors, tableVars
  <2> QED
    BY <1>1, <1>3, <2>1, <2>2, HandlerKeeps
    DEF TypeOK, OfferBad, BackendFails, RegisterFull, Decide, tableVars
<1>4. CASE WriteReply(r)
  <2>1. TypeOK'
    BY <1>1, <1>4 DEF TypeOK, WriteReply, Running, tableVars
  <2>2. RequestInv(r)'
    <3>1. pc[r] = "write" /\ pc'[r] = "done" /\ asked'[r] = 0 /\ got'[r] \in {"nothing", reply[r]}
      BY <1>1, <1>4 DEF TypeOK, WriteReply
    <3>2. 0 <= BackendTimeout
      BY SignalingAssumption
    <3>3. UNCHANGED <<info, sess, answer, body, reply>>
      BY <1>4 DEF WriteReply, tableVars
    <3> QED
      BY <1>1, <3>1, <3>2, <3>3 DEF RequestInv, PartOf, Undecided
  <2> QED
    BY <1>1, <1>4, <2>1, <2>2, HandlerKeeps DEF TypeOK, WriteReply, tableVars
<1> QED
  BY <1>2, <1>3, <1>4

LEMMA BackendAnswersKeeps ==
  ASSUME IInv, NEW r \in Request, BackendAnswers(r)
  PROVE  IInv'
<1>1. TypeOK /\ RequestInv(r)
  BY DEF IInv
<1>2. PICK a \in Answer \ {answer[q] : q \in Request} : answer' = [answer EXCEPT ![r] = a]
  BY DEF BackendAnswers
<1>3. TypeOK'
  BY <1>1, <1>2 DEF TypeOK, BackendAnswers, Running, tableVars
<1>4. RequestInv(r)'
  BY <1>1, <1>2 DEF RequestInv, PartOf, TypeOK, BackendAnswers, Undecided, tableVars
<1>5. \A q \in Request : RequestInv(q)'
  <2> TAKE q \in Request
  <2>1. CASE q # r
    <3>1. /\ pc'[q] = pc[q] /\ answer'[q] = answer[q]
          /\ UNCHANGED <<sess, reply, got, asked, body, info>>
      BY <1>1, <1>2, <2>1 DEF TypeOK, BackendAnswers, tableVars
    <3> QED
      BY <3>1, OtherRequest DEF IInv
  <2> QED
    BY <1>4, <2>1
<1>6. AnswersDiffer'
  BY <1>1, <1>2 DEF IInv, AnswersDiffer, TypeOK
<1>7. Booked'
  BY DEF IInv, Booked, BackendAnswers, tableVars
<1> QED
  BY <1>3, <1>5, <1>6, <1>7 DEF IInv

LEMMA AnswerReadKeeps ==
  ASSUME IInv, NEW r \in Request, AnswerRead(r)
  PROVE  IInv'
<1>1. TypeOK /\ RequestInv(r) /\ pc[r] = "answer"
  BY DEF IInv, AnswerRead
<1>2. answer[r] \in Answer /\ answer[r] \in Response
  BY <1>1, SignalingAssumption DEF RequestInv
<1>3. PICK n \in 0 .. Len(answer[r].lines) :
        /\ body' = [body EXCEPT ![r] = SubSeq(answer[r].lines, 1, n)]
        /\ \/ Decide(r, "as BDS said")
           \/ ParseCandidateAddrs(SubSeq(answer[r].lines, 1, n)) = << >> /\ Decide(r, "rewritten answer")
           \/ /\ answer[r].isAnswer /\ ParseCandidateAddrs(SubSeq(answer[r].lines, 1, n)) # << >>
              /\ pc' = [pc EXCEPT ![r] = "register"] /\ reply' = reply
  BY DEF AnswerRead
<1> DEFINE read == SubSeq(answer[r].lines, 1, n)
<1>4. read \in Seq(Line)
  BY <1>2, PartsAreLines
<1> HIDE DEF read
<1>5. body' = [body EXCEPT ![r] = read] /\ body'[r] = read
  BY <1>1, <1>3 DEF read, TypeOK
<1>6. UNCHANGED <<age, asked, answer, sess, present, got, phase, drain, tableVars>>
  BY DEF AnswerRead
<1>7. pc' \in [Request -> Running \cup {"new", "done", "killed"}] /\ reply' \in [Request -> Replies \cup {"nothing"}]
  BY <1>1, <1>3 DEF TypeOK, Decide, Running, Replies, Errors
<1>8. TypeOK'
  BY <1>1, <1>4, <1>5, <1>6, <1>7 DEF TypeOK, tableVars
<1>9. RequestInv(r)'
  <2>1. PartOf(read, answer[r])
    BY <1>3 DEF PartOf, read
  <2>2. sess[r] = 0 /\ got[r] = "nothing" /\ reply[r] = "nothing" /\ asked[r] <= BackendTimeout
    BY <1>1 DEF RequestInv, Undecided
  <2>3. \/ pc'[r] = "write" /\ reply'[r] = "as BDS said"
        \/ pc'[r] = "write" /\ reply'[r] = "rewritten answer" /\ ParseCandidateAddrs(read) = << >>
        \/ /\ pc'[r] = "register" /\ reply'[r] = "nothing"
           /\ answer[r].isAnswer /\ ParseCandidateAddrs(read) # << >>
    BY <1>1, <1>3, <2>2 DEF Decide, TypeOK, read
  <2> QED
    BY <1>2, <1>5, <1>6, <2>1, <2>2, <2>3 DEF RequestInv, Undecided, Replies, Errors, tableVars, PartOf
<1>10. \A q \in Request \ {r} : pc'[q] = pc[q] /\ reply'[q] = reply[q] /\ body'[q] = body[q]
  BY <1>1, <1>3, <1>5 DEF Decide, TypeOK
<1> QED
  BY <1>6, <1>8, <1>9, <1>10, HandlerKeeps DEF tableVars

LEMMA RegisterKeeps ==
  ASSUME IInv, NEW r \in Request, RegisterSession(r)
  PROVE  /\ IInv'
         /\ born' = born + 1 /\ info'[born'] = Join(Offer[r], body[r])
         /\ \A t \in 1 .. born : info'[t] = info[t]
<1>1. TypeOK /\ RequestInv(r) /\ pc[r] = "register"
  BY DEF IInv, RegisterSession
<1> DEFINE x == Join(Offer[r], body[r])
<1> HIDE DEF x
<1>2. /\ born' = born + 1 /\ born + 1 \in Session
      /\ info' = [info EXCEPT ![born + 1] = x] /\ sess' = [sess EXCEPT ![r] = born + 1]
      /\ pc' = [pc EXCEPT ![r] = "write"] /\ reply' = [reply EXCEPT ![r] = "rewritten answer"]
      /\ UNCHANGED <<age, asked, answer, body, present, got, phase, drain>>
  BY DEF RegisterSession, Register, Decide, x
<1>3. born \in Nat /\ MaxRegistrations \in Nat
  BY <1>1, ConstAssumption DEF TypeOK
<1>4. born' = born + 1 /\ born' \in 0 .. MaxRegistrations /\ born' # 0
  <2>1. born' = born + 1 /\ born + 1 \in 1 .. MaxRegistrations
    BY <1>2 DEF Session
  <2> QED
    BY <1>3, <2>1
<1>5. x \in Exchange
  <2>1. answer[r] \in Answer /\ answer[r].isAnswer /\ ParseCandidateAddrs(body[r]) # << >>
    BY <1>1 DEF RequestInv
  <2>2. PICK n \in 0 .. Len(answer[r].lines) : body[r] = SubSeq(answer[r].lines, 1, n)
    BY <1>1 DEF RequestInv, PartOf
  <2> QED
    BY <2>1, <2>2, RegistrableAssumption DEF x
<1>6. TypeOK'
  <2>1. info' \in [Session -> Exchange \cup {NoExchange}]
    BY <1>1, <1>2, <1>5 DEF TypeOK
  <2>2. sess' \in [Request -> 0 .. born']
    <3>1. \A q \in Request : sess[q] \in 0 .. born'
      <4>1. \A q \in Request : sess[q] \in 0 .. born
        BY <1>1 DEF TypeOK
      <4> QED
        BY <1>3, <1>4, <4>1
    <3>2. sess \in [Request -> 0 .. born']
      BY <1>1, <3>1 DEF TypeOK
    <3>3. sess' = [sess EXCEPT ![r] = born'] /\ born' \in 0 .. born'
      <4>1. born' \in Nat
        BY <1>3, <1>4
      <4>2. sess' = [sess EXCEPT ![r] = born']
        BY <1>2
      <4> QED
        BY <4>1, <4>2
    <3> QED
      BY <3>2, <3>3
  <2>3. pc' \in [Request -> Running \cup {"new", "done", "killed"}]
        /\ reply' \in [Request -> Replies \cup {"nothing"}]
    BY <1>1, <1>2 DEF TypeOK, Running, Replies
  <2> QED
    BY <1>1, <1>2, <1>4, <2>1, <2>2, <2>3 DEF TypeOK
<1>7. \A t \in 1 .. born : t \in Session /\ info'[t] = info[t]
  <2> TAKE t \in 1 .. born
  <2>1. born \in 0 .. MaxRegistrations
    BY <1>1 DEF TypeOK
  <2>2. t \in Session /\ t # born + 1
    BY <1>3, <2>1 DEF Session
  <2>3. info \in [Session -> Exchange \cup {NoExchange}] /\ info' = [info EXCEPT ![born + 1] = x]
    BY <1>1, <1>2 DEF TypeOK
  <2> QED
    BY <2>2, <2>3
<1>8. info'[born + 1] = x
  BY <1>1, <1>2 DEF TypeOK
<1>9. RequestInv(r)'
  <2>1. sess'[r] = born + 1 /\ sess'[r] # 0 /\ pc'[r] = "write" /\ reply'[r] = "rewritten answer"
    <3>1. sess'[r] = born + 1 /\ pc'[r] = "write" /\ reply'[r] = "rewritten answer"
      BY <1>1, <1>2 DEF TypeOK
    <3> QED
      BY <1>4, <3>1
  <2>2. info'[sess'[r]] = Join(Offer[r], body'[r])
    BY <1>2, <1>8, <2>1 DEF x
  <2>3. got'[r] = "nothing"
    BY <1>1, <1>2 DEF RequestInv, Undecided
  <2> QED
    BY <1>1, <1>2, <2>1, <2>2, <2>3 DEF RequestInv, PartOf, Undecided, Replies, Errors
<1>10. \A q \in Request : RequestInv(q)'
  <2> TAKE q \in Request
  <2>1. CASE q # r
    <3>1. /\ pc'[q] = pc[q] /\ sess'[q] = sess[q] /\ reply'[q] = reply[q]
          /\ UNCHANGED <<got, asked, answer, body>>
      BY <1>1, <1>2, <2>1 DEF TypeOK
    <3>2. sess[q] # 0 => sess[q] \in 1 .. born
      BY <1>1, <1>3 DEF TypeOK
    <3> QED
      BY <1>7, <3>1, <3>2, OtherRequest DEF IInv
  <2> QED
    BY <1>9, <2>1
<1>11. AnswersDiffer'
  BY <1>2 DEF IInv, AnswersDiffer
<1>12. Booked'
  <2> SUFFICES ASSUME NEW t \in 1 .. born' PROVE \E q \in Request : sess'[q] = t
    BY DEF Booked
  <2>1. CASE t = born + 1
    BY <1>1, <1>2, <2>1 DEF TypeOK
  <2>2. CASE t \in 1 .. born
    <3>1. PICK q \in Request : sess[q] = t
      BY <2>2 DEF IInv, Booked
    <3>2. q # r
      <4>1. sess[r] = 0
        BY <1>1 DEF RequestInv, Undecided
      <4>2. t # 0
        BY <1>3, <2>2
      <4> QED
        BY <3>1, <4>1, <4>2
    <3> QED
      BY <1>1, <1>2, <3>1, <3>2 DEF TypeOK
  <2>3. t = born + 1 \/ t \in 1 .. born
    <3>1. t \in 1 .. born + 1
      BY <1>4
    <3> QED
      BY <1>3, <3>1
  <2> QED
    BY <2>1, <2>2, <2>3
<1> QED
  BY <1>2, <1>6, <1>7, <1>8, <1>10, <1>11, <1>12 DEF IInv, x

-----------------------------------------------------------------------------
LEMMA Invariance == Spec => []IInv
<1>1. Init => IInv
  BY Initially
<1>2. IInv /\ [Next]_vars => IInv'
  BY HandlerSteps, BackendAnswersKeeps, AnswerReadKeeps, RegisterKeeps, OtherSteps
  DEF Next, HandlerStep, EntersTable
<1> QED
  BY <1>1, <1>2, PTL DEF Spec

(* Every variable of Signaling always has its type. *)
THEOREM SignalingTypeCorrect == Spec => []TypeOK
BY Invariance, PTL DEF IInv

(* signaling.go:175-188: a client that is shown a candidate of the proxy has a   *)
(* session, registered with what it is shown; one that is told of an error has  *)
(* none.                                                                      *)
THEOREM RepliesMatchTable == Spec => []ReplyMatchesTable
<1>1. ASSUME IInv PROVE ReplyMatchesTable
  <2> SUFFICES ASSUME NEW r \in Request
               PROVE  /\ got[r] = "rewritten answer" /\ Advertises(RewriteCandidates(body[r])) =>
                           sess[r] # 0 /\ info[sess[r]] = Join(Offer[r], body[r])
                      /\ got[r] \in Errors => sess[r] = 0
    BY DEF ReplyMatchesTable
  <2>1. RequestInv(r) /\ body[r] \in Seq(Line)
    BY <1>1 DEF IInv, TypeOK
  <2>2. got[r] = "rewritten answer" \/ got[r] \in Errors => got[r] = reply[r]
    BY <2>1 DEF RequestInv, Errors
  <2> QED
    BY <2>1, <2>2, AdvertisedIsRegistered DEF RequestInv
<1> QED
  BY <1>1, Invariance, PTL

(* signaling.go:46-72: an offer that was read early enough is replied to before *)
(* the write deadline, however long BDS takes.                                 *)
THEOREM PromptOffersAnswered == Spec => PromptOfferAnswered
<1> DEFINE A == \A r \in Request :
                  pc[r] = "write" /\ pc'[r] = "done" /\ r \in present
                    /\ age[r] - asked[r] <= WriteTimeout - BackendTimeout
                  => got'[r] # "nothing"
<1>1. ASSUME IInv, [Next]_vars PROVE [A]_vars
  <2> SUFFICES ASSUME NEW r \in Request, pc[r] = "write", pc'[r] = "done", r \in present,
                      age[r] - asked[r] <= WriteTimeout - BackendTimeout
               PROVE  got'[r] # "nothing"
    OBVIOUS
  <2>1. PICK q \in Request : WriteReply(q)
    <3>1. pc \in [Request -> Running \cup {"new", "done", "killed"}]
      BY <1>1 DEF IInv, TypeOK
    <3>2. ASSUME NEW q \in Request, HandlerStep(q) PROVE WriteReply(q)
      BY <3>1, <3>2
      DEF HandlerStep, Arrive, OfferRead, OfferBad, BackendFails, BackendAnswers, AnswerRead,
          EntersTable, RegisterSession, RegisterFull, Decide, HangUp
    <3>3. CASE ~\E q \in Request : HandlerStep(q)
      BY <1>1, <3>1, <3>3 DEF Next, Quieten, GcStep, Tick, Signal, Exit, sigVars, vars
    <3> QED
      BY <3>2, <3>3
  <2>2. q = r
    BY <1>1, <2>1 DEF WriteReply, IInv, TypeOK
  <2>3. age[r] \in Nat /\ asked[r] \in Nat /\ asked[r] <= BackendTimeout /\ reply[r] \in Replies
    BY <1>1 DEF IInv, TypeOK, RequestInv
  <2>4. age[r] <= WriteTimeout
    BY <2>3, SignalingAssumption
  <2>5. got'[r] = reply[r]
    BY <1>1, <2>1, <2>2, <2>4 DEF WriteReply, IInv, TypeOK
  <2> QED
    BY <2>3, <2>5 DEF Replies, Errors
<1>2. PromptOfferAnswered <=> [][A]_vars
  BY DEF PromptOfferAnswered
<1> QED
  BY <1>1, <1>2, Invariance, PTL DEF Spec

-----------------------------------------------------------------------------
(* BDS draws fresh credentials: parts of two answers with something to register *)
(* are never alike in what is registered.                                     *)
FreshAnswers ==
  \A a, c \in Answer : a # c =>
    \A x, y : /\ PartOf(x, a) /\ ParseCandidateAddrs(x) # << >>
             /\ PartOf(y, c) /\ ParseCandidateAddrs(y) # << >>
             => \A r, q \in Request : Join(Offer[r], x) # Join(Offer[q], y)

(* To the table the handlers are what Mux assumes, if BDS draws fresh          *)
(* credentials: no exchange is registered twice.                              *)
THEOREM RegistrationsAreMuxs ==
  ASSUME FreshAnswers
  PROVE  Spec => RegistersAsMuxAssumes
<1> DEFINE A == \A s \in born + 1 .. born' :
                  info'[s] \in Exchange /\ info'[s] \notin {info[t] : t \in 1 .. born}
<1>1. ASSUME IInv, IInv', [Next]_vars PROVE [A]_vars
  <2>1. CASE \E r \in Request : RegisterSession(r)
    <3>1. PICK r \in Request : RegisterSession(r)
      BY <2>1
    <3>2. born' = born + 1 /\ info'[born'] = Join(Offer[r], body[r])
      BY <1>1, <3>1, RegisterKeeps
    <3>3. /\ sess[r] = 0 /\ answer[r] \in Answer /\ answer[r].isAnswer
          /\ PartOf(body[r], answer[r]) /\ ParseCandidateAddrs(body[r]) # << >>
      BY <1>1, <3>1 DEF IInv, RequestInv, RegisterSession, Undecided
    <3>4. born \in Nat
      BY <1>1 DEF IInv, TypeOK
    <3>5. ASSUME NEW t \in 1 .. born PROVE info[t] # info'[born']
      <4>1. PICK q \in Request : sess[q] = t
        BY <1>1 DEF IInv, Booked
      <4>2. sess[q] # 0 /\ q # r
        BY <3>3, <4>1
      <4>3. /\ info[t] = Join(Offer[q], body[q]) /\ answer[q] \in Answer
            /\ PartOf(body[q], answer[q]) /\ ParseCandidateAddrs(body[q]) # << >>
        BY <1>1, <4>1, <4>2 DEF IInv, RequestInv
      <4>4. answer[q] # answer[r]
        BY <1>1, <3>3, <4>2 DEF IInv, AnswersDiffer
      <4> QED
        BY <3>2, <3>3, <4>3, <4>4 DEF FreshAnswers
    <3>6. info'[born'] \in Exchange
      <4>1. PICK n \in 0 .. Len(answer[r].lines) : body[r] = SubSeq(answer[r].lines, 1, n)
        BY <3>3 DEF PartOf
      <4> QED
        BY <3>2, <3>3, <4>1, RegistrableAssumption
    <3>7. \A s \in born + 1 .. born' : s = born'
      BY <3>2, <3>4
    <3> QED
      BY <3>5, <3>6, <3>7
  <2>2. CASE born' = born
    <3>1. born \in Nat
      BY <1>1 DEF IInv, TypeOK
    <3> QED
      BY <2>2, <3>1
  <2>3. (\E r \in Request : RegisterSession(r)) \/ born' = born
    BY <1>1
    DEF Next, HandlerStep, Arrive, OfferRead, OfferBad, BackendFails, BackendAnswers,
        AnswerRead, EntersTable, RegisterFull, WriteReply, HangUp, Quieten, GoQuiet, GcStep,
        GcLock, GcLook, GcDelete, GcUnlock, Tick, Signal, Exit, tableVars, vars
  <2> QED
    BY <2>1, <2>2, <2>3
<1>2. RegistersAsMuxAssumes <=> [][A]_vars
  BY DEF RegistersAsMuxAssumes
<1> QED
  BY <1>1, <1>2, Invariance, PTL DEF Spec
=============================================================================
