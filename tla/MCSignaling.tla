----------------------------- MODULE MCSignaling -----------------------------
(* Instances of Signaling for TLC. *)
EXTENDS Signaling, TLC

CONSTANTS b1, b2, pub,       \* BDS sockets, and the public address of the mux
          p1, p2, p3,
          m1,                \* an mDNS candidate of the first socket
          r1, r2,            \* two requests
          k1, v1, v2, w1, w2

MCAddr == {b1, b2, pub}
MCPort == {p1, p2, p3}
MCPortOf == [a \in MCAddr |-> CASE a = b1 -> p1 [] a = b2 -> p2 [] OTHER -> p3]
MCLocal == {b1, b2}
MCUfrag == {k1, v1, v2}
MCPwd == {w1, w2}
MCRequest == {r1, r2}
MCCand == {m1, b1, b2}
MCAddrOf == [c \in MCCand \cup {pub} |-> IF c = m1 THEN b1 ELSE c]

\* Both requests carry the same offer, as of a player who tries again.
SameOffer == [r \in MCRequest |-> k1]

L(k, v) == [kind |-> k, val |-> v]
Answer1 == <<L("ice-ufrag", v1), L("ice-pwd", w1), L("candidate", m1), L("candidate", b2),
             L("candidate", m1)>>
Answer2 == <<L("ice-ufrag", v2), L("ice-pwd", w2), L("candidate", b2)>>
MCAnswer == {[isAnswer |-> TRUE, lines |-> Answer1], [isAnswer |-> TRUE, lines |-> Answer2],
             [isAnswer |-> TRUE, lines |-> <<L("ice-ufrag", v2)>>],
             [isAnswer |-> FALSE, lines |-> << >>]}
FewAnswers == {[isAnswer |-> TRUE, lines |-> <<L("ice-ufrag", v1), L("candidate", b1)>>],
               [isAnswer |-> TRUE, lines |-> <<L("ice-ufrag", v2), L("candidate", b2)>>]}

\* What register is to be called with: an answer may be cut short.
E(v, w, list) == [cufrag |-> k1, sufrag |-> v, pwd |-> w, addrs |-> list]
MCExchange == {E(v1, w1, <<b1>>), E(v1, w1, <<b1, b2>>), E(v2, w2, <<b2>>),
               E(v1, NoPwd, <<b1>>), E(v2, NoPwd, <<b2>>)}

\* Two requests with one offer are alike.
Symmetry == Permutations(MCRequest)
=============================================================================
