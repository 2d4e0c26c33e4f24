------------------------------- MODULE MCProxy -------------------------------
(* An instance of Proxy for TLC. *)
EXTENDS Proxy

CONSTANTS c1, c2, c3,        \* the clients of two requests, and a third party
          b1, b2, pub,       \* BDS sockets, and the public address of the mux
          p1, p2, p3,
          r1, r2, k1, k2, v1, v2, w1, w2, wc

MCAddr == {c1, c2, c3, b1, b2, pub}
MCPort == {p1, p2, p3}
MCPortOf == [a \in MCAddr |-> CASE a = b1 -> p1 [] a = b2 -> p2 [] OTHER -> p3]
\* The second client runs on the host of the proxy, as BDS does.
MCLocal == {b1, b2, c2}
MCUfrag == {k1, k2, v1, v2}
MCPwd == {w1, w2, wc}
MCRequest == {r1, r2}
MCOffer == [r \in MCRequest |-> IF r = r1 THEN k1 ELSE k2]
MCHome == [r \in MCRequest |-> IF r = r1 THEN c1 ELSE c2]
MCCand == {b1, b2}
MCEarlier == [r \in MCRequest |-> IF r = r2 THEN {r1} ELSE {}]
MCAddrOf == [c \in MCCand \cup {pub} |-> c]

L(k, v) == [kind |-> k, val |-> v]
MCAnswer == {[isAnswer |-> TRUE, lines |-> <<L("ice-ufrag", v1), L("ice-pwd", w1), L("candidate", b1)>>],
             [isAnswer |-> TRUE, lines |-> <<L("ice-ufrag", v2), L("ice-pwd", w2), L("candidate", b2)>>]}

MCExchange == {[cufrag |-> k, sufrag |-> s[1], pwd |-> s[2], addrs |-> <<s[3]>>] :
                 k \in {k1, k2}, s \in {<<v1, w1, b1>>, <<v2, w2, b2>>}}

Stun(a, su, cu, w) == [src |-> a, user |-> <<su, cu>>, mic |-> w]
\* Of a third party: a check without the right password.
MCStray == {Stun(c3, v1, k1, wc)}
MCPacket == MCStray
  \cup {Stun(MCHome[r], s[1], MCOffer[r], s[2]) : r \in MCRequest, s \in {<<v1, w1>>, <<v2, w2>>}}
  \cup {Response(b) : b \in {b1, b2}}
=============================================================================
