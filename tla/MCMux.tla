-------------------------------- MODULE MCMux --------------------------------
(* Instances of Mux for TLC. *)
EXTENDS Mux

CONSTANTS c1, c2,           \* two clients
          b1, b2,           \* two BDS sockets
          p1, p2, p3,       \* the ports of the BDS sockets, and of the clients
          k1, k2, v1, v2, v3, w1, w2, w3, wc

MCAddr == {c1, c2, b1, b2}
MCPort == {p1, p2, p3}
MCPortOf == [a \in MCAddr |-> CASE a = b1 -> p1 [] a = b2 -> p2 [] OTHER -> p3]
BdsHere == {b1, b2}
BdsAndClientHere == {b1, b2, c2}
BdsElsewhere == {}

MCUfrag == {k1, k2, v1, v2, v3}
MCPwd == {w1, w2, w3, wc}

Join(cu, su, w, ads) == [cufrag |-> cu, sufrag |-> su, pwd |-> w, addrs |-> ads]
First  == Join(k1, v1, w1, <<b1>>)
Second == Join(k2, v2, w2, <<b2>>)
\* The first player again: same offer, after BDS gave it the port anew.
Again  == Join(k1, v3, w3, <<b1, b2>>)
NoKey  == Join(k2, v2, NoPwd, <<b2>>)

Stun(a, su, cu, w) == [src |-> a, user |-> <<su, cu>>, mic |-> w]
Data(a) == [src |-> a, user |-> << >>, mic |-> NoMic]

DistinctPorts == {First, Second}
ReusedPorts == {First, Second, Again}
WithoutKey == {First, NoKey}

\* A client that joins twice, another that has the keys of the second join, and
\* BDS.  A check of the first join is a forged one of the second where only the
\* offer's ufrag leads to a session.
MCPacket == {Stun(c1, v1, k1, w1), Stun(c1, v3, k1, w3), Stun(c2, v3, k1, w3),
             Stun(b1, k1, v1, wc), Data(b2)}
\* A second client on the host of the proxy, whose backend gives no password,
\* and checks that are forged or lack MESSAGE-INTEGRITY.
LocalPacket == {Stun(c1, v1, k1, w1), Stun(c1, v1, k1, w2), Stun(c2, v1, k1, w1),
                Stun(c2, v1, k1, NoMic), Stun(c2, v2, k2, NoMic), Data(b1)}
\* One client and BDS.
FewPackets == {Stun(c1, v1, k1, w1), Stun(c1, v2, k2, w2), Data(b1)}
=============================================================================
