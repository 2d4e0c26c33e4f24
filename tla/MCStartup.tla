----------------------------- MODULE MCStartup -----------------------------
(* Instances of Startup for TLC. *)
EXTENDS Startup

CONSTANTS raknet, fixed, motd, note, home1, home2, public1, public2

MCVal == {Nethernet, Junk, Commented, raknet, fixed, motd, note}
MCPort == {19130, 19131, 19132}
Remote == [Default EXCEPT !.host = Elsewhere]
Local == Default
Local6 == [Default EXCEPT !.host = Loopback6]

\* The transport is missing, and the port that of the proxy, twice.
PortTwice == <<Prop("server-port", 19132), Prop("server-port", 19132)>>
\* The transport is wrong, the UDP ports fixed, the port the default.
FixedUdp == <<Prop("transport", raknet), Prop("server-udp-ports", fixed), Prop("other", motd)>>
Fit == <<Prop("transport", Nethernet), Prop("server-port", 19130), Prop("#", note)>>
OnePort == <<Prop("transport", Nethernet), Prop("server-port", 19132)>>

TwoOrNone == {PortTwice, FixedUdp, NoFile}
TwoContents == {OnePort, Fit}
JustOnePort == {OnePort}

\* "-listen :19132 -bds 127.0.0.1:19132 -fix-bds -save-config", from the README.
Readme == [NoFlags EXCEPT !.listen = 19132, !.bds = Local, !.fix = TRUE, !.save = TRUE]
Fix == [NoFlags EXCEPT !.fix = TRUE, !.bds = Local6]
Wizard == [NoFlags EXCEPT !.wizard = TRUE, !.fix = TRUE]
WithConfig == [NoFlags EXCEPT !.config = TRUE, !.fix = TRUE]
Save == [NoFlags EXCEPT !.save = TRUE, !.fix = TRUE, !.listen = 19132, !.bds = Remote,
                        !.mux = 20000, !.host = Name, !.idle = -3, !.insecure = TRUE]

Usual == {NoFlags, Readme, Fix, Wizard, WithConfig, Save}
JustNone == {NoFlags}
JustReadme == {Readme}

MCIP == {home1, home2, public1, public2}
MCGuessAt == [t \in 0 .. MaxSecond |-> IF t = 0 THEN home1 ELSE home2]
MCNameAt == [t \in 0 .. MaxSecond |-> IF t = 0 THEN public1 ELSE public2]
Accepts == [mux |-> Enter, host |-> Enter, adv |-> Enter]
JustAccepts == {Accepts}
MCPublicAnswer == {Accepts, [mux |-> 20000, host |-> Name, adv |-> 29011]}

\* Here the host's own address is an IPv6 address too.
MCIPv6 == {Loopback6, OwnIP}
MCListenAnswer == {19132}
MCBdsAnswer == {[host |-> OwnIP, port |-> 19131, splits |-> TRUE]}
=============================================================================
