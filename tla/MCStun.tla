------------------------------- MODULE MCStun -------------------------------
(* An instance of Stun for TLC: every packet of up to three words after the     *)
(* header, whatever attribute header each of them reads as.                    *)
EXTENDS Stun

MCBufLen == 36
MCOffset == {20, 24, 28, 32, 36}

Words == {20, 24, 28}
Headers == [type : AttrType, len : {0, 2, 4, 7}]
InBuffer(words) == [o \in 0 .. MCBufLen |->
                      IF o \in Words THEN words[o] ELSE [type |-> "other", len |-> 0]]

\* Lengths that agree, that do not, and that end within a header or a value.
MCPacket == [len : {19, 20, 27, 28, 31, 32}, cookie : BOOLEAN, mlen : {0, 4, 8, 11, 12, 16},
             at : {InBuffer(words) : words \in [Words -> Headers]}]
=============================================================================
