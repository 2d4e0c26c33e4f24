-------------------------------- MODULE Stun --------------------------------
(***************************************************************************)
(* stun.go: how claim reads one packet.  stunUsername scans the attributes   *)
(* for a USERNAME by itself; if that leads to a session, stunVerify has      *)
(* pion/stun decode the same bytes once more and check MESSAGE-INTEGRITY.    *)
(* The two loops are independent of each other and of different strictness, *)
(* so what one of them takes for an attribute the other might not.          *)
(*                                                                         *)
(* Of the bytes of a packet only what is decided on is kept: its length, the *)
(* cookie, the message length, and the type and length an attribute header   *)
(* would have that is read at an offset.  The packet lies in the buffer of   *)
(* runMux, which is larger: what lies beyond the packet is what an earlier   *)
(* one left there.                                                          *)
(***************************************************************************)
EXTENDS Naturals

CONSTANTS
  Packet,   \* the packets of the model
  BufLen,   \* the length of the buffer of runMux
  Offset    \* where attributes may start

AttrType == {"USERNAME", "MESSAGE-INTEGRITY", "other"}
Uint16 == 0 .. 65535
Header == [type : AttrType, len : Uint16]

PacketType == [len : 0 .. BufLen, cookie : BOOLEAN, mlen : Uint16, at : [0 .. BufLen -> Header]]

stunHeaderLen == 20
attrHeaderLen == 4

(* The length of an attribute value with its padding: (al + 3) &^ 3. *)
Padded(al) == 4 * ((al + 3) \div 4)

ASSUME StunAssumption ==
  /\ BufLen \in Nat /\ BufLen >= stunHeaderLen
  /\ Packet \subseteq PacketType
  /\ Offset \subseteq Nat /\ stunHeaderLen \in Offset
  /\ \A o \in Offset : \A al \in Uint16 :
       o + attrHeaderLen + Padded(al) <= BufLen => o + attrHeaderLen + Padded(al) \in Offset

VARIABLES
  pc,      \* where claim is
  b,       \* the packet
  off,     \* where the next attribute is read
  end,     \* where the attributes end
  user,    \* the attribute stunUsername has returned the value of, 0 if none
  attrs,   \* the attributes Decode has found
  top,     \* no byte from here on has been read
  verdict  \* the verdict of claim

vars == <<pc, b, off, end, user, attrs, top, verdict>>

Verdict == {"claimOK", "claimNotSTUN", "claimNoSession", "claimNoPwd", "claimNoMIC", "claimBadMIC"}

Init ==
  /\ pc = "start" /\ b \in Packet
  /\ off = stunHeaderLen /\ end = stunHeaderLen /\ user = 0 /\ attrs = {} /\ top = 0
  /\ verdict = "none"

-----------------------------------------------------------------------------
(* Mutants: both loops forget the header of an attribute; the message length   *)
(* is believed; short packets are not sorted out.                             *)
AfterValueOnly(o) == o + Padded(b.at[o].len)
BelievedLen == b.mlen
IsMessageByCookie == b.cookie

(* The offset of the attribute after the one at o. *)
After(o) == o + attrHeaderLen + Padded(b.at[o].len)
ValueEnd(o) == o + attrHeaderLen + b.at[o].len
IsUsername(o) == b.at[o].type = "USERNAME" /\ b.at[o].len > 0

(* Both parsers start with this test; pion's IsMessage is the same.           *)
IsMessage == b.len >= stunHeaderLen /\ b.cookie

(* The message length, cut down to the packet. *)
ClampedLen == IF stunHeaderLen + b.mlen > b.len THEN b.len - stunHeaderLen ELSE b.mlen

Reads(n) == top' = IF n > top THEN n ELSE top
Return(v) == pc' = "done" /\ verdict' = v

(* stunUsername looks at the header ... *)
Prefilter ==
  /\ pc = "start"
  /\ top' = IF b.len < stunHeaderLen THEN 0 ELSE 8
  /\ IF IsMessage
       THEN pc' = "scan" /\ end' = stunHeaderLen + ClampedLen /\ UNCHANGED verdict
       ELSE Return("claimNotSTUN") /\ UNCHANGED end
  /\ UNCHANGED <<b, off, user, attrs>>

(* Mutant: the scan steps over the value of an attribute, but not its header.  *)
ScanSkipsValueOnly ==
  /\ pc = "scan" /\ off + attrHeaderLen <= end
  /\ ValueEnd(off) <= end /\ ~IsUsername(off)
  /\ off' = off + Padded(b.at[off].len)
  /\ Reads(off + attrHeaderLen)
  /\ UNCHANGED <<pc, b, end, user, attrs, verdict>>

(* ... and then at one attribute after the other: it skips one that is not a   *)
(* USERNAME ...                                                               *)
ScanSkips ==
  /\ pc = "scan" /\ off + attrHeaderLen <= end
  /\ ValueEnd(off) <= end /\ ~IsUsername(off)
  /\ off' = After(off)
  /\ Reads(off + attrHeaderLen)
  /\ UNCHANGED <<pc, b, end, user, attrs, verdict>>

(* ... returns the value of the first that is ... *)
ScanFinds ==
  /\ pc = "scan" /\ off + attrHeaderLen <= end
  /\ ValueEnd(off) <= end /\ IsUsername(off)
  /\ pc' = "located" /\ user' = off
  /\ Reads(ValueEnd(off))
  /\ UNCHANGED <<b, off, end, attrs, verdict>>

(* ... or nothing, when the attributes end or one does not fit. *)
ScanFails ==
  /\ pc = "scan"
  /\ \/ off + attrHeaderLen > end /\ UNCHANGED top
     \/ /\ off + attrHeaderLen <= end /\ ValueEnd(off) > end
        /\ Reads(off + attrHeaderLen)
  /\ Return("claimNotSTUN")
  /\ UNCHANGED <<b, off, end, user, attrs>>

(* What claim makes of the USERNAME is a matter of the session table (Mux).   *)
Dismiss ==
  /\ pc = "located"
  /\ \E v \in {"claimNoSession", "claimNoPwd", "claimOK"} : Return(v)
  /\ UNCHANGED <<b, off, end, user, attrs, top>>

(* Mutant: the decoder is as tolerant as the scan. *)
DecodeStartsTolerant ==
  /\ pc = "located"
  /\ pc' = "decode" /\ off' = stunHeaderLen /\ end' = stunHeaderLen + ClampedLen
  /\ UNCHANGED <<b, user, attrs, top, verdict>>

(* stunVerify: Decode of pion/stun takes the message length at its word.  What *)
(* it fails on is "not STUN" to stunVerify, and claimNoMIC to claim.          *)
DecodeStarts ==
  /\ pc = "located"
  /\ IF stunHeaderLen + b.mlen > b.len
       THEN Return("claimNoMIC") /\ UNCHANGED <<off, end>>
       ELSE /\ pc' = "decode" /\ off' = stunHeaderLen /\ end' = stunHeaderLen + b.mlen
            /\ UNCHANGED verdict
  /\ UNCHANGED <<b, user, attrs, top>>

(* An attribute must fit with its padding. *)
Decodes ==
  /\ pc = "decode" /\ off < end
  /\ off + attrHeaderLen <= end /\ After(off) <= end
  /\ attrs' = attrs \cup {off} /\ off' = After(off)
  /\ Reads(After(off))
  /\ UNCHANGED <<pc, b, end, user, verdict>>

DecodeFails ==
  /\ pc = "decode" /\ off < end
  /\ \/ off + attrHeaderLen > end /\ UNCHANGED top
     \/ off + attrHeaderLen <= end /\ After(off) > end /\ Reads(off + attrHeaderLen)
  /\ Return("claimNoMIC")
  /\ UNCHANGED <<b, off, end, user, attrs>>

(* Get and Check: the attribute is missing, or was made with the password of   *)
(* the session, or was not.                                                   *)
CheckIntegrity ==
  /\ pc = "decode" /\ off >= end
  /\ IF \E o \in attrs : b.at[o].type = "MESSAGE-INTEGRITY"
       THEN Return("claimOK") \/ Return("claimBadMIC")
       ELSE Return("claimNoMIC")
  /\ UNCHANGED <<b, off, end, user, attrs, top>>

Next == Prefilter \/ ScanSkips \/ ScanFinds \/ ScanFails \/ Dismiss
          \/ DecodeStarts \/ Decodes \/ DecodeFails \/ CheckIntegrity

Spec == Init /\ [][Next]_vars

(* Nothing in claim's reading of a packet waits for anybody. *)
FairSpec == Spec /\ WF_vars(Next)

-----------------------------------------------------------------------------
(* Every variable has its type: neither loop leaves the buffer. *)
TypeOK ==
  /\ pc \in {"start", "scan", "located", "decode", "done"}
  /\ b \in PacketType
  /\ off \in stunHeaderLen .. BufLen + 3
  /\ end \in stunHeaderLen .. BufLen
  /\ user \in {0} \cup stunHeaderLen .. BufLen
  /\ attrs \subseteq Offset
  /\ top \in 0 .. BufLen
  /\ verdict \in Verdict \cup {"none"}

(* The slice handed to relayPacket shares the buffer of runMux, and Go lets a  *)
(* slice expression reach beyond the length of a slice up to its capacity:     *)
(* the tests of stun.go alone keep what earlier packets left from being read. *)
OwnBytesOnly == top <= b.len

(* Attributes T fill the message up to e without gap or overlap. *)
Tiles(T, e) ==
  /\ T \subseteq stunHeaderLen .. e
  /\ e = stunHeaderLen \/ stunHeaderLen \in T
  /\ \A o \in T : /\ After(o) \in T \cup {e}
                 /\ \A p \in T : p <= o \/ p >= After(o)

WellFormed(T) == IsMessage /\ stunHeaderLen + b.mlen <= b.len /\ Tiles(T, stunHeaderLen + b.mlen)

(* A message whose attributes fill it is read as what it is, by both parsers:  *)
(* it is dropped as "not STUN" only if it carries no name, and as lacking      *)
(* MESSAGE-INTEGRITY only if it does lack it; the name that leads to the      *)
(* session is that of its first USERNAME that is not empty.                   *)
ReadAsSent ==
  \A T \in SUBSET Offset : WellFormed(T) =>
    /\ verdict = "claimNotSTUN" => \A o \in T : ~IsUsername(o)
    /\ verdict = "claimNoMIC" => \A o \in T : b.at[o].type # "MESSAGE-INTEGRITY"
    /\ user # 0 => user \in T /\ IsUsername(user) /\ \A o \in T : IsUsername(o) => user <= o

(* The parsers agree.  The integrity of a packet is looked at only if it is    *)
(* well formed, and then the name that led to the session is an attribute of   *)
(* the message whose integrity is checked: both read the same attributes.     *)
ParsersAgree ==
  verdict = "claimBadMIC" \/ (pc = "decode" /\ off = end) => WellFormed(attrs) /\ user \in attrs

(* Whatever the bytes, both loops come to an end. *)
ParsingEnds == <>(pc = "done")

=============================================================================
