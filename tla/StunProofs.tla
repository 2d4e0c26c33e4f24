----------------------------- MODULE StunProofs -----------------------------
(***************************************************************************)
(* The properties of Stun, for buffers of any length and packets of any      *)
(* content.                                                                *)
(*                                                                         *)
(* Where the attributes of a message are is not computed by recursion over   *)
(* it; a set of offsets that tiles the message is unique, and both loops      *)
(* stay on every such set (OnTiles).  What Decode has found is such a set     *)
(* itself (Tiles(attrs, off)), so what is true of the scan for every set is   *)
(* true of it for that one: this is how the parsers come to agree although    *)
(* they share no state.                                                    *)
(***************************************************************************)
EXTENDS Stun, TLAPS

(* Of the attributes in T those before off have been passed. *)
Scanning(T) == off \in T \cup {end} /\ \A o \in T : o < off => ~IsUsername(o)
Decoding(T) == off \in T \cup {end} /\ \A o \in T : o < off => o \in attrs

IInv ==
  /\ TypeOK
  /\ OwnBytesOnly
  /\ ReadAsSent
  /\ pc # "start" => top <= b.len
  /\ pc \in {"start", "scan"} => user = 0 /\ attrs = {}
  /\ pc = "start" => off = stunHeaderLen /\ top = 0
  /\ pc # "done" => verdict = "none"
  /\ pc \in {"scan", "located", "decode"} => IsMessage
  /\ pc \in {"scan", "located"} => end = stunHeaderLen + ClampedLen /\ attrs = {}
  /\ pc \in {"located", "decode"} => user # 0
  /\ pc = "scan" => \A T \in SUBSET Offset : WellFormed(T) => Scanning(T)
  /\ pc = "decode" =>
       /\ end = stunHeaderLen + b.mlen /\ end <= b.len
       /\ off \in Offset /\ off <= end /\ Tiles(attrs, off)
       /\ \A T \in SUBSET Offset : WellFormed(T) => Decoding(T)
  /\ verdict = "claimBadMIC" => WellFormed(attrs) /\ user \in attrs

-----------------------------------------------------------------------------
LEMMA Uint16Nat ==
  ASSUME NEW x \in Uint16
  PROVE  x \in Nat
BY DEF Uint16

LEMMA PaddedFacts ==
  ASSUME NEW al \in Nat
  PROVE  Padded(al) \in Nat /\ al <= Padded(al) /\ Padded(al) <= al + 3
BY SMTT(30) DEF Padded

(* The header at an offset in the buffer, and what comes after it. *)
LEMMA Headers ==
  ASSUME b \in PacketType, NEW o \in 0 .. BufLen
  PROVE  /\ b.at[o].len \in Uint16 /\ b.at[o].len \in Nat
         /\ ValueEnd(o) \in Nat /\ After(o) \in Nat
         /\ o + attrHeaderLen <= ValueEnd(o) /\ ValueEnd(o) <= After(o) /\ After(o) <= ValueEnd(o) + 3
<1>1. o \in Nat /\ b.at[o].len \in Uint16 /\ b.at[o].len \in Nat
  <2>1. b.at \in [0 .. BufLen -> Header]
    BY DEF PacketType
  <2>2. b.at[o] \in Header
    BY <2>1
  <2> QED
    BY <2>2, Uint16Nat DEF Header
<1>2. Padded(b.at[o].len) \in Nat /\ b.at[o].len <= Padded(b.at[o].len)
        /\ Padded(b.at[o].len) <= b.at[o].len + 3
  BY <1>1, PaddedFacts
<1> QED
  BY <1>1, <1>2 DEF ValueEnd, After, attrHeaderLen

LEMMA PacketFacts ==
  ASSUME b \in PacketType
  PROVE  /\ BufLen \in Nat /\ b.len \in 0 .. BufLen /\ b.len \in Nat /\ b.mlen \in Nat
         /\ b.len <= BufLen
         /\ IsMessage => /\ stunHeaderLen + ClampedLen <= b.len /\ ClampedLen \in Nat
                         /\ stunHeaderLen + b.mlen <= b.len => ClampedLen = b.mlen
<1>1. BufLen \in Nat /\ b.len \in 0 .. BufLen /\ b.mlen \in Uint16
  BY StunAssumption DEF PacketType
<1>2. b.len \in Nat /\ b.mlen \in Nat /\ b.len <= BufLen
  BY <1>1, Uint16Nat
<1>3. IsMessage => b.len >= 20
  BY DEF IsMessage, stunHeaderLen
<1> QED
  BY <1>1, <1>2, <1>3 DEF ClampedLen, stunHeaderLen

(* The step from one attribute of a tiling to the next passes over none. *)
LEMMA TileStep ==
  ASSUME b \in PacketType, NEW T, NEW e \in Nat, e <= BufLen, Tiles(T, e),
         NEW o \in T \cup {e}, o < e
  PROVE  /\ o \in T /\ o + attrHeaderLen <= e /\ After(o) <= e /\ After(o) \in T \cup {e}
         /\ \A p \in T : p < After(o) => p <= o
<1>1. o \in T /\ o \in 0 .. BufLen /\ \A p \in T \cup {e} : p \in Nat /\ p <= e
  BY StunAssumption DEF Tiles, stunHeaderLen
<1>2. After(o) \in Nat /\ o + attrHeaderLen <= After(o) /\ After(o) \in T \cup {e}
  BY <1>1, Headers DEF Tiles, attrHeaderLen
<1>3. \A p \in T : p <= o \/ p >= After(o)
  BY <1>1 DEF Tiles
<1> QED
  BY <1>1, <1>2, <1>3 DEF attrHeaderLen

-----------------------------------------------------------------------------
LEMMA Initially == Init => IInv
<1> SUFFICES ASSUME Init PROVE IInv
  OBVIOUS
<1>1. b \in PacketType /\ BufLen \in Nat /\ BufLen >= stunHeaderLen
  BY StunAssumption DEF Init
<1>2. b.len \in Nat
  BY <1>1, PacketFacts
<1>3. TypeOK
  BY <1>1, StunAssumption DEF Init, TypeOK, stunHeaderLen
<1> QED
  BY <1>2, <1>3 DEF Init, IInv, OwnBytesOnly, ReadAsSent, stunHeaderLen

(* What a step that keeps the packet does not change. *)
LEMMA SamePacket ==
  ASSUME b' = b
  PROVE  /\ \A T : WellFormed(T)' <=> WellFormed(T)
         /\ \A T, e : Tiles(T, e)' <=> Tiles(T, e)
         /\ \A o : (IsUsername(o)' <=> IsUsername(o)) /\ After(o)' = After(o)
         /\ IsMessage' <=> IsMessage
         /\ ClampedLen' = ClampedLen
BY DEF WellFormed, Tiles, IsMessage, ClampedLen, IsUsername, After

(* Not all of a packet is read yet, and the scan is on every tiling. *)
LEMMA PrefilterStep ==
  ASSUME IInv, Prefilter
  PROVE  IInv'
<1>1. /\ b' = b /\ off' = off /\ user' = user /\ attrs' = attrs /\ pc = "start"
      /\ off = stunHeaderLen /\ user = 0 /\ attrs = {} /\ verdict = "none"
  BY DEF Prefilter, IInv
<1>2. /\ b \in PacketType /\ BufLen \in Nat /\ b.len \in Nat /\ b.len <= BufLen /\ b.mlen \in Nat
  BY PacketFacts DEF IInv, TypeOK
<1>3. CASE IsMessage
  <2>1. /\ pc' = "scan" /\ end' = stunHeaderLen + ClampedLen /\ verdict' = verdict
        /\ b.len >= stunHeaderLen /\ top' = 8
    BY <1>2, <1>3 DEF Prefilter, IsMessage, stunHeaderLen
  <2>2. end' \in stunHeaderLen .. b.len
    BY <1>2, <1>3, <2>1, PacketFacts DEF IInv, TypeOK, stunHeaderLen
  <2>3. TypeOK' /\ OwnBytesOnly'
    BY <1>1, <1>2, <2>1, <2>2 DEF IInv, TypeOK, OwnBytesOnly, stunHeaderLen
  <2>4. ASSUME NEW T \in SUBSET Offset, WellFormed(T)
        PROVE  Scanning(T)'
    <3>1. end' = stunHeaderLen + b.mlen /\ Tiles(T, end')
      BY <1>2, <1>3, <2>1, <2>4, PacketFacts DEF WellFormed, IInv, TypeOK
    <3>2. off \in T \cup {end'}
      BY <1>1, <3>1 DEF Tiles
    <3>3. \A o \in T : ~(o < off)
      BY <1>1, <2>2, <1>2, <3>1 DEF Tiles, stunHeaderLen
    <3> QED
      BY <1>1, <3>2, <3>3 DEF Scanning
  <2> QED
    BY <1>1, <1>3, <2>1, <2>2, <2>3, <2>4, SamePacket DEF IInv, ReadAsSent, OwnBytesOnly
<1>4. CASE ~IsMessage
  <2>1. /\ pc' = "done" /\ end' = end /\ verdict' = "claimNotSTUN" /\ top' \in Nat /\ top' <= b.len
    BY <1>2, <1>4 DEF Prefilter, Return, stunHeaderLen
  <2>2. TypeOK' /\ OwnBytesOnly'
    BY <1>1, <1>2, <2>1 DEF IInv, TypeOK, OwnBytesOnly, Verdict
  <2>3. \A T : ~WellFormed(T)
    BY <1>4 DEF WellFormed
  <2> QED
    BY <1>1, <2>1, <2>2, <2>3, SamePacket DEF IInv, ReadAsSent, OwnBytesOnly
<1> QED
  BY <1>3, <1>4

(* A header that ends before the attributes do lies in the buffer. *)
LEMMA ScanFacts ==
  ASSUME IInv, pc = "scan"
  PROVE  /\ b \in PacketType /\ BufLen \in Nat /\ b.len \in Nat /\ b.len <= BufLen
         /\ IsMessage /\ user = 0 /\ attrs = {} /\ verdict = "none"
         /\ end = stunHeaderLen + ClampedLen /\ end \in Nat /\ end <= b.len
         /\ off \in Nat /\ off >= stunHeaderLen /\ top \in Nat /\ top <= b.len
         /\ \A T \in SUBSET Offset : WellFormed(T) => Scanning(T) /\ Tiles(T, end)
         /\ off + attrHeaderLen <= end =>
              /\ off \in 0 .. BufLen /\ off < end
              /\ ValueEnd(off) \in Nat /\ After(off) \in Nat /\ After(off) > off
              /\ off + attrHeaderLen <= ValueEnd(off) /\ ValueEnd(off) <= After(off)
              /\ After(off) <= ValueEnd(off) + 3
<1>1. b \in PacketType /\ IsMessage /\ user = 0 /\ attrs = {} /\ verdict = "none"
  BY DEF IInv, TypeOK
<1>2. /\ BufLen \in Nat /\ b.len \in Nat /\ b.len <= BufLen /\ b.mlen \in Nat
      /\ ClampedLen \in Nat /\ stunHeaderLen + ClampedLen <= b.len
  BY <1>1, PacketFacts
<1>3. end = stunHeaderLen + ClampedLen /\ end \in Nat /\ end <= b.len
  BY <1>2 DEF IInv, stunHeaderLen
<1>4. off \in Nat /\ off >= stunHeaderLen
  BY <1>2 DEF IInv, TypeOK, stunHeaderLen
<1>5. top \in Nat /\ top <= b.len
  BY <1>2 DEF IInv, TypeOK, OwnBytesOnly
<1>6. \A T \in SUBSET Offset : WellFormed(T) => Scanning(T) /\ Tiles(T, end)
  BY <1>1, <1>3, PacketFacts DEF IInv, WellFormed
<1>7. ASSUME off + attrHeaderLen <= end
      PROVE  /\ off \in 0 .. BufLen /\ off < end
             /\ ValueEnd(off) \in Nat /\ After(off) \in Nat /\ After(off) > off
             /\ off + attrHeaderLen <= ValueEnd(off) /\ ValueEnd(off) <= After(off)
             /\ After(off) <= ValueEnd(off) + 3
  <2>1. off \in 0 .. BufLen /\ off < end
    BY <1>2, <1>3, <1>4, <1>7 DEF attrHeaderLen
  <2> QED
    BY <1>1, <1>4, <2>1, Headers DEF attrHeaderLen
<1> QED
  BY <1>1, <1>4, <1>5, <1>6, <1>7, <1>2, <1>3

LEMMA ScanSkipsStep ==
  ASSUME IInv, ScanSkips
  PROVE  IInv'
<1>1. /\ pc = "scan" /\ pc' = "scan" /\ b' = b /\ end' = end /\ user' = user /\ attrs' = attrs
      /\ verdict' = verdict /\ off' = After(off) /\ Reads(off + attrHeaderLen)
      /\ off + attrHeaderLen <= end /\ ValueEnd(off) <= end /\ ~IsUsername(off)
  BY DEF ScanSkips
<1>2. /\ b \in PacketType /\ BufLen \in Nat /\ b.len \in Nat /\ b.len <= BufLen
      /\ user = 0 /\ attrs = {} /\ verdict = "none" /\ IsMessage
      /\ end = stunHeaderLen + ClampedLen /\ end \in Nat /\ end <= b.len
      /\ off \in Nat /\ off >= stunHeaderLen /\ top \in Nat /\ top <= b.len
      /\ off < end /\ ValueEnd(off) \in Nat
      /\ After(off) \in Nat /\ After(off) > off /\ After(off) <= ValueEnd(off) + 3
  BY <1>1, ScanFacts
<1>3. top' \in Nat /\ top' <= b.len
  BY <1>1, <1>2 DEF Reads, attrHeaderLen
<1>4. off' \in stunHeaderLen .. BufLen + 3
  BY <1>1, <1>2 DEF stunHeaderLen
<1>5. TypeOK' /\ OwnBytesOnly'
  BY <1>1, <1>2, <1>3, <1>4 DEF IInv, TypeOK, OwnBytesOnly
<1>6. ASSUME NEW T \in SUBSET Offset, WellFormed(T)
      PROVE  Scanning(T)'
  <2>1. Scanning(T) /\ Tiles(T, end)
    BY <1>1, <1>6, ScanFacts
  <2>2. /\ off \in T /\ After(off) \in T \cup {end}
        /\ \A p \in T : p < After(off) => p <= off
    BY <1>2, <2>1, TileStep DEF Scanning
  <2>3. \A p \in T : p \in Nat
    BY StunAssumption
  <2>4. \A p \in T : p < After(off) => ~IsUsername(p)
    BY <1>1, <1>2, <2>1, <2>2, <2>3 DEF Scanning
  <2> QED
    BY <1>1, <2>2, <2>4, SamePacket DEF Scanning
<1> QED
  BY <1>1, <1>2, <1>3, <1>5, <1>6, SamePacket DEF IInv, ReadAsSent, OwnBytesOnly

LEMMA ScanFindsStep ==
  ASSUME IInv, ScanFinds
  PROVE  IInv'
<1>1. /\ pc = "scan" /\ pc' = "located" /\ b' = b /\ end' = end /\ user' = off /\ attrs' = attrs
      /\ verdict' = verdict /\ off' = off /\ Reads(ValueEnd(off))
      /\ off + attrHeaderLen <= end /\ ValueEnd(off) <= end /\ IsUsername(off)
  BY DEF ScanFinds
<1>2. /\ b \in PacketType /\ BufLen \in Nat /\ b.len \in Nat /\ b.len <= BufLen
      /\ user = 0 /\ attrs = {} /\ verdict = "none" /\ IsMessage
      /\ end = stunHeaderLen + ClampedLen /\ end \in Nat /\ end <= b.len
      /\ off \in Nat /\ off >= stunHeaderLen /\ top \in Nat /\ top <= b.len
      /\ off < end /\ ValueEnd(off) \in Nat
  BY <1>1, ScanFacts
<1>3. top' \in Nat /\ top' <= b.len
  BY <1>1, <1>2 DEF Reads
<1>4. TypeOK' /\ OwnBytesOnly' /\ user' # 0
  BY <1>1, <1>2, <1>3 DEF IInv, TypeOK, OwnBytesOnly, stunHeaderLen
<1>5. ASSUME NEW T \in SUBSET Offset, WellFormed(T)
      PROVE  off \in T /\ \A o \in T : IsUsername(o) => off <= o
  <2>1. Scanning(T) /\ Tiles(T, end)
    BY <1>1, <1>5, ScanFacts
  <2>2. off \in T
    BY <1>2, <2>1 DEF Scanning
  <2>3. \A o \in T : o \in Nat
    BY StunAssumption
  <2> QED
    BY <1>2, <2>1, <2>2, <2>3 DEF Scanning
<1>6. ReadAsSent'
  BY <1>1, <1>2, <1>5, SamePacket DEF ReadAsSent
<1> QED
  BY <1>1, <1>2, <1>3, <1>4, <1>6, SamePacket DEF IInv

LEMMA ScanFailsStep ==
  ASSUME IInv, ScanFails
  PROVE  IInv'
<1>1. /\ pc = "scan" /\ pc' = "done" /\ b' = b /\ end' = end /\ user' = user /\ attrs' = attrs
      /\ verdict' = "claimNotSTUN" /\ off' = off
      /\ off + attrHeaderLen > end \/ ValueEnd(off) > end
      /\ top' = top \/ (off + attrHeaderLen <= end /\ Reads(off + attrHeaderLen))
  BY DEF ScanFails, Return
<1>2. /\ b \in PacketType /\ BufLen \in Nat /\ b.len \in Nat /\ b.len <= BufLen
      /\ user = 0 /\ attrs = {} /\ verdict = "none" /\ IsMessage
      /\ end = stunHeaderLen + ClampedLen /\ end \in Nat /\ end <= b.len
      /\ off \in Nat /\ off >= stunHeaderLen /\ top \in Nat /\ top <= b.len
      /\ off + attrHeaderLen <= end => ValueEnd(off) \in Nat /\ ValueEnd(off) <= After(off)
                                       /\ off \in 0 .. BufLen /\ After(off) \in Nat
  BY <1>1, ScanFacts
<1>3. top' \in Nat /\ top' <= b.len
  BY <1>1, <1>2 DEF Reads, attrHeaderLen
<1>4. TypeOK' /\ OwnBytesOnly'
  BY <1>1, <1>2, <1>3 DEF IInv, TypeOK, OwnBytesOnly, Verdict
<1>5. ASSUME NEW T \in SUBSET Offset, WellFormed(T), NEW o \in T
      PROVE  ~IsUsername(o)
  <2>1. Scanning(T) /\ Tiles(T, end)
    BY <1>1, <1>5, ScanFacts
  <2>2. ~(off < end)
    <3>1. SUFFICES ASSUME off < end PROVE FALSE
      OBVIOUS
    <3>2. off + attrHeaderLen <= end /\ After(off) <= end
      BY <1>2, <2>1, <3>1, TileStep DEF Scanning
    <3> QED
      BY <1>1, <1>2, <3>2 DEF attrHeaderLen
  <2>3. \A p \in T \cup {end} : p \in 0 .. BufLen /\ p <= end
    BY <1>2, <2>1 DEF Tiles, stunHeaderLen
  <2>4. o \in Nat /\ o + attrHeaderLen <= After(o)
    BY <1>2, <2>3, Headers DEF attrHeaderLen
  <2>5. After(o) \in Nat /\ After(o) <= end
    <3>1. After(o) \in T \cup {end}
      BY <2>1 DEF Tiles
    <3> QED
      BY <1>2, <2>3, <3>1
  <2>6. o < off
    BY <1>2, <2>2, <2>4, <2>5 DEF attrHeaderLen
  <2> QED
    BY <2>1, <2>6 DEF Scanning
<1> QED
  BY <1>1, <1>2, <1>3, <1>4, <1>5, SamePacket DEF IInv, ReadAsSent

-----------------------------------------------------------------------------
(* stunVerify *)

LEMMA DismissStep ==
  ASSUME IInv, Dismiss
  PROVE  IInv'
<1>1. /\ pc = "located" /\ pc' = "done" /\ b' = b /\ end' = end /\ user' = user /\ attrs' = attrs
      /\ off' = off /\ top' = top /\ verdict' \in {"claimNoSession", "claimNoPwd", "claimOK"}
  BY DEF Dismiss, Return
<1>2. TypeOK' /\ OwnBytesOnly'
  BY <1>1 DEF IInv, TypeOK, OwnBytesOnly, Verdict
<1>3. ReadAsSent'
  BY <1>1, SamePacket DEF IInv, ReadAsSent
<1> QED
  BY <1>1, <1>2, <1>3 DEF IInv, OwnBytesOnly

LEMMA DecodeStartsStep ==
  ASSUME IInv, DecodeStarts
  PROVE  IInv'
<1>1. /\ pc = "located" /\ b' = b /\ user' = user /\ attrs' = attrs /\ top' = top
      /\ attrs = {} /\ user # 0 /\ verdict = "none" /\ IsMessage
  BY DEF DecodeStarts, IInv
<1>2. /\ b \in PacketType /\ BufLen \in Nat /\ b.len \in Nat /\ b.len <= BufLen /\ b.mlen \in Nat
      /\ top <= b.len
  BY PacketFacts DEF IInv, TypeOK, OwnBytesOnly
<1>3. CASE stunHeaderLen + b.mlen > b.len
  <2>1. pc' = "done" /\ verdict' = "claimNoMIC" /\ off' = off /\ end' = end
    BY <1>3 DEF DecodeStarts, Return
  <2>2. \A T : ~WellFormed(T)
    BY <1>2, <1>3 DEF WellFormed, stunHeaderLen
  <2>3. TypeOK' /\ OwnBytesOnly'
    BY <1>1, <1>2, <2>1 DEF IInv, TypeOK, OwnBytesOnly, Verdict
  <2> QED
    BY <1>1, <1>2, <2>1, <2>2, <2>3, SamePacket DEF IInv, ReadAsSent
<1>4. CASE ~(stunHeaderLen + b.mlen > b.len)
  <2>1. /\ pc' = "decode" /\ verdict' = verdict /\ off' = stunHeaderLen
        /\ end' = stunHeaderLen + b.mlen
    BY <1>4 DEF DecodeStarts
  <2>2. end' \in stunHeaderLen .. BufLen /\ end' <= b.len /\ off' <= end' /\ off' \in Offset
    BY <1>2, <1>4, <2>1, StunAssumption DEF stunHeaderLen
  <2>3. TypeOK' /\ OwnBytesOnly'
    BY <1>1, <1>2, <2>1, <2>2 DEF IInv, TypeOK, OwnBytesOnly, stunHeaderLen
  <2>4. Tiles(attrs', off')
    BY <1>1, <2>1 DEF Tiles
  <2>5. ASSUME NEW T \in SUBSET Offset, WellFormed(T)
        PROVE  off' \in T \cup {end'} /\ \A o \in T : ~(o < off')
    <3>1. Tiles(T, end')
      BY <2>1, <2>5 DEF WellFormed
    <3>2. T \subseteq stunHeaderLen .. end' /\ (end' = stunHeaderLen \/ stunHeaderLen \in T)
      BY <3>1 DEF Tiles
    <3> QED
      BY <2>1, <2>2, <3>2, StunAssumption DEF stunHeaderLen
  <2>6. \A T \in SUBSET Offset : WellFormed(T)' => Decoding(T)'
    BY <1>1, <2>5, SamePacket DEF Decoding
  <2>7. Tiles(attrs, off)'
    BY <1>1, <2>4, SamePacket
  <2>8. ReadAsSent'
    BY <1>1, <2>1, SamePacket DEF IInv, ReadAsSent
  <2> QED
    BY <1>1, <1>2, <2>1, <2>2, <2>3, <2>6, <2>7, <2>8, SamePacket DEF IInv
<1> QED
  BY <1>3, <1>4

(* What holds whenever Decode looks for an attribute. *)
LEMMA DecodeFacts ==
  ASSUME IInv, pc = "decode"
  PROVE  /\ b \in PacketType /\ BufLen \in Nat /\ b.len \in Nat /\ b.len <= BufLen /\ b.mlen \in Nat
         /\ IsMessage /\ user # 0 /\ verdict = "none"
         /\ end = stunHeaderLen + b.mlen /\ end \in Nat /\ end <= b.len /\ end <= BufLen
         /\ off \in Offset /\ off \in Nat /\ off >= stunHeaderLen /\ off <= end
         /\ off \in 0 .. BufLen
         /\ top \in Nat /\ top <= b.len
         /\ attrs \subseteq Offset /\ Tiles(attrs, off)
         /\ \A T \in SUBSET Offset : WellFormed(T) => Decoding(T) /\ Tiles(T, end)
<1>1. /\ b \in PacketType /\ IsMessage /\ user # 0 /\ verdict = "none"
      /\ end = stunHeaderLen + b.mlen /\ end <= b.len /\ attrs \subseteq Offset
      /\ off \in Offset /\ off <= end /\ Tiles(attrs, off)
  BY DEF IInv, TypeOK
<1>2. BufLen \in Nat /\ b.len \in Nat /\ b.len <= BufLen /\ b.mlen \in Nat
  BY <1>1, PacketFacts
<1>3. end \in Nat /\ end <= BufLen
  BY <1>1, <1>2 DEF stunHeaderLen
<1>4. off \in Nat /\ off >= stunHeaderLen /\ off \in 0 .. BufLen
  BY <1>1, <1>2, <1>3 DEF IInv, TypeOK, stunHeaderLen
<1>5. top \in Nat /\ top <= b.len
  BY <1>2 DEF IInv, TypeOK, OwnBytesOnly
<1>6. \A T \in SUBSET Offset : WellFormed(T) => Decoding(T) /\ Tiles(T, end)
  BY <1>1 DEF IInv, WellFormed
<1> QED
  BY <1>1, <1>2, <1>3, <1>4, <1>5, <1>6

LEMMA DecodesStep ==
  ASSUME IInv, Decodes
  PROVE  IInv'
<1>1. /\ pc = "decode" /\ pc' = "decode" /\ b' = b /\ end' = end /\ user' = user
      /\ verdict' = verdict /\ attrs' = attrs \cup {off} /\ off' = After(off)
      /\ Reads(After(off)) /\ off < end /\ After(off) <= end
  BY DEF Decodes
<1>2. /\ b \in PacketType /\ BufLen \in Nat /\ b.len \in Nat /\ b.len <= BufLen
      /\ IsMessage /\ user # 0 /\ verdict = "none" /\ attrs \subseteq Offset
      /\ end = stunHeaderLen + b.mlen /\ end \in Nat /\ end <= b.len /\ end <= BufLen
      /\ off \in Offset /\ off \in Nat /\ off >= stunHeaderLen /\ off \in 0 .. BufLen
      /\ top \in Nat /\ top <= b.len /\ Tiles(attrs, off)
  BY <1>1, DecodeFacts
<1>3. /\ After(off) \in Nat /\ b.at[off].len \in Uint16 /\ b.at[off].len \in Nat
      /\ off + attrHeaderLen <= After(off)
  BY <1>2, Headers DEF attrHeaderLen
<1>4. off' \in Offset
  BY <1>1, <1>2, <1>3, StunAssumption DEF After
<1>5. top' \in Nat /\ top' <= b.len
  BY <1>1, <1>2, <1>3 DEF Reads
<1>6. TypeOK' /\ OwnBytesOnly'
  BY <1>1, <1>2, <1>3, <1>5 DEF IInv, TypeOK, OwnBytesOnly, stunHeaderLen, attrHeaderLen
<1>7. Tiles(attrs', off')
  <2>1. /\ \A o \in attrs : o \in Nat /\ o >= stunHeaderLen /\ o <= off
        /\ off = stunHeaderLen \/ stunHeaderLen \in attrs
        /\ \A o \in attrs : After(o) \in attrs \cup {off} /\ \A p \in attrs : p <= o \/ p >= After(o)
    BY <1>2 DEF Tiles, stunHeaderLen
  <2>2. off < After(off)
    BY <1>2, <1>3 DEF attrHeaderLen
  <2>3. attrs' \subseteq stunHeaderLen .. off'
    <3>1. stunHeaderLen \in Nat
      BY DEF stunHeaderLen
    <3>2. ASSUME NEW o \in attrs PROVE o \in stunHeaderLen .. After(off)
      BY <3>1, <3>2, <1>2, <1>3, <2>1, <2>2
    <3>3. off \in stunHeaderLen .. After(off)
      BY <3>1, <1>2, <1>3, <2>2
    <3> QED
      BY <1>1, <3>2, <3>3
  <2>4. ASSUME NEW o \in attrs', NEW p \in attrs'
        PROVE  After(o) \in attrs' \cup {off'} /\ (p <= o \/ p >= After(o))
    <3>1. CASE o = off
      BY <1>1, <1>2, <2>1, <3>1
    <3>2. CASE o \in attrs /\ p \in attrs
      BY <1>1, <2>1, <3>2
    <3>3. CASE o \in attrs /\ p = off
      <4>1. After(o) \in attrs \cup {off}
        BY <2>1, <3>3
      <4>2. After(o) \in Nat /\ After(o) <= off
        <5>1. CASE After(o) = off
          BY <5>1, <1>2
        <5>2. CASE After(o) \in attrs
          BY <5>2, <2>1
        <5> QED
          BY <4>1, <5>1, <5>2
      <4>3. p >= After(o)
        BY <4>2, <3>3, <1>2
      <4> QED
        BY <1>1, <4>1, <4>3
    <3> QED
      BY <1>1, <3>1, <3>2, <3>3
  <2> QED
    BY <1>1, <2>1, <2>3, <2>4 DEF Tiles
<1>8. ASSUME NEW T \in SUBSET Offset, WellFormed(T)
      PROVE  Decoding(T)'
  <2>1. Decoding(T) /\ Tiles(T, end)
    BY <1>1, <1>8, DecodeFacts
  <2>2. /\ After(off) \in T \cup {end}
        /\ \A p \in T : p < After(off) => p <= off
    BY <1>1, <1>2, <2>1, TileStep DEF Decoding
  <2>3. \A p \in T : p \in Nat
    BY StunAssumption
  <2>4. \A p \in T : p < After(off) => p \in attrs \cup {off}
    BY <1>2, <2>1, <2>2, <2>3 DEF Decoding
  <2> QED
    BY <1>1, <2>2, <2>4 DEF Decoding
<1>9. Tiles(attrs, off)'
  BY <1>1, <1>7, SamePacket
<1>10. ReadAsSent'
  BY <1>1, SamePacket DEF IInv, ReadAsSent
<1> QED
  BY <1>1, <1>2, <1>4, <1>5, <1>6, <1>8, <1>9, <1>10, SamePacket DEF IInv

LEMMA DecodeFailsStep ==
  ASSUME IInv, DecodeFails
  PROVE  IInv'
<1>1. /\ pc = "decode" /\ pc' = "done" /\ b' = b /\ end' = end /\ user' = user /\ attrs' = attrs
      /\ verdict' = "claimNoMIC" /\ off' = off /\ off < end
      /\ off + attrHeaderLen > end \/ After(off) > end
      /\ top' = top \/ (off + attrHeaderLen <= end /\ Reads(off + attrHeaderLen))
  BY DEF DecodeFails, Return
<1>2. /\ b \in PacketType /\ BufLen \in Nat /\ b.len \in Nat /\ b.len <= BufLen
      /\ IsMessage /\ end \in Nat /\ end <= b.len /\ end <= BufLen /\ off \in Nat
      /\ top \in Nat /\ top <= b.len
  BY <1>1, DecodeFacts
<1>3. top' \in Nat /\ top' <= b.len
  BY <1>1, <1>2 DEF Reads, attrHeaderLen
<1>4. TypeOK' /\ OwnBytesOnly'
  BY <1>1, <1>2, <1>3 DEF IInv, TypeOK, OwnBytesOnly, Verdict
<1>5. ASSUME NEW T \in SUBSET Offset, WellFormed(T)
      PROVE  FALSE
  <2>1. Decoding(T) /\ Tiles(T, end)
    BY <1>1, <1>5, DecodeFacts
  <2>2. off + attrHeaderLen <= end /\ After(off) <= end /\ off \in T
    BY <1>1, <1>2, <2>1, TileStep DEF Decoding
  <2>3. off \in 0 .. BufLen /\ After(off) \in Nat
    BY <1>1, <1>2, DecodeFacts, Headers
  <2> QED
    BY <1>1, <1>2, <2>2, <2>3 DEF attrHeaderLen
<1> QED
  BY <1>1, <1>2, <1>3, <1>4, <1>5, SamePacket DEF IInv, ReadAsSent

(* What was said of every tiling is now said of the one Decode has found. *)
LEMMA CheckIntegrityStep ==
  ASSUME IInv, CheckIntegrity
  PROVE  IInv'
<1>1. /\ pc = "decode" /\ pc' = "done" /\ b' = b /\ end' = end /\ user' = user /\ attrs' = attrs
      /\ off' = off /\ top' = top /\ off >= end
      /\ verdict' \in {"claimOK", "claimBadMIC", "claimNoMIC"}
      /\ verdict' = "claimNoMIC" => \A o \in attrs : b.at[o].type # "MESSAGE-INTEGRITY"
  BY DEF CheckIntegrity, Return
<1>2. /\ b \in PacketType /\ b.len \in Nat /\ IsMessage /\ user # 0 /\ verdict = "none"
      /\ end = stunHeaderLen + b.mlen /\ end \in Nat /\ end <= b.len
      /\ off \in Nat /\ off <= end /\ attrs \subseteq Offset /\ Tiles(attrs, off)
  BY <1>1, DecodeFacts
<1>3. WellFormed(attrs) /\ user \in attrs
  BY <1>1, <1>2 DEF WellFormed, IInv, ReadAsSent
<1>4. TypeOK' /\ OwnBytesOnly'
  BY <1>1 DEF IInv, TypeOK, OwnBytesOnly, Verdict
<1>5. ASSUME NEW T \in SUBSET Offset, WellFormed(T)
      PROVE  T \subseteq attrs
  <2>1. Decoding(T) /\ Tiles(T, end)
    BY <1>1, <1>5, DecodeFacts
  <2>2. \A o \in T : o < end
    <3>1. SUFFICES ASSUME NEW o \in T PROVE o < end
      OBVIOUS
    <3>2. o \in 0 .. BufLen /\ After(o) \in T \cup {end} /\ \A p \in T \cup {end} : p <= end
      BY <1>1, <1>2, <2>1, DecodeFacts DEF Tiles, stunHeaderLen
    <3>3. o \in Nat /\ After(o) \in Nat /\ o + attrHeaderLen <= After(o) /\ After(o) <= end
      BY <1>2, <3>2, StunAssumption, Headers DEF attrHeaderLen
    <3> QED
      BY <1>2, <3>3 DEF attrHeaderLen
  <2> QED
    BY <1>1, <1>2, <2>1, <2>2 DEF Decoding
<1>6. ReadAsSent'
  BY <1>1, <1>2, <1>5, SamePacket DEF IInv, ReadAsSent
<1> QED
  BY <1>1, <1>3, <1>4, <1>6, SamePacket DEF IInv, OwnBytesOnly

-----------------------------------------------------------------------------
THEOREM Invariance == Spec => []IInv
<1>1. Init => IInv
  BY Initially
<1>2. IInv /\ [Next]_vars => IInv'
  <2>1. CASE Next
    BY <2>1, PrefilterStep, ScanSkipsStep, ScanFindsStep, ScanFailsStep, DismissStep,
       DecodeStartsStep, DecodesStep, DecodeFailsStep, CheckIntegrityStep DEF Next
  <2>2. CASE UNCHANGED vars
    BY <2>2 DEF vars, IInv, TypeOK, OwnBytesOnly, ReadAsSent, WellFormed, Tiles, IsMessage,
       ClampedLen, IsUsername, After, Scanning, Decoding
  <2> QED
    BY <2>1, <2>2
<1> QED
  BY <1>1, <1>2, PTL DEF Spec

(* Neither loop of claim's reading leaves the buffer, nor any variable its     *)
(* type.                                                                      *)
THEOREM ReadingTypeCorrect == Spec => []TypeOK
BY Invariance, PTL DEF IInv

(* stunUsername and Decode never read a byte that an earlier packet left in    *)
(* the buffer of runMux.                                                      *)
THEOREM ReadsOwnBytesOnly == Spec => []OwnBytesOnly
BY Invariance, PTL DEF IInv

(* A well-formed message is read as what was sent: its first USERNAME leads to *)
(* the session, and its MESSAGE-INTEGRITY is found.                           *)
THEOREM ReadsWhatWasSent == Spec => []ReadAsSent
BY Invariance, PTL DEF IInv

(* The parsers agree: MESSAGE-INTEGRITY is looked at only in a well-formed     *)
(* message, and the USERNAME that led to the session is part of it.           *)
THEOREM ParsersDoAgree == Spec => []ParsersAgree
<1>1. ASSUME IInv PROVE ParsersAgree
  <2>1. CASE verdict = "claimBadMIC"
    BY <1>1, <2>1 DEF IInv, ParsersAgree
  <2>2. CASE pc = "decode" /\ off = end
    <3>1. WellFormed(attrs) /\ attrs \subseteq Offset /\ user # 0
      BY <1>1, <2>2, DecodeFacts DEF WellFormed
    <3> QED
      BY <1>1, <3>1 DEF IInv, ReadAsSent, ParsersAgree
  <2> QED
    BY <2>1, <2>2 DEF ParsersAgree
<1> QED
  BY <1>1, Invariance, PTL

=============================================================================
