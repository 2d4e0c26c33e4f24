------------------------ MODULE PropertiesFixProofs ------------------------
(***************************************************************************)
(* What planServerPropertiesFix makes of any server.properties: it changes   *)
(* the lines it reports and no other, one pass leaves nothing to report, and  *)
(* the port of BDS no longer is that of the proxy.                          *)
(***************************************************************************)
EXTENDS PropertiesFix, FiniteSetTheorems, NaturalsInduction, TLAPS

-----------------------------------------------------------------------------
(* Min and Max of a set of natural numbers.                                 *)
LEMMA MinOfNats ==
  ASSUME NEW H \in SUBSET Nat, H # {}
  PROVE  Min(H) \in H /\ \A k \in H : Min(H) <= k
<1> DEFINE R == {ss \in Nat \X Nat : ss[1] < ss[2]}
<1>1. IsWellFoundedOn(R, Nat)
  BY NatLessThanWellFounded DEF OpToRel
<1> HIDE DEF R
<1>2. PICK j \in H : \A k \in H : <<k, j>> \notin R
  BY <1>1, WFMin
<1>3. \A k \in H : ~(k < j)
  BY <1>2 DEF R
<1>4. \A k \in H : j <= k
  BY <1>3
<1> QED
  BY <1>4 DEF Min

LEMMA MaxOfNats ==
  ASSUME NEW n \in Nat, NEW H \in SUBSET (1 .. n), H # {}
  PROVE  Max(H) \in H /\ \A k \in H : k <= Max(H)
<1> DEFINE G == {n - k : k \in H}
<1>0. \A k \in H : k \in Int /\ n - k \in Nat
  OBVIOUS
<1>1. G \in SUBSET Nat /\ G # {}
  BY <1>0
<1>2. Min(G) \in G /\ \A k \in G : Min(G) <= k
  BY <1>1, MinOfNats
<1>3. PICK h \in H : Min(G) = n - h
  BY <1>2
<1>4. \A k \in H : k <= h
  <2> SUFFICES ASSUME NEW k \in H PROVE k <= h
    OBVIOUS
  <2>1. n - k \in G
    OBVIOUS
  <2>2. n - h <= n - k
    BY <2>1, <1>2, <1>3
  <2> QED
    BY <2>2, <1>0
<1> QED
  BY <1>4, <1>0 DEF Max

-----------------------------------------------------------------------------
(* What a line can be, and where lines of a key are. *)
LEMMA LineParts ==
  ASSUME NEW l \in Line
  PROVE  /\ l = [key |-> l.key, val |-> l.val] /\ l.key \in Keys
         /\ l.key = "server-port" => l.val \in Nat \cup {Junk}
BY DEF Line, Keys

LEMMA LineAt ==
  ASSUME NEW lines \in Lines
  PROVE  /\ DOMAIN lines = 1 .. Len(lines) /\ Len(lines) \in Nat
         /\ \A i \in DOMAIN lines : lines[i] \in Line
BY DEF Lines

LEMMA ProposedLines ==
  ASSUME NEW alt \in Nat
  PROVE  /\ Prop("transport", Nethernet) \in Line /\ Prop("#", Commented) \in Line
         /\ Prop("server-port", alt) \in Line
BY PropertiesFixAssumption DEF Line, Prop, Keys

LEMMA LastAt ==
  ASSUME NEW lines \in Lines, NEW key \in Keys, At(lines, key) # {}
  PROVE  /\ Max(At(lines, key)) \in At(lines, key)
         /\ \A i \in At(lines, key) : i <= Max(At(lines, key))
BY LineAt, MaxOfNats, At(lines, key) \in SUBSET (1 .. Len(lines)) DEF At

LEMMA OneOrNone ==
  ASSUME NEW n \in Nat, NEW H \in SUBSET (1 .. n), Cardinality(H) <= 1,
         NEW i \in H, NEW j \in H
  PROVE  i = j
<1>0. IsFiniteSet(1 .. n)
  BY FS_Interval, 1 \in Int, n \in Int
<1>1. IsFiniteSet(H)
  BY <1>0, FS_Subset
<1>2. CASE i # j
  <2>0. IsFiniteSet({i}) /\ Cardinality({i}) = 1
    BY FS_Singleton
  <2>1. {i, j} \subseteq H /\ Cardinality({i} \cup {j}) = 2 /\ {i} \cup {j} = {i, j}
    BY <1>2, <2>0, FS_AddElement
  <2> QED
    BY <1>1, <2>1, FS_Subset, FS_CardinalityType
<1> QED
  BY <1>2

(* The two readings of server-port are of lines that set one, the first and the last. *)
LEMMA PortRead ==
  ASSUME NEW lines \in Lines
  PROVE  /\ PortLines(lines) \subseteq At(lines, "server-port")
         /\ \A i \in PortLines(lines) : lines[i].val \in Nat
         /\ PortLines(lines) # {} =>
              /\ Min(PortLines(lines)) \in PortLines(lines)
              /\ Max(PortLines(lines)) \in PortLines(lines)
              /\ \A i \in PortLines(lines) : i <= Max(PortLines(lines))
         /\ ReadServerPort(lines) \in Nat /\ ServerPortVal(lines) \in Nat
<1>1. PortLines(lines) \subseteq At(lines, "server-port") /\ At(lines, "server-port") \subseteq 1 .. Len(lines)
  BY LineAt DEF PortLines, At
<1>2. \A i \in PortLines(lines) : lines[i].val \in Nat
  BY LineAt, LineParts DEF PortLines, At
<1>3. PortLines(lines) # {} => Min(PortLines(lines)) \in PortLines(lines)
  BY <1>1, MinOfNats, LineAt, PortLines(lines) \in SUBSET Nat
<1>4. PortLines(lines) # {} =>
        /\ Max(PortLines(lines)) \in PortLines(lines)
        /\ \A i \in PortLines(lines) : i <= Max(PortLines(lines))
  BY <1>1, MaxOfNats, LineAt, PortLines(lines) \in SUBSET (1 .. Len(lines))
<1>5. DefaultPort \in Nat
  BY DEF DefaultPort
<1> QED
  BY <1>1, <1>2, <1>3, <1>4, <1>5 DEF ReadServerPort, ServerPortVal

LEMMA OnePortRead ==
  ASSUME NEW lines \in Lines, Cardinality(At(lines, "server-port")) <= 1
  PROVE  ReadServerPort(lines) = ServerPortVal(lines)
<1>1. CASE PortLines(lines) = {}
  BY <1>1 DEF ReadServerPort, ServerPortVal
<1>2. CASE PortLines(lines) # {}
  <2> DEFINE ports == At(lines, "server-port")
             i == Min(PortLines(lines))
             j == Max(PortLines(lines))
  <2>1. i \in ports /\ j \in ports
    BY <1>2, PortRead
  <2>2. ports \in SUBSET (1 .. Len(lines)) /\ Len(lines) \in Nat
    BY LineAt DEF At
  <2>3. Cardinality(ports) <= 1
    OBVIOUS
  <2> HIDE DEF ports, i, j
  <2>4. i = j
    BY <2>1, <2>2, <2>3, OneOrNone
  <2> QED
    BY <1>2, <2>4 DEF ReadServerPort, ServerPortVal, i, j
<1> QED
  BY <1>1, <1>2

-----------------------------------------------------------------------------
(* Of the lines of two files, those with another key than key are the same. *)
Edited(l, key) == l.key = key \/ (l.key = "#" /\ l.val = Commented)
SameBut(s, t, key) ==
  /\ DOMAIN s \subseteq DOMAIN t
  /\ \A i \in DOMAIN t : \/ i \in DOMAIN s /\ t[i] = s[i]
                         \/ Edited(t[i], key) /\ (i \in DOMAIN s => Edited(s[i], key))

LEMMA SameElsewhere ==
  ASSUME NEW s, NEW t, NEW key \in Keys \ {"other", "#"}, SameBut(s, t, key)
  PROVE  /\ \A k \in Keys \ {key, "#"} :
              At(t, k) = At(s, k) /\ \A i \in At(s, k) : t[i] = s[i]
         /\ Unrelated(t) = Unrelated(s)
<1>1. ASSUME NEW k \in Keys \ {key, "#"}
      PROVE  At(t, k) = At(s, k) /\ \A i \in At(s, k) : t[i] = s[i]
  BY DEF SameBut, Edited, At
<1>2. Unrelated(t) = Unrelated(s)
  BY DEF SameBut, Edited, Unrelated, Keys
<1> QED
  BY <1>1, <1>2

LEMMA SamePort ==
  ASSUME NEW s, NEW t, NEW key \in {"transport", "server-udp-ports"}, SameBut(s, t, key)
  PROVE  /\ PortLines(t) = PortLines(s) /\ \A i \in PortLines(s) : t[i] = s[i]
         /\ At(t, "server-port") = At(s, "server-port")
BY SameElsewhere DEF Keys, PortLines

(* The three changes. *)
LEMMA TransportSet ==
  ASSUME NEW lines \in Lines
  PROVE  LET t == SetTransport(lines)
         IN  /\ t \in Lines /\ t # << >> /\ SameBut(lines, t, "transport")
             /\ At(t, "transport") # {}
             /\ \A i \in At(t, "transport") : t[i].val = Nethernet
<1> DEFINE t == SetTransport(lines)
<1> USE LineAt, ProposedLines
<1>1. CASE At(lines, "transport") = {}
  <2>1. t = Append(lines, Prop("transport", Nethernet))
    BY <1>1 DEF SetTransport
  <2>2. /\ t \in Lines /\ DOMAIN t = 1 .. Len(lines) + 1
        /\ \A i \in DOMAIN lines : t[i] = lines[i]
        /\ t[Len(lines) + 1] = Prop("transport", Nethernet)
    BY <2>1 DEF Lines
  <2>3. At(t, "transport") = {Len(lines) + 1}
    BY <1>1, <2>2 DEF At, Prop
  <2> QED
    BY <2>2, <2>3 DEF SameBut, Edited, Prop
<1>2. CASE At(lines, "transport") # {}
  <2>1. t = [i \in DOMAIN lines |-> IF lines[i].key = "transport"
                                   THEN Prop("transport", Nethernet) ELSE lines[i]]
    BY <1>2 DEF SetTransport
  <2>2. t \in Lines /\ DOMAIN t = DOMAIN lines
    BY <2>1 DEF Lines
  <2>3. At(t, "transport") = At(lines, "transport")
    BY <2>1 DEF At, Prop
  <2> QED
    BY <1>2, <2>1, <2>2, <2>3 DEF SameBut, Edited, Prop, At
<1> QED
  BY <1>1, <1>2

LEMMA UdpPortsCommented ==
  ASSUME NEW lines \in Lines
  PROVE  LET t == CommentUdpPorts(lines)
             at == At(lines, "server-udp-ports")
         IN  /\ t \in Lines /\ SameBut(lines, t, "server-udp-ports")
             /\ lines # << >> => t # << >>
             /\ At(t, "server-udp-ports") = at \ {Max(at)}
<1> DEFINE t == CommentUdpPorts(lines)
           at == At(lines, "server-udp-ports")
<1> USE LineAt, ProposedLines
<1>1. CASE at = {}
  BY <1>1 DEF CommentUdpPorts, SameBut
<1>2. CASE at # {}
  <2>1. Max(at) \in at
    BY <1>2, LastAt DEF Keys
  <2>2. t = [lines EXCEPT ![Max(at)] = Prop("#", Commented)]
    BY <1>2 DEF CommentUdpPorts
  <2>3. Max(at) \in DOMAIN lines /\ lines[Max(at)].key = "server-udp-ports"
    BY <2>1 DEF At
  <2> DEFINE m == Max(at)
  <2> HIDE DEF m
  <2>4. t \in Lines /\ DOMAIN t = DOMAIN lines /\ t[m] = Prop("#", Commented)
        /\ \A i \in DOMAIN lines \ {m} : t[i] = lines[i]
    BY <2>2, <2>3 DEF Lines, m
  <2> QED
    BY <2>3, <2>4 DEF SameBut, Edited, Prop, At, m
<1> QED
  BY <1>1, <1>2

LEMMA ServerPortSet ==
  ASSUME NEW lines \in Lines, NEW alt \in Nat
  PROVE  LET t == SetServerPort(lines, alt)
         IN  /\ t \in Lines /\ t # << >> /\ SameBut(lines, t, "server-port")
             /\ ServerPortVal(t) = alt
             /\ At(lines, "server-port") \in {{}, At(t, "server-port")}
             /\ Cardinality(At(lines, "server-port")) <= 1 => ReadServerPort(t) = alt
<1> DEFINE t == SetServerPort(lines, alt)
           at == At(lines, "server-port")
<1> USE LineAt, ProposedLines
<1>0. alt # Junk
  BY PropertiesFixAssumption
<1>1. CASE at = {}
  <2>1. t = Append(lines, Prop("server-port", alt))
    BY <1>1 DEF SetServerPort
  <2>2. /\ t \in Lines /\ DOMAIN t = 1 .. Len(lines) + 1
        /\ \A i \in DOMAIN lines : t[i] = lines[i]
        /\ t[Len(lines) + 1] = Prop("server-port", alt)
    BY <2>1 DEF Lines
  <2>3. At(t, "server-port") = {Len(lines) + 1}
    BY <1>1, <2>2 DEF At, Prop
  <2>4. PortLines(t) = {Len(lines) + 1}
    BY <2>2, <2>3, <1>0 DEF PortLines, Prop
  <2> HIDE DEF t
  <2>5. ServerPortVal(t) = alt /\ ReadServerPort(t) = alt
    <3>1. Max(PortLines(t)) = Len(lines) + 1 /\ Min(PortLines(t)) = Len(lines) + 1
      BY <2>2, <2>4, PortRead
    <3>2. t[Len(lines) + 1].val = alt /\ PortLines(t) # {}
      BY <2>2, <2>4 DEF Prop
    <3> QED
      BY <3>1, <3>2 DEF ServerPortVal, ReadServerPort
  <2>6. SameBut(lines, t, "server-port")
    BY <2>2 DEF SameBut, Edited, Prop
  <2> QED
    BY <1>1, <2>2, <2>3, <2>5, <2>6 DEF t
<1>2. CASE at # {}
  <2>1. Max(at) \in at /\ \A i \in at : i <= Max(at)
    BY <1>2, LastAt DEF Keys
  <2>2. t = [lines EXCEPT ![Max(at)] = Prop("server-port", alt)]
    BY <1>2 DEF SetServerPort
  <2>3. Max(at) \in DOMAIN lines /\ lines[Max(at)].key = "server-port"
    BY <2>1 DEF At
  <2> DEFINE m == Max(at)
  <2>4. m \in at /\ \A i \in at : i <= m
    BY <2>1
  <2> HIDE DEF m
  <2>5. t \in Lines /\ DOMAIN t = DOMAIN lines /\ t[m] = Prop("server-port", alt)
        /\ \A i \in DOMAIN lines \ {m} : t[i] = lines[i]
    BY <2>2, <2>3 DEF Lines, m
  <2>6. At(t, "server-port") = at
    BY <2>3, <2>4, <2>5 DEF At, Prop
  <2>7. m \in PortLines(t) /\ PortLines(t) \subseteq at
    BY <2>4, <2>5, <2>6, <1>0 DEF PortLines, Prop
  <2>8. Max(PortLines(t)) = m
    BY <2>4, <2>5, <2>7, PortRead, at \subseteq Nat DEF At
  <2>9. ServerPortVal(t) = alt
    BY <2>5, <2>7, <2>8 DEF ServerPortVal, Prop
  <2>10. SameBut(lines, t, "server-port") /\ t # << >>
    BY <2>3, <2>5 DEF SameBut, Edited, Prop, m
  <2>11. ASSUME Cardinality(at) <= 1
         PROVE  ReadServerPort(t) = alt
    <3>1. \A i \in at : i = m
      BY <2>4, <2>11, OneOrNone, at \subseteq 1 .. Len(lines) DEF At
    <3>2. Min(PortLines(t)) = m
      BY <3>1, <2>5, <2>7, PortRead
    <3> QED
      BY <3>2, <2>5, <2>7 DEF ReadServerPort, Prop
  <2> QED
    BY <2>5, <2>6, <2>9, <2>10, <2>11
<1> QED
  BY <1>1, <1>2

-----------------------------------------------------------------------------
(* All three together. *)
LEMMA SameUnrelated ==
  ASSUME NEW s, NEW t, NEW key \in {"transport", "server-udp-ports", "server-port"},
         SameBut(s, t, key)
  PROVE  Unrelated(t) = Unrelated(s)
BY SameElsewhere DEF Keys

LEMMA RewrittenLines ==
  ASSUME NEW lines \in Lines, NEW changes, NEW alt \in Nat
  PROVE  LET r == Rewritten(lines, changes, alt)
             at == At(lines, "server-udp-ports")
         IN  /\ r \in Lines /\ r # << >>
             /\ Unrelated(r) = Unrelated(lines)
             /\ At(r, "transport") # {} /\ \A i \in At(r, "transport") : r[i].val = Nethernet
             /\ At(r, "server-udp-ports") = at \ {Max(at)}
             /\ At(lines, "server-port") \in {{}, At(r, "server-port")}
             /\ "server-port" \in changes =>
                  /\ ServerPortVal(r) = alt
                  /\ Cardinality(At(lines, "server-port")) <= 1 => ReadServerPort(r) = alt
             /\ "server-port" \notin changes =>
                  /\ ServerPortVal(r) = ServerPortVal(lines)
                  /\ ReadServerPort(r) = ReadServerPort(lines)
<1> DEFINE t == SetTransport(lines)
           c == CommentUdpPorts(t)
           r == Rewritten(lines, changes, alt)
           at == At(lines, "server-udp-ports")
<1>1. /\ t \in Lines /\ t # << >> /\ SameBut(lines, t, "transport")
      /\ At(t, "transport") # {}
      /\ \A i \in At(t, "transport") : t[i].val = Nethernet
  BY TransportSet
<1>2. At(t, "server-udp-ports") = at
  BY <1>1, SameElsewhere DEF Keys
<1>3. /\ PortLines(t) = PortLines(lines) /\ \A i \in PortLines(lines) : t[i] = lines[i]
      /\ At(t, "server-port") = At(lines, "server-port")
  BY <1>1, SamePort
<1>4. Unrelated(t) = Unrelated(lines)
  BY <1>1, SameUnrelated
<1> HIDE DEF t, at
<1>5. /\ c \in Lines /\ SameBut(t, c, "server-udp-ports") /\ c # << >>
      /\ At(c, "server-udp-ports") = at \ {Max(at)}
  BY <1>1, <1>2, UdpPortsCommented
<1>6. /\ PortLines(c) = PortLines(t) /\ \A i \in PortLines(t) : c[i] = t[i]
      /\ At(c, "server-port") = At(t, "server-port")
  BY <1>5, SamePort
<1>7. Unrelated(c) = Unrelated(lines)
  BY <1>4, <1>5, SameUnrelated
<1>8. At(c, "transport") = At(t, "transport") /\ \A i \in At(t, "transport") : c[i] = t[i]
  BY <1>5, SameElsewhere DEF Keys
<1>9. At(c, "transport") # {} /\ \A i \in At(c, "transport") : c[i].val = Nethernet
  BY <1>1, <1>8
<1> HIDE DEF c
<1>10. CASE "server-port" \in changes
  <2>1. r = SetServerPort(c, alt)
    BY <1>10 DEF Rewritten, c, t
  <2>2. /\ r \in Lines /\ r # << >> /\ SameBut(c, r, "server-port")
        /\ ServerPortVal(r) = alt
        /\ At(c, "server-port") \in {{}, At(r, "server-port")}
        /\ Cardinality(At(c, "server-port")) <= 1 => ReadServerPort(r) = alt
    BY <1>5, <2>1, ServerPortSet
  <2>3. Unrelated(r) = Unrelated(lines)
    BY <1>7, <2>2, SameUnrelated
  <2>4. /\ At(r, "transport") = At(c, "transport")
        /\ \A i \in At(c, "transport") : r[i] = c[i]
        /\ At(r, "server-udp-ports") = At(c, "server-udp-ports")
    BY <2>2, SameElsewhere DEF Keys
  <2> QED
    BY <1>3, <1>5, <1>6, <1>9, <1>10, <2>2, <2>3, <2>4 DEF at
<1>11. CASE "server-port" \notin changes
  <2>1. r = c
    BY <1>11 DEF Rewritten, c, t
  <2>2. PortLines(c) = PortLines(lines) /\ \A i \in PortLines(lines) : c[i] = lines[i]
    BY <1>3, <1>6
  <2>3. ServerPortVal(c) = ServerPortVal(lines) /\ ReadServerPort(c) = ReadServerPort(lines)
    BY <2>2, PortRead DEF ServerPortVal, ReadServerPort
  <2> QED
    BY <1>3, <1>5, <1>6, <1>7, <1>9, <1>11, <2>1, <2>3 DEF at
<1> QED
  BY <1>10, <1>11

-----------------------------------------------------------------------------
(* What a plan is made of. *)
LEMMA PlanParts ==
  ASSUME NEW lines \in Lines, NEW listen \in Nat, NEW alt \in Nat, NEW bdsLocal
  PROVE  LET p == Plan(lines, listen, alt, bdsLocal)
         IN  /\ p.changes = Changes(lines, listen, alt, bdsLocal)
             /\ p.changes \subseteq Keys
             /\ p.content \in Lines /\ p.newPort \in Nat
             /\ p.alt = alt /\ p.bdsLocal = bdsLocal
             /\ p.newPort \in {0, alt}
             /\ p.newPort # 0 => "server-port" \in p.changes
             /\ "server-port" \in p.changes => p.newPort = alt
             /\ p.changes = {} => p.content = lines
             /\ p.changes # {} => p.content = Rewritten(lines, p.changes, alt)
<1>1. Changes(lines, listen, alt, bdsLocal) \subseteq Keys
  BY DEF Changes, Keys
<1> QED
  BY <1>1, RewrittenLines DEF Plan

(* A fix leaves the other lines where and as they are, and leaves nothing to fix  *)
(* if there was no more than one server-udp-ports; and where all of a file's      *)
(* server-port is one line, all who read it read the new port                   *)
(* (planServerPropertiesFix, bdsfix.go:81-168; readServerPort, bdsfix.go:46).    *)
THEOREM PlanRepairs ==
  ASSUME NEW lines \in Lines, NEW listen \in Nat, NEW alt \in Nat, NEW bdsLocal \in BOOLEAN
  PROVE  LET p == Plan(lines, listen, alt, bdsLocal)
         IN  /\ Unrelated(p.content) = Unrelated(lines)
             /\ Cardinality(At(lines, "server-udp-ports")) <= 1 =>
                  Changes(p.content, listen, alt, bdsLocal) = {}
             /\ p.newPort # 0 /\ Cardinality(At(lines, "server-port")) <= 1 =>
                  ReadServerPort(p.content) = p.newPort
<1> DEFINE p == Plan(lines, listen, alt, bdsLocal)
           at == At(lines, "server-udp-ports")
           r  == Rewritten(lines, p.changes, alt)
<1>1. /\ p.changes = Changes(lines, listen, alt, bdsLocal)
      /\ p.newPort # 0 => "server-port" \in p.changes
      /\ "server-port" \in p.changes => p.newPort = alt
      /\ p.changes = {} => p.content = lines
      /\ p.changes # {} => p.content = r
  BY PlanParts
<1>2. CASE p.changes = {}
  BY <1>1, <1>2
<1>3. CASE p.changes # {}
  <2> HIDE DEF p
  <2>1. /\ r \in Lines /\ r # << >>
        /\ Unrelated(r) = Unrelated(lines)
        /\ At(r, "transport") # {} /\ \A i \in At(r, "transport") : r[i].val = Nethernet
        /\ At(r, "server-udp-ports") = at \ {Max(at)}
        /\ "server-port" \in p.changes =>
             /\ ServerPortVal(r) = alt
             /\ Cardinality(At(lines, "server-port")) <= 1 => ReadServerPort(r) = alt
        /\ "server-port" \notin p.changes => ServerPortVal(r) = ServerPortVal(lines)
    BY RewrittenLines
  <2>2. ASSUME Cardinality(at) <= 1
        PROVE  At(r, "server-udp-ports") = {}
    <3>1. \A i \in at : i = Max(at)
      <4> SUFFICES ASSUME NEW i \in at PROVE i = Max(at)
        OBVIOUS
      <4>1. Max(at) \in at
        BY LastAt DEF Keys
      <4>2. at \in SUBSET (1 .. Len(lines)) /\ Len(lines) \in Nat
        BY LineAt DEF At
      <4> QED
        BY <2>2, <4>1, <4>2, OneOrNone
    <3> QED
      BY <2>1, <3>1
  <2>3. ~Conflict(r, listen, alt, bdsLocal)
    <3>1. CASE "server-port" \in p.changes
      BY <2>1, <3>1 DEF Conflict
    <3>2. CASE "server-port" \notin p.changes
      <4>1. lines # << >>
        BY <1>1, <1>3 DEF Changes
      <4>2. ~Conflict(lines, listen, alt, bdsLocal)
        BY <1>1, <3>2, <4>1 DEF Changes
      <4> QED
        BY <2>1, <3>2, <4>2 DEF Conflict
    <3> QED
      BY <3>1, <3>2
  <2>4. Cardinality(at) <= 1 => Changes(r, listen, alt, bdsLocal) = {}
    BY <2>1, <2>2, <2>3 DEF Changes
  <2> QED
    BY <1>1, <1>3, <2>1, <2>4 DEF p
<1> QED
  BY <1>2, <1>3

(* Where it could offer BDS another port, a fix leaves no conflict with the port  *)
(* the proxy listens on, whichever line counts, if there is one at most.          *)
THEOREM PlanResolves ==
  ASSUME NEW lines \in Lines, NEW listen \in Nat \ {0}, NEW alt \in Nat \ {0, listen},
         NEW bdsLocal \in BOOLEAN
  PROVE  LET content == Plan(lines, listen, alt, bdsLocal).content
         IN  bdsLocal /\ content # << >> /\ Cardinality(At(content, "server-port")) <= 1
               => ReadServerPort(content) # listen
<1> DEFINE p == Plan(lines, listen, alt, bdsLocal)
           content == p.content
           ports == At(content, "server-port")
           r  == Rewritten(lines, p.changes, alt)
<1>1. /\ p.changes = Changes(lines, listen, alt, bdsLocal)
      /\ p.changes = {} => content = lines
      /\ p.changes # {} => content = r
      /\ content \in Lines
  BY PlanParts
<1>0. SUFFICES ASSUME bdsLocal, content # << >>, Cardinality(ports) <= 1
             PROVE  ReadServerPort(content) # listen
  OBVIOUS
<1> HIDE DEF p
<1>2. lines # << >>
  BY <1>0, <1>1 DEF Changes
<1>3. /\ At(lines, "server-port") \in {{}, At(r, "server-port")}
      /\ "server-port" \in p.changes /\ Cardinality(At(lines, "server-port")) <= 1 =>
           ReadServerPort(r) = alt
      /\ "server-port" \notin p.changes => ServerPortVal(r) = ServerPortVal(lines)
  BY RewrittenLines
<1>4. CASE "server-port" \in p.changes
  <2>1. content = r
    BY <1>1, <1>4
  <2>2. Cardinality(At(lines, "server-port")) <= 1
    <3>1. CASE At(lines, "server-port") = {}
      BY <3>1, FS_EmptySet
    <3>2. CASE At(lines, "server-port") = At(r, "server-port")
      BY <1>0, <2>1, <3>2
    <3> QED
      BY <1>3, <3>1, <3>2
  <2> QED
    BY <1>3, <1>4, <2>1, <2>2
<1>5. CASE "server-port" \notin p.changes
  <2>1. ServerPortVal(lines) # listen
    BY <1>0, <1>1, <1>2, <1>5 DEF Changes, Conflict
  <2>2. ServerPortVal(content) = ServerPortVal(lines)
    BY <1>1, <1>3, <1>5
  <2>3. ReadServerPort(content) = ServerPortVal(content)
    <3>1. Cardinality(ports) <= 1
      BY <1>0
    <3> QED
      BY <1>1, <3>1, OnePortRead
  <2> QED
    BY <2>1, <2>2, <2>3
<1> QED
  BY <1>4, <1>5

=============================================================================
