--------------------------- MODULE PropertiesFix ---------------------------
(***************************************************************************)
(* bdsfix.go without its file accesses: what is read out of a               *)
(* server.properties and how planServerPropertiesFix rewrites one.  A file   *)
(* is a sequence of lines; line endings, spaces and the wording of the       *)
(* change messages are left out.                                            *)
(***************************************************************************)
EXTENDS Sequences, FiniteSetsExt

CONSTANTS
  Nethernet,   \* the one value of transport the proxy can work with
  Junk,        \* a value strconv.Atoi rejects
  Commented,   \* what is left of a server-udp-ports line: "#server-udp-ports="
  Val          \* the values of lines other than server-port

ASSUME PropertiesFixAssumption == {Nethernet, Commented} \subseteq Val /\ Junk \notin Nat

DefaultPort == 19132

(* splitPropLine.  The key of a line is one of the three the proxy cares about, *)
(* "other", or "#" for a line that sets no property.                            *)
Keys == {"transport", "server-udp-ports", "server-port", "other", "#"}
Prop(key, val) == [key |-> key, val |-> val]
Line == [key : {"server-port"}, val : Nat \cup {Junk}]
          \cup [key : Keys \ {"server-port"}, val : Val]
Lines == Seq(Line)
At(lines, key) == {i \in DOMAIN lines : lines[i].key = key}

PortLines(lines) == {i \in At(lines, "server-port") : lines[i].val # Junk}

(* readServerPort: the first server-port counts. *)
ReadServerPort(lines) ==
  IF PortLines(lines) = {} THEN DefaultPort ELSE lines[Min(PortLines(lines))].val

(* serverPortVal of planServerPropertiesFix: there the last one counts. *)
ServerPortVal(lines) ==
  IF PortLines(lines) = {} THEN DefaultPort ELSE lines[Max(PortLines(lines))].val

(* Mutant: a file that leaves server-port at its default conflicts with nobody.  *)
ConflictIfSet(lines, listen, alt, bdsLocal) ==
  PortLines(lines) # {} /\ bdsLocal /\ listen # 0 /\ ServerPortVal(lines) = listen
    /\ alt \notin {0, listen}

(* What is wrong with a file, given the port the proxy listens on, a port for   *)
(* BDS to change to, and whether BDS runs on the same host.                     *)
Conflict(lines, listen, alt, bdsLocal) ==
  bdsLocal /\ listen # 0 /\ ServerPortVal(lines) = listen /\ alt \notin {0, listen}

Changes(lines, listen, alt, bdsLocal) ==
  IF lines = << >> THEN {} ELSE
  {k \in {"transport"} : \A i \in At(lines, k) : lines[i].val # Nethernet}
    \cup {k \in {"server-udp-ports"} : At(lines, k) # {}}
    \cup {k \in {"server-port"} : Conflict(lines, listen, alt, bdsLocal)}

-----------------------------------------------------------------------------
SetTransport(lines) ==
  IF At(lines, "transport") = {} THEN Append(lines, Prop("transport", Nethernet))
  ELSE [i \in DOMAIN lines |->
          IF lines[i].key = "transport" THEN Prop("transport", Nethernet) ELSE lines[i]]

(* Only the last of several is commented out. *)
CommentUdpPorts(lines) ==
  LET at == At(lines, "server-udp-ports")
  IN  IF at = {} THEN lines ELSE [lines EXCEPT ![Max(at)] = Prop("#", Commented)]

(* Mutant: the new server-port goes before the line that is already there.     *)
SetServerPortFirst(lines, alt) == <<Prop("server-port", alt)>> \o lines
SetServerPort(lines, alt) ==
  LET at == At(lines, "server-port")
  IN  IF at = {} THEN Append(lines, Prop("server-port", alt))
      ELSE [lines EXCEPT ![Max(at)] = Prop("server-port", alt)]

Rewritten(lines, changes, alt) ==
  LET set == CommentUdpPorts(SetTransport(lines))
  IN  IF "server-port" \in changes THEN SetServerPort(set, alt) ELSE set

(* planServerPropertiesFix.  Nothing is written unless changes are reported. *)
Plan(lines, listen, alt, bdsLocal) ==
  LET changes == Changes(lines, listen, alt, bdsLocal)
  IN  [changes |-> changes,
       content |-> IF changes = {} THEN lines ELSE Rewritten(lines, changes, alt),
       newPort |-> IF "server-port" \in changes THEN alt ELSE 0,
       \* the arguments, for the properties
       alt |-> alt, bdsLocal |-> bdsLocal]

-----------------------------------------------------------------------------
(* The lines of a file the program has no business with, with their places. *)
Unrelated(lines) ==
  {<<i, lines[i]>> : i \in {i \in DOMAIN lines :
                           lines[i].key \in {"other", "#"} /\ lines[i].val # Commented}}

=============================================================================
