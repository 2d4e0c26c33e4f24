--------------------------- MODULE StartupProofs ---------------------------
(***************************************************************************)
(* Proofs about Startup: the types, what a fix does, what it leaves of the   *)
(* file, which port it ends with, what is saved and what clients are told.   *)
(***************************************************************************)
EXTENDS Startup, PropertiesFixProofs

(* Where there is no process, or one that has not planned or saved anything. *)
Idle == {"off", "panicked"}
Before == Idle \cup {"load", "wizard", "public"}
(* Where the wizard or main has the options to fix and save with.            *)
Busy == {"read", "ask to save", "save", "save write"} \cup Fixing
Ended == {"listen", "running"}

-----------------------------------------------------------------------------
(* The inductive invariant.  Types: as in TypeOK, with what a step needs to     *)
(* know of opts and plan before the program runs.                              *)
Plans == [changes : SUBSET Keys, content : Lines, newPort : Nat, alt : Nat, bdsLocal : BOOLEAN]
Types ==
  /\ pc \in Before \cup Busy \cup {"apply"} \cup Ended
  /\ file \in Lines \cup {NoFile} /\ admin \in Content /\ orig \in Lines
  /\ bak \in [0 .. MaxSecond -> Lines \cup {NoFile}] /\ now \in 0 .. MaxSecond
  /\ cfg \in {NoFile, Torn} \/ cfg \in Config
  /\ bdsPort \in Port \cup {0}
  /\ flags \in Flags /\ opts \in Config /\ plan \in Plans
  /\ did \in [port : Nat, saved : BOOLEAN]
  /\ knowsIPs \in BOOLEAN /\ by \in {"wizard", "flags"}
  /\ found \in BOOLEAN /\ reused \in BOOLEAN /\ given \subseteq {"host", "adv"}

(* What has been settled, the further the program is. *)
Settled ==
  /\ pc \in {"public"} \cup Busy \cup Ended \/ (pc = "apply" /\ by = "wizard") =>
       opts.listen # 0 /\ opts.bds \in Bds
  /\ pc \in Busy \cup Ended \/ (pc = "apply" /\ by = "wizard") => opts.mux # 0
  /\ pc \in Ended \/ (pc \in Busy /\ by = "flags") => opts.idle # 0
  /\ pc = "running" => opts \in Options

(* Who is at work. *)
AtWork ==
  /\ pc \in {"public", "ask to save"} => by = "wizard"
  /\ pc \in Idle \cup Ended \cup {"load", "wizard"} => by = "flags"
  /\ pc = "wizard" \/ by = "wizard" => flags.wizard \/ flags = NoFlags
  /\ pc \in {"save", "save write"} /\ by = "wizard" => flags = NoFlags
  /\ pc \in {"read"} \cup Fixing /\ by = "flags" => flags.fix
  /\ by = "wizard" => knowsIPs
  /\ flags.wizard /\ pc \notin Idle \cup {"load", "wizard"} => knowsIPs

(* The plan is that of the file read and the options. *)
Planned ==
  /\ pc \in Before \/ (pc = "apply" /\ by = "flags") => plan = NoPlan /\ did = Nothing
  /\ plan.alt = 0 => plan = NoPlan
  /\ plan.alt # 0 /\ ~flags.fix => knowsIPs
  /\ (pc \in Fixing \/ (plan.alt # 0 /\ FlagsAgree)) =>
       plan = Plan(orig, opts.listen, plan.alt, plan.bdsLocal)
  /\ plan.alt # 0 /\ FlagsAgree =>
       (HostIsLocal(opts.bds.host, flags.wizard \/ ~flags.fix) => plan.bdsLocal)

(* The port and the options as they are carried through and saved. *)
Normal(o) == [o EXCEPT !.idle = IF @ < 0 THEN DefaultIdle ELSE @]
Carried ==
  /\ did.port # 0 /\ FlagsAgree =>
       opts.bds.port = did.port /\ (opts.bds.splits \/ opts.bds.host \in IPv6)
  /\ did.saved =>
       /\ cfg \in Config /\ cfg.bds \in Bds
       /\ pc \in {"apply"} \cup Ended
       /\ pc = "apply" => by = "wizard" /\ flags = NoFlags /\ cfg = opts
       /\ pc = "listen" => Normal(opts) = FromConfig(cfg)
       /\ pc = "running" =>
            /\ cfg.host \in IP => opts.host = cfg.host
            /\ Normal(opts) = [FromConfig(cfg) EXCEPT
                 !.host = opts.host, !.adv = IF cfg.adv = 0 THEN opts.mux ELSE cfg.adv]

(* Nothing literal in the options or in proxy.json that was not given. *)
Given ==
  /\ cfg \notin {NoFile, Torn} => Literal(cfg) \subseteq given
  /\ Literal(flags) \subseteq given
  /\ pc # "running" => Literal(opts) \subseteq given

IInv == Types /\ Settled /\ AtWork /\ Planned /\ Carried /\ Given

(* The files, if nobody edits server.properties between its reading and its fix. *)
InBackup(content) == \E t \in 0 .. MaxSecond : bak[t] = content
Kept ==
  /\ admin # NoFile /\ ~reused => admin = file \/ InBackup(admin)
  /\ pc \in {"prompt", "backup", "truncate"} => file = orig
  /\ pc = "truncate" => InBackup(orig)
  /\ pc = "write" /\ admin # NoFile /\ ~reused => InBackup(admin)

-----------------------------------------------------------------------------
(* Options and their parts. *)
LEMMA InConfig ==
  ASSUME NEW o \in Config
  PROVE  /\ o.listen \in Nat /\ o.bds \in Bds \cup {NoBds} /\ o.mux \in Nat /\ o.host \in Hosts
         /\ o.adv \in Nat /\ o.idle \in Int /\ o.insecure \in BOOLEAN
BY DEF Config

LEMMA InFlags ==
  ASSUME NEW f \in Flags
  PROVE  /\ f.listen \in Nat /\ f.bds \in Bds \cup {NoBds} /\ f.mux \in Nat /\ f.host \in Hosts
         /\ f.adv \in Nat /\ f.idle \in Int /\ f.insecure \in BOOLEAN
         /\ f.wizard \in BOOLEAN /\ f.fix \in BOOLEAN /\ f.save \in BOOLEAN
         /\ f.config \in BOOLEAN
BY DEF Flags

LEMMA NoneGiven ==
  /\ NoFlags \in Flags /\ EmptyConfig \in Config
  /\ Literal(NoFlags) = {} /\ Literal(EmptyConfig) = {}
  /\ ~NoFlags.fix /\ ~NoFlags.save /\ ~NoFlags.wizard
  /\ NoFlags.listen = 0 /\ NoFlags.bds = NoBds
BY StartupAssumption DEF NoFlags, EmptyConfig, Flags, Config, Hosts, Literal

LEMMA FreeOne ==
  ASSUME NEW candidates, DOMAIN candidates \subseteq Nat
  PROVE  FreeTCPPort(candidates) \in Nat \ {0}
<1> DEFINE free == {i \in DOMAIN candidates : ~InUse(candidates[i])}
<1>1. free # {} => Min(free) \in free
  BY MinOfNats, free \in SUBSET Nat
<1>2. \A i \in free : candidates[i] \in Nat \ {0}
  BY StartupAssumption DEF InUse
<1>3. FreeTCPPort(candidates) = IF free = {} THEN Ephemeral ELSE candidates[Min(free)]
  BY DEF FreeTCPPort
<1> HIDE DEF free
<1> QED
  BY <1>1, <1>2, <1>3, StartupAssumption

LEMMA NewAddress ==
  ASSUME NEW bds \in Bds, NEW port \in Nat \ {0}
  PROVE  LET b == Concatenated(HostOf(bds), port)
         IN  b \in Bds /\ b.port = port /\ (b.splits \/ b.host \in IPv6)
<1> DEFINE splits == HostOf(bds) \notin IPv6
           b == Concatenated(HostOf(bds), port)
<1>1. HostOf(bds) \in {NoHost, Loopback, Loopback6, OwnIP, Elsewhere}
  BY DEF Bds, HostOf
<1>2. splits \in BOOLEAN
  BY Zenon
<1>3. b = [host |-> HostOf(bds), port |-> port, splits |-> splits]
  BY DEF Concatenated
<1>4. splits \/ HostOf(bds) \in IPv6
  BY Zenon
<1> HIDE DEF splits, b
<1>5. b \in Bds /\ b.port = port /\ b.host = HostOf(bds) /\ b.splits = splits
  BY <1>1, <1>2, <1>3 DEF Bds
<1>6. b.splits \/ b.host \in IPv6
  BY <1>4, <1>5, Zenon
<1> QED
  BY <1>5, <1>6 DEF b

LEMMA FromConfigParts ==
  ASSUME NEW c \in Config
  PROVE  LET o == FromConfig(c)
         IN  /\ o \in Config /\ o.listen # 0 /\ o.bds \in Bds /\ o.mux # 0 /\ o.idle \in Nat \ {0}
             /\ Literal(o) = Literal(c)
             /\ c.listen # 0 => o.listen = c.listen
             /\ c.bds \in Bds => o.bds = c.bds
<1>1. Default \in Bds
  BY DEF Default, Bds, DefaultPort
<1>2. DefaultListen \in Nat \ {0} /\ DefaultMux \in Nat \ {0} /\ DefaultIdle \in Nat \ {0}
  BY DEF DefaultListen, DefaultMux, DefaultIdle
<1>3. FromConfig(c) \in Config
  BY <1>1, <1>2, InConfig DEF FromConfig, Config
<1> QED
  BY <1>1, <1>2, <1>3, InConfig, StartupAssumption DEF FromConfig, Literal

LEMMA OverrideParts ==
  ASSUME NEW c \in Config, NEW f \in Flags, c.bds \in Bds
  PROVE  LET o == Override(c, f)
         IN  /\ o \in Config /\ o.bds \in Bds
             /\ c.listen # 0 => o.listen # 0
             /\ c.mux # 0 => o.mux # 0
             /\ c.idle # 0 => o.idle # 0
             /\ Literal(o) \subseteq Literal(c) \cup Literal(f)
             /\ f.listen = 0 => o.listen = c.listen
             /\ f.bds = NoBds => o.bds = c.bds
<1>1. Override(c, f) \in Config
  BY InConfig, InFlags DEF Override, Config
<1> QED
  BY <1>1, InConfig, InFlags, StartupAssumption DEF Override, Literal

LEMMA OverrideNone ==
  ASSUME NEW c \in Config
  PROVE  Override(c, NoFlags) = c
<1>1. c = [listen |-> c.listen, bds |-> c.bds, mux |-> c.mux, host |-> c.host, adv |-> c.adv,
           idle |-> c.idle, insecure |-> c.insecure]
  BY DEF Config
<1>2. (c.insecure \/ FALSE) = c.insecure
  BY InConfig
<1> QED
  BY <1>1, <1>2 DEF Override, NoFlags

LEMMA AdvertisedParts ==
  ASSUME NEW o \in Config, now \in 0 .. MaxSecond
  PROVE  LET a == Advertised(o)
         IN  /\ a = [o EXCEPT !.host = a.host, !.adv = IF o.adv = 0 THEN o.mux ELSE o.adv]
             /\ o.host \in IP => a.host = o.host
             /\ o.host \notin IP => a.host \in {GuessAt[now], NameAt[now]}
             /\ a.host \in IP
             /\ a \in Config
             /\ o.mux # 0 /\ o.bds \in Bds => a \in Options
<1> DEFINE a == Advertised(o)
           h == CASE o.host = Unnamed -> GuessAt[now]
                  [] o.host = Name    -> NameAt[now]
                  [] OTHER            -> o.host
<1>1. GuessAt[now] \in IP /\ NameAt[now] \in IP
  BY StartupAssumption
<1>2. /\ o.host \in IP => h = o.host
      /\ o.host \notin IP => h \in {GuessAt[now], NameAt[now]}
      /\ h \in IP
  BY <1>1, InConfig, StartupAssumption DEF Hosts
<1> HIDE DEF h
<1>3. a = [o EXCEPT !.host = h, !.adv = IF o.adv = 0 THEN o.mux ELSE o.adv]
  BY DEF Advertised, h
<1>4. a.host = h
  BY <1>3 DEF Config
<1>5. a \in Config
  BY <1>2, <1>3, InConfig DEF Config, Hosts
<1>6. o.mux # 0 /\ o.bds \in Bds => a \in Options
  BY <1>2, <1>3, InConfig DEF Config, Options
<1> QED
  BY <1>2, <1>3, <1>4, <1>5, <1>6

LEMMA PlanIn ==
  ASSUME NEW lines \in Lines, NEW listen \in Nat, NEW alt \in Nat, NEW bdsLocal \in BOOLEAN
  PROVE  LET p == Plan(lines, listen, alt, bdsLocal)
         IN  p \in Plans /\ p.alt = alt /\ p.bdsLocal = bdsLocal
<1> DEFINE p == Plan(lines, listen, alt, bdsLocal)
<1>0. ASSUME NEW b
      PROVE  LET q == Plan(lines, listen, alt, b)
             IN  /\ q.changes \subseteq Keys /\ q.content \in Lines /\ q.newPort \in Nat
                 /\ q.alt = alt /\ q.bdsLocal = b
  BY PlanParts
<1>1. /\ p.changes \subseteq Keys /\ p.content \in Lines /\ p.newPort \in Nat
      /\ p.alt = alt /\ p.bdsLocal = bdsLocal
  BY <1>0, Zenon
<1>2. p = [changes |-> p.changes, content |-> p.content, newPort |-> p.newPort,
           alt |-> p.alt, bdsLocal |-> p.bdsLocal]
  BY DEF Plan
<1>3. p.bdsLocal \in BOOLEAN
  BY <1>1
<1> HIDE DEF p
<1>4. p \in Plans
  BY <1>1, <1>2, <1>3 DEF Plans
<1> QED
  BY <1>1, <1>4 DEF p

LEMMA NoPlanIn == NoPlan \in Plans /\ NoPlan.alt = 0
<1>1. << >> \in Lines
  BY DEF Lines
<1>2. Changes(<< >>, 0, 0, FALSE) = {}
  BY DEF Changes
<1>3. NoPlan = [changes |-> {}, content |-> << >>, newPort |-> 0, alt |-> 0, bdsLocal |-> FALSE]
  BY <1>2 DEF NoPlan, Plan
<1> QED
  BY <1>1, <1>3 DEF Plans

LEMMA Shortened ==
  ASSUME NEW lines \in Lines, NEW n \in 0 .. Len(lines) - 1
  PROVE  SubSeq(lines, 1, n) \in Lines
BY DEF Lines

-----------------------------------------------------------------------------
(* What the larger steps do, with the types of what they choose. *)
LEMMA AnswerDoes ==
  ASSUME Types, WizardAnswers
  PROVE  /\ pc = "wizard" /\ pc' = "public" /\ by' = "wizard" /\ knowsIPs' = TRUE
         /\ found' \in BOOLEAN /\ UNCHANGED <<files, world, flags, orig, plan, did>>
         /\ \E l \in Nat \ {0}, bds \in Bds :
              opts' = [EmptyConfig EXCEPT !.bds = bds, !.listen = l]
<1>1. PICK listen \in ListenAnswer,
           bds \in BdsAnswer \cup {[Default EXCEPT !.port = ProposedPort]} :
             Answer(listen, bds)
  BY DEF WizardAnswers
<1>2. ProposedPort \in Nat \ {0}
  BY PortRead, DefaultPort \in Nat \ {0} DEF Types, ProposedPort, DefaultPort
<1>3. bds \in Bds
  BY <1>1, <1>2, StartupAssumption DEF Bds, Default
<1> DEFINE clash == HostIsLocal(HostOf(bds), TRUE) /\ listen = bds.port
           alt   == FreeTCPPort(<<19130, 19131, 19134, 19135, bds.port + 1>>)
           l     == IF clash THEN alt ELSE listen
<1>4. alt \in Nat \ {0}
  BY FreeOne
<1>5. opts' = [EmptyConfig EXCEPT !.bds = bds, !.listen = l]
  BY <1>1 DEF Answer
<1> HIDE DEF alt, clash
<1>6. l \in Nat \ {0}
  BY <1>4, StartupAssumption
<1> HIDE DEF l
<1>7. \E k \in Nat \ {0}, b \in Bds : opts' = [EmptyConfig EXCEPT !.bds = b, !.listen = k]
  BY <1>3, <1>5, <1>6
<1>8. /\ pc = "wizard" /\ pc' = "public" /\ by' = "wizard" /\ knowsIPs' = TRUE
      /\ found' \in BOOLEAN /\ UNCHANGED <<files, world, flags, orig, plan, did>>
  BY <1>1 DEF Answer
<1> QED
  BY <1>7, <1>8

LEMMA AnswerPublicDoes ==
  ASSUME Types, NEW a \in PublicAnswer, AnswerPublic(a)
  PROVE  /\ pc = "public" /\ pc' = "read" /\ given' = given \cup Literal(opts')
         /\ UNCHANGED <<files, bdsPort, admin, reused, now, flags, knowsIPs, orig, plan, by, found,
                        did>>
         /\ \E m \in Nat \ {0}, h \in Hosts, v \in Nat :
              opts' = [opts EXCEPT !.mux = m, !.host = h, !.adv = v]
<1> DEFINE m == IF a.mux = Enter THEN DefaultMux ELSE a.mux
           h == IF a.host = Enter THEN GuessAt[now] ELSE a.host
           v == IF a.adv = Enter THEN m ELSE a.adv
<1>1. m \in Nat \ {0} /\ h \in Hosts /\ v \in Nat
  BY StartupAssumption, DefaultMux \in Nat \ {0} DEF Types, Hosts, DefaultMux
<1>2. opts' = [opts EXCEPT !.mux = m, !.host = h, !.adv = v]
  BY DEF AnswerPublic
<1> HIDE DEF m, h, v
<1> QED
  BY <1>1, <1>2 DEF AnswerPublic, files

LEMMA ReadDoes ==
  ASSUME Types, Read
  PROVE  /\ pc = "read"
         /\ UNCHANGED <<files, world, flags, opts, knowsIPs, by, found, did>>
         /\ orig' = file /\ file \in Lines /\ plan' \in Plans /\ plan'.alt # 0
         /\ plan' = Plan(file, opts.listen, plan'.alt, plan'.bdsLocal)
         /\ HostIsLocal(opts.bds.host, knowsIPs) => plan'.bdsLocal
         /\ pc' \in {AfterFix, IF by = "wizard" THEN "prompt" ELSE "backup"}
<1> DEFINE alt   == FreeTCPPort(<<19131, 19130, 19134, 19135, opts.listen + 1>>)
           local == HostIsLocal(HostOf(opts.bds), knowsIPs)
<1>1. alt \in Nat \ {0} /\ local \in BOOLEAN /\ opts.listen \in Nat
  BY FreeOne, InConfig DEF Types, HostIsLocal
<1>2. /\ pc = "read" /\ UNCHANGED <<files, world, flags, opts, knowsIPs, by, found, did>>
      /\ orig' = file /\ plan' = Plan(file, opts.listen, alt, local)
      /\ pc' \in {AfterFix, IF by = "wizard" THEN "prompt" ELSE "backup"}
  BY DEF Read
<1>3. file \in Lines
  BY DEF Types, Read
<1>4. HostIsLocal(opts.bds.host, knowsIPs) => local
  BY DEF HostIsLocal, HostOf
<1> HIDE DEF alt, local
<1>5. plan' \in Plans /\ plan'.alt = alt /\ plan'.bdsLocal = local
  BY <1>1, <1>2, <1>3, PlanIn
<1>6. plan' = Plan(file, opts.listen, plan'.alt, plan'.bdsLocal) /\ plan'.alt # 0
  BY <1>1, <1>2, <1>5
<1>7. HostIsLocal(opts.bds.host, knowsIPs) => plan'.bdsLocal
  BY <1>4, <1>5
<1> QED
  BY <1>2, <1>3, <1>5, <1>6, <1>7

-----------------------------------------------------------------------------
(* Types. *)
LEMMA TypesInit == Init => Types
<1> SUFFICES ASSUME Init PROVE Types
  OBVIOUS
<1>1. << >> \in Lines /\ Nothing \in [port : Nat, saved : BOOLEAN]
  BY DEF Lines, Nothing
<1>2. file \in Lines \cup {NoFile} /\ admin \in Content
  BY StartupAssumption DEF Init
<1>3. now \in 0 .. MaxSecond
  BY StartupAssumption DEF Init
<1> QED
  BY <1>1, <1>2, <1>3, NoneGiven, NoPlanIn DEF Init, Types, Before, Idle

LEMMA TypesStep ==
  ASSUME Types, Settled, [Next]_vars
  PROVE  Types'
<1> USE DEF files, world, history, process
<1>1. CASE \E f \in CommandLine : Start(f)
  <2>1. << >> \in Lines /\ Nothing \in [port : Nat, saved : BOOLEAN]
    BY DEF Lines, Nothing
  <2>2. PICK f \in Flags : Start(f)
    BY <1>1, StartupAssumption
  <2>3. given' \subseteq {"host", "adv"}
    BY <2>2 DEF Types, Start, Literal
  <2> QED
    BY <2>1, <2>2, <2>3, NoneGiven, NoPlanIn DEF Types, Start, NewProcess, Before
<1>2. CASE Load
  BY <1>2, NoneGiven DEF Types, Load, Before, Idle
<1>3. CASE WizardAnswers
  <2>1. PICK l \in Nat \ {0}, bds \in Bds :
          opts' = [EmptyConfig EXCEPT !.bds = bds, !.listen = l]
    BY <1>3, AnswerDoes
  <2>2. opts' \in Config
    BY <2>1, NoneGiven DEF Config
  <2> QED
    BY <1>3, <2>2, AnswerDoes DEF Types, Before
<1>4. CASE \E a \in PublicAnswer : AnswerPublic(a)
  <2>1. PICK a \in PublicAnswer : AnswerPublic(a)
    BY <1>4
  <2>2. PICK m \in Nat \ {0}, h \in Hosts, v \in Nat :
          opts' = [opts EXCEPT !.mux = m, !.host = h, !.adv = v]
    BY <2>1, AnswerPublicDoes
  <2>3. opts' \in Config
    BY <2>2 DEF Types, Config
  <2>4. Literal(opts') \subseteq {"host", "adv"}
    BY DEF Literal
  <2> QED
    BY <2>1, <2>3, <2>4, AnswerPublicDoes DEF Types, Busy
<1>5. CASE Apply
  BY <1>5, FromConfigParts, OverrideParts DEF Types, Apply, Busy, Ended
<1>6. CASE Read
  <2>1. pc' \in Busy \cup Ended
    BY <1>6, ReadDoes DEF AfterFix, Busy, Ended, Fixing
  <2> QED
    BY <1>6, <2>1, ReadDoes DEF Types
<1>7. CASE ReadNothing \/ Prompt \/ AskToSave \/ SaveTruncate \/ SaveFails
  BY <1>7 DEF Types, ReadNothing, Prompt, AskToSave, SaveTruncate, SaveFails, AfterFix, AfterSave, Busy,
              Ended, Fixing
<1>8. CASE Backup \/ BackupFails
  <2>1. pc' \in Busy \cup Ended
    BY <1>8 DEF Backup, BackupFails, AfterFix, Busy, Ended, Fixing
  <2>2. UNCHANGED <<files, world, process>> \/ \E c \in Lines : SaveBackup(c)
    BY <1>8, Shortened DEF Backup, BackupFails, Types
  <2>3. CASE UNCHANGED <<files, world, process>>
    BY <2>1, <2>3 DEF Types
  <2>4. CASE \E c \in Lines : SaveBackup(c)
    <3>1. bak' \in [0 .. MaxSecond -> Lines \cup {NoFile}] /\ reused' \in BOOLEAN
      BY <2>4 DEF Types, SaveBackup
    <3> QED
      BY <2>1, <2>4, <3>1 DEF Types, SaveBackup
  <2> QED
    BY <2>2, <2>3, <2>4
<1>9. CASE Truncate \/ WriteFails
  <2>1. << >> \in Lines /\ plan.content \in Lines
    BY DEF Types, Plans, Lines
  <2>2. file' \in Lines \cup {file}
    BY <1>9, <2>1, Shortened DEF Truncate, WriteFails
  <2> QED
    BY <1>9, <2>2 DEF Types, Truncate, WriteFails, AfterFix, Busy, Ended, Fixing
<1>10. CASE Write
  <2>1. plan.newPort \in Nat /\ plan.content \in Lines
    BY DEF Types, Plans
  <2>2. opts.bds \in Bds
    BY <1>10 DEF Settled, Write, Busy, Fixing
  <2>3. did' \in [port : Nat, saved : BOOLEAN]
    BY <1>10, <2>1 DEF Types, Write
  <2>4. UNCHANGED opts \/ \E b \in Bds : opts' = [opts EXCEPT !.bds = b]
    BY <1>10, <2>1, <2>2, NewAddress DEF Write
  <2>5. opts' \in Config
    BY <2>4 DEF Types, Config
  <2> QED
    BY <1>10, <2>1, <2>3, <2>5 DEF Types, Write, AfterFix, Busy, Ended
<1>11. CASE SaveWrite
  BY <1>11 DEF Types, SaveWrite, AfterSave, Ended
<1>12. CASE Listen
  BY <1>12, AdvertisedParts DEF Types, Listen, Ended
<1>13. CASE ListenFails \/ Stop
  <2>1. << >> \in Lines /\ Nothing \in [port : Nat, saved : BOOLEAN]
    BY DEF Lines, Nothing
  <2> QED
    BY <1>13, <2>1, NoneGiven, NoPlanIn
       DEF Types, ListenFails, Stop, NoProcess, NewProcess, Before, Idle
<1>14. CASE BdsStarts \/ BdsStops
  BY <1>14 DEF Types, BdsStarts, BdsStops
<1>15. CASE Tick
  BY <1>15, StartupAssumption DEF Types, Tick
<1>16. CASE \E c \in Content : AdminEdits(c)
  BY <1>16, StartupAssumption DEF Types, AdminEdits
<1>17. CASE UNCHANGED vars
  BY <1>17 DEF vars, Types
<1> QED
  BY <1>1, <1>2, <1>3, <1>4, <1>5, <1>6, <1>7, <1>8, <1>9, <1>10, <1>11, <1>12, <1>13, <1>14,
     <1>15, <1>16, <1>17 DEF Next, Program

-----------------------------------------------------------------------------
(* What is settled and who is at work. *)
LEMMA SettledStep ==
  ASSUME Types, Types', Settled, AtWork, [Next]_vars
  PROVE  Settled'
<1> USE DEF files, world, history, process
<1>1. CASE (\E f \in CommandLine : Start(f)) \/ Load \/ ListenFails \/ Stop
  BY <1>1 DEF Settled, Start, Load, ListenFails, Stop, NoProcess, NewProcess, AtWork, Busy, Ended,
              Fixing, Idle
<1>2. CASE WizardAnswers
  <2>1. PICK l \in Nat \ {0}, bds \in Bds :
          opts' = [EmptyConfig EXCEPT !.bds = bds, !.listen = l]
    BY <1>2, AnswerDoes
  <2>2. opts'.bds = bds /\ opts'.listen = l
    BY <2>1 DEF EmptyConfig
  <2> QED
    BY <1>2, <2>2, AnswerDoes DEF Settled, Busy, Ended, Fixing
<1>3. CASE \E a \in PublicAnswer : AnswerPublic(a)
  <2>1. PICK a \in PublicAnswer : AnswerPublic(a)
    BY <1>3
  <2>2. PICK m \in Nat \ {0}, h \in Hosts, v \in Nat :
          opts' = [opts EXCEPT !.mux = m, !.host = h, !.adv = v]
    BY <2>1, AnswerPublicDoes
  <2>3. opts'.mux = m /\ opts'.listen = opts.listen /\ opts'.bds = opts.bds
    BY <2>2 DEF Types, Config
  <2> QED
    BY <2>1, <2>3, AnswerPublicDoes DEF Settled, AtWork, Busy, Ended, Fixing
<1>4. CASE Apply
  <2> DEFINE o == FromConfig(opts)
  <2>1. o \in Config /\ o.listen # 0 /\ o.bds \in Bds /\ o.mux # 0 /\ o.idle # 0
    BY FromConfigParts DEF Types
  <2>2. opts' = Override(o, flags) /\ pc' \in {"read", "save", "listen"} /\ by' = "flags"
    BY <1>4 DEF Apply
  <2> HIDE DEF o
  <2>3. opts'.listen # 0 /\ opts'.bds \in Bds /\ opts'.mux # 0 /\ opts'.idle # 0
    BY <2>1, <2>2, OverrideParts DEF Types
  <2> QED
    BY <2>2, <2>3 DEF Settled
<1>5. CASE Read \/ ReadNothing \/ Prompt \/ AskToSave \/ SaveTruncate \/ SaveWrite \/ SaveFails
           \/ Backup \/ BackupFails \/ Truncate \/ WriteFails
  <2>1. CASE Read
    BY <2>1, ReadDoes DEF Settled, Types, AfterFix, Busy, Fixing, Ended
  <2>2. CASE ReadNothing \/ Prompt \/ AskToSave \/ SaveTruncate \/ SaveWrite \/ SaveFails
    BY <2>2 DEF Settled, Types, ReadNothing, Prompt, AskToSave, SaveTruncate, SaveWrite, SaveFails,
                AfterFix, AfterSave, Busy, Fixing, Ended
  <2>3. CASE Backup \/ BackupFails \/ Truncate \/ WriteFails
    BY <2>3 DEF Settled, Types, Backup, BackupFails, SaveBackup, Truncate, WriteFails, AfterFix,
                Busy, Fixing, Ended
  <2> QED
    BY <1>5, <2>1, <2>2, <2>3
<1>6. CASE Write
  <2>1. pc = "write" /\ pc' = AfterFix /\ by' = by
    BY <1>6 DEF Write
  <2>2. opts.bds \in Bds /\ plan.newPort \in Nat /\ opts \in Config
    BY <2>1 DEF Settled, Types, Plans, Busy, Fixing
  <2>3. /\ opts'.listen = opts.listen /\ opts'.mux = opts.mux /\ opts'.idle = opts.idle
        /\ opts'.bds \in Bds
    BY <1>6, <2>2, NewAddress DEF Write, Config
  <2> QED
    BY <2>1, <2>3 DEF Settled, AfterFix, Busy, Ended, Fixing, Types
<1>7. CASE Listen
  <2>1. /\ opts' = Advertised(opts) /\ pc = "listen" /\ pc' = "running" /\ by' = by
        /\ opts.listen # 0 /\ opts.bds \in Bds /\ opts.mux # 0 /\ opts.idle # 0
    BY <1>7 DEF Listen, Settled, Ended
  <2>2. opts' \in Options /\ opts'.idle = opts.idle /\ opts'.listen = opts.listen
        /\ opts'.bds = opts.bds /\ opts'.mux = opts.mux
    BY <2>1, AdvertisedParts DEF Types, Advertised, Config
  <2> QED
    BY <2>1, <2>2 DEF Settled, Busy, Fixing
<1>8. CASE UNCHANGED <<pc, process>>
  BY <1>8 DEF Settled
<1>9. BdsStarts \/ BdsStops \/ Tick \/ (\E c \in Content : AdminEdits(c)) \/ UNCHANGED vars
        => UNCHANGED <<pc, process>>
  BY DEF BdsStarts, BdsStops, Tick, AdminEdits, vars
<1> QED
  BY <1>1, <1>2, <1>3, <1>4, <1>5, <1>6, <1>7, <1>8, <1>9 DEF Next, Program

LEMMA AtWorkStep ==
  ASSUME Types, Settled, AtWork, Planned, [Next]_vars
  PROVE  AtWork'
<1> USE DEF files, world, history, process
<1>1. CASE (\E f \in CommandLine : Start(f)) \/ ListenFails \/ Stop
  BY <1>1, NoneGiven DEF AtWork, Start, ListenFails, Stop, NoProcess, NewProcess, Busy, Ended,
              Fixing, Idle
<1>2. CASE Load
  BY <1>2 DEF AtWork, Load, Ended, Fixing, Idle
<1>3. CASE WizardAnswers \/ \E a \in PublicAnswer : AnswerPublic(a)
  BY <1>3, AnswerDoes, AnswerPublicDoes DEF AtWork, Ended, Fixing, Idle
<1>4. CASE Apply
  BY <1>4 DEF AtWork, Apply, Ended, Fixing, Idle
<1>5. CASE Read \/ ReadNothing \/ Prompt
  BY <1>5, ReadDoes DEF AtWork, Types, ReadNothing, Prompt, AfterFix, Ended, Fixing, Idle
<1>6. CASE Backup \/ BackupFails \/ Truncate \/ Write \/ WriteFails
  BY <1>6 DEF AtWork, Types, Backup, BackupFails, SaveBackup, Truncate, Write, WriteFails, AfterFix,
              Ended, Fixing, Idle
<1>7. CASE AskToSave \/ SaveTruncate \/ SaveWrite \/ SaveFails
  BY <1>7 DEF AtWork, Types, AskToSave, SaveTruncate, SaveWrite, SaveFails, AfterSave,
              Ended, Fixing, Idle
<1>8. CASE Listen
  BY <1>8 DEF AtWork, Listen, Ended, Fixing, Idle
<1>9. CASE UNCHANGED <<pc, process>>
  BY <1>9 DEF AtWork
<1>10. BdsStarts \/ BdsStops \/ Tick \/ (\E c \in Content : AdminEdits(c)) \/ UNCHANGED vars
        => UNCHANGED <<pc, process>>
  BY DEF BdsStarts, BdsStops, Tick, AdminEdits, vars
<1> QED
  BY <1>1, <1>2, <1>3, <1>4, <1>5, <1>6, <1>7, <1>8, <1>9, <1>10 DEF Next, Program

-----------------------------------------------------------------------------
(* The plan.  Flags that agree with the wizard leave its ports alone. *)
LEMMA ApplyDoes ==
  ASSUME Types, Settled, AtWork, Apply
  PROVE  /\ pc = "apply" /\ pc' = (IF flags.fix THEN "read" ELSE IF flags.save THEN "save" ELSE "listen")
         /\ by' = "flags" /\ opts' = Override(FromConfig(opts), flags)
         /\ UNCHANGED <<files, world, flags, knowsIPs, orig, plan, found, did>>
         /\ Literal(opts') \subseteq Literal(opts) \cup Literal(flags)
         /\ by = "wizard" /\ FlagsAgree => opts'.listen = opts.listen /\ opts'.bds = opts.bds
<1> DEFINE o == FromConfig(opts)
<1>1. /\ pc = "apply" /\ pc' = (IF flags.fix THEN "read" ELSE IF flags.save THEN "save" ELSE "listen")
      /\ by' = "flags" /\ opts' = Override(o, flags)
      /\ UNCHANGED <<files, world, flags, knowsIPs, orig, plan, found, did>>
  BY DEF Apply
<1>2. /\ o \in Config /\ o.bds \in Bds /\ Literal(o) = Literal(opts)
      /\ opts.listen # 0 => o.listen = opts.listen
      /\ opts.bds \in Bds => o.bds = opts.bds
  BY FromConfigParts DEF Types
<1>3. by = "wizard" => opts.listen # 0 /\ opts.bds \in Bds
  BY <1>1 DEF Settled
<1>4. by = "wizard" /\ FlagsAgree => flags.listen = 0 /\ flags.bds = NoBds
  BY NoneGiven DEF AtWork, FlagsAgree
<1> HIDE DEF o
<1>5. /\ Literal(opts') \subseteq Literal(opts) \cup Literal(flags)
      /\ flags.listen = 0 => opts'.listen = o.listen
      /\ flags.bds = NoBds => opts'.bds = o.bds
  BY <1>1, <1>2, OverrideParts DEF Types
<1> QED
  BY <1>1, <1>2, <1>3, <1>4, <1>5 DEF o

LEMMA WriteDoes ==
  ASSUME Types, Settled, Write
  PROVE  /\ pc = "write" /\ pc' = AfterFix /\ file' = plan.content
         /\ UNCHANGED <<bak, cfg, world, flags, knowsIPs, orig, plan, by, found>>
         /\ plan.newPort = 0 => UNCHANGED <<did, opts>>
         /\ plan.newPort # 0 =>
              /\ did'.port = plan.newPort /\ opts'.bds.port = plan.newPort
              /\ opts'.bds.splits \/ opts'.bds.host \in IPv6
         /\ did'.saved = did.saved
         /\ opts' = [opts EXCEPT !.bds = opts'.bds]
<1>1. opts.bds \in Bds
  BY DEF Settled, Write, Busy, Fixing
<1>2. opts = [opts EXCEPT !.bds = opts.bds]
  BY DEF Types, Config
<1>3. CASE plan.newPort = 0
  BY <1>2, <1>3 DEF Write
<1>4. CASE plan.newPort # 0
  <2> DEFINE b == Concatenated(HostOf(opts.bds), plan.newPort)
  <2>1. opts' = [opts EXCEPT !.bds = b] /\ did' = [did EXCEPT !.port = plan.newPort]
    BY <1>4 DEF Write
  <2>2. b.port = plan.newPort /\ (b.splits \/ b.host \in IPv6)
    BY <1>1, <1>4, NewAddress DEF Types, Plans
  <2> HIDE DEF b
  <2>3. opts'.bds = b /\ did'.port = plan.newPort /\ did'.saved = did.saved
    BY <2>1 DEF Types, Config
  <2> QED
    BY <1>4, <2>1, <2>2, <2>3 DEF Write
<1> QED
  BY <1>3, <1>4

LEMMA ListenDoes ==
  ASSUME Types, Listen
  PROVE  /\ pc = "listen" /\ pc' = "running" /\ opts' = Advertised(opts) /\ knowsIPs' = TRUE
         /\ UNCHANGED <<files, world, flags, orig, plan, by, found, did>>
         /\ opts'.listen = opts.listen /\ opts'.bds = opts.bds
BY DEF Listen, Types, Config, Advertised

LEMMA PlannedStep ==
  ASSUME Types, Settled, AtWork, Planned, [Next]_vars
  PROVE  Planned'
<1> USE DEF files, world, history, process
<1>1. CASE (\E f \in CommandLine : Start(f)) \/ ListenFails \/ Stop
  BY <1>1, NoPlanIn DEF Planned, Start, ListenFails, Stop, NoProcess, NewProcess, Fixing
<1>2. CASE Load
  BY <1>2, NoPlanIn DEF Planned, Load, Before, Idle, Fixing
<1>3. CASE WizardAnswers \/ \E a \in PublicAnswer : AnswerPublic(a)
  <2>1. /\ pc \in Before /\ pc' \in {"public", "read"}
        /\ UNCHANGED <<flags, plan, did>>
    BY <1>3, AnswerDoes, AnswerPublicDoes DEF Before
  <2>2. plan = NoPlan /\ did = Nothing /\ plan.alt = 0
    BY <2>1, NoPlanIn DEF Planned
  <2> QED
    BY <2>1, <2>2, NoPlanIn DEF Planned, Fixing
<1>4. CASE Apply
  <2>1. /\ pc = "apply" /\ pc' \in {"read", "save", "listen"}
        /\ UNCHANGED <<flags, knowsIPs, orig, plan>>
        /\ by = "wizard" /\ FlagsAgree => opts'.listen = opts.listen /\ opts'.bds = opts.bds
    BY <1>4, ApplyDoes
  <2>2. plan.alt # 0 => by = "wizard"
    BY <2>1, NoPlanIn DEF Planned, Types
  <2> QED
    BY <2>1, <2>2 DEF Planned, Before, Idle, Fixing, FlagsAgree
<1>5. CASE Read
  <2>1. ~flags.fix => by = "wizard"
    BY <1>5, ReadDoes DEF AtWork, Types
  <2>2. (flags.wizard \/ ~flags.fix) => knowsIPs
    BY <1>5, <2>1, ReadDoes DEF AtWork, Idle
  <2>3. HostIsLocal(opts.bds.host, flags.wizard \/ ~flags.fix) => plan'.bdsLocal
    BY <1>5, <2>2, ReadDoes DEF HostIsLocal
  <2>4. /\ pc' \notin Before /\ pc' # "apply" /\ plan'.alt # 0 /\ (~flags.fix => knowsIPs)
        /\ plan' = Plan(orig', opts.listen, plan'.alt, plan'.bdsLocal)
        /\ UNCHANGED <<flags, opts, knowsIPs>>
    BY <1>5, <2>2, ReadDoes DEF AfterFix, Before, Idle
  <2> QED
    BY <2>3, <2>4 DEF Planned, FlagsAgree
<1>6. CASE Write
  <2>1. /\ opts'.listen = opts.listen
        /\ pc = "write" /\ pc' = AfterFix /\ UNCHANGED <<flags, knowsIPs, orig, plan, by>>
        /\ plan.newPort = 0 => UNCHANGED opts
    BY <1>6, WriteDoes DEF Types, Config
  <2>2. plan.newPort # 0 => plan.bdsLocal
    <3>1. plan = Plan(orig, opts.listen, plan.alt, plan.bdsLocal)
      BY <2>1 DEF Planned, Fixing
    <3> QED
      BY <3>1 DEF Plan, Changes, Conflict
  <2> QED
    BY <2>1, <2>2 DEF Planned, AfterFix, Before, Idle, Fixing, FlagsAgree
<1>7. CASE Listen
  BY <1>7, ListenDoes DEF Planned, Before, Idle, Fixing, FlagsAgree
<1>8. CASE ReadNothing \/ Prompt \/ Backup \/ BackupFails \/ Truncate \/ WriteFails
  BY <1>8 DEF Planned, ReadNothing, Prompt, Backup, BackupFails, SaveBackup, Truncate, WriteFails, AfterFix,
              Before, Idle, Fixing, FlagsAgree
<1>9. CASE AskToSave \/ SaveTruncate \/ SaveWrite \/ SaveFails
  BY <1>9 DEF Planned, AskToSave, SaveTruncate, SaveWrite, SaveFails, AfterSave, AtWork,
              Before, Idle, Fixing, FlagsAgree
<1>10. CASE UNCHANGED <<pc, process>>
  BY <1>10 DEF Planned, FlagsAgree
<1>11. BdsStarts \/ BdsStops \/ Tick \/ (\E c \in Content : AdminEdits(c)) \/ UNCHANGED vars
        => UNCHANGED <<pc, process>>
  BY DEF BdsStarts, BdsStops, Tick, AdminEdits, vars
<1> QED
  BY <1>1, <1>2, <1>3, <1>4, <1>5, <1>6, <1>7, <1>8, <1>9, <1>10, <1>11 DEF Next, Program

-----------------------------------------------------------------------------
(* What is carried through and saved. *)
LEMMA SavedLoads ==
  ASSUME NEW o \in Config, o.listen # 0, o.bds \in Bds, o.mux # 0, o.idle # 0
  PROVE  Normal(o) = FromConfig(o)
<1>1. o = [listen |-> o.listen, bds |-> o.bds, mux |-> o.mux, host |-> o.host, adv |-> o.adv,
           idle |-> o.idle, insecure |-> o.insecure]
  BY DEF Config
<1>2. o.bds # NoBds /\ o.idle \in Int
  BY StartupAssumption DEF Config
<1>3. Normal(o) = [listen |-> o.listen, bds |-> o.bds, mux |-> o.mux, host |-> o.host,
                   adv |-> o.adv, idle |-> IF o.idle < 0 THEN DefaultIdle ELSE o.idle,
                   insecure |-> o.insecure]
  BY <1>1 DEF Normal
<1> QED
  BY <1>2, <1>3 DEF FromConfig

LEMMA LoadedIsNormal ==
  ASSUME NEW c \in Config
  PROVE  Normal(FromConfig(c)) = FromConfig(c)
<1> DEFINE o == FromConfig(c)
<1>1. o \in Config /\ o.idle \in Nat
  BY FromConfigParts
<1> HIDE DEF o
<1>2. Normal(o) = o
  BY <1>1 DEF Normal, Config
<1> QED
  BY <1>2 DEF o

LEMMA CarriedStep ==
  ASSUME Types, Settled, AtWork, Planned, Carried, [Next]_vars
  PROVE  Carried'
<1> USE DEF files, world, history, process
<1>1. CASE (\E f \in CommandLine : Start(f)) \/ ListenFails \/ Stop
  BY <1>1 DEF Carried, Start, ListenFails, Stop, NoProcess, NewProcess, Nothing
<1>2. CASE Load \/ WizardAnswers \/ \E a \in PublicAnswer : AnswerPublic(a)
  <2>1. pc \in Before /\ did' = did
    BY <1>2, AnswerDoes, AnswerPublicDoes DEF Load, Before, Idle
  <2>2. did' = Nothing
    BY <2>1 DEF Planned
  <2> QED
    BY <2>2 DEF Carried, Nothing
<1>3. CASE Apply
  <2>1. /\ pc = "apply" /\ opts' = Override(FromConfig(opts), flags)
        /\ pc' = (IF flags.fix THEN "read" ELSE IF flags.save THEN "save" ELSE "listen")
        /\ UNCHANGED <<files, flags, did>>
        /\ by = "wizard" /\ FlagsAgree => opts'.bds = opts.bds
    BY <1>3, ApplyDoes
  <2>2. ASSUME did.port # 0, FlagsAgree
        PROVE  opts'.bds.port = did.port /\ (opts'.bds.splits \/ opts'.bds.host \in IPv6)
    <3>1. by = "wizard"
      BY <2>1, <2>2 DEF Planned, Types, Nothing
    <3> QED
      BY <2>1, <2>2, <3>1 DEF Carried
  <2>3. ASSUME did.saved
        PROVE  /\ cfg \in Config /\ cfg.bds \in Bds
               /\ pc' = "listen" /\ Normal(opts') = FromConfig(cfg)
    <3>1. cfg \in Config /\ cfg.bds \in Bds /\ flags = NoFlags /\ cfg = opts
      BY <2>1, <2>3 DEF Carried
    <3>2. opts' = FromConfig(cfg)
      BY <2>1, <3>1, FromConfigParts, OverrideNone
    <3> QED
      BY <2>1, <3>1, <3>2, LoadedIsNormal, NoneGiven
  <2> QED
    BY <2>1, <2>2, <2>3 DEF Carried, FlagsAgree, Ended
<1>4. CASE Write
  <2>1. ~did.saved /\ ~did'.saved
    BY <1>4, WriteDoes DEF Carried, Types, Ended
  <2>2. did'.port # 0 /\ FlagsAgree' =>
          opts'.bds.port = did'.port /\ (opts'.bds.splits \/ opts'.bds.host \in IPv6)
    BY <1>4, WriteDoes DEF Carried, FlagsAgree
  <2> QED
    BY <2>1, <2>2 DEF Carried
<1>5. CASE SaveWrite
  <2>1. /\ pc = "save write" /\ pc' = AfterSave /\ cfg' = opts /\ did'.port = did.port
        /\ UNCHANGED <<flags, opts, by>>
    BY <1>5 DEF SaveWrite, Types
  <2>2. /\ opts \in Config /\ opts.listen # 0 /\ opts.bds \in Bds /\ opts.mux # 0
        /\ by = "flags" => opts.idle # 0
    BY <2>1 DEF Types, Settled, Busy
  <2>3. by = "flags" => pc' = "listen" /\ Normal(opts) = FromConfig(opts)
    BY <2>1, <2>2, SavedLoads DEF AfterSave
  <2>4. by # "flags" => pc' = "apply" /\ by = "wizard" /\ flags = NoFlags
    BY <2>1 DEF AfterSave, AtWork, Types
  <2>5. pc' \in {"apply", "listen"}
    BY <2>1 DEF AfterSave
  <2> QED
    BY <2>1, <2>2, <2>3, <2>4, <2>5 DEF Carried, FlagsAgree, Ended
<1>6. CASE Listen
  <2>1. /\ pc = "listen" /\ pc' = "running" /\ opts' = Advertised(opts) /\ opts'.bds = opts.bds
        /\ UNCHANGED <<cfg, flags, did>>
    BY <1>6, ListenDoes
  <2>2. ASSUME did.saved
        PROVE  /\ cfg \in Config /\ cfg.bds \in Bds
               /\ cfg.host \in IP => opts'.host = cfg.host
               /\ Normal(opts') = [FromConfig(cfg) EXCEPT
                    !.host = opts'.host, !.adv = IF cfg.adv = 0 THEN opts'.mux ELSE cfg.adv]
    <3> DEFINE o == FromConfig(cfg)
    <3>1. cfg \in Config /\ cfg.bds \in Bds /\ Normal(opts) = o
      BY <2>1, <2>2 DEF Carried
    <3>2. opts \in Config /\ now \in 0 .. MaxSecond
      BY DEF Types
    <3>3. /\ opts' = [opts EXCEPT !.host = opts'.host,
                                !.adv = IF opts.adv = 0 THEN opts.mux ELSE opts.adv]
          /\ opts.host \in IP => opts'.host = opts.host
      BY <2>1, <3>2, AdvertisedParts
    <3>4. o.host = cfg.host /\ o.adv = cfg.adv
      BY DEF FromConfig
    <3> HIDE DEF o
    <3>5. opts.host = cfg.host /\ opts.adv = cfg.adv
      BY <3>1, <3>2, <3>4 DEF Normal, Config
    <3>6. opts'.mux = opts.mux
      BY <3>2, <3>3 DEF Config
    <3>7. Normal(opts') = [Normal(opts) EXCEPT !.host = opts'.host,
                              !.adv = IF opts.adv = 0 THEN opts.mux ELSE opts.adv]
      <4> DEFINE h == opts'.host
                 v == IF opts.adv = 0 THEN opts.mux ELSE opts.adv
      <4>1. opts' = [opts EXCEPT !.host = h, !.adv = v]
        BY <3>3
      <4> HIDE DEF h, v
      <4> QED
        BY <3>2, <4>1 DEF Normal, Config, h, v
    <3> QED
      BY <3>1, <3>3, <3>5, <3>6, <3>7 DEF o
  <2> QED
    BY <2>1, <2>2 DEF Carried, FlagsAgree, Ended
<1>7. CASE Read \/ ReadNothing \/ Prompt \/ Backup \/ BackupFails \/ Truncate \/ WriteFails
           \/ AskToSave \/ SaveTruncate \/ SaveFails
  <2>1. pc \in Busy /\ UNCHANGED <<opts, flags, did>>
    BY <1>7, ReadDoes DEF ReadNothing, Prompt, Backup, BackupFails, SaveBackup, Truncate, WriteFails, AskToSave,
       SaveTruncate, SaveFails, Busy, Fixing
  <2>2. ~did.saved
    BY <2>1 DEF Carried, Busy, Fixing, Ended
  <2> QED
    BY <2>1, <2>2 DEF Carried, FlagsAgree
<1>8. CASE UNCHANGED <<cfg, pc, process>>
  BY <1>8 DEF Carried, FlagsAgree
<1>9. BdsStarts \/ BdsStops \/ Tick \/ (\E c \in Content : AdminEdits(c)) \/ UNCHANGED vars
        => UNCHANGED <<cfg, pc, process>>
  BY DEF BdsStarts, BdsStops, Tick, AdminEdits, vars
<1> QED
  BY <1>1, <1>2, <1>3, <1>4, <1>5, <1>6, <1>7, <1>8, <1>9 DEF Next, Program

-----------------------------------------------------------------------------
(* What has been given literally. *)
LEMMA GivenStep ==
  ASSUME Types, Settled, AtWork, Given, [Next]_vars
  PROVE  Given'
<1> USE DEF files, world, history, process
<1>1. CASE \E f \in CommandLine : Start(f)
  BY <1>1, NoneGiven DEF Given, Start, NewProcess
<1>2. CASE ListenFails \/ Stop
  BY <1>2, NoneGiven DEF Given, ListenFails, Stop, NoProcess, NewProcess
<1>3. CASE Load
  BY <1>3, NoneGiven DEF Given, Load
<1>4. CASE WizardAnswers
  <2>1. PICK l \in Nat \ {0}, bds \in Bds :
          opts' = [EmptyConfig EXCEPT !.bds = bds, !.listen = l]
    BY <1>4, AnswerDoes
  <2>2. Literal(opts') = Literal(EmptyConfig)
    BY <2>1 DEF Literal, EmptyConfig
  <2> QED
    BY <1>4, <2>2, NoneGiven, AnswerDoes DEF Given
<1>5. CASE \E a \in PublicAnswer : AnswerPublic(a)
  BY <1>5, AnswerPublicDoes DEF Given
<1>6. CASE Apply
  BY <1>6, ApplyDoes DEF Given
<1>7. CASE Write
  <2>1. Literal(opts') = Literal(opts)
    BY <1>7, WriteDoes DEF Literal, Types, Config
  <2>2. pc # "running" /\ UNCHANGED <<cfg, given, flags>>
    BY <1>7, WriteDoes
  <2> QED
    BY <2>1, <2>2 DEF Given
<1>8. CASE Listen
  BY <1>8, ListenDoes DEF Given
<1>9. CASE SaveTruncate \/ SaveWrite
  BY <1>9 DEF Given, SaveTruncate, SaveWrite, AfterSave
<1>10. CASE Read
  BY <1>10, ReadDoes DEF Given
<1>11. CASE ReadNothing \/ Prompt \/ Backup \/ BackupFails \/ Truncate \/ WriteFails \/ AskToSave
           \/ SaveFails
  BY <1>11 DEF Given, ReadNothing, Prompt, Backup, BackupFails, SaveBackup, Truncate, WriteFails,
     AskToSave, SaveFails
<1>12. CASE UNCHANGED <<cfg, given, pc, process>>
  BY <1>12 DEF Given
<1>13. BdsStarts \/ BdsStops \/ Tick \/ (\E c \in Content : AdminEdits(c)) \/ UNCHANGED vars
        => UNCHANGED <<cfg, given, pc, process>>
  BY DEF BdsStarts, BdsStops, Tick, AdminEdits, vars
<1> QED
  BY <1>1, <1>2, <1>3, <1>4, <1>5, <1>6, <1>7, <1>8, <1>9, <1>10, <1>11, <1>12, <1>13
     DEF Next, Program

-----------------------------------------------------------------------------
(* The inductive invariant, and what follows from it. *)
LEMMA Invariant == Spec => []IInv
<1>1. Init => IInv
  <2> SUFFICES ASSUME Init PROVE IInv
    OBVIOUS
  <2>1. Types
    BY TypesInit
  <2>2. Settled /\ AtWork
    BY DEF Init, Settled, AtWork, Busy, Ended, Fixing, Idle
  <2>3. Planned /\ Carried
    BY NoPlanIn DEF Init, Planned, Carried, Before, Idle, Fixing, Nothing
  <2>4. Given
    BY NoneGiven DEF Init, Given
  <2> QED
    BY <2>1, <2>2, <2>3, <2>4 DEF IInv
<1>2. IInv /\ [Next]_vars => IInv'
  BY TypesStep, SettledStep, AtWorkStep, PlannedStep, CarriedStep, GivenStep DEF IInv
<1> QED
  BY <1>1, <1>2, PTL DEF Spec

(* Every variable has its type. *)
THEOREM TypesAreKept == Spec => []TypeOK
<1>1. IInv => TypeOK
  BY DEF IInv, Types, Settled, Plans, TypeOK
<1> QED
  BY <1>1, Invariant, PTL

(* Whatever the file, the options and the port offered to BDS: while the program   *)
(* is fixing server.properties, what it is about to write has all other lines     *)
(* where they were and needs no second fix (bdsfix.go:81-168).                   *)
THEOREM FixesRepair == Spec => []FixRepairs
<1>1. IInv => FixRepairs
  <2> SUFFICES ASSUME IInv, pc \in Fixing
               PROVE  /\ Unrelated(plan.content) = Unrelated(orig)
                      /\ Cardinality(At(orig, "server-udp-ports")) <= 1 =>
                           Changes(plan.content, opts.listen, plan.alt, plan.bdsLocal) = {}
                      /\ plan.newPort # 0 /\ Cardinality(At(orig, "server-port")) <= 1 =>
                           ReadServerPort(plan.content) = plan.newPort
    BY DEF FixRepairs
  <2>1. plan = Plan(orig, opts.listen, plan.alt, plan.bdsLocal)
    BY DEF IInv, Planned
  <2>2. orig \in Lines /\ opts.listen \in Nat /\ plan.alt \in Nat /\ plan.bdsLocal \in BOOLEAN
    BY DEF IInv, Types, Config, Plans
  <2> DEFINE alt == plan.alt
             local == plan.bdsLocal
             p == Plan(orig, opts.listen, alt, local)
  <2>3. /\ Unrelated(p.content) = Unrelated(orig)
        /\ Cardinality(At(orig, "server-udp-ports")) <= 1 =>
             Changes(p.content, opts.listen, alt, local) = {}
        /\ p.newPort # 0 /\ Cardinality(At(orig, "server-port")) <= 1 =>
             ReadServerPort(p.content) = p.newPort
    BY <2>2, PlanRepairs
  <2>4. p = plan
    BY <2>1
  <2> HIDE DEF p
  <2> QED
    BY <2>3, <2>4
<1> QED
  BY <1>1, Invariant, PTL

(* However the options were come by, and whatever was killed on the way: a fix     *)
(* that is in the file leaves BDS on this host no port of the proxy               *)
(* (bdsfix.go:11, :156).                                                        *)
THEOREM ConflictsAreResolved == Spec => []ConflictsResolved
<1>1. IInv => ConflictsResolved
  <2> SUFFICES ASSUME IInv, pc = "running", plan # NoPlan, file = plan.content, file # << >>,
                      Cardinality(At(file, "server-port")) <= 1,
                      HostIsLocal(opts.bds.host, flags.wizard \/ ~flags.fix),
                      plan.alt # opts.listen, FlagsAgree
               PROVE  ReadServerPort(file) # opts.listen
    BY DEF ConflictsResolved
  <2>1. plan.alt # 0 /\ plan = Plan(orig, opts.listen, plan.alt, plan.bdsLocal) /\ plan.bdsLocal
    BY DEF IInv, Planned
  <2>2. /\ orig \in Lines /\ opts.listen \in Nat \ {0} /\ plan.bdsLocal \in BOOLEAN
        /\ plan.alt \in Nat \ {0, opts.listen}
    BY <2>1 DEF IInv, Types, Settled, Config, Plans, Ended
  <2> QED
    BY <2>1, <2>2, PlanResolves
<1> QED
  BY <1>1, Invariant, PTL

(* A start that gives BDS another port passes players on to that port itself and    *)
(* saves no other address (main.go:280-281, 302).  Host and port of the address    *)
(* can be told apart unless the host is an IPv6 address, of which nothing is       *)
(* claimed: the code drops its brackets (main.go:290 and :303).                  *)
THEOREM FixesAreCarriedThrough == Spec => []FixCarriedThrough
<1>1. IInv => FixCarriedThrough
  <2> SUFFICES ASSUME IInv, pc = "running", did.port # 0, FlagsAgree
               PROVE  /\ opts.bds.port = did.port /\ (opts.bds.splits \/ opts.bds.host \in IPv6)
                      /\ did.saved => cfg.bds = opts.bds
    BY DEF FixCarriedThrough
  <2>1. opts.bds.port = did.port /\ (opts.bds.splits \/ opts.bds.host \in IPv6)
    BY DEF IInv, Carried
  <2>2. ASSUME did.saved
        PROVE  cfg.bds = opts.bds
    <3>1. /\ cfg.bds \in Bds /\ opts \in Config
          /\ Normal(opts) = [FromConfig(cfg) EXCEPT
               !.host = opts.host, !.adv = IF cfg.adv = 0 THEN opts.mux ELSE cfg.adv]
      BY <2>2 DEF IInv, Carried, Types
    <3>2. Normal(opts).bds = opts.bds
      BY <3>1 DEF Normal, Config
    <3>3. FromConfig(cfg).bds = cfg.bds
      BY <3>1, StartupAssumption DEF FromConfig
    <3> QED
      BY <3>1, <3>2, <3>3 DEF FromConfig
  <2> QED
    BY <2>1, <2>2
<1> QED
  BY <1>1, Invariant, PTL

(* What a start saves is what a start without flags runs with (README.md:240,      *)
(* main.go:233-244, 328-341).                                                    *)
THEOREM SavingRoundTrips == Spec => []SaveRoundTrip
<1>1. IInv => SaveRoundTrip
  <2> DEFINE o == FromConfig(cfg)
             next == Advertised(Override(FromConfig(cfg), NoFlags))
  <2> SUFFICES ASSUME IInv, pc = "running", did.saved
               PROVE  [next EXCEPT !.host = IF cfg.host \in IP THEN @ ELSE opts.host] = Normal(opts)
    BY DEF SaveRoundTrip, Normal
  <2>1. /\ cfg \in Config /\ opts \in Config /\ now \in 0 .. MaxSecond
        /\ cfg.host \in IP => opts.host = cfg.host
        /\ Normal(opts) = [o EXCEPT
             !.host = opts.host, !.adv = IF cfg.adv = 0 THEN opts.mux ELSE cfg.adv]
    BY DEF IInv, Carried, Types
  <2>2. o \in Config /\ o.host = cfg.host /\ o.adv = cfg.adv
    BY <2>1, FromConfigParts DEF FromConfig
  <2>3. next = Advertised(o)
    BY <2>2, OverrideNone
  <2> HIDE DEF o, next
  <2>4. /\ next = [o EXCEPT !.host = next.host, !.adv = IF o.adv = 0 THEN o.mux ELSE o.adv]
        /\ o.host \in IP => next.host = o.host
    BY <2>1, <2>2, <2>3, AdvertisedParts
  <2>5. o.mux = opts.mux
    BY <2>1, <2>2 DEF Normal, Config
  <2> DEFINE h == IF cfg.host \in IP THEN next.host ELSE opts.host
             v == IF cfg.adv = 0 THEN opts.mux ELSE cfg.adv
  <2>6. h = opts.host
    BY <2>1, <2>2, <2>4
  <2>7. [next EXCEPT !.host = IF cfg.host \in IP THEN @ ELSE opts.host] = [next EXCEPT !.host = h]
    OBVIOUS
  <2>8. next = [o EXCEPT !.host = next.host, !.adv = v]
    BY <2>2, <2>4, <2>5
  <2> HIDE DEF h, v
  <2>9. [next EXCEPT !.host = h] = [o EXCEPT !.host = h, !.adv = v]
    BY <2>2, <2>8 DEF Config
  <2> QED
    BY <2>1, <2>6, <2>7, <2>9 DEF v
<1> QED
  BY <1>1, Invariant, PTL

(* What is not given is told to clients as it is at the start (README.md:224,      *)
(* main.go:91-106).                                                             *)
THEOREM AdvertisingIsFresh == Spec => AdvertisedAfresh
<1>1. IInv /\ [Next]_vars => [pc = "listen" /\ pc' = "running" =>
        /\ "host" \in given \/ opts'.host \in {GuessAt[now], NameAt[now]}
        /\ "adv" \in given \/ opts'.adv = opts'.mux]_vars
  <2> SUFFICES ASSUME IInv, [Next]_vars, pc = "listen", pc' = "running"
               PROVE  /\ "host" \in given \/ opts'.host \in {GuessAt[now], NameAt[now]}
                      /\ "adv" \in given \/ opts'.adv = opts'.mux
    OBVIOUS
  <2>1. Listen
    BY DEF Next, Program, Start, Load, WizardAnswers, Answer, AnswerPublic, Apply, Read, ReadNothing,
       Prompt, Backup, BackupFails, Truncate, Write, WriteFails, AskToSave, SaveTruncate, SaveWrite,
       SaveFails, ListenFails, Stop, NoProcess, BdsStarts, BdsStops, Tick, AdminEdits, vars
  <2>2. opts' = Advertised(opts) /\ opts \in Config /\ now \in 0 .. MaxSecond
    BY <2>1 DEF Listen, IInv, Types
  <2>3. Literal(opts) \subseteq given
    BY DEF IInv, Given
  <2>4. "host" \notin given => opts.host \notin IP
    BY <2>3 DEF Literal
  <2>5. "adv" \notin given => opts.adv = 0
    BY <2>3 DEF Literal
  <2>6. opts'.mux = opts.mux /\ opts'.adv = IF opts.adv = 0 THEN opts.mux ELSE opts.adv
    BY <2>2 DEF Advertised, Config
  <2> QED
    BY <2>2, <2>4, <2>5, <2>6, AdvertisedParts
<1> QED
  BY <1>1, Invariant, PTL DEF Spec, AdvertisedAfresh

-----------------------------------------------------------------------------
(* The file as the administrator left it.  That nobody edits it while the wizard   *)
(* waits for an answer is not guaranteed by the code: the run FixMidway shows what *)
(* happens otherwise.                                                           *)
LEMMA KeptStep ==
  ASSUME ~Midway, Types, Kept, [Next]_vars
  PROVE  Kept'
<1> USE DEF files, world, history, process
<1>1. CASE \E f \in CommandLine : Start(f)
  BY <1>1 DEF Kept, InBackup, Start, NewProcess
<1>2. CASE ListenFails \/ Stop
  BY <1>2 DEF Kept, InBackup, ListenFails, Stop, NoProcess, NewProcess
<1>3. CASE Load \/ Apply
  BY <1>3 DEF Kept, InBackup, Load, Apply
<1>4. CASE WizardAnswers \/ \E a \in PublicAnswer : AnswerPublic(a)
  BY <1>4, AnswerDoes, AnswerPublicDoes DEF Kept, InBackup
<1>5. CASE Read
  BY <1>5, ReadDoes DEF Kept, InBackup, AfterFix
<1>6. CASE ReadNothing \/ Prompt
  BY <1>6 DEF Kept, InBackup, ReadNothing, Prompt, AfterFix
<1>7. CASE Backup \/ (BackupFails /\ ~UNCHANGED bak)
  <2>1. PICK c \in Lines : /\ SaveBackup(c) /\ pc = "backup"
                           /\ \/ c = orig /\ pc' = "truncate"
                              \/ pc' = AfterFix
    BY <1>7, Shortened DEF Backup, BackupFails, Types
  <2>2. /\ bak' = [bak EXCEPT ![now] = c] /\ reused' = (reused \/ bak[now] # NoFile)
        /\ UNCHANGED <<file, admin, orig>>
    BY <2>1 DEF SaveBackup
  <2>3. now \in 0 .. MaxSecond /\ bak'[now] = c
        /\ \A t \in (0 .. MaxSecond) \ {now} : bak'[t] = bak[t]
    BY <2>2 DEF Types
  <2>4. InBackup(c)'
    BY <2>3 DEF InBackup
  <2>5. ASSUME admin # NoFile, ~reused', InBackup(admin)
        PROVE  InBackup(admin)'
    <3>1. PICK t \in 0 .. MaxSecond : bak[t] = admin
      BY <2>5 DEF InBackup
    <3>2. t # now
      BY <2>2, <2>5, <3>1
    <3> QED
      BY <2>2, <2>3, <3>1, <3>2 DEF InBackup
  <2>6. admin # NoFile /\ ~reused' => admin = file \/ InBackup(admin)'
    BY <2>2, <2>5 DEF Kept, Types
  <2> QED
    BY <2>1, <2>2, <2>4, <2>6 DEF Kept, AfterFix, InBackup
<1>8. CASE BackupFails /\ UNCHANGED bak
  <2>1. UNCHANGED <<file, admin, orig, bak>> /\ pc' = AfterFix /\ (~reused' => ~reused)
    BY <1>8 DEF BackupFails, SaveBackup, Types
  <2> QED
    BY <2>1 DEF Kept, AfterFix, InBackup
<1>9. CASE Truncate
  BY <1>9 DEF Kept, InBackup, Truncate
<1>10. CASE Write \/ WriteFails
  BY <1>10 DEF Kept, InBackup, Write, WriteFails, AfterFix
<1>11. CASE AskToSave \/ SaveTruncate \/ SaveWrite \/ SaveFails
  BY <1>11 DEF Kept, InBackup, AskToSave, SaveTruncate, SaveWrite, SaveFails, AfterSave
<1>12. CASE Listen
  BY <1>12 DEF Kept, InBackup, Listen
<1>13. CASE \E c \in Content : AdminEdits(c)
  BY <1>13 DEF Kept, InBackup, AdminEdits, Fixing
<1>14. CASE BdsStarts \/ BdsStops \/ Tick \/ UNCHANGED vars
  BY <1>14 DEF Kept, InBackup, BdsStarts, BdsStops, Tick, vars
<1> QED
  BY <1>1, <1>2, <1>3, <1>4, <1>5, <1>6, <1>7, <1>8, <1>9, <1>10, <1>11, <1>12, <1>13, <1>14
     DEF Next, Program

LEMMA KeptInvariant ==
  ASSUME ~Midway
  PROVE  Spec => []Kept
<1>1. Init => Kept
  BY DEF Init, Kept
<1>2. Kept /\ IInv /\ [Next]_vars => Kept'
  BY KeptStep DEF IInv
<1> QED
  BY <1>1, <1>2, Invariant, PTL DEF Spec

(* Whatever fixes are killed, fail or are repeated: as long as no two backups are  *)
(* of one second, the file as the administrator left it is there or in a backup    *)
(* (saveServerPropertiesFixed, bdsfix.go:180-190).                               *)
THEOREM OriginalIsKept ==
  ASSUME ~Midway
  PROVE  Spec => []OriginalKept
<1>1. IInv /\ Kept => OriginalKept
  BY DEF IInv, Types, Kept, InBackup, OriginalKept
<1> QED
  BY <1>1, Invariant, KeptInvariant, PTL

(* What is in the file is in a backup before the file is truncated. *)
THEOREM BackupComesFirst ==
  ASSUME ~Midway
  PROVE  Spec => BackedUpFirst
<1>1. IInv /\ Kept /\ [Next]_vars =>
        [pc = "truncate" /\ pc' = "write" => \E t \in DOMAIN bak : bak[t] = file]_vars
  BY DEF IInv, Types, Kept, InBackup
<1> QED
  BY <1>1, Invariant, KeptInvariant, PTL DEF Spec, BackedUpFirst

=============================================================================
