------------------------------ MODULE Startup ------------------------------
(***************************************************************************)
(* How the program comes to the options it runs with: flags, proxy.json and *)
(* the wizard (main.go, config.go, wizard.go), and the correction of the     *)
(* server.properties next to it (bdsfix.go), over several starts.  The two   *)
(* files outlive a start, and a start may be killed between any two of its   *)
(* accesses to them.                                                        *)
(*                                                                         *)
(* Of the options, listen, bds, mux and what is told to clients of it (host,  *)
(* adv) are kept, idle for a value that can be invalid and insecure for a     *)
(* switch.  listen and mux stand for their ports, host and adv for            *)
(* advertise_ip and advertise_port.  Of the others advertise_tcp_port is       *)
(* handled like adv, and max_sessions and max_addrs like idle but for one      *)
(* thing: orInt keeps a negative limit where orDur drops a negative duration.  *)
(***************************************************************************)
EXTENDS PropertiesFix

CONSTANTS
  NoHost, Loopback, Loopback6,  \* hosts: "", 127.0.0.1, ::1,
  OwnIP, Elsewhere,             \* another address of this host, one of another host
  IPv6,          \* those of them that are IPv6 addresses
  Port,          \* bound of the model: the TCP ports not held for good by others
  Ephemeral,     \* a port the system assigns
  NoBds,         \* no BDS address given
  NoFile, Torn,  \* there is no such file; what is left of proxy.json by a crash
  CommandLine,   \* the command lines the program is started with
  ListenAnswer, BdsAnswer,  \* the player ports and BDS addresses typed into the wizard
  Unnamed, Name, \* no public host given; a domain name
  IP,            \* addresses by which the world may know the host
  GuessAt, NameAt,  \* what guessPublicIP and DNS say, by the second
  Enter,         \* the answer that accepts what the wizard proposes
  PublicAnswer,  \* the answers to its questions on mux, host and adv
  Content,       \* the contents the administrator gives server.properties
  MaxStarts, MaxEdits, MaxSecond,  \* bounds of the model
  Midway         \* the administrator may edit the file while the wizard waits

DefaultListen == 19132
DefaultMux == 19133
DefaultIdle == 5

(* The text of an address: a host and a port, and whether net.SplitHostPort can   *)
(* tell them apart, which takes brackets around an IPv6 host.                    *)
Bds == [host : {NoHost, Loopback, Loopback6, OwnIP, Elsewhere}, port : Nat \ {0},
        splits : BOOLEAN]
Default == [host |-> Loopback, port |-> DefaultPort, splits |-> TRUE]

(* SplitHostPort as the code uses it: without the brackets, and "" with an error.  *)
HostOf(bds) == IF bds.splits THEN bds.host ELSE NoHost
(* bdsHost + ":" + port, which puts no brackets around anything. *)
Concatenated(host, port) == [host |-> host, port |-> port, splits |-> host \notin IPv6]

Hosts == IP \cup {Unnamed, Name}
Options == [listen : Nat, bds : Bds, mux : Nat, host : IP, adv : Nat \ {0}, idle : Int,
            insecure : BOOLEAN]
Config == [listen : Nat, bds : Bds \cup {NoBds}, mux : Nat, host : Hosts, adv : Nat,
           idle : Int, insecure : BOOLEAN]
Flags == [config : BOOLEAN, wizard : BOOLEAN, fix : BOOLEAN, save : BOOLEAN,
          listen : Nat, bds : Bds \cup {NoBds}, mux : Nat, host : Hosts, adv : Nat,
          idle : Int, insecure : BOOLEAN]

NoFlags == [config |-> FALSE, wizard |-> FALSE, fix |-> FALSE, save |-> FALSE,
            listen |-> 0, bds |-> NoBds, mux |-> 0, host |-> Unnamed, adv |-> 0,
            idle |-> 0, insecure |-> FALSE]
EmptyConfig == [listen |-> 0, bds |-> NoBds, mux |-> 0, host |-> Unnamed, adv |-> 0,
                idle |-> 0, insecure |-> FALSE]

ASSUME StartupAssumption ==
  /\ Port \subseteq Nat \ {0} /\ Ephemeral \in Nat \ {0}
  /\ NoBds \notin Bds /\ {Unnamed, Name} \cap IP = {} /\ Unnamed # Name
  /\ Content \subseteq Lines \cup {NoFile}
  /\ MaxSecond \in Nat /\ Midway \in BOOLEAN
  /\ CommandLine \subseteq Flags
  /\ ListenAnswer \subseteq Nat \ {0} /\ BdsAnswer \subseteq {b \in Bds : b.splits}
  /\ GuessAt \in [0 .. MaxSecond -> IP] /\ NameAt \in [0 .. MaxSecond -> IP]
  /\ \A a \in PublicAnswer :
       /\ a.mux \in Nat \ {0} \/ a.mux = Enter
       /\ a.host \in IP \cup {Name, Enter}
       /\ a.adv \in Nat \ {0} \/ a.adv = Enter

VARIABLES
  file,     \* server.properties
  bak,      \* its backups, by the second in their name
  cfg,      \* proxy.json
  bdsPort,  \* the port BDS listens on, 0 if it is not running
  pc,       \* where the program is
  flags,    \* its flags
  opts,     \* its options so far
  knowsIPs, \* whether computeLocalIPs has been called
  orig,     \* server.properties as it was read
  plan,     \* the fix planned
  by,       \* who fixes and saves: "wizard" or "flags"
  found,    \* whether the wizard has found server.properties
  did,      \* what this start did: the port it gave BDS, whether it saved proxy.json
  admin,    \* server.properties as the administrator left it
  given,    \* history: what of the public address has been given literally
  reused,   \* history: whether a backup took the name of an earlier one
  now, starts, edits

files == <<file, bak, cfg>>
history == <<given, reused>>
world == <<bdsPort, admin, history, now, starts, edits>>
process == <<flags, opts, knowsIPs, orig, plan, by, found, did>>
vars == <<files, world, pc, process>>

NoPlan == Plan(<< >>, 0, 0, FALSE)
Nothing == [port |-> 0, saved |-> FALSE]

Init ==
  /\ file \in Content /\ admin = file
  /\ bak = [t \in 0 .. MaxSecond |-> NoFile]
  /\ cfg = NoFile
  /\ bdsPort = 0
  /\ pc = "off"
  /\ flags = NoFlags /\ opts = EmptyConfig /\ knowsIPs = FALSE
  /\ orig = << >> /\ plan = NoPlan /\ by = "flags" /\ found = FALSE /\ did = Nothing
  /\ given = {} /\ reused = FALSE /\ now = 0 /\ starts = 0 /\ edits = 0

Fixing == {"prompt", "backup", "truncate", "write"}

-----------------------------------------------------------------------------
(* orDefault, orDur, orInt, and the flags over them. *)
FromConfig(c) ==
  [listen   |-> IF c.listen = 0 THEN DefaultListen ELSE c.listen,
   bds      |-> IF c.bds = NoBds THEN Default ELSE c.bds,
   mux      |-> IF c.mux = 0 THEN DefaultMux ELSE c.mux,
   host     |-> c.host,
   adv      |-> c.adv,
   idle     |-> IF c.idle <= 0 THEN DefaultIdle ELSE c.idle,
   insecure |-> c.insecure]

Override(o, f) ==
  [listen   |-> IF f.listen = 0 THEN o.listen ELSE f.listen,
   bds      |-> IF f.bds = NoBds THEN o.bds ELSE f.bds,
   mux      |-> IF f.mux = 0 THEN o.mux ELSE f.mux,
   host     |-> IF f.host = Unnamed THEN o.host ELSE f.host,
   adv      |-> IF f.adv = 0 THEN o.adv ELSE f.adv,
   idle     |-> IF f.idle = 0 THEN o.idle ELSE f.idle,
   insecure |-> o.insecure \/ f.insecure]

(* What main makes of the public address: the guess and the port of the mux if    *)
(* none is given; a name is looked up.                                          *)
Advertised(o) ==
  [o EXCEPT !.host = CASE o.host = Unnamed -> GuessAt[now]
                       [] o.host = Name    -> NameAt[now]
                       [] OTHER            -> o.host,
            !.adv  = IF o.adv = 0 THEN o.mux ELSE o.adv]

(* What o says literally of the public address. *)
Literal(o) == {x \in {"host"} : o.host \in IP} \cup {x \in {"adv"} : o.adv # 0}

(* hostIsLocal, of the loopback addresses and of no address at all; of others only  *)
(* after computeLocalIPs.                                                       *)
HostIsLocal(h, computed) == h \in {NoHost, Loopback, Loopback6} \/ (h = OwnIP /\ computed)

InUse(p) == p \notin Port \cup {Ephemeral} \/ p = bdsPort

(* freeTCPPort: the first candidate that is free, else one the system assigns. *)
FreeTCPPort(candidates) ==
  LET free == {i \in DOMAIN candidates : ~InUse(candidates[i])}
  IN  IF free = {} THEN Ephemeral ELSE candidates[Min(free)]

-----------------------------------------------------------------------------
NewProcess(f) ==
  /\ flags' = f /\ opts' = EmptyConfig /\ knowsIPs' = FALSE
  /\ orig' = << >> /\ plan' = NoPlan /\ by' = "flags" /\ found' = FALSE /\ did' = Nothing
NoProcess == pc' = "off" /\ NewProcess(NoFlags)

Start(f) ==
  /\ pc \in {"off", "panicked"} /\ starts < MaxStarts
  /\ starts' = starts + 1
  /\ pc' = "load" /\ NewProcess(f)
  /\ given' = given \cup Literal(f)
  /\ UNCHANGED <<files, bdsPort, admin, reused, now, edits>>

(* loadConfig returns neither a config nor an error for a file that is not      *)
(* there; an error is fatal with -config and ignored without.                   *)
Load ==
  /\ pc = "load"
  /\ \/ flags.wizard /\ pc' = "wizard" /\ opts' = opts
     \/ /\ ~flags.wizard /\ cfg \notin {NoFile, Torn}
        /\ pc' = "apply" /\ opts' = cfg
     \/ /\ ~flags.wizard /\ flags.config /\ cfg \in {NoFile, Torn}
        /\ pc' = IF cfg = NoFile THEN "panicked" ELSE "off"
        /\ opts' = opts
     \/ /\ ~flags.wizard /\ ~flags.config /\ cfg \in {NoFile, Torn}
        /\ pc' = IF flags = NoFlags THEN "wizard" ELSE "apply"
        /\ opts' = EmptyConfig
  /\ UNCHANGED <<files, world, flags, knowsIPs, orig, plan, by, found, did>>

(* Steps 1 and 2 of the wizard: the player port and the address of BDS, and the *)
(* way out if they clash: whatever the answer, the player port becomes alt.     *)
Answer(listen, bds) ==
  /\ pc = "wizard"
  /\ knowsIPs' = TRUE
  /\ LET clash == HostIsLocal(HostOf(bds), TRUE) /\ listen = bds.port
         alt   == FreeTCPPort(<<19130, 19131, 19134, 19135, bds.port + 1>>)
     IN  opts' = [EmptyConfig EXCEPT !.bds = bds, !.listen = IF clash THEN alt ELSE listen]
  /\ by' = "wizard" /\ found' = (file # NoFile)
  /\ pc' = "public"
  /\ UNCHANGED <<files, world, flags, orig, plan, did>>

ProposedPort ==
  IF file = NoFile \/ ReadServerPort(file) = 0 THEN DefaultPort ELSE ReadServerPort(file)

WizardAnswers ==
  \E listen \in ListenAnswer, bds \in BdsAnswer \cup {[Default EXCEPT !.port = ProposedPort]} :
    Answer(listen, bds)

(* Steps 3 to 5: the UDP port, and what clients are to be told.  The proposals    *)
(* are put down like answers.                                                   *)
AnswerPublic(a) ==
  /\ pc = "public"
  /\ LET mux == IF a.mux = Enter THEN DefaultMux ELSE a.mux
     IN  opts' = [opts EXCEPT !.mux  = mux,
                              !.host = IF a.host = Enter THEN GuessAt[now] ELSE a.host,
                              !.adv  = IF a.adv = Enter THEN mux ELSE a.adv]
  /\ given' = given \cup Literal(opts')
  /\ pc' = "read"
  /\ UNCHANGED <<files, bdsPort, admin, reused, now, starts, edits, flags, knowsIPs, orig,
                 plan, by, found, did>>

Apply ==
  /\ pc = "apply"
  /\ opts' = Override(FromConfig(opts), flags)
  /\ by' = "flags"
  /\ pc' = IF flags.fix THEN "read" ELSE IF flags.save THEN "save" ELSE "listen"
  /\ UNCHANGED <<files, world, flags, knowsIPs, orig, plan, found, did>>

-----------------------------------------------------------------------------
(* The fix, for the wizard or for -fix-bds; what follows it. *)
AfterFix ==
  IF by = "wizard" THEN "ask to save" ELSE IF flags.save THEN "save" ELSE "listen"

Read ==
  /\ pc = "read" /\ file # NoFile /\ (by = "wizard" => found)
  /\ LET alt == FreeTCPPort(<<19131, 19130, 19134, 19135, opts.listen + 1>>)
         p   == Plan(file, opts.listen, alt, HostIsLocal(HostOf(opts.bds), knowsIPs))
     IN  /\ orig' = file /\ plan' = p
         /\ pc' = IF p.changes = {} THEN AfterFix
                  ELSE IF by = "wizard" THEN "prompt" ELSE "backup"
  /\ UNCHANGED <<files, world, flags, opts, knowsIPs, by, found, did>>

(* There is no file, or it cannot be read: the fix is skipped. *)
ReadNothing ==
  /\ pc = "read"
  /\ pc' = AfterFix
  /\ UNCHANGED <<files, world, process>>

(* "Fix it?" *)
Prompt ==
  /\ pc = "prompt"
  /\ pc' \in {"backup", AfterFix}
  /\ UNCHANGED <<files, world, process>>

(* os.WriteFile of a backup, whose name is the second. *)
SaveBackup(content) ==
  /\ bak' = [bak EXCEPT ![now] = content]
  /\ reused' = (reused \/ bak[now] # NoFile)
  /\ UNCHANGED <<file, cfg, bdsPort, admin, given, now, starts, edits, process>>

(* Mutants: the backup is of the fixed content; its failure is not looked at.   *)
BackupOfFixed ==
  /\ pc = "backup"
  /\ SaveBackup(plan.content)
  /\ pc' = "truncate"
BackupFailsIgnored ==
  /\ pc = "backup"
  /\ \E n \in 0 .. Len(orig) - 1 : SaveBackup(SubSeq(orig, 1, n))
  /\ pc' = "truncate"

(* saveServerPropertiesFixed writes the backup ... *)
Backup ==
  /\ pc = "backup"
  /\ SaveBackup(orig)
  /\ pc' = "truncate"

(* ... which may fail at once or when part of it is written, and ends the fix. *)
BackupFails ==
  /\ pc = "backup"
  /\ \/ UNCHANGED <<files, world, process>>
     \/ \E n \in 0 .. Len(orig) - 1 : SaveBackup(SubSeq(orig, 1, n))
  /\ pc' = AfterFix

(* os.WriteFile of the fixed content: the file is truncated, then written. *)
Truncate ==
  /\ pc = "truncate"
  /\ file' = << >>
  /\ pc' = "write"
  /\ UNCHANGED <<bak, cfg, world, process>>

(* Mutants: the new port is taken over though it has not changed; or never.     *)
WriteAlwaysFollow ==
  /\ pc = "write"
  /\ file' = plan.content
  /\ pc' = AfterFix
  /\ did' = [did EXCEPT !.port = plan.newPort]
  /\ opts' = [opts EXCEPT !.bds = Concatenated(HostOf(@), plan.newPort)]
  /\ UNCHANGED <<bak, cfg, world, flags, knowsIPs, orig, plan, by, found>>
WriteNeverFollow ==
  /\ pc = "write"
  /\ file' = plan.content
  /\ pc' = AfterFix
  /\ did' = IF plan.newPort = 0 THEN did ELSE [did EXCEPT !.port = plan.newPort]
  /\ UNCHANGED <<bak, cfg, world, flags, opts, knowsIPs, orig, plan, by, found>>

(* The address of BDS follows the new port.  An IPv6 host loses its brackets.     *)
Write ==
  /\ pc = "write"
  /\ file' = plan.content
  /\ pc' = AfterFix
  /\ IF plan.newPort = 0 THEN UNCHANGED <<did, opts>>
     ELSE /\ did' = [did EXCEPT !.port = plan.newPort]
          /\ opts' = [opts EXCEPT !.bds = Concatenated(HostOf(@), plan.newPort)]
  /\ UNCHANGED <<bak, cfg, world, flags, knowsIPs, orig, plan, by, found>>

(* The file cannot be opened for writing, or not all is written. *)
WriteFails ==
  /\ \/ pc = "truncate" /\ file' = file
     \/ /\ pc = "write"
        /\ \E n \in 0 .. Len(plan.content) - 1 : file' = SubSeq(plan.content, 1, n)
  /\ pc' = AfterFix
  /\ UNCHANGED <<bak, cfg, world, process>>

-----------------------------------------------------------------------------
(* The wizard offers to save, except under -wizard. *)
AskToSave ==
  /\ pc = "ask to save"
  /\ pc' \in {"apply"} \cup {p \in {"save"} : ~flags.wizard}
  /\ UNCHANGED <<files, world, process>>

AfterSave == IF by = "wizard" THEN "apply" ELSE "listen"

(* saveConfig, of the wizard's answers or of optsToConfig. *)
SaveTruncate ==
  /\ pc = "save"
  /\ cfg' = Torn
  /\ pc' = "save write"
  /\ UNCHANGED <<file, bak, world, process>>

(* Mutants: optsToConfig forgets insecure; what main makes of the public address  *)
(* is saved.                                                                    *)
SaveWriteAdvertised ==
  /\ pc = "save write"
  /\ cfg' = Advertised(opts)
  /\ did' = [did EXCEPT !.saved = TRUE]
  /\ pc' = AfterSave
  /\ UNCHANGED <<file, bak, world, flags, opts, knowsIPs, orig, plan, by, found>>
SaveWriteForgetful ==
  /\ pc = "save write"
  /\ cfg' = [opts EXCEPT !.insecure = FALSE]
  /\ did' = [did EXCEPT !.saved = TRUE]
  /\ pc' = AfterSave
  /\ UNCHANGED <<file, bak, world, flags, opts, knowsIPs, orig, plan, by, found>>

SaveWrite ==
  /\ pc = "save write"
  /\ cfg' = opts
  /\ did' = [did EXCEPT !.saved = TRUE]
  /\ pc' = AfterSave
  /\ UNCHANGED <<file, bak, world, flags, opts, knowsIPs, orig, plan, by, found>>

(* Likewise of proxy.json: what is left is the old file or a torn one. *)
SaveFails ==
  /\ pc \in {"save", "save write"}
  /\ pc' = AfterSave
  /\ UNCHANGED <<files, world, process>>

(* The rest of main: computeLocalIPs, the public address ... *)
Listen ==
  /\ pc = "listen" /\ ~InUse(opts.listen)
  /\ knowsIPs' = TRUE
  /\ opts' = Advertised(opts)
  /\ pc' = "running"
  /\ UNCHANGED <<files, world, flags, orig, plan, by, found, did>>

(* ... fatalBind if the port is taken (signaling.go:76), and the end if the name    *)
(* has no address or DNS does not answer (main.go:166, :182).  If it is the UDP    *)
(* port that is taken (mux.go:22) the program ends a moment later: Stop.          *)
ListenFails ==
  /\ pc = "listen" /\ (InUse(opts.listen) \/ opts.host = Name)
  /\ NoProcess
  /\ UNCHANGED <<files, world>>

(* The program is stopped or killed at any point, or its window closed. *)
Stop ==
  /\ pc \notin {"off", "panicked"}
  /\ NoProcess
  /\ UNCHANGED <<files, world>>

-----------------------------------------------------------------------------
(* BDS comes and goes; it listens on a server-port of its file. *)
BdsPorts ==
  IF file = NoFile \/ PortLines(file) = {} THEN {DefaultPort}
  ELSE {file[i].val : i \in PortLines(file)}

BdsStarts ==
  /\ bdsPort = 0
  /\ bdsPort' \in {p \in BdsPorts : p \in Port /\ ~(pc = "running" /\ p = opts.listen)}
  /\ UNCHANGED <<files, admin, history, now, starts, edits, pc, process>>
BdsStops ==
  /\ bdsPort # 0 /\ bdsPort' = 0
  /\ UNCHANGED <<files, admin, history, now, starts, edits, pc, process>>

(* The administrator edits the file, but not in the moments between its reading and *)
(* its rewriting; while the wizard waits for an answer in between, if Midway.      *)
AdminEdits(c) ==
  /\ edits < MaxEdits /\ c # file
  /\ pc \notin Fixing \/ (Midway /\ pc = "prompt")
  /\ edits' = edits + 1
  /\ file' = c /\ admin' = c
  /\ UNCHANGED <<bak, cfg, bdsPort, history, now, starts, pc, process>>

Tick ==
  /\ now < MaxSecond
  /\ now' = now + 1
  /\ UNCHANGED <<files, bdsPort, admin, history, starts, edits, pc, process>>

Program ==
  \/ Load \/ WizardAnswers \/ (\E a \in PublicAnswer : AnswerPublic(a)) \/ Apply
  \/ Read \/ ReadNothing \/ Prompt
  \/ Backup \/ BackupFails \/ Truncate \/ Write \/ WriteFails
  \/ AskToSave \/ SaveTruncate \/ SaveWrite \/ SaveFails \/ Listen \/ ListenFails

Next ==
  \/ \E f \in CommandLine : Start(f)
  \/ Program \/ Stop
  \/ BdsStarts \/ BdsStops \/ Tick
  \/ \E c \in Content : AdminEdits(c)

Spec == Init /\ [][Next]_vars

-----------------------------------------------------------------------------
(* Every variable has its type. *)
TypeOK ==
  /\ file \in Lines \cup {NoFile} /\ admin \in Content /\ orig \in Lines
  /\ bak \in [0 .. MaxSecond -> Lines \cup {NoFile}]
  /\ cfg \in {NoFile, Torn} \/ cfg \in Config
  /\ bdsPort \in Port \cup {0}
  /\ flags \in Flags /\ (pc = "running" => opts \in Options)
  /\ plan.changes \subseteq Keys /\ plan.content \in Lines /\ plan.newPort \in Nat
  /\ knowsIPs \in BOOLEAN /\ by \in {"wizard", "flags"}
  /\ found \in BOOLEAN /\ reused \in BOOLEAN /\ given \subseteq {"host", "adv"}

(* A fix leaves all other lines where and as they are, and one is enough: a file *)
(* with no more than one server-udp-ports has nothing left to fix, and all who   *)
(* read its server-port agree on the new one.                                   *)
FixRepairs ==
  pc \in Fixing =>
    /\ Unrelated(plan.content) = Unrelated(orig)
    /\ Cardinality(At(orig, "server-udp-ports")) <= 1 =>
         Changes(plan.content, opts.listen, plan.alt, plan.bdsLocal) = {}
    /\ plan.newPort # 0 /\ Cardinality(At(orig, "server-port")) <= 1 =>
         ReadServerPort(plan.content) = plan.newPort

(* Whatever fixes are killed, fail or are repeated, the file as the administrator *)
(* left it is there or in a backup of it, which no later one replaces            *)
(* (bdsfix.go:180).  This holds as long as no two backups are of one second:     *)
(* then they have one name (bdsfix.go:182), and the later, or what a failure      *)
(* leaves of it, takes the place of the earlier.  Two starts can do that, and one *)
(* with -wizard and -fix-bds, which fixes twice.                               *)
OriginalKept ==
  admin # NoFile /\ ~reused => admin = file \/ \E t \in DOMAIN bak : bak[t] = admin

(* The file is not destroyed before a backup holds what is in it.  bdsfix.go:15  *)
(* and :180 promise the backup.                                                 *)
BackedUpFirst ==
  [][pc = "truncate" /\ pc' = "write" => \E t \in DOMAIN bak : bak[t] = file]_vars

(* The flags given with -wizard do not change the ports the wizard has fixed the   *)
(* file for (main.go:247-252 come after it).                                    *)
FlagsAgree == flags.wizard => flags.listen = 0 /\ flags.bds = NoBds

(* A fix that is in the file leaves no conflict of ports: BDS on this host will  *)
(* not take the port the proxy listens on, be it set in the file or the default  *)
(* (bdsfix.go:11).  Four things are beyond the code.  A file that a crash has   *)
(* emptied is not looked at (bdsfix.go:88).  On the flags' behalf another address *)
(* of this host is not known as such yet: computeLocalIPs comes later.  And if    *)
(* the port to offer BDS turns out to be the proxy's own, which nobody uses yet,  *)
(* the conflict is passed over (bdsfix.go:157).  Nothing is checked again when   *)
(* flags override the wizard (FlagsAgree).                                      *)
ConflictsResolved ==
  pc = "running" /\ plan # NoPlan /\ file = plan.content /\ file # << >>
    /\ Cardinality(At(file, "server-port")) <= 1
    /\ HostIsLocal(opts.bds.host, flags.wizard \/ ~flags.fix)
    /\ plan.alt # opts.listen /\ FlagsAgree
  => ReadServerPort(file) # opts.listen

(* A start that gives BDS another port passes players on to that port itself,    *)
(* under an address whose host and port can be told apart, and has saved that     *)
(* address if it has saved (main.go:280-281), unless -bds overrides what the     *)
(* wizard did.  There is an exception: an IPv6 host has lost its brackets         *)
(* (main.go:290 and :303, wizard.go:186 and :202), so "[::1]:19132" becomes       *)
(* "::1:19131", for which SplitHostPort and net.Dial know no host and port.       *)
FixCarriedThrough ==
  pc = "running" /\ did.port # 0 /\ FlagsAgree =>
    /\ opts.bds.port = did.port
    /\ opts.bds.splits \/ opts.bds.host \in IPv6
    /\ did.saved => cfg.bds = opts.bds

(* What a start has saved is what a start without flags runs with: "以后双击/    *)
(* 零参数启动即可" (README.md:240).  There is one exception: a negative idle     *)
(* time, which a flag may give, is saved but not loaded (orDur).  A public host   *)
(* that is not given literally is found anew.                                   *)
SaveRoundTrip ==
  pc = "running" /\ did.saved =>
    LET next == Advertised(Override(FromConfig(cfg), NoFlags))
    IN  [next EXCEPT !.host = IF cfg.host \in IP THEN @ ELSE opts.host] =
          [opts EXCEPT !.idle = IF @ < 0 THEN DefaultIdle ELSE @]

(* What is not given is told to clients as it is at the start, whatever earlier   *)
(* starts have found and saved: a name is looked up again (README.md:224,        *)
(* main.go:171), and the port is that of the mux (config.go:20, main.go:204).    *)
(* The wizard gives the port always, and the host unless it is told a name.      *)
AdvertisedAfresh ==
  [][pc = "listen" /\ pc' = "running" =>
       /\ "host" \in given \/ opts'.host \in {GuessAt[now], NameAt[now]}
       /\ "adv" \in given \/ opts'.adv = opts'.mux]_vars

-----------------------------------------------------------------------------
(* What the repository says of the program and the runs refute *)

(* main.go:280-281: the port the fix gives BDS ends up in proxy.json, so as long *)
(* as server.properties is left alone, a saved proxy.json agrees with it.        *)
SavedMatchesFix ==
  pc = "running" /\ flags.fix /\ did.saved /\ file # admin /\ opts.bds.host = Loopback
    => cfg.bds.port = ServerPortVal(file)

=============================================================================
