----------------------------- MODULE DaemonLife -----------------------------
(***************************************************************************)
(* The daemon over several lives of its process: Start() with its clean-up *)
(* after a failed shutdown and its error paths (internal/daemon), crashes  *)
(* in the middle of a handler, and the openconnect processes that survive  *)
(* the daemon that started them.                                           *)
(*                                                                         *)
(* The daemon runs in its most general environment (module Daemon), except *)
(* that requests and events name an openconnect process that was really    *)
(* started.  The host is the set of things the commands of the daemon      *)
(* leave in the kernel and in systemd-resolved.  The number of a life      *)
(* stands for the token the daemon draws at its start and passes to        *)
(* openconnect and its scripts in the environment.                         *)
(***************************************************************************)
EXTENDS Daemon, Sequences

CONSTANT MaxLives  \* bound: how often the daemon is started

ASSUME LifeAssumption == MaxLives \in Nat \ {0}

VARIABLES
  phase,    \* of the process: up, ended (down), failed in Start(), or crashed
  life,     \* the number of the life, and its token
  host,     \* what is configured on the host
  procs,    \* the openconnect processes
  born,     \* the life in which each of them was started
  pidfile,  \* the content of the PID file
  saved     \* history: the processes that were written to the PID file

lifeVars == <<phase, life, host, procs, born, pidfile, saved>>
allVars == <<daemonVars, lifeVars>>

(* The commands of the VPN setup: what each of them adds. *)
SetupCmds == <<{"link"}, {"table"}, {"route4"}, {"rule4"}, {"sysctl"}, {"route6"},
               {"rule6"}, {"dns"}>>

(* The commands of the teardown: what each of them removes.  A device that *)
(* is down has no routes.                                                  *)
TeardownCmds == <<{"link", "route4", "route6"}, {"rule4"}, {"rule6"}, {"table"}, {"dns"}>>

(* A mutated form: the commands of traffic policing are missing. *)
CleanupCmdsNoFilter ==
  <<{"dns"}, {"link", "route4", "route6"}, {"rule4"}, {"rule6"}, {"route4"}, {"route6"},
    {"table"}>>

(* The commands of both clean-ups. *)
CleanupCmds ==
  <<{"dns"}, {"link", "route4", "route6"}, {"rule4"}, {"rule6"}, {"route4"}, {"route6"},
    {"table"}, {"filter"}>>

(* What the first n commands touch. *)
Effect(cmds, n) == UNION {cmds[i] : i \in 1 .. n}
All(cmds) == Effect(cmds, Len(cmds))

Items == All(SetupCmds) \cup {"filter"}

LifeTypeOK ==
  /\ DaemonTypeOK
  /\ phase \in {"down", "up", "failed", "panicked", "crashed"}
  /\ life \in 0 .. MaxLives
  /\ host \subseteq Items
  /\ procs \in [OCPids -> {"none", "running", "interrupted", "gone"}]
  /\ born \in [OCPids -> 0 .. MaxLives]
  /\ pidfile \in OCPids \cup {0}
  /\ saved \subseteq OCPids

(* The state of no daemon. *)
NoDaemon == StartedDaemon([alwaysOn |-> FALSE, tnd |-> FALSE])

Gone(newPhase) ==
  /\ phase' = newPhase
  /\ d' = NoDaemon
  /\ dpc' = "closed"
  /\ dcmd' = "none"

LifeInit ==
  /\ d = NoDaemon
  /\ dpc = "closed"
  /\ dcmd = "none"
  /\ phase = "down"
  /\ life = 0
  /\ host = {}
  /\ procs = [p \in OCPids |-> "none"]
  /\ born = [p \in OCPids |-> 0]
  /\ pidfile = 0
  /\ saved = {}

-----------------------------------------------------------------------------
(* Start() *)

(* CleanupConnect: the process of the PID file is interrupted if it is an  *)
(* openconnect that still runs; nobody waits for its end.                  *)
CleanupConnect == [p \in OCPids |->
  IF p = pidfile /\ procs[p] = "running" THEN "interrupted" ELSE procs[p]]

(* A mutated form: the process of the PID file is left alone. *)
BeginStartKeepProcess ==
  /\ phase # "up"
  /\ life < MaxLives
  /\ life' = life + 1
  /\ UNCHANGED <<procs, born, pidfile, saved>>

BeginStart ==
  /\ phase # "up"
  /\ life < MaxLives
  /\ life' = life + 1
  /\ procs' = CleanupConnect
  /\ UNCHANGED <<born, pidfile, saved>>

FilterOf(x) == IF x.trafpol = "running" THEN {"filter"} ELSE {}

Start(profile) ==
  /\ BeginStart
  /\ d' = StartedDaemon(profile)
  /\ dpc' = "select"
  /\ dcmd' = "none"
  /\ host' = (host \ All(CleanupCmds)) \cup FilterOf(d')
  /\ phase' = "up"

Steps == <<"token", "sleepmon", "profmon", "server", "dbus", "trafpol", "tnd">>

(* The components the labels at the end of Start() stop. *)
Stops(step) ==
  CASE step \in {"token", "sleepmon"} -> <<>>
    [] step = "profmon" -> <<"sleepmon">>
    [] step = "server"  -> <<"runner", "vpnsetup", "profmon", "sleepmon">>
    [] step = "dbus"    -> <<"server", "runner", "vpnsetup", "profmon", "sleepmon">>
    [] step = "trafpol" -> <<"dbus", "server", "server", "runner", "vpnsetup", "profmon",
                             "sleepmon">>
    [] step = "tnd"     -> <<"trafpol", "dbus", "server", "server", "runner", "vpnsetup",
                             "profmon", "sleepmon">>

(* A second Stop() of a component closes a closed channel. *)
StoppedTwice(s) == \E i, j \in DOMAIN s : i < j /\ s[i] = s[j]

(* A step of Start() fails; what was started before is stopped, and the    *)
(* process ends.  Traffic policing that fails to start removes its rules.  *)
StartFailsAt(profile, step) ==
  /\ BeginStart
  /\ step \in {"trafpol", "tnd"} => step \in StartFails
  /\ step = "tnd" => profile.tnd
  /\ step = "trafpol" => profile.alwaysOn
  /\ LET filter == IF step = "tnd" THEN FilterOf(StartedDaemon(profile)) ELSE {}
     IN  host' = ((host \ All(CleanupCmds)) \cup filter)
                 \ (IF "trafpol" \in {Stops(step)[i] : i \in DOMAIN Stops(step)}
                    THEN {"filter"} ELSE {})
  /\ Gone(IF StoppedTwice(Stops(step)) THEN "panicked" ELSE "failed")

(* The process dies during the clean-up. *)
CrashInCleanup(n) ==
  /\ BeginStart
  /\ host' = host \ Effect(CleanupCmds, n)
  /\ Gone("crashed")

-----------------------------------------------------------------------------
(* The running daemon. *)

(* What a step from x to y does on the host. *)
HostAfter(x, y) ==
  ((IF y.setup = x.setup THEN host
    ELSE IF y.setup = NoConfig THEN host \ All(TeardownCmds)
    ELSE host \cup All(SetupCmds)) \ {"filter"}) \cup FilterOf(y)

Mine == {p \in OCPids : born[p] = life}

(* A mutated form: the token of a message is not checked. *)
ReadMessageUnchecked(p) == procs[p] # "none"

(* ReadMessage accepts a message with the token of this life only; the     *)
(* script may have outlived its openconnect.                               *)
ReadMessage(p) == procs[p] # "none" /\ born[p] = life

DaemonSteps ==
  \/ \E reason \in Reasons, config \in Configs :
       ReadMessage(config.pid) /\ ClientRequest(reason, config)
  \/ NilRequest
  \/ \E addr \in Hosts \cup {NoAddr} : DBusConnect(addr)
  \/ DBusDisconnect
  \/ SleepMonResume
  \/ \E trusted \in BOOLEAN, ok \in Outcomes("trafpol") : TNDResult(trusted, ok)
  \/ \E p \in Mine : RunnerEvent(TRUE, p)
  \/ RunnerEvent(FALSE, 0)
  \/ \E profile \in Profiles, ok1 \in Outcomes("trafpol"), ok2 \in Outcomes("tnd") :
       ProfileUpdate(profile, ok1, ok2)
  \/ \E detected \in BOOLEAN : CPDStatusUpdate(detected)
  \/ StopRequested
  \/ \E ok \in Outcomes("trafpol") : CommandSent(ok)
  \/ RunnerStopped /\ \A p \in Mine : procs[p] = "gone"
  \/ ServerStopped

Step ==
  /\ phase = "up"
  /\ DaemonSteps
  /\ host' = HostAfter(d, d')
  /\ UNCHANGED <<phase, life, procs, born, pidfile, saved>>

(* The runner starts openconnect, ... *)
OCStart(p) ==
  /\ phase = "up"
  /\ d.OCRunning
  /\ \A q \in OCPids : procs[q] = "none" <=> q >= p
  /\ \A q \in Mine : procs[q] = "gone"
  /\ procs' = [procs EXCEPT ![p] = "running"]
  /\ born' = [born EXCEPT ![p] = life]
  /\ UNCHANGED <<daemonVars, phase, life, host, pidfile, saved>>

(* ... and saves its PID, if it can write the file. *)
SavePIDFile(p) ==
  /\ phase = "up"
  /\ p \in Mine \ saved
  /\ \A q \in Mine : q <= p
  /\ pidfile' = p
  /\ saved' = saved \cup {p}
  /\ UNCHANGED <<daemonVars, phase, life, host, procs, born>>

(* openconnect ends: by itself, interrupted, or killed by systemd together *)
(* with the daemon.                                                        *)
OCEnd(p) ==
  /\ procs[p] \in {"running", "interrupted"}
  /\ procs' = [procs EXCEPT ![p] = "gone"]
  /\ UNCHANGED <<daemonVars, phase, life, host, born, pidfile, saved>>

(* The hosts that a crash between two commands of a handler can leave. *)
Interrupted ==
  {host}
  \cup (IF d.OCRunning /\ d.ConnectionState # "Connected"
        THEN {host \cup Effect(SetupCmds, n) : n \in DOMAIN SetupCmds} ELSE {})
  \cup (IF d.setup # NoConfig
        THEN {host \ Effect(TeardownCmds, n) : n \in DOMAIN TeardownCmds} ELSE {})
  \cup (IF d.alwaysOn THEN {host \cup {"filter"}} ELSE {})
  \cup {host \ {"filter"}}

(* The process dies: a panic or a signal. *)
Crash ==
  /\ phase = "up"
  /\ dpc # "closed"
  /\ host' \in Interrupted
  /\ Gone("crashed")
  /\ UNCHANGED <<life, procs, born, pidfile, saved>>

(* The main loop has ended and run() returns. *)
Exit ==
  /\ phase = "up"
  /\ dpc = "closed"
  /\ Gone("down")
  /\ UNCHANGED <<life, host, procs, born, pidfile, saved>>

LifeNext ==
  \/ \E profile \in Profiles : Start(profile)
  \/ \E profile \in Profiles, i \in DOMAIN Steps : StartFailsAt(profile, Steps[i])
  \/ \E n \in DOMAIN CleanupCmds : CrashInCleanup(n)
  \/ Step
  \/ \E p \in OCPids : OCStart(p) \/ SavePIDFile(p) \/ OCEnd(p)
  \/ Crash
  \/ Exit

LifeSpec == LifeInit /\ [][LifeNext]_allVars

-----------------------------------------------------------------------------
(* Whatever a crash in the middle of a setup, a teardown or a start left   *)
(* on the host, it is gone when the daemon has been started again: then,   *)
(* after a failed Start() and after a shutdown the host has exactly what   *)
(* the running daemon knows of (cleanup, Start, deferred calls of start).  *)
(* Only src_valid_mark stays set, which no command ever resets.            *)
RestartIsClean ==
  phase # "crashed" =>
    host \ {"sysctl"} =
      IF phase # "up" THEN {}
      ELSE FilterOf(d) \cup IF d.setup = NoConfig THEN {} ELSE All(SetupCmds) \ {"sysctl"}

(* An openconnect that survived its daemon is interrupted by the next one  *)
(* when its PID was saved, over any number of crashes and failed starts:   *)
(* the PID file still names it (savePidFile, CleanupConnect).              *)
LeftoverInterrupted ==
  phase = "up" =>
    \A p \in saved : born[p] < life => procs[p] \in {"interrupted", "gone"}

(* The configuration and the PID of the daemon are of a process this life  *)
(* of the daemon has started: scripts of a surviving openconnect are not   *)
(* heard (ReadMessage, GetToken).                                          *)
ConfigOfThisLife ==
  /\ d.setup # NoConfig => born[d.setup.pid] = life
  /\ d.OCPID # 0 => born[d.OCPID] = life

=============================================================================
