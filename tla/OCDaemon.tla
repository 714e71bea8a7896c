------------------------------ MODULE OCDaemon ------------------------------
(***************************************************************************)
(* The VPN connection path of oc-daemon: the main goroutine (Daemon), the  *)
(* OpenConnect runner (Runner), the openconnect processes with the         *)
(* vpncscript processes they run, and the socket API server that hands the *)
(* scripts' requests to the main goroutine.                                *)
(*                                                                         *)
(* Daemon and runner talk over two unbuffered channels in opposite         *)
(* directions, commands and events.  A step of both is the conjunction of  *)
(* the two halves their modules define.                                    *)
(***************************************************************************)
EXTENDS Runner, Daemon, Sequences

CONSTANTS
  DisableFlags,  \* values the flag DisableAlwaysOnVPN can have
  OCCrashes,     \* may openconnect die without waiting for its script?
  ReadFails,     \* may the server fail to read a request (deadline, token)?
  ListenerFails  \* may the server's listener fail?

ASSUME OCDaemonAssumption ==
  /\ OCPids = Pids
  /\ DisableFlags \subseteq BOOLEAN
  /\ OCCrashes \in BOOLEAN
  /\ ReadFails \in BOOLEAN
  /\ ListenerFails \in BOOLEAN

VARIABLES
  phase,     \* how far each openconnect process has come
  script,    \* the vpncscript process of each openconnect process
  backlog,   \* connections waiting to be accepted by the socket server
  srv,       \* the goroutine of the server: in Accept, forwarding, returned
  held,      \* the script whose request is being forwarded
  shutdown,  \* the server's shutdown channel is closed
  sdone,     \* the server's done channel is closed
  done       \* Stop() was called: d.done is closed

ocVars == <<phase, script>>
serverVars == <<backlog, srv, held, shutdown, sdone>>
vars == <<runnerVars, daemonVars, ocVars, serverVars, done>>

NoScript == [reason |-> "none", stage |-> "none", disable |-> FALSE]

Scripts ==
  [reason : Reasons, stage : {"dial", "wait"}, disable : BOOLEAN] \cup {NoScript}

OCDaemonTypeOK ==
  /\ phase \in [Pids -> {"started", "inited", "connected", "lost", "ended"}]
  /\ script \in [Pids -> Scripts]
  /\ backlog \in Seq(Pids)
  /\ srv \in {"accept", "forward", "closed"}
  /\ held \in 0 .. MaxSessions
  /\ shutdown \in BOOLEAN
  /\ sdone \in BOOLEAN
  /\ done \in BOOLEAN

TypeOK == RunnerTypeOK /\ DaemonTypeOK /\ OCDaemonTypeOK

Init ==
  /\ RunnerInit
  /\ DaemonInit
  /\ phase = [p \in Pids |-> "started"]
  /\ script = [p \in Pids |-> NoScript]
  /\ backlog = <<>>
  /\ srv = "accept"
  /\ held = 0
  /\ shutdown = FALSE
  /\ sdone = FALSE
  /\ done = FALSE

-----------------------------------------------------------------------------
(* openconnect and vpncscript.  openconnect runs its script for one reason *)
(* at a time and waits for it; the script sends one request to the socket  *)
(* server and waits for the reply.  An interrupted openconnect only runs   *)
(* the script for the disconnect, if it was connected, and terminates.     *)

RunScript(p, from, reason, to) ==
  /\ phase[p] \in from
  /\ script[p] = NoScript
  /\ phase' = [phase EXCEPT ![p] = to]
  /\ \E flag \in IF reason = "connect" THEN DisableFlags ELSE {FALSE} :
       script' = [script EXCEPT ![p] =
                    [reason |-> reason, stage |-> "dial", disable |-> flag]]
  /\ UNCHANGED <<runnerVars, daemonVars, serverVars, done>>

OCPreInit(p) == proc[p] = "running" /\ RunScript(p, {"started"}, "pre-init", "inited")
OCConnect(p) == proc[p] = "running" /\ RunScript(p, {"inited"}, "connect", "connected")
OCAttemptReconnect(p) ==
  proc[p] = "running" /\ RunScript(p, {"connected", "lost"}, "attempt-reconnect", "lost")
OCReconnect(p) == proc[p] = "running" /\ RunScript(p, {"lost"}, "reconnect", "connected")
OCDisconnect(p) == Alive(p) /\ RunScript(p, {"connected", "lost"}, "disconnect", "ended")

(* openconnect terminates: after an error, or at the end. *)
OCExit(p) ==
  /\ phase[p] \in {"started", "inited", "ended"}
  /\ script[p] = NoScript
  /\ ProcExit(p)
  /\ UNCHANGED <<daemonVars, ocVars, serverVars, done>>

(* openconnect is killed; a script it was running goes on without it. *)
OCCrash(p) ==
  /\ OCCrashes
  /\ ProcExit(p)
  /\ UNCHANGED <<daemonVars, ocVars, serverVars, done>>

(* The script connects to the socket, which fails without a listener. *)
ScriptDial(p) ==
  /\ script[p].stage = "dial"
  /\ IF srv = "closed" \/ sdone
     THEN /\ script' = [script EXCEPT ![p] = NoScript]
          /\ UNCHANGED backlog
     ELSE /\ script' = [script EXCEPT ![p].stage = "wait"]
          /\ backlog' = Append(backlog, p)
  /\ UNCHANGED <<runnerVars, daemonVars, phase, srv, held, shutdown, sdone, done>>

-----------------------------------------------------------------------------
(* The socket API server. *)

(* Accept a connection and read its request. *)
ServerAccept ==
  /\ srv = "accept"
  /\ ~sdone
  /\ backlog # <<>>
  /\ backlog' = Tail(backlog)
  /\ srv' = "forward"
  /\ held' = Head(backlog)
  /\ UNCHANGED <<runnerVars, daemonVars, ocVars, shutdown, sdone, done>>

(* Reading fails; the connection is closed without a reply. *)
ServerReadError ==
  /\ ReadFails
  /\ srv = "accept"
  /\ ~sdone
  /\ backlog # <<>>
  /\ backlog' = Tail(backlog)
  /\ script' = [script EXCEPT ![Head(backlog)] = NoScript]
  /\ UNCHANGED <<runnerVars, daemonVars, phase, srv, held, shutdown, sdone, done>>

(* A mutated form: the shutdown channel is not part of the select. *)
ServerRejectStopped ==
  /\ srv = "forward"
  /\ sdone
  /\ srv' = "accept"
  /\ held' = 0
  /\ script' = [script EXCEPT ![held] = NoScript]
  /\ UNCHANGED <<runnerVars, daemonVars, phase, backlog, shutdown, sdone, done>>

(* Reply with the "shutting down" error. *)
ServerReject ==
  /\ srv = "forward"
  /\ shutdown \/ sdone
  /\ srv' = "accept"
  /\ held' = 0
  /\ script' = [script EXCEPT ![held] = NoScript]
  /\ UNCHANGED <<runnerVars, daemonVars, phase, backlog, shutdown, sdone, done>>

(* Accept returns an error: the server is stopping, or gives up.  The      *)
(* listener goes away with the connections that were never accepted.       *)
ServerClose ==
  /\ srv = "accept"
  /\ sdone \/ ListenerFails
  /\ srv' = "closed"
  /\ backlog' = <<>>
  /\ script' = [p \in Pids |-> IF script[p].stage = "wait" THEN NoScript ELSE script[p]]
  /\ UNCHANGED <<runnerVars, daemonVars, phase, held, shutdown, sdone, done>>

-----------------------------------------------------------------------------
(* The daemon's main loop, with the halves of the runner and the server.   *)

(* The deferred calls of start() before it waits for the runner. *)
Deferred ==
  IF dpc' = "waitRunner"
  THEN CloseDone /\ shutdown' = TRUE
  ELSE UNCHANGED <<runnerVars, shutdown>>

(* Handle the request of a script and reply to it. *)
DaemonServerRequest ==
  /\ srv = "forward"
  /\ ClientRequest(script[held].reason, [pid |-> held, disable |-> script[held].disable])
  /\ Deferred
  /\ srv' = "accept"
  /\ held' = 0
  /\ script' = [script EXCEPT ![held] = NoScript]
  /\ UNCHANGED <<phase, backlog, sdone, done>>

DaemonNilRequest ==
  /\ srv = "closed"
  /\ NilRequest
  /\ UNCHANGED <<runnerVars, ocVars, serverVars, done>>

DaemonDBusConnect ==
  /\ pid < MaxSessions
  /\ \E host \in Hosts \cup {NoAddr} : DBusConnect(host)
  /\ UNCHANGED <<runnerVars, ocVars, serverVars, done>>

DaemonDBusDisconnect ==
  /\ DBusDisconnect
  /\ UNCHANGED <<runnerVars, ocVars, serverVars, done>>

DaemonSleepMonResume ==
  /\ SleepMonResume
  /\ UNCHANGED <<runnerVars, ocVars, serverVars, done>>

DaemonTNDResult ==
  /\ \E trusted \in BOOLEAN, ok \in Outcomes("trafpol") : TNDResult(trusted, ok)
  /\ Deferred
  /\ UNCHANGED <<ocVars, backlog, srv, held, sdone, done>>

DaemonProfileUpdate ==
  /\ \E profile \in Profiles, ok1 \in Outcomes("trafpol"), ok2 \in Outcomes("tnd") :
       ProfileUpdate(profile, ok1, ok2)
  /\ Deferred
  /\ UNCHANGED <<ocVars, backlog, srv, held, sdone, done>>

DaemonCPDStatusUpdate ==
  /\ \E detected \in BOOLEAN : CPDStatusUpdate(detected)
  /\ UNCHANGED <<runnerVars, ocVars, serverVars, done>>

(* Receive the event the runner offers. *)
DaemonRunnerEvent ==
  /\ RunnerEvent(event.Connect, event.PID)
  /\ EventReceived
  /\ UNCHANGED <<ocVars, serverVars, done>>

(* The runner receives the command the daemon offers. *)
DaemonSendConnect ==
  /\ dcmd = "connect"
  /\ CommandSent(TRUE)
  /\ RecvConnect
  /\ UNCHANGED <<ocVars, serverVars, done>>

(* checkTrafPol after the disconnect of a trusted network cannot fail: it  *)
(* stops traffic policing.                                                 *)
DaemonSendDisconnect ==
  /\ dcmd \in {"disconnect", "disconnectThenCheck"}
  /\ CommandSent(TRUE)
  /\ RecvDisconnect
  /\ UNCHANGED <<ocVars, serverVars, done>>

(* Stop(), called once: on an interrupt signal or after an error. *)
Stop ==
  /\ ~done
  /\ done' = TRUE
  /\ UNCHANGED <<runnerVars, daemonVars, ocVars, serverVars>>

DaemonDone ==
  /\ done
  /\ StopRequested
  /\ Deferred
  /\ UNCHANGED <<ocVars, backlog, srv, held, sdone, done>>

DaemonRunnerStopped ==
  /\ rpc = "closed"
  /\ RunnerStopped
  /\ sdone' = TRUE
  /\ UNCHANGED <<runnerVars, ocVars, backlog, srv, held, shutdown, done>>

DaemonServerStopped ==
  /\ srv = "closed"
  /\ ServerStopped
  /\ UNCHANGED <<runnerVars, ocVars, serverVars, done>>

(* The runner's goroutines, gone with the process when it panics. *)
RunnerStep ==
  /\ dpc # "panic"
  /\ RunnerInternal
  /\ UNCHANGED <<daemonVars, ocVars, serverVars, done>>

-----------------------------------------------------------------------------
Next ==
  \/ \E p \in Pids :
       \/ OCPreInit(p) \/ OCConnect(p) \/ OCAttemptReconnect(p) \/ OCReconnect(p)
       \/ OCDisconnect(p) \/ OCExit(p) \/ OCCrash(p) \/ ScriptDial(p)
  \/ ServerAccept \/ ServerReadError \/ ServerReject \/ ServerClose
  \/ DaemonServerRequest \/ DaemonNilRequest
  \/ DaemonDBusConnect \/ DaemonDBusDisconnect \/ DaemonSleepMonResume
  \/ DaemonTNDResult \/ DaemonProfileUpdate \/ DaemonCPDStatusUpdate
  \/ DaemonRunnerEvent \/ DaemonSendConnect \/ DaemonSendDisconnect
  \/ Stop \/ DaemonDone \/ DaemonRunnerStopped \/ DaemonServerStopped
  \/ RunnerStep

Spec == Init /\ [][Next]_vars

(* Fairness.  Goroutines and processes that can run do run (WF).  Go's     *)
(* select picks at random among the cases that are ready, so a case that   *)
(* is ready again and again is taken: strong fairness for the cases of the *)
(* selects.  openconnect terminates when it was interrupted or is at its   *)
(* end.  Nothing is assumed of clients, networks, profiles, TND, sleep.    *)
Fairness ==
  /\ SF_vars(DaemonRunnerEvent)
  /\ SF_vars(DaemonServerRequest)
  /\ SF_vars(DaemonDone)
  /\ SF_vars(DaemonNilRequest)
  /\ WF_vars(DaemonSendConnect)
  /\ WF_vars(DaemonSendDisconnect)
  /\ WF_vars(DaemonRunnerStopped)
  /\ WF_vars(DaemonServerStopped)
  /\ SF_vars(RecvExit /\ RunnerStep)
  /\ SF_vars(HandleStop /\ RunnerStep)
  /\ WF_vars(RunnerStep)
  /\ WF_vars(ServerAccept)
  /\ SF_vars(ServerReject)
  /\ WF_vars(sdone /\ ServerClose)
  /\ \A p \in Pids :
       /\ WF_vars(ScriptDial(p))
       /\ WF_vars(proc[p] = "interrupted" /\ OCDisconnect(p))
       /\ WF_vars((proc[p] = "interrupted" \/ phase[p] = "ended") /\ OCExit(p))

FairSpec == Spec /\ Fairness

-----------------------------------------------------------------------------
(* The daemon's view of the runner's state. *)
RunnerIdle == rpc = "select" /\ command = "nil" /\ waiter = "none"

(* A connect command is never lost: when the daemon sends it, the runner   *)
(* is in its select with no command, so it neither refuses the command     *)
(* ("openconnect process already running") nor leaves the daemon blocked   *)
(* (connectVPN, handleConnect).                                            *)
ConnectAccepted == dcmd = "connect" => RunnerIdle

(* While the daemon says that openconnect is not running, it is not, and   *)
(* no exit of an earlier process is still to be reported: a late           *)
(* disconnect event would tear down the next connection (setStatusOC-      *)
(* Running, handleRunnerEvent).                                            *)
NotRunningMeansGone ==
  dpc = "select" /\ ~d.OCRunning => RunnerIdle /\ \A p \in Pids : ~Alive(p)

(* The PID the daemon reports is that of the process the runner controls.  *)
ReportedPIDIsCurrent == d.OCPID # 0 => d.OCPID = pid

(* Both goroutines block on each other's channel for good: the daemon on   *)
(* commands <- e, the runner on events <- event.                           *)
Stalemate == dpc = "sendCmd" /\ rpc = "sendEvent"

(* When the daemon has stopped, its openconnect processes have terminated  *)
(* and the socket server is closed.                                        *)
StoppedMeansGone ==
  dpc = "closed" => srv = "closed" /\ \A p \in Pids : ~Alive(p)

(* An openconnect that was killed while it was connected can leave a       *)
(* script that reports late.                                               *)
KilledConnected(p) == proc[p] = "dead" /\ phase[p] \in {"connected", "lost"}

(* A connection is reported as established only with an active VPN         *)
(* configuration (updateVPNConfigUp, handleVPNReconnect), and an active    *)
(* one is that of the current openconnect process, unless one was killed   *)
(* and the daemon takes its script for one of a later session.             *)
SessionConfigured ==
  (\A p \in Pids : ~KilledConnected(p)) =>
    /\ d.ConnectionState = "Connected" => d.setup # NoConfig
    /\ d.setup # NoConfig => d.setup.pid = pid

(* Whatever openconnect, its scripts, clients and monitors do, a stopped   *)
(* daemon terminates: scripts waiting for a reply do not keep openconnect, *)
(* and openconnect does not keep the runner, from terminating.  The        *)
(* exceptions are the stalemate, traffic policing that failed to start and *)
(* a failed listener.                                                      *)
StopTerminates ==
  done ~> (dpc \in {"closed", "hung", "panic"} \/ Stalemate)

(* The end of openconnect is noticed and the VPN configuration is removed, *)
(* unless daemon and runner are in the stalemate or the daemon crashed.    *)
ExitCleanedUp ==
  (command = "process" /\ proc[pid] = "dead")
    ~> ((~d.OCRunning /\ d.setup = NoConfig) \/ Stalemate \/ dpc = "panic")

(* A disconnect that reaches the runner ends the connection: openconnect   *)
(* terminates even if it was waiting for its script, its end is reported,  *)
(* and the daemon is not running a VPN any more.                           *)
DisconnectEnds ==
  (dcmd \in {"disconnect", "disconnectThenCheck"})
    ~> (~d.OCRunning \/ Stalemate \/ dpc = "panic")

=============================================================================
