------------------------------- MODULE Daemon -------------------------------
(***************************************************************************)
(* The main goroutine of the daemon (internal/daemon/daemon.go).           *)
(*                                                                         *)
(* The fields of the Go struct Daemon that its handlers read and write are *)
(* the fields of the record d, flattened together with the fields of       *)
(* d.status and with what the handlers make of the components they call    *)
(* synchronously: the configuration VPN setup has active (setup), traffic  *)
(* policing with its allowed addresses (trafpol, allowed) and trusted      *)
(* network detection (tnd).  A handler is an operator from such a record   *)
(* to such a record, so that handlers compose as the Go calls do.          *)
(*                                                                         *)
(* No other goroutine touches this state, so a handler is one step up to   *)
(* the point where it blocks on the OpenConnect runner's command channel.  *)
(* That send is a step of its own (dpc = "sendCmd").                       *)
(***************************************************************************)
EXTENDS Naturals

CONSTANTS
  Hosts,         \* IP addresses a VPN server can have
  NoAddr,        \* the zero netip.Addr; as a login: a host that is no address
  AllowedHosts,  \* addresses traffic policing always allows (configuration)
  OCPids,        \* process IDs of openconnect
  Profiles,      \* XML profiles: Always On set?  TND servers configured?
  StartFails     \* components whose Start() may return an error

ASSUME DaemonAssumption ==
  /\ NoAddr \notin Hosts
  /\ AllowedHosts \subseteq Hosts
  /\ OCPids \subseteq Nat \ {0}
  /\ Profiles \subseteq [alwaysOn : BOOLEAN, tnd : BOOLEAN]
  /\ StartFails \subseteq {"trafpol", "tnd"}

VARIABLES
  d,     \* the daemon's fields
  dpc,   \* where start() is: in its select, sending a command to the runner,
         \* in a deferred Stop(), returned, or stuck/crashed
  dcmd   \* the command being sent and what the handler does afterwards

daemonVars == <<d, dpc, dcmd>>

NoConfig == [pid |-> 0, disable |-> FALSE]

(* A VPN configuration as vpncscript reports it: the openconnect process   *)
(* it comes from and its flag DisableAlwaysOnVPN.                          *)
Configs == [pid : OCPids, disable : BOOLEAN]

DaemonState ==
  [OCRunning       : BOOLEAN,
   OCPID           : OCPids \cup {0},
   ConnectionState : {"Disconnected", "Connecting", "Connected", "Disconnecting"},
   TrustedNetwork  : BOOLEAN,
   VPNConfig       : Configs \cup {NoConfig},
   TrafPolState    : {"Inactive", "Active", "Disabled"},
   CaptivePortal   : {"Unknown", "NotDetected", "Detected"},
   serverIP        : Hosts \cup {NoAddr},
   serverIPAllowed : BOOLEAN,
   disableTrafPol  : BOOLEAN,
   alwaysOn        : BOOLEAN,
   tndServers      : BOOLEAN,
   trafpol         : {"nil", "running", "failed"},
   allowed         : SUBSET Hosts,
   tnd             : {"nil", "running", "failed"},
   setup           : Configs \cup {NoConfig}]

DaemonTypeOK ==
  /\ d \in DaemonState
  /\ dpc \in {"select", "sendCmd", "waitRunner", "waitServer", "closed", "hung", "panic"}
  /\ dcmd \in {"none", "connect", "disconnect", "disconnectThenCheck"}

-----------------------------------------------------------------------------
(* Traffic policing. *)

(* trafpol.AddAllowedAddr reports whether the address was new. *)
AddAllowedAddr(x) ==
  [x EXCEPT !.serverIPAllowed = x.serverIP \notin x.allowed,
            !.allowed = @ \cup {x.serverIP}]

(* A mutated form: the server of a running VPN connection is not allowed.  *)
StartTrafPolNoServer(x, ok) ==
  IF x.trafpol # "nil" THEN x
  ELSE [x EXCEPT !.trafpol = IF ok THEN "running" ELSE "failed",
                 !.allowed = AllowedHosts,
                 !.TrafPolState = "Active", !.CaptivePortal = "NotDetected"]

(* startTrafPol.  d.trafpol is set before its Start(), and stays set when  *)
(* Start() returns an error.                                               *)
StartTrafPol(x, ok) ==
  LET t == [x EXCEPT !.trafpol = IF ok THEN "running" ELSE "failed",
                     !.allowed = AllowedHosts]
      y == [t EXCEPT !.TrafPolState = "Active", !.CaptivePortal = "NotDetected"]
  IN  IF x.trafpol # "nil" THEN x
      ELSE IF ~ok THEN t
      ELSE IF x.serverIP # NoAddr THEN AddAllowedAddr(y)
      ELSE y

(* A mutated form: a detected captive portal is not forgotten. *)
StopTrafPolKeepPortal(x) ==
  IF x.trafpol = "nil" THEN x
  ELSE [x EXCEPT !.trafpol = "nil", !.allowed = {}, !.serverIPAllowed = FALSE,
                 !.TrafPolState = IF x.disableTrafPol THEN "Disabled" ELSE "Inactive"]

StopTrafPol(x) ==
  IF x.trafpol = "nil" THEN x
  ELSE [x EXCEPT !.trafpol = "nil", !.allowed = {}, !.serverIPAllowed = FALSE,
                 !.TrafPolState = IF x.disableTrafPol THEN "Disabled" ELSE "Inactive",
                 !.CaptivePortal = "Unknown"]

(* A mutated form: a trusted network does not stop traffic policing. *)
CheckTrafPolIgnoreTrusted(x, ok) ==
  IF x.disableTrafPol \/ ~x.alwaysOn THEN StopTrafPol(x) ELSE StartTrafPol(x, ok)

CheckTrafPol(x, ok) ==
  IF x.disableTrafPol \/ ~x.alwaysOn \/ x.TrustedNetwork
  THEN StopTrafPol(x)
  ELSE StartTrafPol(x, ok)

(* Trusted network detection (startTND, stopTND, checkTND). *)
StopTND(x) == [x EXCEPT !.tnd = "nil"]

CheckTND(x, ok) ==
  IF ~x.tndServers THEN StopTND(x)
  ELSE IF x.tnd # "nil" THEN x
  ELSE [x EXCEPT !.tnd = IF ok THEN "running" ELSE "failed"]

Outcomes(component) == IF component \in StartFails THEN BOOLEAN ELSE {TRUE}

-----------------------------------------------------------------------------
(* VPN connection. *)

(* connectVPN after its checks and up to runner.Connect(). *)
ConnectVPN(x, host) ==
  LET y == [x EXCEPT !.serverIP = IF host # NoAddr THEN host ELSE @,
                     !.OCRunning = TRUE,
                     !.ConnectionState = "Connecting"]
  IN  IF y.trafpol # "nil" /\ y.serverIP # NoAddr THEN AddAllowedAddr(y) ELSE y

(* A mutated form: the check that openconnect is running is missing. *)
UpdateVPNConfigUpUnchecked(x, config) ==
  IF config = x.VPNConfig \/ x.ConnectionState = "Connected" THEN x
  ELSE [x EXCEPT !.setup = config, !.disableTrafPol = config.disable,
                 !.VPNConfig = config, !.ConnectionState = "Connected"]

(* updateVPNConfigUp with vpnsetup.Setup. *)
UpdateVPNConfigUp(x, config) ==
  IF config = x.VPNConfig \/ ~x.OCRunning \/ x.ConnectionState = "Connected" THEN x
  ELSE [x EXCEPT !.setup = config, !.disableTrafPol = config.disable,
                 !.VPNConfig = config, !.ConnectionState = "Connected"]

(* A mutated form: the configuration is forgotten but not torn down. *)
UpdateVPNConfigDownKeep(x) ==
  IF x.ConnectionState \in {"Connecting", "Connected"} THEN x
  ELSE [x EXCEPT !.VPNConfig = NoConfig]

(* A mutated form: a connection that is still up is torn down. *)
UpdateVPNConfigDownUnchecked(x) ==
  [x EXCEPT !.setup = IF x.VPNConfig # NoConfig THEN NoConfig ELSE @,
            !.VPNConfig = NoConfig]

(* A mutated form: the script's disconnect counts as the end of the        *)
(* process.                                                                *)
UpdateVPNConfigDownStops(x) ==
  IF x.ConnectionState \in {"Connecting", "Connected"} THEN x
  ELSE [x EXCEPT !.setup = IF x.VPNConfig # NoConfig THEN NoConfig ELSE @,
                 !.VPNConfig = NoConfig,
                 !.OCRunning = FALSE, !.ConnectionState = "Disconnected"]

(* updateVPNConfigDown with vpnsetup.Teardown. *)
UpdateVPNConfigDown(x) ==
  IF x.ConnectionState \in {"Connecting", "Connected"} THEN x
  ELSE [x EXCEPT !.setup = IF x.VPNConfig # NoConfig THEN NoConfig ELSE @,
                 !.VPNConfig = NoConfig]

HandleVPNAttemptReconnect(x) ==
  IF x.OCRunning /\ x.ConnectionState \in {"Connected", "Connecting"}
  THEN [x EXCEPT !.ConnectionState = "Connecting"]
  ELSE x

HandleVPNReconnect(x) ==
  IF x.OCRunning /\ x.ConnectionState = "Connecting"
  THEN [x EXCEPT !.ConnectionState = "Connected"]
  ELSE x

Reasons == {"pre-init", "connect", "disconnect", "attempt-reconnect", "reconnect"}

UpdateVPNConfig(x, reason, config) ==
  CASE reason = "pre-init"          -> x
    [] reason = "connect"           -> UpdateVPNConfigUp(x, config)
    [] reason = "disconnect"        -> UpdateVPNConfigDown(x)
    [] reason = "attempt-reconnect" -> HandleVPNAttemptReconnect(x)
    [] reason = "reconnect"         -> HandleVPNReconnect(x)

(* The events of the runner. *)
HandleRunnerConnect(x, p) == [x EXCEPT !.OCRunning = TRUE, !.OCPID = p]

(* A mutated form: the PID is not reset. *)
HandleRunnerDisconnectKeepPID(x) ==
  LET y == UpdateVPNConfigDown(
             [x EXCEPT !.OCRunning = FALSE, !.ConnectionState = "Disconnected"])
      a == IF y.trafpol # "nil" /\ y.serverIPAllowed
           THEN y.allowed \ {y.serverIP}
           ELSE y.allowed
  IN  [y EXCEPT !.allowed = a, !.serverIP = NoAddr, !.serverIPAllowed = FALSE]

(* A mutated form: the VPN configuration is left to the script. *)
HandleRunnerDisconnectNoTeardown(x) ==
  LET a == IF x.trafpol # "nil" /\ x.serverIPAllowed
           THEN x.allowed \ {x.serverIP}
           ELSE x.allowed
  IN  [x EXCEPT !.OCRunning = FALSE, !.OCPID = 0, !.ConnectionState = "Disconnected",
                !.allowed = a, !.serverIP = NoAddr, !.serverIPAllowed = FALSE]

HandleRunnerDisconnect(x) ==
  LET y == UpdateVPNConfigDown(
             [x EXCEPT !.OCRunning = FALSE, !.OCPID = 0,
                       !.ConnectionState = "Disconnected"])
      a == IF y.trafpol # "nil" /\ y.serverIPAllowed
           THEN y.allowed \ {y.serverIP}
           ELSE y.allowed
  IN  [y EXCEPT !.allowed = a, !.serverIP = NoAddr, !.serverIPAllowed = FALSE]

HandleRunnerEvent(x, connect, p) ==
  IF connect THEN HandleRunnerConnect(x, p) ELSE HandleRunnerDisconnect(x)

HandleProfileUpdate(x, profile, trafpolOK, tndOK) ==
  LET y == CheckTrafPol(
             StopTrafPol(StopTND([x EXCEPT !.alwaysOn = profile.alwaysOn,
                                           !.tndServers = profile.tnd])), trafpolOK)
  IN  IF y.trafpol = "failed" THEN y ELSE CheckTND(y, tndOK)

HandleCPDStatusUpdate(x, detected) ==
  [x EXCEPT !.CaptivePortal = IF detected THEN "Detected" ELSE "NotDetected"]

-----------------------------------------------------------------------------
(* The main loop.  Each case of its select is an action; cases whose       *)
(* handler returns early without an effect are left out.                   *)

(* start() returns and runs its deferred calls up to runner.Stop(): the    *)
(* socket server refuses requests from now on and the VPN configuration is *)
(* torn down while openconnect may still be running.                       *)
Return(x) ==
  /\ d' = HandleRunnerDisconnect(x)
  /\ dpc' = "waitRunner"
  /\ dcmd' = "none"

(* A handler ends: in an error when a component could not be started. *)
Handled(x) ==
  IF x.trafpol = "failed" \/ x.tnd = "failed"
  THEN Return(x)
  ELSE d' = x /\ dpc' = "select" /\ dcmd' = "none"

(* A handler blocks on runner.Connect() or runner.Disconnect(). *)
Send(x, cmd) ==
  /\ d' = x
  /\ dpc' = "sendCmd"
  /\ dcmd' = cmd

Disconnecting(x) == [x EXCEPT !.ConnectionState = "Disconnecting"]

ClientRequest(reason, config) ==
  /\ dpc = "select"
  /\ Handled(UpdateVPNConfig(d, reason, config))

(* The socket server gave up and closed its request channel: the nil       *)
(* request is dereferenced.                                                *)
NilRequest ==
  /\ dpc = "select"
  /\ dpc' = "panic"
  /\ UNCHANGED <<d, dcmd>>

(* A mutated form: a running connection does not refuse the next one. *)
DBusConnectUnchecked(host) ==
  /\ dpc = "select"
  /\ Send(ConnectVPN(d, host), "connect")

DBusConnect(host) ==
  /\ dpc = "select"
  /\ ~d.OCRunning
  /\ Send(ConnectVPN(d, host), "connect")

(* D-Bus Disconnect, and a resume event of the sleep monitor. *)
DBusDisconnect ==
  /\ dpc = "select"
  /\ d.OCRunning
  /\ Send(Disconnecting(d), "disconnect")

SleepMonResume == DBusDisconnect

TNDResult(trusted, ok) ==
  /\ dpc = "select"
  /\ d.tnd = "running"
  /\ LET x == [d EXCEPT !.TrustedNetwork = trusted]
     IN  IF trusted /\ x.OCRunning
         THEN Send(Disconnecting(x), "disconnectThenCheck")
         ELSE Handled(CheckTrafPol(x, ok))

RunnerEvent(connect, p) ==
  /\ dpc = "select"
  /\ Handled(HandleRunnerEvent(d, connect, p))

ProfileUpdate(profile, trafpolOK, tndOK) ==
  /\ dpc = "select"
  /\ Handled(HandleProfileUpdate(d, profile, trafpolOK, tndOK))

CPDStatusUpdate(detected) ==
  /\ dpc = "select"
  /\ d.trafpol = "running"
  /\ Handled(HandleCPDStatusUpdate(d, detected))

StopRequested ==
  /\ dpc = "select"
  /\ Return(d)

(* The runner received the command; handleTNDResult continues with         *)
(* checkTrafPol.                                                           *)
CommandSent(ok) ==
  /\ dpc = "sendCmd"
  /\ Handled(IF dcmd = "disconnectThenCheck" THEN CheckTrafPol(d, ok) ELSE d)

(* runner.Stop() returned, server.Stop() is called. *)
RunnerStopped ==
  /\ dpc = "waitRunner"
  /\ dpc' = "waitServer"
  /\ UNCHANGED <<d, dcmd>>

(* A mutated form: traffic policing is left active. *)
ServerStoppedKeepPolicing ==
  /\ dpc = "waitServer"
  /\ dpc' = "closed"
  /\ d' = StopTND(d)
  /\ UNCHANGED dcmd

(* server.Stop() returned; vpnsetup, TND, TrafPol, ProfileMon and SleepMon *)
(* are stopped.  TrafPol.Stop() waits for the main loop of traffic         *)
(* policing, which never ran if its Start() failed.                        *)
ServerStopped ==
  /\ dpc = "waitServer"
  /\ IF d.trafpol = "failed"
     THEN dpc' = "hung" /\ d' = StopTND(d)
     ELSE dpc' = "closed" /\ d' = StopTrafPol(StopTND(d))
  /\ UNCHANGED dcmd

-----------------------------------------------------------------------------
(* The daemon after Start(): initial status, checkTrafPol and checkTND     *)
(* succeeded.                                                              *)
StartedDaemon(profile) ==
  CheckTND(CheckTrafPol(
    [OCRunning       |-> FALSE,
     OCPID           |-> 0,
     ConnectionState |-> "Disconnected",
     TrustedNetwork  |-> FALSE,
     VPNConfig       |-> NoConfig,
     TrafPolState    |-> "Inactive",
     CaptivePortal   |-> "Unknown",
     serverIP        |-> NoAddr,
     serverIPAllowed |-> FALSE,
     disableTrafPol  |-> FALSE,
     alwaysOn        |-> profile.alwaysOn,
     tndServers      |-> profile.tnd,
     trafpol         |-> "nil",
     allowed         |-> {},
     tnd             |-> "nil",
     setup           |-> NoConfig], TRUE), TRUE)

DaemonInit ==
  /\ \E profile \in Profiles : d = StartedDaemon(profile)
  /\ dpc = "select"
  /\ dcmd = "none"

(* The daemon in the most general environment: any request, event and      *)
(* update at any time.                                                     *)
DaemonNext ==
  \/ \E reason \in Reasons, config \in Configs : ClientRequest(reason, config)
  \/ NilRequest
  \/ \E host \in Hosts \cup {NoAddr} : DBusConnect(host)
  \/ DBusDisconnect
  \/ SleepMonResume
  \/ \E trusted \in BOOLEAN, ok \in Outcomes("trafpol") : TNDResult(trusted, ok)
  \/ \E p \in OCPids : RunnerEvent(TRUE, p)
  \/ RunnerEvent(FALSE, 0)
  \/ \E profile \in Profiles, ok1 \in Outcomes("trafpol"), ok2 \in Outcomes("tnd") :
       ProfileUpdate(profile, ok1, ok2)
  \/ \E detected \in BOOLEAN : CPDStatusUpdate(detected)
  \/ StopRequested
  \/ \E ok \in Outcomes("trafpol") : CommandSent(ok)
  \/ RunnerStopped
  \/ ServerStopped

DaemonSpec == DaemonInit /\ [][DaemonNext]_daemonVars

-----------------------------------------------------------------------------
(* While traffic policing runs, it lets through exactly the configured     *)
(* hosts and the server of the current VPN connection: the server address  *)
(* is allowed however connects, disconnects, trusted network results and   *)
(* profile updates interleave, and it never outlives its connection        *)
(* (connectVPN, startTrafPol, stopTrafPol, handleRunnerDisconnect).        *)
PolicedAddrsExact ==
  d.trafpol = "running" => d.allowed = AllowedHosts \cup ({d.serverIP} \ {NoAddr})

(* Without openconnect there is nothing left of a VPN connection: no       *)
(* configuration, no server address, no PID (handleRunnerDisconnect, also  *)
(* when the daemon stops).                                                 *)
DisconnectedIsClean ==
  ~d.OCRunning => /\ d.ConnectionState = "Disconnected"
                  /\ d.OCPID = 0
                  /\ d.serverIP = NoAddr
                  /\ d.VPNConfig = NoConfig
                  /\ d.setup = NoConfig

(* The VPN configuration the status reports is the one VPN setup has       *)
(* active; in particular Teardown is called exactly when there is          *)
(* something to tear down (teardown without setup closes a nil channel).   *)
ReportedConfigIsActive == d.VPNConfig = d.setup

(* Between two handlers traffic policing only runs when the profile asks   *)
(* for it and the network is not trusted, and never in a failed state      *)
(* (checkTrafPol).                                                         *)
PolicingJustified ==
  dpc = "select" => /\ d.trafpol = "running" => d.alwaysOn /\ ~d.TrustedNetwork
                    /\ d.trafpol # "failed"

(* The D-Bus properties tell the truth about traffic policing.  Disabled   *)
(* and Inactive are only shown when it does not run, a captive portal only *)
(* while it does.                                                          *)
PolicingStatusTruthful ==
  /\ d.TrafPolState = "Active" <=> d.trafpol = "running"
  /\ d.CaptivePortal # "Unknown" <=> d.trafpol = "running"

(* A daemon that has stopped leaves nothing behind: no VPN configuration,  *)
(* no traffic policing (deferred calls of start()).                        *)
CleanShutdown ==
  /\ dpc \in {"waitRunner", "waitServer", "closed"} => d.setup = NoConfig
  /\ dpc = "closed" => d.trafpol = "nil" /\ d.tnd = "nil" /\ d.allowed = {}

=============================================================================
