---------------------------- MODULE DaemonProofs ----------------------------
(***************************************************************************)
(* Proofs about the daemon's main goroutine in its most general            *)
(* environment: any request, event and update at any time.  The handlers   *)
(* are operators on the record of the daemon's fields, so each has its     *)
(* lemma; the invariant of the specification follows from them.            *)
(***************************************************************************)
EXTENDS Daemon, TLAPS

(* Traffic policing and its allowed addresses.  serverIPAllowed, on which  *)
(* handleRunnerDisconnect relies to take back the server's address, is set *)
(* exactly when that address is an addition of the daemon's own.           *)
Policed(x) ==
  /\ x.trafpol = "nil" => x.allowed = {}
  /\ x.trafpol = "running" => x.allowed = AllowedHosts \cup ({x.serverIP} \ {NoAddr})
  /\ x.serverIPAllowed <=> /\ x.trafpol = "running"
                           /\ x.serverIP # NoAddr
                           /\ x.serverIP \notin AllowedHosts
  /\ x.TrafPolState = "Active" <=> x.trafpol = "running"
  /\ x.CaptivePortal # "Unknown" <=> x.trafpol = "running"

(* The VPN connection and its configuration. *)
Clean(x) ==
  /\ ~x.OCRunning => /\ x.ConnectionState = "Disconnected"
                     /\ x.OCPID = 0
                     /\ x.serverIP = NoAddr
                     /\ x.VPNConfig = NoConfig
  /\ x.VPNConfig = x.setup

Good(x) == x \in DaemonState /\ Policed(x) /\ Clean(x)

Started(x) == x.trafpol # "failed" /\ x.tnd # "failed"

Justified(x) == x.trafpol = "running" => x.alwaysOn /\ ~x.TrustedNetwork

(* The inductive invariant. *)
DaemonInv ==
  /\ Good(d)
  /\ dpc \in {"select", "sendCmd", "waitRunner", "waitServer", "closed", "hung", "panic"}
  /\ dcmd \in {"none", "connect", "disconnect", "disconnectThenCheck"}
  /\ dpc \in {"select", "sendCmd"} => Started(d)
  /\ dpc = "select" \/ (dpc = "sendCmd" /\ dcmd # "disconnectThenCheck") => Justified(d)
  /\ dpc \in {"waitRunner", "waitServer", "closed", "hung"} => ~d.OCRunning
  /\ dpc = "closed" => d.trafpol = "nil" /\ d.tnd = "nil"

-----------------------------------------------------------------------------
(* Stopping traffic policing. *)
LEMMA StopTrafPolLemma ==
  ASSUME NEW x, Good(x)
  PROVE  /\ Good(StopTrafPol(x))
         /\ StopTrafPol(x).trafpol = "nil"
         /\ StopTrafPol(x).tnd = x.tnd
         /\ StopTrafPol(x).OCRunning = x.OCRunning
  <1>1. CASE x.trafpol = "nil"
    BY <1>1 DEF StopTrafPol
  <1>2. CASE x.trafpol # "nil"
    <2> DEFINE s == IF x.disableTrafPol THEN "Disabled" ELSE "Inactive"
               y == [x EXCEPT !.trafpol = "nil", !.allowed = {},
                              !.serverIPAllowed = FALSE, !.TrafPolState = s,
                              !.CaptivePortal = "Unknown"]
    <2>1. s \in {"Disabled", "Inactive"}
      OBVIOUS
    <2> HIDE DEF s
    <2>2. y \in DaemonState
      BY <2>1, ZenonT(40) DEF DaemonState, Good
    <2>3. Policed(y)
      BY <2>1 DEF Policed, Good, DaemonState
    <2>4. Clean(y)
      BY DEF Clean, Good, DaemonState
    <2>5. y.trafpol = "nil" /\ y.tnd = x.tnd /\ y.OCRunning = x.OCRunning
      BY DEF Good, DaemonState
    <2>6. QED
      BY <2>2, <2>3, <2>4, <2>5, <1>2 DEF Good, StopTrafPol, s
  <1>3. QED
    BY <1>1, <1>2

(* Allowing the server's address while policing runs. *)
LEMMA AddAllowedAddrLemma ==
  ASSUME NEW x \in DaemonState, Clean(x),
         x.trafpol = "running", x.serverIP \in Hosts, x.allowed = AllowedHosts,
         x.TrafPolState = "Active", x.CaptivePortal # "Unknown"
  PROVE  /\ Good(AddAllowedAddr(x))
         /\ AddAllowedAddr(x).trafpol = x.trafpol
         /\ AddAllowedAddr(x).tnd = x.tnd
         /\ AddAllowedAddr(x).alwaysOn = x.alwaysOn
         /\ AddAllowedAddr(x).TrustedNetwork = x.TrustedNetwork
  <1> DEFINE s == x.serverIP \notin x.allowed
             a == x.allowed \cup {x.serverIP}
             y == [x EXCEPT !.serverIPAllowed = s, !.allowed = a]
  <1>1. s \in BOOLEAN
    BY Zenon
  <1>2. a \in SUBSET Hosts
    BY DEF DaemonState
  <1> HIDE DEF s, a
  <1>3. y \in DaemonState
    BY <1>1, <1>2 DEF DaemonState
  <1>4. /\ y.serverIPAllowed = s /\ y.allowed = a
        /\ y.trafpol = x.trafpol /\ y.serverIP = x.serverIP
        /\ y.TrafPolState = x.TrafPolState /\ y.CaptivePortal = x.CaptivePortal
        /\ y.tnd = x.tnd /\ y.alwaysOn = x.alwaysOn
        /\ y.TrustedNetwork = x.TrustedNetwork
    BY DEF DaemonState
  <1>5. Clean(y)
    BY DEF Clean, DaemonState
  <1>6. AddAllowedAddr(x) = y
    BY DEF AddAllowedAddr, a, s, DaemonState
  <1> HIDE DEF y
  <1>7. Policed(y)
    <2>1. s <=> x.serverIP \notin AllowedHosts
      BY DEF s
    <2>2. y.allowed = AllowedHosts \cup ({y.serverIP} \ {NoAddr})
      BY <1>4, DaemonAssumption DEF a
    <2>3. QED
      BY <1>4, <2>1, <2>2, DaemonAssumption DEF Policed
  <1>8. QED
    BY <1>3, <1>4, <1>5, <1>6, <1>7 DEF Good

(* Starting traffic policing, which may fail, from a state without it. *)
LEMMA StartTrafPolLemma ==
  ASSUME NEW x, NEW ok \in BOOLEAN, Good(x), x.trafpol = "nil"
  PROVE  /\ Good(StartTrafPol(x, ok))
         /\ StartTrafPol(x, ok).trafpol # "nil"
         /\ StartTrafPol(x, ok).tnd = x.tnd
         /\ StartTrafPol(x, ok).alwaysOn = x.alwaysOn
         /\ StartTrafPol(x, ok).TrustedNetwork = x.TrustedNetwork
  <1> DEFINE r == IF ok THEN "running" ELSE "failed"
             t == [x EXCEPT !.trafpol = r, !.allowed = AllowedHosts]
             y == [t EXCEPT !.TrafPolState = "Active", !.CaptivePortal = "NotDetected"]
  <1>1. r \in {"running", "failed"} /\ (ok <=> r = "running")
    OBVIOUS
  <1>2. StartTrafPol(x, ok) = IF ~ok THEN t
                              ELSE IF x.serverIP # NoAddr THEN AddAllowedAddr(y) ELSE y
    BY DEF StartTrafPol
  <1> HIDE DEF r
  <1>3. t \in DaemonState
    BY <1>1, DaemonAssumption DEF DaemonState, Good
  <1>4. y \in DaemonState
    BY <1>3 DEF DaemonState
  <1>5. Clean(t) /\ Clean(y)
    BY <1>1 DEF Clean, Good, DaemonState
  <1>6. /\ t.trafpol = r /\ t.allowed = AllowedHosts /\ t.serverIP = x.serverIP
        /\ t.serverIPAllowed = x.serverIPAllowed /\ t.tnd = x.tnd
        /\ t.TrafPolState = x.TrafPolState /\ t.CaptivePortal = x.CaptivePortal
        /\ t.alwaysOn = x.alwaysOn /\ t.TrustedNetwork = x.TrustedNetwork
    BY <1>1 DEF Good, DaemonState
  <1>7. /\ y.trafpol = r /\ y.allowed = AllowedHosts /\ y.serverIP = x.serverIP
        /\ y.serverIPAllowed = x.serverIPAllowed /\ y.tnd = x.tnd
        /\ y.TrafPolState = "Active" /\ y.CaptivePortal = "NotDetected"
        /\ y.alwaysOn = x.alwaysOn /\ y.TrustedNetwork = x.TrustedNetwork
    BY <1>3, <1>6 DEF DaemonState
  <1> HIDE DEF t, y
  <1>8. CASE ~ok
    <2>1. Policed(t)
      BY <1>1, <1>6, <1>8 DEF Policed, Good
    <2>2. QED
      BY <1>1, <1>2, <1>3, <1>5, <1>6, <1>8, <2>1 DEF Good
  <1>9. CASE ok /\ x.serverIP # NoAddr
    <2>1. x.serverIP \in Hosts
      BY <1>9 DEF Good, DaemonState
    <2>2. QED
      BY <1>1, <1>2, <1>4, <1>5, <1>7, <1>9, <2>1, AddAllowedAddrLemma
  <1>10. CASE ok /\ x.serverIP = NoAddr
    <2>1. Policed(y)
      BY <1>1, <1>7, <1>10 DEF Policed, Good
    <2>2. QED
      BY <1>1, <1>2, <1>4, <1>5, <1>7, <1>10, <2>1 DEF Good
  <1>11. QED
    BY <1>8, <1>9, <1>10

(* checkTrafPol ends with policing that is justified, stopped or failed. *)
LEMMA CheckTrafPolLemma ==
  ASSUME NEW x, NEW ok \in BOOLEAN, Good(x)
  PROVE  /\ Good(CheckTrafPol(x, ok))
         /\ Justified(CheckTrafPol(x, ok))
         /\ CheckTrafPol(x, ok).tnd = x.tnd
  <1>1. CASE x.disableTrafPol \/ ~x.alwaysOn \/ x.TrustedNetwork
    <2>1. CheckTrafPol(x, ok) = StopTrafPol(x)
      BY <1>1 DEF CheckTrafPol
    <2>2. QED
      BY <2>1, StopTrafPolLemma DEF Justified
  <1>2. CASE ~(x.disableTrafPol \/ ~x.alwaysOn \/ x.TrustedNetwork)
    <2>1. CheckTrafPol(x, ok) = StartTrafPol(x, ok)
      BY <1>2 DEF CheckTrafPol
    <2>2. CASE x.trafpol # "nil"
      BY <1>2, <2>1, <2>2 DEF StartTrafPol, Justified
    <2>3. CASE x.trafpol = "nil"
      BY <1>2, <2>1, <2>3, StartTrafPolLemma DEF Justified
    <2>4. QED
      BY <2>2, <2>3
  <1>3. QED
    BY <1>1, <1>2

(* Trusted network detection touches nothing but its own state. *)
LEMMA SetTNDLemma ==
  ASSUME NEW x, NEW t \in {"nil", "running", "failed"}, Good(x)
  PROVE  /\ Good([x EXCEPT !.tnd = t])
         /\ [x EXCEPT !.tnd = t].tnd = t
         /\ [x EXCEPT !.tnd = t].trafpol = x.trafpol
         /\ [x EXCEPT !.tnd = t].OCRunning = x.OCRunning
         /\ Justified(x) => Justified([x EXCEPT !.tnd = t])
  <1> DEFINE y == [x EXCEPT !.tnd = t]
  <1>1. y \in DaemonState
    BY DEF Good, DaemonState
  <1>2. Policed(y)
    BY DEF Good, DaemonState, Policed
  <1>3. Clean(y)
    BY DEF Good, DaemonState, Clean
  <1>4. y.tnd = t /\ y.trafpol = x.trafpol /\ y.OCRunning = x.OCRunning
    BY DEF Good, DaemonState
  <1>5. Justified(x) => Justified(y)
    BY DEF Good, DaemonState, Justified
  <1>6. QED
    BY <1>1, <1>2, <1>3, <1>4, <1>5 DEF Good

(* checkTND does not touch traffic policing. *)
LEMMA CheckTNDLemma ==
  ASSUME NEW x, NEW ok \in BOOLEAN, Good(x)
  PROVE  /\ Good(CheckTND(x, ok))
         /\ CheckTND(x, ok).trafpol = x.trafpol
         /\ Justified(x) => Justified(CheckTND(x, ok))
  <1> DEFINE R(y) == /\ Good(y)
                     /\ y.trafpol = x.trafpol
                     /\ Justified(x) => Justified(y)
             t == IF ok THEN "running" ELSE "failed"
  <1>1. t \in {"nil", "running", "failed"}
    OBVIOUS
  <1>2. \/ CheckTND(x, ok) = [x EXCEPT !.tnd = "nil"]
        \/ CheckTND(x, ok) = x
        \/ CheckTND(x, ok) = [x EXCEPT !.tnd = t]
    BY DEF CheckTND, StopTND
  <1> HIDE DEF t
  <1>3. R([x EXCEPT !.tnd = "nil"])
    BY SetTNDLemma
  <1>4. R(x)
    OBVIOUS
  <1>5. R([x EXCEPT !.tnd = t])
    BY <1>1, SetTNDLemma
  <1> HIDE DEF R
  <1>6. R(CheckTND(x, ok))
    BY <1>2, <1>3, <1>4, <1>5
  <1>7. QED
    BY <1>6 DEF R

(* connectVPN: the server of the new connection is allowed at once. *)
LEMMA ConnectVPNLemma ==
  ASSUME NEW x, NEW host \in Hosts \cup {NoAddr}, Good(x), Started(x), Justified(x),
         ~x.OCRunning
  PROVE  /\ Good(ConnectVPN(x, host))
         /\ Started(ConnectVPN(x, host))
         /\ Justified(ConnectVPN(x, host))
  <1> DEFINE h == IF host # NoAddr THEN host ELSE x.serverIP
             y == [x EXCEPT !.serverIP = h, !.OCRunning = TRUE,
                            !.ConnectionState = "Connecting"]
  <1>1. h = host
    BY DEF Good, Clean
  <1>2. ConnectVPN(x, host) = IF y.trafpol # "nil" /\ y.serverIP # NoAddr
                              THEN AddAllowedAddr(y) ELSE y
    BY DEF ConnectVPN
  <1>3. h \in Hosts \cup {NoAddr}
    BY <1>1
  <1> HIDE DEF h
  <1>4. y \in DaemonState
    BY <1>3 DEF DaemonState, Good
  <1>5. /\ y.serverIP = h /\ y.OCRunning = TRUE /\ y.trafpol = x.trafpol
        /\ y.allowed = x.allowed /\ y.serverIPAllowed = x.serverIPAllowed
        /\ y.TrafPolState = x.TrafPolState /\ y.CaptivePortal = x.CaptivePortal
        /\ y.VPNConfig = x.VPNConfig /\ y.setup = x.setup /\ y.tnd = x.tnd
        /\ y.alwaysOn = x.alwaysOn /\ y.TrustedNetwork = x.TrustedNetwork
    BY DEF DaemonState, Good
  <1> HIDE DEF y
  <1>6. Clean(y)
    BY <1>5 DEF Clean, Good
  <1>7. x.serverIP = NoAddr
    BY DEF Good, Clean
  <1>8. CASE y.trafpol # "nil" /\ y.serverIP # NoAddr
    <2>1. y.trafpol = "running"
      BY <1>5, <1>8 DEF Started, Good, DaemonState
    <2>2. y.allowed = AllowedHosts /\ y.TrafPolState = "Active" /\ y.CaptivePortal # "Unknown"
      BY <1>5, <1>7, <2>1 DEF Good, Policed
    <2>3. y.serverIP \in Hosts
      BY <1>3, <1>5, <1>8
    <2>4. QED
      BY <1>2, <1>4, <1>5, <1>6, <1>8, <2>1, <2>2, <2>3, AddAllowedAddrLemma
      DEF Started, Justified
  <1>9. CASE ~(y.trafpol # "nil" /\ y.serverIP # NoAddr)
    <2>1. Policed(y)
      <3>1. CASE y.trafpol = "nil"
        BY <1>5, <1>7, <3>1 DEF Good, Policed
      <3>2. CASE y.serverIP = NoAddr
        BY <1>5, <1>7, <3>2 DEF Good, Policed
      <3>3. QED
        BY <1>9, <3>1, <3>2
    <2>2. QED
      BY <1>2, <1>4, <1>5, <1>6, <1>9, <2>1 DEF Good, Started, Justified
  <1>10. QED
    BY <1>8, <1>9

-----------------------------------------------------------------------------
(* What the handlers of requests and events leave alone. *)
SamePolicing(x, y) ==
  /\ y.trafpol = x.trafpol /\ y.allowed = x.allowed /\ y.serverIP = x.serverIP
  /\ y.serverIPAllowed = x.serverIPAllowed /\ y.TrafPolState = x.TrafPolState
  /\ y.CaptivePortal = x.CaptivePortal /\ y.tnd = x.tnd
  /\ y.alwaysOn = x.alwaysOn /\ y.TrustedNetwork = x.TrustedNetwork

(* Handlers that agree on the traffic policing fields keep its invariants. *)
LEMMA SamePolicingLemma ==
  ASSUME NEW x, NEW y, SamePolicing(x, y)
  PROVE  /\ Policed(x) => Policed(y)
         /\ Started(x) => Started(y)
         /\ Justified(x) => Justified(y)
  BY DEF SamePolicing, Policed, Started, Justified

(* updateVPNConfigUp and its Setup(). *)
LEMMA UpdateVPNConfigUpLemma ==
  ASSUME NEW x, NEW config \in Configs, Good(x)
  PROVE  Good(UpdateVPNConfigUp(x, config)) /\ SamePolicing(x, UpdateVPNConfigUp(x, config))
  <1> DEFINE y == [x EXCEPT !.setup = config, !.disableTrafPol = config.disable,
                            !.VPNConfig = config, !.ConnectionState = "Connected"]
  <1>1. CASE config = x.VPNConfig \/ ~x.OCRunning \/ x.ConnectionState = "Connected"
    BY <1>1 DEF UpdateVPNConfigUp, SamePolicing
  <1>2. CASE ~(config = x.VPNConfig \/ ~x.OCRunning \/ x.ConnectionState = "Connected")
    <2>1. UpdateVPNConfigUp(x, config) = y
      BY <1>2 DEF UpdateVPNConfigUp
    <2>2. config.disable \in BOOLEAN
      BY DEF Configs
    <2>3. y \in DaemonState
      BY <2>2 DEF Good, DaemonState
    <2>4. SamePolicing(x, y)
      BY DEF SamePolicing, Good, DaemonState
    <2>5. Clean(y)
      BY <1>2 DEF Clean, Good, DaemonState
    <2>6. QED
      BY <2>1, <2>3, <2>4, <2>5, SamePolicingLemma DEF Good
  <1>3. QED
    BY <1>1, <1>2

(* updateVPNConfigDown and its Teardown(). *)
LEMMA UpdateVPNConfigDownLemma ==
  ASSUME NEW x \in DaemonState, x.VPNConfig = x.setup
  PROVE  LET y == UpdateVPNConfigDown(x)
         IN  /\ y \in DaemonState
             /\ SamePolicing(x, y)
             /\ y.VPNConfig = y.setup
             /\ x.ConnectionState \in {"Disconnected", "Disconnecting"} => y.VPNConfig = NoConfig
             /\ x.VPNConfig = NoConfig => y.VPNConfig = NoConfig
             /\ y.OCRunning = x.OCRunning /\ y.OCPID = x.OCPID
             /\ y.ConnectionState = x.ConnectionState
  <1> DEFINE y == [x EXCEPT !.setup = NoConfig, !.VPNConfig = NoConfig]
  <1>1. CASE x.ConnectionState \in {"Connecting", "Connected"}
    BY <1>1 DEF UpdateVPNConfigDown, SamePolicing
  <1>2. CASE x.ConnectionState \notin {"Connecting", "Connected"}
    <2>1. UpdateVPNConfigDown(x) = y
      BY <1>2 DEF UpdateVPNConfigDown, DaemonState
    <2>2. y \in DaemonState
      BY DEF DaemonState
    <2>3. SamePolicing(x, y)
      BY DEF SamePolicing, DaemonState
    <2>4. /\ y.VPNConfig = NoConfig /\ y.setup = NoConfig
          /\ y.OCRunning = x.OCRunning /\ y.OCPID = x.OCPID
          /\ y.ConnectionState = x.ConnectionState
      BY DEF DaemonState
    <2>5. QED
      BY <2>1, <2>2, <2>3, <2>4
  <1>3. QED
    BY <1>1, <1>2

(* The handlers that only move the connection state of a running VPN. *)
LEMMA SetConnectionStateLemma ==
  ASSUME NEW x, NEW s \in {"Disconnected", "Connecting", "Connected", "Disconnecting"},
         Good(x), x.OCRunning
  PROVE  /\ Good([x EXCEPT !.ConnectionState = s])
         /\ SamePolicing(x, [x EXCEPT !.ConnectionState = s])
  <1> DEFINE y == [x EXCEPT !.ConnectionState = s]
  <1>1. y \in DaemonState
    BY DEF Good, DaemonState
  <1>2. SamePolicing(x, y)
    BY DEF SamePolicing, Good, DaemonState
  <1>3. Clean(y)
    BY DEF Clean, Good, DaemonState
  <1>4. QED
    BY <1>1, <1>2, <1>3, SamePolicingLemma DEF Good

(* Every request of a vpncscript, at any time. *)
LEMMA UpdateVPNConfigLemma ==
  ASSUME NEW x, NEW reason \in Reasons, NEW config \in Configs, Good(x)
  PROVE  /\ Good(UpdateVPNConfig(x, reason, config))
         /\ SamePolicing(x, UpdateVPNConfig(x, reason, config))
  <1>1. CASE reason = "pre-init"
    BY <1>1 DEF UpdateVPNConfig, SamePolicing
  <1>2. CASE reason = "connect"
    <2>1. UpdateVPNConfig(x, reason, config) = UpdateVPNConfigUp(x, config)
      BY <1>2 DEF UpdateVPNConfig
    <2>2. QED
      BY <2>1, UpdateVPNConfigUpLemma
  <1>3. CASE reason = "disconnect"
    <2>1. UpdateVPNConfig(x, reason, config) = UpdateVPNConfigDown(x)
      BY <1>3 DEF UpdateVPNConfig
    <2> DEFINE y == UpdateVPNConfigDown(x)
    <2>2. /\ y \in DaemonState /\ SamePolicing(x, y) /\ y.VPNConfig = y.setup
          /\ x.VPNConfig = NoConfig => y.VPNConfig = NoConfig
          /\ y.OCRunning = x.OCRunning /\ y.OCPID = x.OCPID
          /\ y.ConnectionState = x.ConnectionState
      BY UpdateVPNConfigDownLemma DEF Good, Clean
    <2> HIDE DEF y
    <2>3. Clean(y)
      BY <2>2 DEF Clean, Good, SamePolicing
    <2>4. QED
      BY <2>1, <2>2, <2>3, SamePolicingLemma DEF Good, y
  <1>4. CASE reason = "attempt-reconnect"
    <2>1. UpdateVPNConfig(x, reason, config) = HandleVPNAttemptReconnect(x)
      BY <1>4 DEF UpdateVPNConfig
    <2>2. CASE x.OCRunning /\ x.ConnectionState \in {"Connected", "Connecting"}
      BY <2>1, <2>2, SetConnectionStateLemma DEF HandleVPNAttemptReconnect
    <2>3. CASE ~(x.OCRunning /\ x.ConnectionState \in {"Connected", "Connecting"})
      BY <2>1, <2>3 DEF HandleVPNAttemptReconnect, SamePolicing
    <2>4. QED
      BY <2>2, <2>3
  <1>5. CASE reason = "reconnect"
    <2>1. UpdateVPNConfig(x, reason, config) = HandleVPNReconnect(x)
      BY <1>5 DEF UpdateVPNConfig
    <2>2. CASE x.OCRunning /\ x.ConnectionState = "Connecting"
      BY <2>1, <2>2, SetConnectionStateLemma DEF HandleVPNReconnect
    <2>3. CASE ~(x.OCRunning /\ x.ConnectionState = "Connecting")
      BY <2>1, <2>3 DEF HandleVPNReconnect, SamePolicing
    <2>4. QED
      BY <2>2, <2>3
  <1>6. QED
    BY <1>1, <1>2, <1>3, <1>4, <1>5 DEF Reasons

-----------------------------------------------------------------------------
(* handleRunnerDisconnect, also called when the daemon stops: takes back   *)
(* the server's address and leaves no VPN connection behind.               *)
LEMMA HandleRunnerDisconnectLemma ==
  ASSUME NEW x, Good(x)
  PROVE  LET z == HandleRunnerDisconnect(x)
         IN  /\ Good(z) /\ ~z.OCRunning
             /\ Started(x) => Started(z)
             /\ Justified(x) => Justified(z)
  <1> DEFINE w == [x EXCEPT !.OCRunning = FALSE, !.OCPID = 0,
                            !.ConnectionState = "Disconnected"]
             y == UpdateVPNConfigDown(w)
             a == IF y.trafpol # "nil" /\ y.serverIPAllowed
                  THEN y.allowed \ {y.serverIP} ELSE y.allowed
             z == [y EXCEPT !.allowed = a, !.serverIP = NoAddr, !.serverIPAllowed = FALSE]
  <1>1. HandleRunnerDisconnect(x) = z
    BY DEF HandleRunnerDisconnect
  <1>2. w \in DaemonState
    BY DEF Good, DaemonState
  <1>3. /\ w.VPNConfig = w.setup /\ ~w.OCRunning /\ w.OCPID = 0
        /\ w.ConnectionState = "Disconnected"
    BY DEF Good, DaemonState, Clean
  <1>4. SamePolicing(x, w)
    BY DEF SamePolicing, Good, DaemonState
  <1> HIDE DEF w
  <1>5. /\ y \in DaemonState /\ SamePolicing(w, y) /\ y.VPNConfig = y.setup
        /\ y.VPNConfig = NoConfig /\ ~y.OCRunning /\ y.OCPID = 0
        /\ y.ConnectionState = "Disconnected"
    BY <1>2, <1>3, UpdateVPNConfigDownLemma
  <1> HIDE DEF y
  <1>6. Policed(y) /\ (Started(x) => Started(y)) /\ (Justified(x) => Justified(y))
    BY <1>4, <1>5, SamePolicingLemma DEF Good
  <1>7. a \in SUBSET Hosts
    BY <1>5 DEF DaemonState
  <1>8. y.trafpol = "nil" => a = {}
    BY <1>6 DEF Policed
  <1>9. y.trafpol = "running" => a = AllowedHosts
    <2>1. CASE y.serverIPAllowed
      BY <1>5, <1>6, <2>1 DEF Policed, DaemonState
    <2>2. CASE ~y.serverIPAllowed
      BY <1>5, <1>6, <2>2 DEF Policed, DaemonState
    <2>3. QED
      BY <2>1, <2>2
  <1> HIDE DEF a
  <1>10. z \in DaemonState
    BY <1>5, <1>7 DEF DaemonState
  <1>11. /\ z.allowed = a /\ z.serverIP = NoAddr /\ z.serverIPAllowed = FALSE
         /\ z.trafpol = y.trafpol /\ z.TrafPolState = y.TrafPolState
         /\ z.CaptivePortal = y.CaptivePortal /\ z.tnd = y.tnd
         /\ z.alwaysOn = y.alwaysOn /\ z.TrustedNetwork = y.TrustedNetwork
         /\ z.VPNConfig = y.VPNConfig /\ z.setup = y.setup /\ z.OCRunning = y.OCRunning
         /\ z.OCPID = y.OCPID /\ z.ConnectionState = y.ConnectionState
    BY <1>5 DEF DaemonState
  <1> HIDE DEF z
  <1>12. Policed(z)
    BY <1>6, <1>8, <1>9, <1>11 DEF Policed
  <1>13. Clean(z)
    BY <1>5, <1>11 DEF Clean
  <1>14. QED
    BY <1>1, <1>5, <1>6, <1>10, <1>11, <1>12, <1>13 DEF Good, Started, Justified

(* The connect event of the runner. *)
LEMMA HandleRunnerConnectLemma ==
  ASSUME NEW x, NEW p \in OCPids, Good(x)
  PROVE  /\ Good(HandleRunnerConnect(x, p))
         /\ SamePolicing(x, HandleRunnerConnect(x, p))
  <1> DEFINE y == [x EXCEPT !.OCRunning = TRUE, !.OCPID = p]
  <1>1. y \in DaemonState
    BY DEF Good, DaemonState
  <1>2. SamePolicing(x, y)
    BY DEF SamePolicing, Good, DaemonState
  <1>3. Clean(y)
    BY DEF Clean, Good, DaemonState
  <1>4. QED
    BY <1>1, <1>2, <1>3, SamePolicingLemma DEF Good, HandleRunnerConnect

(* A new profile restarts traffic policing and trusted network detection. *)
LEMMA HandleProfileUpdateLemma ==
  ASSUME NEW x, NEW profile \in Profiles, NEW ok1 \in BOOLEAN, NEW ok2 \in BOOLEAN,
         Good(x)
  PROVE  /\ Good(HandleProfileUpdate(x, profile, ok1, ok2))
         /\ Justified(HandleProfileUpdate(x, profile, ok1, ok2))
  <1> DEFINE w == [x EXCEPT !.alwaysOn = profile.alwaysOn, !.tndServers = profile.tnd]
             v == StopTrafPol(StopTND(w))
             y == CheckTrafPol(v, ok1)
  <1>0. profile.alwaysOn \in BOOLEAN /\ profile.tnd \in BOOLEAN
    BY DaemonAssumption
  <1>1. w \in DaemonState
    BY <1>0 DEF Good, DaemonState
  <1>2. Policed(w) /\ Clean(w)
    BY DEF Good, DaemonState, Policed, Clean
  <1>3. Good(w)
    BY <1>1, <1>2 DEF Good
  <1> HIDE DEF w
  <1>4. Good(StopTND(w))
    BY <1>3, SetTNDLemma DEF StopTND
  <1>5. Good(v)
    BY <1>4, StopTrafPolLemma
  <1> HIDE DEF v
  <1>6. Good(y) /\ Justified(y)
    BY <1>5, CheckTrafPolLemma
  <1>7. HandleProfileUpdate(x, profile, ok1, ok2) =
          IF y.trafpol = "failed" THEN y ELSE CheckTND(y, ok2)
    BY DEF HandleProfileUpdate, y, v, w
  <1> HIDE DEF y
  <1>8. Good(CheckTND(y, ok2)) /\ Justified(CheckTND(y, ok2))
    BY <1>6, CheckTNDLemma
  <1>9. QED
    BY <1>6, <1>7, <1>8

(* A result of captive portal detection, which runs with traffic policing. *)
LEMMA HandleCPDStatusUpdateLemma ==
  ASSUME NEW x, NEW detected \in BOOLEAN, Good(x), x.trafpol = "running"
  PROVE  LET y == HandleCPDStatusUpdate(x, detected)
         IN  Good(y) /\ (Started(x) => Started(y)) /\ (Justified(x) => Justified(y))
  <1> DEFINE c == IF detected THEN "Detected" ELSE "NotDetected"
             y == [x EXCEPT !.CaptivePortal = c]
  <1>1. c \in {"NotDetected", "Detected"}
    OBVIOUS
  <1>2. HandleCPDStatusUpdate(x, detected) = y
    BY DEF HandleCPDStatusUpdate
  <1> HIDE DEF c
  <1>3. y \in DaemonState
    BY <1>1 DEF Good, DaemonState
  <1>4. Policed(y) /\ Clean(y)
    BY <1>1 DEF Good, DaemonState, Policed, Clean
  <1>5. (Started(x) => Started(y)) /\ (Justified(x) => Justified(y))
    BY DEF Good, DaemonState, Started, Justified
  <1>6. QED
    BY <1>2, <1>3, <1>4, <1>5 DEF Good

(* A new result of trusted network detection is stored. *)
LEMMA SetTrustedNetworkLemma ==
  ASSUME NEW x, NEW trusted \in BOOLEAN, Good(x)
  PROVE  /\ Good([x EXCEPT !.TrustedNetwork = trusted])
         /\ Started(x) => Started([x EXCEPT !.TrustedNetwork = trusted])
         /\ [x EXCEPT !.TrustedNetwork = trusted].OCRunning = x.OCRunning
  <1> DEFINE y == [x EXCEPT !.TrustedNetwork = trusted]
  <1>1. y \in DaemonState
    BY DEF Good, DaemonState
  <1>2. Policed(y) /\ Clean(y)
    BY DEF Good, DaemonState, Policed, Clean
  <1>3. y.OCRunning = x.OCRunning /\ (Started(x) => Started(y))
    BY DEF Good, DaemonState, Started
  <1>4. QED
    BY <1>1, <1>2, <1>3 DEF Good

-----------------------------------------------------------------------------
(* The handlers that leave the VPN connection alone. *)
SameVPN(x, y) ==
  /\ y.OCRunning = x.OCRunning /\ y.OCPID = x.OCPID
  /\ y.ConnectionState = x.ConnectionState
  /\ y.VPNConfig = x.VPNConfig /\ y.setup = x.setup

(* Starting and stopping traffic policing touches no field of the VPN connection. *)
LEMMA SameVPNTrafPol ==
  ASSUME NEW x, NEW ok \in BOOLEAN, Good(x)
  PROVE  /\ SameVPN(x, StopTrafPol(x))
         /\ SameVPN(x, CheckTrafPol(x, ok))
         /\ CheckTrafPol(x, ok).tndServers = x.tndServers
  <1> DEFINE Same(u, v) == SameVPN(u, v) /\ v.tndServers = u.tndServers
  <1>1. Same(x, StopTrafPol(x))
    <2>1. CASE x.trafpol = "nil"
      BY <2>1 DEF StopTrafPol, SameVPN
    <2>2. CASE x.trafpol # "nil"
      BY <2>2 DEF StopTrafPol, SameVPN, Good, DaemonState
    <2>3. QED
      BY <2>1, <2>2
  <1>2. ASSUME NEW y \in DaemonState PROVE Same(y, AddAllowedAddr(y))
    BY DEF AddAllowedAddr, SameVPN, DaemonState
  <1>3. Same(x, StartTrafPol(x, ok))
    <2> DEFINE r == IF ok THEN "running" ELSE "failed"
               t == [x EXCEPT !.trafpol = r, !.allowed = AllowedHosts]
               y == [t EXCEPT !.TrafPolState = "Active", !.CaptivePortal = "NotDetected"]
    <2>1. r \in {"running", "failed"}
      OBVIOUS
    <2>2. StartTrafPol(x, ok) \in {x, t, y, AddAllowedAddr(y)}
      BY DEF StartTrafPol
    <2> HIDE DEF r
    <2>3. t \in DaemonState /\ Same(x, t)
      BY <2>1, DaemonAssumption DEF Good, DaemonState, SameVPN
    <2> HIDE DEF t
    <2>4. y \in DaemonState /\ Same(t, y)
      BY <2>3 DEF DaemonState, SameVPN
    <2> HIDE DEF y
    <2>5. QED
      BY <2>2, <2>3, <2>4, <1>2 DEF SameVPN
  <1>4. QED
    BY <1>1, <1>3 DEF CheckTrafPol

(* Nor does starting or stopping trusted network detection. *)
LEMMA SameVPNTND ==
  ASSUME NEW x, NEW ok \in BOOLEAN, Good(x)
  PROVE  SameVPN(x, StopTND(x)) /\ SameVPN(x, CheckTND(x, ok))
  BY DEF StopTND, CheckTND, SameVPN, Good, DaemonState

(* Nor does a profile update, which restarts both. *)
LEMMA SameVPNProfileUpdate ==
  ASSUME NEW x, NEW profile \in Profiles, NEW ok1 \in BOOLEAN, NEW ok2 \in BOOLEAN, Good(x)
  PROVE  SameVPN(x, HandleProfileUpdate(x, profile, ok1, ok2))
  <1> DEFINE w == [x EXCEPT !.alwaysOn = profile.alwaysOn, !.tndServers = profile.tnd]
             v == StopTrafPol(StopTND(w))
             y == CheckTrafPol(v, ok1)
  <1>0. profile.alwaysOn \in BOOLEAN /\ profile.tnd \in BOOLEAN
    BY DaemonAssumption
  <1>1. w \in DaemonState /\ SameVPN(x, w)
    BY <1>0 DEF Good, DaemonState, SameVPN
  <1>2. Policed(w) /\ Clean(w)
    BY DEF Good, DaemonState, Policed, Clean
  <1> HIDE DEF w
  <1>3. Good(StopTND(w)) /\ SameVPN(w, StopTND(w))
    BY <1>1, <1>2, SetTNDLemma, SameVPNTND DEF StopTND, Good
  <1>4. Good(v) /\ SameVPN(StopTND(w), v)
    BY <1>3, StopTrafPolLemma, SameVPNTrafPol
  <1> HIDE DEF v
  <1>5. Good(y) /\ SameVPN(v, y)
    BY <1>4, CheckTrafPolLemma, SameVPNTrafPol
  <1>6. HandleProfileUpdate(x, profile, ok1, ok2) \in {y, CheckTND(y, ok2)}
    BY DEF HandleProfileUpdate, y, v, w
  <1> HIDE DEF y
  <1>7. SameVPN(y, CheckTND(y, ok2))
    BY <1>5, SameVPNTND
  <1>8. QED
    BY <1>1, <1>3, <1>4, <1>5, <1>6, <1>7 DEF SameVPN

(* A component whose Start() succeeds has not failed. *)
LEMMA CheckSucceeds ==
  ASSUME NEW x, Good(x), Started(x)
  PROVE  /\ CheckTrafPol(x, TRUE).trafpol # "failed"
         /\ CheckTND(x, TRUE).tnd # "failed"
  <1>1. StopTrafPol(x).trafpol # "failed"
    BY StopTrafPolLemma
  <1>2. StartTrafPol(x, TRUE).trafpol # "failed"
    <2> DEFINE t == [x EXCEPT !.trafpol = "running", !.allowed = AllowedHosts]
               y == [t EXCEPT !.TrafPolState = "Active", !.CaptivePortal = "NotDetected"]
    <2>1. CASE x.trafpol # "nil"
      BY <2>1 DEF StartTrafPol, Started
    <2>2. CASE x.trafpol = "nil"
      <3>1. StartTrafPol(x, TRUE) = IF x.serverIP # NoAddr THEN AddAllowedAddr(y) ELSE y
        BY <2>2 DEF StartTrafPol
      <3>2. t \in DaemonState /\ t.trafpol = "running"
        BY DaemonAssumption DEF Good, DaemonState
      <3> HIDE DEF t
      <3>3. y \in DaemonState /\ y.trafpol = "running"
        BY <3>2 DEF DaemonState
      <3> HIDE DEF y
      <3>4. AddAllowedAddr(y).trafpol = "running"
        BY <3>3 DEF AddAllowedAddr, DaemonState
      <3>5. QED
        BY <3>1, <3>3, <3>4
    <2>3. QED
      BY <2>1, <2>2
  <1>3. CheckTND(x, TRUE).tnd # "failed"
    BY DEF CheckTND, StopTND, Started, Good, DaemonState
  <1>4. QED
    BY <1>1, <1>2, <1>3 DEF CheckTrafPol

(* A daemon that Start() brought up, with any profile: no VPN, and only the *)
(* components the profile asks for.                                        *)
LEMMA StartedDaemonLemma ==
  ASSUME NEW profile \in [alwaysOn : BOOLEAN, tnd : BOOLEAN]
  PROVE  /\ Good(StartedDaemon(profile))
         /\ Started(StartedDaemon(profile))
         /\ Justified(StartedDaemon(profile))
         /\ ~StartedDaemon(profile).OCRunning
         /\ ~profile.alwaysOn => StartedDaemon(profile).trafpol = "nil"
         /\ ~profile.tnd => StartedDaemon(profile).tnd = "nil"
  <1> DEFINE r == [OCRunning |-> FALSE, OCPID |-> 0, ConnectionState |-> "Disconnected",
                   TrustedNetwork |-> FALSE, VPNConfig |-> NoConfig,
                   TrafPolState |-> "Inactive", CaptivePortal |-> "Unknown",
                   serverIP |-> NoAddr, serverIPAllowed |-> FALSE,
                   disableTrafPol |-> FALSE, alwaysOn |-> profile.alwaysOn,
                   tndServers |-> profile.tnd, trafpol |-> "nil", allowed |-> {},
                   tnd |-> "nil", setup |-> NoConfig]
             y == CheckTrafPol(r, TRUE)
             z == CheckTND(y, TRUE)
  <1>1. profile.alwaysOn \in BOOLEAN /\ profile.tnd \in BOOLEAN
    OBVIOUS
  <1>2. r \in DaemonState
    BY <1>1 DEF DaemonState
  <1>3. Policed(r) /\ Clean(r) /\ Started(r)
    BY DEF Policed, Clean, Started
  <1>4. Good(r)
    BY <1>2, <1>3 DEF Good
  <1>5. StartedDaemon(profile) = z
    BY DEF StartedDaemon
  <1>6. /\ r.OCRunning = FALSE /\ r.trafpol = "nil" /\ r.tnd = "nil"
        /\ r.alwaysOn = profile.alwaysOn /\ r.tndServers = profile.tnd
    OBVIOUS
  <1> HIDE DEF r
  <1>7. Good(y) /\ Justified(y) /\ Started(y) /\ SameVPN(r, y) /\ y.tndServers = r.tndServers
    BY <1>3, <1>4, CheckTrafPolLemma, CheckSucceeds, SameVPNTrafPol DEF Started
  <1>8. ~profile.alwaysOn => y.trafpol = "nil"
    BY <1>4, <1>6, StopTrafPolLemma DEF CheckTrafPol
  <1> HIDE DEF y
  <1>9. Good(z) /\ Justified(z) /\ Started(z) /\ SameVPN(y, z) /\ z.trafpol = y.trafpol
    BY <1>7, CheckTNDLemma, CheckSucceeds, SameVPNTND DEF Started
  <1>10. ~profile.tnd => z.tnd = "nil"
    BY <1>6, <1>7, SetTNDLemma DEF CheckTND, StopTND
  <1> HIDE DEF z
  <1>11. QED
    BY <1>5, <1>6, <1>7, <1>8, <1>9, <1>10 DEF SameVPN

(* The daemon satisfies the invariant when its main loop begins. *)
LEMMA DaemonInitInv == DaemonInit => DaemonInv
  <1> SUFFICES ASSUME NEW profile \in Profiles, d = StartedDaemon(profile),
                      dpc = "select", dcmd = "none"
               PROVE  DaemonInv
    BY DEF DaemonInit
  <1>1. profile \in [alwaysOn : BOOLEAN, tnd : BOOLEAN]
    BY DaemonAssumption
  <1>2. Good(d) /\ Justified(d) /\ Started(d)
    BY <1>1, StartedDaemonLemma
  <1>3. QED
    BY <1>2 DEF DaemonInv

(* The end of a handler, in its normal return and in its error return. *)
LEMMA HandledInv ==
  ASSUME NEW x, Good(x), Justified(x), Handled(x)
  PROVE  DaemonInv'
  <1>1. CASE x.trafpol = "failed" \/ x.tnd = "failed"
    <2>1. d' = HandleRunnerDisconnect(x) /\ dpc' = "waitRunner" /\ dcmd' = "none"
      BY <1>1 DEF Handled, Return
    <2>2. Good(d') /\ ~(d'.OCRunning)
      BY <2>1, HandleRunnerDisconnectLemma
    <2>3. QED
      BY <2>1, <2>2 DEF DaemonInv, Good, Policed, Clean, Started, Justified, DaemonState
  <1>2. CASE ~(x.trafpol = "failed" \/ x.tnd = "failed")
    BY <1>2 DEF Handled, DaemonInv, Good, Policed, Clean, Started, Justified, DaemonState
  <1>3. QED
    BY <1>1, <1>2

(* Every step of the main goroutine preserves the invariant. *)
LEMMA DaemonNextInv == DaemonInv /\ [DaemonNext]_daemonVars => DaemonInv'
  <1> SUFFICES ASSUME DaemonInv, [DaemonNext]_daemonVars PROVE DaemonInv'
    OBVIOUS
  <1>g. Good(d)
    BY DEF DaemonInv
  <1>j. dpc = "select" => Started(d) /\ Justified(d)
    BY DEF DaemonInv
  <1>o. Outcomes("trafpol") \subseteq BOOLEAN /\ Outcomes("tnd") \subseteq BOOLEAN
    BY DEF Outcomes
  <1>u. ASSUME NEW x, Good(x), d' = x, dcmd' = dcmd, Started(x) \/ dpc' \in {"panic", "closed", "hung"},
               dpc' \in {"waitServer", "closed", "hung", "panic"},
               dpc' \in {"waitServer", "closed", "hung"} => ~x.OCRunning,
               dpc' = "closed" => x.trafpol = "nil" /\ x.tnd = "nil"
        PROVE  DaemonInv'
    BY <1>u DEF DaemonInv, Good, Policed, Clean, Started, Justified, DaemonState
  <1>s. ASSUME NEW x, NEW cmd \in {"connect", "disconnect", "disconnectThenCheck"},
               Send(x, cmd), Good(x), Started(x),
               cmd = "disconnectThenCheck" \/ Justified(x)
        PROVE  DaemonInv'
    BY <1>s DEF Send, DaemonInv, Good, Policed, Clean, Started, Justified, DaemonState
  <1>1. ASSUME NEW reason \in Reasons, NEW config \in Configs, ClientRequest(reason, config)
        PROVE  DaemonInv'
    <2> DEFINE y == UpdateVPNConfig(d, reason, config)
    <2>1. Good(y) /\ SamePolicing(d, y)
      BY <1>g, UpdateVPNConfigLemma
    <2>2. Handled(y) /\ dpc = "select"
      BY <1>1 DEF ClientRequest
    <2> HIDE DEF y
    <2>3. QED
      BY <1>j, <2>1, <2>2, SamePolicingLemma, HandledInv
  <1>2. CASE NilRequest
    BY <1>2, <1>g DEF NilRequest, DaemonInv, Good, Policed, Clean, Started, Justified, DaemonState
  <1>3. ASSUME NEW host \in Hosts \cup {NoAddr}, DBusConnect(host)
        PROVE  DaemonInv'
    <2> DEFINE y == ConnectVPN(d, host)
    <2>1. Good(y) /\ Started(y) /\ Justified(y)
      BY <1>3, <1>g, <1>j, ConnectVPNLemma DEF DBusConnect
    <2>2. Send(y, "connect")
      BY <1>3 DEF DBusConnect
    <2> HIDE DEF y
    <2>3. QED
      BY <2>1, <2>2, <1>s
  <1>4. ASSUME DBusDisconnect PROVE DaemonInv'
    <2> DEFINE y == Disconnecting(d)
    <2>1. Good(y) /\ SamePolicing(d, y)
      BY <1>4, <1>g, SetConnectionStateLemma DEF DBusDisconnect, Disconnecting
    <2>2. Send(y, "disconnect") /\ dpc = "select"
      BY <1>4 DEF DBusDisconnect
    <2> HIDE DEF y
    <2>3. Started(y) /\ Justified(y)
      BY <1>j, <2>1, <2>2, SamePolicingLemma
    <2>4. QED
      BY <2>1, <2>2, <2>3, <1>s
  <1>5. ASSUME NEW trusted \in BOOLEAN, NEW ok \in Outcomes("trafpol"), TNDResult(trusted, ok)
        PROVE  DaemonInv'
    <2> DEFINE x == [d EXCEPT !.TrustedNetwork = trusted]
               y == Disconnecting(x)
               z == CheckTrafPol(x, ok)
    <2>1. Good(x) /\ Started(x)
      BY <1>5, <1>g, <1>j, SetTrustedNetworkLemma DEF TNDResult
    <2>2. \/ x.OCRunning /\ Send(y, "disconnectThenCheck")
          \/ Handled(z)
      BY <1>5 DEF TNDResult
    <2> HIDE DEF x
    <2>3. ASSUME x.OCRunning, Send(y, "disconnectThenCheck") PROVE DaemonInv'
      <3>1. Good(y) /\ SamePolicing(x, y)
        BY <2>1, <2>3, SetConnectionStateLemma DEF Disconnecting
      <3> HIDE DEF y
      <3>2. Started(y)
        BY <2>1, <3>1, SamePolicingLemma
      <3>3. QED
        BY <2>3, <3>1, <3>2, <1>s
    <2>4. ASSUME Handled(z) PROVE DaemonInv'
      <3>1. Good(z) /\ Justified(z)
        BY <1>o, <2>1, CheckTrafPolLemma
      <3> HIDE DEF z
      <3>2. QED
        BY <2>4, <3>1, HandledInv
    <2>5. QED
      BY <2>2, <2>3, <2>4
  <1>6. ASSUME NEW p \in OCPids, RunnerEvent(TRUE, p) PROVE DaemonInv'
    <2> DEFINE y == HandleRunnerConnect(d, p)
    <2>1. Good(y) /\ SamePolicing(d, y)
      BY <1>g, HandleRunnerConnectLemma
    <2>2. Handled(y) /\ dpc = "select"
      BY <1>6 DEF RunnerEvent, HandleRunnerEvent
    <2> HIDE DEF y
    <2>3. QED
      BY <1>j, <2>1, <2>2, SamePolicingLemma, HandledInv
  <1>7. ASSUME RunnerEvent(FALSE, 0) PROVE DaemonInv'
    <2> DEFINE y == HandleRunnerDisconnect(d)
    <2>1. Handled(y) /\ dpc = "select"
      BY <1>7 DEF RunnerEvent, HandleRunnerEvent
    <2>2. Good(y) /\ Justified(y)
      BY <1>g, <1>j, <2>1, HandleRunnerDisconnectLemma
    <2> HIDE DEF y
    <2>3. QED
      BY <2>1, <2>2, HandledInv
  <1>8. ASSUME NEW profile \in Profiles, NEW ok1 \in Outcomes("trafpol"),
               NEW ok2 \in Outcomes("tnd"), ProfileUpdate(profile, ok1, ok2)
        PROVE  DaemonInv'
    <2> DEFINE y == HandleProfileUpdate(d, profile, ok1, ok2)
    <2>1. Good(y) /\ Justified(y)
      BY <1>g, <1>o, HandleProfileUpdateLemma
    <2>2. Handled(y)
      BY <1>8 DEF ProfileUpdate
    <2> HIDE DEF y
    <2>3. QED
      BY <2>1, <2>2, HandledInv
  <1>9. ASSUME NEW detected \in BOOLEAN, CPDStatusUpdate(detected) PROVE DaemonInv'
    <2> DEFINE y == HandleCPDStatusUpdate(d, detected)
    <2>1. Handled(y) /\ dpc = "select" /\ d.trafpol = "running"
      BY <1>9 DEF CPDStatusUpdate
    <2>2. Good(y) /\ Justified(y)
      BY <1>g, <1>j, <2>1, HandleCPDStatusUpdateLemma
    <2> HIDE DEF y
    <2>3. QED
      BY <2>1, <2>2, HandledInv
  <1>10. CASE StopRequested
    <2>1. d' = HandleRunnerDisconnect(d) /\ dpc' = "waitRunner" /\ dcmd' = "none"
      BY <1>10 DEF StopRequested, Return
    <2>2. Good(d') /\ ~(d'.OCRunning)
      BY <1>g, <2>1, HandleRunnerDisconnectLemma
    <2>3. QED
      BY <2>1, <2>2 DEF DaemonInv, Good, Policed, Clean, Started, Justified, DaemonState
  <1>11. ASSUME NEW ok \in Outcomes("trafpol"), CommandSent(ok) PROVE DaemonInv'
    <2> DEFINE y == CheckTrafPol(d, ok)
    <2>1. CASE dcmd = "disconnectThenCheck"
      <3>1. Handled(y)
        BY <1>11, <2>1 DEF CommandSent
      <3>2. Good(y) /\ Justified(y)
        BY <1>g, <1>o, CheckTrafPolLemma
      <3> HIDE DEF y
      <3>3. QED
        BY <3>1, <3>2, HandledInv
    <2>2. CASE dcmd # "disconnectThenCheck"
      <3>1. Handled(d) /\ dpc = "sendCmd"
        BY <1>11, <2>2 DEF CommandSent
      <3>2. Justified(d)
        BY <2>2, <3>1 DEF DaemonInv
      <3>3. QED
        BY <1>g, <3>1, <3>2, HandledInv
    <2>3. QED
      BY <2>1, <2>2
  <1>12. CASE RunnerStopped
    BY <1>12, <1>g DEF RunnerStopped, DaemonInv, Good, Policed, Clean, Started, Justified, DaemonState
  <1>13. CASE ServerStopped
    <2> DEFINE x == StopTND(d)
               y == StopTrafPol(x)
    <2>1. Good(x) /\ x.OCRunning = d.OCRunning /\ x.tnd = "nil"
      BY <1>g, SetTNDLemma DEF StopTND
    <2>0. ~d.OCRunning /\ dcmd' = dcmd
      BY <1>13 DEF ServerStopped, DaemonInv
    <2>2. (dpc' = "hung" /\ d' = x) \/ (dpc' = "closed" /\ d' = y)
      <3>1. CASE d.trafpol = "failed"
        BY <1>13, <3>1 DEF ServerStopped
      <3>2. CASE d.trafpol # "failed"
        BY <1>13, <3>2 DEF ServerStopped
      <3>3. QED
        BY <3>1, <3>2
    <2> HIDE DEF x
    <2>3. Good(y) /\ y.trafpol = "nil" /\ y.tnd = "nil" /\ y.OCRunning = d.OCRunning
      BY <2>1, StopTrafPolLemma
    <2> HIDE DEF y
    <2>4. QED
      BY <2>0, <2>1, <2>2, <2>3, <1>u
  <1>14. CASE UNCHANGED daemonVars
    BY <1>14, <1>g DEF daemonVars, DaemonInv, Good, Policed, Clean, Started, Justified, DaemonState
  <1>15. QED
    BY <1>1, <1>2, <1>3, <1>4, <1>5, <1>6, <1>7, <1>8, <1>9, <1>10, <1>11, <1>12,
       <1>13, <1>14
    DEF DaemonNext, SleepMonResume

-----------------------------------------------------------------------------
(* The invariant holds in every state of every behaviour of the daemon, in *)
(* any environment.                                                        *)
THEOREM DaemonInvariance == DaemonSpec => []DaemonInv
  BY DaemonInitInv, DaemonNextInv, PTL DEF DaemonSpec

(* Traffic policing lets through exactly the configured hosts and the      *)
(* server of the current VPN connection.                                   *)
THEOREM DaemonPolicedAddrsExact == DaemonSpec => []PolicedAddrsExact
  <1>1. DaemonInv => PolicedAddrsExact
    BY DEF DaemonInv, Good, Policed, PolicedAddrsExact
  <1>2. QED
    BY <1>1, DaemonInvariance, PTL

(* Without openconnect there is nothing left of a VPN connection. *)
THEOREM DaemonDisconnectedIsClean == DaemonSpec => []DisconnectedIsClean
  <1>1. DaemonInv => DisconnectedIsClean
    BY DEF DaemonInv, Good, Clean, DisconnectedIsClean
  <1>2. QED
    BY <1>1, DaemonInvariance, PTL

(* The reported VPN configuration is the active one. *)
THEOREM DaemonReportedConfigIsActive == DaemonSpec => []ReportedConfigIsActive
  <1>1. DaemonInv => ReportedConfigIsActive
    BY DEF DaemonInv, Good, Clean, ReportedConfigIsActive
  <1>2. QED
    BY <1>1, DaemonInvariance, PTL

(* Between two handlers traffic policing only runs when it should. *)
THEOREM DaemonPolicingJustified == DaemonSpec => []PolicingJustified
  <1>1. DaemonInv => PolicingJustified
    BY DEF DaemonInv, Started, Justified, PolicingJustified
  <1>2. QED
    BY <1>1, DaemonInvariance, PTL

(* The D-Bus properties tell the truth about traffic policing. *)
THEOREM DaemonPolicingStatusTruthful == DaemonSpec => []PolicingStatusTruthful
  <1>1. DaemonInv => PolicingStatusTruthful
    BY DEF DaemonInv, Good, Policed, PolicingStatusTruthful
  <1>2. QED
    BY <1>1, DaemonInvariance, PTL

(* A daemon that has stopped leaves nothing behind. *)
THEOREM DaemonCleanShutdown == DaemonSpec => []CleanShutdown
  <1>1. DaemonInv => CleanShutdown
    BY DEF DaemonInv, Good, Policed, Clean, CleanShutdown
  <1>2. QED
    BY <1>1, DaemonInvariance, PTL

=============================================================================
