-------------------------- MODULE DaemonLifeProofs --------------------------
(***************************************************************************)
(* Proofs about the daemon over any number of lives of its process.  A     *)
(* step of a running daemon is one of its most general environment, so the *)
(* invariant of DaemonProofs holds in every life; what is on the host and  *)
(* who is named in the PID file need invariants that reach from one life   *)
(* into the next.                                                          *)
(***************************************************************************)
EXTENDS DaemonLife, DaemonProofs

LifeTypes ==
  /\ phase \in {"down", "up", "failed", "panicked", "crashed"}
  /\ life \in 0 .. MaxLives
  /\ host \subseteq Items
  /\ procs \in [OCPids -> {"none", "running", "interrupted", "gone"}]
  /\ born \in [OCPids -> 0 .. MaxLives]
  /\ pidfile \in OCPids \cup {0}
  /\ saved \subseteq OCPids

(* Without a process of the daemon there is no daemon. *)
Down == phase # "up" => d = NoDaemon /\ dpc = "closed" /\ dcmd = "none"

(* The openconnect processes: started in some life up to this one, a later *)
(* one not in an earlier life, and in this life only after the one before  *)
(* was gone.                                                               *)
Ordered ==
  /\ phase = "up" => life > 0
  /\ \A p \in OCPids : procs[p] = "none" => born[p] = 0
  /\ \A p \in OCPids : procs[p] # "none" => born[p] > 0 /\ born[p] <= life
  /\ \A p, q \in OCPids : p < q /\ procs[q] # "none" => born[p] <= born[q]
  /\ phase = "up" => \A p, q \in Mine : p < q => procs[p] = "gone"

(* The PID file names the youngest of the processes that were saved, and   *)
(* the older ones have been interrupted or are gone: this is what the next *)
(* life relies on, which interrupts no other process.                      *)
PIDFileNewest ==
  /\ \A p \in saved : procs[p] # "none" /\ p <= pidfile
  /\ saved # {} => pidfile \in saved
  /\ \A p \in saved : p # pidfile => procs[p] \in {"interrupted", "gone"}

(* The inductive invariant. *)
LifeInv ==
  /\ DaemonInv
  /\ LifeTypes
  /\ Down
  /\ Ordered
  /\ PIDFileNewest
  /\ RestartIsClean
  /\ LeftoverInterrupted
  /\ ConfigOfThisLife

-----------------------------------------------------------------------------
(* The commands and the host. *)

(* What the commands of a setup, a teardown and a clean-up touch. *)
LEMMA Commands ==
  /\ All(SetupCmds) = {"link", "table", "route4", "rule4", "sysctl", "route6", "rule6", "dns"}
  /\ All(TeardownCmds) = {"link", "table", "route4", "rule4", "route6", "rule6", "dns"}
  /\ All(CleanupCmds) =
       {"link", "table", "route4", "rule4", "route6", "rule6", "dns", "filter"}
  <1>1. /\ Len(SetupCmds) = 8 /\ SetupCmds[1] = {"link"} /\ SetupCmds[2] = {"table"}
        /\ SetupCmds[3] = {"route4"} /\ SetupCmds[4] = {"rule4"}
        /\ SetupCmds[5] = {"sysctl"} /\ SetupCmds[6] = {"route6"}
        /\ SetupCmds[7] = {"rule6"} /\ SetupCmds[8] = {"dns"}
    BY DEF SetupCmds
  <1>2. /\ Len(TeardownCmds) = 5 /\ TeardownCmds[1] = {"link", "route4", "route6"}
        /\ TeardownCmds[2] = {"rule4"} /\ TeardownCmds[3] = {"rule6"}
        /\ TeardownCmds[4] = {"table"} /\ TeardownCmds[5] = {"dns"}
    BY DEF TeardownCmds
  <1>3. /\ Len(CleanupCmds) = 8 /\ CleanupCmds[1] = {"dns"}
        /\ CleanupCmds[2] = {"link", "route4", "route6"} /\ CleanupCmds[3] = {"rule4"}
        /\ CleanupCmds[4] = {"rule6"} /\ CleanupCmds[5] = {"route4"}
        /\ CleanupCmds[6] = {"route6"} /\ CleanupCmds[7] = {"table"}
        /\ CleanupCmds[8] = {"filter"}
    BY DEF CleanupCmds
  <1>4. 1 .. 8 = {1, 2, 3, 4, 5, 6, 7, 8} /\ 1 .. 5 = {1, 2, 3, 4, 5}
    OBVIOUS
  <1>5. All(SetupCmds) = UNION {SetupCmds[i] : i \in {1, 2, 3, 4, 5, 6, 7, 8}}
    BY <1>1, <1>4 DEF All, Effect
  <1>6. All(TeardownCmds) = UNION {TeardownCmds[i] : i \in {1, 2, 3, 4, 5}}
    BY <1>2, <1>4 DEF All, Effect
  <1>7. All(CleanupCmds) = UNION {CleanupCmds[i] : i \in {1, 2, 3, 4, 5, 6, 7, 8}}
    BY <1>3, <1>4 DEF All, Effect
  <1>8. QED
    BY <1>1, <1>2, <1>3, <1>5, <1>6, <1>7

(* Only the first commands of a setup: no more than all of them. *)
LEMMA SomeCommands ==
  ASSUME NEW n \in DOMAIN SetupCmds
  PROVE  Effect(SetupCmds, n) \subseteq Items
  <1>1. n \in 1 .. Len(SetupCmds) /\ Len(SetupCmds) \in Nat
    BY DEF SetupCmds
  <1>2. 1 .. n \subseteq 1 .. Len(SetupCmds)
    BY <1>1
  <1>3. QED
    BY <1>2 DEF Items, All, Effect

(* A clean-up leaves nothing of what the daemon can have configured but    *)
(* the value of src_valid_mark.                                            *)
LEMMA CleanedUp == host \subseteq Items => host \ All(CleanupCmds) \subseteq {"sysctl"}
  BY Commands DEF Items

(* What a daemon may leave on the host it knows of. *)
Known(x) == FilterOf(x) \cup IF x.setup = NoConfig THEN {} ELSE All(SetupCmds) \ {"sysctl"}

(* A step of the running daemon keeps the host and the daemon's state in step. *)
LEMMA HostAfterKnown ==
  ASSUME NEW x, NEW y, host \subseteq Items, host \ {"sysctl"} = Known(x)
  PROVE  HostAfter(x, y) \subseteq Items /\ HostAfter(x, y) \ {"sysctl"} = Known(y)
  <1>0. /\ FilterOf(x) \in {{}, {"filter"}} /\ FilterOf(y) \in {{}, {"filter"}}
    BY DEF FilterOf
  <1> DEFINE fx == FilterOf(x)
             fy == FilterOf(y)
  <1>1. CASE y.setup = x.setup
    <2>1. HostAfter(x, y) = (host \ {"filter"}) \cup fy
      BY <1>1 DEF HostAfter
    <2>2. QED
      BY <1>0, <1>1, <2>1, Commands DEF Known, Items
  <1>2. CASE y.setup # x.setup /\ y.setup = NoConfig
    <2>1. HostAfter(x, y) = ((host \ All(TeardownCmds)) \ {"filter"}) \cup fy
      BY <1>2 DEF HostAfter
    <2>2. QED
      BY <1>0, <1>2, <2>1, Commands DEF Known, Items
  <1>3. CASE y.setup # x.setup /\ y.setup # NoConfig
    <2>1. HostAfter(x, y) = ((host \cup All(SetupCmds)) \ {"filter"}) \cup fy
      BY <1>3 DEF HostAfter
    <2>2. QED
      BY <1>0, <1>3, <2>1, Commands DEF Known, Items
  <1>4. QED
    BY <1>1, <1>2, <1>3

-----------------------------------------------------------------------------
(* The VPN connection of a daemon is that of a process of this life. *)

Owned(x) ==
  /\ x.setup # NoConfig => born[x.setup.pid] = life
  /\ x.OCPID # 0 => born[x.OCPID] = life

(* A handler that removes a configuration or a PID leaves what is owned. *)
LEMMA OwnedLess ==
  ASSUME NEW x, NEW y, Owned(x), y.setup \in {x.setup, NoConfig}, y.OCPID \in {x.OCPID, 0}
  PROVE  Owned(y)
  BY DEF Owned

(* The request of a script changes the configuration to that of the script *)
(* or to none, and does not touch the PID.                                 *)
LEMMA UpdateVPNConfigOwned ==
  ASSUME NEW x, NEW reason \in Reasons, NEW config \in Configs, Good(x), Owned(x),
         born[config.pid] = life
  PROVE  Owned(UpdateVPNConfig(x, reason, config))
  <1>1. Owned(UpdateVPNConfigUp(x, config))
    BY DEF UpdateVPNConfigUp, Owned, Good, DaemonState
  <1>2. Owned(UpdateVPNConfigDown(x))
    BY DEF UpdateVPNConfigDown, Owned, Good, DaemonState
  <1>3. Owned(HandleVPNAttemptReconnect(x)) /\ Owned(HandleVPNReconnect(x))
    BY DEF HandleVPNAttemptReconnect, HandleVPNReconnect, Owned, Good, DaemonState
  <1>4. UpdateVPNConfig(x, reason, config) \in
          {x, UpdateVPNConfigUp(x, config), UpdateVPNConfigDown(x),
           HandleVPNAttemptReconnect(x), HandleVPNReconnect(x)}
    BY DEF UpdateVPNConfig, Reasons
  <1>5. QED
    BY <1>1, <1>2, <1>3, <1>4

(* connectVPN has neither yet. *)
LEMMA ConnectVPNOwned ==
  ASSUME NEW x, NEW addr \in Hosts \cup {NoAddr}, Good(x), Owned(x)
  PROVE  Owned(ConnectVPN(x, addr))
  <1> DEFINE h == IF addr # NoAddr THEN addr ELSE x.serverIP
             y == [x EXCEPT !.serverIP = h, !.OCRunning = TRUE,
                            !.ConnectionState = "Connecting"]
  <1>1. ConnectVPN(x, addr) \in {y, AddAllowedAddr(y)}
    BY DEF ConnectVPN
  <1>2. h \in Hosts \cup {NoAddr}
    BY DEF Good, DaemonState
  <1> HIDE DEF h
  <1>3. y \in DaemonState /\ y.setup = x.setup /\ y.OCPID = x.OCPID
    BY <1>2 DEF Good, DaemonState
  <1> HIDE DEF y
  <1>4. AddAllowedAddr(y).setup = y.setup /\ AddAllowedAddr(y).OCPID = y.OCPID
    BY <1>3 DEF AddAllowedAddr, DaemonState
  <1>5. QED
    BY <1>1, <1>3, <1>4, OwnedLess

(* A handler ends: normally, or with the VPN connection given up. *)
LEMMA HandledOwned ==
  ASSUME NEW x, Good(x), Owned(x), Handled(x)
  PROVE  Owned(d')
  <1>1. CASE x.trafpol = "failed" \/ x.tnd = "failed"
    <2>1. d' = HandleRunnerDisconnect(x)
      BY <1>1 DEF Handled, Return
    <2>2. d'.setup = NoConfig /\ d'.OCPID = 0
      BY <2>1, HandleRunnerDisconnectLemma DEF Good, Clean
    <2>3. QED
      BY <2>2 DEF Owned
  <1>2. CASE ~(x.trafpol = "failed" \/ x.tnd = "failed")
    BY <1>2 DEF Handled
  <1>3. QED
    BY <1>1, <1>2

(* Every step of the running daemon keeps it so. *)
LEMMA StepOwned ==
  ASSUME DaemonInv, LifeTypes, Owned(d), DaemonSteps
  PROVE  Owned(d')
  <1>g. Good(d)
    BY DEF DaemonInv
  <1>o. Outcomes("trafpol") \subseteq BOOLEAN /\ Outcomes("tnd") \subseteq BOOLEAN
    BY DEF Outcomes
  <1>1. ASSUME NEW reason \in Reasons, NEW config \in Configs, ReadMessage(config.pid),
               ClientRequest(reason, config)
        PROVE  Owned(d')
    <2> DEFINE y == UpdateVPNConfig(d, reason, config)
    <2>1. Good(y) /\ Owned(y)
      BY <1>1, <1>g, UpdateVPNConfigLemma, UpdateVPNConfigOwned DEF ReadMessage
    <2>2. Handled(y)
      BY <1>1 DEF ClientRequest
    <2> HIDE DEF y
    <2>3. QED
      BY <2>1, <2>2, HandledOwned
  <1>2. CASE NilRequest \/ RunnerStopped
    BY <1>2 DEF NilRequest, RunnerStopped
  <1>3. ASSUME NEW addr \in Hosts \cup {NoAddr}, DBusConnect(addr) PROVE Owned(d')
    BY <1>3, <1>g, ConnectVPNOwned DEF DBusConnect, Send
  <1>4. ASSUME DBusDisconnect PROVE Owned(d')
    <2>1. d' = Disconnecting(d)
      BY <1>4 DEF DBusDisconnect, Send
    <2>2. d'.setup = d.setup /\ d'.OCPID = d.OCPID
      BY <1>g, <2>1 DEF Disconnecting, Good, DaemonState
    <2>3. QED
      BY <2>2, OwnedLess
  <1>5. ASSUME NEW trusted \in BOOLEAN, NEW ok \in Outcomes("trafpol"), TNDResult(trusted, ok)
        PROVE  Owned(d')
    <2> DEFINE x == [d EXCEPT !.TrustedNetwork = trusted]
               z == CheckTrafPol(x, ok)
    <2>1. Good(x) /\ x.setup = d.setup /\ x.OCPID = d.OCPID
      BY <1>g, SetTrustedNetworkLemma DEF Good, DaemonState
    <2>2. d' = Disconnecting(x) \/ Handled(z)
      BY <1>5 DEF TNDResult, Send
    <2> HIDE DEF x
    <2>3. CASE d' = Disconnecting(x)
      <3>1. d'.setup = x.setup /\ d'.OCPID = x.OCPID
        BY <2>1, <2>3 DEF Disconnecting, Good, DaemonState
      <3>2. QED
        BY <2>1, <3>1, OwnedLess
    <2>4. CASE Handled(z)
      <3>1. Good(z) /\ SameVPN(x, z)
        BY <1>o, <2>1, CheckTrafPolLemma, SameVPNTrafPol
      <3> HIDE DEF z
      <3>2. Owned(z)
        BY <2>1, <3>1, OwnedLess DEF SameVPN
      <3>3. QED
        BY <2>4, <3>1, <3>2, HandledOwned
    <2>5. QED
      BY <2>2, <2>3, <2>4
  <1>6. ASSUME NEW p \in Mine, RunnerEvent(TRUE, p) PROVE Owned(d')
    <2> DEFINE y == HandleRunnerConnect(d, p)
    <2>1. p \in OCPids /\ born[p] = life
      BY DEF Mine
    <2>2. Good(y)
      BY <1>g, <2>1, HandleRunnerConnectLemma
    <2>3. y.setup = d.setup /\ y.OCPID = p
      BY <1>g, <2>1 DEF HandleRunnerConnect, Good, DaemonState
    <2>4. Handled(y)
      BY <1>6 DEF RunnerEvent, HandleRunnerEvent
    <2> HIDE DEF y
    <2>5. Owned(y)
      BY <2>1, <2>3 DEF Owned
    <2>6. QED
      BY <2>2, <2>4, <2>5, HandledOwned
  <1>7. ASSUME RunnerEvent(FALSE, 0) PROVE Owned(d')
    <2> DEFINE y == HandleRunnerDisconnect(d)
    <2>1. Handled(y)
      BY <1>7 DEF RunnerEvent, HandleRunnerEvent
    <2>2. Good(y) /\ ~y.OCRunning
      BY <1>g, HandleRunnerDisconnectLemma
    <2> HIDE DEF y
    <2>3. Owned(y)
      BY <2>2 DEF Owned, Good, Clean
    <2>4. QED
      BY <2>1, <2>2, <2>3, HandledOwned
  <1>8. ASSUME NEW profile \in Profiles, NEW ok1 \in Outcomes("trafpol"),
               NEW ok2 \in Outcomes("tnd"), ProfileUpdate(profile, ok1, ok2)
        PROVE  Owned(d')
    <2> DEFINE y == HandleProfileUpdate(d, profile, ok1, ok2)
    <2>1. Good(y) /\ SameVPN(d, y)
      BY <1>g, <1>o, HandleProfileUpdateLemma, SameVPNProfileUpdate
    <2>2. Handled(y)
      BY <1>8 DEF ProfileUpdate
    <2> HIDE DEF y
    <2>3. Owned(y)
      BY <2>1, OwnedLess DEF SameVPN
    <2>4. QED
      BY <2>1, <2>2, <2>3, HandledOwned
  <1>9. ASSUME NEW detected \in BOOLEAN, CPDStatusUpdate(detected) PROVE Owned(d')
    <2> DEFINE y == HandleCPDStatusUpdate(d, detected)
    <2>1. Handled(y) /\ d.trafpol = "running"
      BY <1>9 DEF CPDStatusUpdate
    <2>2. Good(y)
      BY <1>g, <2>1, HandleCPDStatusUpdateLemma
    <2>3. y.setup = d.setup /\ y.OCPID = d.OCPID
      BY <1>g DEF HandleCPDStatusUpdate, Good, DaemonState
    <2> HIDE DEF y
    <2>4. QED
      BY <2>1, <2>2, <2>3, OwnedLess, HandledOwned
  <1>10. CASE StopRequested
    <2>1. d' = HandleRunnerDisconnect(d)
      BY <1>10 DEF StopRequested, Return
    <2>2. QED
      BY <1>g, <2>1, HandleRunnerDisconnectLemma DEF Owned, Good, Clean
  <1>11. ASSUME NEW ok \in Outcomes("trafpol"), CommandSent(ok) PROVE Owned(d')
    <2> DEFINE y == CheckTrafPol(d, ok)
    <2>1. Handled(d) \/ Handled(y)
      BY <1>11 DEF CommandSent
    <2>2. Good(y) /\ SameVPN(d, y)
      BY <1>g, <1>o, CheckTrafPolLemma, SameVPNTrafPol
    <2> HIDE DEF y
    <2>3. Owned(y)
      BY <2>2, OwnedLess DEF SameVPN
    <2>4. QED
      BY <1>g, <2>1, <2>2, <2>3, HandledOwned
  <1>12. CASE ServerStopped
    <2> DEFINE x == StopTND(d)
               y == StopTrafPol(x)
    <2>1. Good(x) /\ SameVPN(d, x)
      BY <1>g, SetTNDLemma, SameVPNTND DEF StopTND
    <2>2. d' \in {x, y}
      BY <1>12 DEF ServerStopped
    <2> HIDE DEF x
    <2>3. SameVPN(x, y)
      BY <2>1, SameVPNTrafPol
    <2> HIDE DEF y
    <2>4. QED
      BY <2>1, <2>2, <2>3, OwnedLess DEF SameVPN
  <1>13. QED
    BY <1>1, <1>2, <1>3, <1>4, <1>5, <1>6, <1>7, <1>8, <1>9, <1>10, <1>11, <1>12
    DEF DaemonSteps, SleepMonResume

-----------------------------------------------------------------------------
(* A running daemon takes steps of its most general environment only. *)
LEMMA StepsOfEnvironment == DaemonSteps => DaemonNext
  BY DEF DaemonSteps, DaemonNext, Mine

(* The state of no daemon satisfies the invariant of the daemon. *)
LEMMA NoDaemonLemma ==
  /\ Good(NoDaemon) /\ ~NoDaemon.OCRunning
  /\ NoDaemon.trafpol = "nil" /\ NoDaemon.tnd = "nil"
  /\ NoDaemon.setup = NoConfig /\ NoDaemon.OCPID = 0
  <1> DEFINE none == [alwaysOn |-> FALSE, tnd |-> FALSE]
  <1>1. none \in [alwaysOn : BOOLEAN, tnd : BOOLEAN] /\ ~none.alwaysOn /\ ~none.tnd
    OBVIOUS
  <1>2. NoDaemon = StartedDaemon(none)
    BY DEF NoDaemon
  <1> HIDE DEF none
  <1>3. QED
    BY <1>1, <1>2, StartedDaemonLemma DEF Good, Clean

(* When the process of the daemon is gone, so is all it knew of. *)
LEMMA GoneLemma ==
  ASSUME NEW newPhase \in {"down", "failed", "panicked", "crashed"}, Gone(newPhase)
  PROVE  /\ DaemonInv' /\ Down' /\ ConfigOfThisLife'
         /\ phase' = newPhase /\ FilterOf(d') = {}
  <1>1. d' = NoDaemon /\ dpc' = "closed" /\ dcmd' = "none" /\ phase' = newPhase
    BY DEF Gone
  <1> DEFINE n == NoDaemon
  <1>2. /\ Good(n) /\ ~n.OCRunning /\ n.trafpol = "nil" /\ n.tnd = "nil"
        /\ n.setup = NoConfig /\ n.OCPID = 0
    BY NoDaemonLemma
  <1>3. Down'
    BY <1>1 DEF Down, NoDaemon, StartedDaemon
  <1> HIDE DEF n
  <1>4. d' = n
    BY <1>1 DEF n
  <1>5. DaemonInv'
    BY <1>1, <1>2, <1>4 DEF DaemonInv, Good, Policed, Clean, Started, Justified, DaemonState
  <1>6. ConfigOfThisLife'
    BY <1>2, <1>4 DEF ConfigOfThisLife
  <1>7. FilterOf(d') = {}
    BY <1>2, <1>4 DEF FilterOf
  <1>8. QED
    BY <1>1, <1>3, <1>5, <1>6, <1>7

-----------------------------------------------------------------------------
(* The openconnect processes over the lives. *)

(* A new life begins: no process is its own yet, and the process of the    *)
(* PID file is interrupted, so that no saved one is left running.          *)
LEMMA BeginStartLemma ==
  ASSUME LifeTypes, Ordered, PIDFileNewest, BeginStart
  PROVE  /\ life' \in 0 .. MaxLives /\ life' > 0
         /\ procs' \in [OCPids -> {"none", "running", "interrupted", "gone"}]
         /\ UNCHANGED <<born, pidfile, saved>>
         /\ Ordered' /\ PIDFileNewest' /\ LeftoverInterrupted'
  <1>1. /\ life' = life + 1 /\ life < MaxLives /\ life \in Nat /\ MaxLives \in Nat
        /\ procs' = CleanupConnect /\ UNCHANGED <<born, pidfile, saved>>
    BY LifeAssumption DEF BeginStart, LifeTypes
  <1>2. procs' \in [OCPids -> {"none", "running", "interrupted", "gone"}]
    BY <1>1 DEF CleanupConnect, LifeTypes
  <1>3. \A p \in OCPids : /\ procs'[p] = procs[p] \/ (procs[p] = "running" /\ procs'[p] = "interrupted")
                          /\ p = pidfile => procs'[p] # "running"
    BY <1>1 DEF CleanupConnect, LifeTypes
  <1>4. \A p \in OCPids : born[p] <= life /\ born[p] \in Nat
    BY <1>1 DEF Ordered, LifeTypes
  <1>5. Mine' = {}
    BY <1>1, <1>4 DEF Mine
  <1>6. Ordered'
    BY <1>1, <1>3, <1>4, <1>5 DEF Ordered
  <1>7. PIDFileNewest'
    BY <1>1, <1>3 DEF PIDFileNewest, LifeTypes
  <1>8. \A p \in saved : procs'[p] \in {"interrupted", "gone"}
    <2> SUFFICES ASSUME NEW p \in saved PROVE procs'[p] \in {"interrupted", "gone"}
      OBVIOUS
    <2>1. p \in OCPids /\ procs[p] # "none"
      BY DEF LifeTypes, PIDFileNewest
    <2>2. CASE p = pidfile
      BY <1>2, <1>3, <2>1, <2>2
    <2>3. CASE p # pidfile
      BY <1>3, <2>1, <2>3 DEF PIDFileNewest
    <2>4. QED
      BY <2>2, <2>3
  <1>9. LeftoverInterrupted'
    BY <1>1, <1>8 DEF LeftoverInterrupted
  <1>10. QED
    BY <1>1, <1>2, <1>6, <1>7, <1>9

(* The runner starts a process: the youngest one. *)
LEMMA OCStartLemma ==
  ASSUME LifeInv, NEW p \in OCPids, OCStart(p)
  PROVE  LifeInv'
  <1>1. /\ procs[p] = "none" /\ phase = "up" /\ life > 0
        /\ procs' = [procs EXCEPT ![p] = "running"] /\ born' = [born EXCEPT ![p] = life]
        /\ \A q \in OCPids : procs[q] # "none" => q < p
        /\ \A q \in Mine : procs[q] = "gone"
        /\ UNCHANGED <<d, dpc, dcmd, phase, life, host, pidfile, saved>>
    BY DaemonAssumption DEF OCStart, LifeInv, Ordered, daemonVars
  <1>2. /\ procs \in [OCPids -> {"none", "running", "interrupted", "gone"}]
        /\ born \in [OCPids -> 0 .. MaxLives] /\ life \in 0 .. MaxLives /\ MaxLives \in Nat
        /\ OCPids \subseteq Nat \ {0}
    BY LifeAssumption, DaemonAssumption DEF LifeInv, LifeTypes
  <1>3. \A q \in OCPids : q # p => procs'[q] = procs[q] /\ born'[q] = born[q]
    BY <1>1, <1>2
  <1>4. procs'[p] = "running" /\ born'[p] = life
    BY <1>1, <1>2
  <1>5. LifeTypes'
    BY <1>1, <1>2 DEF LifeInv, LifeTypes
  <1>6. DaemonInv' /\ Down' /\ RestartIsClean'
    BY <1>1 DEF LifeInv, DaemonInv, Down, RestartIsClean, FilterOf, NoDaemon
  <1>7. Ordered'
    <2>1. \A q \in OCPids : (procs'[q] = "none" => born'[q] = 0)
                            /\ (procs'[q] # "none" => born'[q] > 0 /\ born'[q] <= life)
      BY <1>1, <1>2, <1>3, <1>4 DEF LifeInv, Ordered
    <2>2. \A q, r \in OCPids : q < r /\ procs'[r] # "none" => born'[q] <= born'[r]
      <3> SUFFICES ASSUME NEW q \in OCPids, NEW r \in OCPids, q < r, procs'[r] # "none"
                   PROVE  born'[q] <= born'[r]
        OBVIOUS
      <3>1. CASE r = p
        BY <1>1, <1>2, <1>4, <2>1, <3>1 DEF LifeInv, LifeTypes
      <3>2. CASE r # p
        BY <1>1, <1>2, <1>3, <3>2 DEF LifeInv, Ordered
      <3>3. QED
        BY <3>1, <3>2
    <2>3. \A q, r \in Mine' : q < r => procs'[q] = "gone"
      <3> SUFFICES ASSUME NEW q \in Mine', NEW r \in Mine', q < r PROVE procs'[q] = "gone"
        OBVIOUS
      <3>1. q \in OCPids /\ r \in OCPids /\ born'[q] = life /\ born'[r] = life
        BY <1>1 DEF Mine
      <3>2. r = p \/ r < p
        BY <1>1, <1>2, <1>3, <3>1 DEF LifeInv, Ordered
      <3>3. q # p
        BY <1>2, <3>1, <3>2
      <3>4. q \in Mine
        BY <1>3, <3>1, <3>3 DEF Mine
      <3>5. QED
        BY <1>1, <1>3, <3>1, <3>3, <3>4
    <2>4. QED
      BY <1>1, <2>1, <2>2, <2>3 DEF Ordered
  <1>8. p \notin saved
    BY <1>1 DEF LifeInv, PIDFileNewest
  <1>9. PIDFileNewest'
    BY <1>1, <1>2, <1>3, <1>8 DEF LifeInv, LifeTypes, PIDFileNewest
  <1>10. LeftoverInterrupted'
    BY <1>1, <1>2, <1>3, <1>8 DEF LifeInv, LifeTypes, LeftoverInterrupted
  <1>11. ConfigOfThisLife'
    <2>1. d.setup \in Configs \cup {NoConfig} /\ d.OCPID \in OCPids \cup {0}
      BY DEF LifeInv, DaemonInv, Good, DaemonState
    <2>2. d.setup # NoConfig => d.setup.pid \in OCPids
      BY <2>1 DEF Configs
    <2>3. QED
      BY <1>1, <1>3, <1>4, <2>1, <2>2 DEF LifeInv, ConfigOfThisLife
  <1>12. QED
    BY <1>5, <1>6, <1>7, <1>9, <1>10, <1>11 DEF LifeInv

(* Its PID is saved: that of the youngest process of all. *)
LEMMA SavePIDFileLemma ==
  ASSUME LifeInv, NEW p \in OCPids, SavePIDFile(p)
  PROVE  LifeInv'
  <1>1. /\ phase = "up" /\ p \in Mine /\ p \notin saved /\ \A q \in Mine : q <= p
        /\ pidfile' = p /\ saved' = saved \cup {p}
        /\ UNCHANGED <<d, dpc, dcmd, phase, life, host, procs, born>>
    BY DEF SavePIDFile, daemonVars
  <1>2. /\ born \in [OCPids -> 0 .. MaxLives] /\ life \in 0 .. MaxLives /\ MaxLives \in Nat
        /\ OCPids \subseteq Nat \ {0} /\ born[p] = life /\ life > 0
    BY <1>1, LifeAssumption, DaemonAssumption DEF LifeInv, LifeTypes, Mine, Ordered
  <1>3. procs[p] # "none"
    BY <1>2 DEF LifeInv, Ordered
  <1>4. \A q \in saved : q < p
    <2> SUFFICES ASSUME NEW q \in saved PROVE q < p
      OBVIOUS
    <2>1. q \in OCPids /\ q # p /\ procs[q] # "none"
      BY <1>1 DEF LifeInv, LifeTypes, PIDFileNewest
    <2>2. CASE born[q] = life
      BY <1>1, <1>2, <2>1, <2>2 DEF Mine
    <2>3. CASE born[q] # life
      BY <1>2, <1>3, <2>1, <2>3 DEF LifeInv, Ordered
    <2>4. QED
      BY <2>2, <2>3
  <1>5. \A q \in saved : procs[q] \in {"interrupted", "gone"}
    <2> SUFFICES ASSUME NEW q \in saved PROVE procs[q] \in {"interrupted", "gone"}
      OBVIOUS
    <2>1. q \in OCPids /\ q < p /\ born[q] <= life /\ born[q] \in Nat
      BY <1>2, <1>4 DEF LifeInv, LifeTypes, PIDFileNewest, Ordered
    <2>2. CASE born[q] = life
      BY <1>1, <2>1, <2>2 DEF LifeInv, Ordered, Mine
    <2>3. CASE born[q] < life
      BY <1>1, <2>3 DEF LifeInv, LeftoverInterrupted
    <2>4. QED
      BY <1>2, <2>1, <2>2, <2>3
  <1>6. PIDFileNewest'
    BY <1>1, <1>2, <1>3, <1>4, <1>5 DEF LifeInv, LifeTypes, PIDFileNewest
  <1>7. LeftoverInterrupted'
    BY <1>1, <1>2, <1>5 DEF LifeInv, LeftoverInterrupted
  <1>8. LifeTypes'
    BY <1>1 DEF LifeInv, LifeTypes
  <1>9. Mine' = Mine
    BY <1>1 DEF Mine
  <1>10. DaemonInv' /\ Down' /\ RestartIsClean' /\ Ordered' /\ ConfigOfThisLife'
    BY <1>1, <1>9
    DEF LifeInv, DaemonInv, Down, RestartIsClean, FilterOf, NoDaemon, Ordered, ConfigOfThisLife
  <1>11. QED
    BY <1>6, <1>7, <1>8, <1>10 DEF LifeInv

(* A process ends. *)
LEMMA OCEndLemma ==
  ASSUME LifeInv, NEW p \in OCPids, OCEnd(p)
  PROVE  LifeInv'
  <1>1. /\ procs[p] # "none" /\ procs' = [procs EXCEPT ![p] = "gone"]
        /\ UNCHANGED <<d, dpc, dcmd, phase, life, host, born, pidfile, saved>>
    BY DEF OCEnd, daemonVars
  <1>2. procs \in [OCPids -> {"none", "running", "interrupted", "gone"}]
    BY DEF LifeInv, LifeTypes
  <1>3. \A q \in OCPids : procs'[q] = IF q = p THEN "gone" ELSE procs[q]
    BY <1>1, <1>2
  <1>4. LifeTypes' /\ Mine' = Mine
    BY <1>1, <1>2 DEF LifeInv, LifeTypes, Mine
  <1>5. Ordered'
    BY <1>1, <1>3, <1>4 DEF LifeInv, Ordered, Mine
  <1>6. PIDFileNewest' /\ LeftoverInterrupted'
    BY <1>1, <1>3 DEF LifeInv, LifeTypes, PIDFileNewest, LeftoverInterrupted
  <1>7. DaemonInv' /\ Down' /\ RestartIsClean' /\ ConfigOfThisLife'
    BY <1>1 DEF LifeInv, DaemonInv, Down, RestartIsClean, FilterOf, NoDaemon, ConfigOfThisLife
  <1>8. QED
    BY <1>4, <1>5, <1>6, <1>7 DEF LifeInv

-----------------------------------------------------------------------------
(* The life of the daemon's process. *)

(* Start(): the host is cleaned up and then has what the new daemon wants. *)
LEMMA StartLemma ==
  ASSUME LifeInv, NEW profile \in Profiles, Start(profile)
  PROVE  LifeInv'
  <1>1. /\ BeginStart /\ d' = StartedDaemon(profile) /\ dpc' = "select" /\ dcmd' = "none"
        /\ host' = (host \ All(CleanupCmds)) \cup FilterOf(d') /\ phase' = "up"
    BY DEF Start
  <1>2. /\ life' \in 0 .. MaxLives
        /\ procs' \in [OCPids -> {"none", "running", "interrupted", "gone"}]
        /\ UNCHANGED <<born, pidfile, saved>>
        /\ Ordered' /\ PIDFileNewest' /\ LeftoverInterrupted'
    BY <1>1, BeginStartLemma DEF LifeInv
  <1>3. Good(d') /\ Started(d') /\ Justified(d') /\ ~(d'.OCRunning)
    BY <1>1, StartedDaemonLemma, DaemonAssumption
  <1>4. d'.setup = NoConfig /\ d'.OCPID = 0
    BY <1>3 DEF Good, Clean
  <1>5. DaemonInv'
    BY <1>1, <1>3 DEF DaemonInv, Good, Policed, Clean, Started, Justified, DaemonState
  <1>6. FilterOf(d') \subseteq {"filter"} /\ FilterOf(d') = FilterOf(d)'
    BY DEF FilterOf
  <1>7. host \ All(CleanupCmds) \subseteq {"sysctl"}
    BY CleanedUp DEF LifeInv, LifeTypes
  <1>8. LifeTypes'
    <2>1. host' \subseteq Items
      BY <1>1, <1>6, <1>7, Commands DEF Items
    <2>2. QED
      BY <1>1, <1>2, <2>1 DEF LifeInv, LifeTypes, Items
  <1>9. RestartIsClean'
    BY <1>1, <1>4, <1>6, <1>7 DEF RestartIsClean
  <1>10. Down' /\ ConfigOfThisLife'
    BY <1>1, <1>4 DEF Down, ConfigOfThisLife
  <1>11. QED
    BY <1>2, <1>5, <1>8, <1>9, <1>10 DEF LifeInv

(* A step of Start() fails: the rules of traffic policing, the only thing  *)
(* it can have configured, are removed again.                              *)
LEMMA StartFailsLemma ==
  ASSUME LifeInv, NEW profile \in Profiles, NEW i \in DOMAIN Steps,
         StartFailsAt(profile, Steps[i])
  PROVE  LifeInv'
  <1> DEFINE step == Steps[i]
             filter == IF step = "tnd" THEN FilterOf(StartedDaemon(profile)) ELSE {}
             undone == IF "trafpol" \in {Stops(step)[j] : j \in DOMAIN Stops(step)}
                       THEN {"filter"} ELSE {}
             new == IF StoppedTwice(Stops(step)) THEN "panicked" ELSE "failed"
  <1>1. BeginStart /\ Gone(new) /\ host' = ((host \ All(CleanupCmds)) \cup filter) \ undone
    BY DEF StartFailsAt
  <1>2. new \in {"down", "failed", "panicked", "crashed"} /\ new # "up" /\ new # "crashed"
    OBVIOUS
  <1>3. filter \subseteq undone
    <2>1. CASE step = "tnd"
      <3>1. Stops(step) = <<"trafpol", "dbus", "server", "server", "runner", "vpnsetup",
                            "profmon", "sleepmon">>
        BY <2>1 DEF Stops
      <3>2. 1 \in DOMAIN Stops(step) /\ Stops(step)[1] = "trafpol"
        BY <3>1
      <3>3. undone = {"filter"}
        BY <3>2
      <3>4. filter \subseteq {"filter"}
        BY DEF FilterOf
      <3>5. QED
        BY <3>3, <3>4
    <2>2. CASE step # "tnd"
      BY <2>2
    <2>3. QED
      BY <2>1, <2>2
  <1> HIDE DEF new, filter, undone
  <1>4. /\ life' \in 0 .. MaxLives
        /\ procs' \in [OCPids -> {"none", "running", "interrupted", "gone"}]
        /\ UNCHANGED <<born, pidfile, saved>>
        /\ Ordered' /\ PIDFileNewest' /\ LeftoverInterrupted'
    BY <1>1, BeginStartLemma DEF LifeInv
  <1>5. DaemonInv' /\ Down' /\ ConfigOfThisLife' /\ phase' = new
    BY <1>1, <1>2, GoneLemma
  <1>6. host' \subseteq {"sysctl"}
    BY <1>1, <1>3, CleanedUp DEF LifeInv, LifeTypes
  <1>7. LifeTypes'
    BY <1>2, <1>4, <1>5, <1>6, Commands DEF LifeInv, LifeTypes, Items
  <1>8. RestartIsClean'
    BY <1>2, <1>5, <1>6 DEF RestartIsClean
  <1>9. QED
    BY <1>4, <1>5, <1>7, <1>8 DEF LifeInv

(* The process dies in the clean-up: the next one cleans up what is left.  *)
LEMMA CrashInCleanupLemma ==
  ASSUME LifeInv, NEW n \in DOMAIN CleanupCmds, CrashInCleanup(n)
  PROVE  LifeInv'
  <1>1. BeginStart /\ Gone("crashed") /\ host' \subseteq host
    BY DEF CrashInCleanup
  <1>2. /\ life' \in 0 .. MaxLives
        /\ procs' \in [OCPids -> {"none", "running", "interrupted", "gone"}]
        /\ UNCHANGED <<born, pidfile, saved>>
        /\ Ordered' /\ PIDFileNewest' /\ LeftoverInterrupted'
    BY <1>1, BeginStartLemma DEF LifeInv
  <1>3. DaemonInv' /\ Down' /\ ConfigOfThisLife' /\ phase' = "crashed"
    BY <1>1, GoneLemma
  <1>4. LifeTypes' /\ RestartIsClean'
    BY <1>1, <1>2, <1>3 DEF LifeInv, LifeTypes, RestartIsClean, Items
  <1>5. QED
    BY <1>2, <1>3, <1>4 DEF LifeInv

(* A step of the running daemon with its commands on the host. *)
LEMMA StepLemma == LifeInv /\ Step => LifeInv'
  <1> SUFFICES ASSUME LifeInv, Step PROVE LifeInv'
    OBVIOUS
  <1>1. /\ phase = "up" /\ DaemonSteps /\ host' = HostAfter(d, d')
        /\ UNCHANGED <<phase, life, procs, born, pidfile, saved>>
    BY DEF Step
  <1>2. DaemonInv'
    BY <1>1, StepsOfEnvironment, DaemonNextInv DEF LifeInv
  <1>3. Owned(d')
    BY <1>1, StepOwned DEF LifeInv, ConfigOfThisLife, Owned
  <1>4. host \ {"sysctl"} = Known(d)
    BY <1>1 DEF LifeInv, RestartIsClean, Known
  <1> DEFINE y == d'
  <1>5. HostAfter(d, y) \subseteq Items /\ HostAfter(d, y) \ {"sysctl"} = Known(y)
    BY <1>4, HostAfterKnown DEF LifeInv, LifeTypes
  <1>6. LifeTypes'
    BY <1>1, <1>5 DEF LifeInv, LifeTypes, Items
  <1>7. RestartIsClean'
    BY <1>1, <1>5 DEF RestartIsClean, Known, FilterOf
  <1>8. Mine' = Mine
    BY <1>1 DEF Mine
  <1>9. Down' /\ Ordered' /\ PIDFileNewest' /\ LeftoverInterrupted'
    BY <1>1, <1>8 DEF LifeInv, Down, Ordered, PIDFileNewest, LeftoverInterrupted
  <1>10. ConfigOfThisLife'
    BY <1>1, <1>3 DEF ConfigOfThisLife, Owned
  <1>11. QED
    BY <1>2, <1>6, <1>7, <1>9, <1>10 DEF LifeInv

(* The process dies in a handler, or ends. *)
LEMMA ProcessEndsLemma == LifeInv /\ (Crash \/ Exit) => LifeInv'
  <1> SUFFICES ASSUME LifeInv, Crash \/ Exit PROVE LifeInv'
    OBVIOUS
  <1>1. UNCHANGED <<life, procs, born, pidfile, saved>> /\ phase = "up" /\ Mine' = Mine
    BY DEF Crash, Exit, Mine
  <1>2. ASSUME NEW new \in {"down", "crashed"}, Gone(new), host' \subseteq Items,
               new = "down" => host' \subseteq {"sysctl"}
        PROVE  LifeInv'
    <2>1. DaemonInv' /\ Down' /\ ConfigOfThisLife' /\ phase' = new
      BY <1>2, GoneLemma
    <2>2. LifeTypes'
      BY <1>1, <1>2, <2>1 DEF LifeInv, LifeTypes, Items
    <2>3. RestartIsClean'
      BY <1>2, <2>1 DEF RestartIsClean
    <2>4. Ordered' /\ PIDFileNewest' /\ LeftoverInterrupted'
      BY <1>1, <1>2, <2>1 DEF LifeInv, Ordered, PIDFileNewest, LeftoverInterrupted
    <2>5. QED
      BY <2>1, <2>2, <2>3, <2>4 DEF LifeInv
  <1>3. CASE Crash
    <2>1. Gone("crashed") /\ host' \in Interrupted /\ host \subseteq Items
      BY <1>3 DEF Crash, LifeInv, LifeTypes
    <2>2. "filter" \in Items
      BY DEF Items
    <2>3. host' \subseteq Items
      BY <2>1, <2>2, SomeCommands DEF Interrupted
    <2>4. QED
      BY <1>2, <2>1, <2>3
  <1>4. CASE Exit
    <2>1. Gone("down") /\ host' = host /\ dpc = "closed"
      BY <1>4 DEF Exit
    <2>2. d.setup = NoConfig /\ d.trafpol = "nil"
      BY <2>1 DEF LifeInv, DaemonInv, Good, Clean
    <2>3. host \ {"sysctl"} = {} /\ host \subseteq Items
      BY <1>1, <2>2 DEF LifeInv, LifeTypes, RestartIsClean, FilterOf
    <2>4. QED
      BY <1>2, <2>1, <2>3
  <1>5. QED
    BY <1>3, <1>4

-----------------------------------------------------------------------------
(* Before the first life. *)
LEMMA LifeInitInv == LifeInit => LifeInv
  <1> SUFFICES ASSUME LifeInit PROVE LifeInv
    OBVIOUS
  <1>1. /\ d = NoDaemon /\ dpc = "closed" /\ dcmd = "none" /\ phase = "down" /\ life = 0
        /\ host = {} /\ procs = [p \in OCPids |-> "none"] /\ born = [p \in OCPids |-> 0]
        /\ pidfile = 0 /\ saved = {}
    BY DEF LifeInit
  <1> DEFINE n == NoDaemon
  <1>2. /\ Good(n) /\ ~n.OCRunning /\ n.trafpol = "nil" /\ n.tnd = "nil"
        /\ n.setup = NoConfig /\ n.OCPID = 0
    BY NoDaemonLemma
  <1>3. Down
    BY <1>1 DEF Down
  <1> HIDE DEF n
  <1>4. DaemonInv /\ ConfigOfThisLife
    BY <1>1, <1>2 DEF DaemonInv, ConfigOfThisLife, n
  <1>5. LifeTypes
    BY <1>1, LifeAssumption DEF LifeTypes, Items
  <1>6. Ordered /\ PIDFileNewest /\ RestartIsClean /\ LeftoverInterrupted
    BY <1>1, LifeAssumption DEF Ordered, PIDFileNewest, RestartIsClean, LeftoverInterrupted
  <1>7. QED
    BY <1>3, <1>4, <1>5, <1>6 DEF LifeInv

(* Every step of a life, and from one to the next. *)
LEMMA LifeNextInv == LifeInv /\ [LifeNext]_allVars => LifeInv'
  <1> SUFFICES ASSUME LifeInv, [LifeNext]_allVars PROVE LifeInv'
    OBVIOUS
  <1>1. CASE UNCHANGED allVars
    <2>1. UNCHANGED <<d, dpc, dcmd, phase, life, host, procs, born, pidfile, saved>>
      BY <1>1 DEF allVars, daemonVars, lifeVars
    <2>2. Mine' = Mine
      BY <2>1 DEF Mine
    <2>3. QED
      BY <2>1, <2>2
      DEF LifeInv, DaemonInv, LifeTypes, Down, Ordered, PIDFileNewest, RestartIsClean,
          LeftoverInterrupted, ConfigOfThisLife, FilterOf, NoDaemon
  <1>2. QED
    BY <1>1, StartLemma, StartFailsLemma, CrashInCleanupLemma, StepLemma, OCStartLemma,
       SavePIDFileLemma, OCEndLemma, ProcessEndsLemma
    DEF LifeNext

(* The invariant holds in every state of every behaviour, over any number  *)
(* of lives, crashes, failed starts and openconnect processes.             *)
THEOREM LifeInvariance == LifeSpec => []LifeInv
  BY LifeInitInv, LifeNextInv, PTL DEF LifeSpec

(* What a crash left on the host is gone when the daemon has been started  *)
(* again, and after a failed Start() and a shutdown nothing is left.       *)
THEOREM LifeRestartIsClean == LifeSpec => []RestartIsClean
  BY LifeInvariance, PTL DEF LifeInv

(* No saved openconnect of an earlier life is left running. *)
THEOREM LifeLeftoverInterrupted == LifeSpec => []LeftoverInterrupted
  BY LifeInvariance, PTL DEF LifeInv

(* The daemon configures only what processes of its own life report. *)
THEOREM LifeConfigOfThisLife == LifeSpec => []ConfigOfThisLife
  BY LifeInvariance, PTL DEF LifeInv

(* The invariants of the daemon hold in every life, whatever crashes and   *)
(* restarts came before.                                                   *)
THEOREM LifeDaemonInvariants ==
  LifeSpec => [](/\ PolicedAddrsExact /\ DisconnectedIsClean /\ ReportedConfigIsActive
                 /\ PolicingJustified /\ PolicingStatusTruthful /\ CleanShutdown)
  <1>1. LifeInv => /\ PolicedAddrsExact /\ DisconnectedIsClean /\ ReportedConfigIsActive
                   /\ PolicingJustified /\ PolicingStatusTruthful /\ CleanShutdown
    BY DEF LifeInv, DaemonInv, Good, Policed, Clean, Started, Justified, PolicedAddrsExact,
           DisconnectedIsClean, ReportedConfigIsActive, PolicingJustified,
           PolicingStatusTruthful, CleanShutdown
  <1>2. QED
    BY <1>1, LifeInvariance, PTL

=============================================================================
