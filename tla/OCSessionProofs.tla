-------------------------- MODULE OCSessionProofs ---------------------------
(***************************************************************************)
(* The composition of daemon, runner, openconnect, scripts and socket      *)
(* server implements VPNSession, for any number of connections, addresses, *)
(* profiles and failures: every step of the composition is a step of the   *)
(* session or leaves it alone.  On top of the invariant of OCDaemonProofs  *)
(* this needs to know which requests can still be on their way.            *)
(***************************************************************************)
EXTENDS OCSession, OCDaemonProofs

NoOrphan == \A p \in Pids : ~KilledConnected(p)

(* How far a process has come, and the script it runs. *)
Phases ==
  /\ \A p \in Pids : proc[p] = "none" => phase[p] = "started" /\ script[p] = NoScript
  /\ \A p \in Pids : p > pid => proc[p] = "none"
  /\ \A p \in Pids : script[p].reason \in {"connect", "reconnect"} => phase[p] = "connected"
  /\ dpc = "panic" /\ ~d.OCRunning => \A p \in Pids : ~Alive(p)
  /\ dcmd = "connect" => d.setup = NoConfig

(* The server refuses requests only when the main loop has ended. *)
Refuses == shutdown \/ sdone => rdone

(* Unless a connected openconnect was killed, the active configuration is  *)
(* that of the process the runner controls, whose request to set it up has *)
(* been handled.                                                           *)
Own ==
  NoOrphan /\ d.setup # NoConfig =>
    /\ pid \in Pids
    /\ d.setup.pid = pid
    /\ script[pid].reason # "connect"
    /\ phase[pid] \in {"connected", "lost", "ended"}

(* The request to set up the configuration has been handled. *)
Delivered ==
  /\ pid \in Pids
  /\ Alive(pid)
  /\ phase[pid] \in {"connected", "lost"}
  /\ script[pid].reason # "connect"

(* Without read errors, the daemon has a configuration when it is handled  *)
(* and nobody asked for a disconnect.                                      *)
Configured ==
  NoOrphan =>
    /\ d.ConnectionState = "Connected" => d.setup # NoConfig
    /\ dpc \in {"select", "sendCmd"} /\ srv # "closed" /\ Delivered
         /\ d.ConnectionState \in {"Connecting", "Connected"}
       => d.setup # NoConfig

(* The inductive invariant. *)
SessionInv == OCDaemonInv /\ Phases /\ Refuses /\ Own

-----------------------------------------------------------------------------
(* What steps of the daemon do to the VPN connection. *)

(* Nothing but, perhaps, giving up the connection state. *)
Quiet ==
  /\ d'.OCRunning = d.OCRunning
  /\ d'.setup = d.setup
  /\ d'.ConnectionState \in {d.ConnectionState, "Disconnecting"}
  /\ dcmd' = "connect" <=> dcmd = "connect"
  /\ SessionOpen' <=> SessionOpen
  /\ dpc' \in {"select", "sendCmd"} => dpc \in {"select", "sendCmd"}
  /\ dpc' = "panic" => dpc \in {"select", "panic"}

(* The main loop ends: the connection is given up, with its configuration. *)
Finishes ==
  /\ dpc = "select" /\ dpc' = "waitRunner"
  /\ dcmd' = "none"
  /\ ~(d'.OCRunning)
  /\ d'.setup = NoConfig
  /\ d'.ConnectionState = "Disconnected"

(* No process starts or ends. *)
SameProcs ==
  /\ pid' = pid
  /\ \A p \in Pids : /\ Alive(p)' <=> Alive(p)
                     /\ proc'[p] = "dead" <=> proc[p] = "dead"
                     /\ proc'[p] = "none" <=> proc[p] = "none"

(* A handler that leaves the connection alone ends in one of the two ways. *)
LEMMA HandledQuiet ==
  ASSUME NEW x, Good(x), SameVPN(d, x), dpc = "select", dcmd = "none", Handled(x)
  PROVE  Quiet \/ Finishes
  <1>1. CASE x.trafpol = "failed" \/ x.tnd = "failed"
    <2>1. d' = HandleRunnerDisconnect(x) /\ dpc' = "waitRunner" /\ dcmd' = "none"
      BY <1>1 DEF Handled, Return
    <2>2. Good(d') /\ ~(d'.OCRunning)
      BY <2>1, HandleRunnerDisconnectLemma
    <2>3. QED
      BY <2>1, <2>2 DEF Finishes, Good, Clean
  <1>2. CASE ~(x.trafpol = "failed" \/ x.tnd = "failed")
    BY <1>2 DEF Handled, Quiet, SameVPN, SessionOpen
  <1>3. QED
    BY <1>1, <1>2

(* A handler that asks the runner to disconnect. *)
LEMMA DisconnectingQuiet ==
  ASSUME NEW x \in DaemonState, SameVPN(d, x), dpc = "select", dcmd = "none",
         NEW cmd \in {"disconnect", "disconnectThenCheck"}, Send(Disconnecting(x), cmd)
  PROVE  Quiet
  <1> DEFINE y == Disconnecting(x)
  <1>1. d' = y /\ dpc' = "sendCmd" /\ dcmd' = cmd
    BY DEF Send
  <1>2. y.OCRunning = x.OCRunning /\ y.setup = x.setup /\ y.ConnectionState = "Disconnecting"
    BY DEF Disconnecting, DaemonState
  <1> HIDE DEF y
  <1>3. QED
    BY <1>1, <1>2 DEF Quiet, SameVPN, SessionOpen

QuietActions ==
  \/ DaemonNilRequest \/ DaemonDBusDisconnect \/ DaemonSleepMonResume \/ DaemonTNDResult
  \/ DaemonProfileUpdate \/ DaemonCPDStatusUpdate \/ DaemonSendDisconnect \/ DaemonDone
  \/ DaemonRunnerStopped \/ DaemonServerStopped

(* Most actions of the daemon leave the connection alone or give it up. *)
LEMMA QuietActionsLemma ==
  ASSUME DaemonInv, Link, QuietActions
  PROVE  Quiet \/ Finishes
  <1>g. Good(d) /\ (dpc = "select" => dcmd = "none") /\ SameVPN(d, d)
    BY DEF DaemonInv, Link, SameVPN
  <1>o. Outcomes("trafpol") \subseteq BOOLEAN /\ Outcomes("tnd") \subseteq BOOLEAN
    BY DEF Outcomes
  <1>1. CASE DaemonNilRequest
    BY <1>1 DEF DaemonNilRequest, NilRequest, Quiet, SessionOpen
  <1>2. CASE DaemonDBusDisconnect \/ DaemonSleepMonResume
    <2>1. dpc = "select" /\ Send(Disconnecting(d), "disconnect")
      BY <1>2 DEF DaemonDBusDisconnect, DaemonSleepMonResume, SleepMonResume, DBusDisconnect
    <2>2. QED
      BY <1>g, <2>1, DisconnectingQuiet DEF Good
  <1>3. CASE DaemonTNDResult
    <2>1. PICK trusted \in BOOLEAN, ok \in Outcomes("trafpol") : TNDResult(trusted, ok)
      BY <1>3 DEF DaemonTNDResult
    <2> DEFINE x == [d EXCEPT !.TrustedNetwork = trusted]
               z == CheckTrafPol(x, ok)
    <2>2. Good(x)
      BY <1>g, SetTrustedNetworkLemma
    <2>3. SameVPN(d, x)
      BY <1>g DEF SameVPN, Good, DaemonState
    <2>4. /\ dpc = "select"
          /\ Send(Disconnecting(x), "disconnectThenCheck") \/ Handled(z)
      BY <2>1 DEF TNDResult
    <2> HIDE DEF x
    <2>5. Good(z) /\ SameVPN(d, z)
      BY <1>o, <2>2, <2>3, CheckTrafPolLemma, SameVPNTrafPol DEF SameVPN
    <2> HIDE DEF z
    <2>6. QED
      BY <1>g, <2>2, <2>3, <2>4, <2>5, HandledQuiet, DisconnectingQuiet DEF Good
  <1>4. CASE DaemonProfileUpdate
    <2>1. PICK profile \in Profiles, ok1 \in Outcomes("trafpol"), ok2 \in Outcomes("tnd") :
            ProfileUpdate(profile, ok1, ok2)
      BY <1>4 DEF DaemonProfileUpdate
    <2> DEFINE y == HandleProfileUpdate(d, profile, ok1, ok2)
    <2>2. dpc = "select" /\ Handled(y)
      BY <2>1 DEF ProfileUpdate
    <2>3. Good(y) /\ SameVPN(d, y)
      BY <1>g, <1>o, HandleProfileUpdateLemma, SameVPNProfileUpdate
    <2> HIDE DEF y
    <2>4. QED
      BY <1>g, <2>2, <2>3, HandledQuiet
  <1>5. CASE DaemonCPDStatusUpdate
    <2>1. PICK detected \in BOOLEAN : CPDStatusUpdate(detected)
      BY <1>5 DEF DaemonCPDStatusUpdate
    <2> DEFINE y == HandleCPDStatusUpdate(d, detected)
    <2>2. dpc = "select" /\ d.trafpol = "running" /\ Handled(y)
      BY <2>1 DEF CPDStatusUpdate
    <2>3. Good(y)
      BY <1>g, <2>2, HandleCPDStatusUpdateLemma
    <2>4. SameVPN(d, y)
      BY <1>g DEF HandleCPDStatusUpdate, SameVPN, Good, DaemonState
    <2> HIDE DEF y
    <2>5. QED
      BY <1>g, <2>2, <2>3, <2>4, HandledQuiet
  <1>6. CASE DaemonSendDisconnect
    <2> DEFINE z == CheckTrafPol(d, TRUE)
    <2>1. /\ dpc = "sendCmd" /\ dcmd # "connect"
          /\ Handled(IF dcmd = "disconnectThenCheck" THEN z ELSE d)
      BY <1>6 DEF DaemonSendDisconnect, CommandSent
    <2>2. Started(d)
      BY <2>1 DEF DaemonInv
    <2>3. SameVPN(d, z) /\ Started(z)
      BY <1>g, <2>2, SameVPNTrafPol, CheckTrafPolLemma, CheckSucceeds DEF Started
    <2> HIDE DEF z
    <2>4. d' \in {d, z} /\ dpc' = "select" /\ dcmd' = "none"
      BY <2>1, <2>2, <2>3 DEF Handled, Started
    <2>5. QED
      BY <1>g, <2>1, <2>3, <2>4 DEF Quiet, SameVPN, SessionOpen
  <1>7. CASE DaemonDone
    <2>1. dpc = "select" /\ d' = HandleRunnerDisconnect(d) /\ dpc' = "waitRunner" /\ dcmd' = "none"
      BY <1>7 DEF DaemonDone, StopRequested, Return
    <2>2. Good(d') /\ ~(d'.OCRunning)
      BY <1>g, <2>1, HandleRunnerDisconnectLemma
    <2>3. QED
      BY <2>1, <2>2 DEF Finishes, Good, Clean
  <1>8. CASE DaemonRunnerStopped
    BY <1>8 DEF DaemonRunnerStopped, RunnerStopped, Quiet, SessionOpen
  <1>9. CASE DaemonServerStopped
    <2> DEFINE x == StopTND(d)
               y == StopTrafPol(x)
    <2>1. Good(x) /\ SameVPN(d, x)
      BY <1>g, SetTNDLemma, SameVPNTND DEF StopTND
    <2>2. dpc = "waitServer" /\ dpc' \in {"hung", "closed"} /\ d' \in {x, y} /\ dcmd' = dcmd
      <3>1. CASE d.trafpol = "failed"
        BY <1>9, <3>1 DEF DaemonServerStopped, ServerStopped
      <3>2. CASE d.trafpol # "failed"
        BY <1>9, <3>2 DEF DaemonServerStopped, ServerStopped
      <3>3. QED
        BY <3>1, <3>2
    <2> HIDE DEF x
    <2>3. SameVPN(x, y)
      BY <2>1, SameVPNTrafPol
    <2> HIDE DEF y
    <2>4. SameVPN(d, d')
      BY <2>1, <2>2, <2>3 DEF SameVPN
    <2>5. QED
      BY <2>2, <2>4 DEF Quiet, SameVPN, SessionOpen
  <1>10. QED
    BY <1>1, <1>2, <1>3, <1>4, <1>5, <1>6, <1>7, <1>8, <1>9 DEF QuietActions

(* Interrupting the process changes neither who lives nor who is dead. *)
LEMMA InterruptSameProcs ==
  ASSUME RunnerTypeOK, proc' \in {proc, Interrupt(proc)}, pid' = pid
  PROVE  SameProcs
  BY DEF SameProcs, Interrupt, Alive, RunnerTypeOK

(* The actions above do no more to processes than interrupting one, and    *)
(* none to scripts.                                                        *)
LEMMA QuietActionsProcs ==
  ASSUME RunnerTypeOK, QuietActions
  PROVE  SameProcs /\ UNCHANGED <<phase, script, srv>>
  <1>1. proc' \in {proc, Interrupt(proc)} /\ pid' = pid
    <2>1. CASE DaemonTNDResult \/ DaemonProfileUpdate \/ DaemonDone
      <3>1. Deferred
        BY <2>1 DEF DaemonTNDResult, DaemonProfileUpdate, DaemonDone
      <3>2. QED
        BY <3>1 DEF Deferred, CloseDone, runnerVars
    <2>2. CASE DaemonSendDisconnect
      BY <2>2 DEF DaemonSendDisconnect, RecvDisconnect
    <2>3. CASE \/ DaemonNilRequest \/ DaemonDBusDisconnect \/ DaemonSleepMonResume
               \/ DaemonCPDStatusUpdate \/ DaemonRunnerStopped \/ DaemonServerStopped
      BY <2>3
      DEF DaemonNilRequest, DaemonDBusDisconnect, DaemonSleepMonResume,
          DaemonCPDStatusUpdate, DaemonRunnerStopped, DaemonServerStopped, runnerVars
    <2>4. QED
      BY <2>1, <2>2, <2>3 DEF QuietActions
  <1>2. UNCHANGED <<phase, script, srv>>
    BY DEF QuietActions, DaemonNilRequest, DaemonDBusDisconnect, DaemonSleepMonResume,
           DaemonTNDResult, DaemonProfileUpdate, DaemonCPDStatusUpdate, DaemonSendDisconnect,
           DaemonDone, DaemonRunnerStopped, DaemonServerStopped, ocVars, serverVars
  <1>3. QED
    BY <1>1, <1>2, InterruptSameProcs

(* Nor do the goroutines of the runner. *)
LEMMA RunnerStepProcs ==
  ASSUME RunnerTypeOK, RunnerStep
  PROVE  SameProcs /\ UNCHANGED <<phase, script, srv, d, dpc, dcmd>>
  <1>1. proc' \in {proc, Interrupt(proc)} /\ pid' = pid
    BY DEF RunnerStep, RunnerInternal, RecvExit, EventAborted, EventDone, HandleStop,
           StopExit, WaitReturns
  <1>2. QED
    BY <1>1, InterruptSameProcs DEF RunnerStep, ocVars, serverVars, daemonVars

-----------------------------------------------------------------------------
(* The invariants, group by group of actions. *)

(* Steps of daemon and runner that neither set up a configuration nor      *)
(* start or end a process.                                                 *)
LEMMA QuietInv ==
  ASSUME OCDaemonInv, Phases, Own, Quiet \/ Finishes, SameProcs,
         UNCHANGED <<phase, script, srv>>
  PROVE  Phases' /\ Own' /\ (Configured => Configured')
  <1>0. pid' = pid /\ UNCHANGED <<phase, script, srv>>
    BY DEF SameProcs
  <1>1. NoOrphan' <=> NoOrphan
    BY <1>0 DEF NoOrphan, KilledConnected, SameProcs
  <1>2. Delivered' => Delivered
    BY <1>0 DEF Delivered, SameProcs
  <1>3. Phases'
    <2>1. \A p \in Pids : proc'[p] = "none" => phase'[p] = "started" /\ script'[p] = NoScript
      BY <1>0 DEF Phases, SameProcs, NoScript
    <2>2. \A p \in Pids : p > pid' => proc'[p] = "none"
      BY <1>0 DEF Phases, SameProcs
    <2>3. \A p \in Pids : script'[p].reason \in {"connect", "reconnect"} => phase'[p] = "connected"
      BY <1>0 DEF Phases
    <2>4. CASE Quiet
      <3>1. dpc' = "panic" /\ ~(d'.OCRunning) => \A p \in Pids : ~Alive(p)'
        BY <2>4 DEF Quiet, Phases, SameProcs, OCDaemonInv, Link, NothingRuns
      <3>2. dcmd' = "connect" => d'.setup = NoConfig
        BY <2>4 DEF Quiet, Phases
      <3>3. QED
        BY <2>1, <2>2, <2>3, <3>1, <3>2 DEF Phases, NoScript, NoConfig
    <2>5. CASE Finishes
      BY <2>1, <2>2, <2>3, <2>5 DEF Finishes, Phases, NoScript
    <2>6. QED
      BY <2>4, <2>5
  <1>4. Own'
    BY <1>0, <1>1 DEF Own, Quiet, Finishes, NoConfig
  <1>5. Configured => Configured'
    BY <1>0, <1>1, <1>2 DEF Configured, Quiet, Finishes, NoConfig
  <1>6. QED
    BY <1>3, <1>4, <1>5

(* openconnect runs its script: only the current process does, and it asks *)
(* for a configuration only once.                                          *)
LEMMA RunScriptInv ==
  ASSUME OCDaemonInv, Phases, Own, NEW p \in Pids, Alive(p),
         NEW from, NEW reason \in Reasons, NEW to, RunScript(p, from, reason, to),
         to \in {"inited", "connected", "lost", "ended"},
         reason \in {"connect", "reconnect"} => to = "connected",
         reason = "connect" => phase[p] = "inited",
         reason # "connect" => (to = "inited" \/ phase[p] \in {"connected", "lost"}),
         to = "inited" => phase[p] = "started"
  PROVE  Phases' /\ Own' /\ (Configured => Configured')
  <1>1. PICK flag \in BOOLEAN :
          script' = [script EXCEPT ![p] = [reason |-> reason, stage |-> "dial", disable |-> flag]]
    BY OCDaemonAssumption DEF RunScript
  <1>2. /\ phase' = [phase EXCEPT ![p] = to] /\ script[p] = NoScript
        /\ UNCHANGED <<runnerVars, daemonVars, srv>>
    BY DEF RunScript, serverVars
  <1>3. /\ script'[p].reason = reason /\ phase'[p] = to
        /\ \A q \in Pids : q # p => script'[q] = script[q] /\ phase'[q] = phase[q]
    BY <1>1, <1>2 DEF OCDaemonInv, Requests
  <1>4. UNCHANGED <<pid, proc, d, dpc, dcmd, srv>>
    BY <1>2 DEF runnerVars, daemonVars
  <1>5. pid = p /\ proc[p] # "none" /\ proc[p] # "dead" /\ script[p].reason = "none"
    BY <1>2 DEF OCDaemonInv, RunnerInv, NoProcessLost, Alive, NoScript
  <1>6. NoOrphan' <=> NoOrphan
    BY <1>3, <1>4, <1>5 DEF NoOrphan, KilledConnected
  <1>7. Phases'
    BY <1>3, <1>4, <1>5 DEF Phases, Alive, NoScript, NoConfig
  <1>8. Own'
    BY <1>3, <1>4, <1>5, <1>6 DEF Own, NoConfig
  <1>9. Delivered' => Delivered
    BY <1>3, <1>4, <1>5 DEF Delivered, Alive
  <1>10. Configured => Configured'
    BY <1>4, <1>6, <1>9 DEF Configured, NoConfig
  <1>11. QED
    BY <1>7, <1>8, <1>10

(* Scripts connect, or end without their request being handled.  What is   *)
(* lost this way is lost with the server, with the main loop or in a read  *)
(* error.                                                                  *)
LEMMA ScriptsInv ==
  ASSUME OCDaemonInv, Phases, Own, UNCHANGED <<runnerVars, daemonVars, phase>>,
         \A p \in Pids : script'[p].reason \in {script[p].reason, "none"},
         \A p \in Pids : script[p] = NoScript => script'[p] = NoScript,
         srv = "closed" => srv' = "closed"
  PROVE  /\ Phases' /\ Own'
         /\ \/ \A p \in Pids : script'[p].reason = script[p].reason
            \/ srv' = "closed"
            \/ dpc \notin {"select", "sendCmd"}
            => (Configured => Configured')
  <1>1. UNCHANGED <<pid, proc, d, dpc, dcmd, phase>>
    BY DEF runnerVars, daemonVars
  <1>2. NoOrphan' <=> NoOrphan
    BY <1>1 DEF NoOrphan, KilledConnected
  <1>3. Phases'
    BY <1>1 DEF Phases, Alive, NoScript, NoConfig
  <1>4. Own'
    BY <1>1, <1>2 DEF Own, NoConfig
  <1>5. (\A p \in Pids : script'[p].reason = script[p].reason) => (Delivered' => Delivered)
    BY <1>1 DEF Delivered, Alive
  <1>6. ASSUME \/ \A p \in Pids : script'[p].reason = script[p].reason
               \/ srv' = "closed"
               \/ dpc \notin {"select", "sendCmd"},
               Configured
        PROVE  Configured'
    BY <1>1, <1>2, <1>5, <1>6 DEF Configured, NoConfig
  <1>7. QED
    BY <1>3, <1>4, <1>6

(* A process ends.  If it was connected and killed, it is an orphan. *)
LEMMA ProcExitInv ==
  ASSUME OCDaemonInv, Phases, Own, NEW p \in Pids, ProcExit(p),
         UNCHANGED <<daemonVars, phase, script, srv>>
  PROVE  /\ Phases' /\ Own' /\ (Configured => Configured')
         /\ NoOrphan' => NoOrphan
  <1>1. /\ UNCHANGED <<pid, d, dpc, dcmd, phase, script, srv>>
        /\ proc' = [proc EXCEPT ![p] = "dead"] /\ Alive(p)
    BY DEF ProcExit, daemonVars
  <1>2. \A q \in Pids : proc'[q] = IF q = p THEN "dead" ELSE proc[q]
    BY <1>1 DEF OCDaemonInv, RunnerInv, RunnerTypeOK
  <1>3. NoOrphan' => NoOrphan
    BY <1>1, <1>2 DEF NoOrphan, KilledConnected, Alive
  <1>4. Phases'
    BY <1>1, <1>2 DEF Phases, Alive, NoScript, NoConfig
  <1>5. Own'
    BY <1>1, <1>3 DEF Own, NoConfig
  <1>6. Delivered' => Delivered
    BY <1>1, <1>2 DEF Delivered, Alive
  <1>7. Configured => Configured'
    BY <1>1, <1>3, <1>6 DEF Configured, NoConfig
  <1>8. QED
    BY <1>3, <1>4, <1>5, <1>7

-----------------------------------------------------------------------------
(* The request of a script. *)

(* What a request does to configuration and connection state. *)
LEMMA UpdateVPNConfigCases ==
  ASSUME NEW x, NEW reason \in Reasons, NEW config \in Configs, Good(x)
  PROVE  LET y == UpdateVPNConfig(x, reason, config)
         IN  /\ y.OCRunning = x.OCRunning
             /\ \/ /\ y.setup = x.setup /\ y.ConnectionState = x.ConnectionState
                   /\ reason = "connect" => \/ config = x.setup
                                            \/ ~x.OCRunning
                                            \/ x.ConnectionState = "Connected"
                \/ /\ reason = "connect" /\ x.OCRunning
                   /\ y.setup = config /\ y.ConnectionState = "Connected"
                \/ /\ reason = "disconnect" /\ x.ConnectionState \notin {"Connecting", "Connected"}
                   /\ y.setup = NoConfig /\ y.ConnectionState = x.ConnectionState
                \/ /\ reason = "attempt-reconnect" /\ y.setup = x.setup
                   /\ x.ConnectionState \in {"Connecting", "Connected"}
                   /\ y.ConnectionState = "Connecting"
                \/ /\ reason = "reconnect" /\ y.setup = x.setup
                   /\ x.ConnectionState = "Connecting" /\ y.ConnectionState = "Connected"
  <1> DEFINE y == UpdateVPNConfig(x, reason, config)
  <1>0. x \in DaemonState /\ x.VPNConfig = x.setup
    BY DEF Good, Clean
  <1>1. CASE reason = "pre-init"
    BY <1>1 DEF UpdateVPNConfig
  <1>2. CASE reason = "connect"
    <2>1. y = UpdateVPNConfigUp(x, config)
      BY <1>2 DEF UpdateVPNConfig
    <2>2. CASE config = x.VPNConfig \/ ~x.OCRunning \/ x.ConnectionState = "Connected"
      BY <1>0, <1>2, <2>1, <2>2 DEF UpdateVPNConfigUp
    <2>3. CASE ~(config = x.VPNConfig \/ ~x.OCRunning \/ x.ConnectionState = "Connected")
      BY <1>0, <1>2, <2>1, <2>3 DEF UpdateVPNConfigUp, DaemonState
    <2>4. QED
      BY <2>2, <2>3
  <1>3. CASE reason = "disconnect"
    <2>1. y = UpdateVPNConfigDown(x)
      BY <1>3 DEF UpdateVPNConfig
    <2>2. CASE x.ConnectionState \in {"Connecting", "Connected"}
      BY <1>3, <2>1, <2>2 DEF UpdateVPNConfigDown
    <2>3. CASE x.ConnectionState \notin {"Connecting", "Connected"}
      BY <1>0, <1>3, <2>1, <2>3 DEF UpdateVPNConfigDown, DaemonState
    <2>4. QED
      BY <2>2, <2>3
  <1>4. CASE reason = "attempt-reconnect"
    <2>1. y = HandleVPNAttemptReconnect(x)
      BY <1>4 DEF UpdateVPNConfig
    <2>2. QED
      BY <1>0, <1>4, <2>1 DEF HandleVPNAttemptReconnect, DaemonState
  <1>5. CASE reason = "reconnect"
    <2>1. y = HandleVPNReconnect(x)
      BY <1>5 DEF UpdateVPNConfig
    <2>2. QED
      BY <1>0, <1>5, <2>1 DEF HandleVPNReconnect, DaemonState
  <1>6. QED
    BY <1>1, <1>2, <1>3, <1>4, <1>5 DEF Reasons

(* A request never ends the main loop, and its script ends with the reply. *)
LEMMA RequestHandled ==
  ASSUME OCDaemonInv, DaemonServerRequest
  PROVE  /\ dpc = "select" /\ dpc' = "select" /\ dcmd = "none" /\ dcmd' = "none"
         /\ srv = "forward" /\ srv' = "accept" /\ UNCHANGED <<runnerVars, phase, shutdown, sdone>>
         /\ held \in Pids /\ script[held].stage = "wait" /\ script[held].reason \in Reasons
         /\ [pid |-> held, disable |-> script[held].disable] \in Configs
         /\ d' = UpdateVPNConfig(d, script[held].reason,
                                 [pid |-> held, disable |-> script[held].disable])
         /\ script' = [script EXCEPT ![held] = NoScript]
  <1> DEFINE reason == script[held].reason
             config == [pid |-> held, disable |-> script[held].disable]
             y == UpdateVPNConfig(d, reason, config)
  <1>1. held \in Pids /\ script[held] \in Scripts /\ script[held].stage = "wait" /\ srv = "forward"
    BY DEF DaemonServerRequest, Requests, OCDaemonInv
  <1>2. script[held] \in [reason : Reasons, stage : {"dial", "wait"}, disable : BOOLEAN]
    BY <1>1, NoScriptStage DEF Scripts
  <1>3. reason \in Reasons /\ config \in Configs
    BY <1>1, <1>2, OCDaemonAssumption DEF Configs
  <1>4. /\ dpc = "select" /\ Handled(y) /\ Deferred /\ srv' = "accept"
        /\ script' = [script EXCEPT ![held] = NoScript] /\ UNCHANGED <<phase, sdone>>
    BY DEF DaemonServerRequest, ClientRequest
  <1> HIDE DEF reason, config
  <1>5. Started(d) /\ Good(d) /\ dcmd = "none"
    BY <1>4 DEF OCDaemonInv, DaemonInv, Link
  <1>6. Started(y)
    BY <1>3, <1>5, UpdateVPNConfigLemma, SamePolicingLemma
  <1>7. d' = y /\ dpc' = "select" /\ dcmd' = "none"
    BY <1>4, <1>6 DEF Handled, Started
  <1>8. UNCHANGED <<runnerVars, shutdown>>
    BY <1>4, <1>7 DEF Deferred
  <1>9. QED
    BY <1>1, <1>3, <1>4, <1>5, <1>7, <1>8 DEF reason, config

(* Unless a connected process was killed, a request to set up or to resume *)
(* a connection is that of the process the runner controls.                *)
LEMMA RequesterIsCurrent ==
  ASSUME OCDaemonInv, Phases, NoOrphan, NEW p \in Pids, script[p].stage = "wait",
         script[p].reason \in {"connect", "reconnect"}
  PROVE  p = pid /\ Alive(p) /\ phase[p] = "connected"
  <1>1. phase[p] = "connected"
    BY DEF Phases
  <1>2. proc[p] # "dead"
    BY <1>1 DEF NoOrphan, KilledConnected
  <1>3. proc[p] # "none"
    BY NoScriptStage DEF Phases
  <1>4. Alive(p)
    BY <1>2, <1>3 DEF Alive, OCDaemonInv, RunnerInv, RunnerTypeOK
  <1>5. QED
    BY <1>1, <1>4 DEF OCDaemonInv, RunnerInv, NoProcessLost

(* The invariants after a request. *)
LEMMA RequestInv ==
  ASSUME OCDaemonInv, Phases, Own, DaemonServerRequest
  PROVE  Phases' /\ Own' /\ (Configured => Configured')
  <1> DEFINE reason == script[held].reason
             config == [pid |-> held, disable |-> script[held].disable]
             y == UpdateVPNConfig(d, reason, config)
  <1>1. /\ dpc = "select" /\ dpc' = "select" /\ dcmd = "none" /\ dcmd' = "none"
        /\ srv = "forward" /\ srv' = "accept" /\ UNCHANGED <<runnerVars, phase>>
        /\ held \in Pids /\ script[held].stage = "wait" /\ reason \in Reasons
        /\ config \in Configs /\ d' = y /\ script' = [script EXCEPT ![held] = NoScript]
    BY RequestHandled
  <1>2. /\ UNCHANGED <<pid, proc, phase>>
        /\ script'[held] = NoScript /\ NoScript.reason = "none"
        /\ \A q \in Pids : q # held => script'[q] = script[q]
    BY <1>1 DEF runnerVars, OCDaemonInv, Requests, NoScript
  <1>3. config.pid = held /\ config # NoConfig
    <2>1. held # 0
      BY <1>1 DEF Pids
    <2>2. QED
      BY <2>1 DEF NoConfig
  <1>4. Good(d)
    BY DEF OCDaemonInv, DaemonInv
  <1>5. y.OCRunning = d.OCRunning
    BY <1>1, <1>4, UpdateVPNConfigCases
  <1>6. \/ /\ y.setup = d.setup /\ y.ConnectionState = d.ConnectionState
           /\ reason = "connect" => \/ config = d.setup
                                    \/ ~d.OCRunning
                                    \/ d.ConnectionState = "Connected"
        \/ /\ reason = "connect" /\ d.OCRunning
           /\ y.setup = config /\ y.ConnectionState = "Connected"
        \/ /\ reason = "disconnect" /\ d.ConnectionState \notin {"Connecting", "Connected"}
           /\ y.setup = NoConfig /\ y.ConnectionState = d.ConnectionState
        \/ /\ reason = "attempt-reconnect" /\ y.setup = d.setup
           /\ d.ConnectionState \in {"Connecting", "Connected"}
           /\ y.ConnectionState = "Connecting"
        \/ /\ reason = "reconnect" /\ y.setup = d.setup
           /\ d.ConnectionState = "Connecting" /\ y.ConnectionState = "Connected"
    BY <1>1, <1>4, UpdateVPNConfigCases
  <1> HIDE DEF y, config
  <1>7. NoOrphan' <=> NoOrphan
    BY <1>2 DEF NoOrphan, KilledConnected
  <1>8. Phases'
    BY <1>1, <1>2 DEF Phases, Alive, NoScript, NoConfig
  <1>9. NoOrphan /\ reason \in {"connect", "reconnect"} =>
          held = pid /\ Alive(held) /\ phase[held] = "connected"
    BY <1>1, RequesterIsCurrent
  <1> HIDE DEF reason
  <1>10. Own'
    <2> SUFFICES ASSUME NoOrphan, d'.setup # NoConfig
                 PROVE  /\ pid \in Pids /\ d'.setup.pid = pid /\ script'[pid].reason # "connect"
                        /\ phase[pid] \in {"connected", "lost", "ended"}
      BY <1>2, <1>7 DEF Own, NoConfig
    <2>1. CASE y.setup = d.setup
      <3>1. /\ pid \in Pids /\ d.setup.pid = pid /\ script[pid].reason # "connect"
            /\ phase[pid] \in {"connected", "lost", "ended"}
        BY <1>1, <2>1 DEF Own
      <3>2. QED
        BY <1>1, <1>2, <2>1, <3>1
    <2>2. CASE reason = "connect" /\ y.setup = config
      BY <1>1, <1>2, <1>3, <1>9, <2>2
    <2>3. QED
      BY <1>1, <1>6, <2>1, <2>2
  <1>11. ASSUME Configured PROVE Configured'
    <2> SUFFICES ASSUME NoOrphan
                 PROVE  /\ d'.ConnectionState = "Connected" => d'.setup # NoConfig
                        /\ Delivered' /\ d'.ConnectionState \in {"Connecting", "Connected"}
                             => d'.setup # NoConfig
      BY <1>1, <1>7 DEF Configured, NoConfig
    <2>0. /\ d.ConnectionState = "Connected" => d.setup # NoConfig
          /\ Delivered /\ d.ConnectionState \in {"Connecting", "Connected"} => d.setup # NoConfig
      BY <1>1, <1>11 DEF Configured
    <2>1. reason # "connect" => (Delivered' => Delivered)
      BY <1>2 DEF Delivered, Alive, reason
    <2>2. Alive(held) => d.OCRunning
      BY <1>1 DEF OCDaemonInv, Link, NothingRuns
    <2>3. reason = "reconnect" => Delivered
      BY <1>1, <1>9 DEF Delivered, reason
    <2>4. CASE reason = "connect"
      BY <1>1, <1>3, <1>6, <1>9, <2>0, <2>2, <2>4
    <2>5. CASE reason # "connect"
      BY <1>1, <1>6, <2>0, <2>1, <2>3, <2>5
    <2>6. QED
      BY <2>4, <2>5
  <1>12. QED
    BY <1>8, <1>10, <1>11

-----------------------------------------------------------------------------
(* The commands and events of the runner. *)

(* connectVPN: nothing is left of the connection before. *)
LEMMA DBusConnectVPN ==
  ASSUME OCDaemonInv, DaemonDBusConnect
  PROVE  /\ dpc = "select" /\ dcmd = "none" /\ dpc' = "sendCmd" /\ dcmd' = "connect"
         /\ ~d.OCRunning /\ d.setup = NoConfig /\ (\A p \in Pids : ~Alive(p))
         /\ d'.OCRunning /\ d'.setup = NoConfig /\ d'.ConnectionState = "Connecting"
         /\ UNCHANGED <<runnerVars, phase, script, srv>>
  <1>1. PICK host \in Hosts \cup {NoAddr} : DBusConnect(host)
    BY DEF DaemonDBusConnect
  <1> DEFINE h == IF host # NoAddr THEN host ELSE d.serverIP
             x == [d EXCEPT !.serverIP = h, !.OCRunning = TRUE,
                            !.ConnectionState = "Connecting"]
  <1>2. Good(d)
    BY DEF OCDaemonInv, DaemonInv
  <1>3. /\ dpc = "select" /\ ~d.OCRunning /\ dpc' = "sendCmd" /\ dcmd' = "connect"
        /\ d' = ConnectVPN(d, host)
    BY <1>1 DEF DBusConnect, Send
  <1>4. d' \in {x, AddAllowedAddr(x)}
    BY <1>3 DEF ConnectVPN
  <1>5. h \in Hosts \cup {NoAddr}
    BY <1>2 DEF Good, DaemonState
  <1> HIDE DEF h
  <1>6. /\ x \in DaemonState /\ x.OCRunning /\ x.setup = d.setup
        /\ x.ConnectionState = "Connecting"
    BY <1>2, <1>5 DEF Good, DaemonState
  <1> HIDE DEF x
  <1>7. /\ AddAllowedAddr(x).OCRunning = x.OCRunning /\ AddAllowedAddr(x).setup = x.setup
        /\ AddAllowedAddr(x).ConnectionState = x.ConnectionState
    BY <1>6 DEF AddAllowedAddr, DaemonState
  <1>8. dcmd = "none" /\ d.setup = NoConfig /\ \A p \in Pids : ~Alive(p)
    BY <1>2, <1>3 DEF Good, Clean, OCDaemonInv, Link, NothingRuns
  <1>9. UNCHANGED <<runnerVars, phase, script, srv>>
    BY DEF DaemonDBusConnect, ocVars, serverVars
  <1>10. QED
    BY <1>3, <1>4, <1>6, <1>7, <1>8, <1>9

(* The invariants after a connect request of a client. *)
LEMMA DBusConnectInv ==
  ASSUME OCDaemonInv, Phases, Own, DaemonDBusConnect
  PROVE  Phases' /\ Own' /\ (Configured => Configured')
  <1>1. /\ dpc' = "sendCmd" /\ dcmd' = "connect" /\ (\A p \in Pids : ~Alive(p))
        /\ d'.OCRunning /\ d'.setup = NoConfig /\ d'.ConnectionState = "Connecting"
        /\ UNCHANGED <<pid, proc, phase, script, srv>>
    BY DBusConnectVPN DEF runnerVars
  <1>2. ~(Delivered')
    BY <1>1 DEF Delivered, Alive
  <1>3. Phases'
    BY <1>1 DEF Phases, Alive, NoScript, NoConfig
  <1>4. QED
    BY <1>1, <1>2, <1>3 DEF Own, Configured, NoConfig

(* The runner received the connect command: openconnect could not be       *)
(* started, or there is a process that has done nothing yet.               *)
LEMMA SendConnectVPN ==
  ASSUME OCDaemonInv, Phases, DaemonSendConnect
  PROVE  /\ dpc = "sendCmd" /\ dcmd = "connect" /\ dpc' = "select" /\ dcmd' = "none"
         /\ d' = d /\ d.OCRunning /\ d.setup = NoConfig
         /\ UNCHANGED <<phase, script, srv>>
         /\ \A p \in Pids : ~Alive(p)
         /\ \/ pid' = pid /\ proc' = proc
            \/ /\ pid' \in Pids /\ pid' = pid + 1 /\ proc[pid'] = "none"
               /\ proc' = [proc EXCEPT ![pid'] = "running"]
  <1>1. /\ dcmd = "connect" /\ dpc = "sendCmd" /\ Handled(d) /\ RecvConnect
        /\ UNCHANGED <<phase, script, srv>>
    BY DEF DaemonSendConnect, CommandSent, ocVars, serverVars
  <1>2. Started(d) /\ d.OCRunning /\ NothingRuns /\ d.setup = NoConfig
    BY <1>1 DEF OCDaemonInv, DaemonInv, Link, Phases
  <1>3. d' = d /\ dpc' = "select" /\ dcmd' = "none"
    BY <1>1, <1>2 DEF Handled, Started
  <1>4. ConnectFails \/ ConnectStarts
    BY <1>1, <1>2 DEF RecvConnect, NothingRuns, RunnerIdle
  <1>5. CASE ConnectFails
    BY <1>1, <1>2, <1>3, <1>5 DEF ConnectFails, NothingRuns
  <1>6. CASE ConnectStarts
    <2>1. pid' \in Pids /\ pid' = pid + 1 /\ pid \in Nat
      BY <1>6, MaxSessionsAssumption DEF ConnectStarts, Pids, OCDaemonInv, RunnerInv, RunnerTypeOK
    <2>2. proc[pid'] = "none"
      BY <2>1 DEF Phases
    <2>3. QED
      BY <1>1, <1>2, <1>3, <1>6, <2>1, <2>2 DEF ConnectStarts, NothingRuns
  <1>7. QED
    BY <1>4, <1>5, <1>6

(* The invariants with a new process. *)
LEMMA SendConnectInv ==
  ASSUME OCDaemonInv, Phases, Own, DaemonSendConnect
  PROVE  Phases' /\ Own' /\ (Configured => Configured') /\ (NoOrphan' <=> NoOrphan)
  <1>1. /\ dpc = "sendCmd" /\ dcmd = "connect" /\ dpc' = "select" /\ dcmd' = "none"
        /\ d' = d /\ d.OCRunning /\ d.setup = NoConfig
        /\ UNCHANGED <<phase, script, srv>>
        /\ \A p \in Pids : ~Alive(p)
        /\ \/ pid' = pid /\ proc' = proc
           \/ /\ pid' \in Pids /\ pid' = pid + 1 /\ proc[pid'] = "none"
              /\ proc' = [proc EXCEPT ![pid'] = "running"]
    BY SendConnectVPN
  <1>2. \A p \in Pids : proc'[p] = proc[p] \/ (p = pid' /\ pid' = pid + 1 /\ proc[p] = "none" /\ proc'[p] = "running")
    BY <1>1 DEF OCDaemonInv, RunnerInv, RunnerTypeOK
  <1>3. NoOrphan' <=> NoOrphan
    BY <1>1, <1>2 DEF NoOrphan, KilledConnected
  <1>4. pid \in Nat /\ \A p \in Pids : p \in Nat
    BY MaxSessionsAssumption DEF Pids, OCDaemonInv, RunnerInv, RunnerTypeOK
  <1>5. Phases'
    BY <1>1, <1>2, <1>4 DEF Phases, NoScript, NoConfig
  <1>6. ~(Delivered')
    BY <1>1, <1>2 DEF Delivered, Alive, Phases
  <1>7. Own' /\ (Configured => Configured')
    BY <1>1, <1>3, <1>6 DEF Own, Configured, NoConfig
  <1>8. QED
    BY <1>3, <1>5, <1>7

(* An event of the runner: the start of a process the daemon knows of, or  *)
(* the end of the connection with no process left.                         *)
LEMMA RunnerEventVPN ==
  ASSUME OCDaemonInv, DaemonRunnerEvent
  PROVE  /\ SameProcs /\ UNCHANGED <<phase, script, srv>>
         /\ dpc = "select" /\ dpc' = "select" /\ dcmd = "none" /\ dcmd' = "none" /\ d.OCRunning
         /\ \/ Quiet
            \/ /\ ~(d'.OCRunning) /\ d'.setup = NoConfig /\ d'.ConnectionState = "Disconnected"
               /\ \A p \in Pids : ~Alive(p)
  <1>1. /\ RunnerEvent(event.Connect, event.PID) /\ EventDone
        /\ dpc = "select" /\ rpc = "sendEvent"
        /\ UNCHANGED <<phase, script, srv>>
    BY DEF DaemonRunnerEvent, EventReceived, EventDone, RunnerEvent, ocVars, serverVars
  <1>2. Good(d) /\ Started(d) /\ dcmd = "none" /\ d.OCRunning
    BY <1>1 DEF OCDaemonInv, DaemonInv, Link, NothingRuns, RunnerIdle
  <1>3. SameProcs
    BY <1>1, InterruptSameProcs DEF EventDone, OCDaemonInv, RunnerInv
  <1>4. CASE event = DisconnectEvent
    <2> DEFINE y == HandleRunnerDisconnect(d)
    <2>1. Handled(y)
      BY <1>1, <1>4 DEF RunnerEvent, HandleRunnerEvent, DisconnectEvent
    <2>2. Good(y) /\ ~y.OCRunning /\ Started(y)
      BY <1>2, HandleRunnerDisconnectLemma
    <2> HIDE DEF y
    <2>3. d' = y /\ dpc' = "select" /\ dcmd' = "none" /\ y.setup = NoConfig
          /\ y.ConnectionState = "Disconnected"
      BY <2>1, <2>2 DEF Handled, Started, Good, Clean
    <2>4. \A p \in Pids : ~Alive(p)
      BY <1>1, <1>4 DEF DisconnectEvent, OCDaemonInv, RunnerInv, NoProcessLost
    <2>5. QED
      BY <1>1, <1>2, <1>3, <2>2, <2>3, <2>4
  <1>5. CASE pid \in Pids /\ event = ConnectEvent(pid)
    <2> DEFINE y == HandleRunnerConnect(d, pid)
    <2>1. Handled(y)
      BY <1>1, <1>5 DEF RunnerEvent, HandleRunnerEvent, ConnectEvent
    <2>2. /\ y.OCRunning = d.OCRunning /\ Started(y) /\ y.setup = d.setup
          /\ y.ConnectionState = d.ConnectionState
      BY <1>2, <1>5, OCDaemonAssumption DEF HandleRunnerConnect, Started, Good, DaemonState
    <2> HIDE DEF y
    <2>3. d' = y /\ dpc' = "select" /\ dcmd' = "none"
      BY <2>1, <2>2 DEF Handled, Started
    <2>4. Quiet
      BY <1>1, <1>2, <2>2, <2>3 DEF Quiet, SessionOpen
    <2>5. QED
      BY <1>1, <1>2, <1>3, <2>3, <2>4
  <1>6. QED
    BY <1>1, <1>4, <1>5 DEF OCDaemonInv, Link

(* The invariants after an event. *)
LEMMA RunnerEventInv ==
  ASSUME OCDaemonInv, Phases, Own, DaemonRunnerEvent
  PROVE  Phases' /\ Own' /\ (Configured => Configured')
  <1>1. /\ SameProcs /\ UNCHANGED <<phase, script, srv>>
        /\ dpc' = "select" /\ dcmd' = "none"
        /\ \/ Quiet
           \/ d'.setup = NoConfig /\ d'.ConnectionState = "Disconnected"
    BY RunnerEventVPN
  <1>2. CASE Quiet
    BY <1>1, <1>2, QuietInv
  <1>3. CASE d'.setup = NoConfig /\ d'.ConnectionState = "Disconnected"
    <2>1. Phases'
      BY <1>1, <1>3 DEF Phases, SameProcs, NoScript
    <2>2. QED
      BY <1>3, <2>1 DEF Own, Configured, NoConfig
  <1>4. QED
    BY <1>1, <1>2, <1>3

-----------------------------------------------------------------------------
(* All actions. *)

(* The server is told of the end of the main loop after the runner is. *)
LEMMA RefusesNext ==
  ASSUME OCDaemonInv, Refuses, [Next]_vars
  PROVE  Refuses'
  <1>1. rdone => rdone'
    BY RunnerStepOfNext
    DEF RunnerNext, RunnerInternal, RunnerUser, RecvExit, EventAborted, EventDone, HandleStop,
        StopExit, WaitReturns, RecvConnect, ConnectFails, ConnectStarts, RecvDisconnect,
        EventReceived, CloseDone, ProcExit, runnerVars
  <1>2. CASE Deferred /\ sdone' = sdone
    BY <1>1, <1>2 DEF Refuses, Deferred, CloseDone, runnerVars
  <1>3. CASE DaemonRunnerStopped
    BY <1>1, <1>3 DEF DaemonRunnerStopped, RunnerStopped, OCDaemonInv, Link, Refuses, runnerVars
  <1>4. CASE UNCHANGED <<shutdown, sdone>>
    BY <1>1, <1>4 DEF Refuses
  <1>5. QED
    <2>1. CASE \E p \in Pids : \/ OCPreInit(p) \/ OCConnect(p) \/ OCAttemptReconnect(p)
                               \/ OCReconnect(p) \/ OCDisconnect(p)
      BY <1>4, <2>1
      DEF OCPreInit, OCConnect, OCAttemptReconnect, OCReconnect, OCDisconnect, RunScript, serverVars
    <2>2. CASE \E p \in Pids : OCExit(p) \/ OCCrash(p) \/ ScriptDial(p)
      BY <1>4, <2>2 DEF OCExit, OCCrash, ScriptDial, serverVars
    <2>3. CASE ServerAccept \/ ServerReadError \/ ServerReject \/ ServerClose \/ Stop
      BY <1>4, <2>3
      DEF ServerAccept, ServerReadError, ServerReject, ServerClose, Stop, serverVars
    <2>4. CASE DaemonServerRequest \/ DaemonTNDResult \/ DaemonProfileUpdate \/ DaemonDone
      BY <1>2, <2>4 DEF DaemonServerRequest, DaemonTNDResult, DaemonProfileUpdate, DaemonDone
    <2>5. CASE \/ DaemonNilRequest \/ DaemonDBusConnect \/ DaemonDBusDisconnect
               \/ DaemonSleepMonResume \/ DaemonCPDStatusUpdate \/ DaemonRunnerEvent
               \/ DaemonSendConnect \/ DaemonSendDisconnect \/ DaemonServerStopped
               \/ RunnerStep \/ UNCHANGED vars
      BY <1>4, <2>5
      DEF DaemonNilRequest, DaemonDBusConnect, DaemonDBusDisconnect, DaemonSleepMonResume,
          DaemonCPDStatusUpdate, DaemonRunnerEvent, DaemonSendConnect, DaemonSendDisconnect,
          DaemonServerStopped, RunnerStep, serverVars, vars
    <2>6. QED
      BY <1>3, <2>1, <2>2, <2>3, <2>4, <2>5 DEF Next

(* openconnect runs its script for one of its reasons. *)
LEMMA ScriptStartsInv ==
  ASSUME OCDaemonInv, Phases, Own, NEW p \in Pids,
         \/ OCPreInit(p) \/ OCConnect(p) \/ OCAttemptReconnect(p) \/ OCReconnect(p)
         \/ OCDisconnect(p)
  PROVE  Phases' /\ Own' /\ (Configured => Configured')
  <1>0. Reasons = {"pre-init", "connect", "disconnect", "attempt-reconnect", "reconnect"}
    BY DEF Reasons
  <1>1. CASE OCPreInit(p)
    <2>1. RunScript(p, {"started"}, "pre-init", "inited") /\ Alive(p) /\ phase[p] = "started"
      BY <1>1 DEF OCPreInit, Alive, RunScript
    <2>2. QED
      BY <1>0, <2>1, RunScriptInv
  <1>2. CASE OCConnect(p)
    <2>1. RunScript(p, {"inited"}, "connect", "connected") /\ Alive(p) /\ phase[p] = "inited"
      BY <1>2 DEF OCConnect, Alive, RunScript
    <2>2. QED
      BY <1>0, <2>1, RunScriptInv
  <1>3. CASE OCAttemptReconnect(p)
    <2>1. /\ RunScript(p, {"connected", "lost"}, "attempt-reconnect", "lost")
          /\ Alive(p) /\ phase[p] \in {"connected", "lost"}
      BY <1>3 DEF OCAttemptReconnect, Alive, RunScript
    <2>2. QED
      BY <1>0, <2>1, RunScriptInv
  <1>4. CASE OCReconnect(p)
    <2>1. RunScript(p, {"lost"}, "reconnect", "connected") /\ Alive(p) /\ phase[p] = "lost"
      BY <1>4 DEF OCReconnect, Alive, RunScript
    <2>2. QED
      BY <1>0, <2>1, RunScriptInv
  <1>5. CASE OCDisconnect(p)
    <2>1. /\ RunScript(p, {"connected", "lost"}, "disconnect", "ended")
          /\ Alive(p) /\ phase[p] \in {"connected", "lost"}
      BY <1>5 DEF OCDisconnect, RunScript
    <2>2. QED
      BY <1>0, <2>1, RunScriptInv
  <1>6. QED
    BY <1>1, <1>2, <1>3, <1>4, <1>5

(* A script connects to the server or fails to, and the server handles     *)
(* connections: a request is lost with the server, with the main loop or   *)
(* in a read error.                                                        *)
LEMMA ScriptStepsInv ==
  ASSUME SessionInv,
         \/ \E p \in Pids : ScriptDial(p)
         \/ ServerAccept \/ ServerReadError \/ ServerReject \/ ServerClose
  PROVE  Phases' /\ Own' /\ (~ReadFails => (Configured => Configured'))
  <1>0. OCDaemonInv /\ Phases /\ Own /\ Refuses /\ NoScript.reason = "none" /\ NoScript.stage = "none"
    BY DEF SessionInv, NoScript
  <1>1. script \in [Pids -> Scripts] /\ \A p \in Pids : script[p] \in Scripts
    BY <1>0 DEF OCDaemonInv, Requests
  <1>2. shutdown \/ sdone => dpc \notin {"select", "sendCmd"}
    BY <1>0 DEF Refuses, OCDaemonInv, Link
  <1>3. ASSUME NEW p \in Pids, ScriptDial(p)
        PROVE  Phases' /\ Own' /\ (Configured => Configured')
    <2>1. UNCHANGED <<runnerVars, daemonVars, phase, srv>> /\ script[p].stage = "dial"
      BY <1>3 DEF ScriptDial
    <2>2. CASE srv = "closed" \/ sdone
      <3>1. script' = [script EXCEPT ![p] = NoScript]
        BY <1>3, <2>2 DEF ScriptDial
      <3>2. \A q \in Pids : script'[q] \in {script[q], NoScript}
        BY <1>1, <3>1
      <3>3. QED
        BY <1>0, <1>2, <2>1, <2>2, <3>2, ScriptsInv
    <2>3. CASE ~(srv = "closed" \/ sdone)
      <3>1. script' = [script EXCEPT ![p].stage = "wait"]
        BY <1>3, <2>3 DEF ScriptDial
      <3>2. \A q \in Pids : script'[q].reason = script[q].reason /\ (q # p => script'[q] = script[q])
        BY <1>1, <3>1 DEF Scripts, NoScript
      <3>3. script[p] # NoScript
        BY <1>0, <2>1
      <3>4. QED
        BY <1>0, <2>1, <3>2, <3>3, ScriptsInv
    <2>4. QED
      BY <2>2, <2>3
  <1>4. CASE ServerAccept
    <2>1. UNCHANGED <<runnerVars, daemonVars, phase, script>> /\ srv # "closed"
      BY <1>4 DEF ServerAccept, ocVars
    <2>2. QED
      BY <1>0, <2>1, ScriptsInv
  <1>5. CASE ServerReadError
    <2>1. /\ UNCHANGED <<runnerVars, daemonVars, phase, srv>> /\ ReadFails
          /\ script' = [script EXCEPT ![Head(backlog)] = NoScript]
      BY <1>5 DEF ServerReadError
    <2>2. \A q \in Pids : script'[q] \in {script[q], NoScript}
      BY <1>1, <2>1
    <2>3. QED
      BY <1>0, <2>1, <2>2, ScriptsInv
  <1>6. CASE ServerReject
    <2>1. /\ UNCHANGED <<runnerVars, daemonVars, phase>> /\ srv # "closed"
          /\ shutdown \/ sdone
          /\ script' = [script EXCEPT ![held] = NoScript]
      BY <1>6 DEF ServerReject
    <2>2. \A q \in Pids : script'[q] \in {script[q], NoScript}
      BY <1>1, <2>1
    <2>3. QED
      BY <1>0, <1>2, <2>1, <2>2, ScriptsInv
  <1>7. CASE ServerClose
    <2>1. /\ UNCHANGED <<runnerVars, daemonVars, phase>> /\ srv' = "closed"
          /\ \A q \in Pids : script'[q] \in {script[q], NoScript}
      BY <1>7 DEF ServerClose
    <2>2. QED
      BY <1>0, <2>1, ScriptsInv
  <1>8. QED
    BY <1>3, <1>4, <1>5, <1>6, <1>7

(* Every step keeps the invariant, and without read errors Configured. *)
LEMMA SessionNextInv ==
  ASSUME SessionInv, [Next]_vars
  PROVE  SessionInv' /\ (~ReadFails => (Configured => Configured'))
  <1>0. OCDaemonInv /\ Phases /\ Own /\ Refuses
    BY DEF SessionInv
  <1>1. OCDaemonInv' /\ Refuses'
    BY <1>0, OCDaemonNextInv, RefusesNext
  <1>2. Phases' /\ Own' /\ (~ReadFails => (Configured => Configured'))
    <2>1. CASE \E p \in Pids : \/ OCPreInit(p) \/ OCConnect(p) \/ OCAttemptReconnect(p)
                               \/ OCReconnect(p) \/ OCDisconnect(p)
      BY <1>0, <2>1, ScriptStartsInv
    <2>2. CASE \E p \in Pids : OCExit(p) \/ OCCrash(p)
      <3>1. PICK p \in Pids : ProcExit(p) /\ UNCHANGED <<daemonVars, phase, script, srv>>
        BY <2>2 DEF OCExit, OCCrash, ocVars, serverVars
      <3>2. QED
        BY <1>0, <3>1, ProcExitInv
    <2>3. CASE \/ \E p \in Pids : ScriptDial(p)
               \/ ServerAccept \/ ServerReadError \/ ServerReject \/ ServerClose
      BY <2>3, ScriptStepsInv
    <2>4. CASE QuietActions
      BY <1>0, <2>4, QuietActionsLemma, QuietActionsProcs, QuietInv
      DEF OCDaemonInv, RunnerInv
    <2>5. CASE RunnerStep
      <3>1. SameProcs /\ UNCHANGED <<phase, script, srv, d, dpc, dcmd>>
        BY <1>0, <2>5, RunnerStepProcs DEF OCDaemonInv, RunnerInv
      <3>2. Quiet
        BY <1>0, <2>5, <3>1 DEF Quiet, SessionOpen, RunnerStep
      <3>3. QED
        BY <1>0, <3>1, <3>2, QuietInv
    <2>6. CASE Stop \/ UNCHANGED vars
      <3>1. UNCHANGED <<pid, proc, phase, script, srv, d, dpc, dcmd>>
        BY <2>6 DEF Stop, vars, runnerVars, daemonVars, ocVars, serverVars
      <3>2. QED
        BY <1>0, <3>1
        DEF Phases, Own, Configured, NoOrphan, KilledConnected, Delivered, Alive, NoScript, NoConfig
    <2>7. CASE DaemonServerRequest \/ DaemonDBusConnect \/ DaemonSendConnect \/ DaemonRunnerEvent
      BY <1>0, <2>7, RequestInv, DBusConnectInv, SendConnectInv, RunnerEventInv
    <2>8. QED
      BY <2>1, <2>2, <2>3, <2>4, <2>5, <2>6, <2>7 DEF Next, QuietActions
  <1>3. QED
    BY <1>1, <1>2 DEF SessionInv

(* The initial states of the composition satisfy the invariant. *)
LEMMA SessionInitInv == Init => SessionInv /\ Configured /\ d.setup = NoConfig /\ ~d.OCRunning
  <1> SUFFICES ASSUME Init
               PROVE  SessionInv /\ Configured /\ d.setup = NoConfig /\ ~d.OCRunning
    OBVIOUS
  <1>1. OCDaemonInv
    BY OCDaemonInitInv
  <1>2. d.setup = NoConfig /\ ~d.OCRunning /\ d.ConnectionState = "Disconnected"
    BY StartedDaemonLemma, DaemonAssumption DEF Init, DaemonInit, Good, Clean
  <1>3. /\ \A p \in Pids : proc[p] = "none" /\ phase[p] = "started" /\ script[p] = NoScript
        /\ dpc = "select" /\ dcmd = "none" /\ ~shutdown /\ ~sdone
    BY DEF Init, RunnerInit, DaemonInit
  <1>4. NoScript.reason = "none"
    BY DEF NoScript
  <1>5. QED
    BY <1>1, <1>2, <1>3, <1>4 DEF SessionInv, Phases, Refuses, Own, Configured

(* The composition satisfies its invariant: besides what OCDaemonInvariance *)
(* says, the active configuration is that of the process the runner        *)
(* controls, unless a connected openconnect was killed.                    *)
THEOREM SessionInvariance == Spec => []SessionInv
  <1>1. SessionInv /\ [Next]_vars => SessionInv'
    BY SessionNextInv
  <1>2. QED
    BY <1>1, SessionInitInv, PTL DEF Spec

(* If the server never fails to read a request, a connection is reported   *)
(* as established only with the configuration of the current process       *)
(* (updateVPNConfigUp, handleVPNReconnect).  A read error can lose the     *)
(* request that brings the configuration.                                  *)
THEOREM ConnectedIsConfigured ==
  ASSUME ~ReadFails
  PROVE  Spec => []SessionConfigured
  <1>1. SessionInv /\ Configured => SessionConfigured
    BY DEF SessionInv, Own, Configured, NoOrphan, SessionConfigured
  <1>2. SessionInv /\ Configured /\ [Next]_vars => (SessionInv /\ Configured)'
    BY SessionNextInv
  <1>3. QED
    BY <1>1, <1>2, SessionInitInv, PTL DEF Spec

(* With read errors too, an active configuration is that of the process    *)
(* the runner controls, unless a connected openconnect was killed and the  *)
(* daemon takes its script for one of a later session (updateVPNConfigUp). *)
THEOREM ConfigurationIsCurrent ==
  Spec => [](NoOrphan /\ d.setup # NoConfig => d.setup.pid = pid)
  <1>1. SessionInv => (NoOrphan /\ d.setup # NoConfig => d.setup.pid = pid)
    BY DEF SessionInv, Own
  <1>2. QED
    BY <1>1, SessionInvariance, PTL


-----------------------------------------------------------------------------
(* The refinement, group by group of actions. *)

(* The state of the session, where it is not affected by a step. *)
LEMMA SessionUnchanged ==
  ASSUME d'.OCRunning = d.OCRunning, d'.setup = d.setup,
         dcmd' = "connect" <=> dcmd = "connect", SessionOpen' <=> SessionOpen,
         \A p \in Pids : Alive(p)' <=> Alive(p),
         \A p \in Pids : KilledConnected(p)' <=> KilledConnected(p)
  PROVE  UNCHANGED Session!sessionVars
  <1>1. SessionOpen' = SessionOpen
    BY DEF SessionOpen
  <1>2. (\E p \in Pids : KilledConnected(p))' = (\E p \in Pids : KilledConnected(p))
    BY Zenon
  <1>3. SessionStage' = SessionStage
    BY DEF SessionStage
  <1>4. QED
    BY <1>1, <1>2, <1>3 DEF Session!sessionVars

(* Killed processes change neither with interrupts nor with scripts. *)
LEMMA SameOrphans ==
  ASSUME SameProcs, UNCHANGED phase
  PROVE  \A p \in Pids : KilledConnected(p)' <=> KilledConnected(p)
  BY DEF SameProcs, KilledConnected

(* A step that leaves the connection alone leaves the session alone. *)
LEMMA QuietSession ==
  ASSUME Quiet, SameProcs, UNCHANGED phase
  PROVE  UNCHANGED Session!sessionVars
  BY SameOrphans, SessionUnchanged DEF Quiet, SameProcs


(* The main loop ends: the session closes, whatever it was doing. *)
LEMMA FinishesSession ==
  ASSUME OCDaemonInv, Finishes, SameProcs, UNCHANGED phase
  PROVE  Session!Close
  <1>1. SessionOpen /\ ~(SessionOpen')
    BY DEF Finishes, SessionOpen
  <1>2. SessionOpen' = FALSE
    BY <1>1 DEF SessionOpen
  <1>3. SessionStage' = IF SessionStage = "live" THEN "left" ELSE "off"
    BY <1>1 DEF SessionStage, Finishes, SameProcs
  <1>4. (\E p \in Pids : KilledConnected(p))' = (\E p \in Pids : KilledConnected(p))
    BY SameOrphans, Zenon
  <1>5. d'.setup = NoConfig
    BY DEF Finishes
  <1>6. QED
    BY <1>1, <1>2, <1>3, <1>4, <1>5 DEF Session!Close

(* A process ends, of a connection the daemon has not noticed to be over   *)
(* or of a daemon that stops.                                              *)
LEMMA ProcExitSession ==
  ASSUME OCDaemonInv, Phases, NEW p \in Pids, ProcExit(p),
         UNCHANGED <<daemonVars, phase, script, srv>>
  PROVE  Session!Die
  <1>1. /\ UNCHANGED <<pid, d, dpc, dcmd, phase>>
        /\ proc' = [proc EXCEPT ![p] = "dead"] /\ Alive(p)
    BY DEF ProcExit, daemonVars
  <1>2. \A q \in Pids : proc'[q] = IF q = p THEN "dead" ELSE proc[q]
    BY <1>1 DEF OCDaemonInv, RunnerInv, RunnerTypeOK
  <1>3. \A q \in Pids : ~(Alive(q)')
    BY <1>1, <1>2 DEF Alive, OCDaemonInv, RunnerInv, NoProcessLost
  <1>4. dcmd # "connect"
    BY <1>1 DEF OCDaemonInv, Link, NothingRuns
  <1>5. SessionOpen => d.OCRunning
    BY <1>1 DEF SessionOpen, OCDaemonInv, Link, NothingRuns, Phases
  <1>6. ~SessionOpen => ~d.OCRunning
    BY DEF SessionOpen, OCDaemonInv, DaemonInv
  <1>7. SessionStage \in {"live", "left"}
    BY <1>1 DEF SessionStage
  <1>8. SessionStage' = IF SessionOpen THEN "dead" ELSE "off"
    BY <1>1, <1>3, <1>4, <1>5, <1>6 DEF SessionStage
  <1>9. (\E q \in Pids : KilledConnected(q))' \in {(\E q \in Pids : KilledConnected(q)), TRUE}
    <2>1. (\E q \in Pids : KilledConnected(q)) => (\E q \in Pids : KilledConnected(q))'
      BY <1>1, <1>2 DEF KilledConnected
    <2>2. QED
      BY <2>1
  <1>10. SessionOpen' = SessionOpen /\ d'.setup = d.setup
    BY <1>1 DEF SessionOpen
  <1>11. QED
    BY <1>7, <1>8, <1>9, <1>10 DEF Session!Die

(* A request sets the configuration up, removes it or leaves it alone. *)
LEMMA RequestSession ==
  ASSUME OCDaemonInv, Phases, Own, DaemonServerRequest
  PROVE  Session!Configure \/ Session!Deconfigure \/ UNCHANGED Session!sessionVars
  <1> DEFINE reason == script[held].reason
             config == [pid |-> held, disable |-> script[held].disable]
             y == UpdateVPNConfig(d, reason, config)
  <1>1. /\ dpc = "select" /\ dpc' = "select" /\ dcmd = "none" /\ dcmd' = "none"
        /\ UNCHANGED <<runnerVars, phase>>
        /\ held \in Pids /\ script[held].stage = "wait" /\ reason \in Reasons
        /\ config \in Configs /\ d' = y
    BY RequestHandled
  <1>2. UNCHANGED <<pid, proc, phase>>
    BY <1>1 DEF runnerVars
  <1>3. Good(d)
    BY DEF OCDaemonInv, DaemonInv
  <1>4. y.OCRunning = d.OCRunning
    BY <1>1, <1>3, UpdateVPNConfigCases
  <1>5. \/ y.setup = d.setup
        \/ reason = "connect" /\ d.OCRunning /\ y.setup = config
        \/ y.setup = NoConfig
    BY <1>1, <1>3, UpdateVPNConfigCases
  <1> HIDE DEF y
  <1>6. /\ \A p \in Pids : Alive(p)' <=> Alive(p)
        /\ \A p \in Pids : KilledConnected(p)' <=> KilledConnected(p)
    BY <1>2 DEF Alive, KilledConnected
  <1>7. (\E p \in Pids : KilledConnected(p))' = (\E p \in Pids : KilledConnected(p))
    BY <1>6, Zenon
  <1>8. SessionOpen /\ SessionOpen' = SessionOpen /\ (SessionOpen' <=> SessionOpen)
    BY <1>1 DEF SessionOpen
  <1>9. SessionStage' = SessionStage
    BY <1>1, <1>4, <1>6, <1>8 DEF SessionStage
  <1>10. CASE y.setup = d.setup
    BY <1>1, <1>4, <1>6, <1>8, <1>10, SessionUnchanged
  <1>11. CASE reason = "connect" /\ d.OCRunning /\ y.setup = config
    <2>1. SessionStage \in {"live", "dead"}
      BY <1>1, <1>8, <1>11 DEF SessionStage
    <2>2. NoOrphan => d.setup = NoConfig
      BY <1>1, <1>11, RequesterIsCurrent DEF Own
    <2>3. d.setup = NoConfig \/ \E p \in Pids : KilledConnected(p)
      BY <2>2 DEF NoOrphan
    <2> HIDE DEF config, reason
    <2>4. QED
      BY <1>1, <1>7, <1>8, <1>9, <1>11, <2>1, <2>3 DEF Session!Configure
  <1>12. CASE y.setup = NoConfig /\ d.OCRunning
    <2>1. SessionStage \in {"live", "dead"}
      BY <1>1, <1>8, <1>12 DEF SessionStage
    <2>2. QED
      BY <1>1, <1>7, <1>8, <1>9, <1>12, <2>1 DEF Session!Deconfigure
  <1>13. CASE y.setup = NoConfig /\ ~d.OCRunning
    BY <1>1, <1>3, <1>10, <1>13 DEF Good, Clean
  <1>14. QED
    BY <1>5, <1>10, <1>11, <1>12, <1>13 DEF Good, DaemonState

(* A client's connect request starts the life cycle. *)
LEMMA DBusConnectSession ==
  ASSUME OCDaemonInv, DaemonDBusConnect
  PROVE  Session!Connect
  <1>1. /\ dpc = "select" /\ dpc' = "sendCmd" /\ dcmd' = "connect"
        /\ ~d.OCRunning /\ d.setup = NoConfig /\ (\A p \in Pids : ~Alive(p))
        /\ d'.OCRunning /\ d'.setup = NoConfig
        /\ UNCHANGED <<runnerVars, phase>>
    BY DBusConnectVPN
  <1>2. \A p \in Pids : ~(Alive(p)')
    BY <1>1 DEF Alive, runnerVars
  <1>3. (\E p \in Pids : KilledConnected(p))' = (\E p \in Pids : KilledConnected(p))
    <2>1. \A p \in Pids : KilledConnected(p)' <=> KilledConnected(p)
      BY <1>1 DEF KilledConnected, runnerVars
    <2>2. QED
      BY <2>1, Zenon
  <1>4. SessionOpen /\ SessionOpen' = SessionOpen /\ SessionStage = "off" /\ SessionStage' = "asked"
    BY <1>1, <1>2 DEF SessionOpen, SessionStage
  <1>5. QED
    BY <1>1, <1>3, <1>4 DEF Session!Connect

(* The connect command starts openconnect, or fails to. *)
LEMMA SendConnectSession ==
  ASSUME OCDaemonInv, Phases, Own, DaemonSendConnect
  PROVE  Session!Launch
  <1>1. /\ dpc = "sendCmd" /\ dcmd = "connect" /\ dpc' = "select" /\ dcmd' = "none"
        /\ d' = d /\ d.OCRunning /\ d.setup = NoConfig
        /\ \A p \in Pids : ~Alive(p)
    BY SendConnectVPN
  <1>2. SessionOpen /\ SessionOpen' /\ SessionOpen' = SessionOpen /\ SessionStage = "asked"
    BY <1>1 DEF SessionOpen, SessionStage
  <1>3. SessionStage' \in {"live", "dead"}
    BY <1>1, <1>2 DEF SessionStage
  <1>4. (\E p \in Pids : KilledConnected(p))' = (\E p \in Pids : KilledConnected(p))
    <2>1. NoOrphan' <=> NoOrphan
      BY SendConnectInv
    <2>2. QED
      BY <2>1, Zenon DEF NoOrphan
  <1>5. QED
    BY <1>1, <1>2, <1>3, <1>4 DEF Session!Launch

(* The disconnect event ends the life cycle. *)
LEMMA RunnerEventSession ==
  ASSUME OCDaemonInv, DaemonRunnerEvent
  PROVE  Session!End \/ UNCHANGED Session!sessionVars
  <1>1. /\ SameProcs /\ UNCHANGED phase
        /\ dpc = "select" /\ dpc' = "select" /\ dcmd = "none" /\ dcmd' = "none" /\ d.OCRunning
        /\ \/ Quiet
           \/ ~(d'.OCRunning) /\ d'.setup = NoConfig /\ \A p \in Pids : ~Alive(p)
    BY RunnerEventVPN
  <1>2. CASE Quiet
    BY <1>1, <1>2, QuietSession
  <1>3. CASE ~(d'.OCRunning) /\ d'.setup = NoConfig /\ \A p \in Pids : ~Alive(p)
    <2>1. SessionOpen /\ SessionOpen' = SessionOpen
      BY <1>1 DEF SessionOpen
    <2>2. SessionStage = "dead" /\ SessionStage' = "off"
      BY <1>1, <1>3 DEF SessionStage, SameProcs
    <2>3. (\E p \in Pids : KilledConnected(p))' = (\E p \in Pids : KilledConnected(p))
      BY <1>1, SameOrphans, Zenon
    <2>4. QED
      BY <1>3, <2>1, <2>2, <2>3 DEF Session!End
  <1>4. QED
    BY <1>1, <1>2, <1>3


(* Scripts and the server do not touch the session: only the daemon does,  *)
(* when it handles a request.                                              *)
LEMMA ScriptsSession ==
  ASSUME UNCHANGED <<runnerVars, daemonVars>>,
         \/ \E p \in Pids :
              \/ OCPreInit(p) \/ OCConnect(p) \/ OCAttemptReconnect(p) \/ OCReconnect(p)
              \/ OCDisconnect(p)
         \/ UNCHANGED phase,
         OCDaemonInv
  PROVE  UNCHANGED Session!sessionVars
  <1>1. UNCHANGED <<pid, proc, d, dpc, dcmd>>
    BY DEF runnerVars, daemonVars
  <1>2. \A p \in Pids : KilledConnected(p)' <=> KilledConnected(p)
    <2>1. CASE UNCHANGED phase
      BY <1>1, <2>1 DEF KilledConnected
    <2>2. CASE \E q \in Pids :
                 \/ OCPreInit(q) \/ OCConnect(q) \/ OCAttemptReconnect(q) \/ OCReconnect(q)
                 \/ OCDisconnect(q)
      <3>1. PICK q \in Pids : Alive(q) /\ \E to : phase' = [phase EXCEPT ![q] = to]
        BY <2>2
        DEF OCPreInit, OCConnect, OCAttemptReconnect, OCReconnect, OCDisconnect, RunScript, Alive
      <3>2. \A p \in Pids : p # q => phase'[p] = phase[p]
        BY <3>1 DEF OCDaemonInv, Requests
      <3>3. QED
        BY <1>1, <3>1, <3>2 DEF KilledConnected, Alive
    <2>3. QED
      BY <2>1, <2>2
  <1>3. QED
    BY <1>1, <1>2, SessionUnchanged DEF SessionOpen, Alive

(* Every step of the composition is a step of the session or leaves it     *)
(* alone.                                                                  *)
LEMMA SessionStep ==
  ASSUME SessionInv, [Next]_vars
  PROVE  [Session!SessionNext]_(Session!sessionVars)
  <1>0. OCDaemonInv /\ Phases /\ Own
    BY DEF SessionInv
  <1>1. CASE \E p \in Pids : \/ OCPreInit(p) \/ OCConnect(p) \/ OCAttemptReconnect(p)
                             \/ OCReconnect(p) \/ OCDisconnect(p)
    <2>1. UNCHANGED <<runnerVars, daemonVars>>
      BY <1>1
      DEF OCPreInit, OCConnect, OCAttemptReconnect, OCReconnect, OCDisconnect, RunScript
    <2>2. QED
      BY <1>0, <1>1, <2>1, ScriptsSession
  <1>2. CASE \/ \E p \in Pids : ScriptDial(p)
             \/ ServerAccept \/ ServerReadError \/ ServerReject \/ ServerClose
             \/ Stop \/ UNCHANGED vars
    <2>1. UNCHANGED <<runnerVars, daemonVars, phase>>
      BY <1>2
      DEF ScriptDial, ServerAccept, ServerReadError, ServerReject, ServerClose, Stop, vars, ocVars
    <2>2. QED
      BY <1>0, <2>1, ScriptsSession
  <1>3. CASE \E p \in Pids : OCExit(p) \/ OCCrash(p)
    <2>1. PICK p \in Pids : ProcExit(p) /\ UNCHANGED <<daemonVars, phase, script, srv>>
      BY <1>3 DEF OCExit, OCCrash, ocVars, serverVars
    <2>2. Session!Die
      BY <1>0, <2>1, ProcExitSession
    <2>3. QED
      BY <2>2 DEF Session!SessionNext
  <1>4. CASE QuietActions
    <2>1. Quiet \/ Finishes
      BY <1>0, <1>4, QuietActionsLemma DEF OCDaemonInv
    <2>2. SameProcs /\ UNCHANGED phase
      BY <1>0, <1>4, QuietActionsProcs DEF OCDaemonInv, RunnerInv
    <2>3. Session!Close \/ UNCHANGED Session!sessionVars
      BY <1>0, <2>1, <2>2, QuietSession, FinishesSession
    <2>4. QED
      BY <2>3 DEF Session!SessionNext
  <1>5. CASE RunnerStep
    <2>1. SameProcs /\ UNCHANGED <<phase, d, dpc, dcmd>>
      BY <1>0, <1>5, RunnerStepProcs DEF OCDaemonInv, RunnerInv
    <2>2. Quiet
      BY <1>5, <2>1 DEF Quiet, SessionOpen, RunnerStep
    <2>3. QED
      BY <2>1, <2>2, QuietSession
  <1>6. CASE DaemonServerRequest
    <2>1. Session!Configure \/ Session!Deconfigure \/ UNCHANGED Session!sessionVars
      BY <1>0, <1>6, RequestSession
    <2>2. QED
      BY <2>1 DEF Session!SessionNext
  <1>7. CASE DaemonDBusConnect
    <2>1. Session!Connect
      BY <1>0, <1>7, DBusConnectSession
    <2>2. QED
      BY <2>1 DEF Session!SessionNext
  <1>8. CASE DaemonSendConnect
    <2>1. Session!Launch
      BY <1>0, <1>8, SendConnectSession
    <2>2. QED
      BY <2>1 DEF Session!SessionNext
  <1>9. CASE DaemonRunnerEvent
    <2>1. Session!End \/ UNCHANGED Session!sessionVars
      BY <1>0, <1>9, RunnerEventSession
    <2>2. QED
      BY <2>1 DEF Session!SessionNext
  <1>10. QED
    BY <1>1, <1>2, <1>3, <1>4, <1>5, <1>6, <1>7, <1>8, <1>9 DEF Next, QuietActions

(* The composition implements VPNSession: whatever clients, networks,      *)
(* openconnect, its scripts, crashes and failures do, and for any number   *)
(* of connections, a connect request is accepted only when nothing is left *)
(* of the connection before, a configuration is set up only in a live or   *)
(* unnoticed dead connection, never over another one unless a killed       *)
(* openconnect left its script behind, and none outlives the connection    *)
(* (connectVPN, updateVPNConfigUp, handleRunnerDisconnect, start).         *)
THEOREM SessionIsImplemented == Spec => ImplementsSession
  <1>1. Init => Session!SessionInit
    <2> SUFFICES ASSUME Init PROVE Session!SessionInit
      OBVIOUS
    <2>1. d.setup = NoConfig /\ ~d.OCRunning
      BY SessionInitInv
    <2>2. \A p \in Pids : proc[p] = "none" /\ ~Alive(p) /\ ~KilledConnected(p)
      BY DEF Init, RunnerInit, Alive, KilledConnected
    <2>3. SessionOpen = TRUE
      BY DEF Init, DaemonInit, SessionOpen
    <2>4. SessionStage = "off"
      BY <2>1, <2>2 DEF SessionStage
    <2>5. (\E p \in Pids : KilledConnected(p)) = FALSE
      BY <2>2
    <2>6. QED
      BY <2>1, <2>3, <2>4, <2>5 DEF Session!SessionInit
  <1>2. SessionInv /\ [Next]_vars => [Session!SessionNext]_(Session!sessionVars)
    BY SessionStep
  <1>3. QED
    BY <1>1, <1>2, SessionInvariance, PTL DEF Spec, ImplementsSession, Session!SessionSpec


=============================================================================
