----------------------------- MODULE OCSession ------------------------------
(* The composition of daemon, runner, openconnect, scripts and socket      *)
(* server implements what VPNSession promises of VPN connections.          *)
EXTENDS OCDaemon

SessionOpen == dpc \in {"select", "sendCmd", "panic"}

SessionStage ==
  IF \E p \in Pids : Alive(p)
  THEN IF SessionOpen THEN "live" ELSE "left"
  ELSE IF ~d.OCRunning THEN "off"
  ELSE IF dcmd = "connect" THEN "asked"
  ELSE "dead"

Session == INSTANCE VPNSession
  WITH open <- SessionOpen, stage <- SessionStage, config <- d.setup,
       orphan <- \E p \in Pids : KilledConnected(p)

(* Whatever clients, networks, openconnect, its scripts, crashes and       *)
(* failures do, connections follow the life cycle of VPNSession: a connect *)
(* is accepted only when no process and no configuration is left, a        *)
(* configuration is never set up outside a connection or, unless a killed  *)
(* openconnect left its script behind, over another one, and none outlives *)
(* the end of its connection (connectVPN, handleConnect, updateVPNConfig-  *)
(* Up, handleRunnerDisconnect, deferred calls of start).                   *)
ImplementsSession == Session!SessionSpec

=============================================================================
