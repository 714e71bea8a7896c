----------------------------- MODULE MCOCDaemon -----------------------------
(* Model checking the composition: profiles with and without Always On and *)
(* trusted network detection, and what the documentation and the comments  *)
(* say of disconnecting and of stopping.                                   *)
EXTENDS OCSession

ProfilesAll == [alwaysOn : BOOLEAN, tnd : BOOLEAN]
ProfileOn == {[alwaysOn |-> TRUE, tnd |-> TRUE]}
ProfileOff == {[alwaysOn |-> FALSE, tnd |-> FALSE]}

(* docs/development/api.md: Disconnect() disconnects from the VPN.  The    *)
(* daemon and the runner can wait for each other forever.                  *)
DisconnectCompletes ==
  (dcmd \in {"disconnect", "disconnectThenCheck"}) ~> (~d.OCRunning \/ dpc = "panic")

(* internal/daemon/daemon.go, Stop(): stop the daemon and wait for the     *)
(* termination of the main loop.  The main loop hangs in TrafPol.Stop()    *)
(* when traffic policing could not be started.                             *)
MainLoopTerminates == dpc = "waitRunner" ~> dpc = "closed"

=============================================================================
