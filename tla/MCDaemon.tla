------------------------------ MODULE MCDaemon ------------------------------
(* Model checking the daemon over several lives. *)
EXTENDS DaemonLife

MCProfiles == [alwaysOn : BOOLEAN, tnd : BOOLEAN]

=============================================================================
