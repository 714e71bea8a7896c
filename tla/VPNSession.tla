----------------------------- MODULE VPNSession -----------------------------
(***************************************************************************)
(* What oc-daemon promises about VPN connections: there is one at a time,  *)
(* with one openconnect process and at most one configuration; a client's  *)
(* connect request is accepted only when nothing is left of the connection *)
(* before, and a connection is over only when its process has terminated   *)
(* and its configuration is removed.  A daemon that stops gives up its     *)
(* connection at once and accepts no other one.                            *)
(***************************************************************************)
CONSTANTS
  Configs,  \* VPN configurations
  NoConfig

VARIABLES
  open,    \* is the daemon serving?
  stage,   \* off, asked for, live with its process, dead without it, or left
           \* by a stopped daemon with a process that still terminates
  config,  \* the configuration that is set up
  orphan   \* was an openconnect process killed while it was connected?

sessionVars == <<open, stage, config, orphan>>

SessionInit ==
  /\ open = TRUE
  /\ stage = "off"
  /\ config = NoConfig
  /\ orphan = FALSE

(* A client asks for a connection. *)
Connect ==
  /\ open
  /\ stage = "off"
  /\ config = NoConfig
  /\ stage' = "asked"
  /\ UNCHANGED <<open, config, orphan>>

(* openconnect is started, or cannot be started. *)
Launch ==
  /\ stage = "asked"
  /\ config = NoConfig
  /\ stage' \in {"live", "dead"}
  /\ UNCHANGED <<open, config, orphan>>

(* The configuration is set up, never over another one unless the script   *)
(* of a killed process can have set that one up, ...                       *)
Configure ==
  /\ open
  /\ stage \in {"live", "dead"}
  /\ config = NoConfig \/ orphan
  /\ config' \in Configs
  /\ UNCHANGED <<open, stage, orphan>>

(* ... and removed. *)
Deconfigure ==
  /\ stage \in {"live", "dead"}
  /\ config' = NoConfig
  /\ UNCHANGED <<open, stage, orphan>>

(* openconnect terminates, possibly killed. *)
Die ==
  /\ stage \in {"live", "left"}
  /\ stage' = IF open THEN "dead" ELSE "off"
  /\ orphan' \in {orphan, TRUE}
  /\ UNCHANGED <<open, config>>

(* The daemon has noticed it: the connection is over. *)
End ==
  /\ stage = "dead"
  /\ stage' = "off"
  /\ config' = NoConfig
  /\ UNCHANGED <<open, orphan>>

(* The daemon stops. *)
Close ==
  /\ open
  /\ open' = FALSE
  /\ stage' = IF stage = "live" THEN "left" ELSE "off"
  /\ config' = NoConfig
  /\ UNCHANGED orphan

SessionNext ==
  Connect \/ Launch \/ Configure \/ Deconfigure \/ Die \/ End \/ Close

SessionSpec == SessionInit /\ [][SessionNext]_sessionVars

=============================================================================
