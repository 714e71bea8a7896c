------------------------------ MODULE VPNSetup ------------------------------
(***************************************************************************)
(* The VPN setup (internal/vpnsetup): the goroutine that sets up and tears *)
(* down the configuration of the tunnel and applies the split excludes to  *)
(* nftables, the goroutine that ensures the DNS settings, and the DNS      *)
(* proxy's handlers that report addresses, composed with split routing.    *)
(*                                                                         *)
(* Setup and Teardown alternate, as daemon.go's updateVPNConfigUp and      *)
(* updateVPNConfigDown call them (module OCDaemon).  Configuration of the  *)
(* host is changed by commands that may fail; errors are only logged.      *)
(***************************************************************************)
EXTENDS SplitRouting

CONSTANTS
  Gateway,       \* the prefix of the VPN gateway, at most one, as a set
  CmdsFail,      \* may commands fail?
  MonitorsFail,  \* may splitrt's Start() fail?
  Drifts         \* the DNS settings that may change under the daemon

(* What ensureDNS checks. *)
Settings == {"servers", "domains", "defaultRoute"}

ASSUME VPNSetupAssumption ==
  /\ Gateway \subseteq StaticExcludes
  /\ CmdsFail \in BOOLEAN
  /\ MonitorsFail \in BOOLEAN
  /\ Drifts \subseteq Settings

VARIABLES
  vpc,      \* what the VPNSetup goroutine does
  pending,  \* the prefixes handlePrefixes is applying
  ensure,   \* the goroutine of ensureConfig
  edone,    \* v.ensureDone is closed
  table,    \* does the nftables table exist?
  kernel,   \* the elements of its sets of excludes
  dns,      \* which DNS settings of the tunnel device are as set up
  failed,   \* did the last command fail to configure or remove excludes?
  watch     \* does the DNS proxy watch names?

setupVars == <<vpc, pending, ensure, edone, table, kernel, dns, failed, watch>>
vars == <<splitVars, setupVars>>

VPNSetupTypeOK ==
  /\ SplitTypeOK
  /\ vpc \in {"select", "setup", "nft", "stopEnsure", "stopSplit", "waitSplit", "teardown",
              "stopped"}
  /\ pending \subseteq Prefixes
  /\ ensure \in {"nil", "sleep", "reset"}
  /\ edone \in BOOLEAN
  /\ table \in BOOLEAN
  /\ kernel \subseteq Prefixes
  /\ dns \subseteq Settings
  /\ failed \in BOOLEAN
  /\ watch \in BOOLEAN

Init ==
  /\ spc = "nil"
  /\ static = {}
  /\ dynamic = [a \in Addrs |-> NoEntry]
  /\ devices = {}
  /\ addrs = [v \in Devs |-> {}]
  /\ locals = {}
  /\ want = {}
  /\ add = {}
  /\ del = {}
  /\ updated = FALSE
  /\ offer = {}
  /\ report = NoQuery
  /\ sdone = FALSE
  /\ query = [q \in Queries |-> [pc |-> "idle", addr |-> NoAddress]]
  /\ rest = [a \in Addrs |-> 0]
  /\ vpc = "select"
  /\ pending = {}
  /\ ensure = "nil"
  /\ edone = FALSE
  /\ table = FALSE
  /\ kernel = {}
  /\ dns = {}
  /\ failed = FALSE
  /\ watch = FALSE

CmdResults == IF CmdsFail THEN BOOLEAN ELSE {TRUE}

-----------------------------------------------------------------------------
(* setup *)

(* The watches are set and split routing is started; an error of Start()   *)
(* is only logged.                                                         *)
Setup(ok) ==
  /\ vpc = "select"
  /\ spc = "nil"
  /\ SplitStart(ok)
  /\ watch' = TRUE
  /\ vpc' = "setup"
  /\ failed' = FALSE
  /\ UNCHANGED <<pending, ensure, edone, table, kernel, dns>>

(* The setup commands run, while split routing already does, and then      *)
(* ensureConfig is started.                                                *)
SetupCmds(okTable, okDNS) ==
  /\ vpc = "setup"
  /\ spc # "config"
  /\ table' = (table \/ okTable)
  /\ kernel' = IF okTable THEN kernel \cup Gateway ELSE kernel
  /\ dns' = IF okDNS THEN Settings ELSE dns
  /\ failed' = ~okTable
  /\ ensure' = "sleep"
  /\ edone' = FALSE
  /\ vpc' = "select"
  /\ UNCHANGED <<splitVars, pending, watch>>

-----------------------------------------------------------------------------
(* handlePrefixes *)

RecvPrefixes ==
  /\ vpc = "select"
  /\ spc = "send"
  /\ PrefixesReceived
  /\ pending' = offer
  /\ vpc' = "nft"
  /\ UNCHANGED <<ensure, edone, table, kernel, dns, failed, watch>>

(* One nft command flushes the sets and adds the elements, atomically. *)
SetExcludes(ok) ==
  /\ vpc = "nft"
  /\ IF ok /\ table
     THEN kernel' = pending /\ failed' = FALSE
     ELSE failed' = TRUE /\ UNCHANGED kernel
  /\ pending' = {}
  /\ vpc' = "select"
  /\ UNCHANGED <<splitVars, ensure, edone, table, dns, watch>>

-----------------------------------------------------------------------------
(* DNS queries for watched names: each handler sends a report and waits    *)
(* for it to be closed before it forwards the answer.                      *)

Query(q, a) ==
  /\ watch
  /\ vpc # "stopped"
  /\ query[q].pc \in {"idle", "answered"}
  /\ query' = [query EXCEPT ![q] = [pc |-> "report", addr |-> a]]
  /\ UNCHANGED <<spc, static, dynamic, updateVars, offer, report, sdone, rest, setupVars>>

(* Without split routing VPNSetup closes reports itself. *)
IdleReport(q) ==
  /\ vpc = "select"
  /\ spc = "nil"
  /\ query[q].pc = "report"
  /\ query' = [query EXCEPT ![q].pc = "answered"]
  /\ UNCHANGED <<spc, static, dynamic, updateVars, offer, report, sdone, rest, setupVars>>

(* A mutated form: sendReport does not notice that the proxy is stopped. *)
QueryAbortWaiting(q) ==
  /\ vpc = "stopped"
  /\ query[q].pc = "wait"
  /\ query' = [query EXCEPT ![q].pc = "answered"]
  /\ UNCHANGED <<spc, static, dynamic, updateVars, offer, report, sdone, rest, setupVars>>

(* The proxy is stopped: handlers do not wait any longer. *)
QueryAbort(q) ==
  /\ vpc = "stopped"
  /\ query[q].pc \in {"report", "wait"}
  /\ query' = [query EXCEPT ![q].pc = "answered"]
  /\ UNCHANGED <<spc, static, dynamic, updateVars, offer, report, sdone, rest, setupVars>>

-----------------------------------------------------------------------------
(* ensureConfig *)

(* The settings change under the daemon. *)
DNSDrift(s) ==
  /\ s \in dns
  /\ dns' = dns \ {s}
  /\ UNCHANGED <<splitVars, vpc, pending, ensure, edone, table, kernel, failed, watch>>

(* A mutated form: only the DNS servers are checked. *)
EnsureDNSServersOnly(ok) ==
  /\ ensure = "sleep"
  /\ ensure' = IF ok /\ "servers" \notin dns THEN "reset" ELSE "sleep"
  /\ UNCHANGED <<splitVars, vpc, pending, edone, table, kernel, dns, failed, watch>>

(* A timer fires and ensureDNS checks the settings, if it can get them. *)
EnsureDNS(ok) ==
  /\ ensure = "sleep"
  /\ ensure' = IF ok /\ dns # Settings THEN "reset" ELSE "sleep"
  /\ UNCHANGED <<splitVars, vpc, pending, edone, table, kernel, dns, failed, watch>>

(* resetDNS.  Its default-route command names the device by the whole      *)
(* VPNConfig.Device, name and MTU in braces, which is not a device.        *)
ResetDNS(ok) ==
  /\ ensure = "reset"
  /\ ensure' = "sleep"
  /\ dns' = IF ok THEN dns \cup {"servers", "domains"} ELSE dns
  /\ UNCHANGED <<splitVars, vpc, pending, edone, table, kernel, failed, watch>>

EnsureReturn ==
  /\ ensure = "sleep"
  /\ edone
  /\ ensure' = "nil"
  /\ UNCHANGED <<splitVars, vpc, pending, edone, table, kernel, dns, failed, watch>>

-----------------------------------------------------------------------------
(* teardown and Stop *)

Teardown ==
  /\ vpc = "select"
  /\ spc # "nil"
  /\ edone' = TRUE
  /\ vpc' = "stopEnsure"
  /\ UNCHANGED <<splitVars, pending, ensure, table, kernel, dns, failed, watch>>

(* A mutated form: stopEnsure does not wait for ensureConfig. *)
EnsureStoppedEarly ==
  /\ vpc = "stopEnsure"
  /\ vpc' = "stopSplit"
  /\ UNCHANGED <<splitVars, pending, ensure, edone, table, kernel, dns, failed, watch>>

EnsureStopped ==
  /\ vpc = "stopEnsure"
  /\ ensure = "nil"
  /\ vpc' = "stopSplit"
  /\ UNCHANGED <<splitVars, pending, ensure, edone, table, kernel, dns, failed, watch>>

(* splitrt.Stop() closes done and waits for the goroutine, *)
StopSplit ==
  /\ vpc = "stopSplit"
  /\ CloseSplit
  /\ vpc' = "waitSplit"
  /\ UNCHANGED <<pending, ensure, edone, table, kernel, dns, failed, watch>>

SplitStopped ==
  /\ vpc = "waitSplit"
  /\ SplitGone
  /\ vpc' = "teardown"
  /\ UNCHANGED <<pending, ensure, edone, table, kernel, dns, failed, watch>>

(* the teardown commands run, and the watches are reset. *)
TeardownCmds(ok) ==
  /\ vpc = "teardown"
  /\ IF ok
     THEN table' = FALSE /\ kernel' = {} /\ dns' = {} /\ failed' = FALSE
     ELSE failed' = TRUE /\ UNCHANGED <<table, kernel, dns>>
  /\ watch' = FALSE
  /\ vpc' = "select"
  /\ UNCHANGED <<splitVars, pending, ensure, edone>>

(* The daemon tears down before it stops VPNSetup. *)
Stop ==
  /\ vpc = "select"
  /\ spc = "nil"
  /\ vpc' = "stopped"
  /\ UNCHANGED <<splitVars, pending, ensure, edone, table, kernel, dns, failed, watch>>

SplitStep ==
  /\ SplitInternal \/ SplitMonitors \/ SplitDNS \/ Timer
  /\ UNCHANGED setupVars

Next ==
  \/ Setup(TRUE)
  \/ MonitorsFail /\ Setup(FALSE)
  \/ \E okTable, okDNS \in CmdResults : SetupCmds(okTable, okDNS)
  \/ RecvPrefixes
  \/ \E ok \in CmdResults : SetExcludes(ok) \/ EnsureDNS(ok) \/ ResetDNS(ok) \/ TeardownCmds(ok)
  \/ \E q \in Queries : IdleReport(q) \/ QueryAbort(q)
  \/ \E q \in Queries, a \in Addrs : Query(q, a)
  \/ \E s \in Drifts : DNSDrift(s)
  \/ EnsureReturn \/ Teardown \/ EnsureStopped \/ StopSplit \/ SplitStopped \/ Stop
  \/ SplitStep

Spec == Init /\ [][Next]_vars

(* Every goroutine that can go on does.  A goroutine at a select with      *)
(* several ready channels picks one at random: it neither ignores a closed *)
(* done channel nor a waiting report forever.                              *)
Fairness ==
  /\ \A p \in Prefixes : WF_vars(AddConfigured(p) /\ UNCHANGED setupVars)
  /\ \A p \in Prefixes : WF_vars(UpdateAdd(p) /\ UNCHANGED setupVars)
  /\ \A p \in Prefixes : WF_vars(UpdateRemove(p) /\ UNCHANGED setupVars)
  /\ WF_vars((SplitRun \/ UpdateEnd) /\ UNCHANGED setupVars)
  /\ WF_vars(SendAborted /\ UNCHANGED setupVars)
  /\ SF_vars(SplitReturn /\ UNCHANGED setupVars)
  /\ \A q \in Queries : SF_vars((\E t \in 0 .. MaxTTL : DNSReport(q, t)) /\ UNCHANGED setupVars)
  /\ WF_vars(\E okTable, okDNS \in CmdResults : SetupCmds(okTable, okDNS))
  /\ SF_vars(RecvPrefixes)
  /\ WF_vars(\E ok \in CmdResults : SetExcludes(ok))
  /\ WF_vars(\E ok \in CmdResults : TeardownCmds(ok))
  /\ \A q \in Queries : SF_vars(IdleReport(q)) /\ WF_vars(QueryAbort(q))
  /\ WF_vars(\E ok \in CmdResults : EnsureDNS(ok))
  /\ WF_vars(\E ok \in CmdResults : ResetDNS(ok))
  /\ SF_vars(EnsureReturn)
  /\ WF_vars(EnsureStopped \/ StopSplit \/ SplitStopped)

FairSpec == Spec /\ Fairness

-----------------------------------------------------------------------------
(* Properties *)

(* No two static excludes overlap, whatever the order in which AddStatic   *)
(* and RemoveStatic are called for the configured excludes and for the     *)
(* local networks that come and go.                                        *)
StaticDisjoint == \A v, w \in static : v # w => v.net \cap w.net = {}

(* When the goroutine of split routing is back in its select, the local    *)
(* excludes it keeps are the addresses of the local devices it knows.      *)
LocalsCurrent ==
  (ExcludeLocal /\ spc = "select") => locals = LocalPrefixes(devices, addrs)

(* When both goroutines are idle and the last command succeeded, nftables  *)
(* has every static and dynamic exclude: no update is lost between split   *)
(* routing's channel and nft, not even the one of the start, which can     *)
(* overtake the setup commands that create the table.                      *)
KernelComplete ==
  (vpc = "select" /\ spc = "select" /\ ~failed) => GetPrefixes(static, dynamic) \subseteq kernel

(* A dynamic exclude is not removed before the TTL of its last recorded    *)
(* answer has passed: cleanup() never counts the time of a whole timer     *)
(* period against an entry that is younger.                                *)
TTLRespected ==
  [][\A a \in Addrs : (dynamic[a].there /\ ~dynamic'[a].there /\ spc' # "nil") => rest'[a] = 0]_vars

(* After a teardown whose commands succeeded, neither the table nor any    *)
(* DNS setting of the tunnel is there, and none comes back: ensureConfig   *)
(* cannot set DNS again behind the teardown.                               *)
NothingLeft == (vpc \in {"select", "stopped"} /\ spc = "nil" /\ ~failed) => ~table /\ dns = {}

(* A teardown comes to its end: no goroutine waits for another in a cycle. *)
TeardownReturns == vpc = "stopEnsure" ~> vpc \in {"select", "stopped"}

(* A DNS query for a watched name is answered, also when its report comes  *)
(* while the tunnel is set up or torn down or VPNSetup is stopped.         *)
QueryAnswered == \A q \in Queries : query[q].pc \in {"report", "wait"} ~> query[q].pc = "answered"

(* A lost DNS server or domain setting is restored or the VPN torn down.   *)
DNSRepaired ==
  \A s \in {"servers", "domains"} :
    (s \notin dns /\ ensure # "nil") ~> (s \in dns \/ ensure = "nil")

=============================================================================
