------------------------------- MODULE TrafPol ------------------------------
(***************************************************************************)
(* Traffic policing (internal/trafpol): the goroutine that keeps allowed   *)
(* devices, addresses, names and the captive portal's ports in nftables,   *)
(* composed with its Resolver and its captive portal detection (CPD).      *)
(* Its user is the daemon's main goroutine, which starts it, adds and      *)
(* removes addresses, takes the captive portal status and stops it.        *)
(*                                                                         *)
(* One TrafPol object lives from Start() to Stop().                        *)
(***************************************************************************)
EXTENDS CPD, Resolver

CONSTANTS
  AllowedAddrs,  \* the addresses among the allowed hosts
  ServerAddrs,   \* addresses the daemon adds and removes
  Devs, Lo,      \* network devices, the loopback device
  CmdsFail,      \* command lists whose nft commands can fail
  MonitorsFail   \* can the device and the DNS monitor fail to start?

Lists == {"rules", "devs", "hosts", "ports"}

ASSUME TrafPolAssumption ==
  /\ AllowedAddrs \subseteq IPs
  /\ ServerAddrs \subseteq IPs
  /\ Lo \in Devs
  /\ CmdsFail \subseteq Lists
  /\ MonitorsFail \in BOOLEAN

VARIABLES
  tpc,         \* Start() and start(): see TrafPolTypeOK
  tdone,       \* t.done is closed
  capPortal,   \* t.capPortal
  sending,     \* cpdStatus is set and cpdResults is nil
  allowDevs,   \* t.allowDevs
  allowAddrs,  \* t.allowAddrs
  allowNames,  \* t.allowNames
  rules,       \* nftables: the filter table exists
  devs,        \* ... its allowed devices
  hosts,       \* ... its allowed hosts
  ports,       \* ... are the portal's ports allowed?
  fails,       \* command lists whose last command failed
  told         \* the captive portal status the daemon was told last

trafpolVars == <<tpc, tdone, capPortal, sending, allowDevs, allowAddrs, allowNames, told>>
filterVars == <<rules, devs, hosts, ports, fails>>
vars == <<trafpolVars, filterVars, cpdVars, resolverVars>>

TrafPolTypeOK ==
  /\ CPDTypeOK
  /\ ResolverTypeOK
  /\ tpc \in {"nil", "devmon", "dnsmon",                         \* Start()
              "select", "resolve", "probe", "refresh",           \* start()
              "stopCPD", "waitCPD", "stopResolver", "waitResolver",
              "unset", "closed", "failed"}                       \* clean-up of both
  /\ tdone \in BOOLEAN
  /\ capPortal \in BOOLEAN
  /\ sending \in BOOLEAN
  /\ allowDevs \subseteq Devs
  /\ allowAddrs \subseteq IPs
  /\ allowNames \in [Names -> SUBSET IPs]
  /\ told \in BOOLEAN
  /\ rules \in BOOLEAN
  /\ devs \subseteq Devs
  /\ hosts \subseteq IPs
  /\ ports \in BOOLEAN
  /\ fails \subseteq Lists

Init ==
  /\ CPDInit
  /\ ResolverInit
  /\ tpc = "nil"
  /\ tdone = FALSE
  /\ capPortal = FALSE
  /\ sending = FALSE
  /\ allowDevs = {}
  /\ allowAddrs = AllowedAddrs
  /\ allowNames = [n \in Names |-> {}]
  /\ told = FALSE
  /\ rules = FALSE
  /\ devs = {}
  /\ hosts = {}
  /\ ports = FALSE
  /\ fails = {}

-----------------------------------------------------------------------------
(* nft replaces the elements of a set at once, or fails, as it does        *)
(* without the table, and leaves them; errors are only logged.             *)
CmdResults(list) == IF list \in CmdsFail THEN BOOLEAN ELSE {TRUE}

Ran(list, ok) == fails' = IF ok THEN fails \ {list} ELSE fails \cup {list}

(* The rules come with the loopback device allowed. *)
SetFilterRules(ok) ==
  /\ rules' = ok
  /\ devs' = IF ok THEN {Lo} ELSE {}

SetAllowedDevices(d, ok) ==
  /\ Ran("devs", ok /\ rules)
  /\ devs' = IF ok /\ rules THEN d ELSE devs
  /\ UNCHANGED <<rules, hosts, ports>>

SetAllowedIPs(h, ok) ==
  /\ Ran("hosts", ok /\ rules)
  /\ hosts' = IF ok /\ rules THEN h ELSE hosts
  /\ UNCHANGED <<rules, devs, ports>>

SetAllowedPorts(p, ok) ==
  /\ Ran("ports", ok /\ rules)
  /\ ports' = IF ok /\ rules THEN p ELSE ports
  /\ UNCHANGED <<rules, devs, hosts>>

(* The allowed devices and addresses after an addition or a removal. *)
AllowDevs(ds, v, add) == IF add THEN ds \cup {v} ELSE ds \ {v}

AllowAddrs(addrs, a, add) == IF add THEN addrs \cup {a} ELSE addrs \ {a}

GetAllowedHostsIPs(addrs, names) == addrs \cup UNION {names[n] : n \in Names}

-----------------------------------------------------------------------------
(* Start(): rules and allowed hosts are set, resolver and detection are    *)
(* started.                                                                *)
Start(okRules, okHosts) ==
  /\ tpc = "nil"
  /\ SetFilterRules(okRules)
  /\ hosts' = IF okRules /\ okHosts THEN GetAllowedHostsIPs(allowAddrs, allowNames) ELSE {}
  /\ fails' = (IF okRules THEN {} ELSE {"rules"})
                \cup (IF okRules /\ okHosts THEN {} ELSE {"hosts"})
  /\ CPDStart
  /\ ResolverStart
  /\ tpc' = "devmon"
  /\ UNCHANGED <<ports, tdone, capPortal, sending, allowDevs, allowAddrs, allowNames, told>>

(* A monitor that does not start makes Start() clean up and fail. *)
StartMonitor ==
  /\ \/ tpc = "devmon" /\ tpc' = "dnsmon"
     \/ tpc = "dnsmon" /\ tpc' = "select"
     \/ MonitorsFail /\ tpc \in {"devmon", "dnsmon"} /\ tpc' = "stopCPD"
  /\ UNCHANGED <<tdone, capPortal, sending, allowDevs, allowAddrs, allowNames, told,
                 filterVars, cpdVars, resolverVars>>

-----------------------------------------------------------------------------
(* Device and DNS updates. *)

(* Only virtual devices are added; a device that is removed, or added as a *)
(* physical one, is not allowed any more.                                  *)
DeviceUpdate(v, virtual, ok) ==
  /\ tpc = "select"
  /\ allowDevs' = AllowDevs(allowDevs, v, virtual)
  /\ IF allowDevs' # allowDevs
     THEN SetAllowedDevices(allowDevs', ok)
     ELSE UNCHANGED filterVars
  /\ UNCHANGED <<tpc, tdone, capPortal, sending, allowAddrs, allowNames, told,
                 cpdVars, resolverVars>>

(* handleDNSUpdate waits for the resolver and for the detection. *)
DNSUpdate ==
  /\ tpc = "select"
  /\ tpc' = "resolve"
  /\ UNCHANGED <<tdone, capPortal, sending, allowDevs, allowAddrs, allowNames, told,
                 filterVars, cpdVars, resolverVars>>

Resolve ==
  /\ tpc = "resolve"
  /\ ResolveRequested
  /\ tpc' = "probe"
  /\ UNCHANGED <<tdone, capPortal, sending, allowDevs, allowAddrs, allowNames, told,
                 filterVars, cpdVars>>

Probe ==
  /\ tpc = "probe"
  /\ ProbeRequested
  /\ tpc' = "select"
  /\ UNCHANGED <<tdone, capPortal, sending, allowDevs, allowAddrs, allowNames, told,
                 filterVars, resolverVars>>

-----------------------------------------------------------------------------
(* Captive portal reports and status. *)

(* A mutated form: a detected portal is not signalled to the daemon. *)
CPDReportSilent(ok) ==
  /\ tpc = "select"
  /\ ~sending
  /\ ReportSent
  /\ \/ /\ creport
        /\ IF capPortal THEN UNCHANGED filterVars ELSE SetAllowedPorts(TRUE, ok)
        /\ capPortal' = TRUE
        /\ UNCHANGED <<tpc, sending>>
     \/ /\ ~creport
        /\ tpc' = IF capPortal THEN "refresh" ELSE "select"
        /\ UNCHANGED <<capPortal, sending, filterVars>>
  /\ UNCHANGED <<tdone, allowDevs, allowAddrs, allowNames, told, resolverVars>>

(* handleCPDReport: a new portal opens the ports; a portal that is gone    *)
(* makes it wait for the resolver first.                                   *)
CPDReport(ok) ==
  /\ tpc = "select"
  /\ ~sending
  /\ ReportSent
  /\ \/ /\ creport
        /\ IF capPortal THEN UNCHANGED filterVars ELSE SetAllowedPorts(TRUE, ok)
        /\ capPortal' = TRUE
        /\ sending' = ~capPortal
        /\ UNCHANGED tpc
     \/ /\ ~creport
        /\ tpc' = IF capPortal THEN "refresh" ELSE "select"
        /\ UNCHANGED <<capPortal, sending, filterVars>>
  /\ UNCHANGED <<tdone, allowDevs, allowAddrs, allowNames, told, resolverVars>>

(* A mutated form: the ports of a portal that is gone stay open. *)
PortalGoneKeepPorts(ok) ==
  /\ tpc = "refresh"
  /\ ResolveRequested
  /\ capPortal' = FALSE
  /\ sending' = TRUE
  /\ tpc' = "select"
  /\ UNCHANGED <<tdone, allowDevs, allowAddrs, allowNames, told, filterVars, cpdVars>>

PortalGone(ok) ==
  /\ tpc = "refresh"
  /\ ResolveRequested
  /\ SetAllowedPorts(FALSE, ok)
  /\ capPortal' = FALSE
  /\ sending' = TRUE
  /\ tpc' = "select"
  /\ UNCHANGED <<tdone, allowDevs, allowAddrs, allowNames, told, cpdVars>>

(* The daemon takes the status; CPD results are read again. *)
CPDStatus ==
  /\ tpc = "select"
  /\ ~tdone
  /\ sending
  /\ told' = capPortal
  /\ sending' = FALSE
  /\ UNCHANGED <<tpc, tdone, capPortal, allowDevs, allowAddrs, allowNames,
                 filterVars, cpdVars, resolverVars>>

-----------------------------------------------------------------------------
(* Resolver updates and address commands. *)

ResolverUpdate(n, ok) ==
  /\ tpc = "select"
  /\ UpdateTaken(n)
  /\ allowNames' = [allowNames EXCEPT ![n] = ips[n]]
  /\ SetAllowedIPs(GetAllowedHostsIPs(allowAddrs, allowNames'), ok)
  /\ UNCHANGED <<tpc, tdone, capPortal, sending, allowDevs, allowAddrs, told, cpdVars>>

(* A mutated form: the address is taken out of the set that nftables has,  *)
(* also if a name still resolves to it.                                    *)
AddressCommandDirect(a, add, ok) ==
  /\ tpc = "select"
  /\ ~tdone
  /\ allowAddrs' = AllowAddrs(allowAddrs, a, add)
  /\ SetAllowedIPs(IF add THEN hosts \cup {a} ELSE hosts \ {a}, ok)
  /\ UNCHANGED <<tpc, tdone, capPortal, sending, allowDevs, allowNames, told,
                 cpdVars, resolverVars>>

(* AddAllowedAddr and RemoveAllowedAddr: the daemon sends the command and  *)
(* waits for its handling.                                                 *)
AddressCommand(a, add, ok) ==
  /\ tpc = "select"
  /\ ~tdone
  /\ allowAddrs' = AllowAddrs(allowAddrs, a, add)
  /\ IF allowAddrs' # allowAddrs
     THEN SetAllowedIPs(GetAllowedHostsIPs(allowAddrs', allowNames), ok)
     ELSE UNCHANGED filterVars
  /\ UNCHANGED <<tpc, tdone, capPortal, sending, allowDevs, allowNames, told,
                 cpdVars, resolverVars>>

-----------------------------------------------------------------------------
(* Stop() closes t.done and waits; start() returns and its deferred calls  *)
(* stop the monitors, the detection and the resolver and unset the rules.  *)
Stop ==
  /\ tpc \in {"select", "resolve", "probe", "refresh"}
  /\ ~tdone
  /\ tdone' = TRUE
  /\ UNCHANGED <<tpc, capPortal, sending, allowDevs, allowAddrs, allowNames, told,
                 filterVars, cpdVars, resolverVars>>

Return ==
  /\ tpc = "select"
  /\ tdone
  /\ tpc' = "stopCPD"
  /\ UNCHANGED <<tdone, capPortal, sending, allowDevs, allowAddrs, allowNames, told,
                 filterVars, cpdVars, resolverVars>>

StopCPD ==
  /\ \/ tpc = "stopCPD" /\ CloseCPD /\ tpc' = "waitCPD"
     \/ tpc = "waitCPD" /\ cpc = "closed" /\ tpc' = "stopResolver" /\ UNCHANGED cpdVars
  /\ UNCHANGED <<tdone, capPortal, sending, allowDevs, allowAddrs, allowNames, told,
                 filterVars, resolverVars>>

StopResolver ==
  /\ \/ tpc = "stopResolver" /\ CloseResolver /\ tpc' = "waitResolver"
     \/ tpc = "waitResolver" /\ rpc = "closed" /\ tpc' = "unset" /\ UNCHANGED resolverVars
  /\ UNCHANGED <<tdone, capPortal, sending, allowDevs, allowAddrs, allowNames, told,
                 filterVars, cpdVars>>

UnsetFilterRules(ok) ==
  /\ tpc = "unset"
  /\ Ran("rules", ok /\ rules)
  /\ IF ok /\ rules
     THEN rules' = FALSE /\ devs' = {} /\ hosts' = {} /\ ports' = FALSE
     ELSE UNCHANGED <<rules, devs, hosts, ports>>
  /\ tpc' = IF tdone THEN "closed" ELSE "failed"
  /\ UNCHANGED <<tdone, capPortal, sending, allowDevs, allowAddrs, allowNames, told,
                 cpdVars, resolverVars>>

Own == UNCHANGED <<trafpolVars, filterVars>>

Next ==
  \/ \E okRules \in CmdResults("rules"), okHosts \in CmdResults("hosts") : Start(okRules, okHosts)
  \/ StartMonitor
  \/ \E v \in Devs, virtual \in BOOLEAN, ok \in CmdResults("devs") : DeviceUpdate(v, virtual, ok)
  \/ DNSUpdate \/ Resolve \/ Probe
  \/ \E ok \in CmdResults("ports") : CPDReport(ok) \/ PortalGone(ok)
  \/ \E ok \in CmdResults("rules") : UnsetFilterRules(ok)
  \/ CPDStatus
  \/ \E n \in Names, ok \in CmdResults("hosts") : ResolverUpdate(n, ok)
  \/ \E a \in ServerAddrs, add \in BOOLEAN, ok \in CmdResults("hosts") : AddressCommand(a, add, ok)
  \/ Stop \/ Return \/ StopCPD \/ StopResolver
  \/ CPDInternal /\ Own /\ UNCHANGED resolverVars
  \/ ResolverInternal /\ Own /\ UNCHANGED cpdVars

Spec == Init /\ [][Next]_vars

(* The steps of each goroutine that do not wait in a select. *)
MainStep ==
  \/ StartMonitor \/ Resolve \/ Probe \/ StopCPD \/ StopResolver
  \/ \E ok \in CmdResults("ports") : PortalGone(ok)
  \/ \E ok \in CmdResults("rules") : UnsetFilterRules(ok)

CPDStep == (RecvProbeReport \/ ReportAborted \/ CPDReturn) /\ Own /\ UNCHANGED resolverVars

ProbeStep == (ProbeAborted \/ \E r \in BOOLEAN : ProbeResult(r)) /\ Own /\ UNCHANGED resolverVars

ResolverStep == (UpDone \/ ResolverDrained) /\ Own /\ UNCHANGED cpdVars

WorkerStep(n) ==
  (WorkerTakes(n) \/ LookupEnds(n) \/ UpdateAborted(n)) /\ Own /\ UNCHANGED cpdVars

(* Goroutines that can run do run, lookups and probes end.  The main loop's *)
(* select does not ignore a case that is ready again and again, and the    *)
(* daemon takes the status.  Nothing is assumed of monitors, timers and    *)
(* the daemon's commands.                                                  *)
Fairness ==
  /\ WF_vars(MainStep)
  /\ SF_vars(\E ok \in CmdResults("ports") : CPDReport(ok))
  /\ SF_vars(CPDStatus)
  /\ \A n \in Names : SF_vars(\E ok \in CmdResults("hosts") : ResolverUpdate(n, ok))
  /\ SF_vars(Return)
  /\ WF_vars(CPDStep)
  /\ WF_vars(ProbeStep)
  /\ WF_vars(ResolverStep)
  /\ WF_vars(ResolverDone /\ Own /\ UNCHANGED cpdVars)
  /\ WF_vars(WorkersDone /\ Own /\ UNCHANGED cpdVars)
  /\ \A n \in Names : WF_vars(WorkerStep(n))

FairSpec == Spec /\ Fairness

-----------------------------------------------------------------------------
(* Properties *)

Looping == tpc \in {"select", "resolve", "probe", "refresh"}

(* What nftables lets through is what traffic policing, and what resolver  *)
(* have recorded.  The hosts are the configured addresses, those of the    *)
(* daemon and the last addresses of every name whose change is not still   *)
(* being sent.  The devices are the virtual ones that are there; until the *)
(* first of them is added it is the loopback device, which came with the   *)
(* rules.  This holds for a set whose last command succeeded, also after   *)
(* failures.                                                               *)
FilterExact ==
  /\ (Looping /\ "hosts" \notin fails /\ \A n \in Names : job[n] # "offer")
       => hosts = GetAllowedHostsIPs(allowAddrs, ips)
  /\ (Looping /\ "devs" \notin fails)
       => devs = allowDevs \/ (allowDevs = {} /\ devs = {Lo})

(* The ports of a captive portal are open if and only if the detection's   *)
(* last report was a portal, and the daemon was told so or is about to be: *)
(* no report is lost between the detection, the main loop, which stops     *)
(* reading reports while it sends a status, nft and the daemon.            *)
PortalExact ==
  /\ (Looping /\ tpc # "refresh" /\ "ports" \notin fails) => (ports <=> detected)
  /\ (Looping /\ ~sending) => told = capPortal

(* A request to resolve is never lost: a name that was not looked up since *)
(* is queued in the update in progress, or another update is to follow.    *)
ResolveNotLost == upAgain \/ \A n \in due : job[n] = "queued"

(* Once traffic policing has stopped or failed to start, none of its       *)
(* goroutines is left to block or to act for ever, and the rules are gone  *)
(* unless nft failed.                                                      *)
StoppedIsQuiet ==
  tpc \in {"closed", "failed"} =>
    /\ cpc = "closed" /\ rpc = "closed" /\ upc = "none"
    /\ \A n \in Names : job[n] = "none"
    /\ "rules" \notin fails => ~rules

(* Stop() returns: main loop, detection, resolver and workers never wait   *)
(* for each other in a circle.                                             *)
StopReturns == tdone ~> tpc = "closed"

(* After a DNS update every name is looked up again and a new probe is     *)
(* started, also when the update came during an update, a lookup, a probe  *)
(* or the handing over of a report.                                        *)
DNSUpdateHandled ==
  /\ \A n \in Names : n \in due ~> (n \notin due \/ tdone)
  /\ asked ~> (~asked \/ tdone)

(* A change of the captive portal's status reaches the daemon.             *)
PortalReported == (Looping /\ told # capPortal) ~> (told = capPortal \/ tdone)

=============================================================================
