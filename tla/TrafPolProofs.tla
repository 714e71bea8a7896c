---------------------------- MODULE TrafPolProofs ---------------------------
(***************************************************************************)
(* Proofs about traffic policing with its resolver and its captive portal  *)
(* detection, for all names, addresses, devices, numbers of workers and of *)
(* lookups, and all failures of commands and monitors.                     *)
(***************************************************************************)
EXTENDS TrafPol, FiniteSetTheorems, TLAPS

Serving == tpc \in {"devmon", "dnsmon", "select", "resolve", "probe", "refresh"}

Stopped == tpc \in {"unset", "closed", "failed"}

(* Which goroutines are up in which phase of the main one. *)
Phases ==
  /\ (tpc = "nil") <=> (cpc = "nil")
  /\ (tpc = "nil") <=> (rpc = "nil")
  /\ cpc = "closed" => cdone
  /\ cdone => Stopped \/ tpc \in {"waitCPD", "stopResolver", "waitResolver"}
  /\ (Stopped \/ tpc \in {"stopResolver", "waitResolver"}) => cpc = "closed"
  /\ Canceled => rdone
  /\ rdone => Stopped \/ tpc = "waitResolver"
  /\ Stopped => rpc = "closed"

(* An update is in progress when the resolver thinks so, and its workers   *)
(* have names only then.                                                   *)
UpdateInv ==
  /\ rpc # "closed" => (updating <=> upc # "none")
  /\ rpc \in {"nil", "closed"} => upc = "none"
  /\ (rpc = "drain" \/ upAgain) => updating
  /\ upc # "running" => \A n \in Names : job[n] = "none"

(* Main loop and resolver agree on the addresses of a name unless its      *)
(* worker is still sending a change.                                       *)
NamesInSync == Serving => \A n \in Names : job[n] # "offer" => allowNames[n] = ips[n]

(* nftables has the allowed hosts as the main loop knows them. *)
HostsInv == (Serving /\ "hosts" \notin fails) => hosts = GetAllowedHostsIPs(allowAddrs, allowNames)

(* nftables has the allowed devices, or still those it came with. *)
DevsInv ==
  (Serving /\ "devs" \notin fails) => devs = allowDevs \/ (allowDevs = {} /\ devs = {Lo})

(* Detection, main loop, nftables and daemon on the captive portal. *)
PortalInv ==
  Serving =>
    /\ tpc = "refresh" => capPortal /\ ~detected /\ ~sending
    /\ tpc # "refresh" => capPortal = detected
    /\ "ports" \notin fails => ports = capPortal
    /\ ~sending => told = capPortal
    /\ tpc \in {"devmon", "dnsmon"} => ~sending

(* The rules are gone once they were unset without an error. *)
RulesInv ==
  /\ tpc = "nil" => ~rules /\ ~ports /\ fails = {} /\ ~capPortal /\ ~detected /\ ~sending /\ ~told
                 /\ allowDevs = {}
  /\ (tpc \in {"closed", "failed"} /\ "rules" \notin fails) => ~rules

TInv ==
  /\ TrafPolTypeOK
  /\ Phases
  /\ UpdateInv
  /\ NamesInSync
  /\ HostsInv
  /\ DevsInv
  /\ PortalInv
  /\ RulesInv
  /\ ResolveNotLost
  /\ tpc = "nil" => \A n \in Names : allowNames[n] = ips[n]

-----------------------------------------------------------------------------
(* NewTrafPol establishes the invariant. *)
LEMMA TrafPolInitInv == Init => TInv
  <1> SUFFICES ASSUME Init PROVE TInv
    OBVIOUS
  <1> USE ResolverAssumption, TrafPolAssumption DEF Init, CPDInit, ResolverInit
  <1>1. CPDTypeOK
    BY Zenon DEF CPDTypeOK
  <1>2. ResolverTypeOK
    <2>1. 0 \in 0 .. ResolveTries /\ 0 \in 0 .. ResolveTTL
      OBVIOUS
    <2>2. tries \in [Names -> 0 .. ResolveTries] /\ ttl \in [Names -> 0 .. ResolveTTL]
      BY <2>1, Zenon
    <2>3. job \in [Names -> {"none", "queued", "lookup", "offer"}] /\ ips \in [Names -> SUBSET IPs]
      OBVIOUS
    <2>4. workers \in Nat /\ due \subseteq Names
      OBVIOUS
    <2>5. updating \in BOOLEAN /\ upAgain \in BOOLEAN /\ rdone \in BOOLEAN
      BY Zenon
    <2>6. QED
      BY <2>2, <2>3, <2>4, <2>5, Zenon DEF ResolverTypeOK
  <1>3. TrafPolTypeOK
    BY <1>1, <1>2 DEF TrafPolTypeOK
  <1>4. QED
    BY <1>3 DEF TInv, Phases, UpdateInv, NamesInSync, HostsInv, PortalInv, RulesInv, DevsInv,
                ResolveNotLost, Serving, Stopped, Canceled

(* The steps of the captive portal detection keep its types. *)
LEMMA CPDTypes ==
  ASSUME CPDTypeOK,
         \/ CPDStart \/ ProbeRequested \/ ReportSent \/ CloseCPD \/ CPDInternal
         \/ UNCHANGED cpdVars
  PROVE  CPDTypeOK'
  <1> USE DEF CPDTypeOK
  <1>1. CASE CPDStart
    BY <1>1 DEF CPDStart
  <1>2. CASE ProbeRequested
    BY <1>2 DEF ProbeRequested, StartProbe
  <1>3. CASE ReportSent
    BY <1>3 DEF ReportSent, StartProbe
  <1>4. CASE CloseCPD
    BY <1>4 DEF CloseCPD
  <1>5. CASE CPDInternal
    BY <1>5 DEF CPDInternal, ProbeResult, ProbeAborted, RecvProbeReport, ReportAborted,
                CPDTimer, CPDReturn, StartProbe
  <1>6. CASE UNCHANGED cpdVars
    BY <1>6 DEF cpdVars
  <1>7. QED
    BY <1>1, <1>2, <1>3, <1>4, <1>5, <1>6

(* An update keeps the types of the resolver: lifetimes do not become      *)
(* negative and there is at least one worker.                              *)
LEMMA UpdateTypes ==
  ASSUME ResolverTypeOK, NEW force \in BOOLEAN, Update(force)
  PROVE  /\ upc' = "running"
         /\ workers' \in Nat \ {0}
         /\ job' \in [Names -> {"none", "queued"}]
         /\ ttl' \in [Names -> 0 .. ResolveTTL]
  <1> DEFINE names == {n \in Names : force \/ Old(n)}
  <1>1. IsFiniteSet(names)
    BY FS_Subset, ResolverAssumption
  <1>2. Cardinality(names) \in Nat
    BY <1>1, FS_CardinalityType
  <1>3. workers' = (Cardinality(names) \div NamesPerWorker) + 1
    BY DEF Update
  <1>4. workers' \in Nat \ {0}
    <2> HIDE DEF names
    <2> QED
      BY <1>2, <1>3, ResolverAssumption
  <1>5. \A n \in Names : n \notin names => ttl[n] - 1 \in 0 .. ResolveTTL
    BY ResolverAssumption DEF Old, ResolverTypeOK
  <1>6. ttl' \in [Names -> 0 .. ResolveTTL]
    <2>1. ttl' = [n \in Names |-> IF n \in names THEN ttl[n] ELSE ttl[n] - 1]
      BY DEF Update
    <2> HIDE DEF names
    <2> QED
      BY <1>5, <2>1 DEF ResolverTypeOK
  <1>7. QED
    BY <1>4, <1>6 DEF Update

(* The steps of the resolver keep its types. *)
LEMMA ResolverTypes ==
  ASSUME ResolverTypeOK,
         \/ ResolverStart \/ ResolveRequested \/ CloseResolver \/ ResolverInternal
         \/ \E n \in Names : UpdateTaken(n)
         \/ UNCHANGED resolverVars
  PROVE  ResolverTypeOK'
  <1>1. ASSUME NEW force \in BOOLEAN, Update(force), UNCHANGED <<rpc, tries, ips, rdone>>,
               updating' \in BOOLEAN, upAgain' \in BOOLEAN, due' \subseteq Names
        PROVE  ResolverTypeOK'
    BY <1>1, UpdateTypes DEF ResolverTypeOK
  <1>2. CASE ResolverStart
    BY <1>2 DEF ResolverStart, ResolverTypeOK
  <1>3. CASE ResolveRequested
    <2>1. CASE updating
      BY <1>3, <2>1 DEF ResolveRequested, ResolverTypeOK
    <2>2. CASE ~updating
      BY <1>1, <1>3, <2>2 DEF ResolveRequested, ResolverTypeOK
    <2>3. QED
      BY <2>1, <2>2
  <1>4. CASE CloseResolver
    BY <1>4 DEF CloseResolver, ResolverTypeOK
  <1>5. CASE UpDone
    <2>1. CASE upAgain
      BY <1>1, <1>5, <2>1 DEF UpDone, ResolverTypeOK
    <2>2. CASE ~upAgain
      <3>1. updating' = FALSE /\ upAgain' = FALSE
        BY <1>5, <2>2, Zenon DEF UpDone, ResolverTypeOK
      <3>2. /\ upc' = "none" /\ workers' = 0
            /\ UNCHANGED <<rpc, job, tries, ttl, ips, rdone, due>>
        BY <1>5, <2>2 DEF UpDone
      <3>3. QED
        BY <3>1, <3>2 DEF ResolverTypeOK
    <2>3. QED
      BY <2>1, <2>2
  <1>6. CASE ResolveTimer
    BY <1>1, <1>6 DEF ResolveTimer, ResolverTypeOK
  <1>7. CASE WorkersDone \/ ResolverDone \/ ResolverDrained
    BY <1>7 DEF WorkersDone, ResolverDone, ResolverDrained, ResolverTypeOK
  <1>8. ASSUME NEW n \in Names, WorkerTakes(n) \/ LookupEnds(n) \/ UpdateTaken(n)
        PROVE  ResolverTypeOK'
    <2> USE ResolverAssumption DEF ResolverTypeOK
    <2>1. CASE WorkerTakes(n)
      BY <2>1 DEF WorkerTakes
    <2>2. CASE LookupFails(n)
      BY <2>2 DEF LookupFails
    <2>3. CASE LookupNotFound(n)
      BY <2>3 DEF LookupNotFound
    <2>4. ASSUME NEW a \in Answers, LookupAnswers(n, a)
          PROVE  ResolverTypeOK'
      BY <2>4 DEF LookupAnswers
    <2>5. CASE UpdateTaken(n)
      BY <2>5 DEF UpdateTaken
    <2>6. QED
      BY <1>8, <2>1, <2>2, <2>3, <2>4, <2>5 DEF LookupEnds
  <1>9. CASE UNCHANGED resolverVars
    BY <1>9 DEF resolverVars, ResolverTypeOK
  <1>10. QED
    BY <1>2, <1>3, <1>4, <1>5, <1>6, <1>7, <1>8, <1>9 DEF ResolverInternal, UpdateAborted

-----------------------------------------------------------------------------
(* Steps of the detection preserve the invariant. *)
LEMMA CPDInternalInv ==
  ASSUME TInv, CPDInternal, Own, UNCHANGED resolverVars
  PROVE  TInv'
  <1>1. TrafPolTypeOK'
    BY CPDTypes DEF TInv, TrafPolTypeOK, Own, trafpolVars, filterVars, resolverVars, ResolverTypeOK
  <1>2. UNCHANGED <<cdone, detected>>
    BY DEF CPDInternal, ProbeResult, ProbeAborted, RecvProbeReport, ReportAborted, CPDTimer, CPDReturn
  <1>3. /\ cpc # "nil" => cpc' # "nil"
        /\ cpc' # cpc => cpc' # "closed" \/ cdone
        /\ cpc = "nil" => cpc' = "nil"
        /\ cpc = "closed" => cpc' = "closed"
    BY DEF CPDInternal, ProbeResult, ProbeAborted, RecvProbeReport, ReportAborted, CPDTimer,
           CPDReturn, TInv, TrafPolTypeOK, CPDTypeOK
  <1>4. Phases'
    BY <1>2, <1>3 DEF TInv, Phases, Own, trafpolVars, resolverVars, Serving, Stopped, Canceled
  <1>5. QED
    BY <1>1, <1>2, <1>4 DEF TInv, UpdateInv, NamesInSync, HostsInv, PortalInv, RulesInv,
       DevsInv, ResolveNotLost, Serving, Own, trafpolVars, filterVars, resolverVars, GetAllowedHostsIPs

(* A forced update queues every name, and any update starts from names     *)
(* that are not in one.                                                    *)
LEMMA UpdateStep ==
  ASSUME TInv, NEW force \in BOOLEAN, Update(force), upc # "running",
         UNCHANGED <<ips, allowNames, tpc>>
  PROVE  /\ NamesInSync'
         /\ force => \A n \in Names : job'[n] = "queued"
  <1>1. \A n \in Names : job[n] = "none"
    BY DEF TInv, UpdateInv
  <1>2. NamesInSync'
    BY <1>1 DEF TInv, NamesInSync, Serving
  <1>3. QED
    BY <1>2 DEF Update

(* Steps of the resolver and of its workers preserve the invariant. *)
LEMMA ResolverInternalInv ==
  ASSUME TInv, ResolverInternal, Own, UNCHANGED cpdVars
  PROVE  TInv'
  <1> USE DEF Own, trafpolVars, filterVars, cpdVars
  <1>1. ResolverTypeOK'
    BY ResolverTypes DEF TInv, TrafPolTypeOK
  <1>2. TrafPolTypeOK'
    BY <1>1 DEF TInv, TrafPolTypeOK, CPDTypeOK
  <1>3. HostsInv' /\ DevsInv' /\ PortalInv' /\ RulesInv'
    BY DEF TInv, HostsInv, PortalInv, RulesInv, DevsInv, Serving, GetAllowedHostsIPs
  <1>4. tpc # "nil"
    <2>1. upc = "none" => \A n \in Names : job[n] = "none"
      BY DEF TInv, UpdateInv
    <2>2. CASE rpc = "nil"
      BY <2>1, <2>2 DEF TInv, UpdateInv, ResolverInternal, UpDone, ResolveTimer, WorkersDone,
           ResolverDone, ResolverDrained, WorkerTakes, LookupEnds, LookupFails, LookupNotFound,
           LookupAnswers, UpdateAborted, UpdateTaken, Canceled
    <2>3. QED
      BY <2>2 DEF TInv, Phases
  <1> SUFFICES Phases' /\ UpdateInv' /\ NamesInSync' /\ ResolveNotLost'
    BY <1>2, <1>3, <1>4 DEF TInv
  <1>5. CASE UpDone
    <2>1. CASE upAgain
      <3>1. Update(TRUE) /\ UNCHANGED <<rpc, ips, rdone, due>> /\ rpc = "select"
        BY <1>5, <2>1 DEF UpDone
      <3>2. upc # "running"
        BY <1>5 DEF UpDone
      <3>3. NamesInSync' /\ \A n \in Names : job'[n] = "queued"
        BY <3>1, <3>2, UpdateStep
      <3>4. Phases'
        BY <3>1 DEF TInv, Phases, Serving, Stopped, Canceled
      <3>5. updating' = TRUE
        BY <1>5, <2>1, Zenon DEF UpDone, TInv, TrafPolTypeOK, ResolverTypeOK
      <3>6. UpdateInv'
        BY <3>1, <3>5 DEF UpdateInv, Update
      <3>7. ResolveNotLost'
        BY <3>1, <3>3 DEF ResolveNotLost, TInv, TrafPolTypeOK, ResolverTypeOK
      <3>8. QED
        BY <3>3, <3>4, <3>6, <3>7
    <2>2. CASE ~upAgain
      <3>1. upc' = "none" /\ UNCHANGED <<rpc, job, ips, rdone, due>> /\ rpc = "select"
        BY <1>5, <2>2 DEF UpDone
      <3>2. updating' = FALSE /\ upAgain' = FALSE
        BY <1>5, <2>2, Zenon DEF UpDone, TInv, TrafPolTypeOK, ResolverTypeOK
      <3>3. UpdateInv'
        BY <1>5, <3>1, <3>2 DEF UpdateInv, UpDone, TInv
      <3>4. QED
        BY <2>2, <3>1, <3>3 DEF TInv, Phases, NamesInSync, ResolveNotLost, Serving, Stopped, Canceled
    <2>3. QED
      BY <2>1, <2>2
  <1>6. CASE ResolveTimer
    <2>1. upc = "none" /\ ~upAgain /\ due = {}
      BY <1>6 DEF ResolveTimer, TInv, UpdateInv, ResolveNotLost, TrafPolTypeOK, ResolverTypeOK
    <2>2. Update(FALSE) /\ UNCHANGED <<rpc, ips, rdone, due, upAgain>> /\ rpc = "select" /\ updating'
      BY <1>6 DEF ResolveTimer
    <2>3. NamesInSync'
      BY <2>1, <2>2, UpdateStep
    <2>4. UpdateInv'
      BY <2>1, <2>2 DEF UpdateInv, Update
    <2>5. QED
      BY <2>1, <2>2, <2>3, <2>4 DEF TInv, Phases, ResolveNotLost, Serving, Stopped, Canceled
  <1>7. CASE WorkersDone
    BY <1>7 DEF WorkersDone, TInv, Phases, UpdateInv, NamesInSync, ResolveNotLost, Serving,
                Stopped, Canceled
  <1>8. CASE ResolverDone
    BY <1>8 DEF ResolverDone, TInv, Phases, UpdateInv, NamesInSync, ResolveNotLost, Serving,
                Stopped, Canceled
  <1>9. CASE ResolverDrained
    BY <1>9 DEF ResolverDrained, TInv, Phases, UpdateInv, NamesInSync, ResolveNotLost, Serving,
                Stopped, Canceled
  <1>10. ASSUME NEW n \in Names, WorkerTakes(n) \/ LookupEnds(n) \/ UpdateAborted(n)
         PROVE  Phases' /\ UpdateInv' /\ NamesInSync' /\ ResolveNotLost'
    <2> USE DEF TInv, NamesInSync, ResolveNotLost, Serving
    <2>1. UNCHANGED <<rpc, rdone, updating, upAgain, upc>>
      BY <1>10 DEF WorkerTakes, LookupEnds, LookupFails, LookupNotFound, LookupAnswers,
                   UpdateAborted, UpdateTaken
    <2>2. job[n] # "none"
      BY <1>10 DEF WorkerTakes, LookupEnds, LookupFails, LookupNotFound, LookupAnswers,
                   UpdateAborted, UpdateTaken
    <2>3. upc = "running"
      BY <2>2 DEF UpdateInv
    <2>4. Phases' /\ UpdateInv'
      BY <2>1, <2>3 DEF Phases, UpdateInv, Stopped, Canceled
    <2>5. job \in [Names -> {"none", "queued", "lookup", "offer"}] /\ due \subseteq Names
          /\ ips \in [Names -> SUBSET IPs]
      BY DEF TrafPolTypeOK, ResolverTypeOK
    <2>6. CASE WorkerTakes(n)
      BY <2>1, <2>4, <2>5, <2>6 DEF WorkerTakes
    <2>7. CASE LookupFails(n)
      BY <2>1, <2>4, <2>5, <2>7 DEF LookupFails
    <2>8. CASE LookupNotFound(n)
      BY <2>1, <2>4, <2>5, <2>8 DEF LookupNotFound
    <2>9. ASSUME NEW a \in Answers, LookupAnswers(n, a)
          PROVE  Phases' /\ UpdateInv' /\ NamesInSync' /\ ResolveNotLost'
      BY <2>1, <2>4, <2>5, <2>9 DEF LookupAnswers
    <2>10. CASE UpdateAborted(n)
      BY <2>1, <2>4, <2>5, <2>10 DEF UpdateAborted, UpdateTaken, Canceled, Phases, Stopped
    <2>11. QED
      BY <1>10, <2>6, <2>7, <2>8, <2>9, <2>10 DEF LookupEnds
  <1>11. QED
    BY <1>5, <1>6, <1>7, <1>8, <1>9, <1>10 DEF ResolverInternal

(* What Resolve() does to the resolver, for the two handlers that call it. *)
LEMMA ResolveRequestedInv ==
  ASSUME TInv, ResolveRequested
  PROVE  /\ ResolverTypeOK' /\ UpdateInv' /\ ResolveNotLost'
         /\ UNCHANGED <<rpc, rdone, ips>>
         /\ \A n \in Names : job'[n] = "offer" => job[n] = "offer"
         /\ \A n \in Names : job[n] = "offer" => job'[n] = "offer"
  <1>1. ResolverTypeOK'
    BY ResolverTypes DEF TInv, TrafPolTypeOK
  <1>2. UNCHANGED <<rpc, rdone, ips>> /\ rpc = "select" /\ due' = Names /\ updating' = TRUE
    BY DEF ResolveRequested
  <1>3. CASE updating
    <2>1. upAgain' = TRUE /\ UNCHANGED <<upc, job>>
      BY <1>3 DEF ResolveRequested
    <2>2. QED
      BY <1>1, <1>2, <1>3, <2>1 DEF TInv, UpdateInv, ResolveNotLost
  <1>4. CASE ~updating
    <2>1. Update(TRUE) /\ upAgain' = upAgain
      BY <1>4 DEF ResolveRequested
    <2>2. \A n \in Names : job[n] = "none"
      BY <1>2, <1>4 DEF TInv, UpdateInv
    <2>3. \A n \in Names : job'[n] = "queued"
      BY <2>1 DEF Update
    <2>4. upc' = "running"
      BY <2>1 DEF Update
    <2>5. QED
      BY <1>1, <1>2, <2>2, <2>3, <2>4 DEF UpdateInv, ResolveNotLost
  <1>5. QED
    BY <1>3, <1>4

-----------------------------------------------------------------------------
(* Start() up to the monitors preserves the invariant. *)
LEMMA StartInv ==
  ASSUME TInv, NEW okRules \in BOOLEAN, NEW okHosts \in BOOLEAN, Start(okRules, okHosts)
  PROVE  TInv'
  <1>1. CPDTypeOK' /\ ResolverTypeOK'
    BY CPDTypes, ResolverTypes DEF TInv, TrafPolTypeOK, Start
  <1>2. hosts' \subseteq IPs
    BY DEF Start, GetAllowedHostsIPs, TInv, TrafPolTypeOK
  <1>3. TrafPolTypeOK'
    BY <1>1, <1>2, TrafPolAssumption DEF Start, SetFilterRules, TInv, TrafPolTypeOK, Lists
  <1>4. HostsInv'
    BY DEF Start, TInv, HostsInv, GetAllowedHostsIPs
  <1>5. /\ tpc = "nil" /\ tpc' = "devmon" /\ cpc' = "select" /\ rpc' = "select"
        /\ UNCHANGED <<ports, capPortal, sending, allowNames, told, detected, cdone, rdone,
                       updating, upAgain, upc, job, ips, due>>
    BY DEF Start, CPDStart, ResolverStart
  <1>6. Phases' /\ RulesInv'
    BY <1>5 DEF TInv, Phases, RulesInv, DevsInv, Serving, Stopped, Canceled
  <1>7. UpdateInv' /\ NamesInSync' /\ ResolveNotLost'
    BY <1>5 DEF TInv, Phases, UpdateInv, NamesInSync, ResolveNotLost
  <1>8. PortalInv'
    BY <1>5, Zenon DEF TInv, TrafPolTypeOK, CPDTypeOK, RulesInv, DevsInv, PortalInv
  <1>9. DevsInv'
    <2>1. allowDevs' = {} /\ (devs' = {} \/ devs' = {Lo})
      BY <1>5 DEF Start, SetFilterRules, TInv, RulesInv
    <2>2. QED
      BY <2>1 DEF DevsInv
  <1>10. QED
    BY <1>3, <1>4, <1>5, <1>6, <1>7, <1>8, <1>9 DEF TInv

(* handleDeviceUpdate preserves the invariant. *)
LEMMA DeviceUpdateInv ==
  ASSUME TInv, NEW v \in Devs, NEW virtual \in BOOLEAN, NEW ok \in BOOLEAN,
         DeviceUpdate(v, virtual, ok)
  PROVE  TInv'
  <1>1. UNCHANGED <<tpc, tdone, capPortal, sending, allowAddrs, allowNames, told,
                    rules, hosts, ports, cpdVars, resolverVars>>
    BY DEF DeviceUpdate, SetAllowedDevices, filterVars
  <1>2. allowDevs' \subseteq Devs /\ devs' \subseteq Devs
    BY DEF DeviceUpdate, AllowDevs, SetAllowedDevices, filterVars, TInv, TrafPolTypeOK
  <1>3. fails' \subseteq Lists /\ \A l \in Lists \ {"devs"} : l \in fails' <=> l \in fails
    BY DEF DeviceUpdate, SetAllowedDevices, Ran, filterVars, TInv, TrafPolTypeOK, Lists
  <1>4. TrafPolTypeOK'
    BY <1>1, <1>2, <1>3 DEF TInv, TrafPolTypeOK, CPDTypeOK, ResolverTypeOK, cpdVars, resolverVars
  <1>5. tpc = "select"
    BY DEF DeviceUpdate
  <1>6. DevsInv'
    <2>1. CASE allowDevs' # allowDevs
      BY <2>1 DEF DeviceUpdate, SetAllowedDevices, Ran, DevsInv
    <2>2. CASE allowDevs' = allowDevs
      BY <1>5, <2>2 DEF DeviceUpdate, filterVars, TInv, DevsInv, Serving
    <2>3. QED
      BY <2>1, <2>2
  <1>7. QED
    BY <1>1, <1>3, <1>4, <1>5, <1>6 DEF TInv, Phases, UpdateInv, NamesInSync, HostsInv, PortalInv,
       RulesInv, ResolveNotLost, Serving, Stopped, Canceled, GetAllowedHostsIPs, cpdVars,
       resolverVars, Lists

(* Steps that move only the program counter, Stop() and a sent status. *)
LEMMA ControlInv ==
  ASSUME TInv, StartMonitor \/ DNSUpdate \/ Stop \/ Return \/ CPDStatus
  PROVE  TInv'
  <1>1. UNCHANGED <<capPortal, allowDevs, allowAddrs, allowNames, filterVars, cpdVars, resolverVars>>
    BY DEF StartMonitor, DNSUpdate, Stop, Return, CPDStatus
  <1>2. TrafPolTypeOK'
    <2>1. tpc' \in {"devmon", "dnsmon", "select", "resolve", "probe", "refresh", "stopCPD"}
      BY DEF StartMonitor, DNSUpdate, Stop, Return, CPDStatus
    <2>2. tdone' \in BOOLEAN /\ sending' \in BOOLEAN /\ told' \in BOOLEAN
      BY Zenon DEF TInv, TrafPolTypeOK, StartMonitor, DNSUpdate, Stop, Return, CPDStatus
    <2>3. QED
      BY <1>1, <2>1, <2>2 DEF TInv, TrafPolTypeOK, CPDTypeOK, ResolverTypeOK, cpdVars,
         resolverVars, filterVars
  <1>3. QED
    BY <1>1, <1>2 DEF TInv, Phases, UpdateInv, NamesInSync, HostsInv, PortalInv, RulesInv,
       DevsInv, ResolveNotLost, Serving, Stopped, Canceled, GetAllowedHostsIPs, cpdVars, resolverVars,
       filterVars, StartMonitor, DNSUpdate, Stop, Return, CPDStatus

(* The first half of handleDNSUpdate preserves the invariant. *)
LEMMA ResolveInv ==
  ASSUME TInv, Resolve
  PROVE  TInv'
  <1>1. /\ tpc = "resolve" /\ tpc' = "probe" /\ ResolveRequested
        /\ UNCHANGED <<tdone, capPortal, sending, allowDevs, allowAddrs, allowNames, told,
                       filterVars, cpdVars>>
    BY DEF Resolve
  <1>2. TrafPolTypeOK'
    BY <1>1, ResolveRequestedInv DEF TInv, TrafPolTypeOK, CPDTypeOK, cpdVars, filterVars
  <1>3. QED
    BY <1>1, <1>2, ResolveRequestedInv DEF TInv, Phases, NamesInSync, HostsInv, PortalInv,
       RulesInv, DevsInv, Serving, Stopped, Canceled, GetAllowedHostsIPs, cpdVars, filterVars

(* The second half of handleDNSUpdate preserves the invariant. *)
LEMMA ProbeInv ==
  ASSUME TInv, Probe
  PROVE  TInv'
  <1>1. CPDTypeOK'
    BY CPDTypes DEF TInv, TrafPolTypeOK, Probe
  <1>2. TrafPolTypeOK'
    BY <1>1 DEF Probe, TInv, TrafPolTypeOK, ResolverTypeOK, resolverVars, filterVars
  <1>3. QED
    BY <1>2 DEF Probe, ProbeRequested, TInv, Phases, UpdateInv, NamesInSync, HostsInv, PortalInv,
       RulesInv, DevsInv, ResolveNotLost, Serving, Stopped, Canceled, GetAllowedHostsIPs,
       resolverVars, filterVars

-----------------------------------------------------------------------------
(* The handling of captive portal reports preserves the invariant: main    *)
(* loop and detection change their mind in the same step.                  *)
LEMMA CPDReportInv ==
  ASSUME TInv, NEW ok \in BOOLEAN, CPDReport(ok)
  PROVE  TInv'
  <1>1. /\ tpc = "select" /\ ~sending /\ ReportSent
        /\ UNCHANGED <<tdone, allowDevs, allowAddrs, allowNames, told, resolverVars, rules, devs, hosts>>
    BY DEF CPDReport, SetAllowedPorts, filterVars
  <1>2. detected' = creport /\ cdone' = cdone /\ cpc' = "select" /\ cpc = "report"
    BY <1>1 DEF ReportSent
  <1>3. CPDTypeOK'
    BY <1>1, CPDTypes DEF TInv, TrafPolTypeOK
  <1>4. capPortal = detected /\ told = capPortal /\ ("ports" \notin fails => ports = capPortal)
    BY <1>1 DEF TInv, PortalInv, Serving
  <1>5. /\ fails' \subseteq Lists
        /\ \A l \in Lists \ {"ports"} : l \in fails' <=> l \in fails
    BY DEF CPDReport, SetAllowedPorts, Ran, filterVars, TInv, TrafPolTypeOK, Lists
  <1>6. /\ tpc' \in {"select", "refresh"}
        /\ capPortal' \in BOOLEAN /\ sending' \in BOOLEAN /\ ports' \in BOOLEAN
    <2> USE DEF CPDReport, SetAllowedPorts, filterVars, TInv, TrafPolTypeOK
    <2>1. tpc' \in {"select", "refresh"}
      OBVIOUS
    <2>2. capPortal' \in BOOLEAN /\ sending' \in BOOLEAN /\ ports' \in BOOLEAN
      BY Zenon
    <2>3. QED
      BY <2>1, <2>2
  <1>7. PortalInv'
    <2>1. CASE creport /\ capPortal
      BY <1>1, <1>2, <1>4, <2>1 DEF CPDReport, PortalInv, filterVars, TInv, TrafPolTypeOK, CPDTypeOK
    <2>2. CASE creport /\ ~capPortal
      <3>1. tpc' = "select" /\ sending' /\ capPortal' = TRUE /\ SetAllowedPorts(TRUE, ok)
        BY <2>2 DEF CPDReport
      <3>2. "ports" \notin fails' => ports' = TRUE
        BY <3>1 DEF SetAllowedPorts, Ran
      <3>3. creport = TRUE
        BY <2>2, Zenon DEF TInv, TrafPolTypeOK, CPDTypeOK
      <3>4. QED
        BY <1>2, <3>1, <3>2, <3>3 DEF PortalInv
    <2>3. CASE ~creport
      <3>1. /\ tpc' = IF capPortal THEN "refresh" ELSE "select"
            /\ UNCHANGED <<capPortal, sending, ports, fails>>
        BY <2>3 DEF CPDReport, filterVars
      <3>2. creport = FALSE
        BY <2>3, Zenon DEF TInv, TrafPolTypeOK, CPDTypeOK
      <3>3. CASE capPortal
        BY <1>1, <1>2, <1>4, <3>1, <3>2, <3>3 DEF PortalInv
      <3>4. CASE ~capPortal
        <4>1. capPortal = FALSE
          BY <3>4, Zenon DEF TInv, TrafPolTypeOK
        <4>2. QED
          BY <1>1, <1>2, <1>4, <3>1, <3>2, <4>1 DEF PortalInv
      <3>5. QED
        BY <3>3, <3>4
    <2>4. QED
      BY <2>1, <2>2, <2>3
  <1>8. TrafPolTypeOK'
    BY <1>1, <1>3, <1>5, <1>6 DEF TInv, TrafPolTypeOK, ResolverTypeOK, resolverVars
  <1>9. QED
    BY <1>1, <1>2, <1>5, <1>6, <1>7, <1>8 DEF TInv, Phases, UpdateInv, NamesInSync, HostsInv,
       RulesInv, DevsInv, ResolveNotLost, Serving, Stopped, Canceled, GetAllowedHostsIPs,
       resolverVars, Lists

(* handleCPDReport closes the ports of a portal that is gone. *)
LEMMA PortalGoneInv ==
  ASSUME TInv, NEW ok \in BOOLEAN, PortalGone(ok)
  PROVE  TInv'
  <1>1. /\ tpc = "refresh" /\ tpc' = "select" /\ capPortal' = FALSE /\ sending' = TRUE
        /\ ResolveRequested /\ SetAllowedPorts(FALSE, ok)
        /\ UNCHANGED <<tdone, allowDevs, allowAddrs, allowNames, told, cpdVars, rules, devs, hosts>>
    BY DEF PortalGone, SetAllowedPorts
  <1>2. /\ fails' \subseteq Lists
        /\ \A l \in Lists \ {"ports"} : l \in fails' <=> l \in fails
        /\ "ports" \notin fails' => ports' = FALSE
    BY <1>1 DEF SetAllowedPorts, Ran, TInv, TrafPolTypeOK, Lists
  <1>3. ports' \in BOOLEAN /\ capPortal' \in BOOLEAN /\ sending' \in BOOLEAN
    BY <1>1, Zenon DEF SetAllowedPorts, TInv, TrafPolTypeOK
  <1>4. TrafPolTypeOK'
    BY <1>1, <1>2, <1>3, ResolveRequestedInv DEF TInv, TrafPolTypeOK, CPDTypeOK, cpdVars
  <1>5. detected' = FALSE
    BY <1>1, Zenon DEF TInv, PortalInv, Serving, cpdVars, TrafPolTypeOK, CPDTypeOK
  <1>6. PortalInv'
    BY <1>1, <1>2, <1>5 DEF PortalInv
  <1>7. QED
    BY <1>1, <1>2, <1>4, <1>6, ResolveRequestedInv DEF TInv, Phases, NamesInSync, HostsInv, RulesInv,
       DevsInv, Serving, Stopped, Canceled, GetAllowedHostsIPs, cpdVars, Lists

-----------------------------------------------------------------------------
(* What setAllowedIPs does to nftables: the new hosts, or an error. *)
LEMMA SetAllowedIPsInv ==
  ASSUME TInv, NEW h \in SUBSET IPs, NEW ok \in BOOLEAN, SetAllowedIPs(h, ok)
  PROVE  /\ hosts' \subseteq IPs /\ fails' \subseteq Lists
         /\ UNCHANGED <<rules, devs, ports>>
         /\ "hosts" \notin fails' => hosts' = h
         /\ \A l \in Lists \ {"hosts"} : l \in fails' <=> l \in fails
  BY DEF SetAllowedIPs, Ran, TInv, TrafPolTypeOK, Lists

(* handleResolverUpdate makes main loop and resolver agree on a name. *)
LEMMA ResolverUpdateInv ==
  ASSUME TInv, NEW n \in Names, NEW ok \in BOOLEAN, ResolverUpdate(n, ok)
  PROVE  TInv'
  <1> DEFINE h == GetAllowedHostsIPs(allowAddrs, allowNames')
  <1>1. /\ tpc = "select" /\ UpdateTaken(n) /\ SetAllowedIPs(h, ok)
        /\ allowNames' = [allowNames EXCEPT ![n] = ips[n]]
        /\ UNCHANGED <<tpc, tdone, capPortal, sending, allowDevs, allowAddrs, told, cpdVars>>
    BY DEF ResolverUpdate
  <1>2. allowNames' \in [Names -> SUBSET IPs]
    BY <1>1 DEF TInv, TrafPolTypeOK, ResolverTypeOK
  <1>3. h \in SUBSET IPs
    BY <1>2 DEF GetAllowedHostsIPs, TInv, TrafPolTypeOK
  <1>4. h = GetAllowedHostsIPs(allowAddrs', allowNames')
    BY <1>1
  <1> HIDE DEF h
  <1>5. /\ hosts' \subseteq IPs /\ fails' \subseteq Lists
        /\ UNCHANGED <<rules, devs, ports>>
        /\ "hosts" \notin fails' => hosts' = h
        /\ \A l \in Lists \ {"hosts"} : l \in fails' <=> l \in fails
    BY <1>1, <1>3, SetAllowedIPsInv
  <1>6. ResolverTypeOK'
    BY <1>1, ResolverTypes DEF TInv, TrafPolTypeOK
  <1>7. TrafPolTypeOK'
    BY <1>1, <1>2, <1>5, <1>6 DEF TInv, TrafPolTypeOK, CPDTypeOK, cpdVars
  <1>8. HostsInv'
    BY <1>4, <1>5 DEF HostsInv
  <1>9. /\ job[n] = "offer" /\ job' = [job EXCEPT ![n] = "none"]
        /\ UNCHANGED <<rpc, updating, upAgain, upc, workers, tries, ttl, ips, rdone, due>>
    BY <1>1 DEF UpdateTaken
  <1>10. job \in [Names -> {"none", "queued", "lookup", "offer"}] /\ due \subseteq Names
         /\ allowNames \in [Names -> SUBSET IPs]
    BY DEF TInv, TrafPolTypeOK, ResolverTypeOK
  <1>11. NamesInSync' /\ ResolveNotLost' /\ UpdateInv'
    BY <1>1, <1>9, <1>10 DEF TInv, NamesInSync, ResolveNotLost, UpdateInv, Serving
  <1>12. QED
    BY <1>1, <1>5, <1>7, <1>8, <1>9, <1>11 DEF TInv, Phases, PortalInv, RulesInv, DevsInv, Serving,
       Stopped, Canceled, cpdVars, Lists

(* handleAddressCommand preserves the invariant. *)
LEMMA AddressCommandInv ==
  ASSUME TInv, NEW a \in ServerAddrs, NEW add \in BOOLEAN, NEW ok \in BOOLEAN,
         AddressCommand(a, add, ok)
  PROVE  TInv'
  <1> DEFINE h == GetAllowedHostsIPs(allowAddrs', allowNames)
  <1>1. /\ tpc = "select"
        /\ IF allowAddrs' # allowAddrs THEN SetAllowedIPs(h, ok) ELSE UNCHANGED filterVars
        /\ UNCHANGED <<tpc, tdone, capPortal, sending, allowDevs, allowNames, told,
                       cpdVars, resolverVars>>
    BY DEF AddressCommand
  <1>2. allowAddrs' \subseteq IPs
    BY TrafPolAssumption DEF AddressCommand, AllowAddrs, TInv, TrafPolTypeOK
  <1>3. h \in SUBSET IPs
    BY <1>2 DEF GetAllowedHostsIPs, TInv, TrafPolTypeOK
  <1>4. h = GetAllowedHostsIPs(allowAddrs', allowNames')
    BY <1>1
  <1>5. allowAddrs' = allowAddrs => h = GetAllowedHostsIPs(allowAddrs, allowNames)
    OBVIOUS
  <1> HIDE DEF h
  <1>6. /\ hosts' \subseteq IPs /\ fails' \subseteq Lists
        /\ UNCHANGED <<rules, devs, ports>>
        /\ "hosts" \notin fails' => hosts' = h
        /\ \A l \in Lists \ {"hosts"} : l \in fails' <=> l \in fails
    <2>1. CASE allowAddrs' # allowAddrs
      BY <1>1, <1>3, <2>1, SetAllowedIPsInv
    <2>2. CASE allowAddrs' = allowAddrs
      BY <1>1, <1>5, <2>2 DEF TInv, HostsInv, Serving, TrafPolTypeOK, filterVars
    <2>3. QED
      BY <2>1, <2>2
  <1>7. TrafPolTypeOK'
    BY <1>1, <1>2, <1>6 DEF TInv, TrafPolTypeOK, CPDTypeOK, cpdVars, ResolverTypeOK, resolverVars
  <1>8. HostsInv'
    BY <1>4, <1>6 DEF HostsInv
  <1>9. QED
    BY <1>1, <1>6, <1>7, <1>8 DEF TInv, Phases, UpdateInv, NamesInSync, PortalInv, RulesInv,
       DevsInv, ResolveNotLost, Serving, Stopped, Canceled, cpdVars, resolverVars, Lists

-----------------------------------------------------------------------------
(* Stopping the detection preserves the invariant. *)
LEMMA StopCPDInv ==
  ASSUME TInv, StopCPD
  PROVE  TInv'
  <1>1. UNCHANGED <<tdone, capPortal, sending, allowDevs, allowAddrs, allowNames, told,
                    filterVars, resolverVars, cpc, detected>>
    BY DEF StopCPD, CloseCPD, cpdVars
  <1>2. CPDTypeOK'
    BY CPDTypes DEF TInv, TrafPolTypeOK, StopCPD
  <1>3. TrafPolTypeOK'
    BY <1>1, <1>2 DEF StopCPD, TInv, TrafPolTypeOK, ResolverTypeOK, resolverVars, filterVars
  <1>4. QED
    BY <1>1, <1>3 DEF StopCPD, CloseCPD, cpdVars, TInv, Phases, UpdateInv, NamesInSync, HostsInv,
       PortalInv, RulesInv, DevsInv, ResolveNotLost, Serving, Stopped, Canceled, resolverVars

(* Stopping the resolver preserves the invariant. *)
LEMMA StopResolverInv ==
  ASSUME TInv, StopResolver
  PROVE  TInv'
  <1>1. UNCHANGED <<tdone, capPortal, sending, allowDevs, allowAddrs, allowNames, told,
                    filterVars, cpdVars, rpc, updating, upAgain, upc, job, ips, due>>
    BY DEF StopResolver, CloseResolver, resolverVars
  <1>2. ResolverTypeOK'
    BY ResolverTypes DEF TInv, TrafPolTypeOK, StopResolver
  <1>3. TrafPolTypeOK'
    BY <1>1, <1>2 DEF StopResolver, TInv, TrafPolTypeOK, CPDTypeOK, cpdVars, filterVars
  <1>4. QED
    BY <1>1, <1>3 DEF StopResolver, CloseResolver, resolverVars, TInv, Phases, UpdateInv,
       NamesInSync, HostsInv, PortalInv, RulesInv, DevsInv, ResolveNotLost, Serving, Stopped, Canceled,
       cpdVars

(* unsetFilterRules preserves the invariant. *)
LEMMA UnsetFilterRulesInv ==
  ASSUME TInv, NEW ok \in BOOLEAN, UnsetFilterRules(ok)
  PROVE  TInv'
  <1>1. /\ tpc = "unset" /\ tpc' \in {"closed", "failed"}
        /\ UNCHANGED <<tdone, capPortal, sending, allowDevs, allowAddrs, allowNames, told,
                       cpdVars, resolverVars>>
    BY DEF UnsetFilterRules
  <1>2. fails' \subseteq Lists /\ devs' \subseteq Devs /\ hosts' \subseteq IPs
    BY DEF UnsetFilterRules, Ran, Lists, TInv, TrafPolTypeOK
  <1>3. rules' \in BOOLEAN /\ ports' \in BOOLEAN
    BY Zenon DEF UnsetFilterRules, TInv, TrafPolTypeOK
  <1>4. TrafPolTypeOK'
    BY <1>1, <1>2, <1>3 DEF TInv, TrafPolTypeOK, CPDTypeOK, cpdVars, ResolverTypeOK, resolverVars
  <1>5. "rules" \notin fails' => ~rules'
    BY DEF UnsetFilterRules, Ran
  <1>6. QED
    BY <1>1, <1>4, <1>5 DEF TInv, Phases, UpdateInv, NamesInSync, HostsInv, PortalInv, RulesInv,
       DevsInv, ResolveNotLost, Serving, Stopped, Canceled, cpdVars, resolverVars

(* Every step preserves the invariant. *)
LEMMA TrafPolNextInv == TInv /\ [Next]_vars => TInv'
  <1> SUFFICES ASSUME TInv, [Next]_vars PROVE TInv'
    OBVIOUS
  <1>1. \A l : CmdResults(l) \subseteq BOOLEAN
    BY DEF CmdResults
  <1>2. CASE Next
    BY <1>1, <1>2, StartInv, DeviceUpdateInv, ControlInv, ResolveInv, ProbeInv, CPDReportInv,
       PortalGoneInv, ResolverUpdateInv, AddressCommandInv, StopCPDInv, StopResolverInv,
       UnsetFilterRulesInv, CPDInternalInv, ResolverInternalInv DEF Next
  <1>3. CASE UNCHANGED vars
    BY <1>3 DEF vars, trafpolVars, filterVars, cpdVars, resolverVars, TInv, TrafPolTypeOK, CPDTypeOK,
       ResolverTypeOK, Phases, UpdateInv, NamesInSync, HostsInv, PortalInv, RulesInv,
       DevsInv, ResolveNotLost, Serving, Stopped, Canceled, GetAllowedHostsIPs
  <1>4. QED
    BY <1>2, <1>3

(* The invariant holds in every reachable state. *)
LEMMA TrafPolInv == Spec => []TInv
  BY TrafPolInitInv, TrafPolNextInv, PTL DEF Spec

-----------------------------------------------------------------------------
(* Every variable of traffic policing, its resolver and its detection      *)
(* keeps its type; among others a name is not looked up more often than    *)
(* configured, and no lifetime becomes negative.                           *)
THEOREM TrafPolTypes == Spec => []TrafPolTypeOK
  <1>1. TInv => TrafPolTypeOK
    BY DEF TInv
  <1>2. QED
    BY <1>1, TrafPolInv, PTL

(* nftables lets through exactly the recorded hosts and devices:           *)
(* setAllowedIPs and setAllowedDevices are called for every change,        *)
(* whoever made it and in whatever order.                                  *)
THEOREM TrafPolFilterExact == Spec => []FilterExact
  <1>1. TInv => FilterExact
    <2>1. ASSUME TInv, Looping, "devs" \notin fails
          PROVE  devs = allowDevs \/ (allowDevs = {} /\ devs = {Lo})
      BY <2>1 DEF TInv, DevsInv, Serving, Looping
    <2> SUFFICES ASSUME TInv, Looping, "hosts" \notin fails, \A n \in Names : job[n] # "offer"
                 PROVE  hosts = GetAllowedHostsIPs(allowAddrs, ips)
      BY <2>1 DEF FilterExact
    <2>2. hosts = GetAllowedHostsIPs(allowAddrs, allowNames)
      BY DEF TInv, HostsInv, Serving, Looping
    <2>3. \A n \in Names : allowNames[n] = ips[n]
      BY DEF TInv, NamesInSync, Serving, Looping
    <2>4. QED
      BY <2>2, <2>3 DEF GetAllowedHostsIPs
  <1>2. QED
    BY <1>1, TrafPolInv, PTL

(* The portal's ports follow the detection's last report, and the daemon   *)
(* knows the status or is about to learn it.                               *)
THEOREM TrafPolPortalExact == Spec => []PortalExact
  <1>1. TInv => PortalExact
    BY DEF TInv, PortalInv, PortalExact, Serving, Looping
  <1>2. QED
    BY <1>1, TrafPolInv, PTL

(* No request to resolve the names is lost, in whatever state it meets the *)
(* resolver.                                                               *)
THEOREM TrafPolResolveNotLost == Spec => []ResolveNotLost
  <1>1. TInv => ResolveNotLost
    BY DEF TInv
  <1>2. QED
    BY <1>1, TrafPolInv, PTL

(* Stopped traffic policing leaves no goroutine and, unless nft failed, no *)
(* rules.                                                                  *)
THEOREM TrafPolStoppedIsQuiet == Spec => []StoppedIsQuiet
  <1>1. TInv => StoppedIsQuiet
    BY DEF TInv, Phases, UpdateInv, RulesInv, DevsInv, StoppedIsQuiet, Stopped
  <1>2. QED
    BY <1>1, TrafPolInv, PTL

=============================================================================
