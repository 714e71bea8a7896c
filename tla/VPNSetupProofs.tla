--------------------------- MODULE VPNSetupProofs ---------------------------
(***************************************************************************)
(* Proofs about the VPN setup and split routing, for all addresses,        *)
(* networks, devices, excludes and queries: types, the disjointness of the *)
(* static excludes, that nftables has every exclude, that the local        *)
(* excludes are current and that nothing is left after a teardown.         *)
(***************************************************************************)
EXTENDS VPNSetup, TLAPS

(* AddStatic keeps static excludes disjoint.  This is where it matters     *)
(* that it removes the prefixes inside the new one, and that networks are  *)
(* nested or disjoint.                                                     *)
LEMMA AddStaticDisjoint ==
  ASSUME NEW st \in SUBSET Prefixes, NEW p \in Prefixes,
         \A v, w \in st : v # w => v.net \cap w.net = {}
  PROVE  /\ AddStatic(st, p) \in SUBSET Prefixes
         /\ \A v, w \in AddStatic(st, p) : v # w => v.net \cap w.net = {}
<1>1. AddStatic(st, p) \in SUBSET Prefixes
  BY DEF AddStatic
<1>2. \A v \in st : v.net \in Networks
  BY DEF Prefixes
<1>3. p.net \in Networks
  BY DEF Prefixes
<1>4. CASE \E v \in st : p.net \subseteq v.net
  BY <1>1, <1>4 DEF AddStatic
<1>5. CASE ~ \E v \in st : p.net \subseteq v.net
  <2>1. \A v \in st : ~(v.net \subseteq p.net) => v.net \cap p.net = {}
    BY <1>2, <1>3, <1>5, NetworksAssumption
  <2>2. AddStatic(st, p) = {v \in st : ~(v.net \subseteq p.net)} \cup {p}
    BY <1>5 DEF AddStatic
  <2>. QED BY <1>1, <2>1, <2>2
<1>. QED BY <1>4, <1>5

(* Removing static excludes keeps them disjoint. *)
LEMMA RemoveStaticDisjoint ==
  ASSUME NEW st \in SUBSET Prefixes, NEW p,
         \A v, w \in st : v # w => v.net \cap w.net = {}
  PROVE  /\ RemoveStatic(st, p) \in SUBSET Prefixes
         /\ \A v, w \in RemoveStatic(st, p) : v # w => v.net \cap w.net = {}
BY DEF RemoveStatic

(* AddDynamic and Cleanup keep the type of the dynamic excludes; Cleanup   *)
(* adds none.                                                              *)
LEMMA DynamicType ==
  ASSUME NEW dy \in [Addrs -> Entries]
  PROVE  /\ \A st, a, t : t \in 0 .. MaxTTL => AddDynamic(dy, st, a, t) \in [Addrs -> Entries]
         /\ Cleanup(dy) \in [Addrs -> Entries]
         /\ \A a \in Addrs : Cleanup(dy)[a].there => dy[a].there
<1>1. \A t \in 0 .. MaxTTL : Entry(t) \in Entries
  BY DEF Entry, Entries
<1>2. NoEntry \in Entries /\ ~NoEntry.there
  BY SplitRoutingAssumption DEF NoEntry, Entries
<1>3. \A a \in Addrs : /\ [dy[a] EXCEPT !.updated = FALSE] \in Entries
                       /\ [dy[a] EXCEPT !.updated = FALSE].there = dy[a].there
  BY DEF Entries
<1>4. \A a \in Addrs : dy[a].ttl # 0 => /\ [dy[a] EXCEPT !.ttl = @ - 1] \in Entries
                                        /\ [dy[a] EXCEPT !.ttl = @ - 1].there = dy[a].there
  BY SplitRoutingAssumption DEF Entries
<1>5. ASSUME NEW st, NEW a, NEW t \in 0 .. MaxTTL
      PROVE  AddDynamic(dy, st, a, t) \in [Addrs -> Entries]
  BY <1>1 DEF AddDynamic
<1>6. /\ Cleanup(dy) \in [Addrs -> Entries]
      /\ \A a \in Addrs : Cleanup(dy)[a].there => dy[a].there
  BY <1>2, <1>3, <1>4 DEF Cleanup
<1>. QED BY <1>5, <1>6

(* GetPrefixes() returns prefixes. *)
LEMMA PrefixesType ==
  ASSUME NEW st \in SUBSET Prefixes, NEW dy \in [Addrs -> Entries]
  PROVE  GetPrefixes(st, dy) \in SUBSET Prefixes
<1>1. \A a \in Addrs : Single(a) \in Prefixes
  BY NetworksAssumption DEF Single, Prefixes
<1>. QED BY <1>1 DEF GetPrefixes

-----------------------------------------------------------------------------
(* Types *)

(* Recomputing the local networks keeps the types of the pending update. *)
LEMMA UpdateType ==
  ASSUME VPNSetupTypeOK, NEW dv \in SUBSET Devs, NEW ad \in [Devs -> SUBSET Prefixes],
         UpdateLocals(dv, ad)
  PROVE  /\ spc' \in {spc, "update"}
         /\ want' \in SUBSET Prefixes
         /\ add' \in SUBSET Prefixes
         /\ del' \in SUBSET Prefixes
         /\ updated' \in BOOLEAN
<1>1. LocalPrefixes(dv, ad) \in SUBSET Prefixes
  BY DEF LocalPrefixes, LocalDevices
<1>. QED BY <1>1 DEF UpdateLocals, VPNSetupTypeOK, SplitTypeOK

(* Every step of split routing keeps the types. *)
LEMMA SplitStepType ==
  ASSUME VPNSetupTypeOK, SplitStep
  PROVE  VPNSetupTypeOK'
<1>. USE DEF VPNSetupTypeOK, SplitTypeOK, setupVars, updateVars
<1>0. UNCHANGED setupVars
  BY DEF SplitStep
<1>1. ASSUME NEW p \in Prefixes, AddConfigured(p)
      PROVE  VPNSetupTypeOK'
  BY <1>0, <1>1 DEF AddConfigured, AddStatic
<1>2. ASSUME NEW p \in Prefixes, UpdateAdd(p)
      PROVE  VPNSetupTypeOK'
  BY <1>0, <1>2 DEF UpdateAdd, AddStatic
<1>3. ASSUME NEW p \in Prefixes, UpdateRemove(p)
      PROVE  VPNSetupTypeOK'
  BY <1>0, <1>3 DEF UpdateRemove, RemoveStatic
<1>4. CASE SplitRun
  BY <1>0, <1>4, PrefixesType DEF SplitRun, SendPrefixes
<1>5. CASE UpdateEnd
  BY <1>0, <1>5, PrefixesType DEF UpdateEnd, SendPrefixes
<1>6. CASE SendAborted
  <2>1. query' \in [Queries -> [pc : {"idle", "report", "wait", "answered"},
                               addr : Addrs \cup {NoAddress}]]
    BY <1>6 DEF SendAborted, SendDone
  <2>. QED BY <1>0, <1>6, <2>1 DEF SendAborted, SendDone
<1>7. CASE SplitReturn
  BY <1>0, <1>7 DEF SplitReturn
<1>8. ASSUME NEW v \in Devs, NEW added \in BOOLEAN, DeviceUpdate(v, added)
      PROVE  VPNSetupTypeOK'
  <2>1. devices' \in SUBSET Devs
    BY <1>8 DEF DeviceUpdate
  <2>. QED BY <1>0, <1>8, <2>1, UpdateType DEF DeviceUpdate
<1>9. ASSUME NEW v \in Devs, NEW added \in BOOLEAN, NEW p \in DevPrefixes[v],
             AddressUpdate(v, p, added)
      PROVE  VPNSetupTypeOK'
  <2>1. p \in Prefixes
    BY SplitRoutingAssumption
  <2>2. addrs' \in [Devs -> SUBSET Prefixes]
    BY <1>9, <2>1 DEF AddressUpdate
  <2>3. UpdateLocals(devices, addrs')
    BY <1>9 DEF AddressUpdate
  <2>4. /\ spc' \in {spc, "update"}
        /\ want' \in SUBSET Prefixes
        /\ add' \in SUBSET Prefixes
        /\ del' \in SUBSET Prefixes
        /\ updated' \in BOOLEAN
    BY <2>2, <2>3, UpdateType
  <2>5. UNCHANGED <<static, dynamic, devices, locals, offer, report, sdone, query, rest>>
    BY <1>9 DEF AddressUpdate
  <2>. QED BY <1>0, <2>2, <2>4, <2>5
<1>10. ASSUME NEW q \in Queries, NEW t \in 0 .. MaxTTL, DNSReport(q, t)
       PROVE  VPNSetupTypeOK'
  <2>1. query[q].addr \in Addrs \cup {NoAddress}
    OBVIOUS
  <2>2. dynamic' \in [Addrs -> Entries]
    BY <1>10, DynamicType DEF DNSReport
  <2>3. rest' \in [Addrs -> 0 .. MaxTTL + 2]
    <3>1. t + 2 \in 0 .. MaxTTL + 2
      BY SplitRoutingAssumption
    <3>. QED BY <1>10, <3>1 DEF DNSReport, Recorded
  <2>4. query' \in [Queries -> [pc : {"idle", "report", "wait", "answered"},
                               addr : Addrs \cup {NoAddress}]]
    BY <1>10 DEF DNSReport
  <2>5. GetPrefixes(static, dynamic') \in SUBSET Prefixes
    BY <2>2, PrefixesType
  <2>6. spc' \in {"select", "send"} /\ offer' \in SUBSET Prefixes /\ report' \in Queries \cup {NoQuery}
    BY <1>10, <2>5 DEF DNSReport, SendPrefixes
  <2>7. UNCHANGED <<static, devices, addrs, locals, want, add, del, updated, sdone>>
    BY <1>10 DEF DNSReport
  <2>. QED BY <1>0, <2>2, <2>3, <2>4, <2>6, <2>7
<1>11. CASE Timer
  <2>1. dynamic' \in [Addrs -> Entries]
    BY <1>11, DynamicType DEF Timer
  <2>2. rest' \in [Addrs -> 0 .. MaxTTL + 2]
    BY <1>11, SplitRoutingAssumption DEF Timer
  <2>. QED BY <1>0, <1>11, <2>1, <2>2 DEF Timer
<1>. QED BY <1>1, <1>2, <1>3, <1>4, <1>5, <1>6, <1>7, <1>8, <1>9, <1>10, <1>11
         DEF SplitStep, SplitInternal, SplitMonitors, SplitDNS

(* Every step of the VPN setup keeps the types. *)
LEMMA TypeStep ==
  ASSUME VPNSetupTypeOK, [Next]_vars
  PROVE  VPNSetupTypeOK'
<1>. USE DEF VPNSetupTypeOK, SplitTypeOK, setupVars, splitVars, updateVars
<1>1. CmdResults \subseteq BOOLEAN
  BY DEF CmdResults
<1>2. /\ [a \in Addrs |-> NoEntry] \in [Addrs -> Entries]
      /\ [v \in Devs |-> {}] \in [Devs -> SUBSET Prefixes]
      /\ [a \in Addrs |-> 0] \in [Addrs -> 0 .. MaxTTL + 2]
  BY SplitRoutingAssumption DEF NoEntry, Entries
<1>3. Gateway \subseteq Prefixes /\ StaticExcludes \subseteq Prefixes
  BY VPNSetupAssumption, SplitRoutingAssumption
<1>4. ASSUME NEW ok \in BOOLEAN, Setup(ok)
      PROVE  VPNSetupTypeOK'
  BY <1>2, <1>3, <1>4 DEF Setup, SplitStart, SplitReset
<1>5. ASSUME NEW okTable \in CmdResults, NEW okDNS \in CmdResults, SetupCmds(okTable, okDNS)
      PROVE  VPNSetupTypeOK'
  BY <1>1, <1>3, <1>5 DEF SetupCmds
<1>6. CASE RecvPrefixes
  <2>1. query' \in [Queries -> [pc : {"idle", "report", "wait", "answered"},
                               addr : Addrs \cup {NoAddress}]]
    BY <1>6 DEF RecvPrefixes, PrefixesReceived, SendDone
  <2>. QED BY <1>6, <2>1 DEF RecvPrefixes, PrefixesReceived, SendDone
<1>7. ASSUME NEW ok \in CmdResults,
             SetExcludes(ok) \/ EnsureDNS(ok) \/ ResetDNS(ok) \/ TeardownCmds(ok)
      PROVE  VPNSetupTypeOK'
  <2>1. CASE SetExcludes(ok)
    BY <1>1, <2>1, ZenonT(40) DEF SetExcludes
  <2>2. CASE EnsureDNS(ok)
    BY <1>1, <2>2 DEF EnsureDNS
  <2>3. CASE ResetDNS(ok)
    BY <1>1, <2>3 DEF ResetDNS, Settings
  <2>4. CASE TeardownCmds(ok)
    BY <1>1, <2>4 DEF TeardownCmds
  <2>. QED BY <1>7, <2>1, <2>2, <2>3, <2>4
<1>8. ASSUME NEW q \in Queries, IdleReport(q) \/ QueryAbort(q)
      PROVE  VPNSetupTypeOK'
  <2>1. query' \in [Queries -> [pc : {"idle", "report", "wait", "answered"},
                               addr : Addrs \cup {NoAddress}]]
    BY <1>8 DEF IdleReport, QueryAbort
  <2>. QED BY <1>8, <2>1 DEF IdleReport, QueryAbort
<1>9. ASSUME NEW q \in Queries, NEW a \in Addrs, Query(q, a)
      PROVE  VPNSetupTypeOK'
  <2>1. query' \in [Queries -> [pc : {"idle", "report", "wait", "answered"},
                               addr : Addrs \cup {NoAddress}]]
    BY <1>9 DEF Query
  <2>. QED BY <1>9, <2>1 DEF Query
<1>10. ASSUME NEW s \in Drifts, DNSDrift(s)
       PROVE  VPNSetupTypeOK'
  BY <1>10 DEF DNSDrift
<1>11. CASE EnsureReturn \/ Teardown \/ EnsureStopped \/ Stop
  <2>1. CASE EnsureReturn
    BY <2>1 DEF EnsureReturn
  <2>2. CASE Teardown
    BY <2>2 DEF Teardown
  <2>3. CASE EnsureStopped \/ Stop
    BY <2>3 DEF EnsureStopped, Stop
  <2>. QED BY <1>11, <2>1, <2>2, <2>3
<1>12. CASE StopSplit
  BY <1>12 DEF StopSplit, CloseSplit
<1>13. CASE SplitStopped
  BY <1>2, <1>13 DEF SplitStopped, SplitGone, SplitReset
<1>14. CASE SplitStep
  BY <1>14, SplitStepType
<1>15. CASE UNCHANGED vars
  BY <1>15 DEF vars
<1>. QED BY <1>4, <1>5, <1>6, <1>7, <1>8, <1>9, <1>10, <1>11, <1>12, <1>13, <1>14, <1>15
         DEF Next

(* The initial states are well typed. *)
LEMMA InitType == Init => VPNSetupTypeOK
<1>1. /\ [a \in Addrs |-> NoEntry] \in [Addrs -> Entries]
      /\ [v \in Devs |-> {}] \in [Devs -> SUBSET Prefixes]
      /\ [a \in Addrs |-> 0] \in [Addrs -> 0 .. MaxTTL + 2]
      /\ [q \in Queries |-> [pc |-> "idle", addr |-> NoAddress]]
           \in [Queries -> [pc : {"idle", "report", "wait", "answered"},
                            addr : Addrs \cup {NoAddress}]]
  BY SplitRoutingAssumption DEF NoEntry, Entries
<1>. QED BY <1>1 DEF Init, VPNSetupTypeOK, SplitTypeOK

(* The state components of VPNSetup and SplitRouting have their types. *)
THEOREM VPNSetupTypes == Spec => []VPNSetupTypeOK
BY InitType, TypeStep, PTL DEF Spec

-----------------------------------------------------------------------------
(* The inductive invariant *)

(* A change of the excludes is offered in full, and what is not being      *)
(* offered or changed has been received: it is being applied or was        *)
(* applied by a command that did not fail.                                 *)
Applied == IF vpc = "nft" THEN pending ELSE kernel

Pipeline ==
  /\ spc = "send" => offer = GetPrefixes(static, dynamic)
  /\ ( /\ spc = "select" \/ (spc = "update" /\ ~updated)
       /\ ~sdone
       /\ vpc = "nft" \/ ~failed )
     => GetPrefixes(static, dynamic) \subseteq Applied
  /\ spc = "config" => \A a \in Addrs : ~dynamic[a].there

(* Local excludes are those an update wanted, which are those of the       *)
(* devices and addresses known.                                            *)
Locals ==
  /\ (ExcludeLocal /\ spc \in {"config", "select", "update", "send"})
       => want = LocalPrefixes(devices, addrs)
  /\ spc \in {"config", "select"} => locals = want

(* Who runs when. *)
Phases ==
  /\ sdone => vpc = "waitSplit"
  /\ vpc \in {"teardown", "stopped"} => spc = "nil"
  /\ spc = "nil" => vpc \in {"select", "teardown", "stopped"}
  /\ vpc = "setup" => ~failed
  /\ (vpc \in {"stopSplit", "waitSplit", "setup"} \/ spc = "nil") => ensure = "nil"

SetupInv ==
  /\ VPNSetupTypeOK
  /\ StaticDisjoint
  /\ Pipeline
  /\ Locals
  /\ Phases
  /\ NothingLeft

(* What the steps of split routing change, and that they keep the phases   *)
(* of VPNSetup.                                                            *)
LEMMA SplitStepInv ==
  ASSUME SetupInv, SplitStep
  PROVE  StaticDisjoint' /\ Pipeline' /\ Locals' /\ Phases' /\ NothingLeft'
<1>. USE DEF SetupInv, setupVars, updateVars
<1>0. UNCHANGED setupVars
  BY DEF SplitStep
<1>a. static \in SUBSET Prefixes /\ dynamic \in [Addrs -> Entries] /\ updated \in BOOLEAN
  BY DEF VPNSetupTypeOK, SplitTypeOK
<1>1. ASSUME NEW p \in Prefixes, AddConfigured(p)
      PROVE  StaticDisjoint' /\ Pipeline' /\ Locals' /\ Phases' /\ NothingLeft'
  <2>1. StaticDisjoint'
    BY <1>1, <1>a, AddStaticDisjoint DEF AddConfigured, StaticDisjoint
  <2>2. Pipeline' /\ Locals' /\ Phases' /\ NothingLeft'
    BY <1>0, <1>1 DEF AddConfigured, Pipeline, Locals, Phases, NothingLeft
  <2>. QED BY <2>1, <2>2
<1>2. ASSUME NEW p \in Prefixes, UpdateAdd(p)
      PROVE  StaticDisjoint' /\ Pipeline' /\ Locals' /\ Phases' /\ NothingLeft'
  <2>1. StaticDisjoint'
    BY <1>2, <1>a, AddStaticDisjoint DEF UpdateAdd, StaticDisjoint
  <2>2. ~updated' => ~updated /\ static' = static
    BY <1>2, <1>a DEF UpdateAdd
  <2>3. Pipeline'
    BY <1>0, <1>2, <2>2 DEF UpdateAdd, Pipeline, Applied
  <2>4. Locals' /\ Phases' /\ NothingLeft'
    BY <1>0, <1>2 DEF UpdateAdd, Locals, Phases, NothingLeft
  <2>. QED BY <2>1, <2>3, <2>4
<1>3. ASSUME NEW p \in Prefixes, UpdateRemove(p)
      PROVE  StaticDisjoint' /\ Pipeline' /\ Locals' /\ Phases' /\ NothingLeft'
  <2>1. StaticDisjoint'
    BY <1>3, <1>a, RemoveStaticDisjoint DEF UpdateRemove, StaticDisjoint
  <2>2. ~updated' => ~updated /\ static' = static
    BY <1>3, <1>a DEF UpdateRemove
  <2>3. Pipeline'
    BY <1>0, <1>3, <2>2 DEF UpdateRemove, Pipeline, Applied
  <2>4. Locals' /\ Phases' /\ NothingLeft'
    BY <1>0, <1>3 DEF UpdateRemove, Locals, Phases, NothingLeft
  <2>. QED BY <2>1, <2>3, <2>4
<1>4. CASE SplitRun
  <2>1. static = {} => GetPrefixes(static, dynamic) = {}
    BY <1>4 DEF SplitRun, Pipeline, GetPrefixes
  <2>2. Pipeline'
    BY <1>0, <1>4, <2>1 DEF SplitRun, SendPrefixes, Pipeline, Applied
  <2>3. StaticDisjoint' /\ Locals' /\ Phases' /\ NothingLeft'
    BY <1>0, <1>4 DEF SplitRun, SendPrefixes, StaticDisjoint, Locals, Phases, NothingLeft
  <2>. QED BY <2>2, <2>3
<1>5. CASE UpdateEnd
  <2>1. Pipeline'
    BY <1>0, <1>5, <1>a DEF UpdateEnd, SendPrefixes, Pipeline, Applied
  <2>2. StaticDisjoint' /\ Locals' /\ Phases' /\ NothingLeft'
    BY <1>0, <1>5 DEF UpdateEnd, SendPrefixes, StaticDisjoint, Locals, Phases, NothingLeft
  <2>. QED BY <2>1, <2>2
<1>6. CASE SendAborted
  <2>1. Pipeline'
    BY <1>0, <1>6 DEF SendAborted, SendDone, Pipeline
  <2>2. StaticDisjoint' /\ Locals' /\ Phases' /\ NothingLeft'
    BY <1>0, <1>6 DEF SendAborted, SendDone, StaticDisjoint, Locals, Phases, NothingLeft
  <2>. QED BY <2>1, <2>2
<1>7. CASE SplitReturn
  BY <1>0, <1>7 DEF SplitReturn, StaticDisjoint, Pipeline, Locals, Phases, NothingLeft
<1>8. ASSUME UNCHANGED <<static, dynamic, locals, offer, sdone>>, spc = "select",
             UpdateLocals(devices', addrs'),
             ~ExcludeLocal \/ spc' = "update"
      PROVE  StaticDisjoint' /\ Pipeline' /\ Locals' /\ Phases' /\ NothingLeft'
  <2>1. CASE ExcludeLocal
    <3>1. Pipeline'
      BY <1>0, <1>8, <2>1 DEF UpdateLocals, Pipeline, Applied
    <3>2. StaticDisjoint' /\ Locals' /\ Phases' /\ NothingLeft'
      BY <1>0, <1>8, <2>1 DEF UpdateLocals, StaticDisjoint, Locals, Phases, NothingLeft
    <3>. QED BY <3>1, <3>2
  <2>2. CASE ~ExcludeLocal
    <3>1. Pipeline'
      BY <1>0, <1>8, <2>2 DEF UpdateLocals, Pipeline, Applied
    <3>2. StaticDisjoint' /\ Locals' /\ Phases' /\ NothingLeft'
      BY <1>0, <1>8, <2>2 DEF UpdateLocals, StaticDisjoint, Locals, Phases, NothingLeft
    <3>. QED BY <3>1, <3>2
  <2>. QED BY <2>1, <2>2
<1>9. ASSUME NEW v \in Devs, NEW added \in BOOLEAN, DeviceUpdate(v, added)
      PROVE  StaticDisjoint' /\ Pipeline' /\ Locals' /\ Phases' /\ NothingLeft'
  BY <1>8, <1>9 DEF DeviceUpdate, UpdateLocals
<1>10. ASSUME NEW v \in Devs, NEW added \in BOOLEAN, NEW p \in DevPrefixes[v],
              AddressUpdate(v, p, added)
       PROVE  StaticDisjoint' /\ Pipeline' /\ Locals' /\ Phases' /\ NothingLeft'
  BY <1>8, <1>10 DEF AddressUpdate, UpdateLocals
<1>11. ASSUME NEW q \in Queries, NEW t \in 0 .. MaxTTL, DNSReport(q, t)
       PROVE  StaticDisjoint' /\ Pipeline' /\ Locals' /\ Phases' /\ NothingLeft'
  <2>. DEFINE a == query[q].addr
              new == ~InStatic(static, a) /\ ~dynamic[a].there
  <2>1. CASE new
    <3>1. spc' = "send" /\ offer' = GetPrefixes(static, dynamic')
      BY <1>11, <2>1 DEF DNSReport, SendPrefixes
    <3>2. UNCHANGED <<static, devices, addrs, locals, want, add, del, updated, sdone>>
      BY <1>11 DEF DNSReport
    <3>3. spc = "select"
      BY <1>11 DEF DNSReport
    <3>4. Pipeline'
      BY <1>0, <3>1, <3>2 DEF Pipeline
    <3>. QED BY <1>0, <3>1, <3>2, <3>3, <3>4 DEF StaticDisjoint, Locals, Phases, NothingLeft
  <2>2. CASE ~new
    <3>1. spc = "select" /\ spc' = "select" /\ offer' = offer
      BY <1>11, <2>2 DEF DNSReport
    <3>2. UNCHANGED <<static, devices, addrs, locals, want, add, del, updated, sdone>>
      BY <1>11 DEF DNSReport
    <3>3. \A b \in Addrs : dynamic'[b].there => dynamic[b].there
      BY <1>11, <1>a, <2>2 DEF DNSReport, AddDynamic, Entry, Entries
    <3>4. GetPrefixes(static', dynamic') \subseteq GetPrefixes(static, dynamic)
      BY <3>2, <3>3 DEF GetPrefixes
    <3>5. Pipeline'
      BY <1>0, <3>1, <3>2, <3>4 DEF Pipeline, Applied
    <3>. QED BY <1>0, <3>1, <3>2, <3>5 DEF StaticDisjoint, Locals, Phases, NothingLeft
  <2>. QED BY <2>1, <2>2
<1>12. CASE Timer
  <2>1. GetPrefixes(static', dynamic') \subseteq GetPrefixes(static, dynamic)
    BY <1>12, <1>a, DynamicType DEF Timer, GetPrefixes
  <2>2. Pipeline'
    BY <1>0, <1>12, <2>1 DEF Timer, Pipeline, Applied
  <2>3. StaticDisjoint' /\ Locals' /\ Phases' /\ NothingLeft'
    BY <1>0, <1>12 DEF Timer, StaticDisjoint, Locals, Phases, NothingLeft
  <2>. QED BY <2>2, <2>3
<1>. QED BY <1>1, <1>2, <1>3, <1>4, <1>5, <1>6, <1>7, <1>9, <1>10, <1>11, <1>12
         DEF SplitStep, SplitInternal, SplitMonitors, SplitDNS

(* Every step keeps the inductive invariant. *)
LEMMA SetupInvStep ==
  ASSUME SetupInv, [Next]_vars
  PROVE  SetupInv'
<1>. USE DEF setupVars, splitVars, updateVars
<1>0. VPNSetupTypeOK'
  BY TypeStep DEF SetupInv
<1>. SUFFICES StaticDisjoint' /\ Pipeline' /\ Locals' /\ Phases' /\ NothingLeft'
  BY <1>0 DEF SetupInv
<1>. USE DEF SetupInv
<1>a. CmdResults \subseteq BOOLEAN
  BY DEF CmdResults
<1>1. ASSUME NEW ok \in BOOLEAN, Setup(ok)
      PROVE  StaticDisjoint' /\ Pipeline' /\ Locals' /\ Phases' /\ NothingLeft'
  <2>1. StaticDisjoint'
    BY <1>1 DEF Setup, SplitStart, SplitReset, StaticDisjoint
  <2>2. Pipeline'
    BY <1>1 DEF Setup, SplitStart, SplitReset, Pipeline, NoEntry
  <2>3. Locals'
    <3>1. devices' = {} /\ want' = {} /\ locals' = {}
      BY <1>1 DEF Setup, SplitStart, SplitReset
    <3>. QED BY <3>1 DEF Locals, LocalPrefixes, LocalDevices
  <2>4. Phases' /\ NothingLeft'
    BY <1>1 DEF Setup, SplitStart, SplitReset, Phases, NothingLeft
  <2>. QED BY <2>1, <2>2, <2>3, <2>4
<1>2. ASSUME NEW okTable \in CmdResults, NEW okDNS \in CmdResults, SetupCmds(okTable, okDNS)
      PROVE  StaticDisjoint' /\ Pipeline' /\ Locals' /\ Phases' /\ NothingLeft'
  <2>1. ~failed' => kernel \subseteq kernel'
    BY <1>a, <1>2 DEF SetupCmds
  <2>2. Pipeline'
    BY <1>2, <2>1 DEF SetupCmds, Pipeline, Applied, Phases
  <2>3. StaticDisjoint' /\ Locals' /\ Phases' /\ NothingLeft'
    BY <1>2 DEF SetupCmds, StaticDisjoint, Locals, Phases, NothingLeft
  <2>. QED BY <2>2, <2>3
<1>3. CASE RecvPrefixes
  <2>1. Pipeline'
    BY <1>3 DEF RecvPrefixes, PrefixesReceived, SendDone, Pipeline, Applied
  <2>2. StaticDisjoint' /\ Locals' /\ Phases' /\ NothingLeft'
    BY <1>3 DEF RecvPrefixes, PrefixesReceived, SendDone, StaticDisjoint, Locals, Phases,
                NothingLeft
  <2>. QED BY <2>1, <2>2
<1>4. ASSUME NEW ok \in CmdResults, SetExcludes(ok)
      PROVE  StaticDisjoint' /\ Pipeline' /\ Locals' /\ Phases' /\ NothingLeft'
  <2>1. Pipeline'
    BY <1>4 DEF SetExcludes, Pipeline, Applied
  <2>2. StaticDisjoint' /\ Locals' /\ Phases' /\ NothingLeft'
    BY <1>4 DEF SetExcludes, StaticDisjoint, Locals, Phases, NothingLeft
  <2>. QED BY <2>1, <2>2
<1>5. ASSUME NEW ok \in CmdResults, EnsureDNS(ok) \/ ResetDNS(ok)
      PROVE  StaticDisjoint' /\ Pipeline' /\ Locals' /\ Phases' /\ NothingLeft'
  <2>1. UNCHANGED <<splitVars, vpc, pending, table, kernel, failed>> /\ ensure # "nil"
    BY <1>5 DEF EnsureDNS, ResetDNS
  <2>2. Pipeline'
    BY <2>1 DEF Pipeline, Applied
  <2>. QED BY <2>1, <2>2 DEF StaticDisjoint, Locals, Phases, NothingLeft
<1>6. ASSUME NEW ok \in CmdResults, TeardownCmds(ok)
      PROVE  StaticDisjoint' /\ Pipeline' /\ Locals' /\ Phases' /\ NothingLeft'
  <2>1. spc = "nil" /\ UNCHANGED splitVars
    BY <1>6 DEF TeardownCmds, Phases
  <2>. QED BY <1>6, <2>1 DEF TeardownCmds, StaticDisjoint, Pipeline, Locals, Phases, NothingLeft
<1>7. ASSUME NEW q \in Queries, NEW a \in Addrs, Query(q, a)
      PROVE  StaticDisjoint' /\ Pipeline' /\ Locals' /\ Phases' /\ NothingLeft'
  <2>1. UNCHANGED <<spc, static, dynamic, devices, addrs, locals, want, updated, offer, sdone,
                    setupVars>>
    BY <1>7 DEF Query
  <2>. QED BY <2>1 DEF StaticDisjoint, Pipeline, Applied, Locals, Phases, NothingLeft
<1>8. ASSUME NEW q \in Queries, IdleReport(q) \/ QueryAbort(q)
      PROVE  StaticDisjoint' /\ Pipeline' /\ Locals' /\ Phases' /\ NothingLeft'
  <2>1. UNCHANGED <<spc, static, dynamic, devices, addrs, locals, want, updated, offer, sdone,
                    setupVars>>
    BY <1>8 DEF IdleReport, QueryAbort
  <2>. QED BY <2>1 DEF StaticDisjoint, Pipeline, Applied, Locals, Phases, NothingLeft
<1>9. ASSUME NEW s \in Drifts, DNSDrift(s)
      PROVE  StaticDisjoint' /\ Pipeline' /\ Locals' /\ Phases' /\ NothingLeft'
  BY <1>9 DEF DNSDrift, StaticDisjoint, Pipeline, Applied, Locals, Phases, NothingLeft
<1>10. CASE EnsureReturn \/ Teardown \/ EnsureStopped \/ Stop
  <2>1. /\ UNCHANGED <<splitVars, pending, table, kernel, dns, failed>>
        /\ (vpc # "nft" /\ vpc' # "nft") \/ vpc' = vpc
    BY <1>10 DEF EnsureReturn, Teardown, EnsureStopped, Stop
  <2>2. Pipeline'
    BY <2>1 DEF Pipeline, Applied
  <2>3. Phases'
    BY <1>10 DEF EnsureReturn, Teardown, EnsureStopped, Stop, Phases
  <2>4. NothingLeft'
    BY <1>10 DEF EnsureReturn, Teardown, EnsureStopped, Stop, NothingLeft
  <2>. QED BY <2>1, <2>2, <2>3, <2>4 DEF StaticDisjoint, Locals
<1>11. CASE StopSplit
  BY <1>11 DEF StopSplit, CloseSplit, StaticDisjoint, Pipeline, Locals, Phases, NothingLeft
<1>12. CASE SplitStopped
  BY <1>12 DEF SplitStopped, SplitGone, SplitReset, StaticDisjoint, Pipeline, Locals, Phases,
               NothingLeft
<1>13. CASE SplitStep
  BY <1>13, SplitStepInv
<1>14. CASE UNCHANGED vars
  BY <1>14 DEF vars, StaticDisjoint, Pipeline, Applied, Locals, Phases, NothingLeft
<1>. QED BY <1>1, <1>2, <1>3, <1>4, <1>5, <1>6, <1>7, <1>8, <1>9, <1>10, <1>11, <1>12, <1>13,
            <1>14 DEF Next

(* The inductive invariant holds. *)
THEOREM SetupInvariance == Spec => []SetupInv
<1>1. Init => SetupInv
  <2>1. Init => VPNSetupTypeOK
    BY InitType
  <2>. QED BY <2>1 DEF Init, SetupInv, StaticDisjoint, Pipeline, Locals, Phases, NothingLeft
<1>. QED BY <1>1, SetupInvStep, PTL DEF Spec

(* AddStatic and RemoveStatic keep the static excludes disjoint. *)
THEOREM ExcludesDisjoint == Spec => []StaticDisjoint
BY SetupInvariance, PTL DEF SetupInv

(* nftables has every exclude when the goroutines are idle: handlePrefixes *)
(* and sendPrefixes lose no update.                                        *)
THEOREM NoUpdateLost == Spec => []KernelComplete
<1>1. SetupInv => KernelComplete
  BY DEF SetupInv, Pipeline, Applied, Phases, KernelComplete
<1>. QED BY <1>1, SetupInvariance, PTL

(* updateLocalNetworkExcludes keeps the local excludes current. *)
THEOREM LocalExcludesCurrent == Spec => []LocalsCurrent
<1>1. SetupInv => LocalsCurrent
  BY DEF SetupInv, Locals, LocalsCurrent
<1>. QED BY <1>1, SetupInvariance, PTL

(* Nothing is left after a teardown whose commands succeeded. *)
THEOREM TeardownComplete == Spec => []NothingLeft
BY SetupInvariance, PTL DEF SetupInv

-----------------------------------------------------------------------------
(* TTLs *)

(* An entry and the history of its answer: after the timer that only marks *)
(* the entry as old, one more timer than the entry's periods is to come.   *)
TTLInv ==
  /\ \A a \in Addrs : dynamic[a].there =>
       rest[a] = dynamic[a].ttl + (IF dynamic[a].updated THEN 2 ELSE 1)
  /\ spc = "nil" => \A a \in Addrs : ~dynamic[a].there

TTLAction ==
  \A a \in Addrs : (dynamic[a].there /\ ~dynamic'[a].there /\ spc' # "nil") => rest'[a] = 0

(* Most steps leave the dynamic excludes alone. *)
LEMMA TTLFrame ==
  ASSUME VPNSetupTypeOK, [Next]_vars
  PROVE  \/ UNCHANGED <<dynamic, rest>> /\ spc' # "nil"
         \/ UNCHANGED <<spc, dynamic, rest>>
         \/ spc = "nil" /\ SplitReset
         \/ spc' = "nil" /\ SplitReset
         \/ spc = "select" /\ \E q \in Queries, t \in 0 .. MaxTTL : DNSReport(q, t)
         \/ Timer
<1>. USE DEF vars, splitVars, updateVars, setupVars
<1>1. CASE SplitStep
  <2>1. ASSUME NEW p \in Prefixes, AddConfigured(p) \/ UpdateAdd(p) \/ UpdateRemove(p)
        PROVE  UNCHANGED <<spc, dynamic, rest>>
    BY <2>1 DEF AddConfigured, UpdateAdd, UpdateRemove
  <2>2. CASE SplitRun \/ UpdateEnd \/ SendAborted \/ SplitReturn
    BY <2>2 DEF SplitRun, UpdateEnd, SendAborted, SplitReturn, SendDone, SendPrefixes
  <2>3. ASSUME NEW v \in Devs, NEW added \in BOOLEAN, DeviceUpdate(v, added)
        PROVE  UNCHANGED <<dynamic, rest>> /\ spc' # "nil"
    BY <2>3 DEF DeviceUpdate, UpdateLocals
  <2>4. ASSUME NEW v \in Devs, NEW added \in BOOLEAN, NEW p \in DevPrefixes[v],
               AddressUpdate(v, p, added)
        PROVE  UNCHANGED <<dynamic, rest>> /\ spc' # "nil"
    BY <2>4 DEF AddressUpdate, UpdateLocals
  <2>5. ASSUME NEW q \in Queries, NEW t \in 0 .. MaxTTL, DNSReport(q, t)
        PROVE  spc = "select"
    BY <2>5 DEF DNSReport
  <2>. QED BY <1>1, <2>1, <2>2, <2>3, <2>4, <2>5
           DEF SplitStep, SplitInternal, SplitMonitors, SplitDNS
<1>2. ASSUME NEW ok \in BOOLEAN, Setup(ok)
      PROVE  spc = "nil" /\ SplitReset
  BY <1>2 DEF Setup, SplitStart
<1>3. CASE SplitStopped
  BY <1>3 DEF SplitStopped, SplitGone
<1>4. CASE RecvPrefixes
  BY <1>4 DEF RecvPrefixes, PrefixesReceived, SendDone
<1>5. CASE UNCHANGED vars
  BY <1>5
<1>6. ASSUME NEW okTable \in CmdResults, NEW okDNS \in CmdResults, SetupCmds(okTable, okDNS)
      PROVE  UNCHANGED <<spc, dynamic, rest>>
  BY <1>6 DEF SetupCmds
<1>7. ASSUME NEW ok \in CmdResults,
             SetExcludes(ok) \/ EnsureDNS(ok) \/ ResetDNS(ok) \/ TeardownCmds(ok)
      PROVE  UNCHANGED <<spc, dynamic, rest>>
  BY <1>7 DEF SetExcludes, EnsureDNS, ResetDNS, TeardownCmds
<1>8. ASSUME NEW q \in Queries, IdleReport(q) \/ QueryAbort(q)
      PROVE  UNCHANGED <<spc, dynamic, rest>>
  BY <1>8 DEF IdleReport, QueryAbort
<1>9. ASSUME NEW q \in Queries, NEW a \in Addrs, Query(q, a)
      PROVE  UNCHANGED <<spc, dynamic, rest>>
  BY <1>9 DEF Query
<1>10. ASSUME NEW s \in Drifts, DNSDrift(s)
       PROVE  UNCHANGED <<spc, dynamic, rest>>
  BY <1>10 DEF DNSDrift
<1>11. CASE EnsureReturn \/ Teardown \/ EnsureStopped \/ StopSplit \/ Stop
  BY <1>11 DEF EnsureReturn, Teardown, EnsureStopped, StopSplit, CloseSplit, Stop
<1>. QED BY <1>1, <1>2, <1>3, <1>4, <1>5, <1>6, <1>7, <1>8, <1>9, <1>10, <1>11 DEF Next

(* No step lets an entry outlive, or be removed before, its time to live. *)
LEMMA TTLStep ==
  ASSUME VPNSetupTypeOK, TTLInv, [Next]_vars
  PROVE  TTLInv' /\ TTLAction
<1>0. /\ dynamic \in [Addrs -> Entries]
      /\ rest \in [Addrs -> 0 .. MaxTTL + 2]
      /\ MaxTTL \in Nat
  BY SplitRoutingAssumption DEF VPNSetupTypeOK, SplitTypeOK
<1>1. CASE UNCHANGED <<dynamic, rest>> /\ spc' # "nil"
  BY <1>1 DEF TTLInv, TTLAction
<1>2. CASE UNCHANGED <<spc, dynamic, rest>>
  BY <1>2 DEF TTLInv, TTLAction
<1>3. CASE spc = "nil" /\ SplitReset
  BY <1>3 DEF SplitReset, NoEntry, TTLInv, TTLAction
<1>4. CASE spc' = "nil" /\ SplitReset
  BY <1>4 DEF SplitReset, NoEntry, TTLInv, TTLAction
<1>5. ASSUME NEW q \in Queries, NEW t \in 0 .. MaxTTL, DNSReport(q, t)
      PROVE  TTLInv' /\ TTLAction
  <2>. DEFINE a == query[q].addr
  <2>0. spc' # "nil"
    BY <1>5 DEF DNSReport, SendPrefixes
  <2>1. CASE InStatic(static, a)
    <3>1. UNCHANGED <<dynamic, rest>>
      BY <1>5, <2>1 DEF DNSReport, AddDynamic, Recorded
    <3>. QED BY <2>0, <3>1 DEF TTLInv, TTLAction
  <2>2. CASE ~InStatic(static, a)
    <3>1. dynamic' = [dynamic EXCEPT ![a] = Entry(t)] /\ rest' = [rest EXCEPT ![a] = t + 2]
      BY <1>5, <2>2 DEF DNSReport, AddDynamic, Recorded
    <3>2. Entry(t).there /\ Entry(t).updated /\ Entry(t).ttl = t
      BY DEF Entry
    <3>. HIDE DEF a
    <3>. QED BY <1>0, <2>0, <3>1, <3>2 DEF TTLInv, TTLAction
  <2>. QED BY <2>1, <2>2
<1>6. CASE Timer
  <2>1. spc' # "nil"
    BY <1>6 DEF Timer
  <2>2. ASSUME NEW a \in Addrs, dynamic[a].there
        PROVE  /\ dynamic'[a].there => rest'[a] = dynamic'[a].ttl
                                                   + (IF dynamic'[a].updated THEN 2 ELSE 1)
               /\ ~dynamic'[a].there => rest'[a] = 0
    <3>1. dynamic[a] \in Entries /\ rest[a] = dynamic[a].ttl + (IF dynamic[a].updated THEN 2 ELSE 1)
      BY <1>0, <2>2 DEF TTLInv
    <3>2. rest'[a] = rest[a] - 1
      BY <1>0, <1>6, <3>1 DEF Timer, Entries
    <3>3. CASE dynamic[a].updated
      <4>1. dynamic'[a] = [dynamic[a] EXCEPT !.updated = FALSE]
        BY <1>6, <3>3 DEF Timer, Cleanup
      <4>. QED BY <2>2, <3>1, <3>2, <3>3, <4>1 DEF Entries
    <3>4. CASE ~dynamic[a].updated /\ dynamic[a].ttl = 0
      <4>1. dynamic'[a] = NoEntry
        BY <1>6, <3>4 DEF Timer, Cleanup
      <4>. QED BY <3>1, <3>2, <3>4, <4>1 DEF NoEntry
    <3>5. CASE ~dynamic[a].updated /\ dynamic[a].ttl # 0
      <4>1. dynamic'[a] = [dynamic[a] EXCEPT !.ttl = @ - 1]
        BY <1>6, <3>5 DEF Timer, Cleanup
      <4>. QED BY <2>2, <3>1, <3>2, <3>5, <4>1 DEF Entries
    <3>. QED BY <3>1, <3>3, <3>4, <3>5 DEF Entries
  <2>3. \A a \in Addrs : dynamic'[a].there => dynamic[a].there
    BY <1>0, <1>6, DynamicType DEF Timer
  <2>. QED BY <2>1, <2>2, <2>3 DEF TTLInv, TTLAction
<1>. QED BY <1>1, <1>2, <1>3, <1>4, <1>5, <1>6, TTLFrame

(* cleanup() removes a dynamic exclude only after its TTL has passed. *)
THEOREM TTLsRespected == Spec => TTLRespected
<1>1. Init => TTLInv
  BY DEF Init, TTLInv, NoEntry
<1>2. VPNSetupTypeOK /\ TTLInv /\ [Next]_vars => TTLInv'
  BY TTLStep
<1>3. VPNSetupTypeOK /\ TTLInv /\ [Next]_vars => [TTLAction]_vars
  BY TTLStep
<1>. QED BY <1>1, <1>2, <1>3, VPNSetupTypes, PTL DEF Spec, TTLRespected, TTLAction

=============================================================================
