---------------------------- MODULE SplitRouting ----------------------------
(***************************************************************************)
(* Split routing (internal/splitrt): the split excludes, which packets to  *)
(* keep out of the VPN tunnel, and the goroutine that maintains them from  *)
(* device and address updates, DNS reports and a timer.                    *)
(*                                                                         *)
(* One SplitRouting object lives from VPNSetup's setup to its teardown.    *)
(* Its user takes part in SplitStart, PrefixesReceived, CloseSplit and     *)
(* SplitGone; VPNSetup conjoins them with its own half.                    *)
(***************************************************************************)
EXTENDS Integers

CONSTANTS
  Addrs,          \* IP addresses
  Networks,       \* networks (sets of addresses) prefixes can stand for
  Devs,           \* network devices
  DevType,        \* type of each: "device", "virtual", "loopback" or "tun"
  DevPrefixes,    \* prefixes each can have as addresses
  StaticExcludes, \* the configured excludes and the VPN gateway's prefix
  ExcludeLocal,   \* exclude local networks (0.0.0.0/32 is configured)?
  VirtualOnly,    \* ... only those of virtual devices?
  MaxTTL,         \* bound: TTL of a DNS answer, in periods of excludesTimer
  Queries         \* DNS queries handled concurrently by the DNS proxy

(* A prefix is an address with the network it is in: 10.0.0.7/24 and       *)
(* 10.0.0.9/24 are different prefixes with the same network.               *)
Prefixes == {p \in [addr : Addrs, net : Networks] : p.addr \in p.net}

Single(a) == [addr |-> a, net |-> {a}]

NoQuery == "none"
NoAddress == "noAddress"

(* Two networks are disjoint or one contains the other, as prefixes are.   *)
ASSUME NetworksAssumption ==
  /\ \A a \in Addrs : {a} \in Networks
  /\ \A m \in Networks : m \subseteq Addrs /\ m # {}
  /\ \A m, n \in Networks : m \cap n = {} \/ m \subseteq n \/ n \subseteq m

ASSUME SplitRoutingAssumption ==
  /\ DevType \in [Devs -> {"device", "virtual", "loopback", "tun"}]
  /\ StaticExcludes \subseteq Prefixes
  /\ ExcludeLocal \in BOOLEAN
  /\ VirtualOnly \in BOOLEAN
  /\ MaxTTL \in Nat
  /\ NoQuery \notin Queries
  /\ NoAddress \notin Addrs
  /\ DevPrefixes \in [Devs -> SUBSET Prefixes]

VARIABLES
  spc,      \* the goroutine: no object (nil), in Start(), in its select, in
            \* updateLocalNetworkExcludes, in sendPrefixes, returned, or never
            \* started because Start() failed
  static,   \* excludes.s
  dynamic,  \* excludes.d
  devices,  \* devices the goroutine knows
  addrs,    \* prefixes it knows of each device
  locals,   \* local excludes
  want,     \* the local excludes an update is going to set
  add, del, \* prefixes Start() or an update has still to add and to remove
  updated,  \* did the update change the static excludes?
  offer,    \* the prefixes offered in sendPrefixes
  report,   \* the DNS query whose report is being handled
  sdone,    \* s.done is closed
  query,    \* the DNS queries: state and address
  rest      \* history: timers until the TTL recorded last has surely passed

splitVars == <<spc, static, dynamic, devices, addrs, locals, want, add, del,
               updated, offer, report, sdone, query, rest>>

updateVars == <<devices, addrs, locals, want, add, del, updated>>

NoEntry == [ttl |-> 0, updated |-> FALSE, there |-> FALSE]
Entry(t) == [ttl |-> t, updated |-> TRUE, there |-> TRUE]
Entries == [ttl : 0 .. MaxTTL, updated : BOOLEAN, there : BOOLEAN]

SplitTypeOK ==
  /\ spc \in {"nil", "config", "select", "update", "send", "closed", "failed"}
  /\ static \subseteq Prefixes
  /\ dynamic \in [Addrs -> Entries]
  /\ devices \subseteq Devs
  /\ addrs \in [Devs -> SUBSET Prefixes]
  /\ locals \subseteq Prefixes
  /\ want \subseteq Prefixes
  /\ add \subseteq Prefixes
  /\ del \subseteq Prefixes
  /\ updated \in BOOLEAN
  /\ offer \subseteq Prefixes
  /\ report \in Queries \cup {NoQuery}
  /\ sdone \in BOOLEAN
  /\ query \in [Queries -> [pc : {"idle", "report", "wait", "answered"},
                            addr : Addrs \cup {NoAddress}]]
  /\ rest \in [Addrs -> 0 .. MaxTTL + 2]

-----------------------------------------------------------------------------
(* The split excludes (excludes.go). *)

(* A mutated form: prefixes inside the new one are not removed. *)
AddStaticKeepInner(st, p) ==
  IF \E v \in st : p.net \subseteq v.net THEN st ELSE st \cup {p}

(* A prefix in an existing one is not added; prefixes inside the new one   *)
(* are removed.  The loop of the code may delete some of those and then    *)
(* find that the new prefix is not to be added, but only if static         *)
(* excludes overlap, which they do not (StaticDisjoint).                   *)
AddStatic(st, p) ==
  IF \E v \in st : p.net \subseteq v.net THEN st
  ELSE {v \in st : ~(v.net \subseteq p.net)} \cup {p}

RemoveStatic(st, p) == st \ {p}

InStatic(st, a) == \E v \in st : a \in v.net

AddDynamic(dy, st, a, t) ==
  IF InStatic(st, a) THEN dy ELSE [dy EXCEPT ![a] = Entry(t)]

(* A mutated form: entries updated since the last timer are not skipped. *)
CleanupEager(dy) ==
  [a \in Addrs |->
     IF dy[a].ttl = 0 THEN NoEntry ELSE [dy[a] EXCEPT !.ttl = @ - 1]]

(* cleanup, with the TTL in periods of the timer: an entry updated since   *)
(* the last timer is kept, an expired one removed, the others are reduced. *)
Cleanup(dy) ==
  [a \in Addrs |->
     IF dy[a].updated THEN [dy[a] EXCEPT !.updated = FALSE]
     ELSE IF dy[a].ttl = 0 THEN NoEntry
     ELSE [dy[a] EXCEPT !.ttl = @ - 1]]

GetPrefixes(st, dy) == st \cup {Single(a) : a \in {b \in Addrs : dy[b].there}}

-----------------------------------------------------------------------------
(* Start() and its static excludes. *)

SplitReset ==
  /\ static' = {}
  /\ dynamic' = [a \in Addrs |-> NoEntry]
  /\ devices' = {}
  /\ addrs' = [v \in Devs |-> {}]
  /\ locals' = {}
  /\ want' = {}
  /\ del' = {}
  /\ updated' = FALSE
  /\ offer' = {}
  /\ report' = NoQuery
  /\ sdone' = FALSE
  /\ rest' = [a \in Addrs |-> 0]

(* NewSplitRouting and Start(), which fails if a monitor does. *)
SplitStart(ok) ==
  /\ spc = "nil"
  /\ spc' = IF ok THEN "config" ELSE "failed"
  /\ add' = IF ok THEN StaticExcludes ELSE {}
  /\ SplitReset
  /\ UNCHANGED query

AddConfigured(p) ==
  /\ spc = "config"
  /\ p \in add
  /\ static' = AddStatic(static, p)
  /\ add' = add \ {p}
  /\ UNCHANGED <<spc, dynamic, devices, addrs, locals, want, del, updated, offer,
                 report, sdone, query, rest>>

(* sendPrefixes is called with the prefixes of this moment. *)
SendPrefixes(st, dy) ==
  /\ spc' = "send"
  /\ offer' = GetPrefixes(st, dy)

(* start() sends the initial prefixes, if there are any. *)
SplitRun ==
  /\ spc = "config"
  /\ add = {}
  /\ IF static = {}
     THEN spc' = "select" /\ UNCHANGED offer
     ELSE SendPrefixes(static, dynamic)
  /\ UNCHANGED <<static, dynamic, updateVars, report, sdone, query, rest>>

-----------------------------------------------------------------------------
(* Device and address updates. *)

(* The devices whose addresses are local excludes. *)
LocalDevices(dv) == {v \in dv : VirtualOnly => DevType[v] # "device"}

LocalPrefixes(dv, ad) == UNION {ad[v] : v \in LocalDevices(dv)}

(* updateLocalNetworkExcludes begins: what to add, what to remove. *)
UpdateLocals(dv, ad) ==
  IF ExcludeLocal
  THEN /\ spc' = "update"
       /\ want' = LocalPrefixes(dv, ad)
       /\ add' = want' \ locals
       /\ del' = locals \ want'
       /\ updated' = FALSE
  ELSE UNCHANGED <<spc, want, add, del, updated>>

(* A mutated form: a removed device keeps its local excludes. *)
DeviceUpdateKeepLocals(v, added) ==
  /\ spc = "select"
  /\ added => DevType[v] \notin {"loopback", "tun"}
  /\ devices' = IF added THEN devices \cup {v} ELSE devices \ {v}
  /\ IF added THEN UpdateLocals(devices', addrs)
     ELSE UNCHANGED <<spc, want, add, del, updated>>
  /\ UNCHANGED <<static, dynamic, addrs, locals, offer, report, sdone, query, rest>>

(* handleDeviceUpdate: loopback and tunnel devices are not added. *)
DeviceUpdate(v, added) ==
  /\ spc = "select"
  /\ added => DevType[v] \notin {"loopback", "tun"}
  /\ devices' = IF added THEN devices \cup {v} ELSE devices \ {v}
  /\ UpdateLocals(devices', addrs)
  /\ UNCHANGED <<static, dynamic, addrs, locals, offer, report, sdone, query, rest>>

AddressUpdate(v, p, added) ==
  /\ spc = "select"
  /\ addrs' = [addrs EXCEPT ![v] = IF added THEN @ \cup {p} ELSE @ \ {p}]
  /\ UpdateLocals(devices, addrs')
  /\ UNCHANGED <<static, dynamic, devices, locals, offer, report, sdone, query, rest>>

(* New local excludes are added, then old ones are removed. *)
UpdateAdd(p) ==
  /\ spc = "update"
  /\ p \in add
  /\ static' = AddStatic(static, p)
  /\ updated' = (updated \/ static' # static)
  /\ add' = add \ {p}
  /\ UNCHANGED <<spc, dynamic, devices, addrs, locals, want, del, offer, report, sdone,
                 query, rest>>

UpdateRemove(p) ==
  /\ spc = "update"
  /\ add = {}
  /\ p \in del
  /\ static' = RemoveStatic(static, p)
  /\ updated' = (updated \/ static' # static)
  /\ del' = del \ {p}
  /\ UNCHANGED <<spc, dynamic, devices, addrs, locals, want, add, offer, report, sdone,
                 query, rest>>

(* A change is signalled before the local excludes are stored. *)
UpdateEnd ==
  /\ spc = "update"
  /\ add = {}
  /\ del = {}
  /\ IF updated
     THEN SendPrefixes(static, dynamic) /\ UNCHANGED locals
     ELSE spc' = "select" /\ locals' = want /\ UNCHANGED offer
  /\ UNCHANGED <<static, dynamic, devices, addrs, want, add, del, updated, report, sdone,
                 query, rest>>

-----------------------------------------------------------------------------
(* DNS reports and the timer. *)

(* History: the k-th timer after a report comes at most k periods after it, *)
(* so a TTL of t full periods and a bit has surely passed at timer t + 2.  *)
(* A report of an address in the static excludes is not recorded.          *)
Recorded(a, t) == IF InStatic(static, a) THEN rest ELSE [rest EXCEPT ![a] = t + 2]

(* A mutated form: a new address is not signalled. *)
DNSReportSilent(q, t) ==
  /\ spc = "select"
  /\ query[q].pc = "report"
  /\ dynamic' = AddDynamic(dynamic, static, query[q].addr, t)
  /\ rest' = Recorded(query[q].addr, t)
  /\ query' = [query EXCEPT ![q].pc = "answered"]
  /\ UNCHANGED <<spc, offer, report, static, updateVars, sdone>>

(* handleDNSReport.  The report is closed when the handler returns: at     *)
(* once, or after the prefixes were sent.                                  *)
DNSReport(q, t) ==
  LET a == query[q].addr
      new == ~InStatic(static, a) /\ ~dynamic[a].there
  IN  /\ spc = "select"
      /\ query[q].pc = "report"
      /\ dynamic' = AddDynamic(dynamic, static, a, t)
      /\ rest' = Recorded(a, t)
      /\ IF new
         THEN /\ SendPrefixes(static, dynamic')
              /\ report' = q
              /\ query' = [query EXCEPT ![q].pc = "wait"]
         ELSE /\ query' = [query EXCEPT ![q].pc = "answered"]
              /\ UNCHANGED <<spc, offer, report>>
      /\ UNCHANGED <<static, updateVars, sdone>>

(* The timer fires.  The result of cleanup() is not used. *)
Timer ==
  /\ spc = "select"
  /\ dynamic' = Cleanup(dynamic)
  /\ rest' = [a \in Addrs |-> IF rest[a] = 0 THEN 0 ELSE rest[a] - 1]
  /\ UNCHANGED <<spc, static, updateVars, offer, report, sdone, query>>

(* sendPrefixes returns and with it the handler. *)
SendDone ==
  /\ spc = "send"
  /\ spc' = "select"
  /\ locals' = want
  /\ report' = NoQuery
  /\ query' = [q \in Queries |-> IF q = report THEN [query[q] EXCEPT !.pc = "answered"]
                                 ELSE query[q]]
  /\ offer' = {}
  /\ updated' = FALSE
  /\ UNCHANGED <<static, dynamic, devices, addrs, want, add, del, sdone, rest>>

PrefixesReceived == SendDone

(* A mutated form: sendPrefixes does not watch s.done. *)
SendAbortedNever == FALSE

SendAborted == sdone /\ SendDone

(* Stop() closes s.done, start() returns, Stop() returns. *)
CloseSplit ==
  /\ sdone' = TRUE
  /\ UNCHANGED <<spc, static, dynamic, updateVars, offer, report, query, rest>>

SplitReturn ==
  /\ spc = "select"
  /\ sdone
  /\ spc' = "closed"
  /\ UNCHANGED <<static, dynamic, updateVars, offer, report, sdone, query, rest>>

SplitGone ==
  /\ spc = "closed"
  /\ spc' = "nil"
  /\ add' = {}
  /\ SplitReset
  /\ UNCHANGED query

(* The steps of the goroutine itself, and what it hears of the network. *)
SplitInternal ==
  \/ \E p \in Prefixes : AddConfigured(p) \/ UpdateAdd(p) \/ UpdateRemove(p)
  \/ SplitRun \/ UpdateEnd \/ SendAborted \/ SplitReturn

SplitMonitors ==
  \/ \E v \in Devs, added \in BOOLEAN : DeviceUpdate(v, added)
  \/ \E v \in Devs, added \in BOOLEAN : \E p \in DevPrefixes[v] : AddressUpdate(v, p, added)

SplitDNS == \E q \in Queries, t \in 0 .. MaxTTL : DNSReport(q, t)

=============================================================================
