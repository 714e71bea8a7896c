------------------------------ MODULE DNSProxy ------------------------------
(***************************************************************************)
(* The DNS proxy (internal/dnsproxy): handlers forward the queries of the  *)
(* host to the DNS servers of the VPN and report the addresses of watched  *)
(* names before they forward the answer.  The watch list has the domains   *)
(* of the VPN configuration and, for a time, the targets of the CNAME and  *)
(* DNAME records that lead away from watched names.                        *)
(*                                                                         *)
(* Handlers run concurrently with each other, with the goroutine that      *)
(* cleans the temporary watches and with SetRemotes() and SetWatches();    *)
(* every access to the lists is a critical section of its own.  Time goes  *)
(* by in units, seconds in the code, and the timer of the cleaning may be  *)
(* late but not early.  How reports are handled and what a stop of the     *)
(* proxy does to handlers is in module VPNSetup.                           *)
(***************************************************************************)
EXTENDS Integers, Sequences

CONSTANTS
  Names,     \* domain names
  Suffixes,  \* for each name the domains it is in, itself included
  Addrs,     \* addresses
  Replies,   \* replies of the DNS servers: sequences of records
  Confs,     \* lists of watched domains of VPN configurations
  Handlers,  \* goroutines that handle requests
  Interval,  \* time between two cleanings of the temporary watches
  MaxTTL     \* bound: TTLs of records

Records == [name : Names, type : {"CNAME", "DNAME"}, target : Names, ttl : 0 .. MaxTTL]
           \cup [name : Names, type : {"A"}, target : Addrs, ttl : 0 .. MaxTTL]

ASSUME DNSProxyAssumption ==
  /\ Suffixes \in [Names -> SUBSET Names]
  /\ \A n \in Names : n \in Suffixes[n]
  /\ Replies \subseteq Seq(Records) \ {<<>>}
  /\ \A w \in Confs : w \subseteq Names /\ w # {}
  /\ Interval \in Nat /\ Interval >= 2
  /\ MaxTTL \in Nat

VARIABLES
  remotes,   \* are there DNS servers to forward requests to?
  m,         \* the watched domains
  c,         \* temporary watches of the targets of CNAME records
  d,         \* temporary watches of the targets of DNAME records
  vpc,       \* what setup() or teardown() of VPNSetup does
  todo,      \* the domains it still has to add
  h,         \* the handlers: their step, the reply and what is left of it to
             \* search; and three histories: was the list set when the request
             \* came and not since (fresh), which aliases of the reply has the
             \* list to cover (links), and how long ago did they come (age)?
  clock,     \* time since the last cleaning, up to Interval
  known,     \* history: how long the host may use the CNAME and DNAME records
             \* it has and the list has to cover
  used,      \* history: the CNAME and DNAME records seen since the list was
             \* set, without their TTLs
  crossed    \* history: was a handler about to add a watch or send a report
             \* when the list was set?

proxyVars == <<remotes, m, c, d, vpc, todo, h, clock, known, used, crossed>>

Aliases == {r \in UNION {{s[i] : i \in DOMAIN s} : s \in Replies} : r.type # "A"}

Untimed(r) == [r EXCEPT !.ttl = 0]

NoWatch == [there |-> FALSE, ttl |-> 0, updated |-> FALSE]
NoWatches == [n \in Names |-> NoWatch]
NoTime == [r \in Aliases |-> 0]
Idle == [pc |-> "idle", reply |-> <<>>, left |-> {}, links |-> {}, age |-> 0, fresh |-> FALSE]

ProxyTypeOK ==
  /\ remotes \in BOOLEAN
  /\ m \subseteq Names
  /\ \A w \in {c, d} : w \in [Names -> [there : BOOLEAN, ttl : 0 .. MaxTTL, updated : BOOLEAN]]
  /\ vpc \in {"idle", "remotes", "flush", "add"}
  /\ todo \subseteq Names
  /\ h \in [Handlers -> [pc : {"idle", "exchange", "scan", "act", "report"},
                         reply : Replies \cup {<<>>}, left : SUBSET (Nat \ {0}),
                         links : SUBSET Aliases, age : {0, 1}, fresh : BOOLEAN]]
  /\ clock \in 0 .. Interval
  /\ known \in [Aliases -> 0 .. MaxTTL]
  /\ used \subseteq {Untimed(r) : r \in Aliases}
  /\ crossed \in BOOLEAN

ProxyInit ==
  /\ remotes = FALSE
  /\ m = {}
  /\ c = NoWatches
  /\ d = NoWatches
  /\ vpc = "idle"
  /\ todo = {}
  /\ h = [g \in Handlers |-> Idle]
  /\ clock = 0
  /\ known = NoTime
  /\ used = {}
  /\ crossed = FALSE

-----------------------------------------------------------------------------
(* The watch list. *)

(* A temporary CNAME is watched itself, domains with all names in them. *)
Contains(n) == c[n].there \/ \E s \in Suffixes[n] : s \in m \/ d[s].there

AddTemp(temps, r) == [temps EXCEPT ![r.target] = [there |-> TRUE, ttl |-> r.ttl, updated |-> TRUE]]

(* cleanTemp: new entries are marked as old, expired ones are removed. *)
CleanTemp(temps) ==
  [n \in Names |-> IF temps[n].updated THEN [temps[n] EXCEPT !.updated = FALSE]
                   ELSE IF temps[n].ttl < Interval THEN NoWatch
                   ELSE [temps[n] EXCEPT !.ttl = @ - Interval]]

(* cleanTempWatches: the timer is set again and the watches are cleaned. *)
CleanTempWatches ==
  /\ clock = Interval
  /\ clock' = 0
  /\ c' = CleanTemp(c)
  /\ d' = CleanTemp(d)
  /\ UNCHANGED <<remotes, m, vpc, todo, h, known, used, crossed>>

(* A reply that is forwarded more than a unit of time after it came is an  *)
(* exception of NoAddressMissed: the list need not cover its aliases.      *)
Older(x) ==
  IF x.links = {} THEN x
  ELSE IF x.age = 0 THEN [x EXCEPT !.age = 1] ELSE [x EXCEPT !.links = {}, !.age = 0]

(* Time goes by for the timer, the host and the handlers. *)
Tick ==
  /\ clock' = IF clock < Interval THEN clock + 1 ELSE clock
  /\ known' = [r \in Aliases |-> IF known[r] > 0 THEN known[r] - 1 ELSE 0]
  /\ h' = [g \in Handlers |-> Older(h[g])]
  /\ UNCHANGED <<remotes, m, c, d, vpc, todo, used, crossed>>

-----------------------------------------------------------------------------
(* setup() and teardown() of VPNSetup set remotes and watches: both lists  *)
(* are flushed and filled again one by one.                                *)

SetRemotes(domains) ==
  /\ vpc = "idle"
  /\ remotes' = FALSE
  /\ todo' = domains
  /\ vpc' = "remotes"
  /\ UNCHANGED <<m, c, d, h, clock, known, used, crossed>>

(* The servers of the VPN are the remotes of all names; the teardown adds  *)
(* none.                                                                   *)
RemotesAdd ==
  /\ vpc = "remotes"
  /\ remotes' = (todo # {})
  /\ vpc' = "flush"
  /\ UNCHANGED <<m, c, d, todo, h, clock, known, used, crossed>>

(* What a flush means for the histories.  The setup and the teardown       *)
(* commands also flush the DNS caches of the host.                         *)
Restarted ==
  /\ known' = NoTime
  /\ used' = {}
  /\ crossed' = \E g \in Handlers : h[g].pc \in {"act", "report"}
  /\ h' = [g \in Handlers |-> [h[g] EXCEPT !.links = {}, !.fresh = FALSE]]

(* A mutated form: only the configured domains are removed. *)
WatchesFlushStatic ==
  /\ vpc = "flush"
  /\ m' = {}
  /\ Restarted
  /\ vpc' = "add"
  /\ UNCHANGED <<remotes, c, d, todo, clock>>

WatchesFlush ==
  /\ vpc = "flush"
  /\ m' = {}
  /\ c' = NoWatches
  /\ d' = NoWatches
  /\ Restarted
  /\ vpc' = "add"
  /\ UNCHANGED <<remotes, todo, clock>>

WatchesAdd(n) ==
  /\ vpc = "add"
  /\ n \in todo
  /\ m' = m \cup {n}
  /\ todo' = todo \ {n}
  /\ UNCHANGED <<remotes, c, d, vpc, h, clock, known, used, crossed>>

WatchesSet ==
  /\ vpc = "add"
  /\ todo = {}
  /\ vpc' = "idle"
  /\ UNCHANGED <<remotes, m, c, d, todo, h, clock, known, used, crossed>>

-----------------------------------------------------------------------------
(* The names the records rs link to the watched domains: the smallest pair *)
(* of names and domains that has the watched domains and, with the name of *)
(* a record, its target.                                                   *)

Within(p, n) == n \in p.exact \/ \E s \in Suffixes[n] : s \in p.domains

Targets(rs, type) == {r.target : r \in {q \in rs : q.type = type}}

Pairs(rs) == [exact   : SUBSET Targets(rs, "CNAME"),
              domains : {m \cup s : s \in SUBSET Targets(rs, "DNAME")}]

Closed(p, rs) ==
  \A r \in rs : Within(p, r.name) =>
                  r.target \in IF r.type = "CNAME" THEN p.exact ELSE p.domains

Linked(rs) ==
  LET ps == {p \in Pairs(rs) : Closed(p, rs)}
  IN  [exact   |-> {n \in Targets(rs, "CNAME") : \A p \in ps : n \in p.exact},
       domains |-> m \cup {n \in Targets(rs, "DNAME") : \A p \in ps : n \in p.domains}]

IsLinked(n, rs) == Within(Linked(rs), n)

-----------------------------------------------------------------------------
(* handleRequest *)

(* A request without a remote is dropped. *)
Request(g) ==
  /\ h[g].pc = "idle"
  /\ remotes
  /\ h' = [h EXCEPT ![g].pc = "exchange", ![g].fresh = (vpc = "idle")]
  /\ UNCHANGED <<remotes, m, c, d, vpc, todo, clock, known, used, crossed>>

(* The records with which the host can get to a name of the reply: those   *)
(* of the reply itself and earlier ones.                                   *)
Usable(g) == {r \in Aliases : known[r] > 0} \cup h[g].links

(* The server's reply, or none.  Its TTLs count from when the host has it. *)
Exchange(g, s) ==
  /\ h[g].pc = "exchange"
  /\ h' = [h EXCEPT ![g] = [@ EXCEPT !.pc = "scan", !.reply = s, !.left = DOMAIN s,
             !.links = IF h[g].fresh THEN {r \in Aliases : \E i \in DOMAIN s : s[i] = r} ELSE {}]]
  /\ UNCHANGED <<remotes, m, c, d, vpc, todo, clock, known, used, crossed>>

ExchangeFails(g) ==
  /\ h[g].pc = "exchange"
  /\ h' = [h EXCEPT ![g] = Idle]
  /\ UNCHANGED <<remotes, m, c, d, vpc, todo, clock, known, used, crossed>>

(* A mutated form: addresses are looked for before the other records. *)
PassesAddressFirst == <<"A", "DNAME", "CNAME">>

(* The reply is searched once for each of these types. *)
Passes == <<"DNAME", "CNAME", "A">>

Pass(r) == CHOOSE k \in 1 .. 3 : Passes[k] = r.type

(* Does the search come to record j of the reply before record i? *)
Before(s, j, i) == Pass(s[j]) < Pass(s[i]) \/ (Pass(s[j]) = Pass(s[i]) /\ j < i)

(* The search is at record i. *)
IsAt(x, i) == i \in x.left /\ \A j \in x.left : ~Before(x.reply, j, i)

Searched(x, r) == \E j \in DOMAIN x.reply \ x.left : x.reply[j] = r

(* The search goes on after record i. *)
Advance(x, i) == [x EXCEPT !.pc = "scan", !.left = @ \ {i}]

(* The list is asked for the name of record i.  It need not cover an alias *)
(* that nothing the host can use leads to.                                 *)
Check(g, i) ==
  LET r == h[g].reply[i]
      x == IF IsLinked(r.name, Usable(g)) THEN h[g] ELSE [h[g] EXCEPT !.links = @ \ {r}]
  IN  /\ h[g].pc = "scan" /\ IsAt(h[g], i)
      /\ h' = [h EXCEPT ![g] = IF Contains(r.name) THEN [x EXCEPT !.pc = "act"] ELSE Advance(x, i)]
      /\ used' = used \cup {Untimed(q) : q \in {r} \cap Aliases}
      /\ UNCHANGED <<remotes, m, c, d, vpc, todo, clock, known, crossed>>

(* The watch of the target of q is replaced by that of r, which may end    *)
(* before the ttl of q, counted from when the TTL of r is units old.       *)
CutShort(q, r, ttl, units) ==
  r.type = q.type /\ r.target = q.target /\ ttl > r.ttl + units

Uncut(x, r) ==
  [x EXCEPT !.links = {q \in @ : ~(Searched(x, q) /\ CutShort(q, r, q.ttl, x.age))}]

(* A temporary watch is added.  The list no longer has to cover aliases    *)
(* for which it is too short.                                              *)
AddWatch(g, i) ==
  LET r == h[g].reply[i]
  IN  /\ h[g].pc = "act" /\ IsAt(h[g], i)
      /\ r.type # "A"
      /\ c' = IF r.type = "CNAME" THEN AddTemp(c, r) ELSE c
      /\ d' = IF r.type = "DNAME" THEN AddTemp(d, r) ELSE d
      /\ known' = [q \in Aliases |-> IF CutShort(q, r, known[q], 1) THEN 0 ELSE known[q]]
      /\ h' = [f \in Handlers |-> IF f = g THEN Advance(Uncut(h[g], r), i) ELSE Uncut(h[f], r)]
      /\ UNCHANGED <<remotes, m, vpc, todo, clock, used, crossed>>

SendReport(g, i) ==
  /\ h[g].pc = "act" /\ IsAt(h[g], i)
  /\ h[g].reply[i].type = "A"
  /\ h' = [h EXCEPT ![g].pc = "report"]
  /\ UNCHANGED <<remotes, m, c, d, vpc, todo, clock, known, used, crossed>>

(* The report was handled, or the proxy is stopping. *)
ReportDone(g, i) ==
  /\ h[g].pc = "report" /\ IsAt(h[g], i)
  /\ h' = [h EXCEPT ![g] = Advance(@, i)]
  /\ UNCHANGED <<remotes, m, c, d, vpc, todo, clock, known, used, crossed>>

Larger(a, b) == IF a > b THEN a ELSE b

(* The reply is forwarded to the host, which counts its TTLs from now on. *)
WriteMsg(g) ==
  /\ h[g].pc = "scan"
  /\ h[g].left = {}
  /\ known' = [r \in Aliases |-> IF r \in h[g].links THEN Larger(known[r], r.ttl) ELSE known[r]]
  /\ h' = [h EXCEPT ![g] = Idle]
  /\ UNCHANGED <<remotes, m, c, d, vpc, todo, clock, used, crossed>>

HandleRequest(g) ==
  \/ Request(g)
  \/ \E s \in Replies : Exchange(g, s)
  \/ ExchangeFails(g)
  \/ \E i \in h[g].left : Check(g, i) \/ AddWatch(g, i) \/ SendReport(g, i) \/ ReportDone(g, i)
  \/ WriteMsg(g)

ProxyNext ==
  \/ CleanTempWatches \/ Tick
  \/ \E domains \in Confs \cup {{}} : SetRemotes(domains)
  \/ RemotesAdd \/ WatchesFlush \/ WatchesSet
  \/ \E n \in Names : WatchesAdd(n)
  \/ \E g \in Handlers : HandleRequest(g)

ProxySpec == ProxyInit /\ [][ProxyNext]_proxyVars

-----------------------------------------------------------------------------
(* What is needed of the replies so that no address is missed: each type   *)
(* of record is looked for once, in the order of the reply                 *)
(* (handleRequest), so a record must not be before the one that leads to   *)
(* it.                                                                     *)

Leads(r, n) ==
  \/ r.type = "CNAME" /\ r.target = n
  \/ r.type = "DNAME" /\ r.target \in Suffixes[n]

InOrder ==
  \A s \in Replies : \A i, j \in DOMAIN s :
    s[i].type # "A" /\ Leads(s[j], s[i].name) => Before(s, j, i)

(* No address is missed: when a handler comes to an address record whose   *)
(* name is in a watched domain or is reached from one by records of the    *)
(* reply, or by records the host got before and whose TTLs, counted from   *)
(* then, have not passed, the name is on the watch list and the address is *)
(* reported before the host gets it, whatever other handlers, the timer    *)
(* and VPNSetup do (handleRequest, Contains, cleanTemp).  The exceptions   *)
(* are those of the code: a request that was being handled when the list   *)
(* was set, a reply that was forwarded more than a unit of time after it   *)
(* came, an alias whose watch was replaced by that of another alias with a *)
(* TTL too short for it, and an alias that nothing led to when its reply   *)
(* was searched.                                                           *)
NoAddressMissed ==
  \A g \in Handlers : \A i \in h[g].left :
    LET r == h[g].reply[i]
    IN  h[g].fresh /\ h[g].pc = "scan" /\ IsAt(h[g], i) /\ r.type = "A" =>
          (IsLinked(r.name, Usable(g)) => Contains(r.name))

(* No stranger is watched: a temporary watch is the target of a record     *)
(* that leads away from a domain on the current list, over any chain seen  *)
(* since the list was set, so that no watch of an earlier VPN connection   *)
(* is left (Flush, SetWatches, AddTempCNAME, AddTempDNAME).  The exception *)
(* is a handler that had already asked the list when it was flushed.       *)
NoStrangerWatched ==
  ~crossed =>
    LET l == Linked(used)
    IN  /\ {n \in Names : c[n].there} \subseteq l.exact
        /\ {n \in Names : d[n].there} \subseteq l.domains

=============================================================================
