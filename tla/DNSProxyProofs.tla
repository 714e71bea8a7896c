--------------------------- MODULE DNSProxyProofs ---------------------------
(***************************************************************************)
(* Proofs about the DNS proxy, for all names, replies, TTLs and            *)
(* configurations and any number of concurrent handlers: temporary watches *)
(* are those of the current list, and no address of a watched name is      *)
(* missed when replies are in order.                                       *)
(***************************************************************************)
EXTENDS DNSProxy, TLAPS

Steps == {"idle", "exchange", "scan", "act", "report"}
Searching == {"scan", "act", "report"}
NoneOrReply == Replies \cup {<<>>}
Positions == SUBSET (Nat \ {0})
Links == SUBSET Aliases
Ages == {0, 1}
Times == [Aliases -> 0 .. MaxTTL]
Seen == {Untimed(r) : r \in Aliases}

HandlerStates ==
  [pc : Steps, reply : NoneOrReply, left : Positions, links : Links, age : Ages, fresh : BOOLEAN]

(* Where a handler is in its reply. *)
SearchOK(x) ==
  /\ x.pc \in Searching => x.reply \in Replies /\ x.left \subseteq DOMAIN x.reply
  /\ x.pc = "report" => \E i \in x.left : IsAt(x, i) /\ x.reply[i].type = "A"

Entry == [there : BOOLEAN, ttl : 0 .. MaxTTL, updated : BOOLEAN]

(* Temporary watches; nothing is kept of one that is not there. *)
EntriesOK(t) == t \in [Names -> Entry] /\ \A n \in Names : ~t[n].there => t[n] = NoWatch

(* Types, and where the handlers are. *)
ProxyInv ==
  /\ m \subseteq Names /\ todo \subseteq Names
  /\ EntriesOK(c) /\ EntriesOK(d)
  /\ h \in [Handlers -> HandlerStates]
  /\ \A g \in Handlers : SearchOK(h[g])
  /\ clock \in 0 .. Interval
  /\ known \in Times
  /\ used \subseteq Seen

-----------------------------------------------------------------------------
(* Strangers: an alias that is going to be watched is linked to the list. *)

JustifiedAt(g) ==
  h[g].pc = "act" =>
    \A i \in h[g].left :
      LET r == h[g].reply[i]
      IN  IsAt(h[g], i) /\ r.type # "A" => Untimed(r) \in used /\ IsLinked(r.name, used)

Justified == ~crossed => \A g \in Handlers : JustifiedAt(g)

StrangerInv == ProxyInv /\ NoStrangerWatched /\ Justified

-----------------------------------------------------------------------------
(* Addresses: how long a temporary watch is going to stay at least, when   *)
(* the last cleaning was t ago.                                            *)

Life(w, t) == w.ttl + 1 - t + (IF w.updated THEN Interval ELSE 0)

WatchOf(r) == IF r.type = "CNAME" THEN c[r.target] ELSE d[r.target]

(* The host does not use a record longer than the proxy watches its        *)
(* target, ...                                                             *)
KnownOK(r) == known[r] > 0 => WatchOf(r).there /\ known[r] <= Life(WatchOf(r), clock)

(* ... nor will it use one of a reply the search has been at: the watch is *)
(* still good for the TTL when the reply is forwarded.  It is not older    *)
(* than the reply, and so at most one cleaning was since.                  *)
LinkOK(r, w, age, t) ==
  w.there /\ r.ttl + 1 - age <= Life(w, t) /\ (w.updated \/ t <= age)

HandlerOK(g) ==
  h[g].pc \in Searching =>
    \A r \in h[g].links :
      /\ \E j \in DOMAIN h[g].reply : h[g].reply[j] = r
      /\ Searched(h[g], r) => LinkOK(r, WatchOf(r), h[g].age, clock)

Outlived == (\A r \in Aliases : KnownOK(r)) /\ \A g \in Handlers : HandlerOK(g)

AddressInv == ProxyInv /\ Outlived

-----------------------------------------------------------------------------
(* Records and replies. *)

(* What a record of a reply is, and in which pass it is looked for. *)
LEMMA RecordFacts ==
  /\ \A r \in Records : /\ r.name \in Names /\ r.ttl \in 0 .. MaxTTL
                        /\ r.type \in {"CNAME", "DNAME", "A"}
                        /\ r.type # "A" => r.target \in Names
                        /\ r.type = "DNAME" => Pass(r) = 1
                        /\ r.type = "CNAME" => Pass(r) = 2
                        /\ r.type = "A" => Pass(r) = 3
  /\ Aliases \subseteq Records /\ \A r \in Aliases : r.type # "A"
  /\ \A s \in Replies : /\ s \in Seq(Records) /\ Len(s) \in Nat \ {0}
                        /\ DOMAIN s = 1 .. Len(s)
                        /\ \A i \in 1 .. Len(s) :
                             s[i] \in Records /\ (s[i].type # "A" => s[i] \in Aliases)
  /\ Passes[1] = "DNAME" /\ Passes[2] = "CNAME" /\ Passes[3] = "A"
  <1>1. Passes[1] = "DNAME" /\ Passes[2] = "CNAME" /\ Passes[3] = "A"
    BY DEF Passes
  <1>2. \A r \in Records : /\ r.name \in Names /\ r.ttl \in 0 .. MaxTTL
                           /\ r.type \in {"CNAME", "DNAME", "A"}
                           /\ r.type # "A" => r.target \in Names
    BY DEF Records
  <1>3. ASSUME NEW r PROVE /\ r.type = "DNAME" => Pass(r) = 1
                           /\ r.type = "CNAME" => Pass(r) = 2
                           /\ r.type = "A" => Pass(r) = 3
    BY <1>1 DEF Pass
  <1>4. \A s \in Replies : /\ s \in Seq(Records) /\ Len(s) \in Nat \ {0}
                           /\ DOMAIN s = 1 .. Len(s)
                           /\ \A i \in 1 .. Len(s) : s[i] \in Records
    BY DNSProxyAssumption
  <1>5. Aliases \subseteq Records /\ \A r \in Aliases : r.type # "A"
    BY <1>4 DEF Aliases
  <1>6. \A s \in Replies : \A i \in 1 .. Len(s) : s[i].type # "A" => s[i] \in Aliases
    BY <1>4 DEF Aliases
  <1>7. QED
    BY <1>1, <1>2, <1>3, <1>4, <1>5, <1>6

(* Only the TTL of an alias is left out of the history. *)
LEMMA UntimedFacts ==
  ASSUME NEW r \in Aliases
  PROVE  LET u == Untimed(r)
         IN  u.name = r.name /\ u.type = r.type /\ u.target = r.target
  BY RecordFacts DEF Untimed, Records

(* A search is at one record. *)
LEMMA AtOne ==
  ASSUME NEW x, x.reply \in Replies, x.left \subseteq DOMAIN x.reply,
         NEW i, IsAt(x, i), NEW j, IsAt(x, j)
  PROVE  i = j
  <1>1. DOMAIN x.reply = 1 .. Len(x.reply) /\ Len(x.reply) \in Nat
    BY RecordFacts
  <1>2. i \in 1 .. Len(x.reply) /\ j \in 1 .. Len(x.reply)
    BY <1>1 DEF IsAt
  <1>3. Pass(x.reply[i]) \in 1 .. 3 /\ Pass(x.reply[j]) \in 1 .. 3
    <2>1. \A r \in Records : Pass(r) \in 1 .. 3
      BY RecordFacts
    <2>2. \A k \in 1 .. Len(x.reply) : x.reply[k] \in Records
      BY RecordFacts
    <2>3. QED
      BY <1>2, <2>1, <2>2
  <1>4. ~Before(x.reply, i, j) /\ ~Before(x.reply, j, i)
    BY DEF IsAt
  <1>5. QED
    BY <1>1, <1>2, <1>3, <1>4 DEF Before

(* A linked name links the target of its record. *)
LEMMA LinkedStep ==
  ASSUME NEW rs, NEW r \in rs, IsLinked(r.name, rs)
  PROVE  /\ r.type = "CNAME" => r.target \in Linked(rs).exact
         /\ r.type = "DNAME" => r.target \in Linked(rs).domains
  <1> DEFINE ps == {p \in Pairs(rs) : Closed(p, rs)}
             E == {n \in Targets(rs, "CNAME") : \A p \in ps : n \in p.exact}
             D == m \cup {n \in Targets(rs, "DNAME") : \A p \in ps : n \in p.domains}
  <1>1. Linked(rs).exact = E /\ Linked(rs).domains = D
    BY DEF Linked
  <1>2. r.name \in E \/ \E s \in Suffixes[r.name] : s \in D
    BY <1>1 DEF IsLinked, Within
  <1>3. ASSUME NEW p \in ps PROVE Within(p, r.name) /\ Closed(p, rs)
    <2>1. p \in Pairs(rs) /\ Closed(p, rs)
      OBVIOUS
    <2>2. m \subseteq p.domains
      BY <2>1 DEF Pairs
    <2>3. QED
      BY <1>2, <2>1, <2>2 DEF Within
  <1>4. \A p \in ps : r.target \in IF r.type = "CNAME" THEN p.exact ELSE p.domains
    BY <1>3 DEF Closed
  <1>5. r.target \in Targets(rs, r.type)
    BY DEF Targets
  <1>6. QED
    BY <1>1, <1>4, <1>5

(* More watched domains and more records link more names. *)
LEMMA LinkedGrows ==
  ASSUME used \subseteq Seen, m \subseteq m', used \subseteq used'
  PROVE  /\ Linked(used).exact \subseteq (Linked(used).exact)'
         /\ Linked(used).domains \subseteq (Linked(used).domains)'
         /\ \A n : IsLinked(n, used) => IsLinked(n, used)'
  <1> DEFINE ps == {p \in Pairs(used) : Closed(p, used)}
  <1>1. /\ Linked(used).exact = {n \in Targets(used, "CNAME") : \A p \in ps : n \in p.exact}
        /\ Linked(used).domains =
             m \cup {n \in Targets(used, "DNAME") : \A p \in ps : n \in p.domains}
    BY DEF Linked
  <1>2. /\ (Linked(used).exact)' =
             {n \in Targets(used', "CNAME") : \A p \in ps' : n \in p.exact}
        /\ (Linked(used).domains)' =
             m' \cup {n \in Targets(used', "DNAME") : \A p \in ps' : n \in p.domains}
    BY DEF Linked
  <1>3. \A type : Targets(used, type) \subseteq Targets(used', type)
    BY DEF Targets
  <1>4. ASSUME NEW q \in ps'
        PROVE  \E p \in ps : p.exact \subseteq q.exact /\ p.domains \subseteq q.domains
    <2> DEFINE E == q.exact \cap Targets(used, "CNAME")
               D == m \cup (q.domains \cap Targets(used, "DNAME"))
               p == [exact |-> E, domains |-> D]
    <2>1. q \in Pairs(used)' /\ Closed(q, used')
      BY <1>4 DEF Closed, Within
    <2>2. m' \subseteq q.domains
      BY <2>1 DEF Pairs
    <2>3. p.exact = E /\ p.domains = D
      OBVIOUS
    <2>4. p \in Pairs(used)
      BY DEF Pairs
    <2>5. E \subseteq q.exact /\ D \subseteq q.domains
      BY <2>2
    <2>6. ASSUME NEW r \in used, Within(p, r.name)
          PROVE  r.target \in IF r.type = "CNAME" THEN p.exact ELSE p.domains
      <3>1. Within(q, r.name)
        BY <2>3, <2>5, <2>6 DEF Within
      <3>2. r.target \in IF r.type = "CNAME" THEN q.exact ELSE q.domains
        BY <2>1, <3>1 DEF Closed
      <3>3. r.target \in Targets(used, r.type)
        BY DEF Targets
      <3>4. r.type \in {"CNAME", "DNAME"}
        BY RecordFacts, UntimedFacts DEF Seen
      <3>5. QED
        BY <2>3, <3>2, <3>3, <3>4
    <2>7. p \in ps
      BY <2>4, <2>6 DEF Closed
    <2>8. QED
      BY <2>3, <2>5, <2>7
  <1> HIDE DEF ps
  <1>5. Linked(used).exact \subseteq (Linked(used).exact)'
    BY <1>1, <1>2, <1>3, <1>4
  <1>6. Linked(used).domains \subseteq (Linked(used).domains)'
    BY <1>1, <1>2, <1>3, <1>4
  <1>7. QED
    BY <1>5, <1>6 DEF IsLinked, Within

-----------------------------------------------------------------------------
(* Temporary watches. *)

(* What the constants are. *)
LEMMA ConstFacts == MaxTTL \in Nat /\ Interval \in Nat /\ Interval >= 2
  BY DNSProxyAssumption

(* cleanTemp: a watch that was marked or has an interval left stays as     *)
(* long as it was going to.                                                *)
LEMMA CleanTempFacts ==
  ASSUME NEW t, EntriesOK(t)
  PROVE  /\ EntriesOK(CleanTemp(t))
         /\ \A n \in Names :
              /\ CleanTemp(t)[n].there => t[n].there
              /\ t[n].updated \/ t[n].ttl >= Interval =>
                   /\ CleanTemp(t)[n].there = t[n].there
                   /\ Life(CleanTemp(t)[n], 0) = Life(t[n], Interval)
  <1>0. MaxTTL \in Nat /\ Interval \in Nat
    BY ConstFacts
  <1>1. ASSUME NEW n \in Names
        PROVE  LET w == CleanTemp(t)[n]
               IN  /\ w \in Entry /\ (~w.there => w = NoWatch) /\ (w.there => t[n].there)
                   /\ t[n].updated \/ t[n].ttl >= Interval =>
                        w.there = t[n].there /\ Life(w, 0) = Life(t[n], Interval)
    <2> DEFINE w == CleanTemp(t)[n]
               v == t[n]
    <2>1. w = IF v.updated THEN [v EXCEPT !.updated = FALSE]
              ELSE IF v.ttl < Interval THEN NoWatch
              ELSE [v EXCEPT !.ttl = @ - Interval]
      BY DEF CleanTemp
    <2>2. v \in Entry /\ v.ttl \in Nat /\ (~v.there => v = NoWatch)
      BY <1>0 DEF EntriesOK, Entry
    <2>3. NoWatch \in Entry /\ NoWatch.there = FALSE /\ NoWatch.updated = FALSE /\ NoWatch.ttl = 0
      BY <1>0 DEF NoWatch, Entry
    <2> HIDE DEF w, v
    <2>4. CASE v.updated
      <3>1. w \in Entry /\ w.there = v.there /\ w.ttl = v.ttl /\ w.updated = FALSE
        BY <2>1, <2>2, <2>4 DEF Entry
      <3>2. v.there
        BY <2>2, <2>3, <2>4
      <3>3. Life(w, 0) = Life(v, Interval)
        BY <1>0, <2>2, <2>4, <3>1 DEF Life
      <3>4. QED
        BY <3>1, <3>2, <3>3 DEF w, v
    <2>5. CASE ~v.updated /\ v.ttl < Interval
      <3>1. w = NoWatch
        BY <2>1, <2>5
      <3>2. ~(v.updated \/ v.ttl >= Interval)
        BY <1>0, <2>2, <2>5
      <3>3. QED
        BY <2>3, <3>1, <3>2 DEF w, v
    <2>6. CASE ~v.updated /\ ~(v.ttl < Interval)
      <3>1. w = [v EXCEPT !.ttl = v.ttl - Interval]
        BY <2>1, <2>6
      <3>2. v.there \/ Interval = 0
        BY <1>0, <2>2, <2>3, <2>6
      <3>3. v.ttl - Interval \in 0 .. MaxTTL
        BY <1>0, <2>2, <2>6 DEF Entry
      <3>4. /\ w \in Entry /\ w.there = v.there /\ w.ttl = v.ttl - Interval
            /\ w.updated = v.updated
        BY <2>2, <3>1, <3>3 DEF Entry
      <3>5. Life(w, 0) = Life(v, Interval)
        BY <1>0, <2>2, <2>6, <3>4 DEF Life
      <3>6. v.there
        BY <3>2, ConstFacts
      <3>7. QED
        BY <3>4, <3>5, <3>6 DEF w, v
    <2>7. QED
      BY <2>4, <2>5, <2>6
  <1>2. CleanTemp(t) \in [Names -> Entry]
    <2>1. CleanTemp(t) = [n \in Names |-> CleanTemp(t)[n]]
      BY DEF CleanTemp
    <2>2. QED
      BY <1>1, <2>1
  <1>3. QED
    BY <1>1, <1>2 DEF EntriesOK

(* AddTempCNAME and AddTempDNAME: the watch of the target is new. *)
LEMMA AddTempFacts ==
  ASSUME NEW t, EntriesOK(t), NEW r \in Aliases
  PROVE  /\ EntriesOK(AddTemp(t, r))
         /\ AddTemp(t, r)[r.target] = [there |-> TRUE, ttl |-> r.ttl, updated |-> TRUE]
         /\ \A n \in Names : n # r.target => AddTemp(t, r)[n] = t[n]
  <1> DEFINE w == [there |-> TRUE, ttl |-> r.ttl, updated |-> TRUE]
  <1>1. r.target \in Names /\ r.ttl \in 0 .. MaxTTL
    BY RecordFacts
  <1>2. w \in Entry /\ w.there
    BY <1>1 DEF Entry
  <1>3. AddTemp(t, r) = [t EXCEPT ![r.target] = w]
    BY DEF AddTemp
  <1> HIDE DEF w
  <1>4. /\ EntriesOK(AddTemp(t, r)) /\ AddTemp(t, r)[r.target] = w
        /\ \A n \in Names : n # r.target => AddTemp(t, r)[n] = t[n]
    BY <1>1, <1>2, <1>3 DEF EntriesOK
  <1>5. QED
    BY <1>4 DEF w

-----------------------------------------------------------------------------
(* Handlers. *)

(* Two states of a handler at the same place of the same reply. *)
SamePlace(x, y) == y.pc = x.pc /\ y.reply = x.reply /\ y.left = x.left

(* There the search is at the same record. *)
LEMMA PlaceKeepsSearch ==
  ASSUME NEW x, NEW y, SearchOK(x), SamePlace(x, y)
  PROVE  SearchOK(y) /\ (\A i : IsAt(y, i) <=> IsAt(x, i))
  BY DEF SearchOK, SamePlace, IsAt

(* A handler goes on to the next record. *)
LEMMA AdvanceFacts ==
  ASSUME NEW x \in HandlerStates, SearchOK(x), x.pc \in Searching, NEW i
  PROVE  LET y == Advance(x, i)
         IN  /\ y \in HandlerStates /\ SearchOK(y)
             /\ y.pc = "scan" /\ y.reply = x.reply /\ y.left = x.left \ {i}
             /\ y.links = x.links /\ y.age = x.age /\ y.fresh = x.fresh
  <1> DEFINE l == x.left \ {i}
             y == Advance(x, i)
  <1>1. "scan" \in Steps /\ l \in Positions
    BY DEF Steps, Positions, HandlerStates
  <1>2. y = [x EXCEPT !.pc = "scan", !.left = l]
    BY DEF Advance
  <1>3. l \subseteq x.left
    OBVIOUS
  <1> HIDE DEF l
  <1>4. /\ y \in HandlerStates
        /\ y.pc = "scan" /\ y.reply = x.reply /\ y.left = l
        /\ y.links = x.links /\ y.age = x.age /\ y.fresh = x.fresh
    BY <1>1, <1>2 DEF HandlerStates
  <1> HIDE DEF y
  <1>5. SearchOK(y)
    BY <1>3, <1>4 DEF SearchOK
  <1>6. QED
    BY <1>4, <1>5 DEF l, y

(* The handler with fewer links. *)
Relinked(x, l) == [x EXCEPT !.links = l]

(* Only its links are other ones. *)
LEMMA RelinkedFacts ==
  ASSUME NEW x \in HandlerStates, SearchOK(x), NEW l \in Links
  PROVE  LET y == Relinked(x, l)
         IN  /\ y \in HandlerStates /\ SearchOK(y) /\ SamePlace(x, y)
             /\ y.links = l /\ y.age = x.age /\ y.fresh = x.fresh
  <1> DEFINE y == Relinked(x, l)
  <1>1. /\ y \in HandlerStates /\ SamePlace(x, y)
        /\ y.links = l /\ y.age = x.age /\ y.fresh = x.fresh
    BY DEF Relinked, HandlerStates, SamePlace
  <1>2. SearchOK(y)
    BY <1>1, PlaceKeepsSearch
  <1>3. QED
    BY <1>1, <1>2

(* The links of a handler that has asked the list for record i. *)
LinksAfter(g, i) ==
  IF IsLinked(h[g].reply[i].name, Usable(g)) THEN h[g].links ELSE h[g].links \ {h[g].reply[i]}

(* What the steps of a handler do to it. *)
LEMMA CheckStep ==
  ASSUME ProxyInv, NEW g \in Handlers, NEW i, Check(g, i)
  PROVE  LET x == Relinked(h[g], LinksAfter(g, i))
         IN  /\ h' = [h EXCEPT ![g] = IF Contains(h[g].reply[i].name) THEN [x EXCEPT !.pc = "act"]
                                      ELSE Advance(x, i)]
             /\ x \in HandlerStates /\ SearchOK(x) /\ SamePlace(h[g], x)
             /\ x.links = LinksAfter(g, i) /\ x.age = h[g].age /\ x.fresh = h[g].fresh
  <1> DEFINE r == h[g].reply[i]
             x == Relinked(h[g], LinksAfter(g, i))
             z == IF IsLinked(r.name, Usable(g)) THEN h[g] ELSE [h[g] EXCEPT !.links = @ \ {r}]
  <1>1. h[g] \in HandlerStates /\ SearchOK(h[g])
    BY DEF ProxyInv
  <1>2. LinksAfter(g, i) \in Links
    BY <1>1 DEF LinksAfter, HandlerStates, Links
  <1>3. z = x
    <2>1. [h[g] EXCEPT !.links = h[g].links] = h[g]
      BY <1>1 DEF HandlerStates
    <2>2. QED
      BY <2>1 DEF Relinked, LinksAfter
  <1>4. h' = [h EXCEPT ![g] = IF Contains(r.name) THEN [z EXCEPT !.pc = "act"] ELSE Advance(z, i)]
    BY DEF Check
  <1>5. QED
    BY <1>1, <1>2, <1>3, <1>4, RelinkedFacts

(* The links of handler f that a new watch for r leaves. *)
LinksLeft(x, r) == {q \in x.links : ~(Searched(x, q) /\ CutShort(q, r, q.ttl, x.age))}

(* Adding a watch, as it is for the handlers. *)
LEMMA UncutFacts ==
  ASSUME ProxyInv, NEW f \in Handlers, NEW r
  PROVE  LET y == Uncut(h[f], r)
         IN  /\ y \in HandlerStates /\ SearchOK(y) /\ SamePlace(h[f], y)
             /\ y.links = LinksLeft(h[f], r) /\ y.age = h[f].age /\ y.fresh = h[f].fresh
  <1>1. h[f] \in HandlerStates /\ SearchOK(h[f])
    BY DEF ProxyInv
  <1>2. LinksLeft(h[f], r) \in Links
    BY <1>1 DEF LinksLeft, HandlerStates, Links
  <1>3. Uncut(h[f], r) = Relinked(h[f], LinksLeft(h[f], r))
    BY DEF Uncut, Relinked, LinksLeft
  <1>4. QED
    BY <1>1, <1>2, <1>3, RelinkedFacts

(* Records of the reply at which a handler is. *)
LEMMA AtRecord ==
  ASSUME ProxyInv, NEW g \in Handlers, h[g].pc \in Searching, NEW i, IsAt(h[g], i)
  PROVE  LET r == h[g].reply[i]
         IN  /\ h[g].reply \in Replies /\ i \in DOMAIN h[g].reply
             /\ r \in Records /\ r.name \in Names /\ (r.type # "A" => r \in Aliases)
  <1>1. SearchOK(h[g])
    BY DEF ProxyInv
  <1>2. h[g].reply \in Replies /\ i \in DOMAIN h[g].reply
    BY <1>1 DEF SearchOK, IsAt
  <1>3. QED
    BY <1>2, RecordFacts

(* The steps of a handler that leave the other handlers alone. *)
LEMMA LocalStep ==
  ASSUME ProxyInv, NEW g \in Handlers, NEW y, h' = [h EXCEPT ![g] = y],
         y \in HandlerStates, SearchOK(y)
  PROVE  /\ h' \in [Handlers -> HandlerStates]
         /\ h'[g] = y
         /\ \A f \in Handlers : SearchOK(h'[f]) /\ (f # g => h'[f] = h[f])
  BY DEF ProxyInv

(* A watch is added: what other handlers still have to search is the same. *)
LEMMA AddWatchStep ==
  ASSUME ProxyInv, NEW g \in Handlers, NEW i, AddWatch(g, i)
  PROVE  LET r == h[g].reply[i]
         IN  /\ h[g].pc = "act" /\ IsAt(h[g], i) /\ r \in Aliases
             /\ h' \in [Handlers -> HandlerStates]
             /\ \A f \in Handlers :
                  /\ SearchOK(h'[f]) /\ h'[f].reply = h[f].reply
                  /\ h'[f].links = LinksLeft(h[f], r)
                  /\ h'[f].age = h[f].age /\ h'[f].fresh = h[f].fresh
                  /\ f # g => SamePlace(h[f], h'[f])
             /\ h'[g].pc = "scan" /\ h'[g].left = h[g].left \ {i}
  <1> DEFINE r == h[g].reply[i]
  <1>1. h[g].pc = "act" /\ IsAt(h[g], i) /\ r.type # "A"
    BY DEF AddWatch
  <1>2. r \in Aliases
    BY <1>1, AtRecord DEF Searching
  <1>3. h' = [f \in Handlers |-> IF f = g THEN Advance(Uncut(h[g], r), i) ELSE Uncut(h[f], r)]
    BY DEF AddWatch
  <1> HIDE DEF r
  <1>4. ASSUME NEW f \in Handlers, f # g
        PROVE  /\ h'[f] \in HandlerStates /\ SearchOK(h'[f]) /\ SamePlace(h[f], h'[f])
               /\ h'[f].links = LinksLeft(h[f], r)
               /\ h'[f].age = h[f].age /\ h'[f].fresh = h[f].fresh
    <2>1. h'[f] = Uncut(h[f], r)
      BY <1>3, <1>4
    <2>2. QED
      BY <2>1, UncutFacts
  <1>5. /\ h'[g] \in HandlerStates /\ SearchOK(h'[g]) /\ h'[g].reply = h[g].reply
        /\ h'[g].links = LinksLeft(h[g], r)
        /\ h'[g].age = h[g].age /\ h'[g].fresh = h[g].fresh
        /\ h'[g].pc = "scan" /\ h'[g].left = h[g].left \ {i}
    <2> DEFINE x == Uncut(h[g], r)
    <2>1. h'[g] = Advance(x, i)
      BY <1>3
    <2>2. /\ x \in HandlerStates /\ SearchOK(x) /\ SamePlace(h[g], x)
          /\ x.links = LinksLeft(h[g], r) /\ x.age = h[g].age /\ x.fresh = h[g].fresh
      BY UncutFacts
    <2>3. x.pc \in Searching
      BY <1>1, <2>2 DEF SamePlace, Searching
    <2> HIDE DEF x
    <2> DEFINE z == Advance(x, i)
    <2>4. /\ z \in HandlerStates /\ SearchOK(z)
          /\ z.pc = "scan" /\ z.reply = x.reply /\ z.left = x.left \ {i}
          /\ z.links = x.links /\ z.age = x.age /\ z.fresh = x.fresh
      BY <2>2, <2>3, AdvanceFacts
    <2>5. QED
      BY <2>1, <2>2, <2>4 DEF SamePlace
  <1>6. h' \in [Handlers -> HandlerStates]
    BY <1>3, <1>4, <1>5
  <1>7. QED
    BY <1>1, <1>2, <1>4, <1>5, <1>6 DEF r, SamePlace

(* The record was not watched, or its address has been reported. *)
LEMMA AdvanceStep ==
  ASSUME ProxyInv, NEW g \in Handlers, NEW i, ReportDone(g, i)
  PROVE  /\ h[g].pc = "report" /\ IsAt(h[g], i) /\ h[g].reply[i].type = "A"
         /\ h' = [h EXCEPT ![g] = Advance(h[g], i)]
  <1>1. /\ h[g].pc = "report" /\ IsAt(h[g], i) /\ SearchOK(h[g])
        /\ h' = [h EXCEPT ![g] = Advance(h[g], i)]
    BY DEF ReportDone, ProxyInv
  <1>2. PICK j \in h[g].left : IsAt(h[g], j) /\ h[g].reply[j].type = "A"
    BY <1>1 DEF SearchOK
  <1>3. j = i
    <2>1. h[g].reply \in Replies /\ h[g].left \subseteq DOMAIN h[g].reply
      BY <1>1 DEF SearchOK, Searching
    <2>2. QED
      BY <1>1, <1>2, <2>1, AtOne
  <1>4. QED
    BY <1>1, <1>2, <1>3

(* A handler stays where its reply allows it. *)
LEMMA HandlerTurn ==
  ASSUME ProxyInv, NEW g \in Handlers, HandleRequest(g)
  PROVE  /\ h' \in [Handlers -> HandlerStates]
         /\ \A f \in Handlers : SearchOK(h'[f]) /\ (f # g => SamePlace(h[f], h'[f]))
  <1>0. h \in [Handlers -> HandlerStates] /\ h[g] \in HandlerStates /\ SearchOK(h[g])
    BY DEF ProxyInv
  <1>a. \A f : h'[f] = h[f] => SamePlace(h[f], h'[f])
    BY DEF SamePlace
  <1>1. CASE Request(g)
    <2> DEFINE b == (vpc = "idle")
               y == [h[g] EXCEPT !.pc = "exchange", !.fresh = b]
    <2>1. "exchange" \in Steps /\ b \in BOOLEAN /\ h' = [h EXCEPT ![g] = y]
      BY <1>0, <1>1 DEF Steps, Request
    <2> HIDE DEF b
    <2>2. y \in HandlerStates /\ y.pc = "exchange"
      BY <1>0, <2>1 DEF HandlerStates
    <2> HIDE DEF y
    <2>3. SearchOK(y)
      BY <2>2 DEF SearchOK, Searching
    <2>4. QED
      BY <1>a, <2>1, <2>2, <2>3, LocalStep
  <1>2. CASE ExchangeFails(g) \/ WriteMsg(g)
    <2>1. h' = [h EXCEPT ![g] = Idle]
      BY <1>2 DEF ExchangeFails, WriteMsg
    <2>2. Idle \in HandlerStates /\ Idle.pc = "idle"
      BY DEF Idle, HandlerStates, Steps, NoneOrReply, Positions, Links, Ages
    <2>3. SearchOK(Idle)
      BY <2>2 DEF SearchOK, Searching
    <2>4. QED
      BY <1>a, <2>1, <2>2, <2>3, LocalStep
  <1>3. ASSUME NEW s \in Replies, Exchange(g, s)
        PROVE  /\ h' \in [Handlers -> HandlerStates]
               /\ \A f \in Handlers : SearchOK(h'[f]) /\ (f # g => SamePlace(h[f], h'[f]))
    <2> DEFINE l == IF h[g].fresh THEN {r \in Aliases : \E i \in DOMAIN s : s[i] = r} ELSE {}
               p == DOMAIN s
               y == [h[g] EXCEPT !.pc = "scan", !.reply = s, !.left = p, !.links = l]
    <2>1. l \in Links /\ p \in Positions /\ "scan" \in Steps /\ s \in NoneOrReply
      BY RecordFacts DEF Links, Positions, Steps, NoneOrReply
    <2>2. h' = [h EXCEPT ![g] = y]
      BY <1>3 DEF Exchange
    <2>3. p = DOMAIN s
      OBVIOUS
    <2> HIDE DEF l, p
    <2>4. y \in HandlerStates /\ y.pc = "scan" /\ y.reply = s /\ y.left = p
      BY <1>0, <2>1 DEF HandlerStates
    <2> HIDE DEF y
    <2>5. SearchOK(y)
      BY <2>3, <2>4 DEF SearchOK, Searching
    <2>6. QED
      BY <1>a, <2>2, <2>4, <2>5, LocalStep
  <1>4. ASSUME NEW i, Check(g, i)
        PROVE  /\ h' \in [Handlers -> HandlerStates]
               /\ \A f \in Handlers : SearchOK(h'[f]) /\ (f # g => SamePlace(h[f], h'[f]))
    <2> DEFINE x == Relinked(h[g], LinksAfter(g, i))
               y == [x EXCEPT !.pc = "act"]
               z == Advance(x, i)
    <2>1. /\ h' = [h EXCEPT ![g] = IF Contains(h[g].reply[i].name) THEN y ELSE z]
          /\ x \in HandlerStates /\ SearchOK(x) /\ SamePlace(h[g], x) /\ h[g].pc = "scan"
      BY <1>4, CheckStep DEF Check
    <2> HIDE DEF x
    <2>2. x.pc = "scan" /\ "act" \in Steps
      BY <2>1 DEF SamePlace, Steps
    <2>3. z \in HandlerStates /\ SearchOK(z)
      BY <2>1, <2>2, AdvanceFacts DEF Searching
    <2>4. y \in HandlerStates /\ y.pc = "act" /\ y.reply = x.reply /\ y.left = x.left
      BY <2>1, <2>2 DEF HandlerStates
    <2> HIDE DEF y, z
    <2>5. SearchOK(y)
      BY <2>1, <2>2, <2>4 DEF SearchOK, Searching
    <2>6. QED
      BY <1>a, <2>1, <2>3, <2>4, <2>5, LocalStep
  <1>5. ASSUME NEW i, AddWatch(g, i)
        PROVE  /\ h' \in [Handlers -> HandlerStates]
               /\ \A f \in Handlers : SearchOK(h'[f]) /\ (f # g => SamePlace(h[f], h'[f]))
    BY <1>5, AddWatchStep
  <1>6. ASSUME NEW i \in h[g].left, SendReport(g, i)
        PROVE  /\ h' \in [Handlers -> HandlerStates]
               /\ \A f \in Handlers : SearchOK(h'[f]) /\ (f # g => SamePlace(h[f], h'[f]))
    <2> DEFINE y == [h[g] EXCEPT !.pc = "report"]
    <2>1. /\ h' = [h EXCEPT ![g] = y] /\ "report" \in Steps /\ h[g].pc = "act"
          /\ IsAt(h[g], i) /\ h[g].reply[i].type = "A"
      BY <1>0, <1>6 DEF SendReport, Steps
    <2>2. y \in HandlerStates /\ y.pc = "report" /\ y.reply = h[g].reply /\ y.left = h[g].left
      BY <1>0, <2>1 DEF HandlerStates
    <2> HIDE DEF y
    <2>3. SearchOK(y)
      BY <1>0, <2>1, <2>2 DEF SearchOK, Searching, IsAt
    <2>4. QED
      BY <1>a, <2>1, <2>2, <2>3, LocalStep
  <1>7. ASSUME NEW i, ReportDone(g, i)
        PROVE  /\ h' \in [Handlers -> HandlerStates]
               /\ \A f \in Handlers : SearchOK(h'[f]) /\ (f # g => SamePlace(h[f], h'[f]))
    <2>1. h' = [h EXCEPT ![g] = Advance(h[g], i)] /\ h[g].pc \in Searching
      BY <1>7, AdvanceStep DEF Searching
    <2>2. Advance(h[g], i) \in HandlerStates /\ SearchOK(Advance(h[g], i))
      BY <1>0, <2>1, AdvanceFacts
    <2>3. QED
      BY <1>a, <2>1, <2>2, LocalStep
  <1>8. QED
    BY <1>1, <1>2, <1>3, <1>4, <1>5, <1>6, <1>7 DEF HandleRequest

(* The lists after a watch was added. *)
LEMMA AddWatchEntries ==
  ASSUME ProxyInv, NEW g \in Handlers, NEW i, AddWatch(g, i)
  PROVE  EntriesOK(c') /\ EntriesOK(d')
  <1> DEFINE r == h[g].reply[i]
  <1>1. r \in Aliases
    BY AddWatchStep
  <1>2. EntriesOK(c) /\ EntriesOK(d)
    BY DEF ProxyInv
  <1>3. /\ c' = IF r.type = "CNAME" THEN AddTemp(c, r) ELSE c
        /\ d' = IF r.type = "DNAME" THEN AddTemp(d, r) ELSE d
    BY DEF AddWatch
  <1> HIDE DEF r
  <1>4. EntriesOK(c')
    <2>1. CASE r.type = "CNAME"
      BY <1>1, <1>2, <1>3, <2>1, AddTempFacts
    <2>2. CASE r.type # "CNAME"
      BY <1>2, <1>3, <2>2
    <2>3. QED
      BY <2>1, <2>2
  <1>5. EntriesOK(d')
    <2>1. CASE r.type = "DNAME"
      BY <1>1, <1>2, <1>3, <2>1, AddTempFacts
    <2>2. CASE r.type # "DNAME"
      BY <1>2, <1>3, <2>2
    <2>3. QED
      BY <2>1, <2>2
  <1>6. QED
    BY <1>4, <1>5

(* Time that goes by and a flush keep handlers where they are. *)
LEMMA AllHandlers ==
  ASSUME ProxyInv, Tick \/ WatchesFlush
  PROVE  /\ h' \in [Handlers -> HandlerStates]
         /\ \A g \in Handlers : SamePlace(h[g], h'[g]) /\ SearchOK(h'[g])
         /\ WatchesFlush => \A g \in Handlers : h'[g].links = {}
         /\ Tick => \A g \in Handlers :
              \/ h'[g].links = {}
              \/ h'[g].links = h[g].links /\ h[g].age = 0 /\ h'[g].age = 1
  <1>0. h \in [Handlers -> HandlerStates] /\ \A g \in Handlers : SearchOK(h[g])
    BY DEF ProxyInv
  <1>c. {} \in Links /\ 0 \in Ages /\ 1 \in Ages /\ FALSE \in BOOLEAN
    BY DEF Links, Ages
  <1>1. ASSUME NEW g \in Handlers, Tick
        PROVE  /\ h'[g] \in HandlerStates /\ SamePlace(h[g], h'[g])
               /\ \/ h'[g].links = {}
                  \/ h'[g].links = h[g].links /\ h[g].age = 0 /\ h'[g].age = 1
    <2> DEFINE x == h[g]
    <2>1. h'[g] = IF x.links = {} THEN x
                  ELSE IF x.age = 0 THEN [x EXCEPT !.age = 1]
                  ELSE [x EXCEPT !.links = {}, !.age = 0]
      BY <1>1 DEF Tick, Older
    <2>2. x \in HandlerStates
      BY <1>0
    <2> HIDE DEF x
    <2>3. /\ h'[g] \in HandlerStates /\ SamePlace(x, h'[g])
          /\ \/ h'[g].links = {}
             \/ h'[g].links = x.links /\ x.age = 0 /\ h'[g].age = 1
      <3>1. CASE x.links = {}
        BY <2>1, <2>2, <3>1 DEF SamePlace
      <3>2. CASE x.links # {} /\ x.age = 0
        BY <1>c, <2>1, <2>2, <3>2 DEF SamePlace, HandlerStates
      <3>3. CASE x.links # {} /\ x.age # 0
        BY <1>c, <2>1, <2>2, <3>3 DEF SamePlace, HandlerStates
      <3>4. QED
        BY <3>1, <3>2, <3>3
    <2>4. QED
      BY <2>3 DEF x
  <1>2. ASSUME NEW g \in Handlers, WatchesFlush
        PROVE  h'[g] \in HandlerStates /\ SamePlace(h[g], h'[g]) /\ h'[g].links = {}
    <2>1. h'[g] = [h[g] EXCEPT !.links = {}, !.fresh = FALSE]
      BY <1>2 DEF WatchesFlush, Restarted
    <2>2. QED
      BY <1>0, <1>c, <2>1 DEF HandlerStates, SamePlace
  <1>3. h' = [g \in Handlers |-> h'[g]]
    BY DEF Tick, WatchesFlush, Restarted
  <1>4. \A g \in Handlers : h'[g] \in HandlerStates /\ SamePlace(h[g], h'[g])
    BY <1>1, <1>2
  <1>5. h' \in [Handlers -> HandlerStates]
    BY <1>3, <1>4
  <1>6. \A g \in Handlers : SearchOK(h'[g])
    BY <1>0, <1>4, PlaceKeepsSearch
  <1>7. QED
    BY <1>1, <1>2, <1>4, <1>5, <1>6

(* Every step keeps the types and handlers in their replies. *)
LEMMA ProxyNextInv ==
  ASSUME ProxyInv, [ProxyNext]_proxyVars
  PROVE  ProxyInv'
  <1>0. MaxTTL \in Nat /\ Interval \in Nat
    BY ConstFacts
  <1> DEFINE HandlersOK == h \in [Handlers -> HandlerStates] /\ \A g \in Handlers : SearchOK(h[g])
  <1>a. HandlersOK /\ known \in Times /\ clock \in 0 .. Interval /\ EntriesOK(c) /\ EntriesOK(d)
    BY DEF ProxyInv
  <1>b. ASSUME m' \subseteq Names, todo' \subseteq Names, EntriesOK(c'), EntriesOK(d'),
               h' \in [Handlers -> HandlerStates], \A g \in Handlers : SearchOK(h'[g]),
               clock' \in 0 .. Interval, known' \in Times, used' \subseteq Seen
        PROVE  ProxyInv'
    BY <1>b DEF ProxyInv, EntriesOK, SearchOK, IsAt
  <1>1. CASE CleanTempWatches
    <2>1. /\ c' = CleanTemp(c) /\ d' = CleanTemp(d) /\ clock' = 0
          /\ UNCHANGED <<m, todo, h, known, used>>
      BY <1>1 DEF CleanTempWatches
    <2>2. EntriesOK(c') /\ EntriesOK(d')
      BY <1>a, <2>1, CleanTempFacts
    <2>3. h' \in [Handlers -> HandlerStates] /\ \A g \in Handlers : SearchOK(h'[g])
      BY <1>a, <2>1
    <2>4. clock' \in 0 .. Interval
      BY <1>0, <2>1
    <2>5. QED
      BY <1>b, <2>1, <2>2, <2>3, <2>4 DEF ProxyInv
  <1>2. CASE Tick
    <2>1. /\ clock' = IF clock < Interval THEN clock + 1 ELSE clock
          /\ known' = [r \in Aliases |-> IF known[r] > 0 THEN known[r] - 1 ELSE 0]
          /\ UNCHANGED <<m, todo, c, d, used>>
      BY <1>2 DEF Tick
    <2>2. clock' \in 0 .. Interval
      BY <1>0, <1>a, <2>1
    <2>3. known' \in Times
      BY <1>0, <1>a, <2>1 DEF Times
    <2>4. h' \in [Handlers -> HandlerStates] /\ \A g \in Handlers : SearchOK(h'[g])
      BY <1>2, AllHandlers
    <2>5. EntriesOK(c') /\ EntriesOK(d')
      BY <1>a, <2>1
    <2>6. QED
      BY <1>b, <2>1, <2>2, <2>3, <2>4, <2>5 DEF ProxyInv
  <1>3. CASE WatchesFlush
    <2>1. /\ c' = NoWatches /\ d' = NoWatches /\ known' = NoTime /\ m' = {} /\ used' = {}
          /\ todo' = todo /\ clock' = clock
      BY <1>3 DEF WatchesFlush, Restarted
    <2>2. EntriesOK(c') /\ EntriesOK(d') /\ known' \in Times
      BY <1>0, <2>1 DEF EntriesOK, NoWatches, NoWatch, Entry, NoTime, Times
    <2>3. h' \in [Handlers -> HandlerStates] /\ \A g \in Handlers : SearchOK(h'[g])
      BY <1>3, AllHandlers
    <2>4. m' \subseteq Names /\ todo' \subseteq Names /\ used' \subseteq Seen
          /\ clock' \in 0 .. Interval
      BY <2>1 DEF ProxyInv
    <2>5. QED
      BY <1>b, <2>2, <2>3, <2>4
  <1>4. ASSUME NEW g \in Handlers, HandleRequest(g) PROVE ProxyInv'
    <2>1. h' \in [Handlers -> HandlerStates] /\ \A f \in Handlers : SearchOK(h'[f])
      BY <1>4, HandlerTurn
    <2>2. EntriesOK(c') /\ EntriesOK(d')
      <3>1. CASE \E i \in h[g].left : AddWatch(g, i)
        BY <3>1, AddWatchEntries
      <3>2. CASE ~\E i \in h[g].left : AddWatch(g, i)
        <4>1. UNCHANGED <<c, d>>
          BY <1>4, <3>2 DEF HandleRequest, Request, Exchange, ExchangeFails, Check, SendReport,
                            ReportDone, WriteMsg
        <4>2. QED
          BY <1>a, <4>1
      <3>3. QED
        BY <3>1, <3>2
    <2>3. m' = m /\ todo' = todo /\ clock' = clock
      BY <1>4 DEF HandleRequest, Request, Exchange, ExchangeFails, Check, AddWatch, SendReport,
                  ReportDone, WriteMsg
    <2>4. used' \subseteq Seen
      <3>0. used \subseteq Seen
        BY DEF ProxyInv
      <3>1. ASSUME NEW i, Check(g, i) PROVE used' \subseteq Seen
        <4>1. used' = used \cup {Untimed(q) : q \in {h[g].reply[i]} \cap Aliases}
          BY <3>1 DEF Check
        <4>2. QED
          BY <3>0, <4>1 DEF Seen
      <3>2. CASE ~\E i \in h[g].left : Check(g, i)
        <4>1. used' = used
          BY <1>4, <3>2 DEF HandleRequest, Request, Exchange, ExchangeFails, AddWatch, SendReport,
                            ReportDone, WriteMsg
        <4>2. QED
          BY <3>0, <4>1
      <3>3. QED
        BY <3>1, <3>2
    <2>5. known' \in Times
      <3>1. CASE WriteMsg(g)
        <4>1. known' = [r \in Aliases |-> IF r \in h[g].links THEN Larger(known[r], r.ttl)
                                          ELSE known[r]]
          BY <3>1 DEF WriteMsg
        <4>2. \A r \in Aliases : Larger(known[r], r.ttl) \in 0 .. MaxTTL
          BY <1>a, RecordFacts DEF Larger, Times
        <4>3. QED
          BY <1>a, <4>1, <4>2 DEF Times
      <3>2. ASSUME NEW i, AddWatch(g, i) PROVE known' \in Times
        <4> DEFINE Cut(q) == CutShort(q, h[g].reply[i], known[q], 1)
        <4>1. known' = [q \in Aliases |-> IF Cut(q) THEN 0 ELSE known[q]]
          BY <3>2 DEF AddWatch
        <4> HIDE DEF Cut
        <4>2. QED
          BY <1>0, <1>a, <4>1 DEF Times
      <3>3. CASE ~WriteMsg(g) /\ ~\E i \in h[g].left : AddWatch(g, i)
        <4>1. known' = known
          BY <1>4, <3>3 DEF HandleRequest, Request, Exchange, ExchangeFails, Check, SendReport,
                            ReportDone
        <4>2. QED
          BY <1>a, <4>1
      <3>4. QED
        BY <3>1, <3>2, <3>3
    <2>6. QED
      BY <1>a, <1>b, <2>1, <2>2, <2>3, <2>4, <2>5 DEF ProxyInv
  <1>5. CASE \/ \E domains \in Confs \cup {{}} : SetRemotes(domains)
             \/ RemotesAdd \/ WatchesSet \/ \E n \in Names : WatchesAdd(n)
             \/ UNCHANGED proxyVars
    <2>1. UNCHANGED <<c, d, h, clock, known, used>>
      BY <1>5 DEF SetRemotes, RemotesAdd, WatchesSet, WatchesAdd, proxyVars
    <2>2. \A domains \in Confs \cup {{}} : domains \subseteq Names
      BY DNSProxyAssumption
    <2>3. m' \subseteq Names /\ todo' \subseteq Names
      BY <1>5, <2>2 DEF SetRemotes, RemotesAdd, WatchesSet, WatchesAdd, proxyVars, ProxyInv
    <2>4. QED
      BY <1>a, <1>b, <2>1, <2>3 DEF ProxyInv
  <1>6. QED
    BY <1>1, <1>2, <1>3, <1>4, <1>5 DEF ProxyNext

(* The proxy starts with empty lists and idle handlers. *)
LEMMA ProxyInitInv == ProxyInit => ProxyInv
  <1> SUFFICES ASSUME ProxyInit PROVE ProxyInv
    OBVIOUS
  <1>0. MaxTTL \in Nat /\ Interval \in Nat
    BY ConstFacts
  <1>1. EntriesOK(c) /\ EntriesOK(d) /\ known \in Times
    BY <1>0 DEF ProxyInit, EntriesOK, NoWatches, NoWatch, Entry, NoTime, Times
  <1>2. Idle \in HandlerStates /\ Idle.pc = "idle"
    BY DEF Idle, HandlerStates, Steps, NoneOrReply, Positions, Links, Ages
  <1>3. SearchOK(Idle)
    BY <1>2 DEF SearchOK, Searching
  <1>4. h = [g \in Handlers |-> Idle] /\ clock \in 0 .. Interval
    BY <1>0 DEF ProxyInit
  <1>5. QED
    BY <1>1, <1>2, <1>3, <1>4 DEF ProxyInit, ProxyInv

-----------------------------------------------------------------------------
(* Strangers. *)

(* Linked after a step. *)
LinkedThen(n) ==
  n \in (Linked(used).exact)' \/ \E s \in Suffixes[n] : s \in (Linked(used).domains)'

(* Handlers that are not about to act, or were so before. *)
Acting(g) == h'[g].pc = "act" => SamePlace(h[g], h'[g])

(* Domains and records seen are only added: nothing is linked less. *)
LEMMA JustifiedKept ==
  ASSUME StrangerInv, m \subseteq m', used \subseteq used', crossed' = crossed
  PROVE  ~crossed' => \A g \in Handlers : Acting(g) => JustifiedAt(g)'
  <1>0. used \subseteq Seen /\ Justified
    BY DEF StrangerInv, ProxyInv
  <1> SUFFICES ASSUME ~crossed', NEW g \in Handlers, Acting(g), h'[g].pc = "act",
                      NEW i \in h'[g].left, IsAt(h'[g], i), h'[g].reply[i].type # "A"
               PROVE  Untimed(h'[g].reply[i]) \in used' /\ LinkedThen(h'[g].reply[i].name)
    BY DEF JustifiedAt, IsAt, IsLinked, Within, LinkedThen, Before
  <1>1. h[g].pc = "act" /\ h'[g].reply = h[g].reply /\ i \in h[g].left /\ IsAt(h[g], i)
    BY DEF Acting, SamePlace, IsAt
  <1> DEFINE r == h[g].reply[i]
  <1>2. Untimed(r) \in used /\ IsLinked(r.name, used)
    BY <1>0, <1>1 DEF Justified, JustifiedAt
  <1>3. LinkedThen(r.name)
    BY <1>0, <1>2, LinkedGrows DEF IsLinked, Within, LinkedThen
  <1>4. QED
    BY <1>1, <1>2, <1>3

(* Nor is anything added to the temporary watches. *)
LEMMA StrangersKept ==
  ASSUME StrangerInv, m \subseteq m', used \subseteq used', crossed' = crossed,
         \A n \in Names : (c'[n].there => c[n].there) /\ (d'[n].there => d[n].there)
  PROVE  /\ NoStrangerWatched'
         /\ (\A g \in Handlers : Acting(g)) => Justified'
  <1>1. NoStrangerWatched'
    BY LinkedGrows DEF NoStrangerWatched, StrangerInv, ProxyInv
  <1>2. QED
    BY <1>1, JustifiedKept DEF Justified

(* What is on the list is linked to its domains. *)
LEMMA ContainsLinked ==
  ASSUME ProxyInv, NoStrangerWatched, ~crossed, NEW n \in Names, Contains(n)
  PROVE  IsLinked(n, used)
  <1>1. \A s \in Suffixes[n] : s \in Names
    BY DNSProxyAssumption
  <1>2. m \subseteq Linked(used).domains
    BY DEF Linked
  <1>3. n \in Linked(used).exact \/ \E s \in Suffixes[n] : s \in Linked(used).domains
    BY <1>1, <1>2 DEF Contains, NoStrangerWatched
  <1>4. QED
    BY <1>3 DEF IsLinked, Within

(* A handler asks the list. *)
LEMMA CheckStrangers ==
  ASSUME StrangerInv, NEW g \in Handlers, NEW i \in h[g].left, Check(g, i)
  PROVE  NoStrangerWatched' /\ Justified'
  <1>0. ProxyInv /\ NoStrangerWatched /\ Justified /\ used \subseteq Seen
    BY DEF StrangerInv, ProxyInv
  <1> DEFINE r == h[g].reply[i]
             x == Relinked(h[g], LinksAfter(g, i))
             y == [x EXCEPT !.pc = "act"]
             z == Advance(x, i)
  <1>1. /\ h[g].pc = "scan" /\ IsAt(h[g], i)
        /\ used' = used \cup {Untimed(q) : q \in {r} \cap Aliases}
        /\ UNCHANGED <<m, c, d, crossed>>
    BY DEF Check
  <1>2. NoStrangerWatched'
    BY <1>1, StrangersKept
  <1>3. /\ h[g].reply \in Replies /\ r.name \in Names /\ (r.type # "A" => r \in Aliases)
    BY <1>0, <1>1, AtRecord DEF Searching
  <1>4. ASSUME NEW f \in Handlers, f # g PROVE Acting(f)
    <2>1. HandleRequest(g)
      BY DEF HandleRequest
    <2>2. QED
      BY <1>0, <1>4, <2>1, HandlerTurn DEF Acting
  <1>5. /\ h' = [h EXCEPT ![g] = IF Contains(r.name) THEN y ELSE z]
        /\ x \in HandlerStates /\ SearchOK(x) /\ SamePlace(h[g], x)
    BY <1>0, CheckStep
  <1> HIDE DEF x
  <1>6. z.pc = "scan"
    BY <1>1, <1>5, AdvanceFacts DEF SamePlace, Searching
  <1>7. y.reply = h[g].reply /\ y.left = h[g].left
    BY <1>5 DEF HandlerStates, SamePlace
  <1>8. h'[g] = IF Contains(r.name) THEN y ELSE z
    BY <1>0, <1>5 DEF ProxyInv
  <1> HIDE DEF r, y, z
  <1>9. ASSUME ~crossed', h'[g].pc = "act", NEW j \in h'[g].left, IsAt(h'[g], j),
               h'[g].reply[j].type # "A"
        PROVE  Untimed(h'[g].reply[j]) \in used' /\ LinkedThen(h'[g].reply[j].name)
    <2>1. Contains(r.name) /\ h'[g].reply = h[g].reply /\ h'[g].left = h[g].left
      BY <1>6, <1>7, <1>8, <1>9
    <2>2. j = i
      <3>1. IsAt(h[g], j)
        BY <1>9, <2>1 DEF IsAt
      <3>2. h[g].left \subseteq DOMAIN h[g].reply
        BY <1>0, <1>1 DEF ProxyInv, SearchOK, Searching
      <3>3. QED
        BY <1>1, <1>3, <3>1, <3>2, AtOne
    <2>3. h'[g].reply[j] = r
      BY <2>1, <2>2 DEF r
    <2>4. r \in Aliases
      BY <1>3, <1>9, <2>3
    <2>5. IsLinked(r.name, used)
      BY <1>0, <1>1, <1>3, <1>9, <2>1, ContainsLinked
    <2>6. LinkedThen(r.name)
      BY <1>0, <1>1, <2>5, LinkedGrows DEF IsLinked, Within, LinkedThen
    <2>7. QED
      BY <1>1, <2>3, <2>4, <2>6
  <1>10. ~crossed' => JustifiedAt(g)'
    BY <1>9 DEF JustifiedAt, IsAt, IsLinked, Within, LinkedThen, Before
  <1>11. Justified'
    BY <1>1, <1>4, <1>10, JustifiedKept DEF Justified
  <1>12. QED
    BY <1>2, <1>11

(* A handler adds a temporary watch. *)
LEMMA AddWatchStrangers ==
  ASSUME StrangerInv, NEW g \in Handlers, NEW i \in h[g].left, AddWatch(g, i)
  PROVE  NoStrangerWatched' /\ Justified'
  <1>0. ProxyInv /\ NoStrangerWatched /\ Justified /\ EntriesOK(c) /\ EntriesOK(d)
    BY DEF StrangerInv, ProxyInv
  <1> DEFINE r == h[g].reply[i]
  <1>1. /\ h[g].pc = "act" /\ IsAt(h[g], i) /\ r.type # "A" /\ UNCHANGED <<m, used, crossed>>
        /\ c' = IF r.type = "CNAME" THEN AddTemp(c, r) ELSE c
        /\ d' = IF r.type = "DNAME" THEN AddTemp(d, r) ELSE d
    BY DEF AddWatch
  <1>2. r \in Aliases
    BY <1>0, AddWatchStep
  <1>3. Linked(used)' = Linked(used)
    BY <1>1 DEF Linked, Pairs, Closed, Within
  <1>4. ASSUME ~crossed
        PROVE  /\ r.type = "CNAME" => r.target \in Linked(used).exact
               /\ r.type = "DNAME" => r.target \in Linked(used).domains
    <2> DEFINE u == Untimed(r)
    <2>1. u \in used /\ IsLinked(r.name, used)
      BY <1>0, <1>1, <1>4 DEF Justified, JustifiedAt
    <2>2. u.name = r.name /\ u.type = r.type /\ u.target = r.target
      BY <1>2, UntimedFacts
    <2> HIDE DEF u, r
    <2>3. QED
      BY <2>1, <2>2, LinkedStep
  <1>5. \A n \in Names : c'[n].there => c[n].there \/ (r.type = "CNAME" /\ n = r.target)
    BY <1>0, <1>1, <1>2, AddTempFacts
  <1>6. \A n \in Names : d'[n].there => d[n].there \/ (r.type = "DNAME" /\ n = r.target)
    BY <1>0, <1>1, <1>2, AddTempFacts
  <1> HIDE DEF r
  <1>7. NoStrangerWatched'
    BY <1>0, <1>1, <1>3, <1>4, <1>5, <1>6 DEF NoStrangerWatched
  <1>8. \A f \in Handlers : Acting(f)
    <2>1. HandleRequest(g)
      BY DEF HandleRequest
    <2>2. \A f \in Handlers : f # g => SamePlace(h[f], h'[f])
      BY <1>0, <2>1, HandlerTurn
    <2>3. h'[g].pc = "scan"
      BY <1>0, AddWatchStep
    <2>4. QED
      BY <2>2, <2>3 DEF Acting
  <1>9. Justified'
    BY <1>1, <1>8, JustifiedKept DEF Justified
  <1>10. QED
    BY <1>7, <1>9

(* Every step keeps strangers off the list. *)
LEMMA StrangerNextInv ==
  ASSUME StrangerInv, [ProxyNext]_proxyVars
  PROVE  StrangerInv'
  <1>0. ProxyInv /\ EntriesOK(c) /\ EntriesOK(d)
    BY DEF StrangerInv, ProxyInv
  <1>1. ProxyInv'
    BY <1>0, ProxyNextInv
  <1>2. CASE CleanTempWatches
    <2>1. c' = CleanTemp(c) /\ d' = CleanTemp(d) /\ UNCHANGED <<m, h, used, crossed>>
      BY <1>2 DEF CleanTempWatches
    <2>2. \A n \in Names : (c'[n].there => c[n].there) /\ (d'[n].there => d[n].there)
      BY <1>0, <2>1, CleanTempFacts
    <2>3. \A g \in Handlers : Acting(g)
      BY <2>1 DEF Acting, SamePlace
    <2>4. QED
      BY <1>1, <2>1, <2>2, <2>3, StrangersKept DEF StrangerInv
  <1>3. CASE WatchesFlush
    <2>1. /\ c' = NoWatches /\ d' = NoWatches
          /\ crossed' = \E g \in Handlers : h[g].pc \in {"act", "report"}
      BY <1>3 DEF WatchesFlush, Restarted
    <2>2. \A n \in Names : ~c'[n].there /\ ~d'[n].there
      BY <2>1 DEF NoWatches, NoWatch
    <2>3. ~crossed' => \A g \in Handlers : h'[g].pc # "act"
      BY <1>0, <1>3, <2>1, AllHandlers DEF SamePlace
    <2>4. NoStrangerWatched'
      BY <2>2 DEF NoStrangerWatched
    <2>5. Justified'
      BY <2>3 DEF Justified, JustifiedAt
    <2>6. QED
      BY <1>1, <2>4, <2>5 DEF StrangerInv
  <1>4. ASSUME NEW g \in Handlers, HandleRequest(g) PROVE StrangerInv'
    <2>1. ASSUME NEW i \in h[g].left, Check(g, i) PROVE StrangerInv'
      BY <1>1, <2>1, CheckStrangers DEF StrangerInv
    <2>2. ASSUME NEW i \in h[g].left, AddWatch(g, i) PROVE StrangerInv'
      BY <1>1, <2>2, AddWatchStrangers DEF StrangerInv
    <2>3. CASE ~\E i \in h[g].left : Check(g, i) \/ AddWatch(g, i)
      <3>1. UNCHANGED <<m, c, d, used, crossed>>
        BY <1>4, <2>3 DEF HandleRequest, Request, Exchange, ExchangeFails, SendReport, ReportDone,
                          WriteMsg
      <3>2. h'[g].pc # "act"
        <4>0. h \in [Handlers -> HandlerStates] /\ h[g] \in HandlerStates /\ SearchOK(h[g])
          BY <1>0 DEF ProxyInv
        <4>1. CASE Request(g)
          BY <4>0, <4>1 DEF Request, HandlerStates
        <4>2. ASSUME NEW s \in Replies, Exchange(g, s) PROVE h'[g].pc # "act"
          <5> DEFINE l == IF h[g].fresh THEN {r \in Aliases : \E i \in DOMAIN s : s[i] = r} ELSE {}
                     p == DOMAIN s
                     y == [h[g] EXCEPT !.pc = "scan", !.reply = s, !.left = p, !.links = l]
          <5>1. h' = [h EXCEPT ![g] = y]
            BY <4>2 DEF Exchange
          <5> HIDE DEF l, p
          <5>2. y.pc = "scan"
            BY <4>0 DEF HandlerStates
          <5> HIDE DEF y
          <5>3. QED
            BY <4>0, <5>1, <5>2
        <4>3. CASE ExchangeFails(g) \/ WriteMsg(g)
          BY <4>0, <4>3 DEF ExchangeFails, WriteMsg, Idle
        <4>4. ASSUME NEW i, SendReport(g, i) PROVE h'[g].pc # "act"
          BY <4>0, <4>4 DEF SendReport, HandlerStates
        <4>5. ASSUME NEW i, ReportDone(g, i) PROVE h'[g].pc # "act"
          <5>1. h' = [h EXCEPT ![g] = Advance(h[g], i)] /\ h[g].pc \in Searching
            BY <1>0, <4>5, AdvanceStep DEF Searching
          <5>2. Advance(h[g], i).pc = "scan"
            BY <4>0, <5>1, AdvanceFacts
          <5>3. QED
            BY <4>0, <5>1, <5>2
        <4>6. QED
          BY <1>4, <2>3, <4>1, <4>2, <4>3, <4>4, <4>5 DEF HandleRequest
      <3>3. \A f \in Handlers : Acting(f)
        BY <1>0, <1>4, <3>2, HandlerTurn DEF Acting
      <3>4. QED
        BY <1>1, <3>1, <3>3, StrangersKept DEF StrangerInv
    <2>4. QED
      BY <2>1, <2>2, <2>3
  <1>5. CASE Tick
    <2>1. UNCHANGED <<m, c, d, used, crossed>>
      BY <1>5 DEF Tick
    <2>2. \A f \in Handlers : Acting(f)
      BY <1>0, <1>5, AllHandlers DEF Acting
    <2>3. QED
      BY <1>1, <2>1, <2>2, StrangersKept DEF StrangerInv
  <1>6. CASE \/ \E domains \in Confs \cup {{}} : SetRemotes(domains)
             \/ RemotesAdd \/ WatchesSet \/ \E n \in Names : WatchesAdd(n)
             \/ UNCHANGED proxyVars
    <2>1. m \subseteq m' /\ UNCHANGED <<c, d, used, crossed, h>>
      BY <1>6 DEF SetRemotes, RemotesAdd, WatchesSet, WatchesAdd, proxyVars
    <2>2. \A f \in Handlers : Acting(f)
      BY <2>1 DEF Acting, SamePlace
    <2>3. QED
      BY <1>1, <2>1, <2>2, StrangersKept DEF StrangerInv
  <1>7. QED
    BY <1>2, <1>3, <1>4, <1>5, <1>6 DEF ProxyNext

(* The invariant holds in every state. *)
THEOREM StrangerInvariance == ProxySpec => []StrangerInv
  <1>1. ProxyInit => StrangerInv
    <2> SUFFICES ASSUME ProxyInit PROVE StrangerInv
      OBVIOUS
    <2>1. NoStrangerWatched
      BY DEF ProxyInit, NoStrangerWatched, NoWatches, NoWatch
    <2>2. Justified
      BY DEF ProxyInit, Justified, JustifiedAt, Idle
    <2>3. QED
      BY <2>1, <2>2, ProxyInitInv DEF StrangerInv
  <1>2. StrangerInv /\ [ProxyNext]_proxyVars => StrangerInv'
    BY StrangerNextInv
  <1>3. QED
    BY <1>1, <1>2, PTL DEF ProxySpec

(* No stranger is watched, for all names, replies and configurations and   *)
(* any number of handlers: a temporary watch is the target of a record     *)
(* that leads away from a domain on the current list (Flush, SetWatches,   *)
(* AddTempCNAME, AddTempDNAME).                                            *)
THEOREM StrangersAreNotWatched == ProxySpec => []NoStrangerWatched
  <1>1. StrangerInv => NoStrangerWatched
    BY DEF StrangerInv
  <1>2. QED
    BY <1>1, StrangerInvariance, PTL

-----------------------------------------------------------------------------
(* Addresses. *)

(* The numbers a watch and a record have. *)
LEMMA NumberFacts ==
  ASSUME ProxyInv, NEW r \in Aliases
  PROVE  /\ r.ttl \in 0 .. MaxTTL /\ known[r] \in 0 .. MaxTTL /\ clock \in 0 .. Interval
         /\ WatchOf(r) \in Entry /\ WatchOf(r).ttl \in Nat
         /\ \A g \in Handlers : h[g].age \in Ages
  <1>1. r.target \in Names /\ r.ttl \in 0 .. MaxTTL
    BY RecordFacts
  <1>2. WatchOf(r) \in Entry
    BY <1>1 DEF WatchOf, ProxyInv, EntriesOK
  <1>3. WatchOf(r).ttl \in Nat
    BY <1>2, ConstFacts DEF Entry
  <1>4. QED
    BY <1>1, <1>2, <1>3 DEF ProxyInv, Times, HandlerStates

(* A name that usable records lead to is on the list, if none of them is   *)
(* still to be searched.                                                   *)
LEMMA LinkedIsWatched ==
  ASSUME AddressInv, NEW g \in Handlers, h[g].pc = "scan", NEW n \in Names,
         \A j \in DOMAIN h[g].reply : Leads(h[g].reply[j], n) => j \notin h[g].left,
         IsLinked(n, Usable(g))
  PROVE  Contains(n)
  <1>0. ProxyInv /\ Outlived /\ h[g].pc \in Searching
    BY DEF AddressInv, Searching
  <1>1. ASSUME NEW q \in Usable(g), Leads(q, n) PROVE WatchOf(q).there
    <2>1. CASE q \in Aliases /\ known[q] > 0
      BY <1>0, <2>1 DEF Outlived, KnownOK
    <2>2. CASE q \in h[g].links
      <3>1. PICK j \in DOMAIN h[g].reply : h[g].reply[j] = q
        BY <1>0, <2>2 DEF Outlived, HandlerOK
      <3>2. Searched(h[g], q)
        BY <1>1, <3>1 DEF Searched
      <3>3. QED
        BY <1>0, <2>2, <3>2 DEF Outlived, HandlerOK, LinkOK
    <2>3. QED
      BY <2>1, <2>2 DEF Usable
  <1>2. /\ Linked(Usable(g)).exact \subseteq Targets(Usable(g), "CNAME")
        /\ Linked(Usable(g)).domains \subseteq m \cup Targets(Usable(g), "DNAME")
    BY DEF Linked
  <1>3. CASE n \in Linked(Usable(g)).exact
    <2>1. PICK q \in Usable(g) : q.type = "CNAME" /\ q.target = n
      BY <1>2, <1>3 DEF Targets
    <2>2. c[n].there
      BY <1>1, <2>1 DEF Leads, WatchOf
    <2>3. QED
      BY <2>2 DEF Contains
  <1>4. ASSUME NEW s \in Suffixes[n], s \in Linked(Usable(g)).domains PROVE Contains(n)
    <2>1. CASE s \in m
      BY <2>1 DEF Contains
    <2>2. CASE s \in Targets(Usable(g), "DNAME")
      <3>1. PICK q \in Usable(g) : q.type = "DNAME" /\ q.target = s
        BY <2>2 DEF Targets
      <3>2. d[s].there
        BY <1>1, <3>1 DEF Leads, WatchOf
      <3>3. QED
        BY <3>2 DEF Contains
    <2>3. QED
      BY <1>2, <1>4, <2>1, <2>2
  <1>5. QED
    BY <1>3, <1>4 DEF IsLinked, Within

(* In order: nothing that leads to the record a handler is at comes later. *)
LEMMA NothingLater ==
  ASSUME ProxyInv, InOrder, NEW g \in Handlers, h[g].pc = "scan", NEW i, IsAt(h[g], i)
  PROVE  /\ h[g].reply[i].name \in Names
         /\ \A j \in DOMAIN h[g].reply :
              Leads(h[g].reply[j], h[g].reply[i].name) => j \notin h[g].left
  <1> DEFINE s == h[g].reply
  <1>1. s \in Replies /\ i \in DOMAIN s /\ s[i] \in Records /\ s[i].name \in Names
    BY AtRecord DEF Searching
  <1>2. \A j \in h[g].left : ~Before(s, j, i)
    BY DEF IsAt
  <1> HIDE DEF s
  <1>3. ASSUME NEW j \in DOMAIN s, Leads(s[j], s[i].name) PROVE Before(s, j, i)
    <2>1. CASE s[i].type # "A"
      BY <1>1, <1>3, <2>1 DEF InOrder
    <2>2. CASE s[i].type = "A"
      <3>1. s[j] \in Records /\ s[j].type \in {"CNAME", "DNAME"}
        BY <1>1, <1>3, RecordFacts DEF Leads
      <3>2. Pass(s[i]) = 3 /\ Pass(s[j]) \in 1 .. 2
        BY <1>1, <2>2, <3>1, RecordFacts
      <3>3. QED
        BY <3>2 DEF Before
    <2>3. QED
      BY <2>1, <2>2
  <1>4. QED
    BY <1>1, <1>2, <1>3 DEF s

(* A handler goes on: all is well with it if the records it has searched   *)
(* then were searched before.                                              *)
LEMMA GoesOn ==
  ASSUME AddressInv, UNCHANGED <<c, d, clock>>, NEW g \in Handlers, h[g].pc \in Searching,
         h'[g].reply = h[g].reply, h'[g].age = h[g].age, h'[g].links \subseteq h[g].links,
         \A r \in h'[g].links : Searched(h'[g], r) => Searched(h[g], r)
  PROVE  HandlerOK(g)'
  <1>1. HandlerOK(g)
    BY DEF AddressInv, Outlived
  <1> SUFFICES ASSUME NEW r \in h'[g].links
               PROVE  /\ \E j \in DOMAIN h'[g].reply : h'[g].reply[j] = r
                      /\ Searched(h'[g], r) => LinkOK(r, WatchOf(r)', h'[g].age, clock')
    BY DEF HandlerOK, Searched, LinkOK, Life, WatchOf
  <1>2. WatchOf(r)' = WatchOf(r)
    BY DEF WatchOf
  <1>3. QED
    BY <1>1, <1>2 DEF HandlerOK

(* Nothing changes for a handler. *)
LEMMA HandlerKept ==
  ASSUME AddressInv, UNCHANGED <<c, d, clock>>, NEW g \in Handlers, h'[g] = h[g]
  PROVE  HandlerOK(g)'
  <1>1. CASE h[g].pc \in Searching
    BY <1>1, GoesOn
  <1>2. CASE h[g].pc \notin Searching
    BY <1>2 DEF HandlerOK
  <1>3. QED
    BY <1>1, <1>2

(* Nothing changes for the host. *)
LEMMA KnownKept ==
  ASSUME AddressInv, UNCHANGED <<c, d, clock, known>>, NEW r \in Aliases
  PROVE  KnownOK(r)'
  <1>1. KnownOK(r)
    BY DEF AddressInv, Outlived
  <1>2. QED
    BY <1>1 DEF KnownOK, WatchOf, Life

(* A handler asks the list: what usable records lead to is on it. *)
LEMMA CheckOutlived ==
  ASSUME AddressInv, InOrder, NEW g \in Handlers, NEW i \in h[g].left, Check(g, i)
  PROVE  HandlerOK(g)'
  <1>0. ProxyInv /\ h \in [Handlers -> HandlerStates]
    BY DEF AddressInv, ProxyInv
  <1> DEFINE r == h[g].reply[i]
             x == Relinked(h[g], LinksAfter(g, i))
             y == [x EXCEPT !.pc = "act"]
             z == Advance(x, i)
  <1>1. h[g].pc = "scan" /\ IsAt(h[g], i) /\ UNCHANGED <<c, d, clock>> /\ h[g].pc \in Searching
    BY DEF Check, Searching
  <1>2. /\ h' = [h EXCEPT ![g] = IF Contains(r.name) THEN y ELSE z]
        /\ x \in HandlerStates /\ SearchOK(x) /\ SamePlace(h[g], x)
        /\ x.links = LinksAfter(g, i) /\ x.age = h[g].age
    BY <1>0, CheckStep
  <1>3. LinksAfter(g, i) \subseteq h[g].links
    BY DEF LinksAfter
  <1> HIDE DEF x
  <1>4. y.reply = x.reply /\ y.left = x.left /\ y.links = x.links /\ y.age = x.age
    BY <1>2 DEF HandlerStates
  <1>5. z.reply = x.reply /\ z.left = x.left \ {i} /\ z.links = x.links /\ z.age = x.age
    BY <1>1, <1>2, AdvanceFacts DEF SamePlace
  <1>6. h'[g] = IF Contains(r.name) THEN y ELSE z
    BY <1>0, <1>2
  <1> HIDE DEF y, z
  <1>7. CASE Contains(r.name)
    <2>1. /\ h'[g].reply = h[g].reply /\ h'[g].left = h[g].left
          /\ h'[g].links \subseteq h[g].links /\ h'[g].age = h[g].age
      BY <1>2, <1>3, <1>4, <1>6, <1>7 DEF SamePlace
    <2>2. \A q \in h'[g].links : Searched(h'[g], q) => Searched(h[g], q)
      BY <2>1 DEF Searched
    <2>3. QED
      BY <1>1, <2>1, <2>2, GoesOn
  <1>8. CASE ~Contains(r.name)
    <2>1. /\ h'[g].reply = h[g].reply /\ h'[g].left = h[g].left \ {i}
          /\ h'[g].links = LinksAfter(g, i) /\ h'[g].age = h[g].age
      BY <1>2, <1>5, <1>6, <1>8 DEF SamePlace
    <2>2. ~IsLinked(r.name, Usable(g))
      BY <1>0, <1>1, <1>8, NothingLater, LinkedIsWatched
    <2>3. r \notin LinksAfter(g, i)
      BY <2>2 DEF LinksAfter
    <2>4. \A q \in h'[g].links : Searched(h'[g], q) => Searched(h[g], q)
      BY <2>1, <2>3 DEF Searched
    <2>5. QED
      BY <1>1, <1>3, <2>1, <2>4, GoesOn
  <1>9. QED
    BY <1>7, <1>8

(* What a new watch does to the watch of an alias. *)
LEMMA AddWatchWatch ==
  ASSUME ProxyInv, NEW g \in Handlers, NEW i, AddWatch(g, i), NEW q \in Aliases
  PROVE  LET r == h[g].reply[i]
         IN  IF r.type = q.type /\ r.target = q.target
             THEN WatchOf(q)' = [there |-> TRUE, ttl |-> r.ttl, updated |-> TRUE]
             ELSE WatchOf(q)' = WatchOf(q)
  <1> DEFINE r == h[g].reply[i]
  <1>0. EntriesOK(c) /\ EntriesOK(d) /\ r \in Aliases
    BY AddWatchStep DEF ProxyInv
  <1>1. /\ c' = IF r.type = "CNAME" THEN AddTemp(c, r) ELSE c
        /\ d' = IF r.type = "DNAME" THEN AddTemp(d, r) ELSE d
    BY DEF AddWatch
  <1>2. q.target \in Names /\ q.type \in {"CNAME", "DNAME"} /\ r.type \in {"CNAME", "DNAME"}
    BY <1>0, RecordFacts
  <1> HIDE DEF r
  <1>3. CASE r.type = q.type /\ r.target = q.target
    <2>1. CASE q.type = "CNAME"
      BY <1>0, <1>1, <1>3, <2>1, AddTempFacts DEF WatchOf, r
    <2>2. CASE q.type = "DNAME"
      BY <1>0, <1>1, <1>3, <2>2, AddTempFacts DEF WatchOf, r
    <2>3. QED
      BY <1>2, <2>1, <2>2
  <1>4. CASE ~(r.type = q.type /\ r.target = q.target)
    <2>1. CASE q.type = "CNAME"
      BY <1>0, <1>1, <1>2, <1>4, <2>1, AddTempFacts DEF WatchOf, r
    <2>2. CASE q.type = "DNAME"
      BY <1>0, <1>1, <1>2, <1>4, <2>2, AddTempFacts DEF WatchOf, r
    <2>3. QED
      BY <1>2, <2>1, <2>2
  <1>5. QED
    BY <1>3, <1>4

(* A watch is added: it is good for what it does not cut short. *)
LEMMA AddWatchOutlived ==
  ASSUME AddressInv, NEW g \in Handlers, NEW i, AddWatch(g, i)
  PROVE  Outlived'
  <1>0. ProxyInv /\ Outlived /\ clock' = clock /\ Interval \in Nat /\ MaxTTL \in Nat
    BY ConstFacts DEF AddressInv, AddWatch
  <1> DEFINE r == h[g].reply[i]
             New == [there |-> TRUE, ttl |-> r.ttl, updated |-> TRUE]
  <1>1. r \in Aliases
    BY <1>0, AddWatchStep
  <1>2. r.ttl \in 0 .. MaxTTL /\ clock \in 0 .. Interval
    BY <1>0, <1>1, NumberFacts
  <1>3. New.there /\ New.updated /\ r.ttl + 1 <= Life(New, clock) /\ Life(New, clock) \in Int
    BY <1>0, <1>2 DEF Life
  <1>4. ASSUME NEW q \in Aliases
        PROVE  IF r.type = q.type /\ r.target = q.target THEN WatchOf(q)' = New
               ELSE WatchOf(q)' = WatchOf(q)
    BY <1>0, AddWatchWatch
  <1>5. known' = [q \in Aliases |-> IF CutShort(q, r, known[q], 1) THEN 0 ELSE known[q]]
    BY DEF AddWatch
  <1>6. ASSUME NEW f \in Handlers
        PROVE  /\ h'[f].reply = h[f].reply /\ h'[f].links = LinksLeft(h[f], r)
               /\ h'[f].age = h[f].age
               /\ IF f = g THEN h[f].pc = "act" /\ h'[f].left = h[f].left \ {i}
                  ELSE SamePlace(h[f], h'[f])
    BY <1>0, AddWatchStep
  <1>7. r = h[g].reply[i]
    OBVIOUS
  <1> HIDE DEF r, New
  <1>8. ASSUME NEW q \in Aliases PROVE KnownOK(q)'
    <2> SUFFICES ASSUME known'[q] > 0
                 PROVE  WatchOf(q)'.there /\ known'[q] <= Life(WatchOf(q)', clock)
      BY <1>0 DEF KnownOK, Life
    <2>1. known[q] \in Nat
      BY <1>0, NumberFacts
    <2>2. known'[q] = known[q] /\ ~CutShort(q, r, known[q], 1)
      BY <1>5
    <2>3. KnownOK(q)
      BY <1>0 DEF Outlived
    <2>4. CASE r.type = q.type /\ r.target = q.target
      <3>1. known[q] <= r.ttl + 1
        BY <1>2, <2>1, <2>2, <2>4 DEF CutShort
      <3>2. known[q] <= Life(New, clock)
        BY <1>2, <1>3, <2>1, <3>1
      <3>3. QED
        BY <1>3, <1>4, <2>2, <2>4, <3>2
    <2>5. CASE ~(r.type = q.type /\ r.target = q.target)
      BY <1>4, <2>2, <2>3, <2>5 DEF KnownOK
    <2>6. QED
      BY <2>4, <2>5
  <1>9. ASSUME NEW f \in Handlers PROVE HandlerOK(f)'
    <2> SUFFICES ASSUME h'[f].pc \in Searching, NEW q \in h'[f].links
                 PROVE  /\ \E j \in DOMAIN h'[f].reply : h'[f].reply[j] = q
                        /\ Searched(h'[f], q) => LinkOK(q, WatchOf(q)', h'[f].age, clock)
      BY <1>0 DEF HandlerOK, Searched, LinkOK, Life
    <2>1. /\ q \in h[f].links /\ ~(Searched(h[f], q) /\ CutShort(q, r, q.ttl, h[f].age))
      BY <1>6 DEF LinksLeft
    <2>2. q \in Aliases /\ h[f].age \in {0, 1}
      BY <1>0, <2>1 DEF ProxyInv, HandlerStates, Links, Ages
    <2>3. h[f].pc \in Searching
      BY <1>6 DEF SamePlace, Searching
    <2>4. /\ \E j \in DOMAIN h[f].reply : h[f].reply[j] = q
          /\ Searched(h[f], q) => LinkOK(q, WatchOf(q), h[f].age, clock)
      BY <1>0, <2>1, <2>3 DEF Outlived, HandlerOK
    <2>5. ASSUME Searched(h'[f], q) PROVE Searched(h[f], q) \/ q = r
      BY <1>6, <1>7, <2>5 DEF Searched, SamePlace
    <2>6. ASSUME Searched(h'[f], q) PROVE LinkOK(q, WatchOf(q)', h[f].age, clock)
      <3>1. CASE r.type = q.type /\ r.target = q.target
        <4>1. q.ttl \in Nat
          BY <1>0, <2>2, NumberFacts
        <4>2. q.ttl <= r.ttl + h[f].age
          <5>1. CASE q = r
            BY <1>2, <2>2, <5>1
          <5>2. CASE Searched(h[f], q)
            BY <1>2, <2>1, <2>2, <3>1, <4>1, <5>2 DEF CutShort
          <5>3. QED
            BY <2>5, <2>6, <5>1, <5>2
        <4>3. q.ttl + 1 - h[f].age <= Life(New, clock)
          BY <1>2, <1>3, <2>2, <4>1, <4>2
        <4>4. WatchOf(q)' = New
          BY <1>4, <2>2, <3>1
        <4>5. QED
          BY <1>3, <4>3, <4>4 DEF LinkOK
      <3>2. CASE ~(r.type = q.type /\ r.target = q.target)
        <4>1. WatchOf(q)' = WatchOf(q) /\ Searched(h[f], q)
          BY <1>4, <2>2, <2>5, <2>6, <3>2
        <4>2. QED
          BY <2>4, <4>1
      <3>3. QED
        BY <3>1, <3>2
    <2>7. QED
      BY <1>6, <2>4, <2>6
  <1>10. QED
    BY <1>8, <1>9 DEF Outlived

(* A report is sent, or is behind the handler. *)
LEMMA ReportOutlived ==
  ASSUME AddressInv, NEW g \in Handlers, NEW i, SendReport(g, i) \/ ReportDone(g, i)
  PROVE  HandlerOK(g)'
  <1>0. ProxyInv /\ h \in [Handlers -> HandlerStates] /\ h[g] \in HandlerStates /\ SearchOK(h[g])
    BY DEF AddressInv, ProxyInv
  <1>1. /\ h[g].pc \in Searching /\ IsAt(h[g], i) /\ UNCHANGED <<c, d, clock>>
        /\ h[g].reply[i].type = "A"
    BY <1>0, AdvanceStep DEF SendReport, ReportDone, Searching
  <1>2. /\ h'[g].reply = h[g].reply /\ h'[g].links = h[g].links /\ h'[g].age = h[g].age
        /\ h'[g].left \in {h[g].left, h[g].left \ {i}}
    <2>1. CASE SendReport(g, i)
      BY <1>0, <2>1 DEF SendReport, HandlerStates
    <2>2. CASE ReportDone(g, i)
      <3>1. h' = [h EXCEPT ![g] = Advance(h[g], i)]
        BY <1>0, <2>2, AdvanceStep
      <3> DEFINE z == Advance(h[g], i)
      <3>2. z.reply = h[g].reply /\ z.links = h[g].links /\ z.age = h[g].age
            /\ z.left = h[g].left \ {i}
        BY <1>0, <1>1, AdvanceFacts
      <3> HIDE DEF z
      <3>3. h'[g] = z
        BY <1>0, <3>1 DEF z
      <3>4. QED
        BY <3>2, <3>3
    <2>3. QED
      BY <2>1, <2>2
  <1>3. ASSUME NEW r \in h[g].links PROVE r # h[g].reply[i]
    <2>1. r \in Aliases
      BY <1>0 DEF HandlerStates, Links
    <2>2. QED
      BY <1>1, <2>1, RecordFacts
  <1>4. \A r \in h'[g].links : Searched(h'[g], r) => Searched(h[g], r)
    BY <1>2, <1>3 DEF Searched
  <1>5. QED
    BY <1>1, <1>2, <1>4, GoesOn

(* A reply comes: nothing of it is searched yet. *)
LEMMA ExchangeOutlived ==
  ASSUME AddressInv, NEW g \in Handlers, NEW s \in Replies, Exchange(g, s)
  PROVE  HandlerOK(g)'
  <1>0. h \in [Handlers -> HandlerStates] /\ h[g] \in HandlerStates
    BY DEF AddressInv, ProxyInv
  <1> DEFINE l == IF h[g].fresh THEN {r \in Aliases : \E i \in DOMAIN s : s[i] = r} ELSE {}
             p == DOMAIN s
             y == [h[g] EXCEPT !.pc = "scan", !.reply = s, !.left = p, !.links = l]
  <1>1. h' = [h EXCEPT ![g] = y]
    BY DEF Exchange
  <1>2. p = DOMAIN s /\ \A r \in l : \E i \in DOMAIN s : s[i] = r
    OBVIOUS
  <1> HIDE DEF l, p
  <1>3. y.reply = s /\ y.left = p /\ y.links = l
    BY <1>0 DEF HandlerStates
  <1> HIDE DEF y
  <1>4. h'[g] = y
    BY <1>0, <1>1
  <1>5. QED
    BY <1>2, <1>3, <1>4 DEF HandlerOK, Searched

(* The reply is forwarded: all of it was searched, and the watches of its  *)
(* aliases are good for their TTLs from now on.                            *)
LEMMA WriteOutlived ==
  ASSUME AddressInv, NEW g \in Handlers, WriteMsg(g), NEW r \in Aliases
  PROVE  KnownOK(r)'
  <1>0. ProxyInv /\ Outlived /\ Interval \in Nat /\ MaxTTL \in Nat
    BY ConstFacts DEF AddressInv
  <1>1. /\ h[g].pc = "scan" /\ h[g].left = {} /\ UNCHANGED <<c, d, clock>>
        /\ known'[r] = IF r \in h[g].links THEN Larger(known[r], r.ttl) ELSE known[r]
    BY DEF WriteMsg
  <1>2. /\ r.ttl \in Nat /\ known[r] \in Nat /\ clock \in 0 .. Interval
        /\ WatchOf(r).ttl \in Nat /\ h[g].age \in {0, 1}
    BY <1>0, NumberFacts DEF Ages
  <1>3. Life(WatchOf(r), clock) \in Int
    BY <1>0, <1>2 DEF Life
  <1>4. KnownOK(r)
    BY <1>0 DEF Outlived
  <1>5. ASSUME r \in h[g].links
        PROVE  WatchOf(r).there /\ r.ttl <= Life(WatchOf(r), clock)
    <2>1. HandlerOK(g) /\ h[g].pc \in Searching
      BY <1>0, <1>1 DEF Outlived, Searching
    <2>2. Searched(h[g], r)
      BY <1>1, <1>5, <2>1 DEF HandlerOK, Searched
    <2>3. WatchOf(r).there /\ r.ttl + 1 - h[g].age <= Life(WatchOf(r), clock)
      BY <1>5, <2>1, <2>2 DEF HandlerOK, LinkOK
    <2>4. QED
      BY <1>2, <1>3, <2>3
  <1>6. known'[r] > 0 => WatchOf(r).there /\ known'[r] <= Life(WatchOf(r), clock)
    BY <1>1, <1>2, <1>3, <1>4, <1>5 DEF KnownOK, Larger
  <1>7. WatchOf(r)' = WatchOf(r) /\ clock' = clock
    BY <1>1 DEF WatchOf
  <1>8. QED
    BY <1>6, <1>7 DEF KnownOK, Life

(* The watches are cleaned: those that are needed stay. *)
LEMMA CleanOutlived ==
  ASSUME AddressInv, CleanTempWatches
  PROVE  Outlived'
  <1>0. /\ ProxyInv /\ Outlived /\ EntriesOK(c) /\ EntriesOK(d)
        /\ Interval \in Nat /\ Interval >= 2
    BY ConstFacts DEF AddressInv, ProxyInv
  <1>1. /\ clock = Interval /\ clock' = 0 /\ c' = CleanTemp(c) /\ d' = CleanTemp(d)
        /\ UNCHANGED <<h, known>>
    BY DEF CleanTempWatches
  <1>2. ASSUME NEW r \in Aliases, WatchOf(r).updated \/ WatchOf(r).ttl >= Interval
        PROVE  WatchOf(r)'.there = WatchOf(r).there
               /\ Life(WatchOf(r)', 0) = Life(WatchOf(r), Interval)
    <2>1. r.target \in Names
      BY RecordFacts
    <2>2. CASE r.type = "CNAME"
      BY <1>0, <1>1, <1>2, <2>1, <2>2, CleanTempFacts DEF WatchOf
    <2>3. CASE r.type # "CNAME"
      BY <1>0, <1>1, <1>2, <2>1, <2>3, CleanTempFacts DEF WatchOf
    <2>4. QED
      BY <2>2, <2>3
  <1>3. ASSUME NEW r \in Aliases PROVE KnownOK(r)'
    <2> SUFFICES ASSUME known[r] > 0
                 PROVE  WatchOf(r)'.there /\ known[r] <= Life(WatchOf(r)', 0)
      BY <1>1 DEF KnownOK, Life
    <2>1. WatchOf(r).there /\ known[r] <= Life(WatchOf(r), Interval)
      BY <1>0, <1>1 DEF Outlived, KnownOK
    <2>2. known[r] \in Nat /\ WatchOf(r).ttl \in Nat
      BY <1>0, NumberFacts
    <2>3. WatchOf(r).updated \/ WatchOf(r).ttl >= Interval
      BY <1>0, <2>1, <2>2 DEF Life
    <2>4. QED
      BY <1>2, <2>1, <2>3
  <1>4. ASSUME NEW g \in Handlers PROVE HandlerOK(g)'
    <2> SUFFICES ASSUME h[g].pc \in Searching, NEW r \in h[g].links
                 PROVE  /\ \E j \in DOMAIN h[g].reply : h[g].reply[j] = r
                        /\ Searched(h[g], r) => LinkOK(r, WatchOf(r)', h[g].age, 0)
      BY <1>1 DEF HandlerOK, Searched, LinkOK, Life
    <2>1. /\ \E j \in DOMAIN h[g].reply : h[g].reply[j] = r
          /\ Searched(h[g], r) => LinkOK(r, WatchOf(r), h[g].age, Interval)
      BY <1>0, <1>1 DEF Outlived, HandlerOK
    <2>2. r \in Aliases /\ h[g].age \in {0, 1}
      BY <1>0 DEF ProxyInv, HandlerStates, Links, Ages
    <2>3. ASSUME Searched(h[g], r) PROVE LinkOK(r, WatchOf(r)', h[g].age, 0)
      <3>1. WatchOf(r).there /\ r.ttl + 1 - h[g].age <= Life(WatchOf(r), Interval)
            /\ (WatchOf(r).updated \/ Interval <= h[g].age)
        BY <2>1, <2>3 DEF LinkOK
      <3>2. WatchOf(r).updated
        BY <1>0, <2>2, <3>1
      <3>3. 0 <= h[g].age
        BY <2>2
      <3>4. QED
        BY <1>2, <2>2, <3>1, <3>2, <3>3 DEF LinkOK
    <2>4. QED
      BY <2>1, <2>3
  <1>5. QED
    BY <1>3, <1>4 DEF Outlived

(* Time goes by for the records the host has as for the watches. *)
LEMMA TickOutlived ==
  ASSUME AddressInv, Tick
  PROVE  Outlived'
  <1>0. ProxyInv /\ Outlived /\ Interval \in Nat /\ MaxTTL \in Nat
    BY ConstFacts DEF AddressInv
  <1>1. /\ clock' = IF clock < Interval THEN clock + 1 ELSE clock
        /\ known' = [r \in Aliases |-> IF known[r] > 0 THEN known[r] - 1 ELSE 0]
        /\ UNCHANGED <<c, d>>
    BY DEF Tick
  <1>2. \A r : WatchOf(r)' = WatchOf(r)
    BY <1>1 DEF WatchOf
  <1>3. clock \in 0 .. Interval /\ clock' \in {clock, clock + 1}
    BY <1>0, <1>1 DEF ProxyInv
  <1>4. ASSUME NEW r \in Aliases
        PROVE  /\ Life(WatchOf(r), clock) \in Int
               /\ Life(WatchOf(r), clock') \in {Life(WatchOf(r), clock),
                                                Life(WatchOf(r), clock) - 1}
    <2>1. WatchOf(r).ttl \in Nat
      BY <1>0, NumberFacts
    <2>2. CASE WatchOf(r).updated
      BY <1>0, <1>3, <2>1, <2>2 DEF Life
    <2>3. CASE ~WatchOf(r).updated
      BY <1>0, <1>3, <2>1, <2>3 DEF Life
    <2>4. QED
      BY <2>2, <2>3
  <1>5. ASSUME NEW r \in Aliases PROVE KnownOK(r)'
    <2> SUFFICES ASSUME known'[r] > 0
                 PROVE  WatchOf(r).there /\ known'[r] <= Life(WatchOf(r), clock')
      BY <1>2 DEF KnownOK, Life
    <2>1. known[r] \in Nat /\ known'[r] = IF known[r] > 0 THEN known[r] - 1 ELSE 0
      BY <1>0, <1>1, NumberFacts
    <2>2. known[r] > 0 /\ KnownOK(r)
      BY <1>0, <2>1 DEF Outlived
    <2>3. QED
      BY <1>4, <2>1, <2>2 DEF KnownOK
  <1>6. ASSUME NEW g \in Handlers PROVE HandlerOK(g)'
    <2>1. /\ SamePlace(h[g], h'[g])
          /\ \/ h'[g].links = {}
             \/ h'[g].links = h[g].links /\ h[g].age = 0 /\ h'[g].age = 1
      BY <1>0, AllHandlers
    <2> SUFFICES ASSUME h'[g].pc \in Searching, NEW r \in h'[g].links
                 PROVE  /\ \E j \in DOMAIN h'[g].reply : h'[g].reply[j] = r
                        /\ Searched(h'[g], r) => LinkOK(r, WatchOf(r), h'[g].age, clock')
      BY <1>2 DEF HandlerOK, Searched, LinkOK, Life
    <2>2. /\ r \in h[g].links /\ h[g].age = 0 /\ h'[g].age = 1
          /\ h[g].pc \in Searching /\ h'[g].reply = h[g].reply /\ h'[g].left = h[g].left
      BY <2>1 DEF SamePlace
    <2>3. /\ \E j \in DOMAIN h[g].reply : h[g].reply[j] = r
          /\ Searched(h[g], r) => LinkOK(r, WatchOf(r), 0, clock)
      BY <1>0, <2>2 DEF Outlived, HandlerOK
    <2>4. r \in Aliases
      BY <1>0, <2>2 DEF ProxyInv, HandlerStates, Links
    <2>5. ASSUME Searched(h'[g], r) PROVE LinkOK(r, WatchOf(r), 1, clock')
      <3>1. Searched(h[g], r)
        BY <2>2, <2>5 DEF Searched
      <3>2. /\ WatchOf(r).there /\ r.ttl + 1 - 0 <= Life(WatchOf(r), clock)
            /\ WatchOf(r).updated \/ clock <= 0
        BY <2>3, <3>1 DEF LinkOK
      <3>3. r.ttl \in Nat
        BY <1>0, <2>4, NumberFacts
      <3>4. r.ttl + 1 - 1 <= Life(WatchOf(r), clock')
        BY <1>4, <2>4, <3>2, <3>3
      <3>5. WatchOf(r).updated \/ clock' <= 1
        BY <1>3, <3>2
      <3>6. QED
        BY <3>2, <3>4, <3>5 DEF LinkOK
    <2>6. QED
      BY <2>2, <2>3, <2>5
  <1>7. QED
    BY <1>5, <1>6 DEF Outlived

(* Every step keeps the watches as long as they are needed. *)
LEMMA AddressNextInv ==
  ASSUME InOrder, AddressInv, [ProxyNext]_proxyVars
  PROVE  AddressInv'
  <1>0. ProxyInv /\ Outlived
    BY DEF AddressInv
  <1>1. ProxyInv'
    BY <1>0, ProxyNextInv
  <1>2. CASE CleanTempWatches
    BY <1>1, <1>2, CleanOutlived DEF AddressInv
  <1>3. CASE Tick
    BY <1>1, <1>3, TickOutlived DEF AddressInv
  <1>4. CASE WatchesFlush
    <2>1. known' = NoTime
      BY <1>4 DEF WatchesFlush, Restarted
    <2>2. \A g \in Handlers : h'[g].links = {}
      BY <1>0, <1>4, AllHandlers
    <2>3. \A r \in Aliases : KnownOK(r)'
      BY <2>1 DEF KnownOK, NoTime
    <2>4. QED
      BY <1>1, <2>2, <2>3 DEF AddressInv, Outlived, HandlerOK
  <1>5. ASSUME NEW g \in Handlers, HandleRequest(g) PROVE Outlived'
    <2>0. h \in [Handlers -> HandlerStates] /\ h[g] \in HandlerStates
      BY <1>0 DEF ProxyInv
    <2>1. ASSUME NEW i, AddWatch(g, i) PROVE Outlived'
      BY <2>1, AddWatchOutlived
    <2>2. CASE ~\E i \in h[g].left : AddWatch(g, i)
      <3>1. UNCHANGED <<c, d, clock>>
        BY <1>5, <2>2 DEF HandleRequest, Request, Exchange, ExchangeFails, Check, SendReport,
                          ReportDone, WriteMsg
      <3>2. \A r \in Aliases : KnownOK(r)'
        <4>1. CASE WriteMsg(g)
          BY <4>1, WriteOutlived
        <4>2. CASE ~WriteMsg(g)
          <5>1. known' = known
            BY <1>5, <2>2, <4>2 DEF HandleRequest, Request, Exchange, ExchangeFails, Check,
                                    SendReport, ReportDone
          <5>2. QED
            BY <3>1, <5>1, KnownKept
        <4>3. QED
          BY <4>1, <4>2
      <3>3. ASSUME NEW f \in Handlers, f # g PROVE HandlerOK(f)'
        <4>1. h'[f] = h[f]
          BY <1>5, <2>0, <2>2, <3>3
          DEF HandleRequest, Request, Exchange, ExchangeFails, Check, SendReport, ReportDone,
              WriteMsg
        <4>2. QED
          BY <3>1, <4>1, HandlerKept
      <3>4. HandlerOK(g)'
        <4>1. CASE Request(g)
          <5>1. h'[g].pc = "exchange"
            BY <2>0, <4>1 DEF Request, HandlerStates
          <5>2. QED
            BY <5>1 DEF HandlerOK, Searching
        <4>2. CASE ExchangeFails(g) \/ WriteMsg(g)
          <5>1. h'[g].pc = "idle"
            BY <2>0, <4>2 DEF ExchangeFails, WriteMsg, Idle
          <5>2. QED
            BY <5>1 DEF HandlerOK, Searching
        <4>3. QED
          BY <1>5, <2>2, <4>1, <4>2, CheckOutlived, ReportOutlived, ExchangeOutlived
          DEF HandleRequest
      <3>5. QED
        BY <3>2, <3>3, <3>4 DEF Outlived
    <2>3. QED
      BY <2>1, <2>2
  <1>6. CASE \/ \E domains \in Confs \cup {{}} : SetRemotes(domains)
             \/ RemotesAdd \/ WatchesSet \/ \E n \in Names : WatchesAdd(n)
             \/ UNCHANGED proxyVars
    <2>1. UNCHANGED <<c, d, clock, known, h>>
      BY <1>6 DEF SetRemotes, RemotesAdd, WatchesSet, WatchesAdd, proxyVars
    <2>2. Outlived'
      BY <2>1, KnownKept, HandlerKept DEF Outlived
    <2>3. QED
      BY <1>1, <2>2 DEF AddressInv
  <1>7. QED
    BY <1>1, <1>2, <1>3, <1>4, <1>5, <1>6 DEF ProxyNext, AddressInv

(* The temporary watch of the target of a record stays at least as long as *)
(* the host may use the record, counted from when the host gets it, in     *)
(* every state and for all TTLs, if replies are in order (AddTempCNAME,    *)
(* AddTempDNAME, cleanTemp, handleRequest).  The exceptions are those      *)
(* NoAddressMissed names.                                                  *)
THEOREM AddressInvariance ==
  ASSUME InOrder
  PROVE  ProxySpec => []AddressInv
  <1>1. ProxyInit => AddressInv
    <2> SUFFICES ASSUME ProxyInit PROVE AddressInv
      OBVIOUS
    <2>1. ProxyInv
      BY ProxyInitInv
    <2>2. \A r \in Aliases : KnownOK(r)
      BY DEF ProxyInit, NoTime, KnownOK
    <2>3. \A g \in Handlers : HandlerOK(g)
      BY DEF ProxyInit, Idle, HandlerOK
    <2>4. QED
      BY <2>1, <2>2, <2>3 DEF AddressInv, Outlived
  <1>2. AddressInv /\ [ProxyNext]_proxyVars => AddressInv'
    BY AddressNextInv
  <1>3. QED
    BY <1>1, <1>2, PTL DEF ProxySpec

(* Then no address is missed, for all names, TTLs and configurations and   *)
(* any number of handlers (handleRequest, Contains).                       *)
THEOREM AddressesAreNotMissed ==
  ASSUME InOrder
  PROVE  ProxySpec => []NoAddressMissed
  <1>1. AddressInv => NoAddressMissed
    <2> SUFFICES ASSUME AddressInv, NEW g \in Handlers, NEW i \in h[g].left,
                        h[g].pc = "scan", IsAt(h[g], i),
                        IsLinked(h[g].reply[i].name, Usable(g))
                 PROVE  Contains(h[g].reply[i].name)
      BY DEF NoAddressMissed
    <2>1. QED
      BY NothingLater, LinkedIsWatched DEF AddressInv
  <1>2. QED
    BY <1>1, AddressInvariance, PTL

=============================================================================
