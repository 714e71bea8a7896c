----------------------------- MODULE MCDNSProxy -----------------------------
(* Model checking the DNS proxy: a watched domain w that is an alias of    *)
(* the domain e, which has the names o and p, and o is an alias of x.  The *)
(* host may ask for a name of w or e and gets what is in its chain; the    *)
(* TTLs of the answers differ.                                             *)
EXTENDS DNSProxy, TLC

MCNames == {"w", "e", "o", "p", "x"}
MCSuffixes == [n \in MCNames |-> IF n \in {"o", "p"} THEN {n, "e"} ELSE {n}]

Alias(type, n, t, ttl) == [name |-> n, type |-> type, target |-> t, ttl |-> ttl]
Address(n, a) == [name |-> n, type |-> "A", target |-> a, ttl |-> 0]

MCReplies ==
  {<<Alias("DNAME", "w", "e", 3), Alias("CNAME", "o", "x", 0), Address("x", "a")>>,
   <<Alias("DNAME", "w", "e", 1)>>,
   <<Address("p", "a")>>}

(* The replies are as NoAddressMissed needs them. *)
ASSUME MCRepliesAssumption == InOrder

(* Handlers differ in nothing but their name. *)
SymmetricHandlers == Permutations(Handlers)
=============================================================================
