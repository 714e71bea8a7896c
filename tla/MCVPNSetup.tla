----------------------------- MODULE MCVPNSetup -----------------------------
(* Model checking the VPN setup: small networks, and what the              *)
(* documentation says of local networks.                                   *)
EXTENDS VPNSetup

(* Two addresses, alone and in one network. *)
TwoAddrs == {{"a"}, {"b"}, {"a", "b"}}
OneAddr == {{"a"}}
NetA == [addr |-> "a", net |-> {"a", "b"}]
NetB == [addr |-> "b", net |-> {"a", "b"}]

NoPrefix == {}
GatewayPrefix == {Single("a")}

(* A real and a virtual device, the loopback device and the tunnel. *)
Types == [v \in Devs |-> CASE v = "eth" -> "device" [] v = "br" -> "virtual"
                             [] v = "lo" -> "loopback" [] v = "tun" -> "tun"]
Nets == [v \in Devs |-> {NetA, NetB}]
EthBr == [v \in Devs |-> CASE v = "br" -> {NetA} [] v = "eth" -> {Single("b")} [] OTHER -> {}]
OneSingle == [v \in Devs |-> {Single("a")}]

(* docs/development/split-routing.md: network addresses of local networks  *)
(* are added to the exclude lists.  Of two addresses in one network only   *)
(* the first is a static exclude, and it is removed with its address.      *)
LocalsExcluded ==
  (ExcludeLocal /\ spc = "select") =>
    \A p \in locals : \E v \in static : p.net \subseteq v.net

=============================================================================
