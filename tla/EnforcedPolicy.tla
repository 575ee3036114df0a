--------------------------- MODULE EnforcedPolicy ---------------------------
(***************************************************************************)
(* What the packet filter promises, in terms of packets.  A policy is in   *)
(* force as a whole or not at all: the gate and the marking change         *)
(* together, in one step, from whatever was enforced to exactly what the   *)
(* requested policy means; so does the masquerading.  Others may only take *)
(* away from what is enforced.                                             *)
(*                                                                         *)
(* The meaning of a policy is stated here from the configuration's         *)
(* vocabulary, without rules, tables or sets.                              *)
(***************************************************************************)
EXTENDS Naturals

CONSTANTS Addresses, Interfaces, Protocols, Ports

VARIABLES
  dropped,     \* the forwarded packets that are dropped
  marked,      \* the packets of the host that are marked for the proxy tunnel
  masqueraded, \* the packets that leave with the host's own address
  requested,   \* the policy the store was last called with
  outside      \* how often others have changed the tables

enforcedVars == <<dropped, marked, masqueraded, requested, outside>>

(* A forwarded packet by where it comes from and goes to, a packet the     *)
(* host sends, and a packet that leaves through an interface.              *)
ForwardPackets ==
  [family: {"ipv4", "ipv6"}, source: {"tailnet", "other"}, destination: {"tailnet", "other"}]

OutputPackets == [address: Addresses, protocol: {"tcp", "udp"}, port: Ports \cup {53}]

PostroutingPackets ==
  [source: {"tailnet", "other"}, address: Addresses, interface: Interfaces,
   protocol: {"tcp", "udp"}, port: Ports \cup {53}]

(* A closed gate lets nothing from or to the Tailnet through.              *)
ToDrop(policy) ==
  {p \in ForwardPackets : policy.closed /\ "tailnet" \in {p.source, p.destination}}

ToMark(policy) ==
  {p \in OutputPackets : p.address \in policy.local /\ p.protocol \in Protocols /\ p.port \in Ports}

(* DNS questions of the Tailnet to a name server that is reached through   *)
(* the interface.                                                          *)
ToMasquerade(policy) ==
  {p \in PostroutingPackets :
     /\ p.source = "tailnet" /\ p.port = 53
     /\ \E t \in policy.dns : t.address = p.address /\ t.interface = p.interface}

Init ==
  /\ dropped = {} /\ marked = {} /\ masqueraded = {}
  /\ outside = 0

Ask == requested' # requested /\ UNCHANGED <<dropped, marked, masqueraded, outside>>

Enforce ==
  /\ \/ dropped' = ToDrop(requested) /\ marked' = ToMark(requested)
     \/ UNCHANGED <<dropped, marked>>
  /\ \/ masqueraded' = ToMasquerade(requested)
     \/ UNCHANGED masqueraded
  /\ UNCHANGED <<requested, outside>>

Outside ==
  /\ outside' = outside + 1 /\ UNCHANGED requested
  /\ dropped' \subseteq dropped /\ marked' \subseteq marked /\ masqueraded' \subseteq masqueraded

Spec == Init /\ [][Ask \/ Enforce \/ Outside]_enforcedVars
=============================================================================
