---------------------------- MODULE PacketFilter ----------------------------
(***************************************************************************)
(* The packet filter: policies and their revisions                         *)
(* (internal/domain/packetfilter.go), the rules they become                *)
(* (internal/adapter/nftables/rules_linux.go), and the store that reads,   *)
(* replaces and re-reads the two managed tables (store_linux.go) as        *)
(* reconcilePacketFilter and observePacketFilter call it.                  *)
(*                                                                         *)
(* A table is a set of at most one record.  One step is one exchange with  *)
(* the kernel: a listing of tables and chains, the rules and sets of one   *)
(* table, or the commit.  Between two steps others may delete a table,     *)
(* empty a chain, drop the ownership metadata or create a table of that    *)
(* name.  A digest is the data it is computed from.                        *)
(***************************************************************************)
EXTENDS Integers, FiniteSets

CONSTANTS
  Addresses,       \* the addresses packets are sent to
  IPv4Addresses,   \* those of them that are IPv4
  ValidAddresses,  \* neither unspecified nor multicast
  Interfaces,
  Protocols, Ports, \* of the local-egress configuration
  MaxInterference, \* bound on what others do to the tables
  MaxFilterErrors  \* bound on netlink errors

ASSUME PacketFilterAssumption ==
  /\ IPv4Addresses \subseteq Addresses /\ ValidAddresses \subseteq Addresses
  /\ Protocols \subseteq {"tcp", "udp"} /\ Protocols # {}
  /\ Ports \subseteq Nat /\ Ports # {}
  /\ MaxInterference \in Nat /\ MaxFilterErrors \in Nat

VARIABLES
  filter, nat,    \* the tables with the two managed names
  call,           \* where the store is
  request,        \* the policy it is called with
  verifying,      \* an observation is final: it is not followed by Apply
  listed,         \* the tables of the last listing
  observation,    \* the tables found to agree with the request
  result,         \* what the last call returned
  interference, filterErrors,
  calm            \* history: nothing was done to the tables since the listing

tables == <<filter, nat>>
storeVars == <<call, request, verifying, listed, observation, result>>
filterVars == <<tables, storeVars, interference, filterErrors, calm>>

-----------------------------------------------------------------------------
(* Policies.  local: the addresses to mark, none when local egress is off. *)

Families == {"ipv4", "ipv6"}

Family(a) == IF a \in IPv4Addresses THEN "ipv4" ELSE "ipv6"

Targets == [address: Addresses, interface: Interfaces]

Policy(closed, local, dns) == [closed |-> closed, local |-> local, dns |-> dns]

PolicySet == [closed: BOOLEAN, local: SUBSET Addresses, dns: SUBSET Targets]

safetyPacketFilterPolicy == Policy(TRUE, {}, {})

packetFilterPolicy(dns, local, closed) == Policy(closed, local, dns)

Validate(p) ==
  /\ p.local \subseteq ValidAddresses
  /\ \A t \in p.dns : t.address \in ValidAddresses
  /\ \A t, u \in p.dns : t.address = u.address => t = u

FilterRevision(p) == <<p.closed, p.local>>

NATRevision(p) == p.dns

-----------------------------------------------------------------------------
(* The rules of a policy and what they do to packets.                      *)

filterSetSpecs(p) == p.local

forwardRuleSpecs(p) ==
  IF p.closed THEN [family: Families, side: {"source", "destination"}] ELSE {}

localRuleSpecs(p) ==
  [family: {Family(a) : a \in p.local}, protocol: Protocols, port: Ports]

natRuleSpecs(p) == [target: p.dns, protocol: {"tcp", "udp"}]

addFilterTable(p) ==
  [metadata |-> {FilterRevision(p)}, extra |-> FALSE, forward |-> forwardRuleSpecs(p),
   local |-> localRuleSpecs(p), addresses |-> filterSetSpecs(p)]

addNATTable(p) ==
  [metadata |-> {NATRevision(p)}, extra |-> FALSE, masquerade |-> natRuleSpecs(p)]

(* When a rule matches a packet.                                           *)

prefixVerdictExpressions(rule, p) ==
  p.family = rule.family /\ (IF rule.side = "source" THEN p.source ELSE p.destination) = "tailnet"

localEgressExpressions(rule, set, p) ==
  /\ Family(p.address) = rule.family /\ p.address \in set
  /\ p.protocol = rule.protocol /\ p.port = rule.port

(* The source prefix is the Tailnet's of the target's family.              *)
dnsMasqueradeExpressions(rule, p) ==
  /\ p.source = "tailnet" /\ p.address = rule.target.address
  /\ p.interface = rule.target.interface
  /\ p.protocol = rule.protocol /\ p.port = 53

-----------------------------------------------------------------------------
(* What the tables do to packets.                                          *)

ForwardPackets ==
  [family: Families, source: {"tailnet", "other"}, destination: {"tailnet", "other"}]

OutputPackets == [address: Addresses, protocol: {"tcp", "udp"}, port: Ports \cup {53}]

PostroutingPackets ==
  [source: {"tailnet", "other"}, address: Addresses, interface: Interfaces,
   protocol: {"tcp", "udp"}, port: Ports \cup {53}]

Dropped(t) ==
  {p \in ForwardPackets : \E table \in t : \E rule \in table.forward :
     prefixVerdictExpressions(rule, p)}

Marked(t) ==
  {p \in OutputPackets : \E table \in t : \E rule \in table.local :
     localEgressExpressions(rule, table.addresses, p)}

Masqueraded(t) ==
  {p \in PostroutingPackets : \E table \in t : \E rule \in table.masquerade :
     dnsMasqueradeExpressions(rule, p)}

Enforced ==
  INSTANCE EnforcedPolicy
    WITH dropped <- Dropped(filter), marked <- Marked(filter), masqueraded <- Masqueraded(nat),
         requested <- request, outside <- interference

-----------------------------------------------------------------------------
(* Interference.  A foreign table has no ownership metadata.               *)

ForeignFilter == [metadata |-> {}, extra |-> TRUE, forward |-> {}, local |-> {}, addresses |-> {}]

ForeignNAT == [metadata |-> {}, extra |-> TRUE, masquerade |-> {}]

NoTables == [filter |-> {}, nat |-> {}]

FilterInit ==
  /\ filter \in {{}, {ForeignFilter}} /\ nat = {}
  /\ call = "idle" /\ request = safetyPacketFilterPolicy /\ verifying = FALSE
  /\ listed = NoTables /\ observation = {} /\ result = "none"
  /\ interference = 0 /\ filterErrors = 0
  /\ calm = FALSE

Interfere ==
  /\ interference < MaxInterference /\ interference' = interference + 1
  /\ calm' = FALSE
  /\ \/ /\ filter' \in {{}}
             \cup {{[t EXCEPT !.forward = {}]} : t \in filter}
             \cup {{[t EXCEPT !.local = {}]} : t \in filter}
             \cup {{[t EXCEPT !.extra = TRUE]} : t \in filter}
             \cup {{[t EXCEPT !.metadata = {}]} : t \in filter}
             \cup (IF filter = {} THEN {{ForeignFilter}} ELSE {})
        /\ UNCHANGED nat
     \/ /\ nat' \in {{}}
             \cup {{[t EXCEPT !.masquerade = {}]} : t \in nat}
             \cup (IF nat = {} THEN {{ForeignNAT}} ELSE {})
        /\ UNCHANGED filter
  /\ tables' # tables
  /\ UNCHANGED <<storeVars, filterErrors>>

-----------------------------------------------------------------------------
(* The store.                                                              *)

Return(r) ==
  /\ call' = "idle" /\ result' = r
  /\ listed' = NoTables /\ observation' = {}
  /\ UNCHANGED <<request, verifying>>

(* observePacketFilter (final) or reconcilePacketFilter with a policy; one *)
(* that does not validate is refused before anything is read.              *)
Request(p, final) ==
  /\ call = "idle"
  /\ request' = p /\ verifying' = final
  /\ call' = IF Validate(p) THEN "list" ELSE "idle"
  /\ result' = IF Validate(p) THEN "none" ELSE "error"
  /\ observation' = {}
  /\ UNCHANGED <<tables, listed, interference, filterErrors, calm>>

ListTables ==
  /\ call = "list" /\ call' = "filter"
  /\ listed' = [filter |-> filter, nat |-> nat]
  /\ calm' = TRUE /\ observation' = {}
  /\ UNCHANGED <<tables, request, verifying, result, interference, filterErrors>>

NeverConflicts(was, is) == FALSE

(* ownershipRevision reads the metadata of a table that was listed: it is  *)
(* an error when the metadata chain was not listed or its rule is gone.    *)
OwnershipConflict(was, is) ==
  was # {} /\ ~\E t \in was : t.metadata # {} /\ \E u \in is : u.metadata # {}

IgnoringForward(was, is, p) ==
  \E t \in was : \E u \in is :
    /\ ~t.extra /\ u.metadata = {FilterRevision(p)} /\ u.addresses = filterSetSpecs(p)
    /\ u.local = localRuleSpecs(p)

(* The chains are those of the listing; sets and rules are read now.       *)
validateFilterTable(was, is, p) ==
  \E t \in was : \E u \in is :
    /\ ~t.extra /\ u.metadata = {FilterRevision(p)} /\ u.addresses = filterSetSpecs(p)
    /\ u.forward = forwardRuleSpecs(p) /\ u.local = localRuleSpecs(p)

validateNATTable(was, is, p) ==
  \E t \in was : \E u \in is :
    ~t.extra /\ u.metadata = {NATRevision(p)} /\ u.masquerade = natRuleSpecs(p)

ReadFilter ==
  /\ call = "filter"
  /\ \/ OwnershipConflict(listed.filter, filter) /\ Return("error")
     \/ /\ ~OwnershipConflict(listed.filter, filter)
        /\ call' = "nat"
        /\ observation' = {t \in {"filter"} : validateFilterTable(listed.filter, filter, request)}
        /\ UNCHANGED <<request, verifying, listed, result>>
  /\ UNCHANGED <<tables, interference, filterErrors, calm>>

NATMustExist(p) == validateNATTable(listed.nat, nat, p)

(* Without targets the NAT table must not exist.                           *)
NATMatches(p) ==
  IF p.dns = {} THEN listed.nat = {} ELSE validateNATTable(listed.nat, nat, p)

(* The end of Observe: reconcilePacketFilter is done when both tables      *)
(* match, applies when it has not yet, and otherwise did not converge.     *)
ReadNAT ==
  /\ call = "nat"
  /\ \/ OwnershipConflict(listed.nat, nat) /\ Return("error")
     \/ /\ ~OwnershipConflict(listed.nat, nat)
        /\ LET matches == observation \cup {t \in {"nat"} : NATMatches(request)}
           IN  \/ matches = {"filter", "nat"} /\ Return("match")
               \/ matches # {"filter", "nat"} /\ verifying /\ Return("drift")
               \/ /\ matches # {"filter", "nat"} /\ ~verifying
                  /\ call' = "relist" /\ observation' = matches
                  /\ UNCHANGED <<request, verifying, listed, result>>
  /\ UNCHANGED <<tables, interference, filterErrors, calm>>

(* Apply lists again...                                                    *)
RelistTables ==
  /\ call = "relist" /\ call' = "own"
  /\ listed' = [filter |-> filter, nat |-> nat]
  /\ UNCHANGED <<tables, request, verifying, observation, result, interference, filterErrors,
                 calm>>

Changed(name) == name \notin observation

(* ... and checks that it owns what it is about to replace.                *)
CheckOwnership ==
  /\ call = "own"
  /\ LET conflict == \/ Changed("filter") /\ OwnershipConflict(listed.filter, filter)
                     \/ Changed("nat") /\ OwnershipConflict(listed.nat, nat)
     IN  \/ conflict /\ Return("error")
         \/ /\ ~conflict /\ call' = "flush"
            /\ UNCHANGED <<request, verifying, listed, observation, result>>
  /\ UNCHANGED <<tables, interference, filterErrors, calm>>

(* A table that was listed is deleted first; if it is gone, the whole      *)
(* transaction is refused.  One that was not listed but exists by now is   *)
(* added to.                                                               *)
Merged(new, is) == {[new EXCEPT !.extra = \E t \in is : t.extra]}

Flushed(was, is, new) == IF was # {} \/ is = {} THEN {new} ELSE Merged(new, is)

FlushRefused ==
  \/ Changed("filter") /\ listed.filter # {} /\ filter = {}
  \/ Changed("nat") /\ listed.nat # {} /\ nat = {}

AddThenDelete ==
  /\ filter' = IF Changed("filter") /\ listed.filter # {} THEN {} ELSE {addFilterTable(request)}
  /\ nat' = IF Changed("nat") /\ listed.nat # {} THEN {} ELSE {addNATTable(request)}

Commit ==
  /\ filter' = IF Changed("filter")
               THEN Flushed(listed.filter, filter, addFilterTable(request)) ELSE filter
  /\ nat' = IF ~Changed("nat") THEN nat
            ELSE IF request.dns # {} THEN Flushed(listed.nat, nat, addNATTable(request))
            ELSE IF listed.nat # {} THEN {} ELSE nat

FilterError == filterErrors < MaxFilterErrors /\ filterErrors' = filterErrors + 1

(* The commit may take effect although its answer is lost.                 *)
Flush ==
  /\ call = "flush"
  /\ \/ FlushRefused /\ Return("error") /\ UNCHANGED <<tables, filterErrors>>
     \/ ~FlushRefused /\ Commit /\ Return("error") /\ FilterError
     \/ /\ ~FlushRefused /\ Commit
        /\ call' = "list" /\ verifying' = TRUE
        /\ listed' = NoTables /\ observation' = {}
        /\ UNCHANGED <<request, result, filterErrors>>
  /\ UNCHANGED <<interference, calm>>

(* Any exchange may fail: a netlink error, its deadline or the context.    *)
StoreFails ==
  /\ call # "idle" /\ Return("error") /\ FilterError
  /\ UNCHANGED <<tables, interference, calm>>

StoreStep ==
  ListTables \/ ReadFilter \/ ReadNAT \/ RelistTables \/ CheckOwnership \/ Flush \/ StoreFails

(* The caller has used the result, or the process is gone.                 *)
LeaveStore ==
  /\ call' = "idle" /\ request' = safetyPacketFilterPolicy /\ verifying' = FALSE
  /\ listed' = NoTables /\ observation' = {} /\ result' = "none"
  /\ UNCHANGED <<tables, interference, filterErrors, calm>>

StoreNext ==
  \/ \E p \in PolicySet, final \in BOOLEAN : Request(p, final)
  \/ StoreStep \/ Interfere \/ LeaveStore

StoreSpec == FilterInit /\ [][StoreNext]_filterVars

-----------------------------------------------------------------------------
(* Properties.                                                             *)

(* reconcilePacketFilter and observePacketFilter report agreement with a   *)
(* policy only when the tables do to every packet exactly what the policy  *)
(* says, provided nobody touched them since the verifying listing          *)
(* (reconciler.go:615-645, store_linux.go:27-81).                          *)
VerifiedMeansEnforced ==
  result = "match" /\ calm =>
    /\ Dropped(filter) = Enforced!ToDrop(request)
    /\ Marked(filter) = Enforced!ToMark(request)
    /\ Masqueraded(nat) = Enforced!ToMasquerade(request)

(* A table without ownership metadata that stands when Apply lists the     *)
(* tables is never changed or deleted by the store (observeNamedTable,     *)
(* Apply: 109-128).                                                        *)
ForeignTableSurvives ==
  [][interference' = interference =>
       /\ \A t \in filter \cap listed.filter : t.metadata = {} => filter' = filter
       /\ \A t \in nat \cap listed.nat : t.metadata = {} => nat' = nat]_filterVars

(* The store implements the promise of EnforcedPolicy: whatever fails, and *)
(* whoever interferes, a step of the store leaves what is enforced alone   *)
(* or replaces it by what the requested policy means, in one transaction   *)
(* (Apply: 109-138, rules_linux.go).                                       *)
ImplementsEnforcedPolicy == Enforced!Spec
=============================================================================
