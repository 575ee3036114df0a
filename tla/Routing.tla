------------------------------ MODULE Routing ------------------------------
(***************************************************************************)
(* The managed routing state as a value: the builders of                   *)
(* internal/application/routing.go, DiffRouting of                         *)
(* internal/domain/routing.go, and the order in which ApplyRouting of      *)
(* internal/adapter/netlink/netlink_linux.go writes a plan to the kernel.  *)
(*                                                                         *)
(* A routing state is a set of routes and a set of rules.  A blackhole     *)
(* route and a unicast route to one prefix differ in their metric and      *)
(* coexist, the unicast one being preferred.  Each of the two tables has   *)
(* one rule priority, so a rule's identity (family, priority) is           *)
(* (family, table); what it matches is an interface name or the mark.      *)
(***************************************************************************)
EXTENDS Integers, FiniteSets

CONSTANTS
  Subnets,      \* Tailnet.AdvertiseRoutes: IPv4 prefixes
  NameServers,  \* IPv4 name servers that no advertised prefix contains
  LocalEgress   \* PacketFilter.LocalEgress.Enabled

ASSUME ConfigurationAssumption ==
  /\ Subnets \cap NameServers = {}
  /\ ({"default", "tailnet"} \cup {"ipv4", "ipv6"}) \cap (Subnets \cup NameServers) = {}
  /\ LocalEgress \in BOOLEAN

Families == {"ipv4", "ipv6"}

Tables == {"exit", "local"}

(* The zero LinkIdentity, and the link of the pod network.                 *)
NoLink == [index |-> 0, name |-> "none"]

Uplink == [index |-> 1, name |-> "eth0"]

blackholeRoute(family, table, prefix) ==
  [family |-> family, disposition |-> "blackhole", table |-> table,
   prefix |-> prefix, link |-> NoLink]

activeRoute(family, table, prefix, link) ==
  [family |-> family, disposition |-> "unicast", table |-> table,
   prefix |-> prefix, link |-> link]

exitRule(family, name) == [family |-> family, table |-> "exit", match |-> name]

markRule(family) == [family |-> family, table |-> "local", match |-> "mark"]

-----------------------------------------------------------------------------
(* The desired states.                                                     *)

SafetyWithoutMarkRules ==
  [routes |-> {blackholeRoute(f, t, p) : f \in Families, t \in Tables, p \in {"default", "tailnet"}},
   rules  |-> {}]

buildSafetyRouting ==
  [routes |-> {blackholeRoute(f, "exit", p) : f \in Families, p \in {"default", "tailnet"}}
                \cup {blackholeRoute("ipv4", "exit", p) : p \in Subnets}
                \cup (IF LocalEgress THEN {blackholeRoute(f, "local", "default") : f \in Families}
                      ELSE {}),
   rules  |-> IF LocalEgress THEN {markRule(f) : f \in Families} ELSE {}]

buildPreparedRouting(proxyTunnelLink) ==
  IF ~LocalEgress \/ proxyTunnelLink = NoLink
  THEN buildSafetyRouting
  ELSE [buildSafetyRouting EXCEPT
          !.routes = @ \cup {activeRoute(f, "local", "default", proxyTunnelLink) : f \in Families}]

exitRules(tailnetLink) == {exitRule(f, tailnetLink.name) : f \in Families}

FailClosedWithoutSelectors(tailnetLink, proxyTunnelLink) == buildPreparedRouting(proxyTunnelLink)

buildFailClosedRouting(tailnetLink, proxyTunnelLink) ==
  LET prepared == buildPreparedRouting(proxyTunnelLink)
  IN  IF tailnetLink = NoLink THEN prepared
      ELSE [prepared EXCEPT !.rules = @ \cup exitRules(tailnetLink)]

(* snapshot: what Discover and the capability observation returned.        *)
buildDesiredRouting(snapshot) ==
  LET prepared == buildPreparedRouting(snapshot.proxy)
  IN  [routes |-> prepared.routes
         \cup {activeRoute(f, "exit", "default", snapshot.proxy) : f \in snapshot.active}
         \cup {activeRoute(f, "exit", "tailnet", snapshot.tailnet) : f \in Families}
         \cup {activeRoute("ipv4", "exit", p, Uplink) : p \in Subnets \cup NameServers},
       rules |-> prepared.rules \cup exitRules(snapshot.tailnet)]

-----------------------------------------------------------------------------
(* Planning.                                                               *)

(* routeKey and ruleKey: the link, gateway and match are not part of an    *)
(* identity.                                                               *)
SameRoute(a, b) ==
  /\ a.family = b.family /\ a.disposition = b.disposition
  /\ a.table = b.table /\ a.prefix = b.prefix

SameRule(a, b) == a.family = b.family /\ a.table = b.table

(* DiffRouting rejects an observed state that holds one rule identity      *)
(* twice.  The kernel itself keeps route identities unique.                *)
Unambiguous(observed) == \A a, b \in observed.rules : SameRule(a, b) => a = b

NoChanges == [upsertRoutes |-> {}, addRules |-> {}, staleRules |-> {},
              deleteRules |-> {}, deleteRoutes |-> {}]

(* The plan that turns observed into desired.  staleRules is ApplyRouting's *)
(* own: the rules whose replacement has just been added.                   *)
DiffRouting(desired, observed) ==
  [upsertRoutes |-> desired.routes \ observed.routes,
   addRules     |-> desired.rules \ observed.rules,
   staleRules   |-> {},
   deleteRules  |-> observed.rules \ desired.rules,
   deleteRoutes |-> {r \in observed.routes : \A d \in desired.routes : ~SameRoute(r, d)}]

isActiveExitDefaultRoute(route) ==
  route.table = "exit" /\ route.disposition = "unicast" /\ route.prefix = "default"

(* classifyExitDefaultRouteTransition: the plan touches active Exit        *)
(* defaults only, each family once.                                        *)
onlyExitDefaultRoutesChanged(changes) ==
  /\ changes # NoChanges
  /\ changes.addRules = {} /\ changes.deleteRules = {}
  /\ \A r \in changes.upsertRoutes \cup changes.deleteRoutes : isActiveExitDefaultRoute(r)
  /\ \A r \in changes.upsertRoutes, d \in changes.deleteRoutes : r.family # d.family

activationChanges(changes) == [NoChanges EXCEPT !.upsertRoutes = changes.upsertRoutes]

deactivationChanges(changes) == [NoChanges EXCEPT !.deleteRoutes = changes.deleteRoutes]

-----------------------------------------------------------------------------
(* Writing.  ApplyRouting walks each part of a plan in the order of the    *)
(* identity strings: family, then disposition, then table, then prefix.    *)

PrefixRank(prefix) ==
  CASE prefix = "default" -> 0 [] prefix = "tailnet" -> 1 [] OTHER -> 2

Rank(r) ==
  (IF r.family = "ipv6" THEN 100 ELSE 0)
    + (IF "prefix" \in DOMAIN r
       THEN (IF r.disposition = "unicast" THEN 10 ELSE 0) + PrefixRank(r.prefix) ELSE 0)
    + (IF r.table = "local" THEN 5 ELSE 0)

First(S) == CHOOSE r \in S : \A other \in S : Rank(r) <= Rank(other)

(* RouteReplace: one identity holds one route.                             *)
Upsert(rt, r) ==
  [rt EXCEPT !.routes = {x \in @ : ~SameRoute(x, r)} \cup {r}]

(* The kernel and the rest of the plan after the plan's next write: routes *)
(* first, then each rule with the removal of the rule it replaces, then    *)
(* obsolete rules, then obsolete routes.                                   *)
WriteRulesFirst(rt, changes) ==
  CASE changes.addRules # {} ->
         LET r == First(changes.addRules)
         IN  [rt      |-> [rt EXCEPT !.rules = @ \cup {r}],
              changes |-> [changes EXCEPT !.addRules = @ \ {r}]]
    [] changes.addRules = {} /\ changes.upsertRoutes # {} ->
         LET r == First(changes.upsertRoutes)
         IN  [rt      |-> Upsert(rt, r),
              changes |-> [changes EXCEPT !.upsertRoutes = @ \ {r}]]
    [] OTHER -> [rt |-> rt, changes |-> NoChanges]

Write(rt, changes) ==
  CASE changes.upsertRoutes # {} ->
         LET r == First(changes.upsertRoutes)
         IN  [rt      |-> Upsert(rt, r),
              changes |-> [changes EXCEPT !.upsertRoutes = @ \ {r}]]
    [] changes.upsertRoutes = {} /\ changes.staleRules # {} ->
         [rt      |-> [rt EXCEPT !.rules = @ \ changes.staleRules],
          changes |-> [changes EXCEPT !.staleRules = {}]]
    [] changes.upsertRoutes = {} /\ changes.staleRules = {} /\ changes.addRules # {} ->
         LET r     == First(changes.addRules)
             stale == {d \in changes.deleteRules : SameRule(d, r)}
         IN  [rt      |-> [rt EXCEPT !.rules = @ \cup {r}],
              changes |-> [changes EXCEPT !.addRules = @ \ {r}, !.staleRules = stale,
                                          !.deleteRules = @ \ stale]]
    [] changes.upsertRoutes = {} /\ changes.staleRules = {} /\ changes.addRules = {}
         /\ changes.deleteRules # {} ->
         LET r == First(changes.deleteRules)
         IN  [rt      |-> [rt EXCEPT !.rules = {x \in @ : ~SameRule(x, r)}],
              changes |-> [changes EXCEPT !.deleteRules = @ \ {r}]]
    [] OTHER ->
         LET r == First(changes.deleteRoutes)
         IN  [rt      |-> [rt EXCEPT !.routes = {x \in @ : ~SameRoute(x, r)}],
              changes |-> [changes EXCEPT !.deleteRoutes = @ \ {r}]]

-----------------------------------------------------------------------------
(* Reading.                                                                *)

(* The families whose Exit traffic leaves by an active default.            *)
ExitDefaults(rt) == {r.family : r \in {x \in rt.routes : isActiveExitDefaultRoute(x)}}

HasExitRules(rt) == \A f \in Families : \E r \in rt.rules : r.family = f /\ r.table = "exit"
=============================================================================
