-------------------------- MODULE ReconcilerProofs --------------------------
(***************************************************************************)
(* What DiffRouting plans and ApplyRouting writes, for every configuration *)
(* of subnets and name servers and every state of the kernel, and from     *)
(* this the first two parts of the Reconciler's inductive invariant: types *)
(* and the places of every call, and a default blackhole under every rule  *)
(* at every write, whatever the order of calls, failures, drifts and       *)
(* kills.                                                                  *)
(***************************************************************************)
EXTENDS Reconciler, TLAPS, WellFoundedInduction

(* The tables a rule may select, and the blackholes under them.            *)
SelectedTables == IF LocalEgress THEN {"exit", "local"} ELSE {"exit"}

Floor == {blackholeRoute(f, t, "default") : f \in Families, t \in SelectedTables}

(* A managed rule; the local table is selected by the mark and no more.    *)
Selects(rule) ==
  /\ rule.family \in Families /\ rule.table \in SelectedTables
  /\ rule.table = "local" => rule = markRule(rule.family)

HasMarkRules(k) == LocalEgress => \A f \in Families : markRule(f) \in k.rules

(* A blackhole carries no link: RouteReplace of one never alters another.  *)
PlainBlackholes(routes) ==
  \A r \in routes : r.disposition = "blackhole" => r = blackholeRoute(r.family, r.table, r.prefix)

IsKernel(k) == k = [routes |-> k.routes, rules |-> k.rules]

IsPlan(c) ==
  c = [upsertRoutes |-> c.upsertRoutes, addRules |-> c.addRules,
       staleRules |-> c.staleRules, deleteRules |-> c.deleteRules,
       deleteRoutes |-> c.deleteRoutes]

(* A state worth planning for.                                             *)
GoalSafe(goal) ==
  /\ IsKernel(goal)
  /\ Floor \subseteq goal.routes /\ PlainBlackholes(goal.routes)
  /\ \A r \in goal.rules : Selects(r)
  /\ HasMarkRules(goal)

(* The kernel holds one route per identity, and nothing but managed rules, *)
(* over their blackholes.                                                  *)
KernelSafe(k) ==
  /\ IsKernel(k)
  /\ \A a, b \in k.routes : SameRoute(a, b) => a = b
  /\ \A r \in k.rules : Selects(r) /\ blackholeRoute(r.family, r.table, "default") \in k.routes

(* What is left of a plan will find, or first write, the blackholes its    *)
(* rules need, deletes none of them, and removes no rule on the mark.      *)
PlanSafe(k, c) ==
  /\ IsPlan(c)
  /\ PlainBlackholes(c.upsertRoutes)
  /\ \A r \in c.addRules : Selects(r)
  /\ \A r \in c.staleRules \cup c.deleteRules : r.table = "exit"
  /\ c.addRules # {} => Floor \subseteq k.routes \cup c.upsertRoutes
  /\ \A d \in c.deleteRoutes, b \in Floor : ~SameRoute(d, b)

(* What is left of a plan for a state with Exit rules replaces the Exit    *)
(* rules it removes, each only once its replacement is in the kernel.      *)
ReplacesExitRules(k, c) ==
  /\ \A d \in c.deleteRules : \E a \in c.addRules : SameRule(a, d)
  /\ \A d \in c.staleRules : \E r \in k.rules \ c.staleRules : SameRule(r, d)
  /\ c.addRules \cap (c.deleteRules \cup c.staleRules) = {}

-----------------------------------------------------------------------------
(* ApplyRouting walks a part of a plan in order: First is one of its       *)
(* elements.                                                               *)

(* sortedRoutes and sortedRules place each entry at some position.         *)
LEMMA RankIsNatural == \A r : Rank(r) \in Nat
BY DEF Rank, PrefixRank

(* A set of positions has a first one.                                     *)
LEMMA LeastNatural ==
  ASSUME NEW T, T \subseteq Nat, T # {}
  PROVE  \E n \in T : \A m \in T : n <= m
<1> DEFINE Less == {p \in Nat \X Nat : p[1] < p[2]}
<1>1. IsWellFoundedOn(Less, Nat)
  BY NatLessThanWellFounded, Zenon DEF OpToRel
<1>2. \A m, n \in Nat : ~(<<m, n>> \in Less) => n <= m
  OBVIOUS
<1> HIDE DEF Less
<1>3. \E n \in T : \A m \in T : ~(<<m, n>> \in Less)
  BY <1>1, WFMin, Zenon
<1>4. PICK n \in T : \A m \in T : ~(<<m, n>> \in Less)
  BY <1>3
<1>5. ASSUME NEW m \in T
      PROVE  n <= m
  <2>1. m \in Nat /\ n \in Nat
    OBVIOUS
  <2> QED
    BY <1>2, <1>4, <2>1
<1> QED
  BY <1>5

(* The entry written first is one of those still to be written.            *)
LEMMA FirstMember ==
  ASSUME NEW S, S # {}
  PROVE  First(S) \in S
<1> DEFINE Ranks == {Rank(r) : r \in S}
<1>1. Ranks \subseteq Nat /\ Ranks # {}
  BY RankIsNatural
<1>2. PICK n \in Ranks : \A m \in Ranks : n <= m
  <2> HIDE DEF Ranks
  <2> QED
    BY <1>1, LeastNatural
<1>3. PICK r \in S : n = Rank(r)
  BY <1>2
<1>4. \A other \in S : Rank(r) <= Rank(other)
  BY <1>2, <1>3
<1> QED
  BY <1>4 DEF First

-----------------------------------------------------------------------------
(* The builders.                                                           *)

(* What blackholeRoute builds, and that it is determined by its key.       *)
LEMMA BlackholeFacts ==
  ASSUME NEW f, NEW t, NEW p
  PROVE  LET b == blackholeRoute(f, t, p)
         IN  /\ b.family = f /\ b.table = t /\ b.prefix = p
             /\ b.disposition = "blackhole" /\ b.link = NoLink
             /\ b = blackholeRoute(b.family, b.table, b.prefix)
BY DEF blackholeRoute

(* activeRoute is never a blackhole.                                       *)
LEMMA ActiveFacts ==
  ASSUME NEW f, NEW t, NEW p, NEW l
  PROVE  activeRoute(f, t, p, l).disposition # "blackhole"
BY DEF activeRoute

(* buildSafetyRouting has the whole floor of blackholes, and no rule into  *)
(* a table without one.                                                    *)
LEMMA SafetyGoal == GoalSafe(buildSafetyRouting)
<1>1. Floor \subseteq buildSafetyRouting.routes
  BY DEF Floor, SelectedTables, buildSafetyRouting
<1>2. PlainBlackholes(buildSafetyRouting.routes)
  <2> SUFFICES ASSUME NEW r \in buildSafetyRouting.routes
               PROVE  r = blackholeRoute(r.family, r.table, r.prefix)
    BY DEF PlainBlackholes
  <2>1. \E f, t, p : r = blackholeRoute(f, t, p)
    BY DEF buildSafetyRouting
  <2> QED
    BY <2>1, BlackholeFacts
<1>3. \A r \in buildSafetyRouting.rules : Selects(r)
  BY DEF buildSafetyRouting, Selects, SelectedTables, markRule, Families
<1>4. IsKernel(buildSafetyRouting) /\ HasMarkRules(buildSafetyRouting)
  BY DEF buildSafetyRouting, IsKernel, HasMarkRules
<1> QED
  BY <1>1, <1>2, <1>3, <1>4 DEF GoalSafe

(* buildSafetyRouting activates nothing.                                   *)
LEMMA SafetyIsInactive == \A r \in buildSafetyRouting.routes : r.disposition = "blackhole"
<1> SUFFICES ASSUME NEW r \in buildSafetyRouting.routes
             PROVE  r.disposition = "blackhole"
  OBVIOUS
<1>1. \E f, t, p : r = blackholeRoute(f, t, p)
  BY DEF buildSafetyRouting
<1> QED
  BY <1>1, BlackholeFacts

(* Prepared routing adds the local lane, through the proxy tunnel.         *)
LEMMA PreparedParts ==
  ASSUME NEW proxyTunnelLink
  PROVE  LET prepared == buildPreparedRouting(proxyTunnelLink)
         IN  /\ IsKernel(prepared)
             /\ prepared.rules = buildSafetyRouting.rules
             /\ buildSafetyRouting.routes \subseteq prepared.routes
             /\ \A r \in prepared.routes \ buildSafetyRouting.routes :
                  /\ LocalEgress /\ proxyTunnelLink # NoLink
                  /\ \E f \in Families : r = activeRoute(f, "local", "default", proxyTunnelLink)
<1> DEFINE lane == {activeRoute(f, "local", "default", proxyTunnelLink) : f \in Families}
           prepared == buildPreparedRouting(proxyTunnelLink)
<1>1. IsKernel(buildSafetyRouting)
  BY SafetyGoal DEF GoalSafe
<1>2. CASE ~LocalEgress \/ proxyTunnelLink = NoLink
  BY <1>1, <1>2 DEF buildPreparedRouting
<1>3. CASE ~(~LocalEgress \/ proxyTunnelLink = NoLink)
  <2>1. prepared = [buildSafetyRouting EXCEPT !.routes = @ \cup lane]
    BY <1>3 DEF buildPreparedRouting
  <2> HIDE DEF prepared, lane
  <2>2. prepared = [routes |-> buildSafetyRouting.routes \cup lane, rules |-> buildSafetyRouting.rules]
    BY <1>1, <2>1 DEF IsKernel
  <2>3. /\ prepared.routes = buildSafetyRouting.routes \cup lane
        /\ prepared.rules = buildSafetyRouting.rules /\ IsKernel(prepared)
    BY <2>2 DEF IsKernel
  <2> QED
    BY <1>3, <2>3 DEF prepared, lane
<1> QED
  BY <1>2, <1>3

(* The same for buildPreparedRouting, with or without a proxy tunnel.      *)
LEMMA PreparedGoal ==
  ASSUME NEW proxyTunnelLink
  PROVE  GoalSafe(buildPreparedRouting(proxyTunnelLink))
<1> DEFINE goal == buildPreparedRouting(proxyTunnelLink)
<1>1. /\ IsKernel(goal) /\ goal.rules = buildSafetyRouting.rules
      /\ buildSafetyRouting.routes \subseteq goal.routes
      /\ \A r \in goal.routes \ buildSafetyRouting.routes : r.disposition # "blackhole"
  BY PreparedParts, ActiveFacts
<1> HIDE DEF goal
<1>2. GoalSafe(goal)
  BY <1>1, SafetyGoal DEF GoalSafe, PlainBlackholes, HasMarkRules
<1> QED
  BY <1>2 DEF goal

(* Every exit rule selects a table of the agent.                           *)
LEMMA ExitRulesSelect ==
  ASSUME NEW tailnetLink
  PROVE  \A r \in exitRules(tailnetLink) : Selects(r)
BY DEF exitRules, exitRule, Selects, SelectedTables

(* The rules built for any one tailnet interface select exit traffic.      *)
LEMMA ExitRulesSuffice ==
  ASSUME NEW k, NEW tailnetLink, exitRules(tailnetLink) \subseteq k.rules
  PROVE  HasExitRules(k)
<1> SUFFICES ASSUME NEW f \in Families
             PROVE  \E r \in k.rules : r.family = f /\ r.table = "exit"
  BY DEF HasExitRules
<1>1. exitRule(f, tailnetLink.name) \in k.rules
  BY DEF exitRules
<1>2. exitRule(f, tailnetLink.name).family = f /\ exitRule(f, tailnetLink.name).table = "exit"
  BY DEF exitRule
<1> QED
  BY <1>1, <1>2

(* buildFailClosedRouting is the prepared plan, with the exit rules of an  *)
(* interface that is known.                                                *)
LEMMA FailClosedParts ==
  ASSUME NEW tailnetLink, NEW proxyTunnelLink
  PROVE  LET prepared == buildPreparedRouting(proxyTunnelLink)
             goal     == buildFailClosedRouting(tailnetLink, proxyTunnelLink)
         IN  /\ IsKernel(goal) /\ goal.routes = prepared.routes
             /\ goal.rules = IF tailnetLink = NoLink THEN prepared.rules
                             ELSE prepared.rules \cup exitRules(tailnetLink)
<1> DEFINE prepared == buildPreparedRouting(proxyTunnelLink)
           goal     == buildFailClosedRouting(tailnetLink, proxyTunnelLink)
<1>1. IsKernel(prepared)
  BY PreparedGoal DEF GoalSafe
<1>2. goal = IF tailnetLink = NoLink THEN prepared
             ELSE [prepared EXCEPT !.rules = @ \cup exitRules(tailnetLink)]
  BY DEF buildFailClosedRouting
<1> HIDE DEF prepared, goal
<1>3. CASE tailnetLink = NoLink
  BY <1>1, <1>2, <1>3 DEF prepared, goal
<1>4. CASE tailnetLink # NoLink
  <2>1. goal = [routes |-> prepared.routes, rules |-> prepared.rules \cup exitRules(tailnetLink)]
    BY <1>1, <1>2, <1>4 DEF IsKernel
  <2>2. /\ IsKernel(goal) /\ goal.routes = prepared.routes
        /\ goal.rules = prepared.rules \cup exitRules(tailnetLink)
    BY <2>1 DEF IsKernel
  <2> QED
    BY <1>4, <2>2 DEF prepared, goal
<1> QED
  BY <1>3, <1>4

(* buildFailClosedRouting keeps the floor.                                 *)
LEMMA FailClosedGoal ==
  ASSUME NEW tailnetLink, NEW proxyTunnelLink
  PROVE  GoalSafe(buildFailClosedRouting(tailnetLink, proxyTunnelLink))
<1> DEFINE prepared == buildPreparedRouting(proxyTunnelLink)
           goal     == buildFailClosedRouting(tailnetLink, proxyTunnelLink)
<1>1. GoalSafe(prepared)
  BY PreparedGoal
<1>2. /\ IsKernel(goal) /\ goal.routes = prepared.routes
      /\ prepared.rules \subseteq goal.rules
      /\ goal.rules \subseteq prepared.rules \cup exitRules(tailnetLink)
  BY FailClosedParts
<1> HIDE DEF prepared, goal
<1>3. GoalSafe(goal)
  BY <1>1, <1>2, ExitRulesSelect DEF GoalSafe, HasMarkRules
<1> QED
  BY <1>3 DEF goal

(* With a tailnet interface buildFailClosedRouting still selects exit      *)
(* traffic.                                                                *)
LEMMA FailClosedKeepsSelectors ==
  ASSUME NEW tailnetLink, NEW proxyTunnelLink, tailnetLink # NoLink
  PROVE  HasExitRules(buildFailClosedRouting(tailnetLink, proxyTunnelLink))
<1>1. exitRules(tailnetLink) \subseteq buildFailClosedRouting(tailnetLink, proxyTunnelLink).rules
  BY FailClosedParts
<1> QED
  BY <1>1, ExitRulesSuffice

(* Fail-closed routing is active on the local lane only, through a tunnel. *)
LEMMA FailClosedActive ==
  ASSUME NEW tailnetLink, NEW proxyTunnelLink,
         NEW r \in buildFailClosedRouting(tailnetLink, proxyTunnelLink).routes,
         r.disposition = "unicast"
  PROVE  proxyTunnelLink # NoLink /\ r.table = "local" /\ r.link = proxyTunnelLink
<1>1. r \in buildPreparedRouting(proxyTunnelLink).routes \ buildSafetyRouting.routes
  BY FailClosedParts, SafetyIsInactive
<1>2. proxyTunnelLink # NoLink /\ \E f \in Families : r = activeRoute(f, "local", "default", proxyTunnelLink)
  BY <1>1, PreparedParts
<1> QED
  BY <1>2 DEF activeRoute

(* Before the capability is known only the local egress table is active.   *)
LEMMA PreparedActive ==
  ASSUME NEW proxyTunnelLink, NEW r \in buildPreparedRouting(proxyTunnelLink).routes,
         r.disposition = "unicast"
  PROVE  r.table = "local"
<1>1. r \in buildPreparedRouting(proxyTunnelLink).routes \ buildSafetyRouting.routes
  BY SafetyIsInactive
<1> QED
  BY <1>1, PreparedParts DEF activeRoute

(* buildDesiredRouting keeps the floor, whatever the snapshot.             *)
LEMMA DesiredGoal ==
  ASSUME NEW snapshot
  PROVE  GoalSafe(buildDesiredRouting(snapshot))
<1> DEFINE prepared == buildPreparedRouting(snapshot.proxy)
           goal     == buildDesiredRouting(snapshot)
           lanes    == {activeRoute(f, "exit", "default", snapshot.proxy) : f \in snapshot.active}
                       \cup {activeRoute(f, "exit", "tailnet", snapshot.tailnet) : f \in Families}
                       \cup {activeRoute("ipv4", "exit", p, Uplink) : p \in Subnets \cup NameServers}
<1>1. /\ goal.routes = prepared.routes \cup lanes
      /\ goal.rules = prepared.rules \cup exitRules(snapshot.tailnet)
      /\ IsKernel(goal)
  BY DEF buildDesiredRouting, IsKernel
<1>2. \A r \in lanes : r.disposition # "blackhole"
  BY ActiveFacts
<1>3. GoalSafe(prepared)
  BY PreparedGoal
<1> HIDE DEF prepared, goal, lanes
<1>4. GoalSafe(goal)
  BY <1>1, <1>2, <1>3, ExitRulesSelect DEF GoalSafe, PlainBlackholes, HasMarkRules
<1> QED
  BY <1>4 DEF goal

(* What the desired state serves: the subnets, and an active Exit default  *)
(* for each active family and no other.                                    *)
LEMMA DesiredServes ==
  ASSUME NEW snapshot
  PROVE  LET goal == buildDesiredRouting(snapshot)
         IN  /\ HasExitRules(goal)
             /\ \A s \in Subnets : activeRoute("ipv4", "exit", s, Uplink) \in goal.routes
             /\ ExitDefaults(goal) = snapshot.active
             /\ \A r \in goal.routes : isActiveExitDefaultRoute(r) => r.family \in snapshot.active
<1> DEFINE goal == buildDesiredRouting(snapshot)
           prepared == buildPreparedRouting(snapshot.proxy)
           default(f) == activeRoute(f, "exit", "default", snapshot.proxy)
<1>1. HasExitRules(goal)
  <2>1. exitRules(snapshot.tailnet) \subseteq goal.rules
    BY DEF buildDesiredRouting
  <2> QED
    BY <2>1, ExitRulesSuffice
<1>2. \A s \in Subnets : activeRoute("ipv4", "exit", s, Uplink) \in goal.routes
  BY DEF buildDesiredRouting
<1>3. ASSUME NEW r \in goal.routes, isActiveExitDefaultRoute(r)
      PROVE  r.family \in snapshot.active
  <2>1. r \notin prepared.routes
    BY <1>3, PreparedActive DEF isActiveExitDefaultRoute
  <2>2. \/ \E f \in snapshot.active : r = default(f)
        \/ \E f \in Families : r = activeRoute(f, "exit", "tailnet", snapshot.tailnet)
        \/ \E p \in Subnets \cup NameServers : r = activeRoute("ipv4", "exit", p, Uplink)
    BY <2>1 DEF buildDesiredRouting
  <2>3. r.prefix = "default" /\ "default" \notin Subnets \cup NameServers
    BY <1>3, ConfigurationAssumption DEF isActiveExitDefaultRoute
  <2> QED
    BY <2>2, <2>3 DEF activeRoute
<1>4. ASSUME NEW f \in snapshot.active
      PROVE  f \in ExitDefaults(goal)
  <2>1. default(f) \in goal.routes
    BY DEF buildDesiredRouting
  <2>2. isActiveExitDefaultRoute(default(f)) /\ default(f).family = f
    BY DEF activeRoute, isActiveExitDefaultRoute
  <2> QED
    BY <2>1, <2>2 DEF ExitDefaults
<1>5. ExitDefaults(goal) = snapshot.active
  BY <1>3, <1>4 DEF ExitDefaults
<1> QED
  BY <1>1, <1>2, <1>3, <1>5

-----------------------------------------------------------------------------
(* DiffRouting.                                                            *)

(* The five lists of a plan, as DiffRouting fills them.                    *)
LEMMA DiffParts ==
  ASSUME NEW goal, NEW k
  PROVE  LET plan == DiffRouting(goal, k)
         IN  /\ plan.upsertRoutes = goal.routes \ k.routes
             /\ plan.addRules = goal.rules \ k.rules
             /\ plan.staleRules = {}
             /\ plan.deleteRules = k.rules \ goal.rules
             /\ plan.deleteRoutes = {r \in k.routes : \A d \in goal.routes : ~SameRoute(r, d)}
             /\ IsPlan(plan)
BY DEF DiffRouting, IsPlan

(* A plan made by DiffRouting is safe over the state it was made from.     *)
LEMMA DiffIsSafe ==
  ASSUME NEW goal, NEW k, GoalSafe(goal), KernelSafe(k)
  PROVE  PlanSafe(k, DiffRouting(goal, k))
<1> DEFINE plan == DiffRouting(goal, k)
<1>1. /\ plan.upsertRoutes = goal.routes \ k.routes
      /\ plan.addRules = goal.rules \ k.rules
      /\ plan.staleRules = {} /\ plan.deleteRules = k.rules \ goal.rules
      /\ plan.deleteRoutes = {r \in k.routes : \A d \in goal.routes : ~SameRoute(r, d)}
      /\ IsPlan(plan)
  BY DiffParts
<1> HIDE DEF plan
<1>2. ASSUME NEW r \in k.rules \ goal.rules
      PROVE  r.table = "exit"
  <2>1. r.table \in SelectedTables /\ r.family \in Families
        /\ (r.table = "local" => r = markRule(r.family))
    BY DEF KernelSafe, Selects
  <2>2. r.table = "local" => LocalEgress
    BY <2>1 DEF SelectedTables
  <2>3. LocalEgress => markRule(r.family) \in goal.rules
    BY <2>1 DEF GoalSafe, HasMarkRules
  <2> QED
    BY <2>1, <2>2, <2>3 DEF SelectedTables
<1>3. PlainBlackholes(plan.upsertRoutes) /\ \A r \in plan.addRules : Selects(r)
  BY <1>1 DEF GoalSafe, PlainBlackholes
<1>4. \A d \in plan.deleteRoutes, b \in Floor : ~SameRoute(d, b)
  BY <1>1 DEF GoalSafe
<1>5. Floor \subseteq k.routes \cup plan.upsertRoutes
  BY <1>1 DEF GoalSafe
<1>6. PlanSafe(k, plan)
  BY <1>1, <1>2, <1>3, <1>4, <1>5 DEF PlanSafe
<1> QED
  BY <1>6 DEF plan

(* An empty plan disturbs nothing.                                         *)
LEMMA NoChangesIsSafe == \A k : PlanSafe(k, NoChanges)
BY DEF PlanSafe, IsPlan, NoChanges, PlainBlackholes

(* Nothing to do means that the goal is reached, exactly.                  *)
LEMMA EmptyDiff ==
  ASSUME NEW goal, NEW k, KernelSafe(k), IsKernel(goal), DiffRouting(goal, k) = NoChanges
  PROVE  k = goal
<1>1. /\ goal.routes \subseteq k.routes /\ goal.rules = k.rules
      /\ \A r \in k.routes : \E d \in goal.routes : SameRoute(r, d)
  <2>1. /\ goal.routes \ k.routes = {} /\ goal.rules \ k.rules = {} /\ k.rules \ goal.rules = {}
        /\ {r \in k.routes : \A d \in goal.routes : ~SameRoute(r, d)} = {}
    BY DEF DiffRouting, NoChanges
  <2> QED
    BY <2>1
<1>2. ASSUME NEW r \in k.routes
      PROVE  r \in goal.routes
  <2>1. PICK d \in goal.routes : SameRoute(r, d)
    BY <1>1
  <2>2. r = d
    BY <1>1, <2>1 DEF KernelSafe
  <2> QED
    BY <2>2
<1>3. k.routes = goal.routes
  BY <1>1, <1>2
<1> QED
  BY <1>1, <1>3 DEF KernelSafe, IsKernel

(* A reached goal's Exit rules are in the kernel.                          *)
LEMMA NothingToAdd ==
  ASSUME NEW goal, NEW k, DiffRouting(goal, k).addRules = {}
  PROVE  goal.rules \subseteq k.rules
<1>1. goal.rules \ k.rules = {}
  BY DiffParts
<1> QED
  BY <1>1

(* A kernel with more rules selects at least the same traffic.             *)
LEMMA MoreRules ==
  ASSUME NEW j, NEW k, j.rules \subseteq k.rules
  PROVE  /\ HasExitRules(j) => HasExitRules(k)
         /\ HasMarkRules(j) => HasMarkRules(k)
BY DEF HasExitRules, HasMarkRules

(* A plan towards a goal with exit rules never ends without one.           *)
LEMMA DiffReplacesExitRules ==
  ASSUME NEW goal, NEW k, GoalSafe(goal), KernelSafe(k), Unambiguous(k), HasExitRules(goal)
  PROVE  ReplacesExitRules(k, DiffRouting(goal, k))
<1> DEFINE plan == DiffRouting(goal, k)
<1>1. /\ plan.addRules = goal.rules \ k.rules
      /\ plan.staleRules = {} /\ plan.deleteRules = k.rules \ goal.rules
  BY DiffParts
<1>2. \A r \in plan.deleteRules : r.table = "exit"
  BY DiffIsSafe DEF PlanSafe
<1> HIDE DEF plan
<1>3. ASSUME NEW d \in plan.deleteRules
      PROVE  \E a \in plan.addRules : SameRule(a, d)
  <2>1. d \in k.rules /\ d \notin goal.rules /\ d.table = "exit" /\ d.family \in Families
    BY <1>1, <1>2 DEF KernelSafe, Selects
  <2>2. PICK g \in goal.rules : g.family = d.family /\ g.table = "exit"
    BY <2>1 DEF HasExitRules
  <2>3. SameRule(g, d)
    BY <2>1, <2>2 DEF SameRule
  <2>4. g \notin k.rules
    BY <2>1, <2>3 DEF Unambiguous
  <2> QED
    BY <1>1, <2>3, <2>4
<1>4. ReplacesExitRules(k, plan)
  BY <1>1, <1>3 DEF ReplacesExitRules
<1> QED
  BY <1>4 DEF plan

(* An empty plan takes no exit rule away.                                  *)
LEMMA NoChangesReplaces == \A k : ReplacesExitRules(k, NoChanges)
BY DEF ReplacesExitRules, NoChanges

-----------------------------------------------------------------------------
(* ApplyRouting: the five kinds of writes.                                 *)

UpsertsRoute(k, c, n) ==
  \E r \in c.upsertRoutes :
    /\ n.rt = [routes |-> {x \in k.routes : ~SameRoute(x, r)} \cup {r}, rules |-> k.rules]
    /\ n.changes = [upsertRoutes |-> c.upsertRoutes \ {r}, addRules |-> c.addRules,
                    staleRules |-> c.staleRules, deleteRules |-> c.deleteRules,
                    deleteRoutes |-> c.deleteRoutes]

DropsStaleRules(k, c, n) ==
  /\ c.upsertRoutes = {}
  /\ n.rt = [routes |-> k.routes, rules |-> k.rules \ c.staleRules]
  /\ n.changes = [upsertRoutes |-> {}, addRules |-> c.addRules,
                  staleRules |-> {}, deleteRules |-> c.deleteRules,
                  deleteRoutes |-> c.deleteRoutes]

AddsRule(k, c, n) ==
  /\ c.upsertRoutes = {} /\ c.staleRules = {}
  /\ \E r \in c.addRules :
       /\ n.rt = [routes |-> k.routes, rules |-> k.rules \cup {r}]
       /\ n.changes = [upsertRoutes |-> {}, addRules |-> c.addRules \ {r},
                       staleRules |-> {d \in c.deleteRules : SameRule(d, r)},
                       deleteRules |-> {d \in c.deleteRules : ~SameRule(d, r)},
                       deleteRoutes |-> c.deleteRoutes]

DropsRule(k, c, n) ==
  /\ c.upsertRoutes = {} /\ c.staleRules = {} /\ c.addRules = {}
  /\ \E r \in c.deleteRules :
       /\ n.rt = [routes |-> k.routes, rules |-> {x \in k.rules : ~SameRule(x, r)}]
       /\ n.changes = [upsertRoutes |-> {}, addRules |-> {},
                       staleRules |-> {}, deleteRules |-> c.deleteRules \ {r},
                       deleteRoutes |-> c.deleteRoutes]

DropsRoute(k, c, n) ==
  /\ c.upsertRoutes = {} /\ c.staleRules = {} /\ c.addRules = {} /\ c.deleteRules = {}
  /\ \E r \in c.deleteRoutes :
       /\ n.rt = [routes |-> {x \in k.routes : ~SameRoute(x, r)}, rules |-> k.rules]
       /\ n.changes = [upsertRoutes |-> {}, addRules |-> {}, staleRules |-> {},
                       deleteRules |-> {}, deleteRoutes |-> c.deleteRoutes \ {r}]

(* The next netlink call of ApplyRouting is the first entry of the first   *)
(* list that is not empty.                                                 *)
LEMMA WriteCases ==
  ASSUME NEW k, NEW c, IsKernel(k), IsPlan(c), c # NoChanges
  PROVE  LET n == Write(k, c)
         IN  \/ UpsertsRoute(k, c, n) \/ DropsStaleRules(k, c, n) \/ AddsRule(k, c, n)
             \/ DropsRule(k, c, n) \/ DropsRoute(k, c, n)
<1> DEFINE n == Write(k, c)
<1>0. c.upsertRoutes # {} \/ c.staleRules # {} \/ c.addRules # {} \/ c.deleteRules # {}
        \/ c.deleteRoutes # {}
  BY DEF IsPlan, NoChanges
<1>1. CASE c.upsertRoutes # {}
  <2> DEFINE r == First(c.upsertRoutes)
  <2>1. r \in c.upsertRoutes
    BY <1>1, FirstMember
  <2>2. n = [rt |-> Upsert(k, r), changes |-> [c EXCEPT !.upsertRoutes = @ \ {r}]]
    BY <1>1 DEF Write
  <2> HIDE DEF n, r
  <2>3. n.rt = [routes |-> {x \in k.routes : ~SameRoute(x, r)} \cup {r}, rules |-> k.rules]
    BY <2>2 DEF Upsert, IsKernel
  <2>4. n.changes = [upsertRoutes |-> c.upsertRoutes \ {r}, addRules |-> c.addRules,
                     staleRules |-> c.staleRules, deleteRules |-> c.deleteRules,
                     deleteRoutes |-> c.deleteRoutes]
    BY <2>2 DEF IsPlan
  <2>5. UpsertsRoute(k, c, n)
    BY <2>1, <2>3, <2>4 DEF UpsertsRoute
  <2> QED
    BY <2>5 DEF n
<1>2. CASE c.upsertRoutes = {} /\ c.staleRules # {}
  <2>1. n = [rt |-> [k EXCEPT !.rules = @ \ c.staleRules], changes |-> [c EXCEPT !.staleRules = {}]]
    BY <1>2 DEF Write
  <2> HIDE DEF n
  <2>2. n.rt = [routes |-> k.routes, rules |-> k.rules \ c.staleRules]
    BY <2>1 DEF IsKernel
  <2>3. n.changes = [upsertRoutes |-> {}, addRules |-> c.addRules, staleRules |-> {},
                     deleteRules |-> c.deleteRules, deleteRoutes |-> c.deleteRoutes]
    BY <1>2, <2>1 DEF IsPlan
  <2>4. DropsStaleRules(k, c, n)
    BY <1>2, <2>2, <2>3 DEF DropsStaleRules
  <2> QED
    BY <2>4 DEF n
<1>3. CASE c.upsertRoutes = {} /\ c.staleRules = {} /\ c.addRules # {}
  <2> DEFINE r     == First(c.addRules)
             stale == {d \in c.deleteRules : SameRule(d, r)}
  <2>1. r \in c.addRules
    BY <1>3, FirstMember
  <2>2. n = [rt      |-> [k EXCEPT !.rules = @ \cup {r}],
             changes |-> [c EXCEPT !.addRules = @ \ {r}, !.staleRules = stale,
                                   !.deleteRules = @ \ stale]]
    BY <1>3 DEF Write
  <2>3. c.deleteRules \ stale = {d \in c.deleteRules : ~SameRule(d, r)}
    OBVIOUS
  <2> HIDE DEF n, r, stale
  <2>4. n.rt = [routes |-> k.routes, rules |-> k.rules \cup {r}]
    BY <2>2 DEF IsKernel
  <2>5. n.changes = [upsertRoutes |-> {}, addRules |-> c.addRules \ {r},
                     staleRules |-> stale, deleteRules |-> c.deleteRules \ stale,
                     deleteRoutes |-> c.deleteRoutes]
    BY <1>3, <2>2 DEF IsPlan
  <2>6. AddsRule(k, c, n)
    BY <1>3, <2>1, <2>3, <2>4, <2>5 DEF AddsRule, stale
  <2> QED
    BY <2>6 DEF n
<1>4. CASE c.upsertRoutes = {} /\ c.staleRules = {} /\ c.addRules = {} /\ c.deleteRules # {}
  <2> DEFINE r == First(c.deleteRules)
  <2>1. r \in c.deleteRules
    BY <1>4, FirstMember
  <2>2. n = [rt      |-> [k EXCEPT !.rules = {x \in @ : ~SameRule(x, r)}],
             changes |-> [c EXCEPT !.deleteRules = @ \ {r}]]
    BY <1>4 DEF Write
  <2> HIDE DEF n, r
  <2>3. n.rt = [routes |-> k.routes, rules |-> {x \in k.rules : ~SameRule(x, r)}]
    BY <2>2 DEF IsKernel
  <2>4. n.changes = [upsertRoutes |-> {}, addRules |-> {}, staleRules |-> {},
                     deleteRules |-> c.deleteRules \ {r}, deleteRoutes |-> c.deleteRoutes]
    BY <1>4, <2>2 DEF IsPlan
  <2>5. DropsRule(k, c, n)
    BY <1>4, <2>1, <2>3, <2>4 DEF DropsRule
  <2> QED
    BY <2>5 DEF n
<1>5. CASE /\ c.upsertRoutes = {} /\ c.staleRules = {} /\ c.addRules = {} /\ c.deleteRules = {}
           /\ c.deleteRoutes # {}
  <2> DEFINE r == First(c.deleteRoutes)
  <2>1. r \in c.deleteRoutes
    BY <1>5, FirstMember
  <2>2. n = [rt      |-> [k EXCEPT !.routes = {x \in @ : ~SameRoute(x, r)}],
             changes |-> [c EXCEPT !.deleteRoutes = @ \ {r}]]
    BY <1>5 DEF Write
  <2> HIDE DEF n, r
  <2>3. n.rt = [routes |-> {x \in k.routes : ~SameRoute(x, r)}, rules |-> k.rules]
    BY <2>2 DEF IsKernel
  <2>4. n.changes = [upsertRoutes |-> {}, addRules |-> {}, staleRules |-> {},
                     deleteRules |-> {}, deleteRoutes |-> c.deleteRoutes \ {r}]
    BY <1>5, <2>2 DEF IsPlan
  <2>5. DropsRoute(k, c, n)
    BY <1>5, <2>1, <2>3, <2>4 DEF DropsRoute
  <2> QED
    BY <2>5 DEF n
<1> QED
  BY <1>0, <1>1, <1>2, <1>3, <1>4, <1>5

(* The table a rule selects has a default blackhole in the floor.          *)
LEMMA RuleFloor ==
  ASSUME NEW r, Selects(r)
  PROVE  blackholeRoute(r.family, r.table, "default") \in Floor
BY DEF Selects, Floor

(* RouteReplace of a plain route never takes a blackhole of the floor away.*)
LEMMA UpsertKeepsFloor ==
  ASSUME NEW routes, NEW r, NEW b \in Floor, PlainBlackholes({r}), b \in routes
  PROVE  b \in {x \in routes : ~SameRoute(x, r)} \cup {r}
<1>1. b.disposition = "blackhole" /\ b = blackholeRoute(b.family, b.table, b.prefix)
  BY BlackholeFacts DEF Floor
<1>2. SameRoute(b, r) => b = r
  BY <1>1 DEF SameRoute, PlainBlackholes
<1> QED
  BY <1>2

(* What is left of a safe plan stays safe over what it makes of the        *)
(* kernel.                                                                 *)
LEMMA WriteIsSafe ==
  ASSUME NEW k, NEW c, KernelSafe(k), PlanSafe(k, c), c # NoChanges
  PROVE  KernelSafe(Write(k, c).rt) /\ PlanSafe(Write(k, c).rt, Write(k, c).changes)
<1> DEFINE n == Write(k, c)
<1>0. \/ UpsertsRoute(k, c, n) \/ DropsStaleRules(k, c, n) \/ AddsRule(k, c, n)
      \/ DropsRule(k, c, n) \/ DropsRoute(k, c, n)
  BY WriteCases DEF KernelSafe, PlanSafe
<1> SUFFICES KernelSafe(n.rt) /\ PlanSafe(n.rt, n.changes)
  OBVIOUS
<1> HIDE DEF n
<1>1. CASE UpsertsRoute(k, c, n)
  <2>1. PICK r \in c.upsertRoutes :
          /\ n.rt = [routes |-> {x \in k.routes : ~SameRoute(x, r)} \cup {r}, rules |-> k.rules]
          /\ n.changes = [upsertRoutes |-> c.upsertRoutes \ {r}, addRules |-> c.addRules,
                          staleRules |-> c.staleRules, deleteRules |-> c.deleteRules,
                          deleteRoutes |-> c.deleteRoutes]
    BY <1>1 DEF UpsertsRoute
  <2>2. PlainBlackholes({r})
    BY DEF PlanSafe, PlainBlackholes
  <2>3. \A b \in Floor : b \in k.routes => b \in n.rt.routes
    BY <2>1, <2>2, UpsertKeepsFloor
  <2>4. \A a, b \in n.rt.routes : SameRoute(a, b) => a = b
    BY <2>1 DEF KernelSafe, SameRoute
  <2>5. KernelSafe(n.rt)
    BY <2>1, <2>3, <2>4, RuleFloor DEF KernelSafe, IsKernel
  <2>6. PlanSafe(n.rt, n.changes)
    BY <2>1, <2>3 DEF PlanSafe, IsPlan, PlainBlackholes
  <2> QED
    BY <2>5, <2>6
<1>2. CASE DropsStaleRules(k, c, n)
  <2>1. KernelSafe(n.rt)
    BY <1>2 DEF DropsStaleRules, KernelSafe, IsKernel
  <2>2. PlanSafe(n.rt, n.changes)
    BY <1>2 DEF DropsStaleRules, PlanSafe, IsPlan
  <2> QED
    BY <2>1, <2>2
<1>3. CASE AddsRule(k, c, n)
  <2>1. PICK r \in c.addRules :
          /\ n.rt = [routes |-> k.routes, rules |-> k.rules \cup {r}]
          /\ n.changes = [upsertRoutes |-> {}, addRules |-> c.addRules \ {r},
                          staleRules |-> {d \in c.deleteRules : SameRule(d, r)},
                          deleteRules |-> {d \in c.deleteRules : ~SameRule(d, r)},
                          deleteRoutes |-> c.deleteRoutes]
    BY <1>3 DEF AddsRule
  <2>2. Selects(r) /\ blackholeRoute(r.family, r.table, "default") \in k.routes
    BY <1>3, RuleFloor DEF AddsRule, PlanSafe
  <2>3. KernelSafe(n.rt)
    BY <2>1, <2>2 DEF KernelSafe, IsKernel
  <2>4. PlanSafe(n.rt, n.changes)
    BY <1>3, <2>1 DEF AddsRule, PlanSafe, IsPlan
  <2> QED
    BY <2>3, <2>4
<1>4. CASE DropsRule(k, c, n)
  <2>1. KernelSafe(n.rt)
    BY <1>4 DEF DropsRule, KernelSafe, IsKernel
  <2>2. PlanSafe(n.rt, n.changes)
    BY <1>4 DEF DropsRule, PlanSafe, IsPlan
  <2> QED
    BY <2>1, <2>2
<1>5. CASE DropsRoute(k, c, n)
  <2>1. PICK r \in c.deleteRoutes :
          /\ n.rt = [routes |-> {x \in k.routes : ~SameRoute(x, r)}, rules |-> k.rules]
          /\ n.changes = [upsertRoutes |-> {}, addRules |-> {}, staleRules |-> {},
                          deleteRules |-> {}, deleteRoutes |-> c.deleteRoutes \ {r}]
    BY <1>5 DEF DropsRoute
  <2>2. \A b \in Floor : ~SameRoute(b, r)
    BY DEF PlanSafe, SameRoute
  <2>3. KernelSafe(n.rt)
    BY <2>1, <2>2, RuleFloor DEF KernelSafe, IsKernel
  <2>4. PlanSafe(n.rt, n.changes)
    BY <1>5, <2>1 DEF DropsRoute, PlanSafe, IsPlan
  <2> QED
    BY <2>3, <2>4
<1> QED
  BY <1>0, <1>1, <1>2, <1>3, <1>4, <1>5

(* No write of a safe plan removes a rule on the mark...                   *)
LEMMA WriteKeepsMarkRules ==
  ASSUME NEW k, NEW c, KernelSafe(k), PlanSafe(k, c), c # NoChanges, HasMarkRules(k)
  PROVE  HasMarkRules(Write(k, c).rt)
<1> DEFINE n == Write(k, c)
<1>0. \/ UpsertsRoute(k, c, n) \/ DropsStaleRules(k, c, n) \/ AddsRule(k, c, n)
      \/ DropsRule(k, c, n) \/ DropsRoute(k, c, n)
  BY WriteCases DEF KernelSafe, PlanSafe
<1> SUFFICES HasMarkRules(n.rt)
  OBVIOUS
<1> HIDE DEF n
<1>1. \A f : markRule(f).table # "exit"
  BY DEF markRule
<1>2. CASE UpsertsRoute(k, c, n) \/ AddsRule(k, c, n) \/ DropsRoute(k, c, n)
  <2>1. CASE UpsertsRoute(k, c, n)
    BY <2>1, MoreRules DEF UpsertsRoute
  <2>2. CASE AddsRule(k, c, n)
    BY <2>2, MoreRules DEF AddsRule
  <2>3. CASE DropsRoute(k, c, n)
    BY <2>3, MoreRules DEF DropsRoute
  <2> QED
    BY <1>2, <2>1, <2>2, <2>3
<1>3. CASE DropsStaleRules(k, c, n)
  BY <1>1, <1>3 DEF DropsStaleRules, PlanSafe, HasMarkRules
<1>4. CASE DropsRule(k, c, n)
  BY <1>1, <1>4 DEF DropsRule, PlanSafe, HasMarkRules, SameRule
<1> QED
  BY <1>0, <1>2, <1>3, <1>4

(* ... and, towards a state with Exit rules, none leaves a family without. *)
LEMMA WriteKeepsExitRules ==
  ASSUME NEW k, NEW c, KernelSafe(k), PlanSafe(k, c), c # NoChanges, ReplacesExitRules(k, c)
  PROVE  /\ ReplacesExitRules(Write(k, c).rt, Write(k, c).changes)
         /\ HasExitRules(k) => HasExitRules(Write(k, c).rt)
<1> DEFINE n == Write(k, c)
<1>0. \/ UpsertsRoute(k, c, n) \/ DropsStaleRules(k, c, n) \/ AddsRule(k, c, n)
      \/ DropsRule(k, c, n) \/ DropsRoute(k, c, n)
  BY WriteCases DEF KernelSafe, PlanSafe
<1> SUFFICES /\ ReplacesExitRules(n.rt, n.changes)
             /\ HasExitRules(k) => HasExitRules(n.rt)
  OBVIOUS
<1> HIDE DEF n
<1>1. CASE UpsertsRoute(k, c, n) \/ DropsRoute(k, c, n)
  <2>1. /\ n.rt.rules = k.rules /\ n.changes.addRules = c.addRules
        /\ n.changes.staleRules = c.staleRules /\ n.changes.deleteRules = c.deleteRules
    <3>1. CASE UpsertsRoute(k, c, n)
      BY <3>1 DEF UpsertsRoute
    <3>2. CASE DropsRoute(k, c, n)
      BY <3>2 DEF DropsRoute
    <3> QED
      BY <1>1, <3>1, <3>2
  <2> QED
    BY <2>1, MoreRules DEF ReplacesExitRules
<1>2. CASE DropsStaleRules(k, c, n)
  <2>1. /\ n.rt.rules = k.rules \ c.staleRules /\ n.changes.addRules = c.addRules
        /\ n.changes.staleRules = {} /\ n.changes.deleteRules = c.deleteRules
    BY <1>2 DEF DropsStaleRules
  <2>2. ReplacesExitRules(n.rt, n.changes)
    BY <2>1 DEF ReplacesExitRules
  <2>3. \A r \in k.rules : \E x \in n.rt.rules : SameRule(x, r)
    BY <2>1 DEF ReplacesExitRules, SameRule
  <2>4. HasExitRules(k) => HasExitRules(n.rt)
    BY <2>3 DEF HasExitRules, SameRule
  <2> QED
    BY <2>2, <2>4
<1>3. CASE AddsRule(k, c, n)
  <2>1. PICK r \in c.addRules :
          /\ n.rt = [routes |-> k.routes, rules |-> k.rules \cup {r}]
          /\ n.changes = [upsertRoutes |-> {}, addRules |-> c.addRules \ {r},
                          staleRules |-> {d \in c.deleteRules : SameRule(d, r)},
                          deleteRules |-> {d \in c.deleteRules : ~SameRule(d, r)},
                          deleteRoutes |-> c.deleteRoutes]
    BY <1>3 DEF AddsRule
  <2>2. /\ n.rt.rules = k.rules \cup {r} /\ n.changes.addRules = c.addRules \ {r}
        /\ n.changes.staleRules = {d \in c.deleteRules : SameRule(d, r)}
        /\ n.changes.deleteRules = {d \in c.deleteRules : ~SameRule(d, r)}
    BY <2>1
  <2>3. \A d \in n.changes.deleteRules : \E a \in n.changes.addRules : SameRule(a, d)
    BY <2>2 DEF ReplacesExitRules, SameRule
  <2>4. r \in n.rt.rules \ n.changes.staleRules
    BY <2>2 DEF ReplacesExitRules
  <2>5. \A d \in n.changes.staleRules : SameRule(r, d)
    BY <2>2 DEF SameRule
  <2>6. n.changes.addRules \cap (n.changes.deleteRules \cup n.changes.staleRules) = {}
    BY <2>2 DEF ReplacesExitRules
  <2> QED
    BY <2>2, <2>3, <2>4, <2>5, <2>6, MoreRules DEF ReplacesExitRules
<1>4. CASE DropsRule(k, c, n)
  BY <1>4 DEF DropsRule, ReplacesExitRules
<1> QED
  BY <1>0, <1>1, <1>2, <1>3, <1>4

(* A write brings into the kernel, and leaves in the plan, only what the   *)
(* plan held.                                                              *)
LEMMA WriteBounds ==
  ASSUME NEW k, NEW c, IsKernel(k), IsPlan(c), c # NoChanges
  PROVE  LET n == Write(k, c)
         IN  /\ n.rt.routes \subseteq k.routes \cup c.upsertRoutes
             /\ n.rt.rules \subseteq k.rules \cup c.addRules
             /\ n.changes.upsertRoutes \subseteq c.upsertRoutes
             /\ n.changes.addRules \subseteq c.addRules
             /\ n.changes.staleRules \subseteq c.staleRules \cup c.deleteRules
             /\ n.changes.deleteRules \subseteq c.deleteRules
             /\ n.changes.deleteRoutes \subseteq c.deleteRoutes
             /\ IsPlan(n.changes)
<1> DEFINE n == Write(k, c)
<1>0. \/ UpsertsRoute(k, c, n) \/ DropsStaleRules(k, c, n) \/ AddsRule(k, c, n)
      \/ DropsRule(k, c, n) \/ DropsRoute(k, c, n)
  BY WriteCases
<1> HIDE DEF n
<1>1. CASE UpsertsRoute(k, c, n)
  BY <1>1 DEF UpsertsRoute, IsPlan, n
<1>2. CASE DropsStaleRules(k, c, n)
  BY <1>2 DEF DropsStaleRules, IsPlan, n
<1>3. CASE AddsRule(k, c, n)
  BY <1>3 DEF AddsRule, IsPlan, n
<1>4. CASE DropsRule(k, c, n)
  BY <1>4 DEF DropsRule, IsPlan, n
<1>5. CASE DropsRoute(k, c, n)
  BY <1>5 DEF DropsRoute, IsPlan, n
<1> QED
  BY <1>0, <1>1, <1>2, <1>3, <1>4, <1>5

(* A route a plan is to delete leaves the plan only with its deletion.     *)
LEMMA WriteDeletes ==
  ASSUME NEW k, NEW c, KernelSafe(k), IsPlan(c), c # NoChanges,
         NEW r \in c.deleteRoutes, r \in Write(k, c).rt.routes
  PROVE  r \in Write(k, c).changes.deleteRoutes
<1> DEFINE n == Write(k, c)
<1>0. \/ UpsertsRoute(k, c, n) \/ DropsStaleRules(k, c, n) \/ AddsRule(k, c, n)
      \/ DropsRule(k, c, n) \/ DropsRoute(k, c, n)
  BY WriteCases DEF KernelSafe
<1>1. r \in n.rt.routes
  OBVIOUS
<1> SUFFICES r \in n.changes.deleteRoutes
  OBVIOUS
<1> HIDE DEF n
<1>2. CASE DropsRoute(k, c, n)
  <2>1. PICK d \in c.deleteRoutes :
          /\ n.rt = [routes |-> {x \in k.routes : ~SameRoute(x, d)}, rules |-> k.rules]
          /\ n.changes = [upsertRoutes |-> {}, addRules |-> {}, staleRules |-> {},
                          deleteRules |-> {}, deleteRoutes |-> c.deleteRoutes \ {d}]
    BY <1>2 DEF DropsRoute
  <2>2. r # d
    BY <1>1, <2>1 DEF SameRoute
  <2>3. n.changes.deleteRoutes = c.deleteRoutes \ {d}
    BY <2>1
  <2> QED
    BY <2>2, <2>3
<1>3. CASE UpsertsRoute(k, c, n)
  BY <1>3 DEF UpsertsRoute
<1>4. CASE DropsStaleRules(k, c, n)
  BY <1>4 DEF DropsStaleRules
<1>5. CASE AddsRule(k, c, n)
  BY <1>5 DEF AddsRule
<1>6. CASE DropsRule(k, c, n)
  BY <1>6 DEF DropsRule
<1> QED
  BY <1>0, <1>2, <1>3, <1>4, <1>5, <1>6
-----------------------------------------------------------------------------
(* Where each method can be.                                               *)
Control ==
  /\ op \in {"none", "prepare", "reconcile", "failClosed", "shutdown"}
  /\ op = "none" => pc \in {"boot", "idle", "failed", "halted"} /\ site = "none"
  /\ op = "prepare" =>
       \/ pc \in {"filter", "filterReadback"} /\ site \in {"quarantine", "mark"}
       \/ pc \in {"plan", "write", "readback"} /\ site \in {"safety", "prepared"}
       \/ pc = "prepareDiscover" /\ site = "none"
  /\ op = "reconcile" =>
       \/ pc \in {"read", "discover"} /\ site = "none"
       \/ pc \in {"plan", "observe"} /\ site = "desired"
       \/ pc \in {"filter", "filterReadback"} /\ site \in {"close", "open"}
       \/ pc \in {"write", "readback"} /\ site \in {"deactivate", "activate", "global"}
       \/ pc \in {"verifyRouting", "verifyFilter"} /\ site \in {"noDrift", "isolated", "global"}
       \/ pc = "refresh" /\ site = "global"
       \/ /\ pc \in {"publish", "preferencesReadback"}
          /\ site \in {"restored", "withdraw", "clear", "noDrift", "isolated", "global"}
  /\ op = "failClosed" =>
       \/ pc \in {"filter", "filterReadback"} /\ site \in {"failClosed", "recover"}
       \/ pc \in {"liveState", "readPreferences"} /\ site = "none"
       \/ pc \in {"plan", "write", "readback"} /\ site \in {"recovery", "strict", "fallback"}
       \/ pc = "reverify" /\ site = "recovery"
       \/ pc \in {"publish", "preferencesReadback"} /\ site = "disable"
  /\ op = "shutdown" =>
       \/ pc \in {"filter", "filterReadback"} /\ site = "failClosed"
       \/ pc \in {"plan", "write", "readback"} /\ site = "strict"
       \/ pc = "readPreferences" /\ site = "none"
       \/ pc \in {"publish", "preferencesReadback"} /\ site = "disable"

Flags ==
  /\ err \in BOOLEAN /\ disturbed \in BOOLEAN
  /\ outcome \in {"none", "prepared", "converged", "closed", "strict", "failed"}

(* A fresh process holds no goal and has nothing to report.                *)
LEMMA InitControl == Init => Control /\ Flags
BY Zenon DEF Init, Control, Flags

(* Each step of a pass leads to a step that its operation can be in.       *)
LEMMA NextControl == Control /\ Flags /\ [Next]_vars => (Control /\ Flags)'
<1> SUFFICES ASSUME Control, Flags, [Next]_vars PROVE (Control /\ Flags)'
  OBVIOUS
<1> USE DEF Then, Goto, End, Begin, Forget, memory, locals, Control, Flags
<1>1. ASSUME NEW m \in {"failClosed", "shutdown"}, EnterFailClosed(m) PROVE (Control /\ Flags)'
  BY <1>1, Zenon DEF EnterFailClosed
<1>2. ASSUME ReconcileFails \/ PrepareSucceeds \/ finalizeSuccessfulReconcile
               \/ FailClosedReturns(TRUE) \/ FailClosedReturns(err)
      PROVE  (Control /\ Flags)'
  BY <1>2, Zenon
  DEF ReconcileFails, PrepareSucceeds, finalizeSuccessfulReconcile, FailClosedReturns
<1>3. CASE BeginPrepare \/ BeginReconcile
  BY <1>3, Zenon DEF BeginPrepare, BeginReconcile
<1>4. CASE BeginFailClosed \/ BeginShutdown
  BY <1>1, <1>4 DEF BeginFailClosed, BeginShutdown
<1>5. CASE FilterSucceeds /\ pc \in {"filter", "filterReadback"}
  BY <1>2, <1>5, Zenon DEF FilterSucceeds, ApplyPlan
<1>6. CASE FilterFails /\ pc \in {"filter", "filterReadback"}
  BY <1>1, <1>2, <1>6, Zenon DEF FilterFails, PrepareFails
<1>7. CASE reconcilePacketFilter \/ FilterReadback
  BY <1>5, <1>6, <1>7 DEF reconcilePacketFilter, FilterReadback
<1>8. CASE RoutingSucceeds /\ pc \in {"plan", "readback"}
  BY <1>8 DEF RoutingSucceeds
<1>9. CASE RoutingFails /\ pc \in {"plan", "write", "readback", "reverify"}
  BY <1>1, <1>2, <1>9, Zenon DEF RoutingFails, PrepareFails
<1>10. CASE planRouting
  BY <1>8, <1>9, <1>10 DEF planRouting
<1>11. CASE ApplyRouting
  BY <1>9, <1>11 DEF ApplyRouting
<1>12. CASE verifyRouting
  BY <1>8, <1>9, <1>12 DEF verifyRouting
<1>13. CASE PrepareDiscovers
  BY <1>1, <1>2, <1>13, Zenon DEF PrepareDiscovers, PrepareFails
<1>14. CASE ReadTailnetState \/ Discover
  BY <1>2, <1>14, Zenon DEF ReadTailnetState, Discover
<1>15. CASE ObservePacketFilter
  BY <1>2, <1>15, Zenon DEF ObservePacketFilter,
     reconcileNoDrift, reconcileIsolatedExitDefaultTransition, reconcileGlobalDrift,
     applyExitDefaultRouteTransition
<1>16. CASE VerifyRoutingAgain \/ VerifyFilterAgain \/ RefreshApprovals
  BY <1>2, <1>16, Zenon DEF VerifyRoutingAgain, VerifyFilterAgain, RefreshApprovals
<1>17. CASE WritePreferences
  BY <1>2, <1>17, Zenon DEF WritePreferences, PreferencesFail
<1>18. CASE PreferencesReadback
  BY <1>2, <1>18, Zenon DEF PreferencesReadback, PreferencesFail, PreferencesSucceed,
     applyExitDefaultRouteTransition, ApplyPlan
<1>19. CASE liveFailClosedState \/ FailClosedReadsPreferences \/ FailClosedAborts
  BY <1>2, <1>19, Zenon DEF liveFailClosedState, FailClosedReadsPreferences, FailClosedAborts
<1>20. CASE ReverifyRecovery
  BY <1>9, <1>20 DEF ReverifyRecovery
<1>21. CASE ProxyReplaced \/ TailnetReplaced \/ CapabilityChanges \/ PreferencesEdited
              \/ NftablesFlushed
  BY <1>21, Zenon DEF ProxyReplaced, TailnetReplaced, CapabilityChanges, PreferencesEdited,
     NftablesFlushed, Drift
<1>22. CASE Killed \/ Restarted
  BY <1>22, Zenon DEF Killed, Restarted, NewProcess
<1>23. CASE UNCHANGED vars
  BY <1>23 DEF vars
<1> QED
  BY <1>3, <1>4, <1>7, <1>10, <1>11, <1>12, <1>13, <1>14, <1>15, <1>16, <1>17, <1>18, <1>19,
     <1>20, <1>21, <1>22, <1>23, Zenon DEF Next, Step
-----------------------------------------------------------------------------
(* The activation that waits for a deactivation adds routes and no more.   *)
Postponed(c) ==
  c = [NoChanges EXCEPT !.upsertRoutes = c.upsertRoutes] /\ PlainBlackholes(c.upsertRoutes)

(* ApplyRouting is not entered with an empty plan; the withdrawal before   *)
(* an isolated transition has that transition ahead of it.                 *)
Pending ==
  /\ pc = "write" \/ site = "withdraw" => changes # NoChanges
  /\ pc \in {"plan", "write"} => site # "withdraw"

(* NoFallThrough speaks of the kernel alone.  It is preserved by a write   *)
(* only if the rest of the plan is safe for that kernel too, and a plan    *)
(* may be split in two.                                                    *)
SafeInv ==
  /\ KernelSafe(rt)
  /\ PlanSafe(rt, changes)
  /\ Postponed(later)
  /\ Pending

-----------------------------------------------------------------------------
(* The deletions that a transition puts off are safe whenever they come.   *)
LEMMA PostponedIsSafe ==
  ASSUME NEW k, NEW c, Postponed(c)
  PROVE  PlanSafe(k, c)
BY DEF Postponed, PlanSafe, IsPlan, NoChanges, PlainBlackholes

(* An empty list of them as well.                                          *)
LEMMA NothingPostponed == Postponed(NoChanges)
BY DEF Postponed, NoChanges, PlainBlackholes

(* The invariant contains the property of the runs.                        *)
LEMMA SafeImpliesNoFallThrough == SafeInv => NoFallThrough
BY DEF SafeInv, KernelSafe, NoFallThrough

(* A kernel without rules and routes of the agent selects nothing into a   *)
(* table.                                                                  *)
LEMMA InitSafe == Init => SafeInv
<1> SUFFICES ASSUME Init PROVE SafeInv
  OBVIOUS
<1>1. KernelSafe(rt)
  BY DEF Init, KernelSafe, IsKernel
<1>2. PlanSafe(rt, changes) /\ Postponed(later)
  BY NoChangesIsSafe, NothingPostponed DEF Init
<1>3. Pending
  BY DEF Init, Pending
<1> QED
  BY <1>1, <1>2, <1>3 DEF SafeInv

(* A call that writes no route or rule and keeps or drops the plan.        *)
LEMMA QuietCall ==
  ASSUME SafeInv, rt' = rt,
         changes' = changes \/ changes' = NoChanges,
         later' = later \/ later' = NoChanges,
         Pending'
  PROVE  SafeInv'
BY NoChangesIsSafe, NothingPostponed DEF SafeInv

(* How the methods end, or begin: nothing is left to write.                *)
LEMMA EntersFailClosed ==
  ASSUME NEW method, EnterFailClosed(method)
  PROVE  changes' = NoChanges /\ later' = NoChanges /\ Pending'
BY DEF EnterFailClosed, Begin, Goto, Forget, Pending

(* An operation that returns leaves no netlink call behind.                *)
LEMMA Returns ==
  ASSUME ReconcileFails \/ PrepareSucceeds \/ finalizeSuccessfulReconcile
           \/ FailClosedReturns(TRUE) \/ FailClosedReturns(err)
  PROVE  changes' = NoChanges /\ later' = NoChanges /\ Pending'
<1>1. changes' = NoChanges /\ later' = NoChanges
  BY DEF ReconcileFails, PrepareSucceeds, finalizeSuccessfulReconcile, FailClosedReturns, Forget
<1>2. site' = "none" /\ pc' \in {"failed", "idle", "halted"}
  BY DEF ReconcileFails, PrepareSucceeds, finalizeSuccessfulReconcile, FailClosedReturns, End,
         Goto
<1> QED
  BY <1>1, <1>2 DEF Pending

(* Nor does a routing step that fails, wherever the error leads.           *)
LEMMA RoutingFailure ==
  ASSUME SafeInv, RoutingFails
  PROVE  changes' = NoChanges /\ later' \in {later, NoChanges} /\ Pending'
<1>1. CASE PrepareFails
  BY <1>1, EntersFailClosed DEF PrepareFails
<1>2. CASE ReconcileFails
  BY <1>2, Returns
<1>3. CASE /\ \/ site = "recovery" /\ Then("plan", "fallback")
              \/ site \in {"strict", "fallback"} /\ Then("readPreferences", "none")
           /\ err' = TRUE /\ changes' = NoChanges
           /\ UNCHANGED <<memory, snap, seen, later>>
  BY <1>3 DEF Then, Goto, Pending
<1> QED
  BY <1>1, <1>2, <1>3, Zenon DEF RoutingFails

(* A failed routing step keeps the invariant when the kernel it leaves is  *)
(* safe.                                                                   *)
LEMMA FailedRoutingIsSafe ==
  ASSUME SafeInv, RoutingFails, KernelSafe(rt')
  PROVE  SafeInv'
BY RoutingFailure, NoChangesIsSafe, NothingPostponed DEF SafeInv

(* A verified routing step hands over to the next site safely.             *)
LEMMA SucceededRoutingIsSafe ==
  ASSUME SafeInv, RoutingSucceeds, rt' = rt
  PROVE  SafeInv'
<1>1. later' = NoChanges /\ changes' = IF site = "deactivate" THEN later ELSE NoChanges
  BY DEF RoutingSucceeds
<1>2. PlanSafe(rt', changes')
  BY <1>1, PostponedIsSafe, NoChangesIsSafe DEF SafeInv
<1>3. Pending'
  <2>1. CASE site = "deactivate"
    BY <1>1, <2>1 DEF RoutingSucceeds, Then, Goto, Pending
  <2>2. CASE site # "deactivate"
    <3>1. pc' # "write" /\ site' # "withdraw"
      BY <2>2 DEF RoutingSucceeds, Then, Goto
    <3> QED
      BY <3>1 DEF Pending
  <2> QED
    BY <2>1, <2>2
<1> QED
  BY <1>1, <1>2, <1>3, NothingPostponed DEF SafeInv

(* Whatever routing a site asks for keeps the floor.                       *)
LEMMA GoalIsSafe == GoalSafe(RoutingGoal)
<1>1. CASE site = "safety"
  BY <1>1, SafetyGoal DEF RoutingGoal
<1>2. CASE site = "prepared"
  BY <1>2, PreparedGoal DEF RoutingGoal
<1>3. CASE site = "recovery"
  BY <1>3, FailClosedGoal DEF RoutingGoal
<1>4. CASE site \in {"strict", "fallback"}
  BY <1>4, FailClosedGoal DEF RoutingGoal
<1>5. CASE site \notin {"safety", "prepared", "recovery", "strict", "fallback"}
  BY <1>5, DesiredGoal DEF RoutingGoal
<1> QED
  BY <1>1, <1>2, <1>3, <1>4, <1>5

(* applyExitDefaultRouteTransition splits a plan that is not empty.        *)
LEMMA TransitionIsSafe ==
  ASSUME SafeInv, applyExitDefaultRouteTransition, changes # NoChanges, rt' = rt
  PROVE  SafeInv'
<1>1. CASE changes.deleteRoutes # {}
  <2>1. /\ changes' = [NoChanges EXCEPT !.deleteRoutes = changes.deleteRoutes]
        /\ later' = [NoChanges EXCEPT !.upsertRoutes = changes.upsertRoutes]
        /\ pc' = "write" /\ site' = "deactivate"
    BY <1>1
    DEF applyExitDefaultRouteTransition, deactivationChanges, activationChanges, Then, Goto
  <2>2. PlanSafe(rt', changes')
    BY <2>1, Zenon DEF SafeInv, PlanSafe, IsPlan, PlainBlackholes, NoChanges
  <2>3. Postponed(later')
    BY <2>1 DEF SafeInv, PlanSafe, Postponed, NoChanges
  <2>4. Pending'
    BY <1>1, <2>1 DEF Pending, NoChanges
  <2> QED
    BY <2>2, <2>3, <2>4 DEF SafeInv
<1>2. CASE changes.deleteRoutes = {}
  <2>1. UNCHANGED <<changes, later>> /\ site' = "activate"
    BY <1>2 DEF applyExitDefaultRouteTransition, Then, Goto
  <2>2. Pending'
    BY <2>1 DEF Pending
  <2> QED
    BY <2>1, <2>2, QuietCall
<1> QED
  BY <1>1, <1>2

(* The packet filter's steps leave routing as it is: success,              *)
LEMMA FilterSucceedsSafely ==
  ASSUME SafeInv, FilterSucceeds, rt' = rt
  PROVE  SafeInv'
<1>1. CASE site = "mark"
  BY <1>1, Returns, QuietCall DEF FilterSucceeds
<1>2. CASE site # "mark"
  <2>1. UNCHANGED <<changes, later>>
    BY <1>2 DEF FilterSucceeds, locals
  <2>2. (pc' = "write" => changes # NoChanges) /\ site' # "withdraw"
    BY <1>2 DEF FilterSucceeds, ApplyPlan, Then, Goto
  <2>3. Pending'
    BY <2>1, <2>2 DEF Pending
  <2> QED
    BY <2>1, <2>3, QuietCall
<1> QED
  BY <1>1, <1>2

(* failure,                                                                *)
LEMMA FilterFailsSafely ==
  ASSUME SafeInv, FilterFails, rt' = rt
  PROVE  SafeInv'
<1>1. CASE PrepareFails
  BY <1>1, EntersFailClosed, QuietCall DEF PrepareFails
<1>2. CASE ReconcileFails
  BY <1>2, Returns, QuietCall
<1>3. CASE Then("plan", "strict") /\ UNCHANGED <<memory, snap, seen, changes, later>>
  <2>1. Pending'
    BY <1>3 DEF Then, Goto, Pending
  <2> QED
    BY <1>3, <2>1, QuietCall
<1> QED
  BY <1>1, <1>2, <1>3 DEF FilterFails

(* and the two calls that lead to them.                                    *)
LEMMA FilterStep == SafeInv /\ (reconcilePacketFilter \/ FilterReadback) => SafeInv'
<1> SUFFICES ASSUME SafeInv, reconcilePacketFilter \/ FilterReadback
             PROVE  SafeInv'
  OBVIOUS
<1>1. rt' = rt
  BY DEF reconcilePacketFilter, FilterReadback, world
<1>2. CASE FilterSucceeds
  BY <1>1, <1>2, FilterSucceedsSafely
<1>3. CASE FilterFails
  BY <1>1, <1>3, FilterFailsSafely
<1>4. CASE Then("filterReadback", site) /\ UNCHANGED locals
  <2>1. UNCHANGED <<changes, later>> /\ pc' = "filterReadback" /\ site' = site
    BY <1>4 DEF Then, Goto, locals
  <2>2. Pending'
    BY <2>1 DEF SafeInv, Pending
  <2> QED
    BY <1>1, <2>1, <2>2, QuietCall
<1> QED
  BY <1>2, <1>3, <1>4 DEF reconcilePacketFilter, FilterReadback

(* planRouting: the plan that is about to be written is safe for the       *)
(* kernel that was read.                                                   *)
LEMMA PlanStep == SafeInv /\ planRouting => SafeInv'
<1> SUFFICES ASSUME SafeInv, planRouting
             PROVE  SafeInv'
  OBVIOUS
<1> DEFINE plan == DiffRouting(RoutingGoal, rt)
<1>1. rt' = rt
  BY DEF planRouting, world
<1>2. PlanSafe(rt, plan)
  BY GoalIsSafe, DiffIsSafe DEF SafeInv
<1>3. \/ RoutingSucceeds
      \/ RoutingFails
      \/ /\ ~(plan = NoChanges /\ site # "desired")
         /\ changes' = plan /\ later' = later
         /\ Then(IF site = "desired" THEN "observe" ELSE "write", site)
  BY DEF planRouting
<1> HIDE DEF plan
<1>4. CASE RoutingSucceeds
  BY <1>1, <1>4, SucceededRoutingIsSafe
<1>5. CASE RoutingFails
  BY <1>1, <1>5, FailedRoutingIsSafe DEF SafeInv
<1>6. CASE /\ ~(plan = NoChanges /\ site # "desired")
           /\ changes' = plan /\ later' = later
           /\ Then(IF site = "desired" THEN "observe" ELSE "write", site)
  <2>1. Pending'
    BY <1>6 DEF SafeInv, planRouting, Then, Goto, Pending
  <2> QED
    BY <1>1, <1>2, <1>6, <2>1 DEF SafeInv
<1> QED
  BY <1>3, <1>4, <1>5, <1>6

(* ApplyRouting: one netlink call, which may fail, and the rest of the     *)
(* plan stays safe.                                                        *)
LEMMA WriteStep == SafeInv /\ ApplyRouting => SafeInv'
<1> SUFFICES ASSUME SafeInv, ApplyRouting
             PROVE  SafeInv'
  OBVIOUS
<1> DEFINE next == Write(rt, changes)
<1>1. KernelSafe(next.rt) /\ PlanSafe(next.rt, next.changes)
  BY WriteIsSafe DEF SafeInv, Pending, ApplyRouting
<1>2. \/ /\ rt' = next.rt /\ changes' = next.changes /\ later' = later
         /\ Then(IF changes' = NoChanges THEN "readback" ELSE "write", site)
      \/ RoutingFails /\ rt' \in {rt, next.rt}
  BY DEF ApplyRouting
<1> HIDE DEF next
<1>3. CASE /\ rt' = next.rt /\ changes' = next.changes /\ later' = later
           /\ Then(IF changes' = NoChanges THEN "readback" ELSE "write", site)
  <2>1. Pending'
    BY <1>3 DEF SafeInv, Pending, Then, Goto, ApplyRouting
  <2> QED
    BY <1>1, <1>3, <2>1 DEF SafeInv
<1>4. CASE RoutingFails /\ rt' \in {rt, next.rt}
  BY <1>1, <1>4, FailedRoutingIsSafe DEF SafeInv
<1> QED
  BY <1>2, <1>3, <1>4

(* verifyRouting and its second reading after a recovery write nothing.    *)
LEMMA ReadbackStep == SafeInv /\ (verifyRouting \/ ReverifyRecovery) => SafeInv'
<1> SUFFICES ASSUME SafeInv, verifyRouting \/ ReverifyRecovery
             PROVE  SafeInv'
  OBVIOUS
<1>1. rt' = rt
  BY DEF verifyRouting, ReverifyRecovery, world
<1>2. CASE RoutingSucceeds
  BY <1>1, <1>2, SucceededRoutingIsSafe
<1>3. CASE RoutingFails
  BY <1>1, <1>3, FailedRoutingIsSafe DEF SafeInv
<1>4. CASE Then("readPreferences", "none") /\ UNCHANGED locals
  <2>1. UNCHANGED <<changes, later>> /\ Pending'
    BY <1>4 DEF Then, Goto, locals, Pending
  <2> QED
    BY <1>1, <2>1, QuietCall
<1> QED
  BY <1>2, <1>3, <1>4 DEF verifyRouting, ReverifyRecovery

(* The calls that begin an operation.                                      *)
LEMMA BeginStep ==
  SafeInv /\ (BeginPrepare \/ BeginReconcile \/ BeginFailClosed \/ BeginShutdown) => SafeInv'
<1> SUFFICES ASSUME SafeInv, BeginPrepare \/ BeginReconcile \/ BeginFailClosed \/ BeginShutdown
             PROVE  SafeInv'
  OBVIOUS
<1>1. rt' = rt
  BY DEF BeginPrepare, BeginReconcile, BeginFailClosed, BeginShutdown, world
<1>2. CASE BeginPrepare \/ BeginReconcile
  <2>1. changes' = NoChanges /\ later' = NoChanges /\ Pending'
    BY <1>2 DEF BeginPrepare, BeginReconcile, Begin, Forget, Goto, Pending
  <2> QED
    BY <1>1, <2>1, QuietCall
<1>3. CASE BeginFailClosed \/ BeginShutdown
  BY <1>1, <1>3, EntersFailClosed, QuietCall DEF BeginFailClosed, BeginShutdown
<1> QED
  BY <1>2, <1>3

(* Prepare's discovery of the proxy tunnel.                                *)
LEMMA PrepareStep == SafeInv /\ PrepareDiscovers => SafeInv'
<1> SUFFICES ASSUME SafeInv, PrepareDiscovers
             PROVE  SafeInv'
  OBVIOUS
<1>1. rt' = rt
  BY DEF PrepareDiscovers, world
<1>2. CASE PrepareSucceeds
  BY <1>1, <1>2, Returns, QuietCall
<1>3. CASE PrepareFails
  BY <1>1, <1>3, EntersFailClosed, QuietCall DEF PrepareFails
<1>4. CASE Then("plan", "prepared") /\ UNCHANGED <<changes, later>>
  <2>1. Pending'
    BY <1>4 DEF Then, Goto, Pending
  <2> QED
    BY <1>1, <1>4, <2>1, QuietCall
<1> QED
  BY <1>2, <1>3, <1>4 DEF PrepareDiscovers

(* The reads of the Tailscale state, of the snapshot and of fail-closed's  *)
(* live state.                                                             *)
LEMMA DiscoverStep == SafeInv /\ (ReadTailnetState \/ Discover \/ liveFailClosedState) => SafeInv'
<1> SUFFICES ASSUME SafeInv, ReadTailnetState \/ Discover \/ liveFailClosedState
             PROVE  SafeInv'
  OBVIOUS
<1>1. rt' = rt
  BY DEF ReadTailnetState, Discover, liveFailClosedState, world
<1>2. CASE ReconcileFails
  BY <1>1, <1>2, Returns, QuietCall
<1>3. CASE ~ReconcileFails
  <2>1. \/ UNCHANGED <<changes, later>>
        \/ changes' = NoChanges /\ later' = NoChanges
    BY <1>3 DEF ReadTailnetState, Discover, liveFailClosedState, Forget
  <2>2. pc' # "write" /\ site' # "withdraw"
    BY <1>3 DEF ReadTailnetState, Discover, liveFailClosedState, Then, End, Goto
  <2>3. Pending'
    BY <2>2 DEF Pending
  <2> QED
    BY <1>1, <2>1, <2>3, QuietCall
<1> QED
  BY <1>2, <1>3

(* The observation of nftables before the gate is moved.                   *)
LEMMA ObserveStep == SafeInv /\ ObservePacketFilter => SafeInv'
<1> SUFFICES ASSUME SafeInv, ObservePacketFilter
             PROVE  SafeInv'
  OBVIOUS
<1>1. rt' = rt
  BY DEF ObservePacketFilter, world
<1>2. CASE ReconcileFails \/ finalizeSuccessfulReconcile
  BY <1>1, <1>2, Returns, QuietCall, Zenon
<1>3. CASE /\ Then("verifyRouting", "noDrift") \/ Then("filter", "close")
           /\ UNCHANGED locals
  <2>1. UNCHANGED <<changes, later>> /\ Pending'
    BY <1>3 DEF Then, Goto, locals, Pending
  <2> QED
    BY <1>1, <2>1, QuietCall
<1>4. CASE reconcileIsolatedExitDefaultTransition
  <2>1. changes # NoChanges
    BY <1>4 DEF reconcileIsolatedExitDefaultTransition, onlyExitDefaultRoutesChanged
  <2>2. CASE Then("publish", "withdraw") /\ UNCHANGED <<changes, later>>
    <3>1. Pending'
      BY <2>1, <2>2 DEF Then, Goto, Pending
    <3> QED
      BY <1>1, <2>2, <3>1, QuietCall
  <2>3. CASE applyExitDefaultRouteTransition
    BY <1>1, <2>1, <2>3, TransitionIsSafe
  <2> QED
    BY <1>4, <2>2, <2>3 DEF reconcileIsolatedExitDefaultTransition
<1> QED
  BY <1>2, <1>3, <1>4 DEF ObservePacketFilter, reconcileNoDrift, reconcileGlobalDrift

(* The last verification of a pass.                                        *)
LEMMA VerifyStep ==
  SafeInv /\ (VerifyRoutingAgain \/ VerifyFilterAgain \/ RefreshApprovals) => SafeInv'
<1> SUFFICES ASSUME SafeInv, VerifyRoutingAgain \/ VerifyFilterAgain \/ RefreshApprovals
             PROVE  SafeInv'
  OBVIOUS
<1>1. rt' = rt
  BY DEF VerifyRoutingAgain, VerifyFilterAgain, RefreshApprovals, world
<1>2. CASE ReconcileFails \/ finalizeSuccessfulReconcile
  BY <1>1, <1>2, Returns, QuietCall, Zenon
<1>3. CASE /\ \E p \in {"verifyFilter", "publish", "refresh"} : Then(p, site)
           /\ UNCHANGED locals
  <2>1. /\ UNCHANGED <<changes, later>> /\ site' = site
        /\ pc' \in {"verifyFilter", "publish", "refresh"}
    BY <1>3 DEF Then, Goto, locals
  <2>2. Pending'
    BY <2>1 DEF SafeInv, Pending
  <2> QED
    BY <1>1, <2>1, <2>2, QuietCall
<1> QED
  BY <1>2, <1>3 DEF VerifyRoutingAgain, VerifyFilterAgain, RefreshApprovals

(* Writing the preferences and reading them back.                          *)
LEMMA PreferencesStep == SafeInv /\ (WritePreferences \/ PreferencesReadback) => SafeInv'
<1> SUFFICES ASSUME SafeInv, WritePreferences \/ PreferencesReadback
             PROVE  SafeInv'
  OBVIOUS
<1>1. rt' = rt
  BY DEF WritePreferences, PreferencesReadback, world
<1>2. CASE PreferencesFail
  BY <1>1, <1>2, Returns, QuietCall, Zenon DEF PreferencesFail
<1>3. CASE Then("preferencesReadback", site) /\ UNCHANGED locals
  <2>1. UNCHANGED <<changes, later>> /\ site' = site /\ pc' = "preferencesReadback"
    BY <1>3 DEF Then, Goto, locals
  <2>2. Pending'
    BY <2>1 DEF SafeInv, Pending
  <2> QED
    BY <1>1, <2>1, <2>2, QuietCall
<1>4. CASE PreferencesSucceed
  <2>1. CASE finalizeSuccessfulReconcile \/ FailClosedReturns(err)
    BY <1>1, <2>1, Returns, QuietCall, Zenon
  <2>2. CASE site = "withdraw" /\ applyExitDefaultRouteTransition
    BY <1>1, <2>2, TransitionIsSafe DEF SafeInv, Pending
  <2>3. CASE (Then("discover", "none") \/ ApplyPlan) /\ UNCHANGED <<changes, later>>
    <3>1. Pending'
      BY <2>3 DEF ApplyPlan, Then, Goto, Pending
    <3> QED
      BY <1>1, <2>3, <3>1, QuietCall
  <2> QED
    BY <1>4, <2>1, <2>2, <2>3 DEF PreferencesSucceed
<1> QED
  BY <1>2, <1>3, <1>4 DEF WritePreferences, PreferencesReadback

(* fail-closed's own reading of the preferences, and its cancellation.     *)
LEMMA FailClosedStep == SafeInv /\ (FailClosedReadsPreferences \/ FailClosedAborts) => SafeInv'
<1> SUFFICES ASSUME SafeInv, FailClosedReadsPreferences \/ FailClosedAborts
             PROVE  SafeInv'
  OBVIOUS
<1>1. rt' = rt
  BY Zenon DEF FailClosedReadsPreferences, FailClosedAborts, world
<1>2. CASE FailClosedReturns(err) \/ FailClosedReturns(TRUE)
  BY <1>1, <1>2, Returns, QuietCall, Zenon
<1>3. CASE Then("publish", "disable") /\ UNCHANGED locals
  <2>1. UNCHANGED <<changes, later>> /\ Pending'
    BY <1>3 DEF Then, Goto, locals, Pending
  <2> QED
    BY <1>1, <2>1, QuietCall
<1> QED
  BY <1>2, <1>3, Zenon DEF FailClosedReadsPreferences, FailClosedAborts

(* The kernel drops the routes of a link, and no blackhole has one.        *)
LEMMA LinkLossIsSafe ==
  ASSUME SafeInv, NEW link, rt' = WithoutLink(link), UNCHANGED <<pc, site, locals>>
  PROVE  SafeInv'
<1>1. rt' = [routes |-> {r \in rt.routes : r.link # link \/ link = NoLink}, rules |-> rt.rules]
  BY DEF WithoutLink, SafeInv, KernelSafe, IsKernel
<1>2. \A b \in Floor : b \in rt.routes => b \in rt'.routes
  BY <1>1, BlackholeFacts DEF Floor
<1>3. KernelSafe(rt')
  BY <1>1, <1>2, RuleFloor DEF SafeInv, KernelSafe, IsKernel
<1>4. UNCHANGED <<changes, later>>
  BY DEF locals
<1>5. PlanSafe(rt', changes')
  BY <1>2, <1>4 DEF SafeInv, PlanSafe
<1> QED
  BY <1>3, <1>4, <1>5 DEF SafeInv, Pending

(* Interfaces that are replaced, edits from outside, and the death and     *)
(* restart of the process.                                                 *)
LEMMA WorldStep ==
  SafeInv /\ (ProxyReplaced \/ TailnetReplaced \/ CapabilityChanges \/ PreferencesEdited
               \/ NftablesFlushed \/ Killed \/ Restarted) => SafeInv'
<1> SUFFICES ASSUME SafeInv,
                    ProxyReplaced \/ TailnetReplaced \/ CapabilityChanges \/ PreferencesEdited
                      \/ NftablesFlushed \/ Killed \/ Restarted
             PROVE  SafeInv'
  OBVIOUS
<1>1. CASE ProxyReplaced \/ TailnetReplaced
  BY <1>1, LinkLossIsSafe DEF ProxyReplaced, TailnetReplaced, Drift
<1>2. CASE CapabilityChanges \/ PreferencesEdited \/ NftablesFlushed
  <2>1. UNCHANGED <<rt, pc, site, changes, later>>
    BY <1>2 DEF CapabilityChanges, PreferencesEdited, NftablesFlushed, Drift, locals
  <2>2. Pending'
    BY <2>1 DEF SafeInv, Pending
  <2> QED
    BY <2>1, <2>2, QuietCall
<1>3. CASE Killed \/ Restarted
  <2>1. rt' = rt /\ changes' = NoChanges /\ later' = NoChanges /\ Pending'
    BY <1>3 DEF Killed, Restarted, NewProcess, Forget, Goto, Pending, world
  <2> QED
    BY <2>1, QuietCall
<1> QED
  BY <1>1, <1>2, <1>3

(* Every step keeps the floor and every plan safe.                         *)
LEMMA NextSafe == SafeInv /\ [Next]_vars => SafeInv'
<1> SUFFICES ASSUME SafeInv, [Next]_vars
             PROVE  SafeInv'
  OBVIOUS
<1>1. CASE UNCHANGED vars
  <2>1. UNCHANGED <<rt, pc, site, changes, later>>
    BY <1>1 DEF vars, world, locals
  <2>2. Pending'
    BY <2>1 DEF SafeInv, Pending
  <2> QED
    BY <2>1, <2>2, QuietCall
<1>2. CASE Next
  BY <1>2, FilterStep, PlanStep, WriteStep, ReadbackStep, BeginStep, PrepareStep, DiscoverStep,
     ObserveStep, VerifyStep, PreferencesStep, FailClosedStep, WorldStep
     DEF Next, Step
<1> QED
  BY <1>1, <1>2

-----------------------------------------------------------------------------
(* What a step can do to the world, and to the budget.                     *)
LEMMA WorldSteps ==
  ASSUME [Next]_vars
  PROVE  /\ \/ UNCHANGED rt
            \/ pc = "write" /\ rt' = Write(rt, changes).rt
            \/ disturbed' /\ \E link : rt' = WithoutLink(link)
         /\ \/ UNCHANGED nft
            \/ pc = "filter" /\ nft' = FilterGoal
            \/ disturbed' /\ nft' = NoTables
         /\ \/ UNCHANGED prefs
            \/ pc = "publish" /\ prefs' = PreferencesGoal
            \/ disturbed' /\ prefs' \subseteq Subnets \cup Families
         /\ \/ UNCHANGED <<proxy, tailnet, active>>
            \/ /\ disturbed' /\ proxy' \in ProxyLinks \cup {NoLink, proxy}
               /\ tailnet' \in TailnetLinks \cup {NoLink, tailnet}
               /\ active' = active \/ active' \subseteq Families
         /\ left' = left \/ (left > 0 /\ left' = left - 1)
<1> USE DEF Next, Step, vars, world, BeginPrepare, BeginReconcile, BeginFailClosed, BeginShutdown,
      reconcilePacketFilter, FilterReadback, planRouting, ApplyRouting, verifyRouting,
      PrepareDiscovers, ReadTailnetState, Discover, ObservePacketFilter, VerifyRoutingAgain,
      VerifyFilterAgain, RefreshApprovals, WritePreferences, PreferencesReadback,
      liveFailClosedState, ReverifyRecovery, FailClosedReadsPreferences, FailClosedAborts,
      ProxyReplaced, TailnetReplaced, CapabilityChanges, PreferencesEdited, NftablesFlushed,
      Killed, Restarted, NewProcess
<1>1. \/ UNCHANGED rt
      \/ pc = "write" /\ rt' = Write(rt, changes).rt
      \/ disturbed' /\ \E link : rt' = WithoutLink(link)
  BY Zenon DEF Drift
<1>2. \/ UNCHANGED nft
      \/ pc = "filter" /\ nft' = FilterGoal
      \/ disturbed' /\ nft' = NoTables
  BY Zenon DEF Apply, Drift
<1>3. \/ UNCHANGED prefs
      \/ pc = "publish" /\ prefs' = PreferencesGoal
      \/ disturbed' /\ prefs' \subseteq Subnets \cup Families
  BY Zenon DEF EditPrefs, Drift
<1>4. \/ UNCHANGED <<proxy, tailnet, active>>
      \/ /\ disturbed' /\ proxy' \in ProxyLinks \cup {NoLink, proxy}
         /\ tailnet' \in TailnetLinks \cup {NoLink, tailnet}
         /\ active' = active \/ active' \subseteq Families
  BY Zenon DEF Drift
<1>5. left' = left \/ (left > 0 /\ left' = left - 1)
  BY Zenon DEF Disturb, Drift
<1> QED
  BY <1>1, <1>2, <1>3, <1>4, <1>5, Zenon

-----------------------------------------------------------------------------
(* Types.                                                                  *)

IsTyped(goal) == goal.routes \subseteq RouteType /\ goal.rules \subseteq RuleType

MemoryOK ==
  /\ quarantined \in BOOLEAN /\ hasPacketPolicy \in BOOLEAN
  /\ hasPacketPolicy => lastPacketPolicy \in Policies
  /\ ~hasPacketPolicy => lastPacketPolicy = NoTables
  /\ op \in {"failClosed", "shutdown"} => hasPacketPolicy /\ lastPacketPolicy.gateClosed
  /\ lastTailnetLink \in TailnetLinks \cup {NoLink}

WorldOK ==
  /\ IsTyped(rt)
  /\ nft \in Policies \cup {NoTables}
  /\ prefs \subseteq Subnets \cup Families
  /\ proxy \in ProxyLinks \cup {NoLink} /\ tailnet \in TailnetLinks \cup {NoLink}
  /\ active \subseteq Families
  /\ left \in 0..MaxDisturbances

(* A plan for the desired routing is made for a tunnel that was found.     *)
LocalsOK ==
  /\ seen \subseteq Subnets \cup Families
  /\ snap \in Snapshots
  /\ changes \in ChangesType /\ later \in ChangesType
  /\ pc = "plan" /\ site = "desired" => snap.tailnet # NoLink

TypeInv == Control /\ Flags /\ MemoryOK /\ WorldOK /\ LocalsOK

(* The invariant on types contains TypeOK.                                 *)
LEMMA TypeInvImplies == TypeInv => TypeOK
<1> SUFFICES ASSUME TypeInv PROVE TypeOK
  OBVIOUS
<1>1. <<pc, site>> \in Places
  <2>1. CASE op \in {"none", "prepare"}
    BY <2>1 DEF TypeInv, Control, Places
  <2>2. CASE op = "reconcile"
    BY <2>2 DEF TypeInv, Control, Places
  <2>3. CASE op \in {"failClosed", "shutdown"}
    BY <2>3 DEF TypeInv, Control, Places
  <2> QED
    BY <2>1, <2>2, <2>3 DEF TypeInv, Control
<1>2. op \in {"none", "prepare", "reconcile", "failClosed", "shutdown"}
  BY DEF TypeInv, Control
<1> QED
  BY <1>1, <1>2 DEF TypeInv, TypeOK, Flags, MemoryOK, WorldOK, LocalsOK, IsTyped

(* An empty plan is a plan.                                                *)
LEMMA NoChangesTyped == NoChanges \in ChangesType
BY DEF NoChanges, ChangesType

(* The first state of the gateway is well typed.                           *)
LEMMA InitTypes == Init => TypeInv
<1> SUFFICES ASSUME Init PROVE TypeInv
  OBVIOUS
<1>1. Control /\ Flags
  BY InitControl
<1>2. MemoryOK
  BY Zenon DEF Init, MemoryOK
<1>3. WorldOK
  BY ReconcilerAssumption DEF Init, WorldOK, IsTyped
<1>4. LocalsOK
  BY NoChangesTyped DEF Init, LocalsOK, NoSnapshot, Snapshots
<1> QED
  BY <1>1, <1>2, <1>3, <1>4 DEF TypeInv

(* What reconcilePacketFilter is asked for is a policy.                    *)
LEMMA FilterGoalTyped ==
  ASSUME MemoryOK, Control, pc \in {"filter", "filterReadback"}
  PROVE  FilterGoal \in Policies
<1> USE DEF FilterGoal, packetFilterPolicy, desiredPolicy, safetyPacketFilterPolicy, Policies
<1>1. CASE site = "quarantine"
  BY <1>1
<1>2. CASE site \in {"mark", "recover"}
  BY <1>2, ConfigurationAssumption, Zenon
<1>3. CASE site \in {"close", "open"}
  BY <1>3, ConfigurationAssumption, Zenon
<1>4. CASE site = "failClosed"
  BY <1>4, Zenon DEF MemoryOK, Control
<1> QED
  BY <1>1, <1>2, <1>3, <1>4, Zenon DEF Control

(* The policies failClosed enters with.                                    *)
LEMMA ClosedPolicy ==
  ASSUME NEW p \in Policies
  PROVE  /\ [p EXCEPT !.gateClosed = TRUE] \in Policies
         /\ [p EXCEPT !.gateClosed = TRUE].gateClosed
BY Zenon DEF Policies

(* The Reconciler's fields keep their types from call to call.             *)
LEMMA NextMemory ==
  ASSUME Control, MemoryOK, WorldOK, [Next]_vars
  PROVE  MemoryOK'
<1>1. ASSUME NEW m, EnterFailClosed(m)
      PROVE  MemoryOK'
  <2>1. safetyPacketFilterPolicy \in Policies /\ safetyPacketFilterPolicy.gateClosed
    BY DEF safetyPacketFilterPolicy, Policies
  <2>2. lastPacketPolicy' \in Policies /\ lastPacketPolicy'.gateClosed
    BY <1>1, <2>1, ClosedPolicy DEF EnterFailClosed, MemoryOK
  <2> QED
    BY <1>1, <2>2 DEF EnterFailClosed, MemoryOK
<1>2. ASSUME UNCHANGED memory,
             op' \in {"failClosed", "shutdown"} => op \in {"failClosed", "shutdown"}
      PROVE  MemoryOK'
  BY <1>2 DEF memory, MemoryOK
<1>3. ASSUME ReconcileFails \/ FailClosedReturns(TRUE) \/ FailClosedReturns(err)
      PROVE  MemoryOK'
  BY <1>2, <1>3 DEF ReconcileFails, FailClosedReturns, End
<1>4. ASSUME finalizeSuccessfulReconcile
      PROVE  MemoryOK'
  <2>1. desiredPolicy \in Policies
    BY ConfigurationAssumption, Zenon
    DEF desiredPolicy, packetFilterPolicy, safetyPacketFilterPolicy, Policies
  <2> QED
    BY <1>4, <2>1, Zenon DEF finalizeSuccessfulReconcile, End, MemoryOK
<1>5. ASSUME FilterSucceeds, pc \in {"filter", "filterReadback"}
      PROVE  MemoryOK'
  <2>1. CASE site \in {"open", "failClosed"}
    BY <1>2, <1>5, <2>1 DEF FilterSucceeds, Then
  <2>2. CASE site \in {"quarantine", "mark", "close", "recover"}
    <3>1. Remember(FilterGoal) /\ (op' \in {op, "none"})
      BY <1>5, <2>2 DEF FilterSucceeds, Then, ApplyPlan, PrepareSucceeds, End
    <3>2. op \in {"failClosed", "shutdown"} => FilterGoal.gateClosed
      BY <1>5, <2>2 DEF Control, FilterGoal, packetFilterPolicy, safetyPacketFilterPolicy
    <3> QED
      BY <1>5, <3>1, <3>2, FilterGoalTyped DEF Remember, MemoryOK
  <2> QED
    BY <1>5, <2>1, <2>2 DEF FilterSucceeds
<1>6. ASSUME FilterFails
      PROVE  MemoryOK'
  BY <1>1, <1>2, <1>3, <1>6, Zenon DEF FilterFails, PrepareFails, Then
<1>7. ASSUME RoutingFails
      PROVE  MemoryOK'
  BY <1>1, <1>2, <1>3, <1>7, Zenon DEF RoutingFails, PrepareFails, Then
<1>8. CASE BeginPrepare \/ BeginReconcile
  BY <1>2, <1>8 DEF BeginPrepare, BeginReconcile, Begin
<1>9. CASE BeginFailClosed \/ BeginShutdown
  BY <1>1, <1>9 DEF BeginFailClosed, BeginShutdown
<1>10. CASE reconcilePacketFilter \/ FilterReadback
  BY <1>2, <1>5, <1>6, <1>10 DEF reconcilePacketFilter, FilterReadback, Then
<1>11. CASE planRouting \/ verifyRouting \/ ReverifyRecovery
  BY <1>2, <1>7, <1>11 DEF planRouting, verifyRouting, ReverifyRecovery, RoutingSucceeds, Then
<1>12. CASE ApplyRouting
  BY <1>2, <1>7, <1>12 DEF ApplyRouting, Then
<1>13. CASE PrepareDiscovers
  BY <1>1, <1>2, <1>13 DEF PrepareDiscovers, PrepareFails, PrepareSucceeds, End, Then
<1>14. CASE ReadTailnetState
  BY <1>2, <1>3, <1>14, Zenon DEF ReadTailnetState, Then
<1>15. CASE Discover
  <2>1. \/ ReconcileFails
        \/ /\ lastTailnetLink' = tailnet /\ op' \in {op, "none"}
           /\ UNCHANGED <<quarantined, lastPacketPolicy, hasPacketPolicy>>
    BY <1>15 DEF Discover, Then, End
  <2>2. tailnet \in TailnetLinks \cup {NoLink}
    BY DEF WorldOK
  <2>3. CASE /\ lastTailnetLink' = tailnet /\ op' \in {op, "none"}
             /\ UNCHANGED <<quarantined, lastPacketPolicy, hasPacketPolicy>>
    BY <2>2, <2>3 DEF MemoryOK
  <2> QED
    BY <1>3, <2>1, <2>3, Zenon
<1>16. CASE ObservePacketFilter
  BY <1>2, <1>3, <1>4, <1>16, Zenon
  DEF ObservePacketFilter, reconcileNoDrift, reconcileGlobalDrift,
      reconcileIsolatedExitDefaultTransition, applyExitDefaultRouteTransition, Then
<1>17. CASE VerifyRoutingAgain \/ VerifyFilterAgain \/ RefreshApprovals
  BY <1>2, <1>3, <1>4, <1>17, Zenon
  DEF VerifyRoutingAgain, VerifyFilterAgain, RefreshApprovals, Then
<1>18. CASE WritePreferences \/ PreferencesReadback
  BY <1>2, <1>3, <1>4, <1>18, Zenon DEF WritePreferences, PreferencesReadback, PreferencesFail,
     PreferencesSucceed, applyExitDefaultRouteTransition, ApplyPlan, Then
<1>19. CASE liveFailClosedState \/ FailClosedReadsPreferences \/ FailClosedAborts
  BY <1>2, <1>3, <1>19, Zenon
  DEF liveFailClosedState, FailClosedReadsPreferences, FailClosedAborts, Then
<1>20. CASE ProxyReplaced \/ TailnetReplaced \/ CapabilityChanges \/ PreferencesEdited
              \/ NftablesFlushed
  BY <1>2, <1>20 DEF ProxyReplaced, TailnetReplaced, CapabilityChanges, PreferencesEdited,
     NftablesFlushed, Drift
<1>21. CASE Killed \/ Restarted
  BY <1>21, Zenon DEF Killed, Restarted, NewProcess, MemoryOK
<1>22. CASE UNCHANGED vars
  BY <1>2, <1>22 DEF vars
<1> QED
  BY <1>8, <1>9, <1>10, <1>11, <1>12, <1>13, <1>14, <1>15, <1>16, <1>17, <1>18, <1>19, <1>20,
     <1>21, <1>22 DEF Next, Step

(* The states the builders ask for are made of managed routes and rules.   *)
LEMMA SafetyTyped == IsTyped(buildSafetyRouting)
BY DEF IsTyped, buildSafetyRouting, blackholeRoute, markRule, RouteType, RuleType, Tables,
       Families

(* The types of the routes and rules that the builders compose:            *)
(* activeRoute,                                                            *)
LEMMA ActiveTyped ==
  ASSUME NEW f \in Families, NEW t \in Tables,
         NEW p \in {"default", "tailnet"} \cup Subnets \cup NameServers,
         NEW l \in {NoLink, Uplink} \cup ProxyLinks \cup TailnetLinks
  PROVE  activeRoute(f, t, p, l) \in RouteType
BY DEF activeRoute, RouteType

(* buildPreparedRouting,                                                   *)
LEMMA PreparedTyped ==
  ASSUME NEW link \in ProxyLinks \cup {NoLink}
  PROVE  IsTyped(buildPreparedRouting(link))
<1>1. \A f \in Families : activeRoute(f, "local", "default", link) \in RouteType
  BY ActiveTyped DEF Tables
<1> QED
  BY <1>1, SafetyTyped, PreparedParts DEF IsTyped

(* exitRules,                                                              *)
LEMMA ExitRulesTyped ==
  ASSUME NEW link \in TailnetLinks
  PROVE  exitRules(link) \subseteq RuleType
BY DEF exitRules, exitRule, RuleType, Tables

(* buildFailClosedRouting                                                  *)
LEMMA FailClosedTyped ==
  ASSUME NEW link \in TailnetLinks \cup {NoLink}, NEW lane \in ProxyLinks \cup {NoLink}
  PROVE  IsTyped(buildFailClosedRouting(link, lane))
<1>1. IsTyped(buildPreparedRouting(lane)) /\ (link # NoLink => exitRules(link) \subseteq RuleType)
  BY PreparedTyped, ExitRulesTyped
<1> QED
  BY <1>1, FailClosedParts, Zenon DEF IsTyped

(* and buildDesiredRouting, which needs the tailnet interface.             *)
LEMMA DesiredTyped ==
  ASSUME NEW s \in Snapshots, s.tailnet # NoLink
  PROVE  IsTyped(buildDesiredRouting(s))
<1> DEFINE goal     == buildDesiredRouting(s)
           prepared == buildPreparedRouting(s.proxy)
<1>1. /\ s.proxy \in ProxyLinks \cup {NoLink} /\ s.tailnet \in TailnetLinks
      /\ s.active \subseteq Families
  BY DEF Snapshots
<1>2. IsTyped(prepared) /\ exitRules(s.tailnet) \subseteq RuleType
  BY <1>1, PreparedTyped, ExitRulesTyped
<1>3. /\ \A f \in s.active : activeRoute(f, "exit", "default", s.proxy) \in RouteType
      /\ \A f \in Families : activeRoute(f, "exit", "tailnet", s.tailnet) \in RouteType
      /\ \A p \in Subnets \cup NameServers : activeRoute("ipv4", "exit", p, Uplink) \in RouteType
  BY <1>1, ActiveTyped, Zenon DEF Tables, Families
<1>4. goal.rules = prepared.rules \cup exitRules(s.tailnet)
  BY DEF buildDesiredRouting
<1>5. goal.routes \subseteq RouteType
  BY <1>2, <1>3 DEF buildDesiredRouting, IsTyped
<1> QED
  BY <1>2, <1>4, <1>5 DEF IsTyped

(* The snapshot has a tailnet interface wherever buildDesiredRouting is    *)
(* called.                                                                 *)
LEMMA RoutingGoalTyped ==
  ASSUME TypeInv, pc = "plan"
  PROVE  IsTyped(RoutingGoal)
<1>1. /\ snap \in Snapshots /\ snap.proxy \in ProxyLinks \cup {NoLink}
      /\ lastTailnetLink \in TailnetLinks \cup {NoLink}
  BY DEF TypeInv, MemoryOK, LocalsOK, Snapshots
<1>2. CASE site = "safety"
  BY <1>2, SafetyTyped DEF RoutingGoal
<1>3. CASE site = "prepared"
  BY <1>1, <1>3, PreparedTyped DEF RoutingGoal
<1>4. CASE site = "recovery"
  BY <1>1, <1>4, FailClosedTyped DEF RoutingGoal
<1>5. CASE site \in {"strict", "fallback"}
  BY <1>1, <1>5, FailClosedTyped DEF RoutingGoal
<1>6. CASE site = "desired"
  BY <1>1, <1>6, DesiredTyped DEF RoutingGoal, TypeInv, LocalsOK
<1> QED
  BY <1>2, <1>3, <1>4, <1>5, <1>6 DEF TypeInv, Control

(* The kernel drops routes, and no rule, with an interface.                *)
LEMMA WithoutLinkParts ==
  ASSUME NEW link, IsKernel(rt)
  PROVE  /\ WithoutLink(link).routes \subseteq rt.routes
         /\ WithoutLink(link).rules = rt.rules
         /\ IsKernel(WithoutLink(link))
<1>1. WithoutLink(link) = [routes |-> {r \in rt.routes : r.link # link \/ link = NoLink},
                           rules  |-> rt.rules]
  BY DEF WithoutLink, IsKernel
<1> QED
  BY <1>1 DEF IsKernel

(* The kernel's routes and rules, nftables and the preferences keep their  *)
(* types.                                                                  *)
LEMMA NextWorld ==
  ASSUME TypeInv, SafeInv, [Next]_vars
  PROVE  WorldOK'
<1>1. IsTyped(rt')
  <2>1. CASE UNCHANGED rt
    BY <2>1 DEF TypeInv, WorldOK
  <2>2. CASE pc = "write" /\ rt' = Write(rt, changes).rt
    <3>1. rt'.routes \subseteq rt.routes \cup changes.upsertRoutes
          /\ rt'.rules \subseteq rt.rules \cup changes.addRules
      BY <2>2, WriteBounds DEF SafeInv, KernelSafe, PlanSafe, Pending
    <3>2. changes.upsertRoutes \subseteq RouteType /\ changes.addRules \subseteq RuleType
      BY DEF TypeInv, LocalsOK, ChangesType
    <3> QED
      BY <3>1, <3>2 DEF TypeInv, WorldOK, IsTyped
  <2>3. CASE \E link : rt' = WithoutLink(link)
    BY <2>3, WithoutLinkParts DEF SafeInv, KernelSafe, TypeInv, WorldOK, IsTyped
  <2> QED
    BY <2>1, <2>2, <2>3, WorldSteps
<1>2. nft' \in Policies \cup {NoTables}
  BY WorldSteps, FilterGoalTyped DEF TypeInv, WorldOK
<1>3. prefs' \subseteq Subnets \cup Families
  <2>1. PreferencesGoal \subseteq Subnets \cup Families
    BY DEF PreferencesGoal, desiredPreferences
  <2> QED
    BY <2>1, WorldSteps DEF TypeInv, WorldOK
<1>4. /\ proxy' \in ProxyLinks \cup {NoLink} /\ tailnet' \in TailnetLinks \cup {NoLink}
      /\ active' \subseteq Families
  BY WorldSteps DEF TypeInv, WorldOK
<1>5. left' \in 0..MaxDisturbances
  BY WorldSteps, ReconcilerAssumption DEF TypeInv, WorldOK
<1> QED
  BY <1>1, <1>2, <1>3, <1>4, <1>5 DEF WorldOK

(* A plan is well typed if its five lists are.                             *)
LEMMA ChangesParts ==
  ASSUME NEW c, IsPlan(c)
  PROVE  c \in ChangesType <=>
           /\ c.upsertRoutes \subseteq RouteType /\ c.deleteRoutes \subseteq RouteType
           /\ c.addRules \subseteq RuleType /\ c.staleRules \subseteq RuleType
           /\ c.deleteRules \subseteq RuleType
BY DEF IsPlan, ChangesType

(* What is left of a plan after one netlink call is a plan.                *)
LEMMA WrittenPlanTyped ==
  ASSUME TypeInv, SafeInv, pc = "write"
  PROVE  Write(rt, changes).changes \in ChangesType
<1> DEFINE c == Write(rt, changes).changes
<1>1. /\ c.upsertRoutes \subseteq changes.upsertRoutes /\ c.addRules \subseteq changes.addRules
      /\ c.staleRules \subseteq changes.staleRules \cup changes.deleteRules
      /\ c.deleteRules \subseteq changes.deleteRules
      /\ c.deleteRoutes \subseteq changes.deleteRoutes /\ IsPlan(c)
  BY WriteBounds DEF SafeInv, KernelSafe, PlanSafe, Pending
<1>2. /\ changes.upsertRoutes \subseteq RouteType /\ changes.deleteRoutes \subseteq RouteType
      /\ changes.addRules \subseteq RuleType /\ changes.staleRules \subseteq RuleType
      /\ changes.deleteRules \subseteq RuleType
  BY ChangesParts DEF SafeInv, PlanSafe, TypeInv, LocalsOK
<1> HIDE DEF c
<1>3. c \in ChangesType
  BY <1>1, <1>2, ChangesParts
<1> QED
  BY <1>3 DEF c

(* DiffRouting makes a plan.                                               *)
LEMMA PlannedTyped ==
  ASSUME TypeInv, SafeInv, pc = "plan"
  PROVE  DiffRouting(RoutingGoal, rt) \in ChangesType
<1>1. IsTyped(RoutingGoal) /\ IsTyped(rt)
  BY RoutingGoalTyped DEF TypeInv, WorldOK
<1> QED
  BY <1>1, DiffParts, ChangesParts DEF IsTyped

(* applyExitDefaultRouteTransition splits a typed plan into typed plans.   *)
LEMMA SplitTyped ==
  ASSUME TypeInv, applyExitDefaultRouteTransition
  PROVE  changes' \in ChangesType /\ later' \in ChangesType
BY DEF TypeInv, LocalsOK, applyExitDefaultRouteTransition, deactivationChanges,
       activationChanges, NoChanges, ChangesType

(* The local variables of the operation under way keep their types.        *)
LEMMA NextLocals ==
  ASSUME TypeInv, SafeInv, [Next]_vars
  PROVE  LocalsOK'
<1> USE DEF Then, Goto, End, Begin
<1>0. NoSnapshot \in Snapshots /\ NoChanges \in ChangesType
  BY NoChangesTyped DEF NoSnapshot, Snapshots
<1>1. ASSUME Forget
      PROVE  LocalsOK' \/ (pc' = "plan" /\ site' = "desired")
  BY <1>0, <1>1 DEF Forget, LocalsOK
<1>2. ASSUME \/ UNCHANGED locals
             \/ /\ UNCHANGED snap /\ seen' \subseteq Subnets \cup Families
                /\ changes' \in ChangesType /\ later' \in ChangesType,
             pc' # "plan" \/ site' # "desired" \/ (pc' = pc /\ site' = site)
      PROVE  LocalsOK'
  BY <1>2 DEF TypeInv, LocalsOK, locals
<1>3. ASSUME NEW m, EnterFailClosed(m)
      PROVE  LocalsOK'
  BY <1>1, <1>3 DEF EnterFailClosed
<1>4. ASSUME ReconcileFails \/ PrepareSucceeds \/ FailClosedReturns(TRUE) \/ FailClosedReturns(err)
      PROVE  LocalsOK'
  BY <1>1, <1>4 DEF ReconcileFails, PrepareSucceeds, FailClosedReturns
<1>5. ASSUME finalizeSuccessfulReconcile
      PROVE  LocalsOK'
  BY <1>0, <1>2, <1>5 DEF finalizeSuccessfulReconcile
<1>6. ASSUME FilterSucceeds
      PROVE  LocalsOK'
  BY <1>2, <1>4, <1>6, Zenon DEF FilterSucceeds, ApplyPlan
<1>7. ASSUME FilterFails
      PROVE  LocalsOK'
  BY <1>2, <1>3, <1>4, <1>7, Zenon DEF FilterFails, PrepareFails, TypeInv, LocalsOK
<1>8. ASSUME RoutingSucceeds
      PROVE  LocalsOK'
  BY <1>0, <1>2, <1>8 DEF RoutingSucceeds, TypeInv, LocalsOK
<1>9. ASSUME RoutingFails
      PROVE  LocalsOK'
  BY <1>0, <1>2, <1>3, <1>4, <1>9, Zenon DEF RoutingFails, PrepareFails, TypeInv, LocalsOK
<1>10. CASE BeginPrepare \/ BeginReconcile \/ BeginFailClosed \/ BeginShutdown
  BY <1>1, <1>3, <1>10 DEF BeginPrepare, BeginReconcile, BeginFailClosed, BeginShutdown
<1>11. CASE reconcilePacketFilter \/ FilterReadback
  BY <1>2, <1>6, <1>7, <1>11 DEF reconcilePacketFilter, FilterReadback
<1>12. CASE planRouting
  <2>1. \/ RoutingSucceeds \/ RoutingFails
        \/ /\ changes' = DiffRouting(RoutingGoal, rt) /\ UNCHANGED <<snap, seen, later>>
           /\ pc' # "plan"
    BY <1>12 DEF planRouting
  <2>2. DiffRouting(RoutingGoal, rt) \in ChangesType
    BY <1>12, PlannedTyped DEF planRouting
  <2> QED
    BY <1>2, <1>8, <1>9, <2>1, <2>2 DEF TypeInv, LocalsOK
<1>13. CASE ApplyRouting
  <2>1. \/ RoutingFails
        \/ /\ changes' = Write(rt, changes).changes /\ UNCHANGED <<snap, seen, later>>
           /\ pc' # "plan"
    BY <1>13 DEF ApplyRouting
  <2>2. Write(rt, changes).changes \in ChangesType
    BY <1>13, WrittenPlanTyped DEF ApplyRouting
  <2> QED
    BY <1>2, <1>9, <2>1, <2>2 DEF TypeInv, LocalsOK
<1>14. CASE verifyRouting \/ ReverifyRecovery
  BY <1>2, <1>8, <1>9, <1>14 DEF verifyRouting, ReverifyRecovery
<1>15. CASE PrepareDiscovers \/ liveFailClosedState
  <2>1. \/ PrepareSucceeds \/ \E m : EnterFailClosed(m)
        \/ /\ snap' = [snap EXCEPT !.proxy = proxy] /\ UNCHANGED <<seen, changes, later>>
           /\ site' # "desired"
        \/ UNCHANGED <<snap, seen, changes, later>> /\ site' # "desired"
    BY <1>15 DEF PrepareDiscovers, liveFailClosedState, PrepareFails
  <2>2. [snap EXCEPT !.proxy = proxy] \in Snapshots
    BY DEF TypeInv, LocalsOK, WorldOK, Snapshots
  <2> QED
    BY <1>3, <1>4, <2>1, <2>2, Zenon DEF TypeInv, LocalsOK
<1>16. CASE ReadTailnetState
  BY <1>2, <1>4, <1>16, Zenon DEF ReadTailnetState, readTailnetState, TypeInv, LocalsOK, WorldOK
<1>17. CASE Discover
  <2> DEFINE found == [proxy |-> proxy, tailnet |-> tailnet,
                       active |-> IF AdvertiseExitNode THEN active ELSE {}]
  <2>1. \/ ReconcileFails
        \/ Forget /\ pc' = "failed"
        \/ tailnet # NoLink /\ snap' = found /\ UNCHANGED <<seen, changes, later>>
    BY <1>17 DEF Discover, DiscoverNetwork
  <2>2. found \in Snapshots /\ found.tailnet = tailnet
    BY DEF TypeInv, WorldOK, Snapshots
  <2> HIDE DEF found
  <2> QED
    BY <1>1, <1>4, <2>1, <2>2, Zenon DEF TypeInv, LocalsOK
<1>18. CASE ObservePacketFilter
  <2>1. CASE reconcileIsolatedExitDefaultTransition
    BY <1>2, <2>1, SplitTyped DEF reconcileIsolatedExitDefaultTransition,
       applyExitDefaultRouteTransition, TypeInv, LocalsOK
  <2> QED
    BY <1>2, <1>4, <1>5, <1>18, <2>1, Zenon
    DEF ObservePacketFilter, reconcileNoDrift, reconcileGlobalDrift
<1>19. CASE VerifyRoutingAgain \/ VerifyFilterAgain \/ RefreshApprovals
  BY <1>2, <1>4, <1>5, <1>19, Zenon DEF VerifyRoutingAgain, VerifyFilterAgain, RefreshApprovals
<1>20. CASE WritePreferences
  BY <1>2, <1>4, <1>20, Zenon DEF WritePreferences, PreferencesFail
<1>21. CASE PreferencesReadback
  <2>1. CASE site = "withdraw" /\ seen' = desiredPreferences /\ applyExitDefaultRouteTransition
               /\ UNCHANGED snap
    BY <1>2, <2>1, SplitTyped DEF applyExitDefaultRouteTransition, desiredPreferences
  <2>2. CASE seen' = {} /\ (Then("discover", "none") \/ ApplyPlan) /\ UNCHANGED <<snap, changes, later>>
    BY <1>2, <2>2 DEF ApplyPlan, TypeInv, LocalsOK
  <2> QED
    BY <1>4, <1>5, <1>21, <2>1, <2>2, Zenon
    DEF PreferencesReadback, PreferencesSucceed, PreferencesFail
<1>22. CASE FailClosedReadsPreferences \/ FailClosedAborts
  BY <1>2, <1>4, <1>22, Zenon DEF FailClosedReadsPreferences, FailClosedAborts
<1>23. CASE ProxyReplaced \/ TailnetReplaced \/ CapabilityChanges \/ PreferencesEdited
              \/ NftablesFlushed
  BY <1>2, <1>23 DEF ProxyReplaced, TailnetReplaced, CapabilityChanges, PreferencesEdited,
     NftablesFlushed, Drift
<1>24. CASE Killed \/ Restarted
  BY <1>1, <1>24 DEF Killed, Restarted, NewProcess
<1>25. CASE UNCHANGED vars
  BY <1>2, <1>25 DEF vars
<1> QED
  BY <1>10, <1>11, <1>12, <1>13, <1>14, <1>15, <1>16, <1>17, <1>18, <1>19, <1>20, <1>21, <1>22,
     <1>23, <1>24, <1>25 DEF Next, Step

(* Every step keeps the types.                                             *)
LEMMA NextTypes == TypeInv /\ SafeInv /\ [Next]_vars => TypeInv'
<1> SUFFICES ASSUME TypeInv, SafeInv, [Next]_vars PROVE TypeInv'
  OBVIOUS
<1>1. (Control /\ Flags)'
  BY NextControl DEF TypeInv
<1>2. MemoryOK'
  BY NextMemory DEF TypeInv
<1> QED
  BY <1>1, <1>2, NextWorld, NextLocals DEF TypeInv

-----------------------------------------------------------------------------
(* What a step can do to the plan and to the memory.                       *)

(* Everything a step can do to a plan and the kernel it is for.            *)
LEMMA PlanSteps ==
  ASSUME [Next]_vars
  PROVE  \/ UNCHANGED <<rt, changes, later>>
         \/ /\ changes' = NoChanges /\ later' \in {later, NoChanges}
            /\ rt' = rt \/ (pc = "write" /\ rt' = Write(rt, changes).rt)
         \/ site = "deactivate" /\ changes' = later /\ later' = NoChanges /\ UNCHANGED <<rt, snap>>
         \/ /\ pc = "plan" /\ Unambiguous(rt) /\ changes' = DiffRouting(RoutingGoal, rt)
            /\ UNCHANGED <<rt, later, snap, op>>
         \/ /\ pc = "write" /\ rt' = Write(rt, changes).rt /\ changes' = Write(rt, changes).changes
            /\ UNCHANGED <<later, snap, op>>
         \/ /\ applyExitDefaultRouteTransition /\ UNCHANGED <<rt, snap>>
            /\ pc = "observe" \/ site = "withdraw"
         \/ UNCHANGED <<changes, later, snap, op, pc, site>> /\ \E link : rt' = WithoutLink(link)
<1> USE DEF world, locals
<1>1. ASSUME Forget
      PROVE  changes' = NoChanges /\ later' = NoChanges
  BY <1>1 DEF Forget
<1>2. ASSUME \/ \E m : EnterFailClosed(m)
             \/ ReconcileFails \/ PrepareSucceeds \/ finalizeSuccessfulReconcile
             \/ FailClosedReturns(TRUE) \/ FailClosedReturns(err)
      PROVE  changes' = NoChanges /\ later' = NoChanges
  BY <1>1, <1>2 DEF EnterFailClosed, Begin, ReconcileFails, PrepareSucceeds,
     finalizeSuccessfulReconcile, FailClosedReturns
<1>3. ASSUME RoutingFails
      PROVE  changes' = NoChanges /\ later' \in {later, NoChanges}
  BY <1>2, <1>3, Zenon DEF RoutingFails, PrepareFails
<1>4. CASE BeginPrepare \/ BeginReconcile \/ BeginFailClosed \/ BeginShutdown
  BY <1>1, <1>2, <1>4, Zenon
  DEF BeginPrepare, BeginReconcile, BeginFailClosed, BeginShutdown, Begin
<1>5. CASE reconcilePacketFilter \/ FilterReadback
  BY <1>2, <1>5, Zenon
  DEF reconcilePacketFilter, FilterReadback, FilterSucceeds, FilterFails, PrepareFails
<1>6. CASE planRouting
  BY <1>3, <1>6 DEF planRouting, RoutingSucceeds, Then
<1>7. CASE ApplyRouting
  BY <1>3, <1>7 DEF ApplyRouting, Then
<1>8. CASE verifyRouting \/ ReverifyRecovery
  BY <1>3, <1>8 DEF verifyRouting, ReverifyRecovery, RoutingSucceeds
<1>9. CASE PrepareDiscovers \/ ReadTailnetState \/ Discover \/ liveFailClosedState
  BY <1>1, <1>2, <1>9, Zenon
  DEF PrepareDiscovers, ReadTailnetState, Discover, liveFailClosedState, PrepareFails
<1>10. CASE ObservePacketFilter
  BY <1>2, <1>10, Zenon DEF ObservePacketFilter, reconcileNoDrift, reconcileGlobalDrift,
     reconcileIsolatedExitDefaultTransition
<1>11. CASE VerifyRoutingAgain \/ VerifyFilterAgain \/ RefreshApprovals
  BY <1>2, <1>11, Zenon DEF VerifyRoutingAgain, VerifyFilterAgain, RefreshApprovals
<1>12. CASE WritePreferences \/ PreferencesReadback
  BY <1>2, <1>12, Zenon
  DEF WritePreferences, PreferencesReadback, PreferencesFail, PreferencesSucceed
<1>13. CASE FailClosedReadsPreferences \/ FailClosedAborts
  BY <1>2, <1>13, Zenon DEF FailClosedReadsPreferences, FailClosedAborts
<1>14. CASE ProxyReplaced \/ TailnetReplaced \/ CapabilityChanges \/ PreferencesEdited
              \/ NftablesFlushed
  BY <1>14 DEF ProxyReplaced, TailnetReplaced, CapabilityChanges, PreferencesEdited,
     NftablesFlushed, Drift
<1>15. CASE Killed \/ Restarted
  BY <1>1, <1>15 DEF Killed, Restarted, NewProcess
<1>16. CASE UNCHANGED vars
  BY <1>16 DEF vars
<1> QED
  BY <1>4, <1>5, <1>6, <1>7, <1>8, <1>9, <1>10, <1>11, <1>12, <1>13, <1>14, <1>15, <1>16, Zenon
     DEF Next, Step

(* How a step can change the two fields that fail-closed depends on.       *)
LEMMA MemorySteps ==
  ASSUME Control, [Next]_vars
  PROVE  /\ \/ UNCHANGED lastPacketPolicy
            \/ hasPacketPolicy /\ lastPacketPolicy' = [lastPacketPolicy EXCEPT !.gateClosed = TRUE]
            \/ lastPacketPolicy' \in {safetyPacketFilterPolicy, NoTables}
            \/ pc \in {"filter", "filterReadback"} /\ lastPacketPolicy' = FilterGoal
            \/ op = "reconcile" /\ lastPacketPolicy' = desiredPolicy
         /\ \/ UNCHANGED lastTailnetLink
            \/ pc = "discover" /\ tailnet # NoLink /\ lastTailnetLink' = tailnet
            \/ pc' = "boot" /\ op' = "none" /\ lastTailnetLink' = NoLink
<1> DEFINE Kept == UNCHANGED <<lastPacketPolicy, lastTailnetLink>>
           Result ==
             /\ \/ UNCHANGED lastPacketPolicy
                \/ hasPacketPolicy /\ lastPacketPolicy' = [lastPacketPolicy EXCEPT !.gateClosed = TRUE]
                \/ lastPacketPolicy' \in {safetyPacketFilterPolicy, NoTables}
                \/ pc \in {"filter", "filterReadback"} /\ lastPacketPolicy' = FilterGoal
                \/ op = "reconcile" /\ lastPacketPolicy' = desiredPolicy
             /\ \/ UNCHANGED lastTailnetLink
                \/ pc = "discover" /\ tailnet # NoLink /\ lastTailnetLink' = tailnet
                \/ pc' = "boot" /\ op' = "none" /\ lastTailnetLink' = NoLink
<1> USE DEF memory
<1>1. ASSUME NEW m, EnterFailClosed(m)
      PROVE  Result
  BY <1>1 DEF EnterFailClosed
<1>2. ASSUME ReconcileFails \/ FailClosedReturns(TRUE) \/ FailClosedReturns(err)
      PROVE  Kept
  BY <1>2 DEF ReconcileFails, FailClosedReturns
<1>3. ASSUME finalizeSuccessfulReconcile, op = "reconcile"
      PROVE  Result
  BY <1>3 DEF finalizeSuccessfulReconcile
<1>4. ASSUME FilterSucceeds, pc \in {"filter", "filterReadback"}
      PROVE  Result
  BY <1>4 DEF FilterSucceeds, Remember
<1>5. ASSUME Kept
      PROVE  Result
  BY <1>5
<1>6. ASSUME FilterFails \/ RoutingFails
      PROVE  Result
  BY <1>1, <1>2, <1>6, Zenon DEF FilterFails, RoutingFails, PrepareFails
<1>7. CASE BeginPrepare \/ BeginReconcile \/ BeginFailClosed \/ BeginShutdown
  BY <1>1, <1>7 DEF BeginPrepare, BeginReconcile, BeginFailClosed, BeginShutdown
<1>8. CASE reconcilePacketFilter \/ FilterReadback
  BY <1>4, <1>5, <1>6, <1>8 DEF reconcilePacketFilter, FilterReadback
<1>9. CASE planRouting \/ ApplyRouting \/ verifyRouting \/ ReverifyRecovery
  BY <1>5, <1>6, <1>9
  DEF planRouting, ApplyRouting, verifyRouting, ReverifyRecovery, RoutingSucceeds
<1>10. CASE PrepareDiscovers \/ ReadTailnetState \/ liveFailClosedState
  BY <1>1, <1>2, <1>10, Zenon
  DEF PrepareDiscovers, ReadTailnetState, liveFailClosedState, PrepareFails
<1>11. CASE Discover
  BY <1>2, <1>11, Zenon DEF Discover, DiscoverNetwork
<1>12. CASE ObservePacketFilter
  BY <1>2, <1>3, <1>12, Zenon DEF ObservePacketFilter, reconcileNoDrift, reconcileGlobalDrift,
     reconcileIsolatedExitDefaultTransition, Control
<1>13. CASE VerifyRoutingAgain \/ VerifyFilterAgain \/ RefreshApprovals
  BY <1>2, <1>3, <1>13, Zenon
  DEF VerifyRoutingAgain, VerifyFilterAgain, RefreshApprovals, Control
<1>14. CASE WritePreferences \/ PreferencesReadback
  BY <1>2, <1>3, <1>14, Zenon DEF WritePreferences, PreferencesReadback, PreferencesFail,
     PreferencesSucceed, Control
<1>15. CASE FailClosedReadsPreferences \/ FailClosedAborts
  BY <1>2, <1>15, Zenon DEF FailClosedReadsPreferences, FailClosedAborts
<1>16. CASE ProxyReplaced \/ TailnetReplaced \/ CapabilityChanges \/ PreferencesEdited
              \/ NftablesFlushed
  BY <1>16 DEF ProxyReplaced, TailnetReplaced, CapabilityChanges, PreferencesEdited,
     NftablesFlushed, Drift
<1>17. CASE Killed \/ Restarted
  BY <1>17 DEF Killed, Restarted, NewProcess, Goto
<1>18. CASE UNCHANGED vars
  BY <1>18 DEF vars
<1> QED
  BY <1>7, <1>8, <1>9, <1>10, <1>11, <1>12, <1>13, <1>14, <1>15, <1>16, <1>17, <1>18
     DEF Next, Step

-----------------------------------------------------------------------------
(* Both invariants hold in every reachable state.                          *)
LEMMA SafeInductive == Spec => [](TypeInv /\ SafeInv)
<1>1. Init => TypeInv /\ SafeInv
  BY InitTypes, InitSafe
<1>2. TypeInv /\ SafeInv /\ [Next]_vars => (TypeInv /\ SafeInv)'
  BY NextTypes, NextSafe
<1> QED
  BY <1>1, <1>2, PTL DEF Spec

(* The four methods keep every variable in its type, whatever fails: a     *)
(* plan and the kernel hold managed routes and rules only, and the site of *)
(* every call is one the code has.                                         *)
THEOREM TypesAreKept == Spec => []TypeOK
<1>1. TypeInv /\ SafeInv => TypeOK
  BY TypeInvImplies
<1> QED
  BY <1>1, SafeInductive, PTL

(* ApplyRouting's order of writes, the plans DiffRouting makes for every   *)
(* state the builders ask for, and the split of an isolated transition     *)
(* together keep a default blackhole under every rule, at every write and  *)
(* across any number of failures, lost links and kills.                    *)
THEOREM NothingFallsThrough == Spec => []NoFallThrough
<1>1. TypeInv /\ SafeInv => NoFallThrough
  BY SafeImpliesNoFallThrough
<1> QED
  BY <1>1, SafeInductive, PTL
=============================================================================
