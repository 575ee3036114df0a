----------------------------- MODULE Reconciler -----------------------------
(***************************************************************************)
(* internal/application/reconciler.go: the transactions that own the       *)
(* kernel routing state, the nftables policy and the Tailnet               *)
(* advertisements: Prepare, Reconcile, FailClosed and Shutdown.            *)
(*                                                                         *)
(* One step is one call that reads or writes the outside world; a routing  *)
(* plan is written one route or rule at a time.  Between two steps the     *)
(* world may drift (a link is replaced, nftables is flushed, somebody      *)
(* edits the preferences, a family's Internet path comes or goes), the     *)
(* process may be killed, and every call may fail, before or after its     *)
(* effect; a cancelled or expired context is such a failure.  All of these *)
(* are taken from one budget.                                              *)
(*                                                                         *)
(* The Controller and Supervisor appear as the order in which they call:   *)
(* Prepare, then Reconcile again and again, FailClosed after a pass that   *)
(* failed, Shutdown at the end or when Prepare failed, and the restart of  *)
(* the container.                                                          *)
(***************************************************************************)
EXTENDS Routing

CONSTANTS
  ProxyLinks,        \* the identities the proxy TUN has over time
  TailnetLinks,      \* the identities the Tailscale TUN has over time
  AdvertiseExitNode, \* Tailnet.AdvertiseExitNode
  MaxDisturbances    \* bound on drifts, failures, kills and stop requests

ASSUME ReconcilerAssumption ==
  /\ NoLink \notin ProxyLinks \cup TailnetLinks
  /\ ProxyLinks \cap TailnetLinks = {} /\ Uplink \notin ProxyLinks \cup TailnetLinks
  /\ AdvertiseExitNode \in BOOLEAN
  /\ MaxDisturbances \in Nat

VARIABLES
  rt,       \* the managed routes and rules in the kernel
  nft,      \* the managed nftables tables
  prefs,    \* the advertised routes held by tailscaled: prefixes, and a
            \* family for its default route
  proxy,    \* the proxy TUN, or NoLink
  tailnet,  \* the Tailscale TUN, or NoLink
  active,   \* the families with fresh Internet capability
  quarantined, lastPacketPolicy, hasPacketPolicy, lastTailnetLink,
  op,       \* the method being executed
  pc,       \* the next call it makes
  site,     \* which of its uses of a shared helper that call belongs to
  snap,     \* Reconcile, FailClosed: the discovered links and active families
  seen,     \* Reconcile: tailnetState.Preferences
  changes,  \* the part of the routing plan that is not yet written
  later,    \* the activation changes that wait for the deactivation
  err,      \* FailClosed: some part has failed
  outcome,  \* what the last method returned
  disturbed,\* the world drifted since the method began
  left      \* what is left of the budget

world  == <<rt, nft, prefs, proxy, tailnet, active>>
memory == <<quarantined, lastPacketPolicy, hasPacketPolicy, lastTailnetLink>>
locals == <<snap, seen, changes, later, err>>
vars   == <<world, memory, op, pc, site, locals, outcome, disturbed, left>>

NoSnapshot == [proxy |-> NoLink, tailnet |-> NoLink, active |-> {}]

-----------------------------------------------------------------------------
(* Packet filter policies and advertisements.                              *)

(* No managed table, and the zero policy.                                  *)
NoTables == [present |-> FALSE, gateClosed |-> FALSE, mark |-> FALSE, dns |-> FALSE]

safetyPacketFilterPolicy ==
  [present |-> TRUE, gateClosed |-> TRUE, mark |-> FALSE, dns |-> FALSE]

(* dns: the masquerade targets of a discovery, or none.                    *)
packetFilterPolicy(dns, gateClosed) ==
  [safetyPacketFilterPolicy EXCEPT !.gateClosed = gateClosed, !.dns = dns, !.mark = LocalEgress]

desiredPolicy == packetFilterPolicy(TRUE, FALSE)

Policies == [present: {TRUE}, gateClosed: BOOLEAN, mark: BOOLEAN, dns: BOOLEAN]

OnlyActiveDefaults == Subnets \cup snap.active

(* The Exit Node pair is advertised as a whole.                            *)
desiredPreferences == Subnets \cup (IF snap.active # {} THEN Families ELSE {})

-----------------------------------------------------------------------------
(* The adapters.  What makes one of them return an error instead is among  *)
(* the failures of the actions that call it.                               *)

(* Store.Observe then Matches: the tables are there with the policy's      *)
(* revisions, chains, sets and rules.                                      *)
Matches(policy) == nft = policy

(* Store.Apply: one nftables transaction replaces what does not match.     *)
Apply(policy) == nft' = policy

(* Adapter.DiscoverProxyTunnel and Adapter.Discover find their links.      *)
DiscoverProxyTunnel == proxy # NoLink

DiscoverNetwork == DiscoverProxyTunnel /\ tailnet # NoLink

(* The preferences in a Tailnet state that is fit for use.                 *)
readTailnetState == prefs

(* Control.WritePreferences replaces AdvertiseRoutes and nothing else.     *)
EditPrefs(preferences) == prefs' = preferences

-----------------------------------------------------------------------------
Init ==
  /\ rt = [routes |-> {}, rules |-> {}]
  /\ nft = NoTables
  /\ prefs \in {{}, Subnets \cup Families}
  /\ proxy \in ProxyLinks \cup {NoLink} /\ tailnet \in TailnetLinks
  /\ active \in SUBSET Families
  /\ quarantined = TRUE /\ hasPacketPolicy = FALSE
  /\ lastPacketPolicy = NoTables /\ lastTailnetLink = NoLink
  /\ op = "none" /\ pc = "boot" /\ site = "none"
  /\ snap = NoSnapshot /\ seen = {} /\ changes = NoChanges /\ later = NoChanges
  /\ err = FALSE /\ outcome = "none" /\ disturbed = FALSE
  /\ left = MaxDisturbances

Goto(p, s) == pc' = p /\ site' = s

Disturb == left > 0 /\ left' = left - 1

Forget == snap' = NoSnapshot /\ seen' = {} /\ changes' = NoChanges
            /\ later' = NoChanges /\ err' = FALSE

-----------------------------------------------------------------------------
(* How the methods begin and end.                                          *)

Begin(method, p, s) ==
  /\ op' = method /\ Goto(p, s)
  /\ outcome' = "none" /\ disturbed' = FALSE /\ Forget

End(result, p) ==
  /\ op' = "none" /\ Goto(p, "none") /\ outcome' = result
  /\ UNCHANGED disturbed

BeginPrepare ==
  /\ pc = "boot" /\ Begin("prepare", "filter", "quarantine")
  /\ UNCHANGED <<world, memory, left>>

BeginReconcile ==
  /\ pc = "idle" /\ Begin("reconcile", "read", "none")
  /\ UNCHANGED <<world, memory, left>>

EnterFailClosedWithLastPolicy(method) ==
  /\ Begin(method, "filter", "failClosed")
  /\ lastPacketPolicy' = [lastPacketPolicy EXCEPT !.gateClosed = TRUE]
  /\ hasPacketPolicy' = TRUE /\ quarantined' = TRUE
  /\ UNCHANGED lastTailnetLink

(* failClosed.  The deferred assignment to the memory is made here: no     *)
(* other method runs before it returns, and it reads none of it again.     *)
EnterFailClosed(method) ==
  /\ Begin(method, "filter", "failClosed")
  /\ lastPacketPolicy' = IF hasPacketPolicy
                         THEN [lastPacketPolicy EXCEPT !.gateClosed = TRUE]
                         ELSE safetyPacketFilterPolicy
  /\ hasPacketPolicy' = TRUE /\ quarantined' = TRUE
  /\ UNCHANGED lastTailnetLink

BeginFailClosed ==
  /\ pc = "failed" /\ EnterFailClosed("failClosed")
  /\ UNCHANGED <<world, left>>

(* The context of the Controller ends between two calls.                   *)
BeginShutdown ==
  /\ pc \in {"idle", "failed"} /\ Disturb /\ EnterFailClosed("shutdown")
  /\ UNCHANGED world

(* runOwned answers a failed Prepare with Shutdown.                        *)
PrepareFails == EnterFailClosed("shutdown")

PrepareSucceeds == End("prepared", "idle") /\ Forget

ReconcileFails == End("failed", "failed") /\ Forget /\ UNCHANGED memory

(* The snapshot outlives the pass only for the properties below.           *)
finalizeSuccessfulReconcile ==
  /\ lastPacketPolicy' = desiredPolicy /\ hasPacketPolicy' = TRUE /\ quarantined' = FALSE
  /\ End("converged", "idle")
  /\ seen' = {} /\ changes' = NoChanges /\ later' = NoChanges
  /\ UNCHANGED <<lastTailnetLink, snap, err>>

FailClosedReturnsNil(failed) ==
  /\ End(IF op = "shutdown" THEN "strict" ELSE "closed",
         IF op = "shutdown" THEN "halted" ELSE "idle")
  /\ Forget /\ UNCHANGED memory

FailClosedReturns(failed) ==
  /\ End(IF failed THEN "failed" ELSE IF op = "shutdown" THEN "strict" ELSE "closed",
         IF op = "shutdown" THEN "halted" ELSE "idle")
  /\ Forget /\ UNCHANGED memory

(* A method goes on with its next call.                                    *)
Then(p, s) == Goto(p, s) /\ UNCHANGED <<op, outcome, disturbed>>

-----------------------------------------------------------------------------
(* reconcilePacketFilter: observe, apply in one nftables transaction when  *)
(* the policy is not met, and observe again.                               *)

FilterGoal ==
  CASE site = "quarantine"          -> safetyPacketFilterPolicy
    [] site \in {"mark", "recover"} -> packetFilterPolicy(FALSE, TRUE)
    [] site = "close"               -> [desiredPolicy EXCEPT !.gateClosed = TRUE]
    [] site = "open"                -> desiredPolicy
    [] site = "failClosed"          -> lastPacketPolicy

Remember(policy) ==
  /\ lastPacketPolicy' = policy /\ hasPacketPolicy' = TRUE /\ quarantined' = TRUE
  /\ UNCHANGED lastTailnetLink

OpenBeforeThePlan == Then("filter", "open")

(* Reconcile after its advertisements are cleared: an empty plan is        *)
(* neither written nor read back.                                          *)
ApplyPlan == IF changes = NoChanges THEN Then("filter", "open") ELSE Then("write", "global")

FilterSucceeds ==
  \/ site = "quarantine" /\ Remember(FilterGoal) /\ Then("plan", "safety") /\ UNCHANGED locals
  \/ site = "mark" /\ Remember(FilterGoal) /\ PrepareSucceeds
  \/ /\ site = "close" /\ Remember(FilterGoal)
     /\ IF seen # {} THEN Then("publish", "clear") ELSE ApplyPlan
     /\ UNCHANGED locals
  \/ site = "open" /\ Then("verifyRouting", "global") /\ UNCHANGED <<memory, locals>>
  \/ /\ site = "failClosed"
     /\ IF op = "failClosed" /\ LocalEgress THEN Then("liveState", "none")
                                            ELSE Then("plan", "strict")
     /\ UNCHANGED <<memory, locals>>
  \/ site = "recover" /\ Remember(FilterGoal) /\ Then("plan", "recovery") /\ UNCHANGED locals

FilterFails ==
  \/ site \in {"quarantine", "mark"} /\ PrepareFails
  \/ site \in {"close", "open"} /\ ReconcileFails
  \/ /\ site \in {"failClosed", "recover"} /\ Then("plan", "strict") /\ err' = TRUE
     /\ UNCHANGED <<memory, snap, seen, changes, later>>

reconcilePacketFilter ==
  /\ pc = "filter"
  /\ \/ Matches(FilterGoal) /\ FilterSucceeds /\ UNCHANGED <<nft, left>>
     \/ /\ ~Matches(FilterGoal) /\ Apply(FilterGoal)
        /\ Then("filterReadback", site) /\ UNCHANGED <<memory, locals, left>>
     \/ Disturb /\ FilterFails /\ (UNCHANGED nft \/ Apply(FilterGoal))
  /\ UNCHANGED <<rt, prefs, proxy, tailnet, active>>

FilterReadback ==
  /\ pc = "filterReadback"
  /\ \/ Matches(FilterGoal) /\ FilterSucceeds /\ UNCHANGED left
     \/ ~Matches(FilterGoal) /\ FilterFails /\ UNCHANGED left
     \/ Disturb /\ FilterFails
  /\ UNCHANGED world

-----------------------------------------------------------------------------
(* planRouting, applyRoutingChanges and verifyRouting.                     *)

RoutingGoal ==
  CASE site = "safety"                 -> buildSafetyRouting
    [] site = "prepared"               -> buildPreparedRouting(snap.proxy)
    [] site = "recovery"               -> buildFailClosedRouting(lastTailnetLink, snap.proxy)
    [] site \in {"strict", "fallback"} -> buildFailClosedRouting(lastTailnetLink, NoLink)
    [] OTHER                           -> buildDesiredRouting(snap)

(* The readback after a deactivation expects the activation to be all that *)
(* is left to do; every other readback expects nothing.                    *)
ReadsBack ==
  /\ Unambiguous(rt)
  /\ DiffRouting(RoutingGoal, rt) = IF site = "deactivate" THEN later ELSE NoChanges

RoutingSucceeds ==
  /\ \/ site = "safety" /\ Then("prepareDiscover", "none")
     \/ site = "prepared" /\ Then("filter", "mark")
     \/ /\ site = "deactivate"
        /\ IF later = NoChanges THEN Then("verifyRouting", "isolated") ELSE Then("write", "activate")
     \/ site = "activate" /\ Then("verifyRouting", "isolated")
     \/ site = "global" /\ Then("filter", "open")
     \/ site = "recovery" /\ Then("reverify", "recovery")
     \/ site \in {"strict", "fallback"} /\ Then("readPreferences", "none")
  /\ changes' = IF site = "deactivate" THEN later ELSE NoChanges
  /\ later' = NoChanges
  /\ UNCHANGED <<memory, snap, seen, err>>

RoutingFails ==
  \/ site \in {"safety", "prepared"} /\ PrepareFails
  \/ site \in {"desired", "deactivate", "activate", "global"} /\ ReconcileFails
  \/ /\ \/ site = "recovery" /\ Then("plan", "fallback")
        \/ site \in {"strict", "fallback"} /\ Then("readPreferences", "none")
     /\ err' = TRUE /\ changes' = NoChanges
     /\ UNCHANGED <<memory, snap, seen, later>>

planRouting ==
  /\ pc = "plan"
  /\ \/ /\ Unambiguous(rt) /\ UNCHANGED left
        /\ LET plan == DiffRouting(RoutingGoal, rt)
           IN  IF plan = NoChanges /\ site # "desired"
               THEN RoutingSucceeds
               ELSE /\ changes' = plan
                    /\ Then(IF site = "desired" THEN "observe" ELSE "write", site)
                    /\ UNCHANGED <<memory, snap, seen, later, err>>
     \/ ~Unambiguous(rt) /\ RoutingFails /\ UNCHANGED left
     \/ Disturb /\ RoutingFails
  /\ UNCHANGED world

(* One write of ApplyRouting.                                              *)
ApplyRouting ==
  /\ pc = "write"
  /\ LET next == Write(rt, changes)
     IN  \/ /\ rt' = next.rt /\ changes' = next.changes
            /\ Then(IF changes' = NoChanges THEN "readback" ELSE "write", site)
            /\ UNCHANGED <<memory, snap, seen, later, err, left>>
         \/ Disturb /\ RoutingFails /\ rt' \in {rt, next.rt}
  /\ UNCHANGED <<nft, prefs, proxy, tailnet, active>>

verifyRouting ==
  /\ pc = "readback"
  /\ \/ ReadsBack /\ RoutingSucceeds /\ UNCHANGED left
     \/ ~ReadsBack /\ RoutingFails /\ UNCHANGED left
     \/ Disturb /\ RoutingFails
  /\ UNCHANGED world

-----------------------------------------------------------------------------
(* The rest of Prepare: the kernel check, the resolver and the proxy       *)
(* tunnel.                                                                 *)
PrepareDiscovers ==
  /\ pc = "prepareDiscover"
  /\ \/ ~LocalEgress /\ PrepareSucceeds /\ UNCHANGED <<memory, left>>
     \/ /\ LocalEgress /\ DiscoverProxyTunnel /\ snap' = [snap EXCEPT !.proxy = proxy]
        /\ Then("plan", "prepared")
        /\ UNCHANGED <<memory, seen, changes, later, err, left>>
     \/ LocalEgress /\ ~DiscoverProxyTunnel /\ PrepareFails /\ UNCHANGED left
     \/ Disturb /\ PrepareFails
  /\ UNCHANGED world

-----------------------------------------------------------------------------
(* Reconcile.                                                              *)

(* The kernel check and readTailnetState.  A quarantined process clears    *)
(* whatever advertisements tailscaled restored.                            *)
ReadTailnetState ==
  /\ pc = "read"
  /\ \/ /\ seen' = readTailnetState
        /\ IF quarantined /\ seen' # {} THEN Then("publish", "restored") ELSE Then("discover", "none")
        /\ UNCHANGED <<memory, snap, changes, later, err, left>>
     \/ Disturb /\ ReconcileFails
  /\ UNCHANGED world

(* Resolver, Discover and the capability observation.  lastTailnetLink is  *)
(* kept as soon as the discovery is valid, even if what follows fails.     *)
Discover ==
  /\ pc = "discover"
  /\ LET found == DiscoverNetwork
     IN  \/ /\ found /\ lastTailnetLink' = tailnet
            /\ snap' = [proxy |-> proxy, tailnet |-> tailnet,
                        active |-> IF AdvertiseExitNode THEN active ELSE {}]
            /\ Then("plan", "desired")
            /\ UNCHANGED <<quarantined, lastPacketPolicy, hasPacketPolicy,
                           seen, changes, later, err, left>>
         \/ ~found /\ ReconcileFails /\ UNCHANGED left
         \/ Disturb /\ ReconcileFails
         \/ /\ found /\ Disturb /\ lastTailnetLink' = tailnet
            /\ End("failed", "failed") /\ Forget
            /\ UNCHANGED <<quarantined, lastPacketPolicy, hasPacketPolicy>>
  /\ UNCHANGED world

ActivationFirst ==
  IF changes.upsertRoutes # {}
  THEN /\ changes' = activationChanges(changes) /\ later' = NoChanges
       /\ Then("write", "activate")
  ELSE Then("write", "deactivate") /\ UNCHANGED <<changes, later>>

(* The deactivation comes first, then the activation; a part without       *)
(* changes is skipped with its readback.                                   *)
applyExitDefaultRouteTransition ==
  IF changes.deleteRoutes # {}
  THEN /\ changes' = deactivationChanges(changes) /\ later' = activationChanges(changes)
       /\ Then("write", "deactivate")
  ELSE Then("write", "activate") /\ UNCHANGED <<changes, later>>

NoDriftWithoutPublication ==
  changes = NoChanges /\ Matches(desiredPolicy) /\ finalizeSuccessfulReconcile

reconcileNoDrift ==
  /\ changes = NoChanges /\ Matches(desiredPolicy)
  /\ IF seen = desiredPreferences
     THEN finalizeSuccessfulReconcile
     ELSE Then("verifyRouting", "noDrift") /\ UNCHANGED <<memory, locals>>

IsolatedWithoutWithdrawal ==
  /\ seen \ Families = Subnets
  /\ onlyExitDefaultRoutesChanged(changes) /\ Matches(desiredPolicy)
  /\ applyExitDefaultRouteTransition
  /\ UNCHANGED <<memory, snap, seen, err>>

reconcileIsolatedExitDefaultTransition ==
  /\ seen \ Families = Subnets
  /\ onlyExitDefaultRoutesChanged(changes) /\ Matches(desiredPolicy)
  /\ IF snap.active = {} /\ seen \cap Families # {}
     THEN Then("publish", "withdraw") /\ UNCHANGED <<changes, later>>
     ELSE applyExitDefaultRouteTransition
  /\ UNCHANGED <<memory, snap, seen, err>>

reconcileGlobalDrift ==
  /\ \/ ~Matches(desiredPolicy)
     \/ /\ changes # NoChanges
        /\ ~(seen \ Families = Subnets /\ onlyExitDefaultRoutesChanged(changes))
  /\ Then("filter", "close")
  /\ UNCHANGED <<memory, locals>>

(* observePacketFilter, and the choice between the three transactions.     *)
ObservePacketFilter ==
  /\ pc = "observe"
  /\ \/ /\ reconcileNoDrift \/ reconcileIsolatedExitDefaultTransition \/ reconcileGlobalDrift
        /\ UNCHANGED left
     \/ Disturb /\ ReconcileFails
  /\ UNCHANGED world

(* verifyDataPlane reads the routing state, then nftables and the kernel.  *)
VerifyRoutingAgain ==
  /\ pc = "verifyRouting"
  /\ \/ ReadsBack /\ Then("verifyFilter", site) /\ UNCHANGED <<memory, locals, left>>
     \/ ~ReadsBack /\ ReconcileFails /\ UNCHANGED left
     \/ Disturb /\ ReconcileFails
  /\ UNCHANGED world

VerifyFilterAgain ==
  /\ pc = "verifyFilter"
  /\ \/ /\ Matches(desiredPolicy) /\ UNCHANGED left
        /\ \/ seen # desiredPreferences /\ Then("publish", site) /\ UNCHANGED <<memory, locals>>
           \/ seen = desiredPreferences /\ site = "isolated" /\ finalizeSuccessfulReconcile
           \/ seen = desiredPreferences /\ site = "global" /\ Then("refresh", site)
                /\ UNCHANGED <<memory, locals>>
     \/ ~Matches(desiredPolicy) /\ ReconcileFails /\ UNCHANGED left
     \/ Disturb /\ ReconcileFails
  /\ UNCHANGED world

(* reconcileGlobalDrift reads the approvals again when it has nothing to   *)
(* publish.                                                                *)
RefreshApprovals ==
  /\ pc = "refresh"
  /\ \/ finalizeSuccessfulReconcile /\ UNCHANGED left
     \/ Disturb /\ ReconcileFails
  /\ UNCHANGED world

-----------------------------------------------------------------------------
(* writeAndVerifyTailnetPreferences.                                       *)

PreferencesGoal ==
  IF site \in {"restored", "clear", "disable"} THEN {} ELSE desiredPreferences

PreferencesSucceed ==
  \/ /\ site = "restored" /\ seen' = {} /\ Then("discover", "none")
     /\ UNCHANGED <<memory, snap, changes, later, err>>
  \/ /\ site = "withdraw" /\ seen' = desiredPreferences /\ applyExitDefaultRouteTransition
     /\ UNCHANGED <<memory, snap, err>>
  \/ /\ site = "clear" /\ seen' = {} /\ ApplyPlan
     /\ UNCHANGED <<memory, snap, changes, later, err>>
  \/ site \in {"noDrift", "isolated", "global"} /\ finalizeSuccessfulReconcile
  \/ site = "disable" /\ FailClosedReturns(err)

PreferencesFail ==
  IF site = "disable" THEN FailClosedReturns(TRUE) ELSE ReconcileFails

WritePreferences ==
  /\ pc = "publish"
  /\ \/ /\ EditPrefs(PreferencesGoal) /\ Then("preferencesReadback", site)
        /\ UNCHANGED <<memory, locals, left>>
     \/ Disturb /\ PreferencesFail /\ (UNCHANGED prefs \/ EditPrefs(PreferencesGoal))
  /\ UNCHANGED <<rt, nft, proxy, tailnet, active>>

PreferencesReadback ==
  /\ pc = "preferencesReadback"
  /\ \/ readTailnetState = PreferencesGoal /\ PreferencesSucceed /\ UNCHANGED left
     \/ readTailnetState # PreferencesGoal /\ PreferencesFail /\ UNCHANGED left
     \/ Disturb /\ PreferencesFail
  /\ UNCHANGED world

-----------------------------------------------------------------------------
(* The rest of failClosed.                                                 *)

liveFailClosedState ==
  /\ pc = "liveState"
  /\ \/ /\ DiscoverProxyTunnel /\ snap' = [snap EXCEPT !.proxy = proxy]
        /\ Then("filter", "recover")
        /\ UNCHANGED <<memory, seen, changes, later, err, left>>
     \/ /\ \/ ~DiscoverProxyTunnel /\ UNCHANGED left
           \/ Disturb
        /\ Then("plan", "strict") /\ err' = TRUE
        /\ UNCHANGED <<memory, snap, seen, changes, later>>
  /\ UNCHANGED world

(* The recovery routing is read once more, and the kernel checked.         *)
ReverifyRecovery ==
  /\ pc = "reverify"
  /\ \/ ReadsBack /\ Then("readPreferences", "none") /\ UNCHANGED <<memory, locals, left>>
     \/ ~ReadsBack /\ RoutingFails /\ UNCHANGED left
     \/ Disturb /\ RoutingFails
  /\ UNCHANGED world

FailClosedReadsPreferences ==
  /\ pc = "readPreferences"
  /\ \/ readTailnetState = {} /\ FailClosedReturns(err) /\ UNCHANGED left
     \/ readTailnetState # {} /\ Then("publish", "disable") /\ UNCHANGED <<memory, locals, left>>
     \/ Disturb /\ FailClosedReturns(TRUE)
  /\ UNCHANGED world

(* failClosed asks its context after the gate and after the routing; the   *)
(* second check falls together with a failed read of the preferences.      *)
FailClosedAborts ==
  /\ pc = "liveState" \/ (pc = "plan" /\ site = "strict")
  /\ Disturb /\ FailClosedReturns(TRUE)
  /\ UNCHANGED world

-----------------------------------------------------------------------------
(* The world.                                                              *)

Drift == Disturb /\ disturbed' = TRUE /\ UNCHANGED <<memory, op, pc, site, locals, outcome>>

(* The kernel drops the routes of an interface that goes away.             *)
WithoutLink(link) == [rt EXCEPT !.routes = {r \in @ : r.link # link \/ link = NoLink}]

ProxyReplaced ==
  /\ Drift
  /\ proxy' \in (ProxyLinks \cup {NoLink}) \ {proxy}
  /\ rt' = WithoutLink(proxy)
  /\ UNCHANGED <<nft, prefs, tailnet, active>>

TailnetReplaced ==
  /\ Drift
  /\ tailnet' \in (TailnetLinks \cup {NoLink}) \ {tailnet}
  /\ rt' = WithoutLink(tailnet)
  /\ UNCHANGED <<nft, prefs, proxy, active>>

CapabilityChanges ==
  /\ Drift
  /\ active' \in (SUBSET Families) \ {active}
  /\ UNCHANGED <<rt, nft, prefs, proxy, tailnet>>

PreferencesEdited ==
  /\ Drift
  /\ prefs' \in (SUBSET (Subnets \cup Families)) \ {prefs}
  /\ UNCHANGED <<rt, nft, proxy, tailnet, active>>

NftablesFlushed ==
  /\ Drift
  /\ nft # NoTables /\ nft' = NoTables
  /\ UNCHANGED <<rt, prefs, proxy, tailnet, active>>

NewProcess ==
  /\ quarantined' = TRUE /\ hasPacketPolicy' = FALSE
  /\ lastPacketPolicy' = NoTables /\ lastTailnetLink' = NoLink
  /\ op' = "none" /\ Goto("boot", "none")
  /\ outcome' = "none" /\ disturbed' = FALSE /\ Forget
  /\ UNCHANGED world

Killed == pc \notin {"boot", "halted"} /\ Disturb /\ NewProcess

Restarted == pc = "halted" /\ NewProcess /\ UNCHANGED left

-----------------------------------------------------------------------------
Step ==
  \/ BeginPrepare \/ BeginReconcile \/ BeginFailClosed
  \/ reconcilePacketFilter \/ FilterReadback
  \/ planRouting \/ ApplyRouting \/ verifyRouting
  \/ PrepareDiscovers
  \/ ReadTailnetState \/ Discover \/ ObservePacketFilter
  \/ VerifyRoutingAgain \/ VerifyFilterAgain \/ RefreshApprovals
  \/ WritePreferences \/ PreferencesReadback
  \/ liveFailClosedState \/ ReverifyRecovery \/ FailClosedReadsPreferences
  \/ Restarted

Next ==
  \/ Step \/ BeginShutdown \/ FailClosedAborts
  \/ ProxyReplaced \/ TailnetReplaced \/ CapabilityChanges
  \/ PreferencesEdited \/ NftablesFlushed \/ Killed

Spec == Init /\ [][Next]_vars

(* The process keeps running and is restarted when it ends; nothing is     *)
(* asked of drifts, failures and kills.                                    *)
FairSpec == Spec /\ WF_vars(Step)

-----------------------------------------------------------------------------
(* Properties.                                                             *)

RouteType ==
  [family: Families, disposition: {"blackhole", "unicast"}, table: Tables,
   prefix: {"default", "tailnet"} \cup Subnets \cup NameServers,
   link: {NoLink, Uplink} \cup ProxyLinks \cup TailnetLinks]

RuleType ==
  [family: Families, table: Tables, match: {"mark"} \cup {l.name : l \in TailnetLinks}]

ChangesType ==
  [upsertRoutes: SUBSET RouteType, addRules: SUBSET RuleType, staleRules: SUBSET RuleType,
   deleteRules: SUBSET RuleType, deleteRoutes: SUBSET RouteType]

Snapshots ==
  [proxy: ProxyLinks \cup {NoLink}, tailnet: TailnetLinks \cup {NoLink},
   active: SUBSET Families]

(* The call a method makes next, with the sites that reach it.             *)
Places ==
  ({"boot", "idle", "failed", "halted", "read", "discover", "prepareDiscover",
    "liveState", "readPreferences"} \X {"none"})
  \cup ({"filter", "filterReadback"}
          \X {"quarantine", "mark", "close", "open", "failClosed", "recover"})
  \cup ({"plan"} \X {"safety", "prepared", "desired", "recovery", "strict", "fallback"})
  \cup ({"observe"} \X {"desired"})
  \cup ({"write", "readback"} \X {"safety", "prepared", "deactivate", "activate", "global",
                                  "recovery", "strict", "fallback"})
  \cup ({"reverify"} \X {"recovery"})
  \cup ({"verifyRouting", "verifyFilter"} \X {"noDrift", "isolated", "global"})
  \cup ({"refresh"} \X {"global"})
  \cup ({"publish", "preferencesReadback"}
          \X {"restored", "withdraw", "clear", "disable", "noDrift", "isolated", "global"})

(* Every variable has its type; a plan and the world are made of managed   *)
(* routes and rules only.                                                  *)
TypeOK ==
  /\ rt.routes \subseteq RouteType /\ rt.rules \subseteq RuleType
  /\ nft \in Policies \cup {NoTables}
  /\ prefs \subseteq Subnets \cup Families /\ seen \subseteq Subnets \cup Families
  /\ proxy \in ProxyLinks \cup {NoLink} /\ tailnet \in TailnetLinks \cup {NoLink}
  /\ active \subseteq Families
  /\ quarantined \in BOOLEAN /\ hasPacketPolicy \in BOOLEAN
  /\ lastPacketPolicy \in IF hasPacketPolicy THEN Policies ELSE {NoTables}
  /\ lastTailnetLink \in TailnetLinks \cup {NoLink}
  /\ op \in {"none", "prepare", "reconcile", "failClosed", "shutdown"}
  /\ <<pc, site>> \in Places
  /\ snap \in Snapshots
  /\ changes \in ChangesType /\ later \in ChangesType
  /\ err \in BOOLEAN /\ disturbed \in BOOLEAN
  /\ outcome \in {"none", "prepared", "converged", "closed", "strict", "failed"}
  /\ left \in 0..MaxDisturbances

GateOpen(tables) == tables.present /\ ~tables.gateClosed

(* ApplyRouting installs routes before the rules that select their table   *)
(* and removes rules before routes.  At every single write, across         *)
(* failures and kills, a rule finds a default blackhole in its table: no   *)
(* selected packet falls through to the main table.                        *)
NoFallThrough ==
  \A r \in rt.rules : blackholeRoute(r.family, r.table, "default") \in rt.routes

(* Prepare, Reconcile and FailClosed mark local control-plane packets only *)
(* while the rules that select the mark are in place, also for a process   *)
(* that inherits the tables of one that was killed.                        *)
MarkedTrafficIsSelected == nft.mark => \A f \in Families : markRule(f) \in rt.rules

(* Whatever advertises traffic that the gateway would drop.                *)
Backed(p) ==
  /\ p # {} => /\ GateOpen(nft) /\ HasExitRules(rt)
               /\ \A s \in p \cap Subnets : activeRoute("ipv4", "exit", s, Uplink) \in rt.routes
  /\ p \cap Families # {} => Families \subseteq p /\ ExitDefaults(rt) # {}

(* publishTailnetPreferences, on each of its paths, announces a prefix     *)
(* only when the gate is open and its routes are in place, and the Exit    *)
(* Node pair as a whole and only over an active default, if the world has  *)
(* not drifted under the pass.                                             *)
PublishOnlyBacked ==
  [][pc = "publish" /\ prefs' # prefs /\ ~disturbed' => Backed(prefs')]_vars

(* EXIT-CAPABILITY.md step 6: Reconcile withdraws the Exit Node pair, and  *)
(* any partial default, before it deletes the last active Exit default and *)
(* has none to put in its place.                                           *)
WithdrawBeforeLastRoute ==
  [][op = "reconcile" /\ pc = "write" /\ ~disturbed'
       /\ ExitDefaults(rt) # {} /\ ExitDefaults(rt') = {} /\ snap.active = {}
     => prefs \cap Families = {}]_vars

(* EXIT-CAPABILITY.md step 7: behind an open gate a recovered family is    *)
(* activated only once no family without capability has an active default, *)
(* whatever drifts or fails on the way.                                    *)
DeactivateBeforeActivate ==
  [][GateOpen(nft) /\ ~(ExitDefaults(rt') \subseteq ExitDefaults(rt))
     => ExitDefaults(rt) \subseteq snap.active]_vars

(* reconcileGlobalDrift opens the gate over the complete desired routing   *)
(* state and before anything is advertised.                                *)
GateOpensOverConvergedRouting ==
  [][~GateOpen(nft) /\ GateOpen(nft') /\ ~disturbed'
     => rt = buildDesiredRouting(snap) /\ prefs = {}]_vars

(* FailClosed and Shutdown that return no error have closed the gate,      *)
(* withdrawn everything and left no active Exit default; Shutdown leaves   *)
(* no active route at all, FailClosed only the local lane through the      *)
(* present proxy tunnel.                                                   *)
FailClosedEstablished ==
  outcome \in {"closed", "strict"} /\ ~disturbed =>
    /\ nft.present /\ nft.gateClosed /\ prefs = {}
    /\ \A r \in rt.routes : r.disposition = "unicast" =>
         outcome = "closed" /\ r.table = "local" /\ r.link = proxy

(* A Reconcile that returns no error leaves routing, nftables and          *)
(* advertisements exactly as desired for what it discovered, on each of    *)
(* its three paths.                                                        *)
ConvergedMeansServing ==
  outcome = "converged" /\ ~disturbed =>
    rt = buildDesiredRouting(snap) /\ nft = desiredPolicy /\ prefs = desiredPreferences

Present == [proxy |-> proxy, tailnet |-> tailnet,
            active |-> IF AdvertiseExitNode THEN active ELSE {}]

Serving ==
  /\ rt = buildDesiredRouting(Present) /\ nft = desiredPolicy
  /\ prefs = Subnets \cup (IF Present.active # {} THEN Families ELSE {})

(* Once drifts and failures end with both links present, the gateway comes *)
(* to serve and goes on serving, from every state they can leave behind.   *)
EventuallyServing ==
  <>[](proxy # NoLink /\ tailnet # NoLink) => <>[]Serving

(* netlink_linux.go:330-332: the stale rule is removed "even if the caller *)
(* is canceled. Leaving duplicate priorities would make subsequent         *)
(* ownership reads ambiguous."                                             *)
OwnershipReadsUnambiguous == pc = "plan" => Unambiguous(rt)

(* failClosed keeps the Exit rules of the link it knows (lastTailnetLink), *)
(* so that even where closing the gate failed, forwarded Tailnet traffic   *)
(* is selected into the Exit table.                                        *)
OpenGateHasSelectors ==
  GateOpen(nft) /\ lastTailnetLink # NoLink => HasExitRules(rt)
=============================================================================
