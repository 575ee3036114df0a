# tailscale-gateway-agent in TLA+

A model of the agent's control plane: how it converges the kernel's routing
state, nftables and the Tailnet advertisements, how it reports readiness, who
owns the node, and how it stops. The modules are translated from `src/`;
`PROJECT.json` maps each definition to its lines, lists the runs, the mutants
that show each property can fail, the hazards and the theorems.

## The system and its parts

| Part | Source | Module |
|---|---|---|
| Supervisor, coordinators (Lease, file lock), containerboot process | `application/supervisor.go`, `adapter/kubernetes`, `adapter/filelock`, `adapter/process`, `application/mode.go` | `Lifecycle` |
| Controller: event loop, collectors, passes, retry | `application/controller.go` | `Controller` |
| Status: epochs, phase, readiness | `application/status.go`, `domain/runtime.go` | `Status` |
| Readiness gauge | `adapter/telemetry` | variable `gauge` of `Controller` |
| Reconciler: Prepare, Reconcile, FailClosed, Shutdown | `application/reconciler.go` | `Reconciler` |
| Routing: builders, diff, classification, write order | `application/routing.go`, `domain/routing.go`, `adapter/netlink` | `Routing` |
| Tailscale control, discovery | `adapter/tailscale/control.go`, `adapter/netlink` | adapter operators of `Reconciler` |
| Packet filter: policies, rules, nftables store | `domain/packetfilter.go`, `adapter/nftables` | `PacketFilter`, which implements `EnforcedPolicy` |
| Local-egress addresses: cache, resolver, name-server pool | `application/reconciler.go`, `adapter/resolver` | `LocalEgress` |
| The Reconciler's passes over these two | `application/reconciler.go` | `ControlEgress` |
| Tailnet watch: forwarder, channels, retries | `adapter/tailscale/events.go`, `application/controller.go` | `TailnetEvents` |
| Internet capability tracker and evaluation | `application/capability`, `application/internet_capability.go` | `Capability` |
| Route mutation events and the kernel subscription | `adapter/netlink/route_events_linux.go` | `RouteEvents` |

The Supervisor runs the Coordinator, which calls `runOwned` while this process
owns the node. `runOwned` prepares a quarantined data plane, starts
containerboot (mode `supervise-containerboot`) and the Controller, and on the
first of them to end joins the Controller, shuts the Reconciler down and
terminates the process. The Controller turns events of the kernel and of
tailscaled into passes of the Reconciler; each event advances the dirty epoch
of Status and cancels the pass in progress. A pass discovers links, asks the
capability tracker which families may be served, diffs the routing state and
writes the plan behind a closed gate. The route writes come back as kernel
events, which `RouteEvents` separates from foreign changes.

A pass also resolves the domains of the control plane, whose traffic is marked
so that it leaves through the proxy tunnel, and has the nftables store enforce the policy
made of those addresses. `Reconciler` keeps both abstract (a policy is a value,
resolution is part of discovery) to follow routing and advertisements through
a pass; `ControlEgress` keeps routing abstract (a call that goes well or fails)
to follow addresses and policies. Together they are the two projections of one
set of methods.

## The modules

**Status** is the status record and its methods as operators. Time is reduced
to whether the last success is absent, fresh or older than the maximum age.

**Controller** extends it. `pc` walks through `Run` and `execute`; a step ends
where another goroutine can observe the difference, so reading Status and
setting the gauge are two steps, as are fetching and calling the cancel
function. Each collector has its own program counter. The trigger and error
channels have capacity one, as in the code. `handle` says which pass a
fetched cancel function belongs to. A Reconciler pass is the pair
`Converge`, `ReconcileSucceeds` or a failure.

**Routing** is pure: sets of routes and rules, the four builders,
`DiffRouting`, the classification of a change as an isolated Exit-default
transition, and `Write`, the next kernel write of a plan.

**Reconciler** extends it. One step is one call to the outside. `pc` is the
call and `site` the place in the source that makes it; `changes` is what is
left of the plan being written and `later` the second half of an isolated
transition. Any call may fail before or after its effect. Between two calls a
link is replaced, nftables is flushed, preferences are edited, a family's
Internet path changes, or the process is killed and restarted. `disturbed`
says that the world drifted under the operation in progress. All failures,
drifts and kills are drawn from `MaxDisturbances`.

**Capability** is the tracker with its clock, thresholds and link reset, and
the evaluation that follows it in the pass. `log` is a history of links and
probes that only the properties read.

**RouteEvents** has a writer (the pass), the forwarder goroutine, the closer
of the subscription and a collector. Keys are (operation, destination), so two
writes may be indistinguishable.

**LocalEgress** is `resolveLocalEgress` over the resolver: the snapshot of
`resolv.conf`, the loop over the domains, and the pool that asks the name
servers in order, each with an equal share of the time that is left. A clock
ages the cache between and during calls. `heard` is a history of the last good
answers. An address is a name; what the code tells apart is its family, whether
it has a zone, and whether a policy accepts it (`0.0.0.0` resolves and is then
refused by the packet filter).

**PacketFilter** gives a policy its rules and a rule its meaning on packets, so
that revisions, rule sets and tables are compared with what happens to
traffic. `call` walks through `Observe` and `Apply` one netlink exchange at a
time. Between two exchanges others delete a table, empty or add a chain, remove
the ownership metadata, or create a table of a managed name. An exchange may
fail, and a commit may take effect although its answer is lost. A digest is
the data it is computed from.

**EnforcedPolicy** is what the store promises, without tables: what is dropped
and marked changes in one step to exactly what the requested policy means, so
does what is masqueraded, and others only take away.

**ControlEgress** composes both. `stage` is the call of the pass under way and
`lastPacketPolicy` what the next failure closes with. Passes fail at any call,
the process is stopped or killed, and a restart loses the cache and the
remembered policy but not the kernel's tables. Local egress is enabled
throughout; with it disabled the resolver is never asked.

**TailnetEvents** has the LocalAPI watch, `forwardTailnetEvents` with its two
channels of capacity one, and `collectTailnetEvents` with its back-off.
`unmarked` is a history: the Tailnet changed after the last `MarkDirty`. What
follows `MarkDirty` is the `Controller` module's.

**Lifecycle** has the Supervisor, client-go's elector and its callback, the
`ownedSession`, `runOwned`, the Controller and the process, by when they start
and return. The elector is external and modelled from its documented use.

## The runs

| Run | States what | Bounds |
|---|---|---|
| `Controller_live` | a registered pass on superseded facts is or will be cancelled; the gauge agrees with Status once settled; stopping is final; every event reaches a pass; the newest epoch is verified after any number of failures; `Run` returns after its context ends | start-up and two events of one collector: the second can find the channel full |
| `Reconciler_safety` | no fall-through, marked traffic selected, an open gate has its selector rules, fail-closed and converged mean what they say, publication and withdrawal order, gate order | three disturbances, two identities of each TUN, one subnet, one name server |
| `Reconciler_live` | the gateway serves once disturbances end | two disturbances, one identity of the proxy TUN, which may go and return |
| `ControlEgress_pass` | addresses served are fresh, silent name servers do not starve others, a reported match is enforced on packets, foreign tables survive, the store implements `EnforcedPolicy`, the gateway gets back to serving | two domains, one of which moves between families; two name servers, one unreliable; one outage, one interference, one netlink error and one failure, stop or kill, two of these together |
| `TailnetEvents_watch` | a change not yet marked has a hint on its way while a watch lives; every change is marked; the watch ends with its context | three changes, four broken or refused watches, a delay that doubles to a maximum that is no multiple |
| `Lifecycle_ownership` | nothing runs after `Run` returned, shutdown order, Lease retained once acquisition was announced, termination | both modes; finite |
| `Capability_tracker` | conclusions follow from the probe history; served families are backed; unserved ones reported | two links, five ticks, five log entries, thresholds two |
| `RouteEvents_tracker` | own writes absorbed, foreign changes surface, nothing stale; waits and closing end | three writes, two foreign changes, one loss, a channel of one |

The other four runs are described under "Where code and text disagree".

Why the bounds suffice. Two events are what a race needs beyond the start-up
epoch: one that supersedes a pass and one that finds the trigger pending.
Three disturbances cover a failure inside the handling of a failure after a
drift. A threshold of two separates a run of outcomes from a single one, and
five ticks cover conclusion, tolerated failure, expiry and recovery. Two
identities of a TUN give a replacement that keeps its name and changes its
index. A refresh
interval of one and a maximum staleness of two give an entry every age that is
told apart: fresh, due, retained and too old. Two disturbances put an
interference or a failure into the recovery from another one. The theorems
below remove the bounds for the properties they name. `Controller_live` has the kernel's collector
only; the proofs of its safety properties are for both, and the Tailnet's
collector differs from it in how its stream ends, which is `TailnetEvents`.

One type invariant is checked as a run's property, that of `Reconciler`. Those
of `Controller`, `Capability` and `TailnetEvents` are proved instead.

In the passing Reconciler runs the Tailscale TUN keeps its name
when it is recreated; the renamed one is the subject of `Reconciler_duplicate`.

`RouteEvents` stops when its bounded writes are spent and the subscription is
closed, and `TailnetEvents` when the collector and the forwarder have returned, so their
configurations do not check deadlock. The others do; their
ends are explicit stuttering steps, or there is no end.

### Fairness

* `Controller`: weak fairness of the goroutines' own steps. Strong fairness of
  the `select` cases, because Go chooses uniformly among ready ones and an
  armed timer fires. Nothing is asked of events, tickers, stream failures, the
  clock or cancellation. `NewestEpochIsVerified` has the premise
  `PassesConverge`: a pass nobody cancels does not fail for ever. Without it
  no recovery can be promised.
* `Reconciler`: weak fairness of the process's steps, restart included. Its
  calls have timeouts. Disturbances are bounded, so they end.
* `Lifecycle`: weak fairness of each goroutine. Prepare, Shutdown, Terminate
  and the Lease release have timeouts; the health server and the Controller
  return once their context ends. A signal need never come.
* `RouteEvents`: weak fairness of writer, forwarder and closer; the wait has a
  timer. The collector need not be fair.
* `ControlEgress`: weak fairness of the resolver and of the store, whose
  exchanges have deadlines, and of the passes, which the Controller starts
  again. Strong fairness of the clock: time passes while a pass waits, however
  its steps alternate. Nothing is asked of interference, failures, stops or
  kills, or of which name server answers. `EventuallyServed` excuses a foreign
  table under a managed name, which the store refuses to touch.
* `TailnetEvents`: weak fairness of forwarder and collector; the retry timer
  fires, and a blocked `Next` returns when its context ends. Changes need not
  happen and watches need not break.

### Where code and text disagree

Four runs expect a violation; `PROJECT.json` quotes the lines.

* `Controller_failclosed`: an audit pass that fails closes the data plane
  before readiness is withdrawn.
* `Reconciler_duplicate`: a kill between adding a rule and removing the one it
  replaces leaves two rules of one priority, which every later read rejects.
* `Lifecycle_release`: the Lease can be released while just-started owned work
  cleans up, when the agent stops at the moment of acquisition.
* `Capability_refresh`: a success right after a tolerated failure does not
  refresh an available family.

A remark on ownership. `docs/architecture/ARCHITECTURE.md:121-123` says that a
table without valid ownership metadata is never adopted or deleted. The store
keeps this for every table that stands when `Apply` lists them
(`ForeignTableSurvives`). A table of a managed name created between that
listing and the commit is added to, because the transaction does not ask for
exclusive creation, and from then on carries the agent's metadata.

The readiness gauge deserves a remark. It is set from a status read one step
earlier, so during a pass it may overwrite a collector's revocation for a
moment, and nothing lowers it when the agent stops. What the code does
guarantee is `GaugeSettles`: between two passes a gauge that is up is true but
for the age of the verification, or an event is about to lower it; and with no
event in flight and no pass promised it is up when `/readyz` is.

## What is proved

The proofs hold for every value of the constants: any number of events, writes
and disturbances, any set of subnets, name servers and links, any accepted
thresholds. They use the named assumptions of the modules, which say what
configuration validation accepts, that a bound is a number or a set not empty.
The assumptions of the models are checked by TLC on the values of every run.

Each theorem about an invariant goes through an inductive one: the property
strengthened until one step preserves it. What the strengthening adds, and why,
is said below; TLC checked these invariants on the runs' instances before they
were proved.

**`ControllerProofs`**
* `TypeCorrect`: `TypeOK`, which also says that no epoch is ahead of the dirty
  epoch. It is inductive.
* `RegistrationRace`: `RegistrationRaceClosed`. The inductive invariant
  `RaceInv` adds that the cancel function is registered exactly while the pass
  can be cancelled; without it a collector might fetch nothing during a pass.
* `StoppingFinal`: `StoppingIsFinal`. `StopInv` adds that no collector is left
  once `Run` has returned, so nobody can write the phase any more.
* `GaugeSettled`: `GaugeSettles`. `GaugeInv` says what is known of the gauge at
  each step between publishing a result and the next `select`; a disagreement
  always has a collector, a trigger or the debounce timer that will resolve it.

**`CapabilityProofs`**
* `TrackerTypeCorrect` and `SnapshotsValid`, together inductive as `TrackerInv`.
* `ReportedOrServed`: `InactiveIsReported`, from the shape of a valid snapshot
  at the moment it is evaluated.
* `CountersConclude`: `ConcludesFromHistory`. The property says what the counters
  have led to; what the next probe leads to depends on what they count.
  `HistoryInv` adds `Counted`: a counter below its threshold is the length of
  the run of equal outcomes that ends the log (`Trailing`), a saturated one a
  lower bound of it. `LogOK` says that the probes through the present link are
  the end of the log, so `resetForLink` may forget everything. A run is then
  completed by a probe exactly when the counter says so (`RunsAppended`), and
  the latest conclusion is the one the state holds (`FamilyStep`).
* `ServedIsBacked`: `ActiveIsBacked`, from the same invariant at the moment of the
  evaluation (`FreshIsBacked`).

**`ReconcilerProofs`** starts with lemmas about the values of the routing plan.
`FirstMember` shows the write order well defined (a least rank exists). The goals of all four
builders are safe (`GoalSafe`: a default blackhole in every table a rule may
select), and keep the rules on the mark and the Exit rules
(`FailClosedKeepsSelectors`, `DesiredServes`). A plan that `DiffRouting` makes
for a safe goal is safe over the state it was made from (`DiffIsSafe`), leads to
nothing when it is empty (`EmptyDiff`), and adds an Exit rule before it removes
one (`DiffReplacesExitRules`). One write of a plan leaves a safe kernel and a
safe rest (`WriteIsSafe`, one case for each part of a plan), and stays between
the kernel and the goal (`WriteBounds`).

On these rest the proofs of every safety property of `Reconciler_safety`. The
inductive invariant has seven parts, proved one after the other, each from the
ones before it: `TypeInv` and `SafeInv` here, the others in `PassProofs`.
* `TypesAreKept`: `TypeOK`. `TypeInv` adds `Control`, the sites each call is made
  from, and that a fail-closed transition always has a policy to close with.
* `NothingFallsThrough`: `NoFallThrough`. The property speaks of the kernel
  alone, while whether the next write preserves it depends on the rest of the
  plan. `SafeInv` therefore adds that the rest is safe over the present kernel
  (`PlanSafe`), that a postponed activation only adds routes (`Postponed`), and
  that `ApplyRouting` is never entered with an empty plan (`Pending`). A lost
  link takes no blackhole with it, because a blackhole has none.

**`PassProofs`** goes on with what the calls of a pass establish (`IInv` is the
whole invariant).
* `MarksAreSelected`: `MarkedTrafficIsSelected`. `MarkInv` says the same of the
  policy a failure would fall back to, and that the rules on the mark stand from
  the end of Prepare's safety plan on. No plan removes them, so the tables a
  killed process leaves behind are covered as well.
* `OpenGateIsSelected`: `OpenGateHasSelectors`. `ExitInv` adds when a process
  has learned the Tailnet link, that a gate open after the quarantine is of its
  own making, and that the rest of a plan replaces Exit rules before it removes
  them.
* `DeactivationComesFirst`: `DeactivateBeforeActivate`. `DefaultsInv` says which
  Exit defaults each half of an isolated transition may touch, and that every
  default without capability is among those still to be deleted.
* `ConvergedServes`, `OnlyBackedIsPublished`, `LastDefaultIsWithdrawn` and
  `GateOpensLast`: `ConvergedMeansServing`, `PublishOnlyBacked`,
  `WithdrawBeforeLastRoute` and `GateOpensOverConvergedRouting`. `ServeInv`
  lists, call by call, what a pass whose world did not drift has made sure of
  (`Assured`): each call rests on what the calls before it have verified.
* `FailClosedIsEstablished`: `FailClosedEstablished`. `ClosedInv` says what no
  part of `failClosed` has failed to do so far, and that it never goes back on
  it; the error it collects is what makes the returned nil meaningful.

**`ControlEgressProofs`** is about the resolver and its cache (`EgressSpec`,
with calls at any time), the store (`StoreSpec`, called with any policy at any
time) and the passes that compose them.
* `EachServerOnce`: the snapshot of `resolv.conf` has each of its name servers
  exactly once. The place of a name server is its rank among the first
  occurrences; ranks are injective, and every one is reached, since a set of
  numbers has a least member (`Least`).
* `ResolvedIsFresh`: `ResultIsFresh`. The property speaks of the end of a call;
  `Collected` says it of the domains dealt with so far, and `CallOK` that the
  cache is the last good answers with their ages. The domains being distinct,
  a refresh leaves those already collected alone.
* `NoServerIsStarved`: `EveryServerIsAsked`. An equal share of what is left is
  less than all of it while another server waits (`ShareIsPartial`), and time
  is left as long as a lookup runs.
* `MatchIsEnforced`: `VerifiedMeansEnforced`. `ForwardRulesMean`,
  `LocalRulesMean` and `NATRulesMean` show that the rules of a policy do to
  packets what the policy says. The invariant `Seen` says that, with nobody
  interfering, what was listed is what stands and what was found to agree does
  agree.
* `ForeignTablesAreKept`: `ForeignTableSurvives`. `Owned` says that every
  listed table the transaction will replace had its metadata when it was
  checked; only then is the commit reached.
* `StoreImplementsPolicy`: `ImplementsEnforcedPolicy`. The initial tables
  enforce nothing (`InitEnforced`) and every step is a step of `EnforcedPolicy` or
  a stutter (`NextEnforced`), from the same invariant.
* `PassesCompose`: `ControlEgress` implements `EgressSpec` and `StoreSpec`, so all of
  the above holds under the passes (`ComponentsInPasses`). Every step of a pass
  is a step of the resolver, of the store or of neither; that the policies passed
  on are policies the store accepts needs the types of `lastPacketPolicy` and of
  the addresses collected.
* `ServedIsEnforced`: `ServedMarksAreFresh`. `Placed` ties the two components
  together: at which call of a pass each of them may be at work, and that the policy
  requested while serving holds the addresses just collected.

**`LifecycleProofs`**
* `NothingOutlivesRun`, `ControllerGoneFirst`: `ReturnsQuiescent` and
  `ShutdownAfterController`. `IInv` says what the callback has done at each of its
  places (`CallbackOK`), what `Run` has waited for at each of its own (`MainOK`)
  and which children each place of `runOwned` may have left (`ChildrenOK`). That
  a session either started or was told not to is what closes the race of the
  callback with a `Run` that gives up.
* `OwnershipOutlivesCleanup`: `OwnershipRetainedOnceAcquired`. `Owning` holds from
  the acquisition on: the election is not cancelled while owned work runs.

**`RouteEventsProofs`**
* `NoStaleExpectation`: `NothingStale`. `OneExpectation` says that only the write
  in progress has an expectation and that nobody has answered it while it is
  pending, so whoever removes it is alone in answering.
* `NoEventForOwnWrites`, `NoForeignChangeSwallowed`: `OwnWritesAbsorbed` and
  `ForeignChangesSurface`. A notification does not say who caused it, so neither
  can be proved of a single one. `Balance` counts: notifications forwarded, under
  way, lost or about to be caused by the agent, against changes of others and
  confirmations not awaited.

**`TailnetEventsProofs`**
* `DelayDoublesUpToMaximum` and `TypeCorrect`: the back-off is doubling cut off
  at the maximum, and stays between its bounds.
* `NoChangeIsLost`: `UnmarkedChangeInFlight`.

Model-checked only: the liveness properties, since fairness and `ENABLED` are out
of the prover's reach. The prover has no induction over data; where a proof about
numbers needs one (`FirstMember`, `Least`), it takes a least counterexample
instead.

## Not modelled

* Configuration validation and environment parsing: pure functions of the
  start-up environment, without state. The modules assume their results.
* The encoding of netlink messages and nftables expressions, and the text of
  `resolv.conf`: a rule is what it matches, a file the list of its nameserver
  lines. Byte offsets and masks are the subject of the repository's unit tests.
* The DNS and HTTP exchanges: their outcome is a nondeterministic result. The
  Internet probe therefore appears only as success, failure or cancellation
  per family.
* The Linux kernel, tailscaled, the container runtime and client-go's elector: modelled
  from how the code uses them, and marked external.
* Approval of advertised routes by the tailnet's administrator: it is read and
  becomes conditions of the report, and no step of a pass depends on it.
* The metrics other than the readiness gauge, the health HTTP handlers, the
  installer, bootstrap and the port interfaces: no control of their own.
* `Controller`, `Reconciler` and `ControlEgress` are not composed into one
  module: a pass is a step with an outcome in the first, and the other two are
  projections of it. Their product is out of TLC's reach.
