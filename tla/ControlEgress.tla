---------------------------- MODULE ControlEgress ----------------------------
(***************************************************************************)
(* The passes of internal/application/reconciler.go as the address cache   *)
(* and the packet filter see them: Prepare, Reconcile, FailClosed and      *)
(* Shutdown with every call they make on resolveLocalEgress (LocalEgress)  *)
(* and on the nftables store (PacketFilter), the policies they pass from   *)
(* one to the other, and lastPacketPolicy.  The remaining calls (kernel,   *)
(* Tailnet, discovery, routing: the Reconciler module) appear by their     *)
(* outcome: they let the pass go on or fail it.                            *)
(***************************************************************************)
EXTENDS LocalEgress, PacketFilter, Functions

CONSTANTS
  MaxFailures,    \* bound on other failures, stops and kills
  MaxDisturbances \* bound on all of these, outages, interference and netlink errors

(* A nameserver line that parses is an address.                            *)
ASSUME ControlEgressAssumption ==
  /\ \A lines \in ResolvConfs : \A i \in DOMAIN lines : lines[i] \in Addresses \cup InvalidLines
  /\ Accepted \subseteq Usable /\ Usable \subseteq Addresses /\ Accepted \subseteq ValidAddresses
  /\ MaxFailures \in Nat /\ MaxDisturbances \in Nat

VARIABLES
  stage,            \* the call of the pass that is under way
  lastPacketPolicy, \* none until there is one
  outcome,          \* of the last Reconcile
  failures

passVars == <<stage, lastPacketPolicy, outcome, failures>>
vars == <<egressVars, filterVars, passVars>>

Init ==
  /\ EgressInit /\ FilterInit
  /\ stage = "boot" /\ lastPacketPolicy = {} /\ outcome = "none" /\ failures = 0

disturbances == outages + interference + filterErrors + failures

Failure ==
  /\ failures < MaxFailures /\ disturbances < MaxDisturbances
  /\ failures' = failures + 1

Resolving == {"prepareResolve", "resolve", "recoverResolve"}

(* The resolver and the store at work.                                     *)
Resolver ==
  /\ \/ stage \in Resolving /\ step = "idle" /\ BeginResolve
     \/ ResolveStep
  /\ UNCHANGED <<filterVars, passVars>>
  /\ disturbances' <= MaxDisturbances

(* Only a resolution reads the clock: time that passes elsewhere is        *)
(* counted before the next one begins.                                     *)
Clock ==
  /\ stage \in Resolving /\ step \notin {"resolved", "failed"} /\ Tick
  /\ UNCHANGED <<filterVars, passVars>>

(* What others do between two calls is seen by the next listing, and is    *)
(* counted just before it.                                                 *)
Store ==
  /\ call # "idle" /\ (StoreStep \/ Interfere)
  /\ UNCHANGED <<egressVars, passVars>>
  /\ disturbances' <= MaxDisturbances

-----------------------------------------------------------------------------
(* Pieces of the passes.                                                   *)

(* The next call of the pass is on the store...                            *)
CallStore(next, p, final) ==
  /\ stage' = next /\ Request(p, final)
  /\ UNCHANGED <<egressVars, outcome>>

(* ... or on the resolver.                                                 *)
CallResolver(next) ==
  /\ stage' = next /\ UNCHANGED <<egressVars, filterVars, outcome>>

StoreReturned(at) == stage = at /\ call = "idle"

Matched(at) == StoreReturned(at) /\ result = "match"

NotMatched(at) == StoreReturned(at) /\ result # "match"

Resolved(at) == stage = at /\ step = "resolved"

NotResolved(at) == stage = at /\ step = "failed"

(* The method returns.                                                     *)
EndPass(next, end) ==
  /\ stage' = next /\ outcome' = end
  /\ LeaveResolve /\ UNCHANGED cacheVars
  /\ LeaveStore

(* The discovered egress path of every name server of the snapshot.        *)
DNSTargets(paths) == {[address |-> a, interface |-> paths[a]] : a \in Range(nameServers)}

-----------------------------------------------------------------------------
(* Prepare: the safety policy, then the marking.                           *)

Prepare ==
  \/ /\ stage = "boot" /\ CallStore("safety", safetyPacketFilterPolicy, FALSE)
     /\ UNCHANGED <<lastPacketPolicy, failures>>
  \/ /\ Matched("safety") /\ lastPacketPolicy' = {request}
     /\ \/ CallResolver("prepareResolve") /\ UNCHANGED failures
        \/ EndPass("stopping", "none") /\ Failure
  \/ /\ Resolved("prepareResolve") /\ UNCHANGED lastPacketPolicy
     /\ \/ /\ CallStore("prepare", packetFilterPolicy({}, combined, TRUE), FALSE)
           /\ UNCHANGED failures
        \/ EndPass("stopping", "none") /\ Failure
  \/ /\ Matched("prepare") /\ lastPacketPolicy' = {request}
     /\ EndPass("ready", "none") /\ UNCHANGED failures
  \/ /\ (NotMatched("safety") \/ NotResolved("prepareResolve") \/ NotMatched("prepare"))
     /\ EndPass("stopping", "none") /\ UNCHANGED <<lastPacketPolicy, failures>>

-----------------------------------------------------------------------------
(* Reconcile.                                                              *)

BeginReconcile ==
  /\ stage = "ready" /\ UNCHANGED lastPacketPolicy
  /\ \/ CallResolver("resolve") /\ UNCHANGED failures
     \/ EndPass("failing", "failed") /\ Failure

ObserveDesired ==
  /\ Resolved("resolve") /\ UNCHANGED lastPacketPolicy
  /\ \/ \E paths \in [Range(nameServers) -> Interfaces] :
          CallStore("observe", packetFilterPolicy(DNSTargets(paths), combined, FALSE), TRUE)
        /\ UNCHANGED failures
     \/ EndPass("failing", "failed") /\ Failure

finalizeSuccessfulReconcile ==
  lastPacketPolicy' = {request} /\ EndPass("ready", "served") /\ UNCHANGED failures

AcceptDrift ==
  /\ StoreReturned("observe") /\ result # "error"
  /\ finalizeSuccessfulReconcile

(* Routing and advertisements decide whether a filter that already matches *)
(* is taken as it is, verified again, or closed for a routing change.      *)
reconcileNoDrift ==
  /\ Matched("observe")
  /\ \/ finalizeSuccessfulReconcile
     \/ CallStore("verify", request, TRUE) /\ UNCHANGED <<lastPacketPolicy, failures>>

CloseGate ==
  /\ StoreReturned("observe") /\ result \in {"match", "drift"}
  /\ CallStore("close", [request EXCEPT !.closed = TRUE], FALSE)
  /\ UNCHANGED <<lastPacketPolicy, failures>>

OpenGate ==
  /\ Matched("close") /\ lastPacketPolicy' = {request}
  /\ \/ CallStore("open", [request EXCEPT !.closed = FALSE], FALSE) /\ UNCHANGED failures
     \/ EndPass("failing", "failed") /\ Failure

verifyDataPlane ==
  /\ Matched("open") /\ CallStore("verify", request, TRUE)
  /\ UNCHANGED <<lastPacketPolicy, failures>>

Publish ==
  /\ Matched("verify")
  /\ \/ finalizeSuccessfulReconcile
     \/ EndPass("failing", "failed") /\ Failure /\ UNCHANGED lastPacketPolicy

ReconcileFails ==
  /\ \/ NotResolved("resolve")
     \/ StoreReturned("observe") /\ result = "error"
     \/ \E at \in {"close", "open", "verify"} : NotMatched(at)
  /\ EndPass("failing", "failed") /\ UNCHANGED <<lastPacketPolicy, failures>>

Reconcile ==
  \/ BeginReconcile \/ ObserveDesired \/ reconcileNoDrift \/ CloseGate \/ OpenGate
  \/ verifyDataPlane \/ Publish \/ ReconcileFails

-----------------------------------------------------------------------------
(* FailClosed and Shutdown.                                                *)

LastClosed ==
  IF lastPacketPolicy = {} THEN safetyPacketFilterPolicy
  ELSE [(CHOOSE p \in lastPacketPolicy : TRUE) EXCEPT !.closed = TRUE]

(* failClosed remembers its policy however it ends; a retained local       *)
(* egress is refreshed only when closing succeeded.                        *)
failClosed ==
  \/ /\ stage = "failing" /\ CallStore("failclosed", LastClosed, FALSE)
     /\ UNCHANGED <<lastPacketPolicy, failures>>
  \/ /\ StoreReturned("failclosed") /\ lastPacketPolicy' = {request}
     /\ \/ result = "match" /\ CallResolver("recoverResolve") /\ UNCHANGED failures
        \/ result = "match" /\ EndPass("ready", "failed") /\ Failure
        \/ result # "match" /\ EndPass("ready", "failed") /\ UNCHANGED failures
  \/ /\ Resolved("recoverResolve") /\ UNCHANGED lastPacketPolicy
     /\ \/ /\ CallStore("recover", packetFilterPolicy({}, combined, TRUE), FALSE)
           /\ UNCHANGED failures
        \/ EndPass("ready", "failed") /\ Failure
  \/ /\ NotResolved("recoverResolve") /\ EndPass("ready", "failed")
     /\ UNCHANGED <<lastPacketPolicy, failures>>
  \/ /\ StoreReturned("recover")
     /\ lastPacketPolicy' = IF result = "match" THEN {request} ELSE lastPacketPolicy
     /\ EndPass("ready", "failed") /\ UNCHANGED failures

StopRequested ==
  /\ stage \in {"ready", "failing"} /\ Failure
  /\ stage' = "stopping" /\ UNCHANGED <<egressVars, filterVars, lastPacketPolicy, outcome>>

Shutdown ==
  /\ stage = "stopping" /\ CallStore("shutdown", LastClosed, FALSE)
  /\ UNCHANGED <<lastPacketPolicy, failures>>

(* The container runtime starts the process again: what it had in memory   *)
(* is gone.                                                                *)
Reboot ==
  /\ stage' = "boot" /\ lastPacketPolicy' = {} /\ outcome' = "none"
  /\ LeaveResolve /\ NewCache /\ LeaveStore

Exit == StoreReturned("shutdown") /\ Reboot /\ UNCHANGED failures

Kill == Failure /\ Reboot

Next ==
  \/ Resolver \/ Clock \/ Store
  \/ Prepare \/ Reconcile \/ failClosed \/ StopRequested \/ Shutdown \/ Exit \/ Kill

(* Time passes and calls return or time out; the Controller starts the     *)
(* next pass.  Nothing is assumed of interference, of failures, of stops   *)
(* and kills, or of which name server answers.                             *)
Fairness ==
  /\ WF_vars(Resolver) /\ SF_vars(Clock) /\ WF_vars(Store)
  /\ WF_vars(Prepare \/ Reconcile \/ failClosed \/ Shutdown \/ Exit)

Spec == Init /\ [][Next]_vars /\ Fairness

-----------------------------------------------------------------------------
(* Properties.                                                             *)

(* What is in force after a Reconcile that succeeded: forwarding is open,  *)
(* and the packets marked for the proxy are exactly those to addresses     *)
(* that every domain's last answer gave, none older than                   *)
(* MaximumStaleness when the pass resolved, through all retries, retained  *)
(* answers and policies handed from call to call.                          *)
ServedMarksAreFresh ==
  outcome = "served" /\ stage = "ready" /\ calm =>
    /\ Dropped(filter) = {}
    /\ \A d \in DomainNames : heard[d].age <= MaximumStaleness
    /\ \A p \in Marked(filter) : \E d \in DomainNames : p.address \in heard[d].addresses
    /\ \A d \in DomainNames : \A a \in heard[d].addresses :
         \E p \in Marked(filter) : p.address = a

Blocked == \E t \in filter \cup nat : t.metadata = {}

(* Whatever failed, was stale or was interfered with before, the gateway   *)
(* gets back to serving, unless a foreign table holds a managed name.      *)
EventuallyServed == []<>(outcome = "served" \/ Blocked)
=============================================================================
