----------------------------- MODULE Lifecycle -----------------------------
(***************************************************************************)
(* Who owns the gateway, from process start to process end:                *)
(* Supervisor.Run and runOwned (internal/application/supervisor.go), the   *)
(* Lease coordinator with its ownedSession                                 *)
(* (internal/adapter/kubernetes/coordination.go), the file-lock one        *)
(* (internal/adapter/filelock), and the supervised containerboot process   *)
(* (internal/adapter/process).                                             *)
(*                                                                         *)
(* The leader elector is client-go's and is modelled from its use: Run     *)
(* acquires the Lease, starts OnStartedLeading in a goroutine of its own,  *)
(* renews until its context ends or renewal fails, gives the Lease up      *)
(* (ReleaseOnCancel), cancels the context it passed to OnStartedLeading    *)
(* and calls OnStoppedLeading, without waiting for the goroutine.          *)
(*                                                                         *)
(* Reconciler and Controller appear by when they start and return.         *)
(***************************************************************************)
EXTENDS Naturals

CONSTANT Modes   \* the RuntimeModes to consider

ASSUME ModesAssumption == Modes # {} /\ Modes \subseteq {"run", "supervise-containerboot"}

VARIABLES
  mode,            \* how the agent was started; never changes
  ctxDone,         \* the Supervisor's context is cancelled
  health,          \* the health server: "running", "returned", "counted"
  main,            \* the goroutine in Coordinator.Run
  elector,         \* the goroutine in elector.Run
  callback,        \* the goroutine in OnStartedLeading
  lease,           \* this process's claim on the Lease or lock
  electionDone,    \* electionContext is cancelled
  leadershipDone,  \* the context given to OnStartedLeading is cancelled
  acquired,        \* the acquired channel is closed
  electionStopped, \* the electionStopped channel is closed
  watcher,         \* the goroutine that waits for leadershipContext.Done()
  stopping, started, \* ownedSession: stopping, and cancel # nil
  ownedDone,       \* the context of runOwned is cancelled
  owned,           \* where runOwned is
  ownedResult,     \* results in the ownedResult channel, of capacity one
  controller,      \* the Controller goroutine
  process,         \* containerboot
  processSeen      \* runOwned has received the process's exit

coordination == <<lease, electionDone, leadershipDone, acquired, electionStopped>>
session      == <<stopping, started, ownedDone>>
children     == <<controller, process, processSeen>>
vars == <<mode, ctxDone, health, main, elector, callback, coordination, watcher, session,
          owned, ownedResult, children>>

(* ValidateRuntimeMode ties supervised containerboot to the Lease backend  *)
(* and the external mode to the file lock.                                 *)
Supervised == mode = "supervise-containerboot"

Init ==
  /\ mode \in Modes
  /\ ctxDone = FALSE /\ health = "running"
  /\ main = IF Supervised THEN "select" ELSE "flock"
  /\ elector = IF Supervised THEN "acquiring" ELSE "none"
  /\ callback = "none" /\ watcher = "none"
  /\ lease = "free" /\ electionDone = FALSE /\ leadershipDone = FALSE
  /\ acquired = FALSE /\ electionStopped = FALSE
  /\ stopping = FALSE /\ started = FALSE /\ ownedDone = FALSE
  /\ owned = "none" /\ ownedResult = 0
  /\ controller = "none" /\ process = "none" /\ processSeen = FALSE

-----------------------------------------------------------------------------
(* Supervisor.Run.                                                         *)

(* A termination signal.                                                   *)
Signal ==
  /\ ~ctxDone /\ ctxDone' = TRUE
  /\ UNCHANGED <<mode, health, main, elector, callback, coordination, watcher, session,
                 owned, ownedResult, children>>

(* The health server fails, or shuts down because its context ended.       *)
HealthReturns ==
  /\ health = "running" /\ health' = "returned"
  /\ UNCHANGED <<mode, ctxDone, main, elector, callback, coordination, watcher, session,
                 owned, ownedResult, children>>

ReceiveWithoutCancelling ==
  /\ \/ health = "returned" /\ health' = "counted" /\ UNCHANGED main
     \/ main = "returned" /\ main' = "counted" /\ UNCHANGED health
  /\ UNCHANGED <<mode, ctxDone, elector, callback, coordination, watcher, session, owned,
                 ownedResult, children>>

(* The loop over results: the first component to return cancels the other. *)
ReceiveResult ==
  /\ \/ health = "returned" /\ health' = "counted" /\ UNCHANGED main
     \/ main = "returned" /\ main' = "counted" /\ UNCHANGED health
  /\ ctxDone' = TRUE
  /\ UNCHANGED <<mode, elector, callback, coordination, watcher, session, owned, ownedResult,
                 children>>

SupervisorReturned == health = "counted" /\ main = "counted"

-----------------------------------------------------------------------------
(* The leader elector.                                                     *)

(* A request in flight may still succeed after the election is cancelled.  *)
Acquire ==
  /\ elector = "acquiring"
  /\ elector' = "renewing" /\ lease' = "held" /\ callback' = "starting"
  /\ UNCHANGED <<mode, ctxDone, health, main, electionDone, leadershipDone, acquired,
                 electionStopped, watcher, session, owned, ownedResult, children>>

AcquireGivesUp ==
  /\ elector = "acquiring" /\ electionDone /\ elector' = "leaving"
  /\ UNCHANGED <<mode, ctxDone, health, main, callback, coordination, watcher, session,
                 owned, ownedResult, children>>

(* Renewal fails for RenewDeadline, or the Lease is deleted or taken.      *)
RenewalFails ==
  /\ elector = "renewing" /\ elector' = "leaving" /\ lease' = "lost"
  /\ UNCHANGED <<mode, ctxDone, health, main, callback, electionDone, leadershipDone, acquired,
                 electionStopped, watcher, session, owned, ownedResult, children>>

ReleaseOnCancel ==
  /\ elector = "renewing" /\ electionDone
  /\ elector' = "leaving" /\ lease' = "released"
  /\ UNCHANGED <<mode, ctxDone, health, main, callback, electionDone, leadershipDone, acquired,
                 electionStopped, watcher, session, owned, ownedResult, children>>

(* The deferred calls of elector.Run, innermost first.                     *)
CancelLeadership ==
  /\ elector = "leaving" /\ elector' = "cancelled" /\ leadershipDone' = TRUE
  /\ UNCHANGED <<mode, ctxDone, health, main, callback, lease, electionDone, acquired,
                 electionStopped, watcher, session, owned, ownedResult, children>>

OnStoppedLeading ==
  /\ elector = "cancelled" /\ elector' = "done" /\ electionStopped' = TRUE
  /\ UNCHANGED <<mode, ctxDone, health, main, callback, lease, electionDone, leadershipDone,
                 acquired, watcher, session, owned, ownedResult, children>>

ElectorStep == AcquireGivesUp \/ ReleaseOnCancel \/ CancelLeadership \/ OnStoppedLeading

-----------------------------------------------------------------------------
(* OnStartedLeading and the owned session.                                 *)

StartWithoutChecking ==
  /\ callback = "starting" /\ callback' = "announcing" /\ started' = TRUE
  /\ UNCHANGED <<mode, ctxDone, health, main, elector, coordination, watcher, stopping, ownedDone,
                 owned, ownedResult, children>>

(* session.start refuses a session that was stopped or whose parent ended. *)
SessionStart ==
  /\ callback = "starting"
  /\ IF stopping \/ ctxDone
     THEN callback' = "done" /\ electionDone' = TRUE /\ UNCHANGED started
     ELSE callback' = "announcing" /\ started' = TRUE /\ UNCHANGED electionDone
  /\ UNCHANGED <<mode, ctxDone, health, main, elector, lease, leadershipDone, acquired,
                 electionStopped, watcher, stopping, ownedDone, owned, ownedResult, children>>

(* close(acquired), the watcher goroutine, and the call of runOwned.       *)
Announce ==
  /\ callback = "announcing" /\ callback' = "running"
  /\ acquired' = TRUE /\ watcher' = "waiting" /\ owned' = "prepare"
  /\ UNCHANGED <<mode, ctxDone, health, main, elector, lease, electionDone, leadershipDone,
                 electionStopped, session, ownedResult, children>>

CallbackReturns ==
  /\ callback = "running" /\ owned = "returned"
  /\ callback' = "done" /\ ownedResult' = ownedResult + 1 /\ electionDone' = TRUE
  /\ UNCHANGED <<mode, ctxDone, health, main, elector, lease, leadershipDone, acquired,
                 electionStopped, watcher, session, owned, children>>

SessionStop == stopping' = TRUE /\ ownedDone' = (ownedDone \/ started) /\ UNCHANGED started

WatcherStops ==
  /\ watcher = "waiting" /\ leadershipDone /\ watcher' = "done" /\ SessionStop
  /\ UNCHANGED <<mode, ctxDone, health, main, elector, callback, coordination, owned,
                 ownedResult, children>>

-----------------------------------------------------------------------------
(* Coordinator.Run of the Lease coordinator.                               *)

SelectAcquired ==
  /\ main = "select" /\ acquired /\ main' = "owned"
  /\ UNCHANGED <<mode, ctxDone, health, elector, callback, coordination, watcher, session,
                 owned, ownedResult, children>>

(* parent.Done() or the acquire timer, in the first select.                *)
GiveUpAcquiring ==
  /\ main = "select"
  /\ SessionStop /\ electionDone' = TRUE
  /\ main' = IF started THEN "awaitElectionThenOwned" ELSE "awaitElection"
  /\ UNCHANGED <<mode, ctxDone, health, elector, callback, lease, leadershipDone, acquired,
                 electionStopped, watcher, owned, ownedResult, children>>

ElectionEndsFirst ==
  /\ main = "select" /\ electionStopped
  /\ SessionStop
  /\ main' = IF started THEN "awaitOwned" ELSE "returned"
  /\ UNCHANGED <<mode, ctxDone, health, elector, callback, coordination, watcher, owned,
                 ownedResult, children>>

(* The second select.                                                      *)
OwnedReturnsFirst ==
  /\ main = "owned" /\ ownedResult > 0
  /\ main' = "awaitElection" /\ ownedResult' = ownedResult - 1 /\ electionDone' = TRUE
  /\ UNCHANGED <<mode, ctxDone, health, elector, callback, lease, leadershipDone, acquired,
                 electionStopped, watcher, session, owned, children>>

ReleaseBeforeOwnedReturns ==
  /\ main = "owned" /\ ctxDone
  /\ SessionStop /\ electionDone' = TRUE /\ main' = "awaitElectionThenOwned"
  /\ UNCHANGED <<mode, ctxDone, health, elector, callback, lease, leadershipDone, acquired,
                 electionStopped, watcher, owned, ownedResult, children>>

ParentDone ==
  /\ main = "owned" /\ ctxDone
  /\ SessionStop /\ main' = "awaitOwnedThenElection"
  /\ UNCHANGED <<mode, ctxDone, health, elector, callback, coordination, watcher, owned,
                 ownedResult, children>>

CoordinationLost ==
  /\ main = "owned" /\ electionStopped
  /\ SessionStop /\ main' = "awaitOwned"
  /\ UNCHANGED <<mode, ctxDone, health, elector, callback, coordination, watcher, owned,
                 ownedResult, children>>

AwaitElection ==
  /\ electionStopped
  /\ \/ main = "awaitElection" /\ main' = "returned"
     \/ main = "awaitElectionThenOwned" /\ main' = "awaitOwned"
  /\ UNCHANGED <<mode, ctxDone, health, elector, callback, coordination, watcher, session,
                 owned, ownedResult, children>>

AwaitOwned ==
  /\ ownedResult > 0 /\ ownedResult' = ownedResult - 1
  /\ \/ main = "awaitOwned" /\ main' = "returned" /\ UNCHANGED electionDone
     \/ main = "awaitOwnedThenElection" /\ main' = "awaitElection" /\ electionDone' = TRUE
  /\ UNCHANGED <<mode, ctxDone, health, elector, callback, lease, leadershipDone, acquired,
                 electionStopped, watcher, session, owned, children>>

-----------------------------------------------------------------------------
(* Coordinator.Run of the file-lock coordinator: the callback runs in the  *)
(* same goroutine and with the Supervisor's own context.                   *)

Flock ==
  /\ main = "flock" /\ main' = "locked" /\ lease' = "held" /\ owned' = "prepare"
  /\ UNCHANGED <<mode, ctxDone, health, elector, callback, electionDone, leadershipDone, acquired,
                 electionStopped, watcher, session, ownedResult, children>>

(* The context ends, the deadline passes or the lock cannot be opened.     *)
FlockGivesUp ==
  /\ main = "flock" /\ main' = "returned"
  /\ UNCHANGED <<mode, ctxDone, health, elector, callback, coordination, watcher, session,
                 owned, ownedResult, children>>

Unlock ==
  /\ main = "locked" /\ owned = "returned" /\ main' = "returned" /\ lease' = "released"
  /\ UNCHANGED <<mode, ctxDone, health, elector, callback, electionDone, leadershipDone, acquired,
                 electionStopped, watcher, session, owned, ownedResult, children>>

-----------------------------------------------------------------------------
(* The containerboot process and the Controller, seen from runOwned.       *)

ownedContextDone == IF Supervised THEN ownedDone ELSE ctxDone
controlDone      == owned \in {"join", "stop"}
outside          == <<mode, ctxDone, health, main, elector, callback, coordination, watcher,
                      session, ownedResult>>

(* Controller.Run returns because its context ended, or with an error.     *)
ControllerReturns ==
  /\ controller = "running" /\ controller' = "returned"
  /\ UNCHANGED <<outside, owned, process, processSeen>>

ProcessExits ==
  /\ process \in {"running", "unkillable"} /\ process' = "exited"
  /\ UNCHANGED <<outside, owned, controller, processSeen>>

-----------------------------------------------------------------------------
(* runOwned.                                                               *)

Prepare ==
  /\ owned = "prepare" /\ owned' \in {"start", "abandon"}
  /\ UNCHANGED <<outside, children>>

(* MarkQuarantined, the process, then the Controller.                      *)
StartChildren ==
  /\ owned = "start"
  /\ \/ /\ owned' = "run" /\ controller' = "running"
        /\ process' = IF Supervised THEN "running" ELSE process
     \/ Supervised /\ owned' = "abandon" /\ UNCHANGED <<controller, process>>
  /\ UNCHANGED <<outside, processSeen>>

(* The early returns: shutdownReconciler and nothing else to stop.         *)
Abandon ==
  /\ owned = "abandon" /\ owned' = "returned"
  /\ UNCHANGED <<outside, children>>

StopWithoutJoining ==
  /\ owned = "run"
  /\ \/ ownedContextDone /\ owned' = "stop" /\ UNCHANGED processSeen
     \/ controller = "returned" /\ owned' = "stop" /\ UNCHANGED processSeen
     \/ process = "exited" /\ owned' = "stop" /\ processSeen' = TRUE
  /\ UNCHANGED <<outside, controller, process>>

(* The select; every branch cancels the Controller's context.              *)
FirstToEnd ==
  /\ owned = "run"
  /\ \/ ownedContextDone /\ owned' = "join" /\ UNCHANGED processSeen
     \/ controller = "returned" /\ owned' = "stop" /\ UNCHANGED processSeen
     \/ process = "exited" /\ owned' = "join" /\ processSeen' = TRUE
  /\ UNCHANGED <<outside, controller, process>>

JoinController ==
  /\ owned = "join" /\ controller = "returned" /\ owned' = "stop"
  /\ UNCHANGED <<outside, children>>

(* MarkStopping and shutdownReconciler, then SIGTERM to the process group. *)
StopReconciler ==
  /\ owned = "stop"
  /\ owned' = IF Supervised /\ ~processSeen THEN "terminate" ELSE "returned"
  /\ UNCHANGED <<outside, children>>

(* Terminate returns on the exit, or sends SIGKILL at its timeout, or gives *)
(* up when the exit is not confirmed in five seconds.                      *)
Terminate ==
  \/ /\ owned \in {"terminate", "kill"} /\ process = "exited" /\ owned' = "returned"
     /\ UNCHANGED <<outside, children>>
  \/ /\ owned = "terminate" /\ owned' = "kill"
     /\ UNCHANGED <<outside, children>>
  \/ /\ owned = "kill" /\ process = "running"
     /\ owned' = "returned" /\ process' = "unkillable"
     /\ UNCHANGED <<outside, controller, processSeen>>

runOwned ==
  \/ Prepare \/ StartChildren \/ Abandon \/ FirstToEnd \/ JoinController
  \/ StopReconciler \/ Terminate

-----------------------------------------------------------------------------
(* Supervisor.Run returned and nothing it started is left to take a step.  *)
Terminated ==
  /\ SupervisorReturned /\ callback \in {"none", "done"} /\ UNCHANGED vars

LeaseRun ==
  \/ SelectAcquired \/ GiveUpAcquiring \/ ElectionEndsFirst \/ OwnedReturnsFirst
  \/ ParentDone \/ CoordinationLost \/ AwaitElection \/ AwaitOwned
FileRun == Flock \/ FlockGivesUp \/ Unlock
Callback == SessionStart \/ Announce \/ CallbackReturns

Next ==
  \/ Signal \/ HealthReturns \/ ReceiveResult
  \/ Acquire \/ RenewalFails \/ ElectorStep \/ Callback \/ WatcherStops
  \/ LeaseRun \/ FileRun
  \/ ControllerReturns \/ ProcessExits \/ runOwned
  \/ Terminated

Spec == Init /\ [][Next]_vars

(* Every goroutine that can step does: Prepare, Shutdown, Terminate and the *)
(* release of the Lease are bounded by timeouts, the acquire timers fire,  *)
(* and health server and Controller return when their context ends.        *)
FairSpec ==
  /\ Spec
  /\ WF_vars(ReceiveResult) /\ WF_vars(ctxDone /\ HealthReturns)
  /\ WF_vars(ElectorStep) /\ WF_vars(Callback) /\ WF_vars(WatcherStops)
  /\ WF_vars(LeaseRun) /\ WF_vars(FileRun)
  /\ WF_vars(runOwned) /\ WF_vars(controlDone /\ ControllerReturns)

-----------------------------------------------------------------------------
OwnedRuns == owned \notin {"none", "returned"}

(* Once Coordinator.Run has returned, nothing of the owned run is left and *)
(* nothing of it can start: no runOwned in an OnStartedLeading goroutine   *)
(* that was scheduled late, no Controller, and no containerboot other than *)
(* one that survived SIGKILL.                                              *)
ReturnsQuiescent ==
  main \in {"returned", "counted"} =>
    ~OwnedRuns /\ controller # "running" /\ process # "running"

(* The Controller has returned before runOwned calls Reconciler.Shutdown:  *)
(* both would otherwise drive the same routes and nftables tables.         *)
ShutdownAfterController ==
  owned \in {"stop", "terminate", "kill", "returned"} => controller # "running"

(* "Coordination ownership is retained until that cleanup completes":      *)
(* while runOwned has work left this process has not given its claim up    *)
(* (it may have lost it).                                                  *)
OwnershipRetained == OwnedRuns => lease # "released"

(* The same from the moment Coordinator.Run has seen the acquisition, in   *)
(* both coordinators.                                                      *)
OwnershipRetainedOnceAcquired == [](main \in {"owned", "locked"} => []OwnershipRetained)

(* A termination signal, the loss of the Lease, the end of the health      *)
(* server or the end of runOwned always ends Supervisor.Run: the goroutines *)
(* that wait for each other's channels never all wait.                     *)
SupervisorReturns ==
  (ctxDone \/ lease = "lost" \/ health # "running" \/ owned = "returned") ~> SupervisorReturned
=============================================================================
