----------------------------- MODULE Controller -----------------------------
(***************************************************************************)
(* internal/application/controller.go: the goroutine that alone calls the  *)
(* Reconciler, and the two collectors that feed it kernel and Tailnet      *)
(* events.  They share the Status, the readiness gauge, the cancellation   *)
(* function of the active pass (activeCancel under activeMutex), a trigger *)
(* channel of capacity one and an error channel of capacity one.           *)
(*                                                                         *)
(* A step is what the code does between two points where another goroutine *)
(* can act: one Status method, one SetReady, one section under             *)
(* activeMutex, one channel operation.  Reconcile and FailClosed are calls *)
(* whose work is the Reconciler module's; here only their duration, their  *)
(* result and the context checks that can make a pass fail matter.         *)
(***************************************************************************)
EXTENDS Status

Collectors == {"network", "tailnet"}

CONSTANTS
  MaxEpoch,  \* bound on MarkDirty calls: the start-up one and the events
  Sources    \* the collectors whose stream is alive in this instance

ASSUME MaxEpochAssumption == MaxEpoch \in Nat \ {0}

ASSUME SourcesAssumption == Sources \subseteq Collectors

VARIABLES
  status,          \* the shared Status
  gauge,           \* the tailscale_gateway_agent_ready metric
  pc,              \* where the Controller goroutine is
  observedEpoch,   \* execute: the epoch BeginReconcile returned
  ready,           \* execute: the readiness value about to be published
  report,          \* execute: what Reconcile returned, or NoReport
  activeCancel,    \* whether activeCancel holds the current pass's cancel function
  passCancelled,   \* whether that function has been called
  at,              \* where each collector is
  handle,          \* cancelActiveReconcile: the cancel function a collector copied
  triggers,        \* the trigger channel is full
  collectorErrors, \* the error channel is full
  debounceTick,    \* the debounce timer is armed
  retryTick,       \* the retry timer is armed
  parentDone,      \* the context given to Run is cancelled
  unsubscribed     \* cancelSubscription has been called

shared   == <<status, gauge>>
passVars == <<observedEpoch, ready, report, activeCancel, passCancelled>>
colVars  == <<at, handle>>
chanVars == <<triggers, collectorErrors>>
timers   == <<debounceTick, retryTick>>
ctxVars  == <<parentDone, unsubscribed>>
vars     == <<shared, pc, passVars, colVars, chanVars, timers, ctxVars>>

(* The zero report returned beside an error; ReportValid rejects it.        *)
NoReport == [dataPlaneAvailable |-> FALSE, conditions |-> FALSE]

(* The steps of execute between setActiveReconcile and clearActiveReconcile. *)
Registered == {"recheck", "reconcile", "converged", "unregister"}

ExecuteSteps ==
  {"begin", "readReady", "publishReady", "register"} \cup Registered \cup
  {"judge", "failClosed", "recordFailure", "revokeGauge",
   "recordSuccess", "publishSuccess", "reread", "correctGauge"}

ControllerSteps ==
  {"subscribe", "startDirty", "startGauge", "select", "join", "returned", "stopped"}
    \cup ExecuteSteps

CollectorSteps ==
  {"off", "idle", "dirtied", "revoked", "fetched", "notify",
   "closing", "failing", "drained", "done"}

Goto(from, to) == pc = from /\ pc' = to

Move(c, from, to) == at[c] = from /\ at' = [at EXCEPT ![c] = to]

(* Run is entered by runOwned right after MarkQuarantined.                  *)
Init ==
  /\ status = MarkQuarantined(NewStatus)
  /\ gauge = FALSE
  /\ pc = "subscribe"
  /\ observedEpoch = 0 /\ ready = FALSE /\ report = NoReport
  /\ activeCancel = FALSE /\ passCancelled = FALSE
  /\ at = [c \in Collectors |-> "off"]
  /\ handle = [c \in Collectors |-> "none"]
  /\ triggers = FALSE /\ collectorErrors = FALSE
  /\ debounceTick = FALSE /\ retryTick = FALSE
  /\ parentDone = FALSE /\ unsubscribed = FALSE

PassDone == passCancelled \/ parentDone

SubscriptionDone == parentDone \/ unsubscribed

-----------------------------------------------------------------------------
(* The Controller goroutine: Run up to its loop.                           *)

(* Both collectors start together.  Whether the Tailnet one has a watch    *)
(* open only delays its events: the watch is the TailnetEvents module's.   *)
Subscribe ==
  /\ pc = "subscribe"
  /\ \/ /\ pc' = "startDirty"
        /\ at' = [c \in Collectors |-> "idle"]
     \/ /\ pc' = "returned"
        /\ at' = at
  /\ UNCHANGED <<shared, passVars, handle, chanVars, timers, ctxVars>>

StartDirty ==
  /\ Goto("startDirty", "startGauge")
  /\ status' = MarkDirty(status)
  /\ UNCHANGED <<gauge, passVars, colVars, chanVars, timers, ctxVars>>

StartGauge ==
  /\ Goto("startGauge", "begin")
  /\ gauge' = FALSE
  /\ UNCHANGED <<status, passVars, colVars, chanVars, timers, ctxVars>>

-----------------------------------------------------------------------------
(* execute.                                                                *)

Begin ==
  /\ Goto("begin", "readReady")
  /\ observedEpoch' = status.dirtyEpoch
  /\ status' = BeginReconcile(status)
  /\ UNCHANGED <<gauge, ready, report, activeCancel, passCancelled, colVars,
                 chanVars, timers, ctxVars>>

ReadReady ==
  /\ Goto("readReady", "publishReady")
  /\ ready' = healthSnapshotReady(status)
  /\ UNCHANGED <<shared, observedEpoch, report, activeCancel, passCancelled,
                 colVars, chanVars, timers, ctxVars>>

PublishReady ==
  /\ Goto("publishReady", "register")
  /\ gauge' = ready
  /\ UNCHANGED <<status, passVars, colVars, chanVars, timers, ctxVars>>

(* A new context and its cancel function; a collector that still holds the *)
(* function of an earlier pass holds one that cannot reach this pass.      *)
Register ==
  /\ Goto("register", "recheck")
  /\ activeCancel' = TRUE
  /\ passCancelled' = FALSE
  /\ handle' = [c \in Collectors |-> IF handle[c] = "current" THEN "stale" ELSE handle[c]]
  /\ UNCHANGED <<shared, observedEpoch, ready, report, at, chanVars, timers, ctxVars>>

RecheckDropped ==
  /\ Goto("recheck", "reconcile")
  /\ UNCHANGED <<shared, passVars, colVars, chanVars, timers, ctxVars>>

Recheck ==
  /\ Goto("recheck", "reconcile")
  /\ passCancelled' = (passCancelled \/ ~isCurrent(status, observedEpoch))
  /\ UNCHANGED <<shared, observedEpoch, ready, report, activeCancel, colVars,
                 chanVars, timers, ctxVars>>

(* Reconcile passes its last ctx.Err() check: from here a cancellation no  *)
(* longer has to make the pass fail.                                       *)
Converge ==
  /\ Goto("reconcile", "converged")
  /\ ~PassDone
  /\ UNCHANGED <<shared, passVars, colVars, chanVars, timers, ctxVars>>

ReconcileSucceeds ==
  /\ Goto("converged", "unregister")
  /\ \E r \in Reports : ReportValid(r) /\ report' = r
  /\ UNCHANGED <<shared, observedEpoch, ready, activeCancel, passCancelled,
                 colVars, chanVars, timers, ctxVars>>

(* A technical error, the pass deadline or a cancellation.                 *)
ReconcileFails ==
  /\ pc \in {"reconcile", "converged"}
  /\ pc' = "unregister"
  /\ report' = NoReport
  /\ UNCHANGED <<shared, observedEpoch, ready, activeCancel, passCancelled,
                 colVars, chanVars, timers, ctxVars>>

Unregister ==
  /\ Goto("unregister", "judge")
  /\ activeCancel' = FALSE
  /\ passCancelled' = TRUE
  /\ UNCHANGED <<shared, observedEpoch, ready, report, colVars, chanVars, timers, ctxVars>>

(* A failed pass runs FailClosed unless the Supervisor already owns        *)
(* shutdown.                                                               *)
Judge ==
  /\ pc = "judge"
  /\ pc' = IF report # NoReport THEN "recordSuccess"
           ELSE IF parentDone THEN "recordFailure" ELSE "failClosed"
  /\ UNCHANGED <<shared, passVars, colVars, chanVars, timers, ctxVars>>

FailClosedReturns ==
  /\ Goto("failClosed", "recordFailure")
  /\ UNCHANGED <<shared, passVars, colVars, chanVars, timers, ctxVars>>

RecordFailureStep ==
  /\ Goto("recordFailure", "revokeGauge")
  /\ status' = RecordFailure(status)
  /\ UNCHANGED <<gauge, passVars, colVars, chanVars, timers, ctxVars>>

(* execute's locals go out of scope.                                       *)
ExecuteReturns == ready' = FALSE /\ report' = NoReport

RevokeGaugeWithoutRetry ==
  /\ Goto("revokeGauge", "select")
  /\ gauge' = FALSE
  /\ retryTick' = FALSE
  /\ ExecuteReturns
  /\ UNCHANGED <<status, observedEpoch, activeCancel, passCancelled, colVars,
                 chanVars, debounceTick, ctxVars>>

RevokeGauge ==
  /\ Goto("revokeGauge", "select")
  /\ gauge' = FALSE
  /\ retryTick' = TRUE
  /\ ExecuteReturns
  /\ UNCHANGED <<status, observedEpoch, activeCancel, passCancelled, colVars,
                 chanVars, debounceTick, ctxVars>>

RecordSuccessStep ==
  /\ Goto("recordSuccess", "publishSuccess")
  /\ status' = RecordSuccess(status, observedEpoch, report)
  /\ ready' = RecordSuccessReturns(status, observedEpoch, report)
  /\ UNCHANGED <<gauge, observedEpoch, report, activeCancel, passCancelled,
                 colVars, chanVars, timers, ctxVars>>

PublishSuccess ==
  /\ Goto("publishSuccess", "reread")
  /\ gauge' = ready
  /\ UNCHANGED <<status, passVars, colVars, chanVars, timers, ctxVars>>

Reread ==
  /\ Goto("reread", "correctGauge")
  /\ ready' = (ready /\ healthSnapshotReady(status))
  /\ UNCHANGED <<shared, observedEpoch, report, activeCancel, passCancelled,
                 colVars, chanVars, timers, ctxVars>>

CorrectGaugeDropped ==
  /\ Goto("correctGauge", "select")
  /\ gauge' = gauge
  /\ retryTick' = FALSE
  /\ ExecuteReturns
  /\ UNCHANGED <<status, observedEpoch, activeCancel, passCancelled, colVars,
                 chanVars, debounceTick, ctxVars>>

CorrectGauge ==
  /\ Goto("correctGauge", "select")
  /\ gauge' = (gauge /\ ready)
  /\ retryTick' = FALSE
  /\ ExecuteReturns
  /\ UNCHANGED <<status, observedEpoch, activeCancel, passCancelled, colVars,
                 chanVars, debounceTick, ctxVars>>

-----------------------------------------------------------------------------
(* The select loop of Run, one action per case that can be ready.          *)

(* schedule: the debounce timer is armed once and not pushed back.         *)
schedule == debounceTick' = TRUE

ReceiveTrigger ==
  /\ Goto("select", "select")
  /\ triggers /\ triggers' = FALSE
  /\ schedule
  /\ UNCHANGED <<shared, passVars, colVars, collectorErrors, retryTick, ctxVars>>

(* The audit, preference, capability and DNS tickers.                      *)
AuditTick ==
  /\ Goto("select", "select")
  /\ schedule
  /\ UNCHANGED <<shared, passVars, colVars, chanVars, retryTick, ctxVars>>

DebounceFires ==
  /\ Goto("select", "begin")
  /\ debounceTick /\ debounceTick' = FALSE
  /\ UNCHANGED <<shared, passVars, colVars, chanVars, retryTick, ctxVars>>

RetryFires ==
  /\ Goto("select", "begin")
  /\ retryTick /\ retryTick' = FALSE
  /\ UNCHANGED <<shared, passVars, colVars, chanVars, debounceTick, ctxVars>>

(* Both returns run the deferred cancelSubscription and join the           *)
(* collectors.                                                             *)
Leave ==
  /\ Goto("select", "join")
  /\ \/ parentDone /\ collectorErrors' = collectorErrors
     \/ collectorErrors /\ collectorErrors' = FALSE
  /\ unsubscribed' = TRUE
  /\ UNCHANGED <<shared, passVars, colVars, triggers, timers, parentDone>>

JoinWithoutWaiting ==
  /\ Goto("join", "returned")
  /\ UNCHANGED <<shared, passVars, colVars, chanVars, timers, ctxVars>>

Join ==
  /\ Goto("join", "returned")
  /\ \A c \in Collectors : at[c] = "done"
  /\ UNCHANGED <<shared, passVars, colVars, chanVars, timers, ctxVars>>

(* runOwned, after the Controller has returned.                            *)
SupervisorMarksStopping ==
  /\ Goto("returned", "stopped")
  /\ status' = MarkStopping(status)
  /\ UNCHANGED <<gauge, passVars, colVars, chanVars, timers, ctxVars>>

ControllerStep ==
  \/ Subscribe \/ StartDirty \/ StartGauge
  \/ Begin \/ ReadReady \/ PublishReady \/ Register \/ Recheck
  \/ ReconcileFails \/ Unregister \/ Judge \/ FailClosedReturns
  \/ RecordFailureStep \/ RevokeGauge
  \/ RecordSuccessStep \/ PublishSuccess \/ Reread \/ CorrectGauge
  \/ Join \/ SupervisorMarksStopping

-----------------------------------------------------------------------------
(* The collectors.                                                         *)

(* An event is taken from the stream.                                      *)
Event(c) ==
  /\ c \in Sources /\ Move(c, "idle", "dirtied")
  /\ status.dirtyEpoch < MaxEpoch
  /\ status' = MarkDirty(status)
  /\ UNCHANGED <<gauge, pc, passVars, handle, chanVars, timers, ctxVars>>

CollectorRevokesGauge(c) ==
  /\ Move(c, "dirtied", "revoked")
  /\ gauge' = FALSE
  /\ UNCHANGED <<status, pc, passVars, handle, chanVars, timers, ctxVars>>

(* cancelActiveReconcile copies the function under the mutex ...           *)
FetchCancel(c) ==
  /\ Move(c, "revoked", "fetched")
  /\ handle' = [handle EXCEPT ![c] = IF activeCancel THEN "current" ELSE "none"]
  /\ UNCHANGED <<shared, pc, passVars, chanVars, timers, ctxVars>>

(* ... and calls it after releasing the mutex.                             *)
CallCancel(c) ==
  /\ Move(c, "fetched", "notify")
  /\ passCancelled' = (passCancelled \/ handle[c] = "current")
  /\ handle' = [handle EXCEPT ![c] = "none"]
  /\ UNCHANGED <<shared, pc, observedEpoch, ready, report, activeCancel,
                 chanVars, timers, ctxVars>>

NotifyUnlessActive(c) ==
  /\ Move(c, "notify", "idle")
  /\ triggers' = (triggers \/ ~activeCancel)
  /\ UNCHANGED <<shared, pc, passVars, handle, collectorErrors, timers, ctxVars>>

(* The send does not block: a full channel already holds a trigger.        *)
Notify(c) ==
  /\ Move(c, "notify", "idle")
  /\ triggers' = TRUE
  /\ UNCHANGED <<shared, pc, passVars, handle, collectorErrors, timers, ctxVars>>

(* The kernel event stream closes; the collector reports it and goes on    *)
(* listening for an error.                                                 *)
StreamCloses ==
  /\ Move("network", "idle", IF SubscriptionDone THEN "drained" ELSE "closing")
  /\ UNCHANGED <<shared, pc, passVars, handle, chanVars, timers, ctxVars>>

StreamFails ==
  /\ \/ Move("network", "idle", "failing")
     \/ Move("network", "drained", "failing")
  /\ UNCHANGED <<shared, pc, passVars, handle, chanVars, timers, ctxVars>>

sendFailureUnconditionally ==
  /\ \/ Move("network", "closing", "drained")
     \/ Move("network", "failing", "done")
  /\ ~collectorErrors /\ collectorErrors' = TRUE
  /\ UNCHANGED <<shared, pc, passVars, handle, triggers, timers, ctxVars>>

sendFailure ==
  /\ \/ Move("network", "closing", "drained")
     \/ Move("network", "failing", "done")
  /\ \/ ~collectorErrors /\ collectorErrors' = TRUE
     \/ SubscriptionDone /\ collectorErrors' = collectorErrors
  /\ UNCHANGED <<shared, pc, passVars, handle, triggers, timers, ctxVars>>

CollectorStops(c) ==
  /\ SubscriptionDone
  /\ \E here \in {"idle", "drained"} : Move(c, here, "done")
  /\ UNCHANGED <<shared, pc, passVars, handle, chanVars, timers, ctxVars>>

(* What a collector does by itself once it has taken an event, or once its *)
(* context has ended.                                                      *)
CollectorStep(c) ==
  \/ CollectorRevokesGauge(c) \/ FetchCancel(c) \/ CallCancel(c) \/ Notify(c)
  \/ CollectorStops(c)

-----------------------------------------------------------------------------
ParentCancelled ==
  /\ ~parentDone /\ parentDone' = TRUE
  /\ UNCHANGED <<shared, pc, passVars, colVars, chanVars, timers, unsubscribed>>

VerificationAges ==
  /\ status.lastSuccess = "fresh"
  /\ status' = Aged(status)
  /\ UNCHANGED <<gauge, pc, passVars, colVars, chanVars, timers, ctxVars>>

Terminated == pc = "stopped" /\ UNCHANGED vars

Next ==
  \/ ControllerStep
  \/ Converge \/ ReconcileSucceeds
  \/ ReceiveTrigger \/ AuditTick \/ DebounceFires \/ RetryFires \/ Leave
  \/ \E c \in Collectors : Event(c) \/ CollectorStep(c)
  \/ StreamCloses \/ StreamFails \/ sendFailure
  \/ ParentCancelled \/ VerificationAges \/ Terminated

Spec == Init /\ [][Next]_vars

(* A goroutine that can run does run; Go's select picks at random among    *)
(* its ready cases, so a case that is ready again and again is taken, and  *)
(* a timer that is armed fires.  No fairness is asked of events, tickers,  *)
(* stream failures, clock or cancellation.                                 *)
Fairness ==
  /\ WF_vars(ControllerStep)
  /\ SF_vars(ReceiveTrigger) /\ SF_vars(DebounceFires) /\ SF_vars(RetryFires)
  /\ SF_vars(Leave)
  /\ \A c \in Collectors : WF_vars(CollectorStep(c))
  /\ WF_vars(sendFailure)

FairSpec == Spec /\ Fairness

-----------------------------------------------------------------------------
(* Properties.                                                             *)

(* Every variable has its type, and no epoch runs ahead of the dirty epoch *)
(* that Status hands out (proved in ControllerProofs).                     *)
TypeOK ==
  /\ status \in StatusType
  /\ status.verifiedEpoch <= status.dirtyEpoch
  /\ observedEpoch \in 0..status.dirtyEpoch
  /\ gauge \in BOOLEAN /\ ready \in BOOLEAN
  /\ pc \in ControllerSteps
  /\ report \in Reports
  /\ activeCancel \in BOOLEAN /\ passCancelled \in BOOLEAN
  /\ at \in [Collectors -> CollectorSteps]
  /\ handle \in [Collectors -> {"none", "current", "stale"}]
  /\ triggers \in BOOLEAN /\ collectorErrors \in BOOLEAN
  /\ debounceTick \in BOOLEAN /\ retryTick \in BOOLEAN
  /\ parentDone \in BOOLEAN /\ unsubscribed \in BOOLEAN

(* Collector c has dirtied the status and its call of the current pass's   *)
(* cancel function is still to come.                                       *)
WillCancel(c) ==
  \/ at[c] \in {"dirtied", "revoked"}
  \/ at[c] = "fetched" /\ handle[c] = "current"

(* The dirty epoch closes the race between an event and the registration   *)
(* of the cancel function (execute 273-276 against cancelActiveReconcile): *)
(* a pass that works on facts older than the last event has been           *)
(* cancelled, or a collector is about to cancel it.                        *)
RegistrationRaceClosed ==
  pc \in {"reconcile", "converged"} /\ ~isCurrent(status, observedEpoch)
    => passCancelled \/ \E c \in Collectors : WillCancel(c)

(* No collector is handling an event and none has asked for a pass that    *)
(* has not begun.                                                          *)
Settled ==
  /\ pc = "select" /\ ~triggers /\ ~debounceTick
  /\ \A c \in Collectors : at[c] \notin {"dirtied", "revoked", "fetched", "notify"}

(* Whatever the order in which execute and the collectors write the ready  *)
(* gauge (190, 242, 270, 302, 309-315): between two passes it is up only   *)
(* over a status that is ready but for its age, or an event is about to    *)
(* lower it ("either ordering ends with a false gauge", 310-311); and it   *)
(* is up when /readyz is, once every event is handled.                     *)
GaugeSettles ==
  /\ pc = "select" /\ gauge =>
       ReadyApartFromAge(status) \/ \E c \in Collectors : at[c] = "dirtied"
  /\ Settled /\ healthSnapshotReady(status) => gauge

(* Stopping is final: the collectors are joined (62-66) before the         *)
(* Supervisor marks it, so no late event returns the phase to reconciling. *)
StoppingIsFinal == [][status.phase = "stopping" => status'.phase = "stopping"]_status

Ending == pc \in {"join", "returned", "stopped"}

(* No event is lost in the channel of capacity one, the debounce timer and *)
(* a pass that was superseded: again and again the latest pass has begun   *)
(* after the latest event, with no help from the periodic audits.          *)
EveryEventReachesAPass == []<>(observedEpoch = status.dirtyEpoch \/ Ending)

(* A pass that nobody cancels does not fail for ever.                      *)
PassesConverge == SF_vars(Converge) /\ SF_vars(ReconcileSucceeds)

(* Cancelled and failed passes are retried until one verifies the newest   *)
(* epoch, once events pause for long enough.                               *)
NewestEpochIsVerified ==
  PassesConverge => []<>(status.verifiedEpoch = status.dirtyEpoch \/ Ending)

(* Run returns after its context ends: neither a full error channel nor a  *)
(* collector in the middle of an event keeps the join waiting.             *)
ShutdownCompletes == []<>(parentDone => pc = "stopped")

(* ARCHITECTURE.md:207: "A timeout is a failed pass: readiness remains     *)
(* false and the Controller immediately starts a bounded fail-closed       *)
(* pass."                                                                  *)
NotReadyWhileFailingClosed == pc = "failClosed" => ~healthSnapshotReady(status)
=============================================================================
