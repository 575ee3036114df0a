-------------------------- MODULE ControllerProofs --------------------------
(***************************************************************************)
(* Proofs about the Controller, for every bound on the number of events    *)
(* and every set of live event sources.                                    *)
(***************************************************************************)
EXTENDS Controller, TLAPS

(* The tuples that UNCHANGED abbreviates.                                  *)
USE DEF shared, passVars, colVars, chanVars, timers, ctxVars

-----------------------------------------------------------------------------
(* What each Status method does to the fields the proofs look at.          *)

(* MarkDirty: a new epoch, and nothing available.                          *)
LEMMA MarkDirtyFacts ==
  ASSUME NEW s \in StatusType
  PROVE  /\ MarkDirty(s) \in StatusType
         /\ MarkDirty(s).dirtyEpoch = s.dirtyEpoch + 1
         /\ MarkDirty(s).verifiedEpoch = s.verifiedEpoch
         /\ MarkDirty(s).phase = "reconciling"
         /\ ~MarkDirty(s).dataPlaneAvailable
         /\ MarkDirty(s).lastError = s.lastError
<1>1. s.dirtyEpoch + 1 \in Nat
  BY DEF StatusType
<1>2. MarkDirty(s) = [s EXCEPT !.dirtyEpoch = s.dirtyEpoch + 1, !.phase = "reconciling",
                               !.dataPlaneAvailable = FALSE]
  BY DEF MarkDirty
<1> QED
  BY <1>1, <1>2 DEF StatusType, Phases

(* BeginReconcile changes the phase alone.                                 *)
LEMMA BeginReconcileFacts ==
  ASSUME NEW s \in StatusType
  PROVE  /\ BeginReconcile(s) \in StatusType
         /\ BeginReconcile(s).dirtyEpoch = s.dirtyEpoch
         /\ BeginReconcile(s).verifiedEpoch = s.verifiedEpoch
         /\ BeginReconcile(s).phase = "reconciling"
         /\ BeginReconcile(s).dataPlaneAvailable = s.dataPlaneAvailable
         /\ BeginReconcile(s).lastError = s.lastError
         /\ BeginReconcile(s).lastSuccess = s.lastSuccess
BY DEF BeginReconcile, StatusType, Phases

(* RecordFailure degrades and verifies nothing.                            *)
LEMMA RecordFailureFacts ==
  ASSUME NEW s \in StatusType
  PROVE  /\ RecordFailure(s) \in StatusType
         /\ RecordFailure(s).dirtyEpoch = s.dirtyEpoch
         /\ RecordFailure(s).verifiedEpoch = s.verifiedEpoch
         /\ RecordFailure(s).phase = "degraded"
         /\ ~RecordFailure(s).dataPlaneAvailable
         /\ RecordFailure(s).lastError
BY DEF RecordFailure, StatusType, Phases

(* MarkStopping ends availability and verifies nothing.                    *)
LEMMA MarkStoppingFacts ==
  ASSUME NEW s \in StatusType
  PROVE  /\ MarkStopping(s) \in StatusType
         /\ MarkStopping(s).dirtyEpoch = s.dirtyEpoch
         /\ MarkStopping(s).verifiedEpoch = s.verifiedEpoch
         /\ MarkStopping(s).phase = "stopping"
         /\ ~MarkStopping(s).dataPlaneAvailable
BY DEF MarkStopping, setUnavailablePhase, StatusType, Phases

(* Time that passes changes nothing but the age of the last success.       *)
LEMMA AgedFacts ==
  ASSUME NEW s \in StatusType
  PROVE  /\ Aged(s) \in StatusType
         /\ Aged(s).dirtyEpoch = s.dirtyEpoch
         /\ Aged(s).verifiedEpoch = s.verifiedEpoch
         /\ Aged(s).phase = s.phase
         /\ Aged(s).dataPlaneAvailable = s.dataPlaneAvailable
         /\ Aged(s).lastError = s.lastError
         /\ s.lastSuccess = "never" <=> Aged(s).lastSuccess = "never"
         /\ Aged(s).lastSuccess # "fresh"
BY DEF Aged, StatusType, Ages

(* RecordSuccess verifies its own epoch, and none that was dirtied since.  *)
LEMMA RecordSuccessFacts ==
  ASSUME NEW s \in StatusType, NEW e \in Nat, NEW r \in Reports
  PROVE  /\ RecordSuccess(s, e, r) \in StatusType
         /\ RecordSuccess(s, e, r).dirtyEpoch = s.dirtyEpoch
         /\ RecordSuccess(s, e, r).phase \in {"reconciling", "degraded", "ready"}
         /\ s.dirtyEpoch = e => RecordSuccess(s, e, r).verifiedEpoch = e
         /\ s.dirtyEpoch # e => RecordSuccess(s, e, r).verifiedEpoch = s.verifiedEpoch
BY DEF RecordSuccess, isCurrent, StatusType, Phases, Ages, Reports

-----------------------------------------------------------------------------
(* Type correctness.                                                       *)

(* The first state is well typed.                                          *)
LEMMA InitTypeOK == Init => TypeOK
<1> SUFFICES ASSUME Init PROVE TypeOK
  OBVIOUS
<1>1. status = [phase |-> "quarantined", dataPlaneAvailable |-> FALSE, lastError |-> FALSE,
                lastSuccess |-> "never", dirtyEpoch |-> 0, verifiedEpoch |-> 0]
  BY DEF Init, NewStatus, MarkQuarantined, setUnavailablePhase
<1>2. status \in StatusType
  BY <1>1 DEF StatusType, Phases, Ages
<1>3. /\ status.verifiedEpoch <= status.dirtyEpoch
      /\ observedEpoch \in 0..status.dirtyEpoch
  BY <1>1 DEF Init
<1>4. /\ at \in [Collectors -> CollectorSteps]
      /\ handle \in [Collectors -> {"none", "current", "stale"}]
  BY DEF Init, CollectorSteps
<1>5. report \in Reports
  BY DEF Init, Reports, NoReport
<1>6. pc \in ControllerSteps
  BY DEF Init, ControllerSteps
<1> QED
  BY <1>2, <1>3, <1>4, <1>5, <1>6 DEF Init, TypeOK

(* The control loop keeps the types,                                       *)
LEMMA ControllerStepTypeOK == TypeOK /\ ControllerStep => TypeOK'
<1> SUFFICES ASSUME TypeOK, ControllerStep PROVE TypeOK'
  OBVIOUS
<1>0. status.dirtyEpoch \in Nat /\ status.verifiedEpoch \in Nat /\ observedEpoch \in Nat
  BY DEF TypeOK, StatusType
<1> USE DEF TypeOK, Goto, ControllerSteps, ExecuteSteps, Registered
<1>1. CASE Subscribe
  <2>1. at' \in [Collectors -> CollectorSteps]
    BY <1>1 DEF Subscribe, CollectorSteps
  <2> QED
    BY <1>1, <2>1 DEF Subscribe
<1>2. CASE StartDirty
  BY <1>0, <1>2, MarkDirtyFacts DEF StartDirty
<1>3. CASE StartGauge
  BY <1>3 DEF StartGauge
<1>4. CASE Begin
  BY <1>0, <1>4, BeginReconcileFacts DEF Begin
<1>5. CASE ReadReady
  BY <1>5 DEF ReadReady, healthSnapshotReady, ReadyApartFromAge
<1>6. CASE PublishReady
  BY <1>6 DEF PublishReady
<1>7. CASE Register
  BY <1>7 DEF Register
<1>8. CASE Recheck
  BY <1>8 DEF Recheck, isCurrent
<1>9. CASE ReconcileFails
  BY <1>9 DEF ReconcileFails, Reports, NoReport
<1>10. CASE Unregister
  BY <1>10 DEF Unregister
<1>11. CASE Judge
  BY <1>11 DEF Judge
<1>12. CASE FailClosedReturns
  BY <1>12 DEF FailClosedReturns
<1>13. CASE RecordFailureStep
  BY <1>13, RecordFailureFacts DEF RecordFailureStep
<1>14. CASE RevokeGauge
  BY <1>14 DEF RevokeGauge, ExecuteReturns, Reports, NoReport
<1>15. CASE RecordSuccessStep
  <2>1. ready' \in BOOLEAN
    BY <1>15 DEF RecordSuccessStep, RecordSuccessReturns
  <2> QED
    BY <1>0, <1>15, <2>1, RecordSuccessFacts DEF RecordSuccessStep
<1>16. CASE PublishSuccess
  BY <1>16 DEF PublishSuccess
<1>17. CASE Reread
  BY <1>17 DEF Reread, healthSnapshotReady, ReadyApartFromAge
<1>18. CASE CorrectGauge
  BY <1>18 DEF CorrectGauge, ExecuteReturns, Reports, NoReport
<1>19. CASE Join
  BY <1>19 DEF Join
<1>20. CASE SupervisorMarksStopping
  BY <1>20, MarkStoppingFacts DEF SupervisorMarksStopping
<1> QED
  BY <1>1, <1>2, <1>3, <1>4, <1>5, <1>6, <1>7, <1>8, <1>9, <1>10, <1>11, <1>12, <1>13,
     <1>14, <1>15, <1>16, <1>17, <1>18, <1>19, <1>20 DEF ControllerStep

(* and so do the collectors.                                               *)
LEMMA CollectorTypeOK ==
  ASSUME TypeOK, NEW c \in Collectors, Event(c) \/ CollectorStep(c)
  PROVE  TypeOK'
<1>0. status.dirtyEpoch \in Nat /\ status.verifiedEpoch \in Nat
  BY DEF TypeOK, StatusType
<1> USE DEF TypeOK, Move, CollectorSteps
<1>1. CASE Event(c)
  BY <1>0, <1>1, MarkDirtyFacts DEF Event
<1>2. CASE CollectorRevokesGauge(c)
  BY <1>2 DEF CollectorRevokesGauge
<1>3. CASE FetchCancel(c)
  BY <1>3 DEF FetchCancel
<1>4. CASE CallCancel(c)
  BY <1>4 DEF CallCancel
<1>5. CASE Notify(c)
  BY <1>5 DEF Notify
<1>6. CASE CollectorStops(c)
  BY <1>6 DEF CollectorStops
<1> QED
  BY <1>1, <1>2, <1>3, <1>4, <1>5, <1>6 DEF CollectorStep

(* Every step keeps the types.                                             *)
LEMMA NextTypeOK == TypeOK /\ [Next]_vars => TypeOK'
<1> SUFFICES ASSUME TypeOK, [Next]_vars PROVE TypeOK'
  OBVIOUS
<1>0. "network" \in Collectors /\ "tailnet" \in Collectors
  BY DEF Collectors
<1>1. CASE ControllerStep
  BY <1>1, ControllerStepTypeOK
<1>2. ASSUME NEW c \in Collectors, Event(c) \/ CollectorStep(c) PROVE TypeOK'
  BY <1>2, CollectorTypeOK
<1>3. CASE Converge
  BY <1>3 DEF TypeOK, Converge, Goto, ControllerSteps, ExecuteSteps, Registered
<1>4. CASE ReconcileSucceeds
  BY <1>4 DEF TypeOK, ReconcileSucceeds, Goto, ControllerSteps, ExecuteSteps, Registered
<1>5. CASE ReceiveTrigger \/ AuditTick
  BY <1>5, ZenonT(60) DEF TypeOK, ReceiveTrigger, AuditTick, schedule, Goto
<1>6. CASE DebounceFires \/ RetryFires
  BY <1>6, ZenonT(60) DEF TypeOK, DebounceFires, RetryFires, Goto, ControllerSteps, ExecuteSteps
<1>7. CASE Leave
  BY <1>7 DEF TypeOK, Leave, Goto, ControllerSteps
<1>8. CASE StreamCloses \/ StreamFails
  BY <1>0, <1>8 DEF TypeOK, StreamCloses, StreamFails, Move, CollectorSteps
<1>9. CASE sendFailure
  BY <1>0, <1>9, ZenonT(60) DEF TypeOK, sendFailure, Move, CollectorSteps
<1>10. CASE ParentCancelled
  BY <1>10 DEF TypeOK, ParentCancelled
<1>11. CASE VerificationAges
  BY <1>11, AgedFacts DEF TypeOK, VerificationAges
<1>12. CASE UNCHANGED vars
  BY <1>12 DEF TypeOK, vars
<1> QED
  BY <1>1, <1>2, <1>3, <1>4, <1>5, <1>6, <1>7, <1>8, <1>9, <1>10, <1>11, <1>12
     DEF Next, Terminated

(* Every reachable state is well typed, and no epoch is ahead of the dirty *)
(* epoch of Status.                                                        *)
THEOREM TypeCorrect == Spec => []TypeOK
BY InitTypeOK, NextTypeOK, PTL DEF Spec

-----------------------------------------------------------------------------
(* The registration race.  RegistrationRaceClosed is inductive once the    *)
(* cancel function is known to be registered exactly while the pass can be *)
(* cancelled: otherwise a collector could fetch nothing during a pass.     *)

RaceInv ==
  /\ activeCancel <=> pc \in Registered
  /\ RegistrationRaceClosed

(* After the Controller has returned no collector is left, so nothing can  *)
(* write the phase that the Supervisor then sets.                          *)
StopInv ==
  /\ status.phase = "stopping" => pc = "stopped"
  /\ pc = "subscribe" => \A c \in Collectors : at[c] = "off"
  /\ pc \in {"returned", "stopped"} => \A c \in Collectors : at[c] \in {"off", "done"}

(* A collector, the trigger channel or the debounce timer holds the        *)
(* promise of a further pass.                                              *)
PassPromised ==
  \/ \E c \in Collectors : at[c] \in {"revoked", "fetched", "notify"}
  \/ triggers \/ debounceTick

(* A collector has dirtied the status and is about to lower the gauge.     *)
GaugeWillFall == \E c \in Collectors : at[c] = "dirtied"

(* What is known of the gauge at each step of execute that leads back to   *)
(* the select loop.                                                        *)
GaugeInv ==
  /\ status.verifiedEpoch <= observedEpoch
  /\ pc = "revokeGauge" => status.lastError
  /\ pc = "publishSuccess" =>
       (healthSnapshotReady(status) => ready \/ PassPromised)
  /\ pc \in {"reread", "correctGauge"} =>
       (healthSnapshotReady(status) => (gauge /\ ready) \/ PassPromised)
  /\ pc = "correctGauge" =>
       (gauge /\ ready => ReadyApartFromAge(status) \/ GaugeWillFall)
  /\ pc = "select" =>
       /\ healthSnapshotReady(status) => gauge \/ PassPromised
       /\ gauge => ReadyApartFromAge(status) \/ GaugeWillFall

(* No pass is under way.                                                   *)
LEMMA InitRaceInv == Init => RaceInv
BY DEF Init, RaceInv, RegistrationRaceClosed, Registered

(* A step that leaves the epochs, the pass and the collectors alone, and   *)
(* the Controller where it is, keeps RaceInv.                              *)
LEMMA RaceFrame ==
  ASSUME RaceInv, UNCHANGED <<pc, activeCancel, passCancelled, observedEpoch, handle>>,
         status'.dirtyEpoch = status.dirtyEpoch,
         \A c \in Collectors : WillCancel(c) => WillCancel(c)'
  PROVE  RaceInv'
BY DEF RaceInv, RegistrationRaceClosed, isCurrent

(* The control loop keeps the invariant of the race between a pass and an  *)
(* event.                                                                  *)
LEMMA ControllerStepRaceInv == TypeOK /\ RaceInv /\ ControllerStep => RaceInv'
<1> SUFFICES ASSUME TypeOK, RaceInv, ControllerStep PROVE RaceInv'
  OBVIOUS
<1> USE DEF RaceInv, RegistrationRaceClosed, Registered, Goto
<1>1. CASE Subscribe
  BY <1>1 DEF Subscribe
<1>2. CASE StartDirty
  BY <1>2 DEF StartDirty
<1>3. CASE StartGauge
  BY <1>3 DEF StartGauge
<1>4. CASE Begin
  BY <1>4 DEF Begin
<1>5. CASE ReadReady
  BY <1>5 DEF ReadReady
<1>6. CASE PublishReady
  BY <1>6 DEF PublishReady
<1>7. CASE Register
  BY <1>7 DEF Register
<1>8. CASE Recheck
  BY <1>8 DEF Recheck, isCurrent
<1>9. CASE ReconcileFails
  BY <1>9 DEF ReconcileFails
<1>10. CASE Unregister
  BY <1>10 DEF Unregister
<1>11. CASE Judge
  BY <1>11 DEF Judge
<1>12. CASE FailClosedReturns
  BY <1>12 DEF FailClosedReturns
<1>13. CASE RecordFailureStep
  BY <1>13 DEF RecordFailureStep
<1>14. CASE RevokeGauge
  BY <1>14 DEF RevokeGauge
<1>15. CASE RecordSuccessStep
  BY <1>15 DEF RecordSuccessStep
<1>16. CASE PublishSuccess
  BY <1>16 DEF PublishSuccess
<1>17. CASE Reread
  BY <1>17 DEF Reread
<1>18. CASE CorrectGauge
  BY <1>18 DEF CorrectGauge
<1>19. CASE Join
  BY <1>19 DEF Join
<1>20. CASE SupervisorMarksStopping
  BY <1>20 DEF SupervisorMarksStopping
<1> QED
  BY <1>1, <1>2, <1>3, <1>4, <1>5, <1>6, <1>7, <1>8, <1>9, <1>10, <1>11, <1>12, <1>13,
     <1>14, <1>15, <1>16, <1>17, <1>18, <1>19, <1>20 DEF ControllerStep

(* The heart of the argument: an event puts its collector on the way to    *)
(* the cancel function; during a registered pass the fetch finds that      *)
(* function, and the call then cancels the pass.                           *)
LEMMA CollectorRaceInv ==
  ASSUME TypeOK, RaceInv, NEW c \in Collectors, Event(c) \/ CollectorStep(c)
  PROVE  RaceInv'
<1>1. CASE Event(c)
  <2>1. WillCancel(c)'
    BY <1>1 DEF Event, Move, WillCancel, TypeOK
  <2> QED
    BY <1>1, <2>1 DEF Event, RaceInv, RegistrationRaceClosed
<1>2. CASE CollectorRevokesGauge(c)
  <2>1. \A d \in Collectors : WillCancel(d) => WillCancel(d)'
    BY <1>2 DEF CollectorRevokesGauge, Move, WillCancel, TypeOK
  <2> QED
    BY <1>2, <2>1, RaceFrame DEF CollectorRevokesGauge
<1>3. CASE FetchCancel(c)
  <2>1. activeCancel => \A d \in Collectors : WillCancel(d) => WillCancel(d)'
    BY <1>3 DEF FetchCancel, Move, WillCancel, TypeOK
  <2> QED
    BY <1>3, <2>1 DEF FetchCancel, RaceInv, RegistrationRaceClosed, Registered, isCurrent
<1>4. CASE CallCancel(c)
  <2>1. passCancelled' \/ \A d \in Collectors : WillCancel(d) => WillCancel(d)'
    BY <1>4 DEF CallCancel, Move, WillCancel, TypeOK
  <2> QED
    BY <1>4, <2>1 DEF CallCancel, RaceInv, RegistrationRaceClosed, isCurrent
<1>5. CASE Notify(c)
  <2>1. \A d \in Collectors : WillCancel(d) => WillCancel(d)'
    BY <1>5 DEF Notify, Move, WillCancel, TypeOK
  <2> QED
    BY <1>5, <2>1, RaceFrame DEF Notify
<1>6. CASE CollectorStops(c)
  <2>1. \A d \in Collectors : WillCancel(d) => WillCancel(d)'
    BY <1>6 DEF CollectorStops, Move, WillCancel, TypeOK
  <2> QED
    BY <1>6, <2>1, RaceFrame DEF CollectorStops
<1> QED
  BY <1>1, <1>2, <1>3, <1>4, <1>5, <1>6 DEF CollectorStep

(* Every step keeps it.                                                    *)
LEMMA NextRaceInv == TypeOK /\ RaceInv /\ [Next]_vars => RaceInv'
<1> SUFFICES ASSUME TypeOK, RaceInv, [Next]_vars PROVE RaceInv'
  OBVIOUS
<1>1. CASE ControllerStep
  BY <1>1, ControllerStepRaceInv
<1>2. ASSUME NEW c \in Collectors, Event(c) \/ CollectorStep(c) PROVE RaceInv'
  BY <1>2, CollectorRaceInv
<1>3. CASE Converge
  BY <1>3 DEF RaceInv, RegistrationRaceClosed, Registered, Goto, Converge, isCurrent, WillCancel
<1>4. CASE ReconcileSucceeds \/ DebounceFires \/ RetryFires \/ Leave
  BY <1>4 DEF RaceInv, RegistrationRaceClosed, Registered, Goto, ReconcileSucceeds,
              DebounceFires, RetryFires, Leave
<1>5. CASE ReceiveTrigger \/ AuditTick
  BY <1>5 DEF RaceInv, RegistrationRaceClosed, Registered, Goto, ReceiveTrigger, AuditTick
<1>6. CASE StreamCloses \/ StreamFails \/ sendFailure
  <2>1. \A d \in Collectors : WillCancel(d) => WillCancel(d)'
    BY <1>6 DEF StreamCloses, StreamFails, sendFailure,
                Move, WillCancel, TypeOK
  <2> QED
    BY <1>6, <2>1, RaceFrame DEF StreamCloses, StreamFails, sendFailure
<1>7. CASE ParentCancelled
  BY <1>7, RaceFrame DEF ParentCancelled, WillCancel
<1>8. CASE VerificationAges
  BY <1>8, RaceFrame, AgedFacts DEF VerificationAges, WillCancel, TypeOK
<1>9. CASE UNCHANGED vars
  BY <1>9, RaceFrame DEF vars, WillCancel
<1> QED
  BY <1>1, <1>2, <1>3, <1>4, <1>5, <1>6, <1>7, <1>8, <1>9 DEF Next, Terminated

(* However many events arrive and however they interleave with execute, a  *)
(* pass that works on superseded facts is cancelled or about to be.        *)
THEOREM RegistrationRace == Spec => []RegistrationRaceClosed
<1>1. RaceInv => RegistrationRaceClosed
  BY DEF RaceInv
<1> QED
  BY <1>1, TypeCorrect, InitRaceInv, NextRaceInv, PTL DEF Spec

-----------------------------------------------------------------------------
(* The end of the Controller.                                              *)

(* Nothing is stopping.                                                    *)
LEMMA InitStopInv == Init => StopInv
<1> SUFFICES ASSUME Init PROVE StopInv
  OBVIOUS
<1>1. status.phase = "quarantined"
  BY DEF Init, NewStatus, MarkQuarantined, setUnavailablePhase
<1> QED
  BY <1>1 DEF Init, StopInv

(* The steps at which the phase, the Controller's position or a collector  *)
(* that has not stopped change.                                            *)
LEMMA NextStopInv == TypeOK /\ StopInv /\ [Next]_vars => StopInv'
<1> SUFFICES ASSUME TypeOK, StopInv, [Next]_vars PROVE StopInv'
  OBVIOUS
<1> USE DEF StopInv, TypeOK
<1>1. CASE Subscribe \/ Join
  BY <1>1 DEF Subscribe, Join, Goto
<1>2. CASE StartDirty
  BY <1>2, MarkDirtyFacts DEF StartDirty, Goto
<1>3. CASE Begin
  BY <1>3, BeginReconcileFacts DEF Begin, Goto
<1>4. CASE RecordFailureStep
  BY <1>4, RecordFailureFacts DEF RecordFailureStep, Goto
<1>5. CASE RecordSuccessStep
  <2>1. observedEpoch \in Nat
    BY DEF StatusType
  <2> QED
    BY <1>5, <2>1, RecordSuccessFacts DEF RecordSuccessStep, Goto
<1>6. CASE SupervisorMarksStopping
  BY <1>6 DEF SupervisorMarksStopping, Goto
<1>7. CASE StartGauge \/ ReadReady \/ PublishReady \/ Register \/ Recheck
  BY <1>7 DEF StartGauge, ReadReady, PublishReady, Register, Recheck, Goto
<1>8. CASE Converge \/ ReconcileSucceeds \/ ReconcileFails \/ Unregister \/ Judge
  BY <1>8 DEF Converge, ReconcileSucceeds, ReconcileFails, Unregister, Judge, Goto
<1>9. CASE FailClosedReturns \/ RevokeGauge \/ PublishSuccess \/ Reread \/ CorrectGauge
  BY <1>9 DEF FailClosedReturns, RevokeGauge, PublishSuccess, Reread, CorrectGauge, Goto
<1>10. CASE ReceiveTrigger \/ AuditTick \/ DebounceFires \/ RetryFires \/ Leave
  BY <1>10 DEF ReceiveTrigger, AuditTick, DebounceFires, RetryFires, Leave, Goto
<1>11. ASSUME NEW c \in Collectors, Event(c) PROVE StopInv'
  BY <1>11, MarkDirtyFacts DEF Event, Move
<1>12. ASSUME NEW c \in Collectors, CollectorStep(c) PROVE StopInv'
  BY <1>12 DEF CollectorStep, CollectorRevokesGauge, FetchCancel, CallCancel, Notify,
               CollectorStops, Move
<1>13. CASE StreamCloses \/ StreamFails \/ sendFailure
  BY <1>13 DEF StreamCloses, StreamFails, sendFailure, Move, Collectors
<1>14. CASE ParentCancelled \/ UNCHANGED vars
  BY <1>14 DEF ParentCancelled, vars
<1>15. CASE VerificationAges
  BY <1>15, AgedFacts DEF VerificationAges
<1> QED
  BY <1>1, <1>2, <1>3, <1>4, <1>5, <1>6, <1>7, <1>8, <1>9, <1>10, <1>11, <1>12, <1>13,
     <1>14, <1>15 DEF Next, ControllerStep, Terminated

(* Once the Supervisor has marked the status stopping, no late event and   *)
(* no late pass takes the phase back.                                      *)
THEOREM StoppingFinal == Spec => StoppingIsFinal
<1> DEFINE Kept == status.phase = "stopping" => status'.phase = "stopping"
<1>1. TypeOK /\ StopInv /\ [Next]_vars => [Kept]_status
  <2> SUFFICES ASSUME TypeOK, StopInv, [Next]_vars, status.phase = "stopping"
               PROVE  status'.phase = "stopping"
    OBVIOUS
  <2>1. pc = "stopped" /\ \A c \in Collectors : at[c] \in {"off", "done"}
    BY DEF StopInv
  <2>2. ASSUME NEW c \in Collectors, Event(c) PROVE FALSE
    BY <2>1, <2>2 DEF Event, Move
  <2>3. CASE VerificationAges
    BY <2>3, AgedFacts DEF VerificationAges, TypeOK
  <2>4. CASE UNCHANGED status
    BY <2>4
  <2> QED
    BY <2>1, <2>2, <2>3, <2>4
       DEF Next, ControllerStep, Subscribe, StartDirty, StartGauge, Begin, ReadReady,
           PublishReady, Register, Recheck, ReconcileFails, Unregister, Judge,
           FailClosedReturns, RecordFailureStep, RevokeGauge, RecordSuccessStep,
           PublishSuccess, Reread, CorrectGauge, Join, SupervisorMarksStopping, Goto,
           Converge, ReconcileSucceeds, ReceiveTrigger, AuditTick, DebounceFires,
           RetryFires, Leave, CollectorStep, CollectorRevokesGauge, FetchCancel,
           CallCancel, Notify, CollectorStops, StreamCloses,
           StreamFails, sendFailure, ParentCancelled, Terminated, vars
<1> QED
  BY <1>1, TypeCorrect, InitStopInv, NextStopInv, PTL DEF Spec, StoppingIsFinal

-----------------------------------------------------------------------------
(* The ready gauge.                                                        *)

(* healthSnapshotReady of a status that was dirtied, or has aged.          *)
LEMMA ReadyFacts ==
  ASSUME NEW s \in StatusType
  PROVE  /\ healthSnapshotReady(s) => ReadyApartFromAge(s)
         /\ ~ReadyApartFromAge(MarkDirty(s))
         /\ ~healthSnapshotReady(MarkDirty(s))
         /\ ~healthSnapshotReady(Aged(s))
         /\ ReadyApartFromAge(s) => ReadyApartFromAge(Aged(s))
BY MarkDirtyFacts, AgedFacts DEF healthSnapshotReady, ReadyApartFromAge

(* A superseded pass leaves the status not ready, whatever RecordSuccess   *)
(* returns; an unsuperseded one returns the readiness it leaves.           *)
LEMMA RecordSuccessReady ==
  ASSUME NEW s \in StatusType, NEW e \in Nat, NEW r \in Reports,
         s.verifiedEpoch <= e, e <= s.dirtyEpoch,
         healthSnapshotReady(RecordSuccess(s, e, r))
  PROVE  RecordSuccessReturns(s, e, r)
<1>1. s.dirtyEpoch \in Nat /\ s.verifiedEpoch \in Nat
  BY DEF StatusType
<1>2. s.dirtyEpoch = e
  BY <1>1, RecordSuccessFacts DEF healthSnapshotReady, ReadyApartFromAge
<1> QED
  BY <1>2 DEF RecordSuccessReturns, isCurrent

(* No status is ready before the first pass.                               *)
LEMMA InitGaugeInv == Init => GaugeInv
<1> SUFFICES ASSUME Init PROVE GaugeInv
  OBVIOUS
<1>1. status.verifiedEpoch = 0
  BY DEF Init, NewStatus, MarkQuarantined, setUnavailablePhase
<1> QED
  BY <1>1 DEF Init, GaugeInv

(* The epochs only move forward together.                                  *)
LEMMA EpochsOrdered ==
  TypeOK /\ GaugeInv /\ [Next]_vars => status'.verifiedEpoch <= observedEpoch'
<1> SUFFICES ASSUME TypeOK, GaugeInv, [Next]_vars
             PROVE  status'.verifiedEpoch <= observedEpoch'
  OBVIOUS
<1>0. /\ status.dirtyEpoch \in Nat /\ status.verifiedEpoch \in Nat /\ observedEpoch \in Nat
      /\ status.verifiedEpoch <= observedEpoch
      /\ status.verifiedEpoch <= status.dirtyEpoch
  BY DEF TypeOK, StatusType, GaugeInv
<1> USE DEF TypeOK
<1>1. CASE StartDirty
  BY <1>0, <1>1, MarkDirtyFacts DEF StartDirty
<1>2. CASE Begin
  BY <1>0, <1>2, BeginReconcileFacts DEF Begin
<1>3. CASE RecordFailureStep
  BY <1>0, <1>3, RecordFailureFacts DEF RecordFailureStep
<1>4. CASE RecordSuccessStep
  BY <1>0, <1>4, RecordSuccessFacts, SMTT(60) DEF RecordSuccessStep
<1>5. CASE SupervisorMarksStopping
  BY <1>0, <1>5, MarkStoppingFacts DEF SupervisorMarksStopping
<1>6. ASSUME NEW c \in Collectors, Event(c) PROVE status'.verifiedEpoch <= observedEpoch'
  BY <1>0, <1>6, MarkDirtyFacts DEF Event
<1>7. CASE VerificationAges
  BY <1>0, <1>7, AgedFacts DEF VerificationAges
<1>8. CASE UNCHANGED <<status, observedEpoch>>
  BY <1>0, <1>8
<1> QED
  BY <1>1, <1>2, <1>3, <1>4, <1>5, <1>6, <1>7, <1>8
     DEF Next, ControllerStep, Subscribe, StartGauge, ReadReady, PublishReady, Register,
         Recheck, ReconcileFails, Unregister, Judge, FailClosedReturns, RevokeGauge,
         PublishSuccess, Reread, CorrectGauge, Join, Converge, ReconcileSucceeds,
         ReceiveTrigger, AuditTick, DebounceFires, RetryFires, Leave, CollectorStep,
         CollectorRevokesGauge, FetchCancel, CallCancel, Notify, CollectorStops,
         StreamCloses, StreamFails, sendFailure,
         ParentCancelled, Terminated, vars

(* The steps of the Controller goroutine, once the order of the epochs is  *)
(* known to be kept.                                                       *)
LEMMA ControllerStepGaugeInv ==
  ASSUME TypeOK, GaugeInv, ControllerStep, status'.verifiedEpoch <= observedEpoch'
  PROVE  GaugeInv'
<1> USE DEF GaugeInv, Goto
<1>1. CASE Subscribe \/ StartDirty \/ StartGauge \/ Begin \/ ReadReady \/ PublishReady
  BY <1>1 DEF Subscribe, StartDirty, StartGauge, Begin, ReadReady, PublishReady
<1>2. CASE Register \/ Recheck \/ ReconcileFails \/ Unregister \/ Judge \/ FailClosedReturns
  BY <1>2 DEF Register, Recheck, ReconcileFails, Unregister, Judge, FailClosedReturns
<1>3. CASE RecordFailureStep
  BY <1>3, RecordFailureFacts DEF RecordFailureStep, TypeOK
<1>4. CASE RevokeGauge
  BY <1>4 DEF RevokeGauge, healthSnapshotReady, ReadyApartFromAge
<1>5. CASE RecordSuccessStep
  <2>1. observedEpoch \in Nat /\ observedEpoch <= status.dirtyEpoch
    BY DEF TypeOK, StatusType
  <2> QED
    BY <1>5, <2>1, RecordSuccessReady DEF RecordSuccessStep, TypeOK
<1>6. CASE PublishSuccess
  BY <1>6 DEF PublishSuccess, PassPromised, TypeOK
<1>7. CASE Reread
  BY <1>7, ReadyFacts DEF Reread, PassPromised, TypeOK
<1>8. CASE CorrectGauge
  BY <1>8 DEF CorrectGauge, PassPromised, GaugeWillFall, TypeOK
<1>9. CASE Join \/ SupervisorMarksStopping
  BY <1>9 DEF Join, SupervisorMarksStopping
<1> QED
  BY <1>1, <1>2, <1>3, <1>4, <1>5, <1>6, <1>7, <1>8, <1>9 DEF ControllerStep

(* A collector lowers the gauge only on its way to promising a pass.       *)
LEMMA CollectorGaugeInv ==
  ASSUME TypeOK, GaugeInv, NEW c \in Collectors, Event(c) \/ CollectorStep(c),
         status'.verifiedEpoch <= observedEpoch'
  PROVE  GaugeInv'
<1>1. CASE Event(c)
  <2>1. GaugeWillFall'
    BY <1>1 DEF Event, Move, GaugeWillFall, TypeOK
  <2>2. ~healthSnapshotReady(status)' /\ status'.lastError = status.lastError
    BY <1>1, ReadyFacts, MarkDirtyFacts DEF Event, TypeOK
  <2> QED
    BY <1>1, <2>1, <2>2 DEF Event, GaugeInv
<1>2. CASE CollectorRevokesGauge(c)
  <2>1. PassPromised'
    BY <1>2 DEF CollectorRevokesGauge, Move, PassPromised, TypeOK
  <2> QED
    BY <1>2, <2>1 DEF CollectorRevokesGauge, GaugeInv
<1>3. CASE FetchCancel(c) \/ CallCancel(c) \/ Notify(c) \/ CollectorStops(c)
  <2>1. PassPromised => PassPromised'
    BY <1>3 DEF FetchCancel, CallCancel, Notify, CollectorStops, Move, PassPromised, TypeOK
  <2>2. GaugeWillFall => GaugeWillFall'
    BY <1>3 DEF FetchCancel, CallCancel, Notify, CollectorStops, Move, GaugeWillFall, TypeOK
  <2>3. UNCHANGED <<status, gauge, pc, ready, observedEpoch>>
    BY <1>3 DEF FetchCancel, CallCancel, Notify, CollectorStops
  <2> QED
    BY <2>1, <2>2, <2>3 DEF GaugeInv
<1> QED
  BY <1>1, <1>2, <1>3 DEF CollectorStep

(* Every step keeps what is known of the gauge where the control loop      *)
(* stands.                                                                 *)
LEMMA NextGaugeInv == TypeOK /\ GaugeInv /\ [Next]_vars => GaugeInv'
<1> SUFFICES ASSUME TypeOK, GaugeInv, [Next]_vars PROVE GaugeInv'
  OBVIOUS
<1>0. status'.verifiedEpoch <= observedEpoch'
  BY EpochsOrdered
<1>1. CASE ControllerStep
  BY <1>0, <1>1, ControllerStepGaugeInv
<1>2. ASSUME NEW c \in Collectors, Event(c) \/ CollectorStep(c) PROVE GaugeInv'
  BY <1>0, <1>2, CollectorGaugeInv
<1>3. CASE Converge \/ ReconcileSucceeds \/ DebounceFires \/ RetryFires \/ Leave
  BY <1>0, <1>3 DEF Converge, ReconcileSucceeds, DebounceFires, RetryFires, Leave, Goto, GaugeInv
<1>4. CASE ReceiveTrigger \/ AuditTick
  <2>1. PassPromised' /\ (GaugeWillFall => GaugeWillFall')
    BY <1>4 DEF ReceiveTrigger, AuditTick, schedule, PassPromised, GaugeWillFall
  <2> QED
    BY <1>0, <1>4, <2>1, SMTT(60) DEF ReceiveTrigger, AuditTick, Goto, GaugeInv
<1>5. CASE StreamCloses \/ StreamFails \/ sendFailure
  <2>1. PassPromised => PassPromised'
    BY <1>5 DEF StreamCloses, StreamFails, sendFailure, Move,
                PassPromised, TypeOK
  <2>2. GaugeWillFall => GaugeWillFall'
    BY <1>5 DEF StreamCloses, StreamFails, sendFailure, Move,
                GaugeWillFall, TypeOK
  <2>3. UNCHANGED <<status, gauge, pc, ready, observedEpoch>>
    BY <1>5 DEF StreamCloses, StreamFails, sendFailure
  <2> QED
    BY <2>1, <2>2, <2>3 DEF GaugeInv
<1>6. CASE ParentCancelled \/ UNCHANGED vars
  <2>1. PassPromised => PassPromised'
    BY <1>6 DEF ParentCancelled, vars, PassPromised
  <2>2. GaugeWillFall => GaugeWillFall'
    BY <1>6 DEF ParentCancelled, vars, GaugeWillFall
  <2>3. UNCHANGED <<status, gauge, pc, ready, observedEpoch>>
    BY <1>6 DEF ParentCancelled, vars
  <2> QED
    BY <2>1, <2>2, <2>3 DEF GaugeInv
<1>7. CASE VerificationAges
  <2>1. /\ ~healthSnapshotReady(status)'
        /\ ReadyApartFromAge(status) => ReadyApartFromAge(status)'
        /\ status'.lastError = status.lastError
    BY <1>7, ReadyFacts, AgedFacts DEF VerificationAges, TypeOK
  <2>2. GaugeWillFall => GaugeWillFall'
    BY <1>7 DEF VerificationAges, GaugeWillFall
  <2> QED
    BY <1>0, <1>7, <2>1, <2>2 DEF VerificationAges, GaugeInv
<1> QED
  BY <1>1, <1>2, <1>3, <1>4, <1>5, <1>6, <1>7 DEF Next, Terminated

(* In every interleaving of execute's writes of the gauge with those of    *)
(* the collectors, a gauge that is up between two passes is true or about  *)
(* to fall, and one that should be up is, once every event is handled.     *)
THEOREM GaugeSettled == Spec => []GaugeSettles
<1>1. GaugeInv => GaugeSettles
  BY DEF GaugeInv, GaugeSettles, Settled, PassPromised, GaugeWillFall
<1> QED
  BY <1>1, TypeCorrect, InitGaugeInv, NextGaugeInv, PTL DEF Spec
=============================================================================
