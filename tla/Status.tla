------------------------------- MODULE Status -------------------------------
(***************************************************************************)
(* internal/application/status.go: the readiness state shared by the       *)
(* Controller, its two event collectors, the Supervisor and the health     *)
(* server.  Every method of the Go type holds its mutex for its whole      *)
(* body, so each one is a function from a status to a status; the modules  *)
(* that own a status decide how these atomic steps interleave.             *)
(*                                                                         *)
(* LastSuccess keeps only what healthSnapshotReady asks of it: it was      *)
(* never set, it is at most maximumAge old, or it is older.  LastAttempt   *)
(* and the run counters feed logs and metrics alone and are left out.      *)
(***************************************************************************)
EXTENDS Integers

Phases == {"starting", "quarantined", "reconciling", "ready", "degraded", "stopping"}

Ages == {"never", "fresh", "aged"}

StatusType ==
  [phase: Phases, dataPlaneAvailable: BOOLEAN, lastError: BOOLEAN,
   lastSuccess: Ages, dirtyEpoch: Nat, verifiedEpoch: Nat]

NewStatus ==
  [phase |-> "starting", dataPlaneAvailable |-> FALSE, lastError |-> FALSE,
   lastSuccess |-> "never", dirtyEpoch |-> 0, verifiedEpoch |-> 0]

(* What a reconciliation reports to its caller: whether the verified data  *)
(* plane serves traffic, and whether operational conditions are attached.  *)
Reports == [dataPlaneAvailable: BOOLEAN, conditions: BOOLEAN]

(* ReconcileReport.Validate: an unavailable data plane names its reason.   *)
ReportValid(report) == report.dataPlaneAvailable \/ report.conditions

setUnavailablePhase(s, phase) ==
  [s EXCEPT !.phase = phase, !.dataPlaneAvailable = FALSE]

MarkQuarantined(s) == setUnavailablePhase(s, "quarantined")

MarkStopping(s) == setUnavailablePhase(s, "stopping")

MarkDirty(s) ==
  [s EXCEPT !.dirtyEpoch = @ + 1, !.phase = "reconciling", !.dataPlaneAvailable = FALSE]

BeginReconcile(s) == [s EXCEPT !.phase = "reconciling"]

isCurrent(s, observedEpoch) == s.dirtyEpoch = observedEpoch

RecordSuccess(s, observedEpoch, report) ==
  IF ~isCurrent(s, observedEpoch)
  THEN [s EXCEPT !.phase = "reconciling"]
  ELSE [s EXCEPT
         !.lastSuccess = "fresh",
         !.lastError = FALSE,
         !.dataPlaneAvailable = report.dataPlaneAvailable,
         !.verifiedEpoch = observedEpoch,
         !.phase = IF report.conditions \/ ~report.dataPlaneAvailable
                   THEN "degraded" ELSE "ready"]

RecordFailure(s) ==
  [s EXCEPT !.phase = "degraded", !.dataPlaneAvailable = FALSE, !.lastError = TRUE]

(* healthSnapshotReady without its age test.                               *)
ReadyApartFromAge(s) ==
  /\ s.dataPlaneAvailable
  /\ s.verifiedEpoch = s.dirtyEpoch
  /\ ~s.lastError
  /\ s.lastSuccess # "never"
  /\ s.phase \notin {"starting", "quarantined", "stopping"}

(* HealthSnapshot().Ready, what /readyz answers.                           *)
healthSnapshotReady(s) == ReadyApartFromAge(s) /\ s.lastSuccess = "fresh"

(* The result of RecordSuccess, computed from the status it leaves behind. *)
RecordSuccessReturns(s, observedEpoch, report) ==
  /\ isCurrent(s, observedEpoch)
  /\ healthSnapshotReady(RecordSuccess(s, observedEpoch, report))

(* The clock passes lastSuccess + maximumAge.                              *)
Aged(s) == [s EXCEPT !.lastSuccess = IF @ = "fresh" THEN "aged" ELSE @]
=============================================================================
