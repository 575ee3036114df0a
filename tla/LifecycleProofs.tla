-------------------------- MODULE LifecycleProofs --------------------------
(***************************************************************************)
(* What Coordinator.Run guarantees about the run it owns, for either       *)
(* coordinator: when it returns nothing of the owned run is left, the      *)
(* Controller is gone before the Reconciler is shut down, and the claim is *)
(* kept as long as the owned run has work, once the acquisition was seen.  *)
(*                                                                         *)
(* The goroutines share no lock but the session's: the argument is about   *)
(* which of them can still step when another one is at a given place.      *)
(***************************************************************************)
EXTENDS Lifecycle, TLAPS

LeasePlaces == {"select", "owned", "awaitElection", "awaitElectionThenOwned", "awaitOwned",
                "awaitOwnedThenElection", "returned", "counted"}
FilePlaces  == {"flock", "locked", "returned", "counted"}

TypeOK ==
  /\ mode \in {"run", "supervise-containerboot"}
  /\ main \in (IF Supervised THEN LeasePlaces ELSE FilePlaces)
  /\ elector \in {"none", "acquiring", "renewing", "leaving", "cancelled", "done"}
  /\ callback \in {"none", "starting", "announcing", "running", "done"}
  /\ watcher \in {"none", "waiting", "done"}
  /\ lease \in {"free", "held", "lost", "released"}
  /\ ctxDone \in BOOLEAN /\ electionDone \in BOOLEAN /\ leadershipDone \in BOOLEAN
  /\ acquired \in BOOLEAN /\ electionStopped \in BOOLEAN /\ stopping \in BOOLEAN
  /\ started \in BOOLEAN /\ ownedDone \in BOOLEAN /\ processSeen \in BOOLEAN
  /\ owned \in {"none", "prepare", "start", "abandon", "run", "join", "stop", "terminate",
                "kill", "returned"}
  /\ ownedResult \in Nat
  /\ controller \in {"none", "running", "returned"}
  /\ process \in {"none", "running", "exited", "unkillable"}

(* The file-lock coordinator has no goroutine but the one in Run.          *)
FileLock ==
  ~Supervised =>
    /\ elector = "none" /\ callback = "none" /\ ~electionDone /\ ownedResult = 0
    /\ main = "flock" => owned = "none"
    /\ main = "locked" => lease # "released"
    /\ main \in {"returned", "counted"} => owned \in {"none", "returned"}

(* What the OnStartedLeading goroutine has done at each of its places.     *)
CallbackOK ==
  Supervised =>
    /\ elector = "acquiring" => callback = "none"
    /\ callback \in {"none", "starting"} => ~started /\ ~acquired /\ owned = "none"
    /\ callback = "announcing" => started /\ ~acquired /\ owned = "none"
    /\ callback = "running" => started /\ acquired /\ owned # "none"
    /\ callback = "done" => /\ acquired <=> started
                            /\ owned = IF started THEN "returned" ELSE "none"
    /\ ownedResult > 0 => callback = "done" /\ started

(* Coordinator.Run waits for a session that started and stops one that did *)
(* not; the Lease is given up only after that.                             *)
MainOK ==
  Supervised =>
    /\ main \in {"owned", "awaitElectionThenOwned", "awaitOwned", "awaitOwnedThenElection"}
         => started
    /\ main = "owned" => acquired
    /\ main \in {"awaitElection", "returned", "counted"} =>
         IF started THEN callback = "done" ELSE stopping
    /\ lease = "released" => electionDone
    /\ main \in {"select", "owned"} /\ electionDone => callback = "done"

(* The Controller and containerboot at each place of runOwned.             *)
ChildrenOK ==
  /\ owned \in {"none", "prepare", "start", "abandon"} =>
       controller = "none" /\ process = "none" /\ ~processSeen
  /\ owned \in {"run", "join", "stop", "terminate", "kill"} => process # "unkillable"
  /\ owned \in {"stop", "terminate", "kill", "returned"} => controller # "running"
  /\ processSeen => process = "exited"
  /\ ~Supervised => process = "none"
  /\ owned = "returned" => process # "running"

IInv == TypeOK /\ FileLock /\ CallbackOK /\ MainOK /\ ChildrenOK

(* From the acquisition on: neither the election is cancelled nor the      *)
(* claim given up while runOwned has work left.                            *)
Owning ==
  /\ main \notin {"select", "flock", "awaitElectionThenOwned"}
  /\ Supervised => acquired
  /\ OwnedRuns => lease # "released" /\ ~electionDone
-----------------------------------------------------------------------------
(* Nothing has been started.                                               *)
LEMMA InitIInv == Init => IInv
<1> SUFFICES ASSUME Init PROVE IInv
  OBVIOUS
<1>1. TypeOK
  BY ModesAssumption DEF Init, TypeOK, Supervised, LeasePlaces, FilePlaces
<1>2. FileLock /\ CallbackOK /\ MainOK /\ ChildrenOK
  BY DEF Init, FileLock, CallbackOK, MainOK, ChildrenOK, Supervised
<1> QED
  BY <1>1, <1>2 DEF IInv

(* One goroutine steps and the others keep their places.                   *)
LEMMA NextIInv == IInv /\ [Next]_vars => IInv'
<1> SUFFICES ASSUME IInv, [Next]_vars PROVE IInv'
  OBVIOUS
<1> USE DEF IInv, TypeOK, FileLock, CallbackOK, MainOK, ChildrenOK, Supervised, LeasePlaces,
            FilePlaces, coordination, session, children
<1>1. CASE Signal
  BY <1>1 DEF Signal
<1>2. CASE HealthReturns
  BY <1>2 DEF HealthReturns
<1>3. CASE ReceiveResult
  BY <1>3 DEF ReceiveResult
<1>4. CASE Acquire
  BY <1>4 DEF Acquire
<1>5. CASE RenewalFails
  BY <1>5 DEF RenewalFails
<1>6. CASE AcquireGivesUp
  BY <1>6 DEF AcquireGivesUp
<1>7. CASE ReleaseOnCancel
  BY <1>7 DEF ReleaseOnCancel
<1>8. CASE CancelLeadership
  BY <1>8 DEF CancelLeadership
<1>9. CASE OnStoppedLeading
  BY <1>9 DEF OnStoppedLeading
<1>10. CASE SessionStart
  <2>1. TypeOK'
    <3>1. started' \in BOOLEAN /\ electionDone' \in BOOLEAN
      BY <1>10, Zenon DEF SessionStart
    <3> QED
      BY <1>10, <3>1 DEF SessionStart
  <2>2. FileLock'
    BY <1>10 DEF SessionStart
  <2>3. CallbackOK'
    BY <1>10 DEF SessionStart
  <2>4. MainOK'
    BY <1>10 DEF SessionStart
  <2>5. ChildrenOK'
    BY <1>10 DEF SessionStart
  <2> QED
    BY <2>1, <2>2, <2>3, <2>4, <2>5
<1>11. CASE Announce
  BY <1>11 DEF Announce
<1>12. CASE CallbackReturns
  BY <1>12 DEF CallbackReturns
<1>13. CASE WatcherStops
  BY <1>13 DEF WatcherStops, SessionStop
<1>14. CASE SelectAcquired
  BY <1>14 DEF SelectAcquired
<1>15. CASE GiveUpAcquiring
  BY <1>15 DEF GiveUpAcquiring, SessionStop
<1>16. CASE ElectionEndsFirst
  BY <1>16 DEF ElectionEndsFirst, SessionStop
<1>17. CASE OwnedReturnsFirst
  BY <1>17 DEF OwnedReturnsFirst
<1>18. CASE ParentDone
  BY <1>18 DEF ParentDone, SessionStop
<1>19. CASE CoordinationLost
  BY <1>19 DEF CoordinationLost, SessionStop
<1>20. CASE AwaitElection
  BY <1>20 DEF AwaitElection
<1>21. CASE AwaitOwned
  <2>1. TypeOK'
    <3>1. electionDone' \in BOOLEAN
      BY <1>21, Zenon DEF AwaitOwned
    <3> QED
      BY <1>21, <3>1 DEF AwaitOwned
  <2>2. FileLock'
    BY <1>21 DEF AwaitOwned
  <2>3. CallbackOK'
    BY <1>21 DEF AwaitOwned
  <2>4. MainOK'
    BY <1>21 DEF AwaitOwned
  <2>5. ChildrenOK'
    BY <1>21 DEF AwaitOwned
  <2> QED
    BY <2>1, <2>2, <2>3, <2>4, <2>5
<1>22. CASE Flock
  BY <1>22 DEF Flock
<1>23. CASE FlockGivesUp
  BY <1>23 DEF FlockGivesUp
<1>24. CASE Unlock
  BY <1>24 DEF Unlock
<1>25. CASE ControllerReturns
  BY <1>25 DEF ControllerReturns, outside
<1>26. CASE ProcessExits
  BY <1>26 DEF ProcessExits, outside
<1>27. CASE Prepare
  BY <1>27 DEF Prepare, outside
<1>28. CASE StartChildren
  BY <1>28 DEF StartChildren, outside
<1>29. CASE Abandon
  BY <1>29 DEF Abandon, outside
<1>30. CASE FirstToEnd
  <2>1. TypeOK'
    <3>1. processSeen' \in BOOLEAN
      BY <1>30, Zenon DEF FirstToEnd, outside, ownedContextDone
    <3> QED
      BY <1>30, <3>1 DEF FirstToEnd, outside, ownedContextDone
  <2>2. FileLock'
    BY <1>30 DEF FirstToEnd, outside, ownedContextDone
  <2>3. CallbackOK'
    BY <1>30 DEF FirstToEnd, outside, ownedContextDone
  <2>4. MainOK'
    BY <1>30 DEF FirstToEnd, outside, ownedContextDone
  <2>5. ChildrenOK'
    BY <1>30 DEF FirstToEnd, outside, ownedContextDone
  <2> QED
    BY <2>1, <2>2, <2>3, <2>4, <2>5
<1>31. CASE JoinController
  BY <1>31 DEF JoinController, outside
<1>32. CASE StopReconciler
  <2>1. CASE Supervised /\ ~processSeen
    BY <1>32, <2>1 DEF StopReconciler, outside
  <2>2. CASE ~(Supervised /\ ~processSeen)
    BY <1>32, <2>2 DEF StopReconciler, outside
  <2> QED
    BY <2>1, <2>2
<1>33. CASE Terminate
  BY <1>33 DEF Terminate, outside
<1>34. CASE Terminated \/ UNCHANGED vars
  BY <1>34 DEF Terminated, vars
<1> QED
  BY <1>1, <1>2, <1>3, <1>4, <1>5, <1>6, <1>7, <1>8, <1>9, <1>10, <1>11, <1>12, <1>13,
     <1>14, <1>15, <1>16, <1>17, <1>18, <1>19, <1>20, <1>21, <1>22, <1>23, <1>24, <1>25,
     <1>26, <1>27, <1>28, <1>29, <1>30, <1>31, <1>32, <1>33, <1>34
  DEF Next, ElectorStep, Callback, LeaseRun, FileRun, runOwned

(* The invariant holds in every reachable state.                           *)
LEMMA Inductive == Spec => []IInv
  BY InitIInv, NextIInv, PTL DEF Spec

-----------------------------------------------------------------------------
(* When Coordinator.Run has returned, in either mode, neither runOwned nor *)
(* the Controller nor a containerboot that SIGKILL can stop is left.       *)
THEOREM NothingOutlivesRun == Spec => []ReturnsQuiescent
<1>1. IInv => ReturnsQuiescent
  BY DEF IInv, TypeOK, FileLock, CallbackOK, MainOK, ChildrenOK, ReturnsQuiescent, OwnedRuns
<1> QED
  BY <1>1, Inductive, PTL

(* runOwned shuts the Reconciler down only when the Controller is gone.    *)
THEOREM ControllerGoneFirst == Spec => []ShutdownAfterController
<1>1. IInv => ShutdownAfterController
  BY DEF IInv, ChildrenOK, ShutdownAfterController
<1> QED
  BY <1>1, Inductive, PTL

(* No step from the acquisition on cancels the election, or gives the      *)
(* claim up, while runOwned has work left.                                 *)
LEMMA NextOwning == IInv /\ Owning /\ [Next]_vars => Owning'
<1> SUFFICES ASSUME IInv, Owning, [Next]_vars PROVE Owning'
  OBVIOUS
<1> USE DEF IInv, TypeOK, FileLock, CallbackOK, MainOK, ChildrenOK, Supervised, LeasePlaces,
            FilePlaces, coordination, session, children, Owning, OwnedRuns
<1>1. CASE Signal \/ HealthReturns \/ ReceiveResult \/ Terminated \/ UNCHANGED vars
  BY <1>1 DEF Signal, HealthReturns, ReceiveResult, Terminated, vars
<1>2. CASE Acquire \/ RenewalFails \/ ElectorStep
  BY <1>2 DEF Acquire, RenewalFails, ElectorStep, AcquireGivesUp, ReleaseOnCancel,
              CancelLeadership, OnStoppedLeading
<1>3. CASE Callback
  BY <1>3 DEF Callback, SessionStart, Announce, CallbackReturns
<1>4. CASE WatcherStops
  BY <1>4 DEF WatcherStops, SessionStop
<1>5. CASE LeaseRun
  BY <1>5 DEF LeaseRun, SelectAcquired, GiveUpAcquiring, ElectionEndsFirst, OwnedReturnsFirst,
              ParentDone, CoordinationLost, AwaitElection, AwaitOwned, SessionStop
<1>6. CASE FileRun
  BY <1>6 DEF FileRun, Flock, FlockGivesUp, Unlock
<1>7. CASE ControllerReturns \/ ProcessExits
  BY <1>7 DEF ControllerReturns, ProcessExits, outside
<1>8. CASE runOwned
  BY <1>8 DEF runOwned, Prepare, StartChildren, Abandon, FirstToEnd, JoinController,
              StopReconciler, Terminate, outside
<1> QED
  BY <1>1, <1>2, <1>3, <1>4, <1>5, <1>6, <1>7, <1>8 DEF Next

(* "Coordination ownership is retained until that cleanup completes", from *)
(* the moment Coordinator.Run has seen the acquisition: the Lease or the   *)
(* lock is never given up before runOwned has returned.                    *)
THEOREM OwnershipOutlivesCleanup == Spec => OwnershipRetainedOnceAcquired
<1>1. IInv /\ main \in {"owned", "locked"} => Owning
  BY DEF IInv, TypeOK, FileLock, CallbackOK, MainOK, Owning, OwnedRuns, Supervised,
         LeasePlaces, FilePlaces
<1>2. Owning => OwnershipRetained
  BY DEF Owning, OwnershipRetained
<1> QED
  BY <1>1, <1>2, Inductive, NextOwning, PTL DEF Spec, OwnershipRetainedOnceAcquired
=============================================================================
