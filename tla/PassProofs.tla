----------------------------- MODULE PassProofs ----------------------------
(***************************************************************************)
(* What the passes of the Reconciler guarantee, for every configuration    *)
(* and any number of disturbances: the rest of the inductive invariant,    *)
(* part by part, and the theorems that follow from it.                     *)
(***************************************************************************)
EXTENDS ReconcilerProofs

-----------------------------------------------------------------------------
(* The mark rules.                                                         *)

(* Prepare puts the safety routing in place before anything else can mark; *)
(* from then on the process relies on its mark rules.                      *)
Marks ==
  \/ op \in {"reconcile", "failClosed"} \/ pc \in {"idle", "failed", "prepareDiscover"}
  \/ site \in {"prepared", "mark"}

(* A rule on the mark is never removed again, so that the tables a dead    *)
(* process leaves behind stay covered.                                     *)
MarkInv ==
  /\ nft.mark => LocalEgress /\ HasMarkRules(rt)
  /\ lastPacketPolicy.mark => LocalEgress /\ HasMarkRules(rt)
  /\ Marks => HasMarkRules(rt)

(* A new process has no policy yet.                                        *)
LEMMA InitMark == Init => MarkInv
BY DEF Init, MarkInv, Marks, NoTables

(* No step takes the mark rules away once they are there.                  *)
LEMMA MarkRulesStay ==
  ASSUME SafeInv, [Next]_vars, HasMarkRules(rt)
  PROVE  HasMarkRules(rt')
<1>1. CASE UNCHANGED rt
  BY <1>1
<1>2. CASE pc = "write" /\ rt' = Write(rt, changes).rt
  BY <1>2, WriteKeepsMarkRules DEF SafeInv, Pending
<1>3. CASE \E link : rt' = WithoutLink(link)
  BY <1>3, WithoutLinkParts, MoreRules DEF SafeInv, KernelSafe
<1> QED
  BY <1>1, <1>2, <1>3, WorldSteps

(* Nothing but a successful safety plan lets the process rely on them.     *)
LEMMA MarksAfterSafety ==
  ASSUME Control, [Next]_vars, Marks', ~Marks
  PROVE  site = "safety" /\ DiffRouting(buildSafetyRouting, rt) = NoChanges /\ UNCHANGED rt
<1> USE DEF Then, Goto, End, Begin
<1>1. ASSUME EnterFailClosed("shutdown") PROVE FALSE
  BY <1>1 DEF EnterFailClosed, Marks
<1>2. ASSUME FilterSucceeds \/ FilterFails, pc \in {"filter", "filterReadback"}
      PROVE  FALSE
  BY <1>1, <1>2 DEF FilterSucceeds, FilterFails, PrepareFails, Marks, Control
<1>3. ASSUME RoutingFails, pc \in {"plan", "write", "readback", "reverify"}
      PROVE  FALSE
  BY <1>1, <1>3 DEF RoutingFails, PrepareFails, Marks, Control
<1>4. ASSUME RoutingSucceeds, pc \in {"plan", "readback"}
      PROVE  site = "safety"
  BY <1>4 DEF RoutingSucceeds, Marks, Control
<1>5. CASE BeginPrepare \/ BeginReconcile \/ BeginFailClosed \/ BeginShutdown
  BY <1>1, <1>5 DEF BeginPrepare, BeginReconcile, BeginFailClosed, BeginShutdown, Marks
<1>6. CASE reconcilePacketFilter \/ FilterReadback
  BY <1>2, <1>6 DEF reconcilePacketFilter, FilterReadback, Marks
<1>7. CASE planRouting
  BY <1>3, <1>4, <1>7 DEF planRouting, RoutingGoal, world, Marks, Control
<1>8. CASE ApplyRouting
  BY <1>3, <1>8 DEF ApplyRouting, Marks, Control
<1>9. CASE verifyRouting
  BY <1>3, <1>4, <1>9 DEF verifyRouting, ReadsBack, RoutingGoal, world
<1>10. CASE PrepareDiscovers \/ ReadTailnetState \/ Discover \/ ObservePacketFilter
              \/ VerifyRoutingAgain \/ VerifyFilterAgain \/ RefreshApprovals \/ liveFailClosedState
              \/ ReverifyRecovery
  BY <1>10 DEF PrepareDiscovers, ReadTailnetState, Discover, ObservePacketFilter,
     VerifyRoutingAgain, VerifyFilterAgain, RefreshApprovals, liveFailClosedState,
     ReverifyRecovery, Marks, Control
<1>11. CASE WritePreferences \/ PreferencesReadback
  BY <1>11 DEF WritePreferences, PreferencesReadback, PreferencesFail, PreferencesSucceed,
     FailClosedReturns, Marks, Control
<1>12. CASE FailClosedReadsPreferences \/ FailClosedAborts
  BY <1>12 DEF FailClosedReadsPreferences, FailClosedAborts, FailClosedReturns, Marks, Control
<1>13. CASE ProxyReplaced \/ TailnetReplaced \/ CapabilityChanges \/ PreferencesEdited
              \/ NftablesFlushed
  BY <1>13 DEF ProxyReplaced, TailnetReplaced, CapabilityChanges, PreferencesEdited,
     NftablesFlushed, Drift, Marks
<1>14. CASE Killed \/ Restarted
  BY <1>14 DEF Killed, Restarted, NewProcess, Marks
<1>15. CASE UNCHANGED vars
  BY <1>15 DEF vars, Marks
<1> QED
  BY <1>5, <1>6, <1>7, <1>8, <1>9, <1>10, <1>11, <1>12, <1>13, <1>14, <1>15 DEF Next, Step

(* No step opens the gap between a policy that marks and the rules that    *)
(* select marks.                                                           *)
LEMMA NextMark == TypeInv /\ SafeInv /\ MarkInv /\ [Next]_vars => MarkInv'
<1> SUFFICES ASSUME TypeInv, SafeInv, MarkInv, [Next]_vars PROVE MarkInv'
  OBVIOUS
<1>1. HasMarkRules(rt) => HasMarkRules(rt')
  BY MarkRulesStay
<1>2. Marks' => HasMarkRules(rt')
  <2>1. CASE site = "safety" /\ DiffRouting(buildSafetyRouting, rt) = NoChanges /\ UNCHANGED rt
    <3>1. rt = buildSafetyRouting
      BY <2>1, EmptyDiff, SafetyGoal DEF SafeInv, GoalSafe
    <3> QED
      BY <2>1, <3>1, SafetyGoal DEF GoalSafe
  <2> QED
    BY <1>1, <2>1, MarksAfterSafety DEF MarkInv, TypeInv
<1>3. ASSUME pc \in {"filter", "filterReadback"}, FilterGoal.mark
      PROVE  LocalEgress /\ HasMarkRules(rt)
  BY <1>3 DEF FilterGoal, packetFilterPolicy, desiredPolicy, safetyPacketFilterPolicy,
     TypeInv, Control, MarkInv, Marks
<1>4. nft'.mark => LocalEgress /\ HasMarkRules(rt')
  BY <1>1, <1>3, WorldSteps DEF MarkInv, NoTables
<1>5. lastPacketPolicy'.mark => LocalEgress /\ HasMarkRules(rt')
  <2>1. CASE hasPacketPolicy /\ lastPacketPolicy' = [lastPacketPolicy EXCEPT !.gateClosed = TRUE]
    <3>1. lastPacketPolicy'.mark = lastPacketPolicy.mark
      BY <2>1 DEF TypeInv, MemoryOK, Policies
    <3> QED
      BY <1>1, <3>1 DEF MarkInv
  <2>2. CASE op = "reconcile" /\ lastPacketPolicy' = desiredPolicy
    BY <1>1, <2>2
    DEF desiredPolicy, packetFilterPolicy, safetyPacketFilterPolicy, MarkInv, Marks
  <2>3. CASE lastPacketPolicy' \in {safetyPacketFilterPolicy, NoTables}
    BY <2>3 DEF safetyPacketFilterPolicy, NoTables
  <2> QED
    BY <1>1, <1>3, <2>1, <2>2, <2>3, MemorySteps DEF MarkInv, TypeInv
<1> QED
  BY <1>2, <1>4, <1>5 DEF MarkInv

-----------------------------------------------------------------------------
(* The Exit rules.                                                         *)

Known == lastTailnetLink # NoLink

(* A process learns of the Tailnet link in its first discovery, and has no *)
(* plan before that.                                                       *)
Learning ==
  /\ op = "prepare" \/ pc = "boot" => ~Known
  /\ op = "reconcile" =>
       IF pc \in {"read", "discover"} \/ site = "restored"
       THEN changes = NoChanges /\ later = NoChanges
       ELSE Known

(* Once Prepare has quarantined nftables, an open gate is of this          *)
(* process's own making.                                                   *)
Quarantined ==
  \/ op \in {"reconcile", "failClosed"} \/ pc \in {"idle", "failed"}
  \/ op = "prepare" /\ site # "quarantine"

(* Before the plan is written, it still says what is missing.              *)
Ahead == pc = "observe" \/ site \in {"close", "clear", "withdraw"}

(* OpenGateHasSelectors is kept by the plans: the gate is opened over Exit *)
(* rules, and a plan made afterwards replaces them one by one.             *)
ExitInv ==
  /\ Learning
  /\ Known => ReplacesExitRules(rt, changes)
  /\ GateOpen(nft) /\ Quarantined => Known
  /\ GateOpen(nft) /\ Known => HasExitRules(rt)
  /\ Ahead /\ changes.addRules = {} => HasExitRules(rt)
  /\ site = "open" => HasExitRules(rt)

(* A new process has no tailnet interface yet.                             *)
LEMMA InitExit == Init => ExitInv
BY DEF Init, ExitInv, Learning, Known, Ahead, GateOpen, NoTables

(* What the process has learnt of the tailnet interface it keeps.          *)
LEMMA NextLearning ==
  ASSUME Control, Learning, [Next]_vars
  PROVE  Learning'
<1> USE DEF Then, Goto, End, Begin, Learning, Known
<1>1. ASSUME NEW m \in {"failClosed", "shutdown"}, EnterFailClosed(m) PROVE Learning'
  BY <1>1 DEF EnterFailClosed
<1>2. ASSUME ReconcileFails \/ PrepareSucceeds \/ finalizeSuccessfulReconcile
               \/ FailClosedReturns(TRUE) \/ FailClosedReturns(err)
      PROVE  Learning'
  BY <1>2 DEF ReconcileFails, PrepareSucceeds, finalizeSuccessfulReconcile, FailClosedReturns
<1>3. ASSUME FilterSucceeds \/ FilterFails, pc \in {"filter", "filterReadback"}
      PROVE  Learning'
  BY <1>1, <1>2, <1>3, Zenon
  DEF FilterSucceeds, FilterFails, PrepareFails, ApplyPlan, Remember, memory, Control
<1>4. ASSUME RoutingFails, pc \in {"plan", "write", "readback", "reverify"}
      PROVE  Learning'
  BY <1>1, <1>2, <1>4, Zenon DEF RoutingFails, PrepareFails, memory, Control
<1>5. ASSUME RoutingSucceeds, pc \in {"plan", "readback"}
      PROVE  Learning'
  BY <1>5 DEF RoutingSucceeds, memory, Control
<1>6. CASE BeginPrepare \/ BeginReconcile \/ BeginFailClosed \/ BeginShutdown
  BY <1>1, <1>6 DEF BeginPrepare, BeginReconcile, BeginFailClosed, BeginShutdown, memory, Forget
<1>7. CASE reconcilePacketFilter \/ FilterReadback
  BY <1>3, <1>7 DEF reconcilePacketFilter, FilterReadback, memory, locals, Control
<1>8. CASE planRouting
  BY <1>4, <1>5, <1>8 DEF planRouting, memory, Control
<1>9. CASE ApplyRouting
  BY <1>4, <1>9 DEF ApplyRouting, memory, Control
<1>10. CASE verifyRouting
  BY <1>4, <1>5, <1>10 DEF verifyRouting
<1>11. CASE PrepareDiscovers
  BY <1>1, <1>2, <1>11, Zenon DEF PrepareDiscovers, PrepareFails, memory, Control
<1>12. CASE ReadTailnetState
  BY <1>2, <1>12, Zenon DEF ReadTailnetState, memory, Control
<1>13. CASE Discover
  BY <1>2, <1>13, Zenon DEF Discover, DiscoverNetwork, memory, Control
<1>14. CASE ObservePacketFilter
  BY <1>2, <1>14, Zenon
  DEF ObservePacketFilter, reconcileNoDrift, reconcileGlobalDrift,
      reconcileIsolatedExitDefaultTransition, applyExitDefaultRouteTransition, memory, locals,
      Control
<1>15. CASE VerifyRoutingAgain \/ VerifyFilterAgain \/ RefreshApprovals
  BY <1>2, <1>15, Zenon
  DEF VerifyRoutingAgain, VerifyFilterAgain, RefreshApprovals, memory, locals, Control
<1>16. CASE WritePreferences \/ PreferencesReadback
  BY <1>2, <1>16, Zenon
  DEF WritePreferences, PreferencesReadback, PreferencesFail, PreferencesSucceed,
      applyExitDefaultRouteTransition, ApplyPlan, memory, locals, Control
<1>17. CASE liveFailClosedState
  BY <1>17 DEF liveFailClosedState, memory, Control
<1>18. CASE ReverifyRecovery
  BY <1>4, <1>18 DEF ReverifyRecovery, memory, Control
<1>19. CASE FailClosedReadsPreferences \/ FailClosedAborts
  BY <1>2, <1>19, Zenon DEF FailClosedReadsPreferences, FailClosedAborts, memory, Control
<1>20. CASE ProxyReplaced \/ TailnetReplaced \/ CapabilityChanges \/ PreferencesEdited
              \/ NftablesFlushed
  BY <1>20 DEF ProxyReplaced, TailnetReplaced, CapabilityChanges, PreferencesEdited,
     NftablesFlushed, Drift, memory, locals
<1>21. CASE Killed \/ Restarted
  BY <1>21 DEF Killed, Restarted, NewProcess
<1>22. CASE UNCHANGED vars
  BY <1>22 DEF vars, memory, locals
<1> QED
  BY <1>6, <1>7, <1>8, <1>9, <1>10, <1>11, <1>12, <1>13, <1>14, <1>15, <1>16, <1>17, <1>18,
     <1>19, <1>20, <1>21, <1>22 DEF Next, Step

(* Every plan made over a known link replaces the Exit rules it removes.   *)
LEMMA GoalHasExitRules ==
  ASSUME Control, Learning, Known, pc = "plan"
  PROVE  HasExitRules(RoutingGoal)
<1>1. CASE site = "desired"
  BY <1>1, DesiredServes DEF RoutingGoal
<1>2. CASE site \in {"recovery", "strict", "fallback"}
  BY <1>2, FailClosedKeepsSelectors DEF RoutingGoal, Known
<1> QED
  BY <1>1, <1>2 DEF Control, Learning

(* No plan, and no call of one, takes the last exit rule away once the     *)
(* interface is known.                                                     *)
LEMMA NextReplaces ==
  ASSUME TypeInv, SafeInv, ExitInv, [Next]_vars
  PROVE  /\ Known' => ReplacesExitRules(rt, changes)' 
         /\ HasExitRules(rt) /\ Known => HasExitRules(rt')
<1>1. Known' => Known \/ (changes = NoChanges /\ pc = "discover")
  BY MemorySteps DEF TypeInv, ExitInv, Learning, Control, Known
<1>2. Known' => ReplacesExitRules(rt, changes)
  BY <1>1, NoChangesReplaces DEF ExitInv
<1>3. CASE UNCHANGED <<rt, changes, later>>
  BY <1>2, <1>3
<1>4. CASE /\ changes' = NoChanges
           /\ rt' = rt \/ (pc = "write" /\ rt' = Write(rt, changes).rt)
  BY <1>4, NoChangesReplaces, WriteKeepsExitRules DEF ExitInv, SafeInv, Pending
<1>5. CASE changes' = later /\ UNCHANGED rt
  <2>1. later.staleRules = {} /\ later.addRules = {} /\ later.deleteRules = {}
    BY DEF SafeInv, Postponed, NoChanges
  <2> QED
    BY <1>5, <2>1 DEF ReplacesExitRules
<1>6. CASE /\ pc = "plan" /\ Unambiguous(rt) /\ changes' = DiffRouting(RoutingGoal, rt)
           /\ UNCHANGED rt
  BY <1>1, <1>6, GoalHasExitRules, GoalIsSafe, DiffReplacesExitRules, Zenon
     DEF ExitInv, SafeInv, TypeInv
<1>7. CASE /\ pc = "write" /\ rt' = Write(rt, changes).rt /\ changes' = Write(rt, changes).changes
  BY <1>1, <1>7, WriteKeepsExitRules, Zenon DEF ExitInv, SafeInv, Pending
<1>8. CASE applyExitDefaultRouteTransition /\ UNCHANGED rt
  BY <1>2, <1>8
  DEF applyExitDefaultRouteTransition, deactivationChanges, ReplacesExitRules, NoChanges
<1>9. CASE UNCHANGED changes /\ \E link : rt' = WithoutLink(link)
  <2>1. rt'.rules = rt.rules
    BY <1>9, WithoutLinkParts DEF SafeInv, KernelSafe
  <2> QED
    BY <1>2, <1>9, <2>1, MoreRules, Zenon DEF ReplacesExitRules
<1> QED
  BY <1>3, <1>4, <1>5, <1>6, <1>7, <1>8, <1>9, PlanSteps

(* Only the quarantine of Prepare, read back, establishes Quarantined.     *)
LEMMA QuarantineCloses ==
  ASSUME Control, [Next]_vars, Quarantined', ~Quarantined
  PROVE  nft = safetyPacketFilterPolicy /\ UNCHANGED nft
<1> USE DEF Then, Goto, End, Begin
<1>1. ASSUME EnterFailClosed("shutdown") PROVE FALSE
  BY <1>1 DEF EnterFailClosed, Quarantined
<1>2. ASSUME FilterFails, pc \in {"filter", "filterReadback"}
      PROVE  FALSE
  BY <1>1, <1>2 DEF FilterFails, PrepareFails, Quarantined, Control
<1>3. ASSUME FilterSucceeds, pc \in {"filter", "filterReadback"}
      PROVE  FilterGoal = safetyPacketFilterPolicy
  BY <1>3, Zenon DEF FilterSucceeds, FilterGoal, Quarantined, Control
<1>4. CASE BeginPrepare \/ BeginReconcile \/ BeginFailClosed \/ BeginShutdown
  BY <1>1, <1>4 DEF BeginPrepare, BeginReconcile, BeginFailClosed, BeginShutdown, Quarantined
<1>5. CASE reconcilePacketFilter \/ FilterReadback
  BY <1>2, <1>3, <1>5
  DEF reconcilePacketFilter, FilterReadback, Matches, world, Quarantined, Control
<1>6. CASE planRouting \/ ApplyRouting \/ verifyRouting \/ ReverifyRecovery
  BY <1>6, Zenon
  DEF planRouting, ApplyRouting, verifyRouting, ReverifyRecovery, RoutingSucceeds, RoutingFails,
      Quarantined, Control
<1>7. CASE PrepareDiscovers \/ ReadTailnetState \/ Discover \/ ObservePacketFilter
             \/ VerifyRoutingAgain \/ VerifyFilterAgain \/ RefreshApprovals \/ liveFailClosedState
  BY <1>7 DEF PrepareDiscovers, ReadTailnetState, Discover, ObservePacketFilter,
     VerifyRoutingAgain, VerifyFilterAgain, RefreshApprovals, liveFailClosedState,
     Quarantined, Control
<1>8. CASE WritePreferences \/ PreferencesReadback
  BY <1>8, Zenon DEF WritePreferences, PreferencesReadback, PreferencesFail, PreferencesSucceed,
     FailClosedReturns, Quarantined, Control
<1>9. CASE FailClosedReadsPreferences \/ FailClosedAborts
  BY <1>9
  DEF FailClosedReadsPreferences, FailClosedAborts, FailClosedReturns, Quarantined, Control
<1>10. CASE ProxyReplaced \/ TailnetReplaced \/ CapabilityChanges \/ PreferencesEdited
              \/ NftablesFlushed
  BY <1>10 DEF ProxyReplaced, TailnetReplaced, CapabilityChanges, PreferencesEdited,
     NftablesFlushed, Drift, Quarantined
<1>11. CASE Killed \/ Restarted
  BY <1>11 DEF Killed, Restarted, NewProcess, Quarantined
<1>12. CASE UNCHANGED vars
  BY <1>12 DEF vars, Quarantined
<1> QED
  BY <1>4, <1>5, <1>6, <1>7, <1>8, <1>9, <1>10, <1>11, <1>12 DEF Next, Step

(* Where the plan that is ahead comes from, and what has been done of it   *)
(* when the gate is about to be opened.                                    *)
LEMMA AheadSteps ==
  ASSUME Control, [Next]_vars
  PROVE  /\ Ahead' => /\ UNCHANGED snap
                      /\ \/ Ahead /\ UNCHANGED changes
                         \/ /\ pc = "plan" /\ site = "desired"
                            /\ changes' = DiffRouting(RoutingGoal, rt)
         /\ site' = "open" => /\ UNCHANGED snap
                              /\ \/ site = "open"
                                 \/ site \in {"close", "clear"} /\ changes = NoChanges
                                 \/ /\ pc = "readback" /\ site = "global"
                                    /\ DiffRouting(RoutingGoal, rt) = NoChanges
<1> DEFINE Result ==
             /\ Ahead' => /\ UNCHANGED snap
                          /\ \/ Ahead /\ UNCHANGED changes
                             \/ /\ pc = "plan" /\ site = "desired"
                                /\ changes' = DiffRouting(RoutingGoal, rt)
             /\ site' = "open" => /\ UNCHANGED snap
                                  /\ \/ site = "open"
                                     \/ site \in {"close", "clear"} /\ changes = NoChanges
                                     \/ /\ pc = "readback" /\ site = "global"
                                        /\ DiffRouting(RoutingGoal, rt) = NoChanges
<1> USE DEF Then, Goto, End, Begin, Ahead
<1>1. ASSUME NEW m, EnterFailClosed(m) PROVE Result
  BY <1>1 DEF EnterFailClosed
<1>2. ASSUME ReconcileFails \/ PrepareSucceeds \/ finalizeSuccessfulReconcile
               \/ FailClosedReturns(TRUE) \/ FailClosedReturns(err)
      PROVE  Result
  BY <1>2 DEF ReconcileFails, PrepareSucceeds, finalizeSuccessfulReconcile, FailClosedReturns
<1>3. ASSUME FilterSucceeds \/ FilterFails, pc \in {"filter", "filterReadback"}
      PROVE  Result
  BY <1>1, <1>2, <1>3, Zenon DEF FilterSucceeds, FilterFails, PrepareFails, ApplyPlan, locals
<1>4. ASSUME RoutingFails
      PROVE  Result
  BY <1>1, <1>2, <1>4, Zenon DEF RoutingFails, PrepareFails
<1>5. CASE BeginPrepare \/ BeginReconcile \/ BeginFailClosed \/ BeginShutdown
  BY <1>1, <1>5 DEF BeginPrepare, BeginReconcile, BeginFailClosed, BeginShutdown
<1>6. CASE reconcilePacketFilter \/ FilterReadback
  BY <1>3, <1>6 DEF reconcilePacketFilter, FilterReadback, locals
<1>7. CASE planRouting
  BY <1>4, <1>7 DEF planRouting, RoutingSucceeds, Control
<1>8. CASE ApplyRouting
  BY <1>4, <1>8 DEF ApplyRouting, Control
<1>9. CASE verifyRouting \/ ReverifyRecovery
  BY <1>4, <1>9 DEF verifyRouting, ReverifyRecovery, ReadsBack, RoutingSucceeds
<1>10. CASE PrepareDiscovers \/ ReadTailnetState \/ Discover \/ liveFailClosedState
  BY <1>1, <1>2, <1>10, Zenon
  DEF PrepareDiscovers, ReadTailnetState, Discover, liveFailClosedState, PrepareFails
<1>11. CASE ObservePacketFilter
  BY <1>2, <1>11, Zenon DEF ObservePacketFilter, reconcileNoDrift, reconcileGlobalDrift,
     reconcileIsolatedExitDefaultTransition, applyExitDefaultRouteTransition, locals, Control
<1>12. CASE VerifyRoutingAgain \/ VerifyFilterAgain \/ RefreshApprovals
  BY <1>2, <1>12, Zenon
  DEF VerifyRoutingAgain, VerifyFilterAgain, RefreshApprovals, locals, Control
<1>13. CASE WritePreferences \/ PreferencesReadback
  BY <1>2, <1>13, Zenon
  DEF WritePreferences, PreferencesReadback, PreferencesFail, PreferencesSucceed,
      applyExitDefaultRouteTransition, ApplyPlan, locals, Control
<1>14. CASE FailClosedReadsPreferences \/ FailClosedAborts
  BY <1>2, <1>14, Zenon DEF FailClosedReadsPreferences, FailClosedAborts
<1>15. CASE ProxyReplaced \/ TailnetReplaced \/ CapabilityChanges \/ PreferencesEdited
              \/ NftablesFlushed
  BY <1>15 DEF ProxyReplaced, TailnetReplaced, CapabilityChanges, PreferencesEdited,
     NftablesFlushed, Drift, locals
<1>16. CASE Killed \/ Restarted
  BY <1>16 DEF Killed, Restarted, NewProcess
<1>17. CASE UNCHANGED vars
  BY <1>17 DEF vars, locals
<1> QED
  BY <1>5, <1>6, <1>7, <1>8, <1>9, <1>10, <1>11, <1>12, <1>13, <1>14, <1>15, <1>16, <1>17, Zenon
     DEF Next, Step

(* Between two calls that write no route the rules stay.                   *)
LEMMA RulesStay ==
  ASSUME SafeInv, [Next]_vars, pc # "write"
  PROVE  rt'.rules = rt.rules
BY WorldSteps, WithoutLinkParts, Zenon DEF SafeInv, KernelSafe

(* Every step keeps the exit rules.                                        *)
LEMMA NextExit == TypeInv /\ SafeInv /\ ExitInv /\ [Next]_vars => ExitInv'
<1> SUFFICES ASSUME TypeInv, SafeInv, ExitInv, [Next]_vars PROVE ExitInv'
  OBVIOUS
<1>1. Learning'
  BY NextLearning, Zenon DEF TypeInv, ExitInv
<1>2. /\ Known' => ReplacesExitRules(rt, changes)'
      /\ HasExitRules(rt) /\ Known => HasExitRules(rt')
  BY NextReplaces
<1>3. ASSUME nft' = FilterGoal, pc = "filter", GateOpen(nft')
      PROVE  Known /\ HasExitRules(rt')
  <2>1. site = "open"
    BY <1>3 DEF FilterGoal, packetFilterPolicy, desiredPolicy, safetyPacketFilterPolicy,
       GateOpen, TypeInv, Control, MemoryOK
  <2>2. Known /\ HasExitRules(rt)
    BY <2>1 DEF TypeInv, Control, ExitInv, Learning
  <2> QED
    BY <1>2, <2>2
<1>4. GateOpen(nft') /\ Quarantined' => Known'
  <2> SUFFICES ASSUME GateOpen(nft'), Quarantined' PROVE Known'
    OBVIOUS
  <2>1. ASSUME UNCHANGED nft PROVE Known
    <3>1. Quarantined
      BY <2>1, QuarantineCloses DEF GateOpen, safetyPacketFilterPolicy, TypeInv
    <3> QED
      BY <2>1, <3>1 DEF ExitInv
  <2>2. Known
    BY <1>3, <2>1, WorldSteps DEF GateOpen, NoTables
  <2> QED
    BY <2>2, MemorySteps DEF TypeInv, Known, Quarantined
<1>5. GateOpen(nft') /\ Known' => HasExitRules(rt')
  <2> SUFFICES ASSUME GateOpen(nft'), Known' PROVE HasExitRules(rt')
    OBVIOUS
  <2>1. CASE UNCHANGED nft
    <3>1. Known
      BY <2>1, MemorySteps DEF ExitInv, TypeInv, Known, Quarantined, Control
    <3> QED
      BY <1>2, <2>1, <3>1 DEF ExitInv
  <2> QED
    BY <1>3, <2>1, WorldSteps DEF GateOpen, NoTables
<1>6. (Ahead /\ changes.addRules = {} => HasExitRules(rt))'
  <2> SUFFICES ASSUME Ahead', changes'.addRules = {} PROVE HasExitRules(rt')
    OBVIOUS
  <2>1. CASE Ahead /\ UNCHANGED changes
    <3>1. pc # "write"
      BY <2>1 DEF Ahead, TypeInv, Control
    <3> QED
      BY <2>1, <3>1, RulesStay, MoreRules DEF ExitInv
  <2>2. CASE pc = "plan" /\ site = "desired" /\ changes' = DiffRouting(RoutingGoal, rt)
    <3>1. HasExitRules(rt)
      BY <2>2, NothingToAdd, MoreRules, DesiredServes DEF RoutingGoal
    <3> QED
      BY <2>2, <3>1, RulesStay, MoreRules
  <2> QED
    BY <2>1, <2>2, AheadSteps DEF TypeInv
<1>7. (site = "open" => HasExitRules(rt))'
  <2> SUFFICES ASSUME site' = "open" PROVE HasExitRules(rt')
    OBVIOUS
  <2>1. pc # "write"
    BY AheadSteps DEF TypeInv, Control
  <2>2. HasExitRules(rt)
    <3>1. CASE site \in {"close", "clear"} /\ changes = NoChanges
      BY <3>1 DEF ExitInv, Ahead, NoChanges
    <3>2. CASE site = "global" /\ DiffRouting(RoutingGoal, rt) = NoChanges
      BY <3>2, NothingToAdd, MoreRules, DesiredServes DEF RoutingGoal, NoChanges
    <3> QED
      BY <3>1, <3>2, AheadSteps, Zenon DEF TypeInv, ExitInv
  <2> QED
    BY <2>1, <2>2, RulesStay, MoreRules
<1> QED
  BY <1>1, <1>2, <1>4, <1>5, <1>6, <1>7, Zenon DEF ExitInv

-----------------------------------------------------------------------------
(* The active Exit defaults.                                               *)

Isolated == pc = "observe" \/ site \in {"withdraw", "deactivate", "activate"}

(* The plan takes away every Exit default of a family without capability.  *)
Covered ==
  \A r \in rt.routes :
    isActiveExitDefaultRoute(r) /\ r.family \notin snap.active => r \in changes.deleteRoutes

Supported(routes) ==
  \A r \in routes : isActiveExitDefaultRoute(r) => op = "reconcile" /\ r.family \in snap.active

(* Behind an open gate Exit defaults change in an isolated transition      *)
(* only, which is done with its deactivation when it starts its            *)
(* activation.                                                             *)
TransitionInv ==
  /\ Isolated => Covered
  /\ site = "deactivate" => changes.upsertRoutes = {}
  /\ site = "activate" => changes.deleteRoutes = {}
  /\ pc = "readback" => changes = NoChanges
  /\ site = "clear" \/ (pc \in {"write", "readback"} /\ site = "global") => ~GateOpen(nft)

DefaultsInv ==
  /\ Supported(changes.upsertRoutes) /\ Supported(later.upsertRoutes)
  /\ TransitionInv

(* Nothing is active before the first pass.                                *)
LEMMA InitDefaults == Init => DefaultsInv
<1> SUFFICES ASSUME Init PROVE DefaultsInv
  OBVIOUS
<1>1. changes = NoChanges /\ later = NoChanges /\ NoChanges.upsertRoutes = {}
  BY Zenon DEF Init, NoChanges
<1>2. pc = "boot" /\ site = "none"
  BY DEF Init
<1> QED BY <1>1, <1>2 DEF DefaultsInv, TransitionInv, Isolated, Supported

(* While there is a plan, it is for one method and one set of families.    *)
LEMMA SnapshotSteps ==
  ASSUME TypeInv, Learning, [Next]_vars
  PROVE  \/ UNCHANGED op /\ snap'.active = snap.active
         \/ changes' = NoChanges /\ later' = NoChanges
<1> DEFINE Result == \/ UNCHANGED op /\ snap'.active = snap.active
                     \/ changes' = NoChanges /\ later' = NoChanges
<1> USE DEF Then
<1>1. [snap EXCEPT !.proxy = proxy].active = snap.active
  BY DEF TypeInv, LocalsOK, Snapshots
<1>2. ASSUME Forget PROVE Result
  BY <1>2 DEF Forget
<1>3. ASSUME \/ \E m : EnterFailClosed(m)
             \/ ReconcileFails \/ PrepareSucceeds \/ finalizeSuccessfulReconcile
             \/ FailClosedReturns(TRUE) \/ FailClosedReturns(err)
      PROVE  Result
  BY <1>2, <1>3 DEF EnterFailClosed, Begin, ReconcileFails, PrepareSucceeds,
     finalizeSuccessfulReconcile, FailClosedReturns
<1>4. ASSUME RoutingFails \/ RoutingSucceeds
      PROVE  Result
  BY <1>3, <1>4, Zenon DEF RoutingFails, PrepareFails, RoutingSucceeds
<1>5. CASE BeginPrepare \/ BeginReconcile \/ BeginFailClosed \/ BeginShutdown
  BY <1>2, <1>3, <1>5, Zenon
  DEF BeginPrepare, BeginReconcile, BeginFailClosed, BeginShutdown, Begin
<1>6. CASE reconcilePacketFilter \/ FilterReadback
  BY <1>3, <1>6, Zenon DEF reconcilePacketFilter, FilterReadback, FilterSucceeds, FilterFails,
     PrepareFails, ApplyPlan, locals
<1>7. CASE planRouting \/ ApplyRouting \/ verifyRouting \/ ReverifyRecovery
  BY <1>4, <1>7 DEF planRouting, ApplyRouting, verifyRouting, ReverifyRecovery, locals
<1>8. CASE PrepareDiscovers \/ liveFailClosedState
  BY <1>1, <1>3, <1>8, Zenon DEF PrepareDiscovers, liveFailClosedState, PrepareFails
<1>9. CASE ReadTailnetState
  BY <1>3, <1>9, Zenon DEF ReadTailnetState
<1>10. CASE Discover
  BY <1>2, <1>3, <1>10, Zenon DEF Discover, Learning, TypeInv, Control
<1>11. CASE ObservePacketFilter
  BY <1>3, <1>11, Zenon DEF ObservePacketFilter, reconcileNoDrift, reconcileGlobalDrift,
     reconcileIsolatedExitDefaultTransition, applyExitDefaultRouteTransition, locals
<1>12. CASE VerifyRoutingAgain \/ VerifyFilterAgain \/ RefreshApprovals
  BY <1>3, <1>12, Zenon DEF VerifyRoutingAgain, VerifyFilterAgain, RefreshApprovals, locals
<1>13. CASE WritePreferences \/ PreferencesReadback
  BY <1>3, <1>13, Zenon
  DEF WritePreferences, PreferencesReadback, PreferencesFail, PreferencesSucceed,
      applyExitDefaultRouteTransition, ApplyPlan, locals
<1>14. CASE FailClosedReadsPreferences \/ FailClosedAborts
  BY <1>3, <1>14, Zenon DEF FailClosedReadsPreferences, FailClosedAborts, locals
<1>15. CASE ProxyReplaced \/ TailnetReplaced \/ CapabilityChanges \/ PreferencesEdited
              \/ NftablesFlushed
  BY <1>15 DEF ProxyReplaced, TailnetReplaced, CapabilityChanges, PreferencesEdited,
     NftablesFlushed, Drift, locals
<1>16. CASE Killed \/ Restarted
  BY <1>2, <1>16, Zenon DEF Killed, Restarted, NewProcess
<1>17. CASE UNCHANGED vars
  BY <1>17 DEF vars, locals
<1> QED
  BY <1>5, <1>6, <1>7, <1>8, <1>9, <1>10, <1>11, <1>12, <1>13, <1>14, <1>15, <1>16, <1>17, Zenon
     DEF Next, Step

(* No plan but one for the desired routing activates an Exit default.      *)
LEMMA GoalIsSupported ==
  ASSUME Control, pc = "plan"
  PROVE  Supported(DiffRouting(RoutingGoal, rt).upsertRoutes)
<1> SUFFICES ASSUME NEW r \in RoutingGoal.routes, isActiveExitDefaultRoute(r)
             PROVE  op = "reconcile" /\ r.family \in snap.active
  <2>1. DiffRouting(RoutingGoal, rt).upsertRoutes = RoutingGoal.routes \ rt.routes
    BY DiffParts, Zenon
  <2> QED BY <2>1 DEF Supported
<1>1. CASE site = "safety"
  BY <1>1, SafetyIsInactive DEF RoutingGoal, isActiveExitDefaultRoute
<1>2. CASE site = "prepared"
  BY <1>2, PreparedActive DEF RoutingGoal, isActiveExitDefaultRoute
<1>3. CASE site = "recovery"
  BY <1>3, FailClosedActive DEF RoutingGoal, isActiveExitDefaultRoute
<1>4. CASE site \in {"strict", "fallback"}
  BY <1>4, FailClosedActive DEF RoutingGoal, isActiveExitDefaultRoute
<1>5. CASE site = "desired"
  BY <1>5, DesiredServes DEF RoutingGoal, Control
<1> QED
  BY <1>1, <1>2, <1>3, <1>4, <1>5 DEF Control

(* Default routes come only from the families of the snapshot.             *)
LEMMA NextSupported ==
  ASSUME TypeInv, SafeInv, Learning, DefaultsInv, [Next]_vars
  PROVE  (Supported(changes.upsertRoutes) /\ Supported(later.upsertRoutes))'
<1>1. CASE changes' = NoChanges /\ later' = NoChanges
  BY <1>1, Zenon DEF Supported, NoChanges
<1>2. CASE UNCHANGED op /\ snap'.active = snap.active
  <2>1. ASSUME NEW routes, Supported(routes)
        PROVE  \A r \in routes : isActiveExitDefaultRoute(r) => op' = "reconcile" /\ r.family \in snap'.active
    BY <1>2, <2>1 DEF Supported
  <2>2. later'.upsertRoutes \subseteq later.upsertRoutes \cup changes.upsertRoutes
    BY PlanSteps DEF NoChanges, applyExitDefaultRouteTransition, activationChanges
  <2>3. \/ changes'.upsertRoutes \subseteq later.upsertRoutes \cup changes.upsertRoutes
        \/ pc = "plan" /\ changes' = DiffRouting(RoutingGoal, rt)
    BY PlanSteps, WriteBounds
    DEF NoChanges, applyExitDefaultRouteTransition, deactivationChanges, SafeInv, KernelSafe,
        PlanSafe, Pending
  <2>4. Supported(later.upsertRoutes \cup changes.upsertRoutes)
    BY DEF DefaultsInv, Supported
  <2>5. pc = "plan" => Supported(DiffRouting(RoutingGoal, rt).upsertRoutes)
    BY GoalIsSupported DEF TypeInv
  <2> QED
    BY <2>1, <2>2, <2>3, <2>4, <2>5, Zenon DEF Supported
<1> QED
  BY <1>1, <1>2, SnapshotSteps

(* The desired plan takes away every Exit default without capability.      *)
LEMMA DesiredPlanCovers ==
  ASSUME pc = "plan", site = "desired", changes' = DiffRouting(RoutingGoal, rt),
         UNCHANGED <<rt, snap>>
  PROVE  Covered'
<1> SUFFICES ASSUME NEW r \in rt.routes, isActiveExitDefaultRoute(r), r.family \notin snap.active
             PROVE  r \in changes'.deleteRoutes
  BY DEF Covered
<1>1. ASSUME NEW d \in RoutingGoal.routes, SameRoute(r, d) PROVE FALSE
  <2>1. isActiveExitDefaultRoute(d) /\ d.family = r.family
    BY <1>1 DEF SameRoute, isActiveExitDefaultRoute
  <2> QED
    BY <2>1, DesiredServes DEF RoutingGoal
<1> QED
  BY <1>1, DiffParts

(* One netlink call of it keeps that.                                      *)
LEMMA WriteCovers ==
  ASSUME SafeInv, DefaultsInv, Covered, pc = "write", UNCHANGED snap,
         rt' = Write(rt, changes).rt, changes' = Write(rt, changes).changes
  PROVE  Covered'
<1> SUFFICES ASSUME NEW r \in Write(rt, changes).rt.routes,
                    isActiveExitDefaultRoute(r), r.family \notin snap.active
             PROVE  r \in Write(rt, changes).changes.deleteRoutes
  BY Zenon DEF Covered
<1>1. /\ KernelSafe(rt) /\ IsKernel(rt) /\ IsPlan(changes) /\ changes # NoChanges
  BY Zenon DEF SafeInv, KernelSafe, PlanSafe, Pending
<1>2. r \in rt.routes
  BY <1>1, WriteBounds, Zenon DEF DefaultsInv, Supported
<1> QED
  BY <1>1, <1>2, WriteDeletes, Zenon DEF Covered

(* Every step keeps the two halves of an isolated transition apart.        *)
LEMMA NextTransition ==
  ASSUME TypeInv, SafeInv, DefaultsInv, [Next]_vars
  PROVE  TransitionInv'
<1> DEFINE Elsewhere ==
             /\ pc' \notin {"observe", "readback"}
             /\ site' \notin {"withdraw", "deactivate", "activate", "clear"}
             /\ pc' = "write" => site' # "global"
<1> USE DEF Then, Goto, End, Begin
<1>1. ASSUME Elsewhere PROVE TransitionInv'
  BY <1>1 DEF TransitionInv, Isolated
<1> HIDE DEF Elsewhere
<1>2. ASSUME \/ \E m : EnterFailClosed(m)
             \/ ReconcileFails \/ PrepareSucceeds \/ finalizeSuccessfulReconcile
             \/ FailClosedReturns(TRUE) \/ FailClosedReturns(err)
      PROVE  Elsewhere
  BY <1>2 DEF EnterFailClosed, ReconcileFails, PrepareSucceeds, finalizeSuccessfulReconcile,
     FailClosedReturns, Elsewhere
<1>3. ASSUME FilterFails PROVE Elsewhere
  BY <1>2, <1>3, Zenon DEF FilterFails, PrepareFails, Elsewhere
<1>4. ASSUME RoutingFails PROVE Elsewhere
  BY <1>2, <1>4, Zenon DEF RoutingFails, PrepareFails, Elsewhere
<1>5. ASSUME RoutingSucceeds, UNCHANGED rt, pc = "plan" \/ pc = "readback" PROVE TransitionInv'
  <2>1. CASE site # "deactivate"
    BY <1>1, <1>5, <2>1, Zenon
    DEF RoutingSucceeds, Elsewhere, TypeInv, Control, TransitionInv, Isolated
  <2>2. CASE site = "deactivate"
    <3>1. changes = NoChanges
      BY <1>5, <2>2 DEF DefaultsInv, TransitionInv, TypeInv, Control
    <3>2. Covered
      BY <2>2 DEF DefaultsInv, TransitionInv, Isolated
    <3>3. Covered' /\ changes'.deleteRoutes = {}
      BY <1>5, <2>2, <3>1, <3>2 DEF RoutingSucceeds, Covered, NoChanges, SafeInv, Postponed
    <3> QED
      BY <1>5, <2>2, <3>3, Zenon DEF RoutingSucceeds, TransitionInv
  <2> QED
    BY <2>1, <2>2
<1>6. CASE BeginPrepare \/ BeginReconcile \/ BeginFailClosed \/ BeginShutdown
  BY <1>1, <1>2, <1>6, Zenon
  DEF BeginPrepare, BeginReconcile, BeginFailClosed, BeginShutdown, Elsewhere
<1>7. CASE reconcilePacketFilter \/ FilterReadback
  <2>1. ASSUME Matches(FilterGoal), FilterSucceeds, UNCHANGED nft PROVE TransitionInv'
    <3>1. CASE site = "close"
      <4>1. ~GateOpen(nft')
        BY <2>1, <3>1, Zenon DEF Matches, FilterGoal, desiredPolicy, packetFilterPolicy,
           safetyPacketFilterPolicy, GateOpen
      <4> QED
        BY <2>1, <3>1, <4>1, Zenon DEF FilterSucceeds, ApplyPlan, TransitionInv, Isolated
    <3>2. CASE site # "close"
      BY <1>1, <1>2, <2>1, <3>2, Zenon DEF FilterSucceeds, Elsewhere
    <3> QED
      BY <3>1, <3>2
  <2> QED
    BY <1>1, <1>3, <1>7, <2>1
       DEF reconcilePacketFilter, FilterReadback, Elsewhere, world, TypeInv, Control
<1>8. CASE planRouting
  <2>1. ASSUME changes' = DiffRouting(RoutingGoal, rt),
               Then(IF site = "desired" THEN "observe" ELSE "write", site), UNCHANGED <<rt, snap>>
        PROVE  TransitionInv'
    BY <1>8, <2>1, DesiredPlanCovers, Zenon
    DEF planRouting, TransitionInv, Isolated, TypeInv, Control
  <2> QED
    BY <1>1, <1>4, <1>5, <1>8, <2>1 DEF planRouting, world
<1>9. CASE ApplyRouting
  <2>1. ASSUME rt' = Write(rt, changes).rt, changes' = Write(rt, changes).changes,
               Then(IF changes' = NoChanges THEN "readback" ELSE "write", site),
               UNCHANGED <<snap, nft>>, pc = "write"
        PROVE  TransitionInv'
    <3>1. Isolated' => Covered'
      BY <2>1, WriteCovers, Zenon DEF Isolated, DefaultsInv, TransitionInv
    <3>2. /\ changes'.upsertRoutes \subseteq changes.upsertRoutes
          /\ changes'.deleteRoutes \subseteq changes.deleteRoutes
      BY <2>1, WriteBounds, Zenon DEF SafeInv, KernelSafe, PlanSafe, Pending
    <3> QED
      BY <2>1, <3>1, <3>2, Zenon DEF DefaultsInv, TransitionInv, TypeInv, Control
  <2> QED
    BY <1>1, <1>4, <1>9, <2>1 DEF ApplyRouting
<1>10. CASE verifyRouting \/ ReverifyRecovery
  BY <1>1, <1>4, <1>5, <1>10 DEF verifyRouting, ReverifyRecovery, Elsewhere, world
<1>11. CASE PrepareDiscovers \/ ReadTailnetState \/ Discover \/ liveFailClosedState
  BY <1>1, <1>2, <1>11, Zenon
  DEF PrepareDiscovers, ReadTailnetState, Discover, liveFailClosedState, PrepareFails, Elsewhere
<1>12. ASSUME applyExitDefaultRouteTransition, Isolated, UNCHANGED <<rt, snap>>
       PROVE  TransitionInv'
  <2>1. Covered
    BY <1>12 DEF DefaultsInv, TransitionInv
  <2>2. CASE changes.deleteRoutes # {}
    BY <1>12, <2>1, <2>2 DEF applyExitDefaultRouteTransition, TransitionInv, Covered,
       deactivationChanges, NoChanges
  <2>3. CASE changes.deleteRoutes = {}
    BY <1>12, <2>1, <2>3 DEF applyExitDefaultRouteTransition, TransitionInv, Covered
  <2> QED
    BY <2>2, <2>3
<1>13. CASE ObservePacketFilter
  <2>1. ASSUME reconcileIsolatedExitDefaultTransition, pc = "observe", UNCHANGED rt
        PROVE  TransitionInv'
    BY <1>12, <2>1, Zenon
    DEF reconcileIsolatedExitDefaultTransition, DefaultsInv, TransitionInv, Isolated, Covered
  <2>2. ASSUME reconcileNoDrift \/ reconcileGlobalDrift \/ ReconcileFails
        PROVE  Elsewhere
    BY <1>2, <2>2, Zenon DEF reconcileNoDrift, reconcileGlobalDrift, Elsewhere
  <2> QED
    BY <1>1, <1>13, <2>1, <2>2 DEF ObservePacketFilter, world
<1>14. CASE VerifyRoutingAgain \/ VerifyFilterAgain \/ RefreshApprovals
  BY <1>1, <1>2, <1>14, Zenon
  DEF VerifyRoutingAgain, VerifyFilterAgain, RefreshApprovals, Elsewhere, TypeInv, Control
<1>15. CASE WritePreferences
  <2>1. ASSUME Then("preferencesReadback", site), UNCHANGED <<locals, rt, nft>>, pc = "publish"
        PROVE  TransitionInv'
    BY <2>1, Zenon DEF DefaultsInv, TransitionInv, Isolated, Covered, locals, TypeInv, Control
  <2> QED
    BY <1>1, <1>2, <1>15, <2>1, Zenon DEF WritePreferences, PreferencesFail
<1>16. CASE PreferencesReadback
  <2>1. CASE site = "withdraw" /\ PreferencesSucceed
    BY <1>12, <1>16, <2>1 DEF PreferencesReadback, PreferencesSucceed, Isolated, world
  <2>2. CASE site = "clear" /\ PreferencesSucceed
    BY <1>16, <2>2, Zenon DEF PreferencesReadback, PreferencesSucceed, ApplyPlan, world,
       DefaultsInv, TransitionInv, Isolated
  <2>3. CASE PreferencesFail \/ (site \notin {"withdraw", "clear"} /\ PreferencesSucceed)
    BY <1>1, <1>2, <2>3, Zenon DEF PreferencesFail, PreferencesSucceed, Elsewhere
  <2> QED
    BY <1>16, <2>1, <2>2, <2>3 DEF PreferencesReadback
<1>17. CASE FailClosedReadsPreferences \/ FailClosedAborts
  BY <1>1, <1>2, <1>17, Zenon DEF FailClosedReadsPreferences, FailClosedAborts, Elsewhere
<1>18. CASE ProxyReplaced \/ TailnetReplaced \/ CapabilityChanges \/ PreferencesEdited
              \/ NftablesFlushed
  <2>1. UNCHANGED <<pc, site, snap, changes>>
    BY <1>18, Zenon DEF ProxyReplaced, TailnetReplaced, CapabilityChanges, PreferencesEdited,
       NftablesFlushed, Drift, locals
  <2>2. rt'.routes \subseteq rt.routes
    BY <1>18, WithoutLinkParts, Zenon DEF ProxyReplaced, TailnetReplaced, CapabilityChanges,
       PreferencesEdited, NftablesFlushed, SafeInv, KernelSafe
  <2>3. nft' = nft \/ nft' = NoTables
    BY <1>18 DEF ProxyReplaced, TailnetReplaced, CapabilityChanges, PreferencesEdited,
       NftablesFlushed
  <2> QED
    BY <2>1, <2>2, <2>3 DEF DefaultsInv, TransitionInv, Isolated, Covered, GateOpen, NoTables
<1>19. CASE Killed \/ Restarted
  BY <1>1, <1>19 DEF Killed, Restarted, NewProcess, Elsewhere
<1>20. CASE UNCHANGED vars
  BY <1>20, Zenon DEF vars, locals, world, DefaultsInv, TransitionInv, Isolated, Covered
<1> QED
  BY <1>6, <1>7, <1>8, <1>9, <1>10, <1>11, <1>13, <1>14, <1>15, <1>16, <1>17, <1>18, <1>19,
     <1>20 DEF Next, Step

(* Every step keeps what is known of the default routes.                   *)
LEMMA NextDefaults ==
  TypeInv /\ SafeInv /\ Learning /\ DefaultsInv /\ [Next]_vars => DefaultsInv'
BY NextSupported, NextTransition DEF DefaultsInv

-----------------------------------------------------------------------------
(* A pass whose world does not drift.                                      *)

Publishing ==
  pc \in {"publish", "preferencesReadback"} /\ site \in {"noDrift", "isolated", "global"}

(* What the pass has made sure of.                                         *)
Assured ==
  /\ op = "reconcile" /\ pc \notin {"read", "preferencesReadback"} => seen = prefs
  /\ pc = "preferencesReadback" => prefs = PreferencesGoal
  /\ Ahead => changes = DiffRouting(buildDesiredRouting(snap), rt)
  /\ site = "open" \/ pc \in {"verifyFilter", "refresh"} \/ Publishing
       => rt = buildDesiredRouting(snap)
  /\ pc = "refresh" \/ Publishing \/ site = "withdraw" => nft = desiredPolicy
  /\ site = "open" \/ (pc \in {"write", "readback"} /\ site = "global") => prefs = {}
  /\ site = "withdraw" => snap.active = {} /\ onlyExitDefaultRoutesChanged(changes)
  /\ site \in {"deactivate", "activate"} /\ snap.active = {} => prefs \cap Families = {}
  /\ pc = "refresh" => seen = desiredPreferences

(* Each call of a pass rests on what the calls before it have verified;    *)
(* the returned outcome describes the world until the next call.           *)
ServeInv ==
  /\ outcome # "none" => op = "none"
  /\ ~disturbed => Assured
  /\ ConvergedMeansServing

(* No pass has succeeded yet.                                              *)
LEMMA InitServe == Init => ServeInv
BY Zenon DEF Init, ServeInv, Assured, Ahead, Publishing, ConvergedMeansServing

(* A plan without changes has nothing left to do.                          *)
LEMMA Converged ==
  ASSUME SafeInv, DiffRouting(buildDesiredRouting(snap), rt) = NoChanges
  PROVE  rt = buildDesiredRouting(snap)
BY EmptyDiff, DesiredGoal, Zenon DEF SafeInv, GoalSafe

(* The default routes and the subnet routes of the preferences are         *)
(* different prefixes.                                                     *)
LEMMA FamiliesAreNoSubnets == Families \cap Subnets = {}
BY ConfigurationAssumption DEF Families

(* A call of a method that is not Reconcile, or one that only returns.     *)
LEMMA ServeElsewhere ==
  ASSUME op' # "reconcile", outcome' # "converged", outcome' # "none" => op' = "none",
         pc' \in {"boot", "idle", "failed", "halted", "filter", "filterReadback", "plan", "write",
                  "readback", "reverify", "prepareDiscover", "liveState", "readPreferences"}
           \/ (pc' = "publish" /\ site' = "disable"),
         site' \in {"none", "quarantine", "mark", "failClosed", "recover", "safety", "prepared",
                    "recovery", "strict", "fallback", "disable"}
  PROVE  ServeInv'
BY Zenon DEF ServeInv, Assured, Ahead, Publishing, ConvergedMeansServing

(* An operation that does not succeed claims nothing.                      *)
LEMMA ServeReturns ==
  ASSUME \/ \E m \in {"failClosed", "shutdown"} : EnterFailClosed(m)
         \/ ReconcileFails \/ PrepareSucceeds \/ FailClosedReturns(TRUE) \/ FailClosedReturns(err)
  PROVE  ServeInv'
<1>1. CASE \E m \in {"failClosed", "shutdown"} : EnterFailClosed(m)
  BY <1>1, ServeElsewhere DEF EnterFailClosed, Begin, Goto
<1>2. CASE ReconcileFails \/ PrepareSucceeds
  BY <1>2, ServeElsewhere DEF ReconcileFails, PrepareSucceeds, End, Goto
<1>3. CASE FailClosedReturns(TRUE) \/ FailClosedReturns(err)
  <2>1. outcome' \in {"failed", "strict", "closed"}
    BY <1>3 DEF FailClosedReturns, End
  <2> QED
    BY <1>3, <2>1, ServeElsewhere DEF FailClosedReturns, End, Goto
<1> QED
  BY <1>1, <1>2, <1>3, Zenon

(* A pass that succeeds leaves what it has verified.                       *)
LEMMA ServeFinalize ==
  ASSUME finalizeSuccessfulReconcile, UNCHANGED world,
         ~disturbed => /\ rt = buildDesiredRouting(snap) /\ nft = desiredPolicy
                       /\ prefs = desiredPreferences
  PROVE  ServeInv'
<1>1. UNCHANGED <<rt, nft, prefs, snap, disturbed>>
  BY DEF finalizeSuccessfulReconcile, End, world
<1>2. ConvergedMeansServing'
  BY <1>1, Zenon DEF ConvergedMeansServing, desiredPolicy, desiredPreferences
<1>3. op' = "none" /\ pc' = "idle" /\ site' = "none"
  BY DEF finalizeSuccessfulReconcile, End, Goto
<1> QED
  BY <1>2, <1>3 DEF ServeInv, Assured, Ahead, Publishing

(* Every step keeps what the pass has verified so far.                     *)
LEMMA NextServe == TypeInv /\ SafeInv /\ ServeInv /\ [Next]_vars => ServeInv'
<1> SUFFICES ASSUME TypeInv, SafeInv, ServeInv, [Next]_vars PROVE ServeInv'
  OBVIOUS
<1> USE DEF Then, Goto, world, locals
<1>1. ASSUME op # "none" PROVE outcome = "none"
  BY <1>1 DEF ServeInv
<1>2. ASSUME op' # "none", outcome' = "none", UNCHANGED disturbed, ~disturbed => Assured'
      PROVE  ServeInv'
  BY <1>2 DEF ServeInv, ConvergedMeansServing
<1>3. CASE BeginPrepare \/ BeginFailClosed \/ BeginShutdown
  BY <1>3, ServeElsewhere, ServeReturns, Zenon
  DEF BeginPrepare, BeginFailClosed, BeginShutdown, Begin
<1>4. CASE BeginReconcile
  BY <1>4, Zenon
  DEF BeginReconcile, Begin, ServeInv, Assured, Ahead, Publishing, ConvergedMeansServing
<1>5. ASSUME FilterFails, pc \in {"filter", "filterReadback"} PROVE ServeInv'
  BY <1>1, <1>5, ServeReturns, ServeElsewhere, Zenon
  DEF FilterFails, PrepareFails, TypeInv, Control
<1>6. ASSUME FilterSucceeds, pc \in {"filter", "filterReadback"}, UNCHANGED world PROVE ServeInv'
  <2>1. CASE site \in {"quarantine", "mark", "failClosed", "recover"}
    BY <1>1, <1>6, <2>1, ServeReturns, ServeElsewhere, Zenon
    DEF FilterSucceeds, TypeInv, Control
  <2>2. CASE site = "close"
    BY <1>1, <1>2, <1>6, <2>2, Converged, Zenon DEF FilterSucceeds, ApplyPlan, TypeInv, Control,
       ServeInv, Assured, Ahead, Publishing
  <2>3. CASE site = "open"
    BY <1>1, <1>2, <1>6, <2>3, Zenon DEF FilterSucceeds, TypeInv, Control,
       ServeInv, Assured, Ahead, Publishing
  <2> QED
    BY <1>6, <2>1, <2>2, <2>3 DEF FilterSucceeds
<1>7. CASE reconcilePacketFilter \/ FilterReadback
  <2>1. ASSUME Then("filterReadback", site), UNCHANGED <<memory, locals, rt, prefs>>, pc = "filter"
        PROVE  ServeInv'
    BY <1>1, <1>2, <2>1, Zenon DEF TypeInv, Control, ServeInv, Assured, Ahead, Publishing
  <2> QED
    BY <1>5, <1>6, <1>7, <2>1 DEF reconcilePacketFilter, FilterReadback
<1>8. ASSUME RoutingFails, pc \in {"plan", "write", "readback", "reverify"} PROVE ServeInv'
  BY <1>1, <1>8, ServeReturns, ServeElsewhere, Zenon
  DEF RoutingFails, PrepareFails, TypeInv, Control
<1>9. ASSUME RoutingSucceeds, pc \in {"plan", "readback"}, UNCHANGED world,
             site = "global" => DiffRouting(RoutingGoal, rt) = NoChanges
      PROVE  ServeInv'
  <2>1. CASE site \in {"safety", "prepared", "recovery", "strict", "fallback"}
    BY <1>1, <1>9, <2>1, ServeElsewhere, Zenon DEF RoutingSucceeds, TypeInv, Control
  <2>2. CASE site \in {"deactivate", "activate"}
    BY <1>1, <1>2, <1>9, <2>2, Zenon DEF RoutingSucceeds, TypeInv, Control,
       ServeInv, Assured, Ahead, Publishing
  <2>3. CASE site = "global"
    <3>1. rt = buildDesiredRouting(snap)
      BY <1>9, <2>3, Converged DEF RoutingGoal
    <3> QED
      BY <1>1, <1>2, <1>9, <2>3, <3>1, Zenon DEF RoutingSucceeds, TypeInv, Control,
         ServeInv, Assured, Ahead, Publishing
  <2> QED
    BY <1>9, <2>1, <2>2, <2>3 DEF RoutingSucceeds
<1>10. CASE planRouting
  <2>1. ASSUME changes' = DiffRouting(RoutingGoal, rt),
               Then(IF site = "desired" THEN "observe" ELSE "write", site), pc = "plan",
               UNCHANGED <<memory, snap, seen, later, err, world>>
        PROVE  ServeInv'
    BY <1>1, <1>2, <2>1 DEF RoutingGoal, TypeInv, Control, ServeInv, Assured, Ahead, Publishing
  <2>2. site # "global"
    BY <1>10 DEF planRouting, TypeInv, Control
  <2> QED
    BY <1>8, <1>9, <1>10, <2>1, <2>2 DEF planRouting
<1>11. CASE ApplyRouting
  <2>1. ASSUME Then(IF changes' = NoChanges THEN "readback" ELSE "write", site), pc = "write",
               UNCHANGED <<memory, snap, seen, later, err, nft, prefs>>
        PROVE  ServeInv'
    BY <1>1, <1>2, <2>1, Zenon DEF TypeInv, Control, ServeInv, Assured, Ahead, Publishing
  <2> QED
    BY <1>8, <1>11, <2>1 DEF ApplyRouting
<1>12. CASE verifyRouting
  BY <1>8, <1>9, <1>12 DEF verifyRouting, ReadsBack
<1>13. CASE PrepareDiscovers \/ liveFailClosedState
  BY <1>1, <1>13, ServeReturns, ServeElsewhere, Zenon DEF PrepareDiscovers, liveFailClosedState,
     PrepareFails, TypeInv, Control
<1>14. CASE ReadTailnetState
  BY <1>1, <1>2, <1>14, ServeReturns, Zenon
  DEF ReadTailnetState, readTailnetState, TypeInv, Control, ServeInv, Assured, Ahead, Publishing
<1>15. CASE Discover
  <2>1. ASSUME Then("plan", "desired"), UNCHANGED <<seen, prefs>>, pc = "discover"
        PROVE  ServeInv'
    BY <1>1, <1>2, <2>1, Zenon DEF TypeInv, Control, ServeInv, Assured, Ahead, Publishing
  <2>2. ASSUME End("failed", "failed") PROVE ServeInv'
    BY <2>2, ServeElsewhere DEF End
  <2> QED
    BY <1>15, <2>1, <2>2, ServeReturns, Zenon DEF Discover
<1>16. ASSUME applyExitDefaultRouteTransition, op = "reconcile",
              UNCHANGED <<snap, world>>, ~disturbed => seen' = prefs,
              ~disturbed /\ snap.active = {} => prefs \cap Families = {}
       PROVE  ServeInv'
  BY <1>1, <1>2, <1>16, Zenon DEF applyExitDefaultRouteTransition, Assured, Ahead, Publishing
<1>17. CASE ObservePacketFilter
  <2>1. op = "reconcile" /\ pc = "observe" /\ UNCHANGED world
    BY <1>17 DEF ObservePacketFilter, TypeInv, Control
  <2>2. ASSUME ~disturbed
        PROVE  seen = prefs /\ (changes = NoChanges => rt = buildDesiredRouting(snap))
    BY <2>1, <2>2, Converged, Zenon DEF ServeInv, Assured, Ahead
  <2>3. CASE reconcileNoDrift
    <3>1. CASE seen = desiredPreferences
      BY <2>1, <2>2, <2>3, <3>1, ServeFinalize DEF reconcileNoDrift, Matches
    <3>2. CASE seen # desiredPreferences
      BY <1>1, <1>2, <2>1, <2>2, <2>3, <3>2, Zenon
      DEF reconcileNoDrift, Assured, Ahead, Publishing
    <3> QED
      BY <3>1, <3>2
  <2>4. CASE reconcileIsolatedExitDefaultTransition
    <3>1. CASE snap.active = {} /\ seen \cap Families # {}
      BY <1>1, <1>2, <2>1, <2>2, <2>4, <3>1, Zenon
      DEF reconcileIsolatedExitDefaultTransition, Matches, ServeInv, Assured, Ahead, Publishing
    <3>2. CASE ~(snap.active = {} /\ seen \cap Families # {})
      BY <1>16, <2>1, <2>2, <2>4, <3>2, Zenon DEF reconcileIsolatedExitDefaultTransition
    <3> QED
      BY <3>1, <3>2
  <2>5. CASE reconcileGlobalDrift
    BY <1>1, <1>2, <2>1, <2>2, <2>5, Zenon
    DEF reconcileGlobalDrift, ServeInv, Assured, Ahead, Publishing
  <2> QED
    BY <1>17, <2>3, <2>4, <2>5, ServeReturns, Zenon DEF ObservePacketFilter
<1>18. CASE VerifyRoutingAgain
  <2>1. ASSUME ReadsBack, Then("verifyFilter", site), UNCHANGED <<world, locals>>
        PROVE  ServeInv'
    <3>1. op = "reconcile" /\ site \in {"noDrift", "isolated", "global"} /\ pc = "verifyRouting"
      BY <1>18 DEF VerifyRoutingAgain, TypeInv, Control
    <3>2. rt = buildDesiredRouting(snap)
      BY <2>1, <3>1, Converged DEF ReadsBack, RoutingGoal
    <3> QED
      BY <1>1, <1>2, <2>1, <3>1, <3>2, Zenon DEF ServeInv, Assured, Ahead, Publishing
  <2> QED
    BY <1>18, <2>1, ServeReturns, Zenon DEF VerifyRoutingAgain
<1>19. CASE VerifyFilterAgain
  <2>1. /\ op = "reconcile" /\ site \in {"noDrift", "isolated", "global"} /\ pc = "verifyFilter"
        /\ UNCHANGED world
    BY <1>19 DEF VerifyFilterAgain, TypeInv, Control
  <2>2. ~disturbed => rt = buildDesiredRouting(snap) /\ seen = prefs
    BY <2>1, Zenon DEF ServeInv, Assured
  <2>3. ASSUME Matches(desiredPolicy), finalizeSuccessfulReconcile, seen = desiredPreferences
        PROVE  ServeInv'
    BY <2>1, <2>2, <2>3, ServeFinalize DEF Matches
  <2>4. ASSUME Matches(desiredPolicy), UNCHANGED locals,
               \/ Then("publish", site)
               \/ seen = desiredPreferences /\ Then("refresh", site)
        PROVE  ServeInv'
    <3>1. desiredPolicy' = desiredPolicy /\ desiredPreferences' = desiredPreferences
      BY <2>4, Zenon DEF desiredPolicy, desiredPreferences
    <3> QED
      BY <1>1, <1>2, <2>1, <2>2, <2>4, <3>1, Zenon DEF Matches, Assured, Ahead, Publishing
  <2> QED
    BY <1>19, <2>3, <2>4, ServeReturns, Zenon DEF VerifyFilterAgain
<1>20. CASE RefreshApprovals
  <2>1. /\ op = "reconcile" /\ pc = "refresh" /\ UNCHANGED world
    BY <1>20 DEF RefreshApprovals, TypeInv, Control
  <2>2. ~disturbed => /\ rt = buildDesiredRouting(snap) /\ nft = desiredPolicy
                      /\ prefs = desiredPreferences
    BY <2>1, Zenon DEF ServeInv, Assured
  <2> QED
    BY <1>20, <2>1, <2>2, ServeReturns, ServeFinalize, Zenon DEF RefreshApprovals
<1>21. CASE WritePreferences
  <2>1. ASSUME EditPrefs(PreferencesGoal), Then("preferencesReadback", site),
               UNCHANGED <<locals, rt, nft>>, pc = "publish"
        PROVE  ServeInv'
    <3>1. PreferencesGoal' = PreferencesGoal /\ desiredPolicy' = desiredPolicy
      BY <2>1, Zenon DEF PreferencesGoal, desiredPreferences, desiredPolicy
    <3> QED
      BY <1>1, <1>2, <2>1, <3>1, Zenon
      DEF EditPrefs, TypeInv, Control, ServeInv, Assured, Ahead, Publishing
  <2> QED
    BY <1>21, <2>1, ServeReturns, Zenon DEF WritePreferences, PreferencesFail
<1>22. CASE PreferencesReadback
  <2>1. UNCHANGED world /\ pc = "preferencesReadback"
    BY <1>22 DEF PreferencesReadback
  <2>2. ASSUME prefs = PreferencesGoal, PreferencesSucceed PROVE ServeInv'
    <3>1. CASE site = "restored"
      BY <1>1, <1>2, <2>1, <2>2, <3>1, Zenon
      DEF PreferencesSucceed, PreferencesGoal, TypeInv, Control, Assured, Ahead, Publishing
    <3>2. CASE site = "withdraw"
      <4>1. ~disturbed => snap.active = {}
        BY <3>2, Zenon DEF ServeInv, Assured
      <4>2. prefs = desiredPreferences /\ (snap.active = {} => prefs = Subnets)
        BY <2>2, <3>2 DEF PreferencesGoal, desiredPreferences
      <4>3. op = "reconcile"
        BY <2>1, <3>2 DEF TypeInv, Control
      <4> QED
        BY <1>16, <2>1, <2>2, <3>2, <4>1, <4>2, <4>3, FamiliesAreNoSubnets, Zenon
        DEF PreferencesSucceed
    <3>3. CASE site = "clear"
      BY <1>1, <1>2, <2>1, <2>2, <3>3, Converged, Zenon
      DEF PreferencesSucceed, PreferencesGoal, ApplyPlan, TypeInv, Control, ServeInv, Assured,
          Ahead, Publishing
    <3>4. CASE site \in {"noDrift", "isolated", "global"}
      BY <2>1, <2>2, <3>4, ServeFinalize, Zenon
      DEF PreferencesSucceed, PreferencesGoal, ServeInv, Assured, Publishing
    <3>5. CASE site = "disable"
      BY <2>2, <3>5, ServeReturns DEF PreferencesSucceed
    <3> QED
      BY <2>2, <3>1, <3>2, <3>3, <3>4, <3>5 DEF PreferencesSucceed
  <2> QED
    BY <1>22, <2>2, ServeReturns, Zenon
    DEF PreferencesReadback, PreferencesFail, readTailnetState
<1>23. CASE ReverifyRecovery
  BY <1>1, <1>8, <1>23, ServeElsewhere DEF ReverifyRecovery, TypeInv, Control
<1>24. CASE FailClosedReadsPreferences \/ FailClosedAborts
  BY <1>1, <1>24, ServeReturns, ServeElsewhere, Zenon
  DEF FailClosedReadsPreferences, FailClosedAborts, TypeInv, Control
<1>25. CASE ProxyReplaced \/ TailnetReplaced \/ CapabilityChanges \/ PreferencesEdited
              \/ NftablesFlushed
  BY <1>25, Zenon DEF ProxyReplaced, TailnetReplaced, CapabilityChanges, PreferencesEdited,
     NftablesFlushed, Drift, ServeInv, ConvergedMeansServing
<1>26. CASE Killed \/ Restarted
  BY <1>26, ServeElsewhere DEF Killed, Restarted, NewProcess
<1>27. CASE UNCHANGED vars
  BY <1>27, Zenon
  DEF vars, ServeInv, Assured, Ahead, Publishing, ConvergedMeansServing, PreferencesGoal,
      desiredPreferences
<1> QED
  BY <1>3, <1>4, <1>7, <1>10, <1>11, <1>12, <1>13, <1>14, <1>15, <1>17, <1>18, <1>19, <1>20,
     <1>21, <1>22, <1>23, <1>24, <1>25, <1>26, <1>27 DEF Next, Step

-----------------------------------------------------------------------------
(* A fail-closed transition whose world does not drift.                    *)

(* Only the local lane of FailClosed is left, through the present tunnel.  *)
Inactive ==
  \A r \in rt.routes : r.disposition = "unicast" =>
    op = "failClosed" /\ r.table = "local" /\ r.link = proxy

(* What no part of failClosed has failed to do; it never goes back on it.  *)
ClosedInv ==
  /\ op \in {"failClosed", "shutdown"} /\ ~err /\ ~disturbed =>
       /\ site # "failClosed" => nft.present /\ nft.gateClosed
       /\ site \in {"recover", "recovery"} => snap.proxy = proxy
       /\ site # "fallback"
       /\ pc = "readPreferences" \/ site = "disable" => Inactive
  /\ FailClosedEstablished

(* No fail-closed pass has returned yet.                                   *)
LEMMA InitClosed == Init => ClosedInv
BY Zenon DEF Init, ClosedInv, FailClosedEstablished

(* Outside of fail-closed's own steps there is nothing to keep.            *)
LEMMA ClosedElsewhere ==
  ASSUME outcome' \notin {"closed", "strict"},
         op' \notin {"failClosed", "shutdown"} \/ err' \/ disturbed'
           \/ (pc' # "readPreferences" /\ site' = "failClosed")
  PROVE  ClosedInv'
BY Zenon DEF ClosedInv, FailClosedEstablished

(* An operation that begins, or that returns an error, claims nothing.     *)
LEMMA ClosedReturns ==
  ASSUME (\E m : EnterFailClosed(m)) \/ ReconcileFails \/ PrepareSucceeds
           \/ finalizeSuccessfulReconcile \/ FailClosedReturns(TRUE)
  PROVE  ClosedInv'
<1>1. CASE \E m : EnterFailClosed(m)
  BY <1>1, ClosedElsewhere DEF EnterFailClosed, Begin, Goto
<1>2. CASE ReconcileFails \/ PrepareSucceeds \/ finalizeSuccessfulReconcile \/ FailClosedReturns(TRUE)
  BY <1>2, ClosedElsewhere DEF ReconcileFails, PrepareSucceeds, finalizeSuccessfulReconcile,
     FailClosedReturns, End
<1> QED
  BY <1>1, <1>2, Zenon

(* The routing that failClosed asks for is inactive.                       *)
LEMMA FailClosedGoalIsInactive ==
  ASSUME TypeInv, SafeInv, ClosedInv, op \in {"failClosed", "shutdown"}, ~err, ~disturbed,
         site \in {"recovery", "strict", "fallback"},
         DiffRouting(RoutingGoal, rt) = NoChanges
  PROVE  Inactive
<1>1. rt = RoutingGoal
  BY EmptyDiff, GoalIsSafe, Zenon DEF SafeInv, GoalSafe
<1> SUFFICES ASSUME NEW r \in RoutingGoal.routes, r.disposition = "unicast"
             PROVE  op = "failClosed" /\ r.table = "local" /\ r.link = proxy
  BY <1>1 DEF Inactive
<1>2. CASE site = "recovery"
  BY <1>2, FailClosedActive DEF RoutingGoal, TypeInv, Control, ClosedInv
<1>3. CASE site \in {"strict", "fallback"}
  BY <1>3, FailClosedActive DEF RoutingGoal
<1> QED
  BY <1>2, <1>3

(* fail-closed that returns nil leaves no preference, and nothing active   *)
(* but its local lane.                                                     *)
LEMMA ClosedSucceeds ==
  ASSUME ClosedInv, FailClosedReturns(err), UNCHANGED world, op \in {"failClosed", "shutdown"},
         ~err /\ ~disturbed => prefs = {} /\ Inactive, site # "failClosed"
  PROVE  ClosedInv'
<1>1. op' = "none" /\ UNCHANGED <<disturbed, rt, nft, prefs, proxy>>
  BY DEF FailClosedReturns, End, world
<1>2. outcome' = IF err THEN "failed" ELSE IF op = "shutdown" THEN "strict" ELSE "closed"
  BY DEF FailClosedReturns, End
<1>3. CASE err
  BY <1>1, <1>2, <1>3, ClosedElsewhere
<1>4. CASE ~err
  <2>1. op = "failClosed" => outcome' = "closed"
    BY <1>2, <1>4
  <2> QED
    BY <1>1, <1>4, <2>1, Zenon DEF ClosedInv, FailClosedEstablished, Inactive
<1> QED
  BY <1>3, <1>4

(* Every step keeps what fail-closed has established so far.               *)
LEMMA NextClosed ==
  TypeInv /\ SafeInv /\ ServeInv /\ ClosedInv /\ [Next]_vars => ClosedInv'
<1> SUFFICES ASSUME TypeInv, SafeInv, ServeInv, ClosedInv, [Next]_vars PROVE ClosedInv'
  OBVIOUS
<1> USE DEF Then, Goto, world, locals
<1>1. ASSUME op # "none" PROVE outcome = "none"
  BY <1>1 DEF ServeInv
<1>2. CASE BeginPrepare \/ BeginReconcile \/ BeginFailClosed \/ BeginShutdown
  BY <1>2, ClosedElsewhere, ClosedReturns, Zenon
  DEF BeginPrepare, BeginReconcile, BeginFailClosed, BeginShutdown, Begin
<1>3. CASE reconcilePacketFilter \/ FilterReadback
  <2>1. op # "none" /\ pc \in {"filter", "filterReadback"}
    BY <1>3 DEF reconcilePacketFilter, FilterReadback, TypeInv, Control
  <2>2. ASSUME FilterFails PROVE ClosedInv'
    BY <1>1, <2>1, <2>2, ClosedReturns, ClosedElsewhere, Zenon DEF FilterFails, PrepareFails
  <2>3. ASSUME Matches(FilterGoal), FilterSucceeds, UNCHANGED <<nft, proxy>> PROVE ClosedInv'
    <3>1. CASE site \in {"quarantine", "mark", "close", "open"}
      BY <1>1, <2>1, <2>3, <3>1, ClosedReturns, ClosedElsewhere, Zenon
         DEF FilterSucceeds, ApplyPlan, TypeInv, Control
    <3>2. CASE site = "failClosed"
      <4>1. nft.present /\ nft.gateClosed
        BY <2>1, <2>3, <3>2, Zenon DEF Matches, FilterGoal, TypeInv, Control, MemoryOK, Policies
      <4> QED
        BY <1>1, <2>1, <2>3, <3>2, <4>1, Zenon
        DEF FilterSucceeds, ClosedInv, FailClosedEstablished
    <3>3. CASE site = "recover"
      <4>1. nft.present /\ nft.gateClosed
        BY <2>3, <3>3, Zenon
        DEF Matches, FilterGoal, packetFilterPolicy, safetyPacketFilterPolicy
      <4>2. pc' = "plan" /\ site' = "recovery" /\ UNCHANGED <<op, outcome, disturbed, locals>>
        BY <2>3, <3>3, Zenon DEF FilterSucceeds
      <4> QED
        BY <1>1, <2>1, <2>3, <3>3, <4>1, <4>2, Zenon DEF ClosedInv, FailClosedEstablished
    <3> QED
      BY <2>3, <3>1, <3>2, <3>3, Zenon DEF FilterSucceeds
  <2>4. ASSUME Apply(FilterGoal), Then("filterReadback", site), UNCHANGED <<locals, proxy>>
        PROVE  ClosedInv'
    <3>1. site = "recover" => FilterGoal.present /\ FilterGoal.gateClosed
      BY Zenon DEF FilterGoal, packetFilterPolicy, safetyPacketFilterPolicy
    <3> QED
      BY <1>1, <2>1, <2>4, <3>1, Zenon
      DEF Apply, TypeInv, Control, ClosedInv, FailClosedEstablished
  <2> QED
    BY <1>3, <2>2, <2>3, <2>4 DEF reconcilePacketFilter, FilterReadback
<1>4. ASSUME RoutingFails, op # "none" PROVE ClosedInv'
  BY <1>1, <1>4, ClosedReturns, ClosedElsewhere, Zenon DEF RoutingFails, PrepareFails
<1>5. ASSUME RoutingSucceeds, pc \in {"plan", "readback"}, UNCHANGED world,
             site \in {"recovery", "strict", "fallback"} => DiffRouting(RoutingGoal, rt) = NoChanges
      PROVE  ClosedInv'
  <2>1. CASE op \in {"failClosed", "shutdown"} /\ ~err /\ ~disturbed
    <3>1. site \in {"recovery", "strict", "fallback"}
      BY <1>5, <2>1, Zenon DEF RoutingSucceeds, TypeInv, Control
    <3>2. Inactive
      BY <1>5, <2>1, <3>1, FailClosedGoalIsInactive
    <3> QED
      BY <1>1, <1>5, <2>1, <3>1, <3>2, Zenon
      DEF RoutingSucceeds, ClosedInv, FailClosedEstablished, Inactive
  <2>2. CASE ~(op \in {"failClosed", "shutdown"} /\ ~err /\ ~disturbed)
    <3>1. UNCHANGED <<op, err, disturbed, outcome>>
      BY <1>5, Zenon DEF RoutingSucceeds
    <3>2. outcome = "none"
      BY <1>1, <1>5 DEF TypeInv, Control
    <3> QED BY <2>2, <3>1, <3>2, ClosedElsewhere
  <2> QED
    BY <2>1, <2>2
<1>6. CASE planRouting
  <2>1. op # "none"
    BY <1>6 DEF planRouting, TypeInv, Control
  <2>2. ASSUME Then(IF site = "desired" THEN "observe" ELSE "write", site), pc = "plan",
               UNCHANGED <<world, snap, err>>
        PROVE  ClosedInv'
    BY <1>1, <2>1, <2>2, Zenon DEF TypeInv, Control, ClosedInv, FailClosedEstablished
  <2> QED
    BY <1>4, <1>5, <1>6, <2>1, <2>2 DEF planRouting
<1>7. CASE ApplyRouting
  <2>1. op # "none"
    BY <1>7 DEF ApplyRouting, TypeInv, Control
  <2>2. ASSUME Then(IF changes' = NoChanges THEN "readback" ELSE "write", site), pc = "write",
               UNCHANGED <<snap, err, nft, proxy>>
        PROVE  ClosedInv'
    BY <1>1, <2>1, <2>2, Zenon DEF TypeInv, Control, ClosedInv, FailClosedEstablished
  <2> QED
    BY <1>4, <1>7, <2>1, <2>2 DEF ApplyRouting
<1>8. CASE verifyRouting
  BY <1>4, <1>5, <1>8 DEF verifyRouting, ReadsBack, TypeInv, Control
<1>9. CASE PrepareDiscovers \/ ReadTailnetState \/ Discover \/ ObservePacketFilter
             \/ VerifyRoutingAgain \/ VerifyFilterAgain \/ RefreshApprovals
  <2>1. op \in {"prepare", "reconcile"}
    BY <1>9 DEF PrepareDiscovers, ReadTailnetState, Discover, ObservePacketFilter,
       VerifyRoutingAgain, VerifyFilterAgain, RefreshApprovals, TypeInv, Control
  <2>2. ASSUME UNCHANGED <<op, outcome>> PROVE ClosedInv'
    BY <1>1, <2>1, <2>2, ClosedElsewhere
  <2>3. ASSUME End("failed", "failed") PROVE ClosedInv'
    BY <2>3, ClosedElsewhere DEF End
  <2> QED
    BY <1>9, <2>2, <2>3, ClosedReturns, Zenon DEF PrepareDiscovers, ReadTailnetState, Discover,
       ObservePacketFilter, reconcileNoDrift, reconcileGlobalDrift,
       reconcileIsolatedExitDefaultTransition, applyExitDefaultRouteTransition,
       VerifyRoutingAgain, VerifyFilterAgain, RefreshApprovals, PrepareFails
<1>10. CASE WritePreferences
  <2>1. ASSUME Then("preferencesReadback", site), UNCHANGED <<locals, rt, nft, proxy>>, pc = "publish"
        PROVE  ClosedInv'
    BY <1>1, <2>1, Zenon DEF TypeInv, Control, ClosedInv, FailClosedEstablished, Inactive
  <2> QED
    BY <1>10, <2>1, ClosedReturns, Zenon DEF WritePreferences, PreferencesFail
<1>11. CASE PreferencesReadback
  <2>1. pc = "preferencesReadback" /\ UNCHANGED world
    BY <1>11 DEF PreferencesReadback
  <2>2. ASSUME prefs = PreferencesGoal, PreferencesSucceed PROVE ClosedInv'
    <3>1. CASE site = "disable"
      BY <2>1, <2>2, <3>1, ClosedSucceeds, Zenon
      DEF PreferencesSucceed, PreferencesGoal, ClosedInv, TypeInv, Control
    <3>2. CASE site # "disable"
      BY <1>1, <2>1, <2>2, <3>2, ClosedReturns, ClosedElsewhere, Zenon
      DEF PreferencesSucceed, ApplyPlan, applyExitDefaultRouteTransition, TypeInv, Control
    <3> QED
      BY <3>1, <3>2
  <2> QED
    BY <1>11, <2>2, ClosedReturns, Zenon
    DEF PreferencesReadback, PreferencesFail, readTailnetState
<1>12. CASE liveFailClosedState
  <2>1. op = "failClosed" /\ pc = "liveState" /\ site = "none" /\ UNCHANGED world
    BY <1>12 DEF liveFailClosedState, TypeInv, Control
  <2>2. [snap EXCEPT !.proxy = proxy].proxy = proxy
    BY DEF TypeInv, LocalsOK, Snapshots
  <2> QED
    BY <1>1, <1>12, <2>1, <2>2, ClosedElsewhere, Zenon
    DEF liveFailClosedState, ClosedInv, FailClosedEstablished
<1>13. CASE ReverifyRecovery
  <2>1. op = "failClosed" /\ pc = "reverify" /\ site = "recovery" /\ UNCHANGED world
    BY <1>13 DEF ReverifyRecovery, TypeInv, Control
  <2>2. ASSUME ReadsBack, ~err, ~disturbed PROVE Inactive
    BY <2>1, <2>2, FailClosedGoalIsInactive DEF ReadsBack
  <2>3. ASSUME ReadsBack, Then("readPreferences", "none"), UNCHANGED locals PROVE ClosedInv'
    BY <1>1, <2>1, <2>2, <2>3, Zenon DEF ClosedInv, FailClosedEstablished, Inactive
  <2> QED
    BY <1>4, <1>13, <2>1, <2>3 DEF ReverifyRecovery
<1>14. CASE FailClosedReadsPreferences
  <2>1. op \in {"failClosed", "shutdown"} /\ pc = "readPreferences" /\ site = "none" /\ UNCHANGED world
    BY <1>14, Zenon DEF FailClosedReadsPreferences, TypeInv, Control
  <2>2. ASSUME prefs = {}, FailClosedReturns(err) PROVE ClosedInv'
    BY <2>1, <2>2, ClosedSucceeds, Zenon DEF ClosedInv
  <2>3. ASSUME Then("publish", "disable"), UNCHANGED locals PROVE ClosedInv'
    BY <1>1, <2>1, <2>3, Zenon DEF ClosedInv, FailClosedEstablished, Inactive
  <2> QED
    BY <1>14, <2>2, <2>3, ClosedReturns, Zenon DEF FailClosedReadsPreferences, readTailnetState
<1>15. CASE FailClosedAborts
  BY <1>15, ClosedReturns DEF FailClosedAborts
<1>16. CASE ProxyReplaced \/ TailnetReplaced \/ CapabilityChanges \/ PreferencesEdited
              \/ NftablesFlushed
  BY <1>16, Zenon DEF ProxyReplaced, TailnetReplaced, CapabilityChanges, PreferencesEdited,
     NftablesFlushed, Drift, ClosedInv, FailClosedEstablished
<1>17. CASE Killed \/ Restarted
  BY <1>17, ClosedElsewhere DEF Killed, Restarted, NewProcess
<1>18. CASE UNCHANGED vars
  BY <1>18, Zenon DEF vars, ClosedInv, FailClosedEstablished, Inactive
<1> QED
  BY <1>2, <1>3, <1>6, <1>7, <1>8, <1>9, <1>10, <1>11, <1>12, <1>13, <1>14, <1>15, <1>16,
     <1>17, <1>18 DEF Next, Step

-----------------------------------------------------------------------------
(* The theorems.                                                           *)

IInv == TypeInv /\ SafeInv /\ MarkInv /\ ExitInv /\ DefaultsInv /\ ServeInv /\ ClosedInv

(* The whole invariant holds in every reachable state.                     *)
LEMMA Inductive == Spec => []IInv
<1>1. Init => IInv
  BY InitTypes, InitSafe, InitMark, InitExit, InitDefaults, InitServe, InitClosed DEF IInv
<1>2. IInv /\ [Next]_vars => IInv'
  <2> SUFFICES ASSUME IInv, [Next]_vars PROVE IInv'
    OBVIOUS
  <2>1. Learning
    BY DEF IInv, ExitInv
  <2> QED
    BY <2>1, NextTypes, NextSafe, NextMark, NextExit, NextDefaults, NextServe, NextClosed
    DEF IInv
<1> QED
  BY <1>1, <1>2, PTL DEF Spec

(* No policy that Prepare, Reconcile or failClosed applies, or inherits    *)
(* from a killed process, marks packets before the rules on the mark are   *)
(* there; no plan of DiffRouting removes those rules again.                *)
THEOREM MarksAreSelected == Spec => []MarkedTrafficIsSelected
<1>1. IInv => MarkedTrafficIsSelected
  BY DEF IInv, MarkInv, HasMarkRules, MarkedTrafficIsSelected
<1> QED
  BY <1>1, Inductive, PTL

(* Once Reconcile has learned the Tailnet link, its open gate always has   *)
(* Exit rules under it: reconcileGlobalDrift opens it over them, and the   *)
(* plans of Reconcile and failClosed replace each before they remove it.   *)
THEOREM OpenGateIsSelected == Spec => []OpenGateHasSelectors
<1>1. IInv => OpenGateHasSelectors
  BY DEF IInv, ExitInv, Known, OpenGateHasSelectors
<1> QED
  BY <1>1, Inductive, PTL

(* A FailClosed or Shutdown that returns no error has closed the gate,     *)
(* withdrawn every advertisement and taken away every active route but, in *)
(* FailClosed, the local lane, unless the world drifted meanwhile.         *)
THEOREM FailClosedIsEstablished == Spec => []FailClosedEstablished
<1>1. IInv => FailClosedEstablished
  BY DEF IInv, ClosedInv
<1> QED
  BY <1>1, Inductive, PTL

(* A Reconcile that returns no error, on any of its three paths, leaves    *)
(* exactly the desired routing, policy and advertisements for what it      *)
(* discovered, unless the world drifted meanwhile.                         *)
THEOREM ConvergedServes == Spec => []ConvergedMeansServing
<1>1. IInv => ConvergedMeansServing
  BY DEF IInv, ServeInv
<1> QED
  BY <1>1, Inductive, PTL

-----------------------------------------------------------------------------
(* Reconcile writes to the world without forgetting that it drifted.       *)
LEMMA WritesRemember ==
  ASSUME Control, [Next]_vars, op = "reconcile", ~UNCHANGED world, ~disturbed'
  PROVE  ~disturbed
<1> USE DEF Then, End
<1>1. CASE reconcilePacketFilter
  BY <1>1, Zenon
  DEF reconcilePacketFilter, FilterSucceeds, FilterFails, ReconcileFails, ApplyPlan, Control
<1>2. CASE ApplyRouting
  BY <1>2 DEF ApplyRouting, RoutingFails, ReconcileFails, Control
<1>3. CASE WritePreferences
  BY <1>3 DEF WritePreferences, PreferencesFail, ReconcileFails, FailClosedReturns
<1>4. CASE ProxyReplaced \/ TailnetReplaced \/ CapabilityChanges \/ PreferencesEdited
             \/ NftablesFlushed
  BY <1>4 DEF ProxyReplaced, TailnetReplaced, CapabilityChanges, PreferencesEdited,
     NftablesFlushed, Drift
<1>5. ~(UNCHANGED vars)
  BY DEF vars
<1> QED
  BY <1>1, <1>2, <1>3, <1>4, <1>5, Zenon
  DEF Next, Step, BeginPrepare, BeginReconcile, BeginFailClosed, BeginShutdown, FilterReadback,
      planRouting, verifyRouting, PrepareDiscovers, ReadTailnetState, Discover,
      ObservePacketFilter, VerifyRoutingAgain, VerifyFilterAgain, RefreshApprovals,
      PreferencesReadback, liveFailClosedState, ReverifyRecovery, FailClosedReadsPreferences,
      FailClosedAborts, Killed, Restarted, NewProcess

(* The desired routing, or all of it but Exit defaults, backs the subnets. *)
LEMMA DesiredBacksSubnets ==
  ASSUME \/ rt = buildDesiredRouting(snap)
         \/ /\ changes = DiffRouting(buildDesiredRouting(snap), rt)
            /\ onlyExitDefaultRoutesChanged(changes)
  PROVE  /\ HasExitRules(rt)
         /\ \A s \in Subnets : activeRoute("ipv4", "exit", s, Uplink) \in rt.routes
<1> DEFINE goal == buildDesiredRouting(snap)
<1>1. /\ HasExitRules(goal)
      /\ \A s \in Subnets : activeRoute("ipv4", "exit", s, Uplink) \in goal.routes
  BY DesiredServes, Zenon
<1>2. CASE rt = goal
  BY <1>1, <1>2
<1>3. CASE changes = DiffRouting(goal, rt) /\ onlyExitDefaultRoutesChanged(changes)
  <2> HIDE DEF goal
  <2>1. HasExitRules(rt)
    BY <1>1, <1>3, NothingToAdd, MoreRules, Zenon DEF onlyExitDefaultRoutesChanged
  <2>2. ASSUME NEW s \in Subnets PROVE activeRoute("ipv4", "exit", s, Uplink) \in rt.routes
    <3>1. ~isActiveExitDefaultRoute(activeRoute("ipv4", "exit", s, Uplink))
      BY ConfigurationAssumption DEF isActiveExitDefaultRoute, activeRoute
    <3>2. goal.routes \ rt.routes = changes.upsertRoutes
      BY <1>3, DiffParts, Zenon
    <3> QED
      BY <1>1, <1>3, <3>1, <3>2, Zenon DEF onlyExitDefaultRoutesChanged
  <2> QED
    BY <2>1, <2>2
<1> QED
  BY <1>2, <1>3, Zenon

(* What is published is backed when it is written.                         *)
LEMMA PublishStep ==
  ASSUME IInv, [Next]_vars, pc = "publish", prefs' # prefs, ~disturbed'
  PROVE  Backed(prefs')
<1>1. prefs' = PreferencesGoal
  BY WorldSteps
<1>2. CASE site \in {"restored", "clear", "disable"}
  BY <1>1, <1>2, Zenon DEF PreferencesGoal, Backed
<1>3. CASE site \in {"withdraw", "noDrift", "isolated", "global"}
  <2>1. Assured
    BY <1>3, WritesRemember DEF IInv, ServeInv, TypeInv, Control, world
  <2>2. prefs' = desiredPreferences /\ GateOpen(nft)
    BY <1>1, <1>3, <2>1, Zenon DEF PreferencesGoal, Assured, Publishing, desiredPolicy,
       packetFilterPolicy, safetyPacketFilterPolicy, GateOpen
  <2>3. /\ HasExitRules(rt)
        /\ \A s \in Subnets : activeRoute("ipv4", "exit", s, Uplink) \in rt.routes
    BY <1>3, <2>1, DesiredBacksSubnets, Zenon DEF Assured, Ahead, Publishing
  <2>4. prefs' \cap Families # {} => Families \subseteq prefs' /\ ExitDefaults(rt) # {}
    <3>1. CASE snap.active = {}
      BY <2>2, <3>1, FamiliesAreNoSubnets, Zenon DEF desiredPreferences
    <3>2. CASE snap.active # {}
      <4>1. rt = buildDesiredRouting(snap)
        BY <1>3, <2>1, <3>2 DEF Assured, Publishing
      <4> QED
        BY <2>2, <3>2, <4>1, DesiredServes, Zenon DEF desiredPreferences
    <3> QED
      BY <3>1, <3>2
  <2> QED
    BY <2>2, <2>3, <2>4 DEF Backed
<1> QED
  BY <1>2, <1>3 DEF IInv, TypeInv, Control

(* writeAndVerifyTailnetPreferences announces only what the verified data  *)
(* plane serves, on every path of Reconcile and after any history of       *)
(* failures and kills, and failClosed only withdraws.                      *)
THEOREM OnlyBackedIsPublished == Spec => PublishOnlyBacked
<1>1. IInv /\ [Next]_vars =>
        [pc = "publish" /\ prefs' # prefs /\ ~disturbed' => Backed(prefs')]_vars
  BY PublishStep
<1> QED
  BY <1>1, Inductive, PTL DEF Spec, PublishOnlyBacked

(* Where the last default is withdrawn no preference names one.            *)
LEMMA WithdrawStep ==
  ASSUME IInv, [Next]_vars, op = "reconcile", pc = "write", ~disturbed',
         ExitDefaults(rt) # {}, ExitDefaults(rt') = {}, snap.active = {}
  PROVE  prefs \cap Families = {}
<1>1. rt' # rt
  OBVIOUS
<1>2. Assured
  BY <1>1, WritesRemember DEF IInv, ServeInv, TypeInv, world
<1> QED
  BY <1>2, Zenon DEF IInv, TypeInv, Control, Assured

(* applyExitDefaultRouteTransition and the global transaction delete the   *)
(* last active Exit default only when no default is advertised any more.   *)
THEOREM LastDefaultIsWithdrawn == Spec => WithdrawBeforeLastRoute
<1>1. IInv /\ [Next]_vars =>
        [op = "reconcile" /\ pc = "write" /\ ~disturbed'
           /\ ExitDefaults(rt) # {} /\ ExitDefaults(rt') = {} /\ snap.active = {}
         => prefs \cap Families = {}]_vars
  BY WithdrawStep
<1> QED
  BY <1>1, Inductive, PTL DEF Spec, WithdrawBeforeLastRoute

(* Behind an open gate no family is activated over one that is leaving.    *)
LEMMA ActivateStep ==
  ASSUME IInv, [Next]_vars, GateOpen(nft), ~(ExitDefaults(rt') \subseteq ExitDefaults(rt))
  PROVE  ExitDefaults(rt) \subseteq snap.active
<1>1. PICK r \in rt'.routes : isActiveExitDefaultRoute(r) /\ r \notin rt.routes
  BY DEF ExitDefaults
<1>2. pc = "write" /\ rt' = Write(rt, changes).rt
  BY <1>1, WorldSteps, WithoutLinkParts, Zenon DEF IInv, SafeInv, KernelSafe
<1>3. r \in changes.upsertRoutes
  BY <1>1, <1>2, WriteBounds, Zenon DEF IInv, SafeInv, KernelSafe, PlanSafe, Pending
<1>4. op = "reconcile"
  BY <1>1, <1>3 DEF IInv, DefaultsInv, Supported
<1>5. site = "activate"
  BY <1>2, <1>3, <1>4 DEF IInv, TypeInv, Control, DefaultsInv, TransitionInv
<1> QED
  BY <1>5 DEF IInv, DefaultsInv, TransitionInv, Isolated, Covered, ExitDefaults

(* Behind an open gate ApplyRouting installs an Exit default only in the   *)
(* activation part of an isolated transition, whose deactivation part is   *)
(* written and read back, whatever drifts, fails or is killed on the way.  *)
THEOREM DeactivationComesFirst == Spec => DeactivateBeforeActivate
<1>1. IInv /\ [Next]_vars =>
        [GateOpen(nft) /\ ~(ExitDefaults(rt') \subseteq ExitDefaults(rt))
         => ExitDefaults(rt) \subseteq snap.active]_vars
  BY ActivateStep
<1> QED
  BY <1>1, Inductive, PTL DEF Spec, DeactivateBeforeActivate

(* The gate is opened over the desired routing and before the preferences. *)
LEMMA OpenStep ==
  ASSUME IInv, [Next]_vars, ~GateOpen(nft), GateOpen(nft'), ~disturbed'
  PROVE  rt = buildDesiredRouting(snap) /\ prefs = {}
<1>1. pc = "filter" /\ nft' = FilterGoal
  BY WorldSteps
<1>2. site = "open"
  BY <1>1 DEF FilterGoal, packetFilterPolicy, desiredPolicy, safetyPacketFilterPolicy,
     GateOpen, IInv, TypeInv, Control, MemoryOK
<1>3. op = "reconcile" /\ nft' # nft
  BY <1>2 DEF IInv, TypeInv, Control
<1>4. Assured
  BY <1>3, WritesRemember DEF IInv, ServeInv, TypeInv, world
<1> QED
  BY <1>2, <1>4, Zenon DEF Assured

(* The gate is opened by reconcileGlobalDrift alone, over exactly the      *)
(* desired routing and with nothing advertised, whatever the tables held   *)
(* when the process started.                                               *)
THEOREM GateOpensLast == Spec => GateOpensOverConvergedRouting
<1>1. IInv /\ [Next]_vars =>
        [~GateOpen(nft) /\ GateOpen(nft') /\ ~disturbed'
         => rt = buildDesiredRouting(snap) /\ prefs = {}]_vars
  BY OpenStep
<1> QED
  BY <1>1, Inductive, PTL DEF Spec, GateOpensOverConvergedRouting
=============================================================================
