------------------------- MODULE TailnetEventsProofs -------------------------
(***************************************************************************)
(* Proofs about TailnetEvents, for every choice of its constants: the type *)
(* invariant with the range of the retry delay, and that dropping hints    *)
(* loses no change.                                                        *)
(***************************************************************************)
EXTENDS TailnetEvents, TLAPS

(* nextTailnetWatchDelay (controller.go:220-225) doubles the delay up to   *)
(* the maximum, whatever the two are, without exceeding it on the way.     *)
THEOREM DelayDoublesUpToMaximum ==
  ASSUME NEW current \in Nat, NEW maximum \in Nat
  PROVE  nextTailnetWatchDelay(current, maximum)
           = IF 2 * current <= maximum THEN 2 * current ELSE maximum
<1>1. CASE current >= maximum
  BY <1>1 DEF nextTailnetWatchDelay
<1>2. CASE current < maximum /\ current > maximum \div 2
  <2>1. 2 * current > maximum
    BY <1>2
  <2> QED BY <1>2, <2>1 DEF nextTailnetWatchDelay
<1>3. CASE current < maximum /\ ~(current > maximum \div 2)
  <2>1. 2 * current <= maximum
    BY <1>3
  <2> QED BY <1>3, <2>1 DEF nextTailnetWatchDelay
<1> QED BY <1>1, <1>2, <1>3

(* The delay stays in its range when it is increased.                      *)
LEMMA DelayInRange ==
  ASSUME NEW current \in InitialDelay..MaximumDelay
  PROVE  nextTailnetWatchDelay(current, MaximumDelay) \in InitialDelay..MaximumDelay
<1>1. current \in Nat /\ MaximumDelay \in Nat /\ InitialDelay \in Nat
  BY TailnetEventsAssumption
<1>2. nextTailnetWatchDelay(current, MaximumDelay)
        = IF 2 * current <= MaximumDelay THEN 2 * current ELSE MaximumDelay
  BY <1>1, DelayDoublesUpToMaximum
<1> QED BY <1>1, <1>2

(* Every step keeps the types.                                             *)
LEMMA NextTypeOK == TypeOK /\ [Next]_vars => TypeOK'
<1> SUFFICES ASSUME TypeOK, [Next]_vars PROVE TypeOK'
  OBVIOUS
<1> USE DEF TypeOK, Kinds
<1>1. CASE Change
  BY <1>1 DEF Change, fwdVars, chanVars, colVars
<1>2. CASE WatchBreaks
  BY <1>2 DEF WatchBreaks, fwdVars, chanVars, colVars
<1>3. CASE Stop
  BY <1>3 DEF Stop, busVars, fwdVars, chanVars, colVars
<1>4. CASE NextNotification
  BY <1>4 DEF NextNotification, chanVars, colVars, envVars
<1>5. CASE NextFails
  BY <1>5 DEF NextFails, busVars, chanVars, colVars, envVars
<1>6. CASE Report
  BY <1>6 DEF Report, busVars, colVars, envVars
<1>7. CASE Send
  BY <1>7 DEF Send, busVars, colVars, envVars
<1>8. CASE SentAll
  BY <1>8 DEF SentAll, busVars, chanVars, colVars, envVars
<1>9. CASE Close
  BY <1>9 DEF Close, chanVars, colVars, envVars
<1>10. CASE Subscribe
  BY <1>10 DEF Subscribe, InitialNotification, busVars, fwdVars, chanVars
<1>11. CASE Consume
  BY <1>11, ZenonT(60) DEF Consume, busVars, fwdVars, chanVars, envVars
<1>12. CASE Mark
  BY <1>12 DEF Mark, busVars, fwdVars, chanVars, envVars
<1>13. CASE Notify
  BY <1>13 DEF Notify, busVars, fwdVars, chanVars, envVars
<1>14. CASE WatchFailed
  <2>1. retryDelay' \in InitialDelay..MaximumDelay
    BY <1>14, TailnetEventsAssumption DEF WatchFailed
  <2> QED BY <1>14, <2>1 DEF WatchFailed, busVars, fwdVars, chanVars, envVars
<1>15. CASE waitForTailnetWatchRetry
  <2>1. retryDelay' \in InitialDelay..MaximumDelay
    BY <1>15, DelayInRange DEF waitForTailnetWatchRetry
  <2> QED BY <1>15, <2>1 DEF waitForTailnetWatchRetry, busVars, fwdVars, chanVars, envVars
<1>16. CASE LoopEnds
  BY <1>16 DEF LoopEnds, busVars, fwdVars, chanVars, envVars
<1>17. CASE UNCHANGED vars
  BY <1>17 DEF vars, busVars, fwdVars, chanVars, colVars, envVars
<1> QED
  BY <1>1, <1>2, <1>3, <1>4, <1>5, <1>6, <1>7, <1>8, <1>9, <1>10, <1>11, <1>12, <1>13, <1>14,
     <1>15, <1>16, <1>17 DEF Next, Forwarder, Collector

(* Every variable keeps its type; in particular the delay between two      *)
(* openings of the watch stays between the initial and the maximum one.    *)
THEOREM TypeCorrect == Spec => []TypeOK
<1>1. Init => TypeOK
  <2>1. InitialDelay \in InitialDelay..MaximumDelay
    BY TailnetEventsAssumption
  <2> QED BY <2>1 DEF Init, TypeOK
<1> QED BY <1>1, NextTypeOK, PTL DEF Spec

(* A change that was not marked yet stays on its way.                      *)
LEMMA NextInFlight ==
  TypeOK /\ UnmarkedChangeInFlight /\ [Next]_vars => UnmarkedChangeInFlight'
<1> SUFFICES ASSUME TypeOK, UnmarkedChangeInFlight, [Next]_vars
             PROVE  UnmarkedChangeInFlight'
  OBVIOUS
<1> USE DEF UnmarkedChangeInFlight
<1>1. CASE Change
  BY <1>1 DEF Change, TypeOK, fwdVars, chanVars, colVars
<1>2. CASE WatchBreaks
  BY <1>2 DEF WatchBreaks
<1>3. CASE Stop
  BY <1>3 DEF Stop
<1>4. CASE NextNotification
  BY <1>4 DEF NextNotification, chanVars, colVars, envVars
<1>5. CASE NextFails
  BY <1>5 DEF NextFails, busVars, chanVars, colVars, envVars
<1>6. CASE Report
  BY <1>6 DEF Report, busVars, colVars, envVars
<1>7. CASE Send
  BY <1>7 DEF Send, busVars, colVars, envVars
<1>8. CASE SentAll
  BY <1>8 DEF SentAll, busVars, chanVars, colVars, envVars
<1>9. CASE Close
  BY <1>9 DEF Close
<1>10. CASE Subscribe
  BY <1>10 DEF Subscribe, InitialNotification
<1>11. CASE Consume
  BY <1>11 DEF Consume, busVars, fwdVars, chanVars, envVars
<1>12. CASE Mark
  BY <1>12 DEF Mark
<1>13. CASE Notify
  BY <1>13 DEF Notify, busVars, fwdVars, chanVars, envVars
<1>14. CASE WatchFailed
  BY <1>14 DEF WatchFailed
<1>15. CASE waitForTailnetWatchRetry
  BY <1>15 DEF waitForTailnetWatchRetry
<1>16. CASE LoopEnds
  BY <1>16 DEF LoopEnds
<1>17. CASE UNCHANGED vars
  BY <1>17 DEF vars, busVars, fwdVars, chanVars, colVars, envVars
<1> QED
  BY <1>1, <1>2, <1>3, <1>4, <1>5, <1>6, <1>7, <1>8, <1>9, <1>10, <1>11, <1>12, <1>13, <1>14,
     <1>15, <1>16, <1>17 DEF Next, Forwarder, Collector

(* Whatever the interleaving of notifications, drops, receives, breaks and *)
(* reopenings, an unmarked change has a hint under way while its watch     *)
(* lives (events.go:62-69, controller.go:180-190).                         *)
THEOREM NoChangeIsLost == Spec => []UnmarkedChangeInFlight
<1>1. Init => UnmarkedChangeInFlight
  BY DEF Init, UnmarkedChangeInFlight
<1> QED BY <1>1, NextInFlight, TypeCorrect, PTL DEF Spec
=============================================================================
