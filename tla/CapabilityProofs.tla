-------------------------- MODULE CapabilityProofs --------------------------
(***************************************************************************)
(* The Tracker for every set of links, every interval and every pair of    *)
(* thresholds: its counters stay within them, its snapshots are valid, a   *)
(* family that is not served is reported, and what the counters conclude   *)
(* is what the history of probes through the present link says.            *)
(***************************************************************************)
EXTENDS Capability, TLAPS, SequenceTheorems, WellFoundedInduction

USE DEF Families

(* What the Tracker keeps about one family.                                *)
FamilyStateType ==
  [capability : CapabilityType,
   successCount : 0..SuccessThreshold, failureCount : 0..FailureThreshold]

(* saturatingIncrement stays within its maximum.                           *)
LEMMA SaturatingIncrement ==
  ASSUME NEW maximum \in Nat, NEW value \in 0..maximum
  PROVE  saturatingIncrement(value, maximum) \in 0..maximum
BY DEF saturatingIncrement

(* familyState{}, the state before any probe and after resetForLink.       *)
LEMMA ZeroFamilyState ==
  /\ familyState \in FamilyStateType
  /\ Validate(familyState.capability)
BY TrackerAssumption
   DEF familyState, Uninitialized, FamilyStateType, CapabilityType, Validate

(* One observation keeps a family's state well typed and valid.            *)
LEMMA ObservationFacts ==
  ASSUME NEW s \in FamilyStateType, NEW succeeded \in BOOLEAN, NEW at \in Nat \ {0},
         Validate(s.capability)
  PROVE  /\ applyObservation(s, succeeded, at) \in FamilyStateType
         /\ Validate(applyObservation(s, succeeded, at).capability)
<1>0. /\ SuccessThreshold \in Nat /\ FailureThreshold \in Nat
      /\ ProbeValidity \in Nat \ {0}
  BY TrackerAssumption
<1> DEFINE up   == saturatingIncrement(s.successCount, SuccessThreshold)
           down == saturatingIncrement(s.failureCount, FailureThreshold)
<1>1. up \in 0..SuccessThreshold /\ down \in 0..FailureThreshold
  BY <1>0, SaturatingIncrement DEF FamilyStateType
<1> HIDE DEF up, down
<1>2. CASE succeeded
  <2>1. succeed(s, at) \in FamilyStateType
    BY <1>0, <1>1 DEF succeed, FamilyStateType, CapabilityType, up
  <2>2. Validate(succeed(s, at).capability)
    BY <1>0, <1>1 DEF succeed, FamilyStateType, CapabilityType, Validate, up
  <2> QED
    BY <1>2, <2>1, <2>2 DEF applyObservation
<1>3. CASE ~succeeded
  <2>1. fail(s, at) \in FamilyStateType
    BY <1>0, <1>1 DEF fail, FamilyStateType, CapabilityType, down
  <2>2. Validate(fail(s, at).capability)
    BY <1>0, <1>1 DEF fail, FamilyStateType, CapabilityType, Validate, down
  <2> QED
    BY <1>3, <2>1, <2>2 DEF applyObservation
<1> QED
  BY <1>2, <1>3

-----------------------------------------------------------------------------
(* The conjunction is inductive: ApplyObservations needs the types of what *)
(* it updates, and types alone do not say that a snapshot is valid.        *)
TrackerInv == TypeOK /\ SnapshotValid

(* A new Tracker knows nothing.                                            *)
LEMMA InitTrackerInv == Init => TrackerInv
<1> SUFFICES ASSUME Init PROVE TrackerInv
  OBVIOUS
<1>1. \A f \in Families : state[f] = familyState
  BY DEF Init
<1>2. state \in [Families -> FamilyStateType]
  BY ZeroFamilyState DEF Init
<1> QED
  BY <1>1, <1>2, ZeroFamilyState
     DEF Init, TrackerInv, TypeOK, SnapshotValid, FamilyStateType

(* Observations, resets and evaluations keep the Tracker valid.            *)
LEMMA NextTrackerInv == TrackerInv /\ [Next]_vars => TrackerInv'
<1> SUFFICES ASSUME TrackerInv, [Next]_vars PROVE TrackerInv'
  OBVIOUS
<1> USE DEF TrackerInv
<1>0. state \in [Families -> FamilyStateType]
  BY DEF TypeOK, FamilyStateType
<1>1. CASE Observe
  <2>1. PICK l \in Links : link' = l /\ resetForLink(l)
    BY <1>1 DEF Observe
  <2>2. /\ state' \in [Families -> FamilyStateType] /\ lastProbe' \in Nat /\ proxyLink' = l
        /\ \A f \in Families : Validate(state'[f].capability)
    <3>1. CASE proxyLink = l
      BY <1>0, <2>1, <3>1 DEF resetForLink, TypeOK, SnapshotValid
    <3>2. CASE proxyLink # l
      <4>1. state' = [f \in Families |-> familyState] /\ lastProbe' = 0 /\ proxyLink' = l
        BY <2>1, <3>2 DEF resetForLink
      <4> QED
        BY <4>1, ZeroFamilyState
    <3> QED
      BY <3>1, <3>2
  <2>3. pc' \in {"idle", "probing", "observed"} /\ readAt' = now /\ UNCHANGED <<now, result>>
    BY <1>1 DEF Observe
  <2> QED
    BY <2>1, <2>2, <2>3 DEF TypeOK, SnapshotValid, FamilyStateType, result
<1>2. ASSUME NEW ok \in SUBSET Families, ApplyObservations(ok)
      PROVE  TrackerInv'
  <2>1. state' = [f \in Families |-> applyObservation(state[f], f \in ok, now)]
    BY <1>2 DEF ApplyObservations
  <2>2. ASSUME NEW f \in Families
        PROVE  state'[f] \in FamilyStateType /\ Validate(state'[f].capability)
    <3>1. state[f] \in FamilyStateType /\ Validate(state[f].capability) /\ now \in Nat \ {0}
      BY <1>0 DEF TypeOK, SnapshotValid
    <3>2. (f \in ok) \in BOOLEAN
      OBVIOUS
    <3>3. state'[f] = applyObservation(state[f], f \in ok, now)
      BY <2>1
    <3> HIDE DEF Families
    <3> QED
      BY <3>1, <3>2, <3>3, ObservationFacts
  <2>3. state' \in [Families -> FamilyStateType]
    BY <2>1, <2>2
  <2>4. /\ pc' \in {"idle", "observed"} /\ lastProbe' = now /\ readAt' = now
        /\ UNCHANGED <<now, proxyLink, link, result>>
    BY <1>2 DEF ApplyObservations
  <2> QED
    BY <2>2, <2>3, <2>4 DEF TypeOK, SnapshotValid, FamilyStateType, result
<1>3. CASE Inconclusive
  BY <1>3 DEF Inconclusive, TypeOK, SnapshotValid, tracker, result
<1>4. CASE evaluateInternetCapability
  <2>1. active' \subseteq Families /\ conditions' \subseteq Families
    BY <1>4 DEF evaluateInternetCapability, AvailableExitDefaultRoutes, TypeOK, result
  <2>2. /\ pc' \in {"idle", "evaluated"} /\ readAt' = now
        /\ UNCHANGED <<now, tracker, link>>
    BY <1>4 DEF evaluateInternetCapability
  <2> QED
    BY <2>1, <2>2 DEF TypeOK, SnapshotValid, tracker
<1>5. CASE PassEnds
  BY <1>5 DEF PassEnds, TypeOK, SnapshotValid, tracker
<1>6. CASE Clock
  <2>1. now' \in Nat \ {0}
    BY <1>6, TrackerAssumption DEF Clock
  <2> QED
    BY <1>6, <2>1 DEF Clock, TypeOK, SnapshotValid, tracker, result
<1>7. CASE UNCHANGED vars
  BY <1>7 DEF vars, TypeOK, SnapshotValid, tracker, result
<1> QED
  BY <1>1, <1>2, <1>3, <1>4, <1>5, <1>6, <1>7 DEF Next

(* In every order of probes, cancellations, link changes and clock steps   *)
(* the Tracker's fields have their types, with the counters bounded by the *)
(* thresholds of the configuration.                                        *)
THEOREM TrackerTypeCorrect == Spec => []TypeOK
<1>1. TrackerInv => TypeOK
  BY DEF TrackerInv
<1> QED
  BY <1>1, InitTrackerInv, NextTrackerInv, PTL DEF Spec

(* No snapshot of the Tracker's own making is rejected by Validate, so     *)
(* neither Observe nor evaluateInternetCapability fails a pass over one.   *)
THEOREM SnapshotsValid == Spec => []SnapshotValid
<1>1. TrackerInv => SnapshotValid
  BY DEF TrackerInv
<1> QED
  BY <1>1, InitTrackerInv, NextTrackerInv, PTL DEF Spec

-----------------------------------------------------------------------------
(* A family is fresh exactly if conditionKind has nothing to report.       *)
LEMMA FreshOrReported ==
  ASSUME NEW c, NEW at
  PROVE  Fresh(c, at) <=> conditionKind(c, at) = ""
BY DEF conditionKind, Fresh

(* evaluateInternetCapability serves or reports, and what follows it keeps *)
(* both.                                                                   *)
LEMMA NextInactiveIsReported == InactiveIsReported /\ [Next]_vars => InactiveIsReported'
<1> SUFFICES ASSUME InactiveIsReported, [Next]_vars, pc' = "evaluated"
             PROVE  conditions' = Families \ active'
  BY DEF InactiveIsReported
<1>1. CASE evaluateInternetCapability
  <2>1. /\ active' = {f \in Families : Fresh(state[f].capability, now)}
        /\ conditions' = {f \in Families : conditionKind(state[f].capability, now) # ""}
    BY <1>1 DEF evaluateInternetCapability, AvailableExitDefaultRoutes
  <2> QED
    BY <2>1, FreshOrReported
<1>2. CASE Clock
  BY <1>2 DEF Clock, InactiveIsReported, result
<1>3. CASE UNCHANGED vars
  BY <1>3 DEF vars, InactiveIsReported, result
<1> QED
  BY <1>1, <1>2, <1>3
     DEF Next, Observe, ApplyObservations, Inconclusive, PassEnds

(* Every family is either served or reported as a condition, so that a     *)
(* gateway that leaves one out never reports itself fully ready.           *)
THEOREM ReportedOrServed == Spec => []InactiveIsReported
<1>1. Init => InactiveIsReported
  BY DEF Init, InactiveIsReported
<1> QED
  BY <1>1, NextInactiveIsReported, PTL DEF Spec

-----------------------------------------------------------------------------
(* The Tracker's counters against the history of probes.                   *)

Entries == [link : Links, probe : BOOLEAN, at : Nat, ok : [Families -> BOOLEAN]]

(* The log ends on the Tracker's link, an entry without a probe separates  *)
(* two links, and a pass under way is on the Tracker's link.               *)
LogOK ==
  /\ log \in Seq(Entries)
  /\ Len(log) > 0 => log[Len(log)].link = proxyLink
  /\ \A j \in 2..Len(log) : ~log[j].probe => log[j].link # log[j - 1].link
  /\ pc # "idle" => link = proxyLink /\ link \in Links

(* The last count probes had the outcome ok, and, below the threshold, no  *)
(* more than these.                                                        *)
Trailing(f, ok, count, threshold) ==
  /\ count <= Len(log)
  /\ \A j \in (Len(log) - count + 1)..Len(log) : j \in Probes /\ log[j].ok[f] = ok
  /\ count < threshold =>
       ~(Len(log) - count \in Probes /\ log[Len(log) - count].ok[f] = ok)

Counted ==
  \A f \in Families :
    /\ Trailing(f, TRUE, state[f].successCount, SuccessThreshold)
    /\ Trailing(f, FALSE, state[f].failureCount, FailureThreshold)

(* ConcludesFromHistory says what the counters have led to; what they will *)
(* lead to depends on what they count.                                     *)
HistoryInv == TrackerInv /\ LogOK /\ Counted /\ ConcludesFromHistory

(* The log after an entry was appended.                                    *)
Appends(e) == log' = Append(log, e)

(* The log before and after an entry.                                      *)
LEMMA AppendFacts ==
  ASSUME LogOK, NEW e \in Entries, Appends(e)
  PROVE  /\ Len(log) \in Nat /\ DOMAIN log = 1..Len(log)
         /\ log' \in Seq(Entries) /\ Len(log') = Len(log) + 1
         /\ DOMAIN log' = 1..(Len(log) + 1)
         /\ \A j \in 1..Len(log) : log'[j] = log[j]
         /\ log'[Len(log) + 1] = e
BY AppendProperties, LenProperties DEF LogOK, Appends

(* The probes through the present link are the end of the log.             *)
LEMMA ProbesAreRecent ==
  ASSUME LogOK, NEW i \in Probes, NEW j \in i..Len(log)
  PROVE  j \in Probes
<1>0. Len(log) \in Nat /\ DOMAIN log = 1..Len(log)
  BY LenProperties DEF LogOK
<1>1. /\ i \in 1..Len(log) /\ log[i].probe
      /\ \A k \in i..Len(log) : log[k].link = log[i].link
  BY <1>0 DEF Probes
<1>2. j \in 1..Len(log) /\ \A k \in j..Len(log) : log[k].link = log[j].link
  BY <1>0, <1>1
<1>3. CASE j = i
  BY <1>3
<1>4. CASE j # i
  <2>1. j \in 2..Len(log) /\ j - 1 \in i..Len(log)
    BY <1>0, <1>1, <1>4
  <2>2. log[j].link = log[j - 1].link
    BY <1>1, <2>1
  <2>3. log[j].probe
    BY <2>1, <2>2 DEF LogOK
  <2> QED BY <1>0, <1>2, <2>3 DEF Probes
<1> QED BY <1>3, <1>4

(* Every probe that counts went through the Tracker's link.                *)
LEMMA ProbesOfLink ==
  ASSUME LogOK, NEW i \in Probes PROVE log[i].link = proxyLink
<1>0. Len(log) \in Nat /\ DOMAIN log = 1..Len(log)
  BY LenProperties DEF LogOK
<1>1. i \in 1..Len(log) /\ \A k \in i..Len(log) : log[k].link = log[i].link
  BY <1>0 DEF Probes
<1>2. Len(log) > 0 /\ Len(log) \in i..Len(log)
  BY <1>0, <1>1
<1> QED BY <1>1, <1>2 DEF LogOK

(* A probe through the present link joins them.                            *)
LEMMA ProbeAppended ==
  ASSUME LogOK, NEW e \in Entries, e.probe, e.link = proxyLink, Appends(e)
  PROVE  Probes' = Probes \cup {Len(log) + 1}
<1> DEFINE n == Len(log)
<1>0. /\ n \in Nat /\ DOMAIN log = 1..n /\ Len(log') = n + 1 /\ DOMAIN log' = 1..(n + 1)
      /\ \A j \in 1..n : log'[j] = log[j]
      /\ log'[n + 1] = e
  BY AppendFacts
<1> HIDE DEF n
<1>1. ASSUME NEW i \in Probes', i # n + 1
      PROVE  i \in Probes
  <2>1. /\ i \in 1..(n + 1) /\ log'[i].probe
        /\ \A j \in i..(n + 1) : log'[j].link = log'[i].link
    BY <1>0 DEF Probes
  <2>2. i \in 1..n /\ \A j \in i..n : j \in i..(n + 1) /\ j \in 1..n
    BY <1>0, <1>1, <2>1
  <2>3. log[i].probe /\ \A j \in i..n : log[j].link = log[i].link
    BY <1>0, <2>1, <2>2
  <2> QED BY <1>0, <2>2, <2>3 DEF Probes, n
<1>2. n + 1 \in Probes'
  <2>1. \A j \in (n + 1)..(n + 1) : j = n + 1
    BY <1>0
  <2> QED BY <1>0, <2>1 DEF Probes
<1>3. ASSUME NEW i \in Probes
      PROVE  i \in Probes'
  <2>1. /\ i \in 1..n /\ log[i].probe
        /\ \A j \in i..n : log[j].link = log[i].link
    BY <1>0 DEF Probes, n
  <2>2. log[i].link = e.link
    BY ProbesOfLink
  <2>3. \A j \in i..(n + 1) : j = n + 1 \/ (j \in i..n /\ j \in 1..n)
    BY <1>0, <2>1
  <2>4. \A j \in i..(n + 1) : log'[j].link = log'[i].link
    BY <1>0, <2>1, <2>2, <2>3
  <2>5. i \in 1..(n + 1) /\ log'[i].probe
    BY <1>0, <2>1
  <2> QED BY <1>0, <2>4, <2>5 DEF Probes
<1> QED BY <1>1, <1>2, <1>3, Zenon DEF n

(* A change of link leaves none.                                           *)
LEMMA LinkAppended ==
  ASSUME LogOK, NEW e \in Entries, ~e.probe, e.link # proxyLink, Appends(e)
  PROVE  Probes' = {}
<1> SUFFICES ASSUME NEW i \in Probes' PROVE FALSE
  BY Zenon
<1> DEFINE n == Len(log)
<1>0. /\ n \in Nat /\ Len(log') = n + 1 /\ DOMAIN log' = 1..(n + 1)
      /\ \A j \in 1..n : log'[j] = log[j]
      /\ log'[n + 1] = e
  BY AppendFacts
<1> HIDE DEF n
<1>1. /\ i \in 1..(n + 1) /\ log'[i].probe
      /\ \A j \in i..(n + 1) : log'[j].link = log'[i].link
  BY <1>0 DEF Probes
<1>2. i # n + 1
  BY <1>0, <1>1
<1>3. n > 0 /\ n \in 1..n /\ n \in i..(n + 1) /\ n + 1 \in i..(n + 1)
  BY <1>0, <1>1, <1>2
<1>4. log[n].link = e.link
  BY <1>0, <1>1, <1>3
<1> QED BY <1>3, <1>4 DEF LogOK, n

-----------------------------------------------------------------------------
(* A run that ends at i began threshold - 1 probes earlier.                *)
LEMMA RunsMean ==
  ASSUME NEW f, NEW ok, NEW threshold \in Nat, NEW i \in Int, Probes \subseteq Int
  PROVE  i \in Runs(f, ok, threshold) <=>
           /\ i \in Probes /\ i - threshold + 1 \in Probes
           /\ \A j \in (i - threshold + 1)..i : log[j].ok[f] = ok
<1>1. \A first \in Probes : first + threshold - 1 = i <=> first = i - threshold + 1
  OBVIOUS
<1> QED BY <1>1 DEF Runs

(* A run is completed by a probe whose outcome the counter has counted up  *)
(* to the threshold.                                                       *)
LEMMA RunsAppended ==
  ASSUME LogOK, NEW e \in Entries, e.probe, e.link = proxyLink, Appends(e),
         NEW f \in Families, NEW ok \in BOOLEAN, NEW threshold \in Nat \ {0},
         NEW count \in 0..threshold, Trailing(f, ok, count, threshold)
  PROVE  Runs(f, ok, threshold)' =
           IF e.ok[f] = ok /\ count + 1 >= threshold
           THEN Runs(f, ok, threshold) \cup {Len(log) + 1}
           ELSE Runs(f, ok, threshold)
<1> DEFINE n == Len(log)
           start(i) == i - threshold + 1
<1>0. /\ n \in Nat /\ DOMAIN log = 1..n
      /\ \A j \in 1..n : log'[j] = log[j]
      /\ log'[n + 1] = e
  BY AppendFacts
<1>1. Probes' = Probes \cup {n + 1} /\ Probes \subseteq 1..n
  BY <1>0, ProbeAppended DEF Probes
<1>2. \A i \in Int : /\ start(i) \in Int
                     /\ i \in Runs(f, ok, threshold) <=>
                          /\ i \in Probes /\ start(i) \in Probes
                          /\ \A j \in start(i)..i : log[j].ok[f] = ok
  BY <1>0, <1>1, RunsMean
<1>3. \A i \in Int : i \in Runs(f, ok, threshold)' <=>
                       /\ i \in Probes' /\ start(i) \in Probes'
                       /\ \A j \in start(i)..i : log'[j].ok[f] = ok
  <2> SUFFICES ASSUME NEW i \in Int
               PROVE  i \in Runs(f, ok, threshold)' <=>
                       /\ i \in Probes' /\ start(i) \in Probes'
                       /\ \A j \in start(i)..i : log'[j].ok[f] = ok
    BY Zenon
  <2>1. \A first \in Probes' : first + threshold - 1 = i <=> first = start(i)
    BY <1>0, <1>1
  <2> QED BY <2>1 DEF Runs
<1>4. \A i \in 1..n : start(i) <= i
  BY <1>0
<1>5. ASSUME NEW i \in 1..n
      PROVE  i \in Runs(f, ok, threshold)' <=> i \in Runs(f, ok, threshold)
  <2>1. i \in Int /\ start(i) \in Int /\ i # n + 1 /\ start(i) # n + 1
    BY <1>0, <1>4
  <2>2. (i \in Probes' <=> i \in Probes) /\ (start(i) \in Probes' <=> start(i) \in Probes)
    BY <1>1, <2>1
  <2>3. ASSUME start(i) \in Probes
        PROVE  \A j \in start(i)..i : log'[j] = log[j]
    <3>1. \A j \in start(i)..i : j \in 1..n
      BY <1>0, <1>1, <2>1, <2>3
    <3> QED BY <1>0, <3>1
  <2> HIDE DEF start
  <2> QED BY <1>2, <1>3, <2>1, <2>2, <2>3
<1> HIDE DEF n
<1>6. ASSUME n + 1 \in Runs(f, ok, threshold)'
      PROVE  e.ok[f] = ok /\ count + 1 >= threshold
  <2>1. /\ start(n + 1) \in Probes'
        /\ \A j \in start(n + 1)..(n + 1) : log'[j].ok[f] = ok
    <3>1. n + 1 \in Int
      BY <1>0
    <3> HIDE DEF start
    <3> QED BY <1>3, <1>6, <3>1, Zenon
  <2>2. e.ok[f] = ok
    BY <1>0, <2>1
  <2>3. ASSUME count + 1 < threshold
        PROVE  FALSE
    <3>1. /\ start(n + 1) \in Int /\ start(n + 1) <= n - count /\ n - count \in Int
          /\ n - count <= n
      BY <1>0, <2>3
    <3>2. start(n + 1) \in Probes
      BY <1>0, <1>1, <2>1, <3>1
    <3>3. n - count \in start(n + 1)..n /\ n - count \in start(n + 1)..(n + 1) /\ n - count \in 1..n
      BY <1>0, <1>1, <3>1, <3>2
    <3>4. n - count \in Probes
      BY <3>2, <3>3, ProbesAreRecent DEF n
    <3>5. log[n - count].ok[f] = ok
      BY <1>0, <2>1, <3>3
    <3> QED BY <2>3, <3>4, <3>5 DEF Trailing, n
  <2> QED BY <2>2, <2>3
<1>7. ASSUME e.ok[f] = ok, count + 1 >= threshold
      PROVE  n + 1 \in Runs(f, ok, threshold)'
  <2>1. \A j \in start(n + 1)..(n + 1) : j = n + 1 \/ j \in (n - count + 1)..n
    BY <1>0, <1>7
  <2>2. \A j \in (n - count + 1)..n : j \in Probes /\ log[j].ok[f] = ok
    BY DEF Trailing, n
  <2>3. \A j \in start(n + 1)..(n + 1) : j \in Probes' /\ log'[j].ok[f] = ok
    BY <1>0, <1>1, <1>7, <2>1, <2>2
  <2>4. start(n + 1) \in start(n + 1)..(n + 1) /\ n + 1 \in start(n + 1)..(n + 1)
    BY <1>0
  <2>5. n + 1 \in Int
    BY <1>0
  <2> HIDE DEF start
  <2> QED BY <1>3, <2>3, <2>4, <2>5, Zenon
<1>8. Runs(f, ok, threshold) \subseteq 1..n /\ Runs(f, ok, threshold)' \subseteq 1..n \cup {n + 1}
  BY <1>1 DEF Runs
<1> HIDE DEF start
<1>9. CASE e.ok[f] = ok /\ count + 1 >= threshold
  <2>1. Runs(f, ok, threshold)' = Runs(f, ok, threshold) \cup {n + 1}
    BY <1>5, <1>7, <1>8, <1>9, Zenon
  <2> QED BY <1>9, <2>1, Zenon DEF n
<1>10. CASE ~(e.ok[f] = ok /\ count + 1 >= threshold)
  <2>1. Runs(f, ok, threshold)' = Runs(f, ok, threshold)
    BY <1>5, <1>6, <1>8, <1>10, Zenon
  <2> QED BY <1>10, <2>1, Zenon
<1> QED BY <1>9, <1>10, Zenon

(* Trailing after the step, of a count that is already the new one.        *)
TrailingNext(f, ok, count, threshold) ==
  /\ count <= Len(log')
  /\ \A j \in (Len(log') - count + 1)..Len(log') : j \in Probes' /\ log'[j].ok[f] = ok
  /\ count < threshold =>
       ~(Len(log') - count \in Probes' /\ log'[Len(log') - count].ok[f] = ok)

(* saturatingIncrement and its reset count what Trailing says.             *)
LEMMA TrailingAppended ==
  ASSUME LogOK, NEW e \in Entries, e.probe, e.link = proxyLink, Appends(e),
         NEW f \in Families, NEW ok \in BOOLEAN, NEW threshold \in Nat \ {0},
         NEW count \in 0..threshold, Trailing(f, ok, count, threshold),
         NEW next, e.ok[f] = ok => next = saturatingIncrement(count, threshold),
         e.ok[f] # ok => next = 0
  PROVE  TrailingNext(f, ok, next, threshold)
<1> DEFINE n    == Len(log)
           last == Len(log')
<1>0. /\ n \in Nat /\ DOMAIN log = 1..n /\ last = n + 1
      /\ \A j \in 1..n : log'[j] = log[j]
      /\ log'[n + 1] = e
  BY AppendFacts
<1>1. Probes' = Probes \cup {n + 1} /\ Probes \subseteq 1..n
  BY <1>0, ProbeAppended DEF Probes
<1>2. /\ count <= n
      /\ \A j \in (n - count + 1)..n : j \in Probes /\ log[j].ok[f] = ok
      /\ count < threshold => ~(n - count \in Probes /\ log[n - count].ok[f] = ok)
  BY DEF Trailing
<1> SUFFICES /\ next <= last
             /\ \A j \in (last - next + 1)..last : j \in Probes' /\ log'[j].ok[f] = ok
             /\ next < threshold =>
                  ~(last - next \in Probes' /\ log'[last - next].ok[f] = ok)
  BY Zenon DEF TrailingNext
<1> HIDE DEF n, last
<1>3. CASE e.ok[f] = ok
  <2>1. next \in 0..(count + 1) /\ (next < threshold => next = count + 1)
    BY <1>3 DEF saturatingIncrement
  <2>2. \A j \in (last - next + 1)..last : j = n + 1 \/ j \in (n - count + 1)..n
    BY <1>0, <2>1
  <2>3. \A j \in (last - next + 1)..last : j \in Probes' /\ log'[j].ok[f] = ok
    BY <1>0, <1>1, <1>2, <1>3, <2>2
  <2>4. ASSUME next < threshold
        PROVE  ~(last - next \in Probes' /\ log'[last - next].ok[f] = ok)
    <3>1. last - next = n - count /\ n - count # n + 1
      BY <1>0, <2>1, <2>4
    <3>2. count < threshold
      BY <2>1, <2>4
    <3>3. n - count \in Probes => log'[n - count] = log[n - count]
      BY <1>0, <1>1
    <3> QED BY <1>1, <1>2, <3>1, <3>2, <3>3
  <2>5. next <= last
    BY <1>0, <1>2, <2>1
  <2> QED BY <2>3, <2>4, <2>5, Zenon
<1>4. CASE e.ok[f] # ok
  <2>1. next = 0 /\ next <= last /\ last - next = n + 1
    BY <1>0, <1>4
  <2>2. \A j \in (last - next + 1)..last : FALSE
    BY <1>0, <2>1
  <2>3. log'[last - next].ok[f] # ok
    BY <1>0, <1>4, <2>1
  <2> QED BY <2>1, <2>2, <2>3, Zenon
<1> QED BY <1>3, <1>4, Zenon

-----------------------------------------------------------------------------
(* A set of places in the log has a last one.                              *)
LEMMA LatestIsLast ==
  ASSUME NEW n \in Nat, NEW S \in SUBSET (1..n), S # {}
  PROVE  Latest(S) \in S /\ \A j \in S : j <= Latest(S)
<1> DEFINE Less == {p \in Nat \X Nat : p[1] < p[2]}
           T    == {n - i : i \in S}
<1>1. IsWellFoundedOn(Less, Nat)
  BY NatLessThanWellFounded, Zenon DEF OpToRel
<1>2. \A x, y \in Nat : ~(<<x, y>> \in Less) => y <= x
  OBVIOUS
<1>3. T \subseteq Nat /\ T # {}
  <2>1. \A i \in S : n - i \in Nat
    OBVIOUS
  <2> QED BY <2>1, Zenon
<1> HIDE DEF Less, T
<1>4. PICK m \in T : \A x \in T : ~(<<x, m>> \in Less)
  BY <1>1, <1>3, WFMin, Zenon
<1>5. PICK i \in S : m = n - i
  BY DEF T
<1>6. ASSUME NEW j \in S
      PROVE  j <= i
  <2>1. n - j \in T /\ n - j \in Nat /\ m \in Nat
    BY <1>3 DEF T
  <2>2. m <= n - j
    BY <1>2, <1>4, <2>1
  <2> QED BY <1>5, <2>2
<1>7. \E k \in S : \A j \in S : j <= k
  BY <1>6
<1> QED BY <1>7 DEF Latest

(* A conclusion is drawn at an entry of the log.                           *)
LEMMA ConclusionsInLog ==
  ASSUME LogOK, NEW f
  PROVE  Len(log) \in Nat /\ Conclusions(f) \subseteq 1..Len(log)
BY LenProperties DEF LogOK, Conclusions, Runs, Probes

(* Nothing new is concluded ...                                            *)
LEMMA ConclusionStays ==
  ASSUME LogOK, NEW e \in Entries, Appends(e), NEW f \in Families,
         Conclusions(f)' = Conclusions(f)
  PROVE  Expected(f)' = Expected(f)
<1>1. Len(log) \in Nat /\ \A j \in 1..Len(log) : log'[j] = log[j]
  BY AppendFacts
<1>2. CASE Conclusions(f) = {}
  BY <1>2 DEF Expected
<1>3. CASE Conclusions(f) # {}
  <2>1. Latest(Conclusions(f)) \in 1..Len(log)
    BY <1>3, ConclusionsInLog, LatestIsLast
  <2>2. log'[Latest(Conclusions(f))] = log[Latest(Conclusions(f))]
    BY <1>1, <2>1
  <2>3. Latest(Conclusions(f)') = Latest(Conclusions(f))
    BY Zenon
  <2> QED BY <1>3, <2>2, <2>3 DEF Expected
<1> QED BY <1>2, <1>3

(* ... or the new entry is the last conclusion.                            *)
LEMMA ConclusionIsNew ==
  ASSUME LogOK, NEW e \in Entries, Appends(e), NEW f \in Families,
         Conclusions(f)' \subseteq 1..(Len(log) + 1), Len(log) + 1 \in Conclusions(f)'
  PROVE  Expected(f)' = [initialized |-> TRUE, available |-> e.ok[f], observedAt |-> e.at,
                         validUntil |-> IF e.ok[f] THEN e.at + ProbeValidity ELSE 0]
<1> DEFINE S == Conclusions(f)'
<1>1. Len(log) \in Nat /\ log'[Len(log) + 1] = e
  BY AppendFacts
<1>2. Latest(S) \in S /\ \A j \in S : j <= Latest(S)
  <2>1. Len(log) + 1 \in Nat /\ S \in SUBSET (1..(Len(log) + 1)) /\ S # {}
    BY <1>1
  <2> HIDE DEF S
  <2> QED BY <2>1, LatestIsLast
<1>3. Latest(S) = Len(log) + 1
  <2>1. Latest(S) \in 1..(Len(log) + 1) /\ Len(log) + 1 <= Latest(S)
    BY <1>2
  <2> QED BY <1>1, <2>1
<1>4. Conclusions(f)' # {} /\ Latest(Conclusions(f)') = Len(log) + 1
  BY <1>2, <1>3, Zenon
<1> HIDE DEF S
<1> QED BY <1>1, <1>4, Zenon DEF Expected

-----------------------------------------------------------------------------
(* A probe, or a change of link, keeps the log in order.                   *)
LEMMA LogAppended ==
  ASSUME LogOK, NEW e \in Entries, Appends(e), e.probe \/ e.link # proxyLink,
         proxyLink' = e.link, link' = proxyLink'
  PROVE  LogOK'
<1> DEFINE n == Len(log)
<1>0. /\ n \in Nat /\ log' \in Seq(Entries) /\ Len(log') = n + 1
      /\ \A j \in 1..n : log'[j] = log[j]
      /\ log'[n + 1] = e
  BY AppendFacts
<1>1. n > 0 => log[n].link = proxyLink
  BY DEF LogOK
<1>2. \A j \in 2..n : ~log[j].probe => log[j].link # log[j - 1].link
  BY DEF LogOK
<1> HIDE DEF n
<1>3. ASSUME NEW j \in 2..(n + 1), ~log'[j].probe
      PROVE  log'[j].link # log'[j - 1].link
  <2>1. CASE j = n + 1
    <3>1. n > 0 /\ n \in 1..n /\ j - 1 = n
      BY <1>0, <2>1
    <3> QED BY <1>0, <1>1, <1>3, <2>1, <3>1
  <2>2. CASE j # n + 1
    <3>1. j \in 2..n /\ j \in 1..n /\ j - 1 \in 1..n
      BY <1>0, <2>2
    <3> QED BY <1>0, <1>2, <1>3, <3>1
  <2> QED BY <2>1, <2>2
<1>4. link' \in Links
  BY DEF Entries
<1> QED BY <1>0, <1>3, <1>4 DEF LogOK

(* succeed and fail against what the log says after the probe.             *)
LEMMA FamilyStep ==
  ASSUME LogOK, NEW e \in Entries, e.probe, e.link = proxyLink, Appends(e),
         NEW f \in Families, NEW s \in FamilyStateType,
         Trailing(f, TRUE, s.successCount, SuccessThreshold),
         Trailing(f, FALSE, s.failureCount, FailureThreshold),
         s.capability = Expected(f),
         NEW t, t = applyObservation(s, e.ok[f], e.at)
  PROVE  /\ TrailingNext(f, TRUE, t.successCount, SuccessThreshold)
         /\ TrailingNext(f, FALSE, t.failureCount, FailureThreshold)
         /\ t.capability = Expected(f)'
<1> DEFINE n       == Len(log)
           up      == Runs(f, TRUE, SuccessThreshold)
           down    == Runs(f, FALSE, FailureThreshold)
           upEnds  == s.successCount + 1 >= SuccessThreshold
           downEnds == s.failureCount + 1 >= FailureThreshold
<1>0. /\ SuccessThreshold \in Nat \ {0} /\ FailureThreshold \in Nat \ {0}
      /\ s.successCount \in 0..SuccessThreshold /\ s.failureCount \in 0..FailureThreshold
      /\ e.ok[f] \in BOOLEAN
  BY TrackerAssumption DEF FamilyStateType, Entries
<1>1. /\ e.ok[f] = TRUE => t.successCount = saturatingIncrement(s.successCount, SuccessThreshold)
      /\ e.ok[f] # TRUE => t.successCount = 0
      /\ e.ok[f] = FALSE => t.failureCount = saturatingIncrement(s.failureCount, FailureThreshold)
      /\ e.ok[f] # FALSE => t.failureCount = 0
  BY <1>0 DEF applyObservation, succeed, fail
<1>2. TrailingNext(f, TRUE, t.successCount, SuccessThreshold)
  BY <1>0, <1>1, TrailingAppended
<1>3. TrailingNext(f, FALSE, t.failureCount, FailureThreshold)
  BY <1>0, <1>1, TrailingAppended
<1>4. /\ up' = IF e.ok[f] = TRUE /\ upEnds THEN up \cup {n + 1} ELSE up
      /\ down' = IF e.ok[f] = FALSE /\ downEnds THEN down \cup {n + 1} ELSE down
  BY <1>0, RunsAppended
<1>5. Conclusions(f) = up \cup down /\ Conclusions(f)' = up' \cup down'
  BY DEF Conclusions
<1>6. n \in Nat /\ Conclusions(f) \subseteq 1..n
  BY ConclusionsInLog
<1> HIDE DEF n, up, down
<1>7. CASE (e.ok[f] /\ upEnds) \/ (~e.ok[f] /\ downEnds)
  <2>1. n + 1 \in Conclusions(f)' /\ Conclusions(f)' \subseteq 1..(n + 1)
    BY <1>0, <1>4, <1>5, <1>6, <1>7
  <2>2. Expected(f)' = [initialized |-> TRUE, available |-> e.ok[f], observedAt |-> e.at,
                        validUntil |-> IF e.ok[f] THEN e.at + ProbeValidity ELSE 0]
    BY <2>1, ConclusionIsNew DEF n
  <2>3. CASE e.ok[f]
    <3>1. t.capability = [initialized |-> TRUE, available |-> TRUE, observedAt |-> e.at,
                          validUntil |-> e.at + ProbeValidity]
      BY <1>0, <1>7, <2>3 DEF applyObservation, succeed, saturatingIncrement
    <3>2. e.ok[f] = TRUE
      BY <1>0, <2>3
    <3> QED BY <1>2, <1>3, <2>2, <3>1, <3>2
  <2>4. CASE ~e.ok[f]
    <3>1. t.capability = [initialized |-> TRUE, available |-> FALSE, observedAt |-> e.at,
                          validUntil |-> 0]
      BY <1>0, <1>7, <2>4 DEF applyObservation, fail, saturatingIncrement
    <3>2. e.ok[f] = FALSE
      BY <1>0, <2>4
    <3> QED BY <1>2, <1>3, <2>2, <3>1, <3>2
  <2> QED BY <2>3, <2>4
<1>8. CASE ~((e.ok[f] /\ upEnds) \/ (~e.ok[f] /\ downEnds))
  <2>1. Conclusions(f)' = Conclusions(f)
    BY <1>0, <1>4, <1>5, <1>8
  <2>2. Expected(f)' = Expected(f)
    BY <2>1, ConclusionStays
  <2>3. t.capability = s.capability
    <3>1. CASE e.ok[f]
      BY <1>0, <1>8, <3>1 DEF applyObservation, succeed, saturatingIncrement
    <3>2. CASE ~e.ok[f]
      BY <1>0, <1>8, <3>2 DEF applyObservation, fail, saturatingIncrement
    <3> QED BY <3>1, <3>2
  <2> QED BY <1>2, <1>3, <2>2, <2>3
<1> QED BY <1>7, <1>8

(* One observation of both families, against the log with its probe.       *)
LEMMA ProbesApplied ==
  ASSUME HistoryInv, NEW ok \in SUBSET Families, ApplyObservations(ok)
  PROVE  LogOK' /\ Counted' /\ ConcludesFromHistory'
<1> DEFINE e == [link |-> link, probe |-> TRUE, at |-> now, ok |-> [f \in Families |-> f \in ok]]
<1>1. /\ pc = "probing" /\ proxyLink' = proxyLink /\ link' = link
      /\ link = proxyLink /\ link \in Links /\ now \in Nat
  BY DEF ApplyObservations, HistoryInv, LogOK, TrackerInv, TypeOK
<1>2. Appends(e)
  BY DEF ApplyObservations, Appends
<1>3. /\ e \in Entries /\ e.probe /\ e.link = link /\ e.at = now
      /\ \A f \in Families : e.ok[f] = (f \in ok)
  BY <1>1 DEF Entries
<1>4. \A f \in Families : state'[f] = applyObservation(state[f], f \in ok, now)
  BY DEF ApplyObservations
<1> HIDE DEF e
<1>5. LogOK'
  BY <1>1, <1>2, <1>3, LogAppended DEF HistoryInv
<1>6. ASSUME NEW f \in Families
      PROVE  /\ Trailing(f, TRUE, state[f].successCount, SuccessThreshold)'
             /\ Trailing(f, FALSE, state[f].failureCount, FailureThreshold)'
             /\ state'[f].capability = Expected(f)'
  <2>1. state'[f] = applyObservation(state[f], e.ok[f], e.at)
    BY <1>3, <1>4
  <2>2. state[f] \in FamilyStateType
    BY DEF HistoryInv, TrackerInv, TypeOK, FamilyStateType
  <2>3. /\ Trailing(f, TRUE, state[f].successCount, SuccessThreshold)
        /\ Trailing(f, FALSE, state[f].failureCount, FailureThreshold)
        /\ state[f].capability = Expected(f)
    BY DEF HistoryInv, Counted, ConcludesFromHistory
  <2>4. LogOK /\ e.link = proxyLink
    BY <1>1, <1>3 DEF HistoryInv
  <2>5. /\ TrailingNext(f, TRUE, state'[f].successCount, SuccessThreshold)
        /\ TrailingNext(f, FALSE, state'[f].failureCount, FailureThreshold)
        /\ state'[f].capability = Expected(f)'
    <3>1. e \in Entries /\ e.probe
      BY <1>3
    <3> HIDE DEF e
    <3> QED BY <1>2, <3>1, <2>1, <2>2, <2>3, <2>4, FamilyStep, Zenon
  <2> QED BY <2>5 DEF Trailing, TrailingNext
<1> QED BY <1>5, <1>6 DEF Counted, ConcludesFromHistory

(* resetForLink: nothing is known of the new link.                         *)
LEMMA LinkReset ==
  ASSUME HistoryInv, NEW l \in Links, proxyLink # l, proxyLink' = l, link' = l,
         state' = [f \in Families |-> familyState],
         Appends([link |-> l, probe |-> FALSE, at |-> 0, ok |-> [f \in Families |-> FALSE]])
  PROVE  LogOK' /\ Counted' /\ ConcludesFromHistory'
<1> DEFINE e == [link |-> l, probe |-> FALSE, at |-> 0, ok |-> [f \in Families |-> FALSE]]
<1>1. e \in Entries /\ ~e.probe /\ e.link = l /\ Appends(e) /\ LogOK
  BY DEF Entries, HistoryInv
<1> HIDE DEF e
<1>2. LogOK'
  BY <1>1, LogAppended
<1>3. Probes' = {}
  BY <1>1, LinkAppended
<1>4. Len(log') \in Nat
  BY <1>2, LenProperties DEF LogOK
<1>5. \A f \in Families : Expected(f)' = Uninitialized
  BY <1>3 DEF Expected, Conclusions, Runs
<1>6. \A f \in Families : state'[f].successCount = 0 /\ state'[f].failureCount = 0
                          /\ state'[f].capability = Uninitialized
  BY DEF familyState
<1>7. /\ 0 <= Len(log') /\ \A j \in (Len(log') - 0 + 1)..Len(log') : FALSE
  BY <1>4
<1>8. Counted'
  BY <1>3, <1>6, <1>7 DEF Counted, Trailing
<1> QED BY <1>2, <1>5, <1>6, <1>8 DEF ConcludesFromHistory

(* Where neither the log nor the Tracker's state changes.                  *)
LEMMA HistoryStays ==
  ASSUME HistoryInv, UNCHANGED <<log, state, proxyLink>>,
         pc' # "idle" => link' = proxyLink /\ link' \in Links
  PROVE  LogOK' /\ Counted' /\ ConcludesFromHistory'
<1>1. Probes' = Probes
  BY DEF Probes
<1>2. LogOK'
  BY DEF HistoryInv, LogOK
<1>3. Counted'
  BY <1>1 DEF HistoryInv, Counted, Trailing
<1>4. \A f \in Families : Expected(f)' = Expected(f)
  BY <1>1 DEF Expected, Conclusions, Runs
<1> QED BY <1>2, <1>3, <1>4 DEF HistoryInv, ConcludesFromHistory

(* Every step keeps the counters in agreement with the log.                *)
LEMMA NextHistory == HistoryInv /\ [Next]_vars => HistoryInv'
<1> SUFFICES ASSUME HistoryInv, [Next]_vars PROVE LogOK' /\ Counted' /\ ConcludesFromHistory'
  BY NextTrackerInv DEF HistoryInv
<1>0. pc # "idle" => link = proxyLink /\ link \in Links
  BY DEF HistoryInv, LogOK
<1>1. CASE Observe
  <2>1. PICK l \in Links :
          /\ link' = l /\ resetForLink(l)
          /\ log' = IF proxyLink = l THEN log
                    ELSE Append(log, [link |-> l, probe |-> FALSE, at |-> 0,
                                      ok |-> [f \in Families |-> FALSE]])
    BY <1>1 DEF Observe
  <2>2. CASE proxyLink = l
    BY <2>1, <2>2, HistoryStays DEF resetForLink
  <2>3. CASE proxyLink # l
    BY <2>1, <2>3, LinkReset DEF resetForLink, Appends
  <2> QED BY <2>2, <2>3
<1>2. ASSUME NEW ok \in SUBSET Families, ApplyObservations(ok)
      PROVE  LogOK' /\ Counted' /\ ConcludesFromHistory'
  BY <1>2, ProbesApplied
<1>3. CASE Inconclusive \/ PassEnds \/ Clock \/ evaluateInternetCapability \/ UNCHANGED vars
  <2>1. /\ UNCHANGED <<log, state, proxyLink>>
        /\ pc' # "idle" => pc # "idle" /\ link' = link
    BY <1>3 DEF Inconclusive, PassEnds, Clock, evaluateInternetCapability, vars, tracker
  <2> QED BY <1>0, <2>1, HistoryStays
<1> QED BY <1>1, <1>2, <1>3 DEF Next

(* Nothing was probed and nothing is concluded.                            *)
LEMMA InitHistory == Init => HistoryInv
<1> SUFFICES ASSUME Init PROVE HistoryInv
  OBVIOUS
<1>1. log = <<>> /\ log \in Seq(Entries) /\ Len(log) = 0 /\ DOMAIN log = {}
  BY DEF Init
<1>2. LogOK
  BY <1>1 DEF Init, LogOK
<1>3. Probes = {}
  BY <1>1 DEF Probes
<1>4. \A f \in Families : /\ state[f].successCount = 0 /\ state[f].failureCount = 0
                          /\ state[f].capability = Uninitialized
  BY DEF Init, familyState
<1>5. Counted
  BY <1>1, <1>3, <1>4 DEF Counted, Trailing
<1>6. ConcludesFromHistory
  BY <1>3, <1>4 DEF ConcludesFromHistory, Expected, Conclusions, Runs
<1> QED BY <1>2, <1>5, <1>6, InitTrackerInv DEF HistoryInv

(* The counters of familyState, with their saturation, their resets and    *)
(* resetForLink, conclude exactly what the whole history of probes through *)
(* the present link says.                                                  *)
THEOREM CountersConclude == Spec => []ConcludesFromHistory
<1>1. HistoryInv => ConcludesFromHistory
  BY DEF HistoryInv
<1> QED BY <1>1, InitHistory, NextHistory, PTL DEF Spec

-----------------------------------------------------------------------------
(* What a fresh capability rests on.                                       *)
LEMMA FreshIsBacked ==
  ASSUME HistoryInv, NEW f \in Families, Fresh(state[f].capability, now), pc = "observed"
  PROVE  \E i \in Runs(f, TRUE, SuccessThreshold) :
           /\ log[i].link = link
           /\ now <= log[i].at + ProbeValidity
           /\ \A k \in Runs(f, FALSE, FailureThreshold) : k < i
<1> DEFINE i == Latest(Conclusions(f))
<1>0. /\ SuccessThreshold \in Nat \ {0} /\ FailureThreshold \in Nat \ {0}
      /\ Len(log) \in Nat /\ Conclusions(f) \subseteq 1..Len(log)
  BY TrackerAssumption, ConclusionsInLog DEF HistoryInv
<1>1. /\ Expected(f).available /\ now <= Expected(f).validUntil
  BY DEF HistoryInv, ConcludesFromHistory, Fresh
<1>2. Conclusions(f) # {}
  BY <1>1 DEF Expected, Uninitialized
<1>3. i \in Conclusions(f) /\ \A k \in Conclusions(f) : k <= i
  BY <1>0, <1>2, LatestIsLast
<1>4. log[i].ok[f] /\ now <= log[i].at + ProbeValidity
  BY <1>1, <1>2 DEF Expected
<1> HIDE DEF i
<1>5. ASSUME NEW k \in Runs(f, FALSE, FailureThreshold)
      PROVE  k \in Conclusions(f) /\ ~log[k].ok[f]
  <2>1. PICK first \in Probes : /\ first + FailureThreshold - 1 = k
                                /\ \A j \in first..k : log[j].ok[f] = FALSE
    BY <1>5 DEF Runs
  <2>2. k \in Conclusions(f) /\ k \in Int /\ first \in Int
    BY <1>0, <1>5, <2>1 DEF Conclusions, Runs, Probes, HistoryInv, LogOK
  <2>3. k \in first..k
    BY <1>0, <2>1, <2>2
  <2> QED BY <2>1, <2>2, <2>3
<1>6. i \in Runs(f, TRUE, SuccessThreshold)
  BY <1>3, <1>4, <1>5 DEF Conclusions
<1>7. log[i].link = link
  <2>1. i \in Probes
    BY <1>6 DEF Runs
  <2> QED BY <2>1, ProbesOfLink DEF HistoryInv, LogOK
<1>8. ASSUME NEW k \in Runs(f, FALSE, FailureThreshold)
      PROVE  k < i
  <2>1. k <= i /\ k # i
    BY <1>3, <1>4, <1>5, <1>8
  <2>2. k \in Conclusions(f) /\ i \in Conclusions(f)
    BY <1>3, <1>5, <1>8
  <2>3. k \in 1..Len(log) /\ i \in 1..Len(log)
    BY <1>0, <2>2, Zenon
  <2> QED BY <1>0, <2>1, <2>3
<1> QED BY <1>4, <1>6, <1>7, <1>8

(* The result of a pass is backed when it is computed, and is not computed *)
(* again.                                                                  *)
LEMMA NextActiveIsBacked ==
  HistoryInv /\ ActiveIsBacked /\ [Next]_vars => ActiveIsBacked'
<1> SUFFICES ASSUME HistoryInv, ActiveIsBacked, [Next]_vars, pc' = "evaluated"
             PROVE  ActiveIsBacked'
  BY DEF ActiveIsBacked
<1>1. CASE evaluateInternetCapability
  <2>1. /\ active' = {f \in Families : Fresh(state[f].capability, now)}
        /\ pc = "observed" /\ readAt' = now /\ UNCHANGED <<log, link>>
    BY <1>1 DEF evaluateInternetCapability, AvailableExitDefaultRoutes
  <2>2. Probes' = Probes
    BY <2>1 DEF Probes
  <2>3. \A f, ok, n : Runs(f, ok, n)' = Runs(f, ok, n)
    BY <2>1, <2>2 DEF Runs
  <2> QED BY <2>1, <2>3, FreshIsBacked DEF ActiveIsBacked
<1>2. CASE Clock \/ UNCHANGED vars
  <2>1. UNCHANGED <<pc, active, log, link, readAt>>
    BY <1>2 DEF Clock, vars, result
  <2>2. Probes' = Probes
    BY <2>1 DEF Probes
  <2>3. \A f, ok, n : Runs(f, ok, n)' = Runs(f, ok, n)
    BY <2>1, <2>2 DEF Runs
  <2> QED BY <2>1, <2>3 DEF ActiveIsBacked
<1> QED
  BY <1>1, <1>2 DEF Next, Observe, ApplyObservations, Inconclusive, PassEnds

(* evaluateInternetCapability serves a family only over SuccessThreshold   *)
(* probes in a row through the link of this pass, the last of them recent, *)
(* and no FailureThreshold failures since, for every threshold, validity   *)
(* and sequence of links, probes, cancellations and clock readings.        *)
THEOREM ServedIsBacked == Spec => []ActiveIsBacked
<1>1. Init => ActiveIsBacked
  BY DEF Init, ActiveIsBacked
<1> QED BY <1>1, InitHistory, NextHistory, NextActiveIsBacked, PTL DEF Spec
=============================================================================
