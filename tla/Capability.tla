----------------------------- MODULE Capability ----------------------------
(***************************************************************************)
(* The Internet capability Tracker                                         *)
(* (internal/application/capability/tracker.go), the snapshot it returns   *)
(* (internal/domain/internet_capability.go) and what the Reconciler makes  *)
(* of it (internal/application/internet_capability.go).                    *)
(*                                                                         *)
(* Time is a natural number read from the clock, 0 standing for the zero   *)
(* time.Time.  An observation is two steps, before and after the probes,   *)
(* so that time passes, the clock is set back and the pass is cancelled    *)
(* while they run; the evaluation is a third, at a later time again.       *)
(***************************************************************************)
EXTENDS Naturals, Sequences

CONSTANTS
  Links,               \* identities of the proxy tunnel link
  ProbeInterval, ProbeValidity,
  SuccessThreshold, FailureThreshold,
  MaxTime, MaxLog      \* bounds: the clock, and what the log may hold

(* The conditions NewTracker checks.                                       *)
ASSUME TrackerAssumption ==
  /\ ProbeInterval \in Nat \ {0} /\ ProbeValidity \in Nat /\ ProbeValidity > ProbeInterval
  /\ SuccessThreshold \in 1..16 /\ FailureThreshold \in 1..16
  /\ MaxTime \in Nat /\ MaxLog \in Nat

Families == {"ipv4", "ipv6"}
NoLink   == "none"
ASSUME LinksAssumption == NoLink \notin Links

VARIABLES
  now,          \* the clock
  proxyLink, lastProbe, state,   \* the Tracker's fields; state holds ipv4 and ipv6
  pc,           \* where the observing pass is
  link,         \* the link that pass discovered
  readAt,       \* when that pass last read the clock
  active, conditions,            \* what the pass made of the snapshot
  log           \* history: links observed and conclusive probes, in order

tracker == <<proxyLink, lastProbe, state>>
result  == <<active, conditions>>
vars    == <<now, tracker, pc, link, readAt, result, log>>

-----------------------------------------------------------------------------
(* The family state.                                                       *)

Uninitialized == [initialized |-> FALSE, available |-> FALSE, observedAt |-> 0, validUntil |-> 0]
familyState   == [capability |-> Uninitialized, successCount |-> 0, failureCount |-> 0]

saturatingIncrement(value, maximum) == IF value >= maximum THEN maximum ELSE value + 1

succeed(s, at) ==
  LET count == saturatingIncrement(s.successCount, SuccessThreshold) IN
    [capability   |-> IF count >= SuccessThreshold
                      THEN [initialized |-> TRUE, available |-> TRUE,
                            observedAt |-> at, validUntil |-> at + ProbeValidity]
                      ELSE s.capability,
     successCount |-> count, failureCount |-> 0]

failKeepingDeadline(s, at) ==
  LET count == saturatingIncrement(s.failureCount, FailureThreshold) IN
    [capability   |-> IF count >= FailureThreshold
                      THEN [s.capability EXCEPT !.initialized = TRUE, !.available = FALSE,
                                                !.observedAt = at]
                      ELSE s.capability,
     successCount |-> 0, failureCount |-> count]

fail(s, at) ==
  LET count == saturatingIncrement(s.failureCount, FailureThreshold) IN
    [capability   |-> IF count >= FailureThreshold
                      THEN [initialized |-> TRUE, available |-> FALSE,
                            observedAt |-> at, validUntil |-> 0]
                      ELSE s.capability,
     successCount |-> 0, failureCount |-> count]

applyObservation(s, succeeded, at) == IF succeeded THEN succeed(s, at) ELSE fail(s, at)

(* InternetFamilyCapability.Validate and Fresh.                            *)
Validate(c) ==
  IF ~c.initialized
  THEN ~c.available /\ c.observedAt = 0 /\ c.validUntil = 0
  ELSE /\ c.observedAt # 0
       /\ IF c.available THEN c.validUntil > c.observedAt ELSE c.validUntil = 0

FreshForever(c, at) == c.initialized /\ c.available /\ c.observedAt <= at

Fresh(c, at) == c.initialized /\ c.available /\ c.observedAt <= at /\ at <= c.validUntil

expired(c, at) == c.available /\ at > c.validUntil

probeDue(last, s, at) ==
  \/ last = 0
  \/ at >= last + ProbeInterval
  \/ \E f \in Families : expired(s[f].capability, at)

-----------------------------------------------------------------------------
(* Tracker.Observe.                                                        *)

Init ==
  /\ now = 1
  /\ proxyLink = NoLink /\ lastProbe = 0 /\ state = [f \in Families |-> familyState]
  /\ pc = "idle" /\ link = NoLink /\ readAt = 0
  /\ active = {} /\ conditions = {} /\ log = <<>>

(* A new link forgets everything learnt on the old one.                    *)
resetForLink(l) ==
  /\ proxyLink' = l
  /\ IF proxyLink = l
     THEN UNCHANGED <<lastProbe, state>>
     ELSE lastProbe' = 0 /\ state' = [f \in Families |-> familyState]

(* Up to the probes: a clock behind the last probe fails the pass, and an  *)
(* observation that is not due returns what is known.                      *)
Observe ==
  /\ pc = "idle" /\ Len(log) < MaxLog
  /\ \E l \in Links :
       /\ link' = l /\ resetForLink(l)
       /\ log' = IF proxyLink = l THEN log
                 ELSE Append(log, [link |-> l, probe |-> FALSE, at |-> 0,
                                   ok |-> [f \in Families |-> FALSE]])
  /\ pc' = IF lastProbe' # 0 /\ now < lastProbe' THEN "idle"
           ELSE IF probeDue(lastProbe', state', now) THEN "probing" ELSE "observed"
  /\ readAt' = now
  /\ UNCHANGED <<now, result>>

(* Both probes have been joined: the families in ok succeeded.             *)
ApplyObservations(ok) ==
  /\ pc = "probing" /\ now >= readAt
  /\ state' = [f \in Families |-> applyObservation(state[f], f \in ok, now)]
  /\ lastProbe' = now /\ readAt' = now
  /\ pc' = IF \A f \in Families : Validate(state'[f].capability) THEN "observed" ELSE "idle"
  /\ log' = Append(log, [link |-> link, probe |-> TRUE, at |-> now,
                         ok |-> [f \in Families |-> f \in ok]])
  /\ UNCHANGED <<now, proxyLink, link, result>>

CancellationCountsAsFailure ==
  /\ pc = "probing"
  /\ state' = [f \in Families |-> applyObservation(state[f], FALSE, now)]
  /\ pc' = "idle"
  /\ UNCHANGED <<now, proxyLink, lastProbe, link, readAt, result, log>>

(* The pass was cancelled or the clock is behind the start of the probes:  *)
(* an error, and nothing is learnt.                                        *)
Inconclusive ==
  /\ pc = "probing" /\ pc' = "idle" /\ link' = NoLink /\ readAt' = 0
  /\ UNCHANGED <<now, tracker, result, log>>

-----------------------------------------------------------------------------
(* evaluateInternetCapability, at the Reconciler's own reading of the      *)
(* clock.  AvailableExitDefaultRoutes is the set of fresh families.        *)

AvailableExitDefaultRoutes(s, at) == {f \in Families : Fresh(s[f].capability, at)}

(* The kind of the condition a family is reported with; "" for none.       *)
conditionKindWithoutStale(c, at) ==
  IF ~c.initialized THEN "initializing" ELSE IF ~c.available THEN "unavailable" ELSE ""

conditionKind(c, at) ==
  IF ~c.initialized THEN "initializing"
  ELSE IF ~c.available THEN "unavailable"
  ELSE IF ~Fresh(c, at) THEN "stale" ELSE ""

evaluateInternetCapability ==
  /\ pc = "observed"
  /\ IF \A f \in Families : Validate(state[f].capability)
     THEN /\ pc' = "evaluated"
          /\ active' = AvailableExitDefaultRoutes(state, now)
          /\ conditions' = {f \in Families : conditionKind(state[f].capability, now) # ""}
     ELSE pc' = "idle" /\ UNCHANGED result
  /\ readAt' = now
  /\ UNCHANGED <<now, tracker, link, log>>

(* The rest of the pass, and the next one begins.                          *)
PassEnds ==
  /\ pc = "evaluated" /\ pc' = "idle" /\ link' = NoLink /\ readAt' = 0
  /\ active' = {} /\ conditions' = {}
  /\ UNCHANGED <<now, tracker, log>>

Clock ==
  /\ now' \in (1..MaxTime) \cap {now + 1, now - 1}
  /\ UNCHANGED <<tracker, pc, link, readAt, result, log>>

Next ==
  \/ Observe
  \/ \E ok \in SUBSET Families : ApplyObservations(ok)
  \/ Inconclusive
  \/ evaluateInternetCapability
  \/ PassEnds
  \/ Clock

Spec == Init /\ [][Next]_vars

-----------------------------------------------------------------------------
CapabilityType == [initialized : BOOLEAN, available : BOOLEAN, observedAt : Nat, validUntil : Nat]

(* Types, with the counters saturating at their thresholds (proved in      *)
(* CapabilityProofs).                                                      *)
TypeOK ==
  /\ now \in Nat \ {0} /\ lastProbe \in Nat /\ readAt \in Nat
  /\ proxyLink \in Links \cup {NoLink} /\ link \in Links \cup {NoLink}
  /\ state \in [Families -> [capability : CapabilityType,
                             successCount : 0..SuccessThreshold,
                             failureCount : 0..FailureThreshold]]
  /\ pc \in {"idle", "probing", "observed", "evaluated"}
  /\ active \subseteq Families /\ conditions \subseteq Families

(* InternetCapabilitySnapshot.Validate accepts every snapshot the Tracker  *)
(* holds, whatever order probes, cancellations, link changes and clock     *)
(* steps come in: neither Observe nor evaluateInternetCapability can fail  *)
(* a pass for a snapshot of the Tracker's own making.                      *)
SnapshotValid == \A f \in Families : Validate(state[f].capability)

-----------------------------------------------------------------------------
(* What the log alone says about a family: the probes since the last time  *)
(* another link was observed, and the places where a run of successes or   *)
(* of failures reached its threshold.                                      *)

Probes ==
  {i \in DOMAIN log : log[i].probe /\ \A j \in i..Len(log) : log[j].link = log[i].link}

(* Probes of the current link with a run of n outcomes ok ending there.    *)
Runs(f, ok, n) ==
  {i \in Probes : \E first \in Probes :
     /\ first + n - 1 = i
     /\ \A j \in first..i : log[j].ok[f] = ok}

Latest(S) == CHOOSE i \in S : \A j \in S : j <= i

Conclusions(f) == Runs(f, TRUE, SuccessThreshold) \cup Runs(f, FALSE, FailureThreshold)

Expected(f) ==
  IF Conclusions(f) = {} THEN Uninitialized
  ELSE LET entry == log[Latest(Conclusions(f))] IN
         [initialized |-> TRUE, available |-> entry.ok[f], observedAt |-> entry.at,
          validUntil |-> IF entry.ok[f] THEN entry.at + ProbeValidity ELSE 0]

(* The Tracker's counters compute the last conclusion of the probe history *)
(* of the current link: the latest run of SuccessThreshold successes or    *)
(* FailureThreshold failures, not interrupted by cancelled observations.   *)
ConcludesFromHistory == \A f \in Families : state[f].capability = Expected(f)

(* A family's exit default route is wanted only if SuccessThreshold probes *)
(* in a row succeeded through the very link the pass discovered, the last  *)
(* of them no longer than ProbeValidity before the evaluation, with fewer  *)
(* than FailureThreshold failures in a row since.                          *)
ActiveIsBacked ==
  pc = "evaluated" =>
    \A f \in active :
      \E i \in Runs(f, TRUE, SuccessThreshold) :
        /\ log[i].link = link
        /\ readAt <= log[i].at + ProbeValidity
        /\ \A k \in Runs(f, FALSE, FailureThreshold) : k < i

(* Every family without an exit default route is reported as a condition,  *)
(* so that a degraded gateway never reports itself fully ready.            *)
InactiveIsReported == pc = "evaluated" => conditions = Families \ active

(* "available -> success -> refresh observedAt and validUntil": a          *)
(* successful probe of an available family extends its validity.           *)
SuccessRefreshes ==
  [][\A f \in Families :
       (/\ lastProbe' # lastProbe /\ proxyLink' = proxyLink
        /\ Len(log') > Len(log) /\ log'[Len(log')].probe /\ log'[Len(log')].ok[f]
        /\ Fresh(state[f].capability, now))
       => state'[f].capability.observedAt = now]_vars
=============================================================================
