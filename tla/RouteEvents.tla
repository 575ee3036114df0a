----------------------------- MODULE RouteEvents ---------------------------
(***************************************************************************)
(* Telling the agent's own route writes from everybody else's: the         *)
(* routeMutationTracker and the confirmed writes                           *)
(* (internal/adapter/netlink/route_events_linux.go) with the subscription  *)
(* and the forwarder of route updates (netlink_linux.go, Subscribe).       *)
(*                                                                         *)
(* Three goroutines meet in the tracker: the pass that writes routes one   *)
(* at a time and waits for the kernel's notification of each, the          *)
(* forwarder that receives the notifications, and the one that closes the  *)
(* subscription.  A route is reduced to the key that identifies its        *)
(* notification.  The kernel is external: it queues one notification for   *)
(* each change, of the agent or of another process, and drops some when    *)
(* the socket overflows.                                                   *)
(***************************************************************************)
EXTENDS Naturals, Sequences, SequencesExt

CONSTANTS
  Destinations,                        \* destinations written to
  EventCapacity,                       \* of the events channel
  MaxMutations, MaxForeign, MaxLost    \* bounds

ASSUME RouteEventsAssumption ==
  /\ Destinations # {} /\ EventCapacity \in Nat \ {0}
  /\ MaxMutations \in Nat /\ MaxForeign \in Nat /\ MaxLost \in Nat

Keys == [messageType : {"NEWROUTE", "DELROUTE"}, prefix : Destinations]
Ids  == 1..MaxMutations

VARIABLES
  active, pending,     \* the tracker; pending is every queue, oldest first
  results,             \* the result channel of each expectation
  writer, current, key, expected,  \* the writing pass: place, mutation, key, expectation # nil
  updates,             \* notifications between the kernel and the forwarder
  forwarder, taken,    \* the forwarder, and the expectation it took
  closer, unsent,      \* the closing goroutine, and the expectations it took
  subscriptionDone,    \* the subscription's context is cancelled
  collector, events,   \* the Controller's collector; events in the channel
  \* accounting, for the properties only
  forwarded, foreign, abandoned, failed, ownLost, lost

trackerVars   == <<active, pending>>
writerVars    == <<writer, current, key, expected>>
forwarderVars == <<forwarder, taken, events>>
closerVars    == <<closer, unsent, subscriptionDone>>
counts        == <<forwarded, foreign, abandoned, failed, ownLost, lost>>
vars == <<trackerVars, results, writerVars, updates, forwarderVars, closerVars, collector, counts>>

Init ==
  /\ active = TRUE /\ pending = <<>> /\ results = [i \in Ids |-> <<>>]
  /\ writer = "idle" /\ current = 0 /\ expected = FALSE
  /\ key = CHOOSE k \in Keys : TRUE
  /\ updates = <<>> /\ forwarder = "receive" /\ taken = 0 /\ events = 0
  /\ closer = "waiting" /\ unsent = <<>> /\ subscriptionDone = FALSE
  /\ collector = "running"
  /\ forwarded = 0 /\ foreign = 0 /\ abandoned = 0 /\ failed = 0 /\ ownLost = 0 /\ lost = 0

Send(ids, value) == [i \in Ids |-> IF i \in ids THEN Append(results[i], value) ELSE results[i]]
IdsOf(expectations) == {expectations[i].id : i \in DOMAIN expectations}

-----------------------------------------------------------------------------
(* replaceRoute and deleteNetlinkRoute.                                    *)

ExpectReplacement ==
  /\ writer = "idle" /\ current < MaxMutations
  /\ writer' = "write" /\ current' = current + 1 /\ expected' = active
  /\ \E k \in Keys :
       /\ key' = k
       /\ pending' = IF active
                     THEN Append(pending, [id |-> current + 1,
                                           key |-> [k EXCEPT !.messageType = "NEWROUTE"]])
                     ELSE pending
  /\ UNCHANGED <<active, results, updates, forwarderVars, closerVars, collector, counts>>

(* Registered before the write, so that no notification comes too early.   *)
expect ==
  /\ writer = "idle" /\ current < MaxMutations
  /\ writer' = "write" /\ current' = current + 1 /\ expected' = active
  /\ \E k \in Keys :
       /\ key' = k
       /\ pending' = IF active THEN Append(pending, [id |-> current + 1, key |-> k]) ELSE pending
  /\ UNCHANGED <<active, results, updates, forwarderVars, closerVars, collector, counts>>

(* RouteReplace or RouteDel succeeds; the kernel notifies.                 *)
Write ==
  /\ writer = "write" /\ writer' = "wait"
  /\ updates' = Append(updates, [key |-> key, own |-> TRUE])
  /\ UNCHANGED <<trackerVars, results, current, key, expected, forwarderVars, closerVars,
                 collector, counts>>

IsPending == \E i \in DOMAIN pending : pending[i].id = current
cancel    == pending' = IF IsPending
                        THEN RemoveAt(pending, CHOOSE i \in DOMAIN pending : pending[i].id = current)
                        ELSE pending

WriteFailsWithoutCancelling ==
  /\ writer = "write" /\ writer' = "idle" /\ failed' = failed + 1
  /\ UNCHANGED <<active, pending, results, current, key, expected, updates, forwarderVars,
                 closerVars, collector, forwarded, foreign, abandoned, ownLost, lost>>

WriteFails ==
  /\ writer = "write" /\ writer' = "idle" /\ failed' = failed + 1
  /\ cancel
  /\ UNCHANGED <<active, results, current, key, expected, updates, forwarderVars, closerVars,
                 collector, forwarded, foreign, abandoned, ownLost, lost>>

(* wait returns the result, or at once when nothing was registered.        *)
waitReturns ==
  /\ writer \in {"wait", "drain"} /\ writer' = "idle"
  /\ IF ~expected THEN UNCHANGED <<results, failed>>
     ELSE /\ results[current] # <<>>
          /\ results' = [results EXCEPT ![current] = Tail(@)]
          /\ failed' = IF Head(results[current]) = "acknowledged" THEN failed ELSE failed + 1
  /\ UNCHANGED <<trackerVars, current, key, expected, updates, forwarderVars, closerVars,
                 collector, forwarded, foreign, abandoned, ownLost, lost>>

(* The pass is cancelled or the notification is late.  An expectation that *)
(* somebody took is answered: its result is awaited.                       *)
waitGivesUp ==
  /\ writer = "wait" /\ expected
  /\ IF IsPending
     THEN writer' = "idle" /\ abandoned' = abandoned + 1 /\ failed' = failed + 1
     ELSE writer' = "drain" /\ UNCHANGED <<abandoned, failed>>
  /\ cancel
  /\ UNCHANGED <<active, results, current, key, expected, updates, forwarderVars, closerVars,
                 collector, forwarded, foreign, ownLost, lost>>

-----------------------------------------------------------------------------
(* forwardRouteEvents.                                                     *)

Matches(k) == {i \in DOMAIN pending : pending[i].key = k}
Oldest(S)  == CHOOSE i \in S : \A j \in S : i <= j

forward ==
  /\ forwarder' = "send" /\ forwarded' = forwarded + 1 /\ UNCHANGED <<pending, taken>>

acknowledgeManaged(k) ==
  IF Matches(k) = {}
  THEN UNCHANGED <<pending, forwarder, taken, forwarded>>
  ELSE LET i == Oldest(Matches(k)) IN
         /\ taken' = pending[i].id /\ forwarder' = "answer"
         /\ pending' = RemoveAt(pending, i) /\ UNCHANGED forwarded

(* The oldest expectation of that key is taken under the mutex and         *)
(* answered after it; an update nobody expects is an event.                *)
acknowledge(k) ==
  IF Matches(k) = {}
  THEN forward
  ELSE LET i == Oldest(Matches(k)) IN
         /\ taken' = pending[i].id /\ forwarder' = "answer"
         /\ pending' = RemoveAt(pending, i) /\ UNCHANGED forwarded

Receive ==
  /\ forwarder = "receive" /\ updates # <<>>
  /\ LET update == Head(updates) IN
       /\ updates' = Tail(updates)
       /\ foreign' = IF update.own THEN foreign ELSE foreign + 1
       /\ acknowledge(update.key)
  /\ UNCHANGED <<active, results, writerVars, closerVars, collector, events, abandoned, failed,
                 ownLost, lost>>

Answer ==
  /\ forwarder = "answer" /\ forwarder' = "receive" /\ taken' = 0
  /\ results' = Send({taken}, "acknowledged")
  /\ UNCHANGED <<trackerVars, writerVars, updates, events, closerVars, collector, counts>>

sendEventOrBlock ==
  /\ forwarder = "send"
  /\ events < EventCapacity /\ forwarder' = "receive" /\ events' = events + 1
  /\ UNCHANGED <<trackerVars, results, writerVars, updates, taken, closerVars, collector, counts>>

sendEvent ==
  /\ forwarder = "send"
  /\ \/ events < EventCapacity /\ forwarder' = "receive" /\ events' = events + 1
     \/ subscriptionDone /\ forwarder' = "done" /\ UNCHANGED events
  /\ UNCHANGED <<trackerVars, results, writerVars, updates, taken, closerVars, collector, counts>>

ForwarderReturns ==
  /\ forwarder = "receive" /\ subscriptionDone /\ forwarder' = "done"
  /\ UNCHANGED <<trackerVars, results, writerVars, updates, taken, events, closerVars,
                 collector, counts>>

forwardRouteEvents == Receive \/ Answer \/ sendEvent \/ ForwarderReturns

-----------------------------------------------------------------------------
(* closeSubscriptions.                                                     *)

SubscriptionCancelled ==
  /\ ~subscriptionDone /\ subscriptionDone' = TRUE
  /\ UNCHANGED <<trackerVars, results, writerVars, updates, forwarderVars, closer, unsent,
                 collector, counts>>

(* Takes every expectation under the mutex.                                *)
deactivate ==
  /\ closer = "waiting" /\ subscriptionDone /\ closer' = "answer"
  /\ active' = FALSE /\ unsent' = pending /\ pending' = <<>>
  /\ UNCHANGED <<results, writerVars, updates, forwarderVars, subscriptionDone, collector, counts>>

CloseUnanswered ==
  /\ closer = "answer" /\ closer' = "done" /\ unsent' = <<>>
  /\ UNCHANGED <<trackerVars, results, writerVars, updates, forwarderVars, subscriptionDone,
                 collector, counts>>

(* errRouteEventSubscriptionClosed for each, after the mutex.              *)
AnswerClosed ==
  /\ closer = "answer" /\ closer' = "done" /\ unsent' = <<>>
  /\ results' = Send(IdsOf(unsent), "closed")
  /\ UNCHANGED <<trackerVars, writerVars, updates, forwarderVars, subscriptionDone, collector, counts>>

-----------------------------------------------------------------------------
(* The kernel and the Controller's collector.                              *)

ForeignCounts == Len(SelectSeq(updates, LAMBDA u : ~u.own)) + foreign

(* Another process, or the kernel itself, changes a route.                 *)
ForeignChange ==
  /\ ForeignCounts < MaxForeign
  /\ \E k \in Keys : updates' = Append(updates, [key |-> k, own |-> FALSE])
  /\ UNCHANGED <<trackerVars, results, writerVars, forwarderVars, closerVars, collector, counts>>

(* A socket overflow; it is also reported on the error channel.            *)
Overflow ==
  /\ updates # <<>> /\ lost < MaxLost /\ lost' = lost + 1
  /\ ownLost' = IF Last(updates).own THEN ownLost + 1 ELSE ownLost
  /\ updates' = Front(updates)
  /\ UNCHANGED <<trackerVars, results, writerVars, forwarderVars, closerVars, collector,
                 forwarded, foreign, abandoned, failed>>

collectNetworkEvents ==
  /\ collector = "running"
  /\ \/ events > 0 /\ events' = events - 1 /\ UNCHANGED collector
     \/ subscriptionDone /\ collector' = "done" /\ UNCHANGED events
  /\ UNCHANGED <<trackerVars, results, writerVars, updates, forwarder, taken, closerVars, counts>>

-----------------------------------------------------------------------------
writerStep == Write \/ WriteFails \/ waitReturns \/ waitGivesUp
closerStep == deactivate \/ AnswerClosed

Next ==
  \/ expect \/ writerStep
  \/ forwardRouteEvents
  \/ SubscriptionCancelled \/ closerStep
  \/ ForeignChange \/ Overflow \/ collectNetworkEvents

Spec == Init /\ [][Next]_vars

(* The scheduler runs every goroutine; the wait has a timer.               *)
FairSpec ==
  /\ Spec
  /\ WF_vars(writerStep) /\ WF_vars(forwardRouteEvents) /\ WF_vars(closerStep)

-----------------------------------------------------------------------------
(* A confirmed write leaves no expectation behind, on any of its returns:  *)
(* activate never finds stale ones, and no later notification of somebody  *)
(* else is taken for the agent's own.                                      *)
NothingStale == writer = "idle" => pending = <<>>

(* The agent's own writes do not wake it: each forwarded route event is    *)
(* accounted for by a change of somebody else or by a confirmation the     *)
(* pass gave up on.  Otherwise every pass would trigger the next one.      *)
OwnWritesAbsorbed == ~subscriptionDone => forwarded <= foreign + abandoned

(* A change of somebody else is never swallowed for good: if it was taken  *)
(* for the confirmation of a write of the same key, the confirmation       *)
(* itself is forwarded in its place, or the write failed, or the socket    *)
(* overflowed, which ends the Controller's run.                            *)
ForeignChangesSurface ==
  (writer = "idle" /\ ~subscriptionDone /\ \A i \in DOMAIN updates : ~updates[i].own)
    => foreign <= forwarded + failed + ownLost

(* A confirmed write returns, even when it gives up just as the forwarder  *)
(* or the closing goroutine has taken its expectation.                     *)
WriteReturns == []<>(writer = "idle")

(* Cancelling the subscription ends the forwarder, also when it is         *)
(* blocked on a full events channel that nobody reads any more: Subscribe  *)
(* closes the channel only then.                                           *)
SubscriptionCloses == []<>(subscriptionDone => forwarder = "done" /\ closer = "done")
=============================================================================
