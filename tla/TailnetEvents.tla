---------------------------- MODULE TailnetEvents ----------------------------
(***************************************************************************)
(* The Tailnet watch: the goroutine that forwards LocalAPI notifications   *)
(* (internal/adapter/tailscale/events.go) and the collector that consumes  *)
(* them, and reopens the watch when it breaks (collectTailnetEvents and    *)
(* consumeTailnetEvents, internal/application/controller.go).              *)
(*                                                                         *)
(* Both channels hold one value.  The forwarder drops a hint when one is   *)
(* queued; a watch that breaks takes undelivered notifications with it.    *)
(* What the Controller does with MarkDirty and the trigger is the          *)
(* Controller module's.                                                    *)
(***************************************************************************)
EXTENDS Integers, FiniteSets

CONSTANTS
  InitialDelay, MaximumDelay, \* of reopening the watch
  MaxChanges,                 \* bound on changes of the Tailnet
  MaxFaults                   \* bound on broken watches and failed openings

ASSUME TailnetEventsAssumption ==
  /\ InitialDelay \in Nat \ {0} /\ MaximumDelay \in Nat /\ InitialDelay <= MaximumDelay
  /\ MaxChanges \in Nat /\ MaxFaults \in Nat

Kinds == {"state", "networkMap", "selfNode"}

VARIABLES
  watch,       \* the LocalAPI connection: "none", "open" or "broken"
  pending,     \* the kinds of change it has yet to deliver
  forwarder,   \* where forwardTailnetEvents is
  todo,        \* the hints of the notification it is forwarding
  events,      \* a hint is queued
  eventErrors, \* an error is queued
  closed,      \* the forwarder has closed both channels
  collector,   \* where collectTailnetEvents is
  open,        \* consumeTailnetEvents: the channels not yet set to nil
  observed,    \* this watch has delivered an event
  retryDelay,
  ctxDone,
  unmarked,    \* history: the Tailnet changed after the last MarkDirty
  changes, faults

busVars  == <<watch, pending>>
fwdVars  == <<forwarder, todo, closed>>
chanVars == <<events, eventErrors>>
colVars  == <<collector, open, observed, retryDelay>>
envVars  == <<ctxDone, changes, faults>>
vars     == <<busVars, fwdVars, chanVars, colVars, envVars, unmarked>>

Init ==
  /\ watch = "none" /\ pending = {}
  /\ forwarder = "ended" /\ todo = {} /\ closed = TRUE
  /\ events = FALSE /\ eventErrors = FALSE
  /\ collector = "subscribe" /\ open = {} /\ observed = FALSE
  /\ retryDelay = InitialDelay
  /\ ctxDone = FALSE /\ changes = 0 /\ faults = 0
  /\ unmarked = FALSE

-----------------------------------------------------------------------------
(* The Tailnet and the LocalAPI connection.                                *)

(* A change of a kind that makes a hint; an open watch will tell of it.    *)
Change ==
  /\ changes < MaxChanges /\ changes' = changes + 1
  /\ unmarked' = TRUE
  /\ \E kind \in Kinds : pending' = IF watch = "open" THEN pending \cup {kind} ELSE pending
  /\ UNCHANGED <<watch, fwdVars, chanVars, colVars, ctxDone, faults>>

WatchBreaks ==
  /\ watch = "open" /\ watch' = "broken"
  /\ faults < MaxFaults /\ faults' = faults + 1
  /\ pending' \in {pending, {}}
  /\ UNCHANGED <<fwdVars, chanVars, colVars, ctxDone, changes, unmarked>>

Stop ==
  /\ ~ctxDone /\ ctxDone' = TRUE
  /\ UNCHANGED <<busVars, fwdVars, chanVars, colVars, changes, faults, unmarked>>

-----------------------------------------------------------------------------
(* forwardTailnetEvents.                                                   *)

NextNotification ==
  /\ forwarder = "next" /\ pending # {}
  /\ forwarder' = "send" /\ todo' = pending /\ pending' = {}
  /\ UNCHANGED <<watch, closed, chanVars, colVars, envVars, unmarked>>

NextFails ==
  /\ forwarder = "next"
  /\ ctxDone \/ (watch = "broken" /\ pending = {})
  /\ forwarder' = IF ctxDone THEN "closing" ELSE "report"
  /\ UNCHANGED <<busVars, todo, closed, chanVars, colVars, envVars, unmarked>>

Report ==
  /\ forwarder = "report" /\ forwarder' = "closing"
  /\ \/ ~eventErrors /\ eventErrors' = TRUE
     \/ ctxDone /\ UNCHANGED eventErrors
  /\ UNCHANGED <<busVars, todo, closed, events, colVars, envVars, unmarked>>

SendBlocking ==
  /\ forwarder = "send" /\ todo # {} /\ ~events
  /\ events' = TRUE
  /\ \E hint \in todo : todo' = todo \ {hint}
  /\ UNCHANGED <<busVars, forwarder, closed, eventErrors, colVars, envVars, unmarked>>

DropUnlessReceiving ==
  /\ forwarder = "send" /\ todo # {}
  /\ events' = (events \/ collector = "consume")
  /\ \E hint \in todo : todo' = todo \ {hint}
  /\ UNCHANGED <<busVars, forwarder, closed, eventErrors, colVars, envVars, unmarked>>

(* The select of one hint: queue it, drop it when one is queued, or end.   *)
Send ==
  /\ forwarder = "send" /\ todo # {}
  /\ \/ /\ ~(ctxDone /\ events)
        /\ events' = TRUE
        /\ \E hint \in todo : todo' = todo \ {hint}
        /\ UNCHANGED forwarder
     \/ /\ ctxDone
        /\ forwarder' = "closing"
        /\ UNCHANGED <<events, todo>>
  /\ UNCHANGED <<busVars, closed, eventErrors, colVars, envVars, unmarked>>

SentAll ==
  /\ forwarder = "send" /\ todo = {} /\ forwarder' = "next"
  /\ UNCHANGED <<busVars, todo, closed, chanVars, colVars, envVars, unmarked>>

(* The deferred calls: the watcher and both channels are closed.           *)
Close ==
  /\ forwarder = "closing" /\ forwarder' = "ended"
  /\ watch' = "none" /\ pending' = {} /\ todo' = {} /\ closed' = TRUE
  /\ UNCHANGED <<chanVars, colVars, envVars, unmarked>>

Forwarder == NextNotification \/ NextFails \/ Report \/ Send \/ SentAll \/ Close

-----------------------------------------------------------------------------
(* collectTailnetEvents and consumeTailnetEvents.                          *)

NoInitialNotification == {}

(* tailnetWatchMask asks for the current state when the watch is opened.   *)
InitialNotification == {"state"}

(* A forwarder that is still closing works on channels nobody reads.       *)
Subscribe ==
  /\ collector = "subscribe" /\ ~ctxDone
  /\ observed' = FALSE
  /\ \/ /\ collector' = "consume" /\ open' = {"events", "eventErrors"}
        /\ watch' = "open" /\ pending' = InitialNotification
        /\ forwarder' = "next" /\ todo' = {} /\ closed' = FALSE
        /\ events' = FALSE /\ eventErrors' = FALSE
        /\ UNCHANGED faults
     \/ /\ collector' = "failed"
        /\ faults < MaxFaults /\ faults' = faults + 1
        /\ UNCHANGED <<busVars, fwdVars, chanVars, open>>
  /\ UNCHANGED <<retryDelay, ctxDone, changes, unmarked>>

(* One receive of the select; it returns on an error, on the end of the    *)
(* context, and when both channels are closed and drained.                 *)
Consume ==
  /\ collector = "consume"
  /\ \/ /\ ctxDone \/ open = {}
        /\ collector' = "failed" /\ UNCHANGED <<open, chanVars>>
     \/ /\ "events" \in open /\ events
        /\ collector' = "mark" /\ events' = FALSE /\ UNCHANGED <<open, eventErrors>>
     \/ /\ "events" \in open /\ closed /\ ~events
        /\ open' = open \ {"events"} /\ UNCHANGED <<collector, chanVars>>
     \/ /\ "eventErrors" \in open /\ eventErrors
        /\ collector' = "failed" /\ eventErrors' = FALSE /\ UNCHANGED <<open, events>>
     \/ /\ "eventErrors" \in open /\ closed /\ ~eventErrors
        /\ open' = open \ {"eventErrors"} /\ UNCHANGED <<collector, chanVars>>
  /\ UNCHANGED <<busVars, fwdVars, observed, retryDelay, envVars, unmarked>>

Mark ==
  /\ collector = "mark" /\ collector' = "notify"
  /\ observed' = TRUE /\ unmarked' = FALSE
  /\ UNCHANGED <<busVars, fwdVars, chanVars, open, retryDelay, envVars>>

(* What follows MarkDirty: the gauge, the active pass, the trigger.        *)
Notify ==
  /\ collector = "notify" /\ collector' = "consume"
  /\ UNCHANGED <<busVars, fwdVars, chanVars, open, observed, retryDelay, envVars, unmarked>>

WatchFailed ==
  /\ collector = "failed"
  /\ collector' = IF ctxDone THEN "done" ELSE "wait"
  /\ retryDelay' = IF ~ctxDone /\ observed THEN InitialDelay ELSE retryDelay
  /\ open' = {}
  /\ UNCHANGED <<busVars, fwdVars, chanVars, observed, envVars, unmarked>>

nextTailnetWatchDelay(current, maximum) ==
  IF current >= maximum \/ current > maximum \div 2 THEN maximum ELSE current * 2

waitForTailnetWatchRetry ==
  /\ collector = "wait"
  /\ \/ /\ collector' = "subscribe"
        /\ retryDelay' = nextTailnetWatchDelay(retryDelay, MaximumDelay)
     \/ ctxDone /\ collector' = "done" /\ UNCHANGED retryDelay
  /\ UNCHANGED <<busVars, fwdVars, chanVars, open, observed, envVars, unmarked>>

LoopEnds ==
  /\ collector = "subscribe" /\ ctxDone /\ collector' = "done"
  /\ UNCHANGED <<busVars, fwdVars, chanVars, open, observed, retryDelay, envVars, unmarked>>

Collector ==
  Subscribe \/ Consume \/ Mark \/ Notify \/ WatchFailed \/ waitForTailnetWatchRetry \/ LoopEnds

Next == Change \/ WatchBreaks \/ Stop \/ Forwarder \/ Collector

(* Goroutines run, and a blocked Next returns when its context ends.       *)
Fairness == WF_vars(Forwarder) /\ WF_vars(Collector)

Spec == Init /\ [][Next]_vars /\ Fairness

-----------------------------------------------------------------------------
(* Properties.                                                             *)

(* Types, with the delay between its bounds (proved in                     *)
(* TailnetEventsProofs).                                                   *)
TypeOK ==
  /\ watch \in {"none", "open", "broken"} /\ pending \subseteq Kinds
  /\ forwarder \in {"next", "send", "report", "closing", "ended"} /\ todo \subseteq Kinds
  /\ events \in BOOLEAN /\ eventErrors \in BOOLEAN /\ closed \in BOOLEAN
  /\ collector \in {"subscribe", "consume", "mark", "notify", "failed", "wait", "done"}
  /\ open \subseteq {"events", "eventErrors"} /\ observed \in BOOLEAN
  /\ retryDelay \in InitialDelay..MaximumDelay
  /\ ctxDone \in BOOLEAN /\ unmarked \in BOOLEAN

(* Dropping a hint when one is queued loses nothing: while a watch lives,  *)
(* a change of the Tailnet not yet followed by MarkDirty has a hint on the *)
(* bus, in the forwarder's hands, in the channel, or received and about to *)
(* be marked (events.go:62-69, controller.go:180-190).                     *)
UnmarkedChangeInFlight ==
  unmarked /\ collector \in {"consume", "mark", "notify"} /\ watch = "open" /\ ~ctxDone =>
    pending # {} \/ todo # {} \/ events \/ collector = "mark"

(* However often the watch breaks, and although the collector may take the *)
(* error before a queued hint, every change is followed by MarkDirty: the  *)
(* watch is reopened and starts with the current state (events.go:12-16,   *)
(* controller.go:147-171).                                                 *)
EveryChangeIsMarked == []<>(~unmarked \/ ctxDone)

(* When the subscription's context ends, the collector returns and leaves  *)
(* no forwarder behind (events.go:53-67, controller.go:147-168).           *)
WatchEndsWithContext == ctxDone ~> (collector = "done" /\ forwarder = "ended")
=============================================================================
