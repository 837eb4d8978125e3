------------------------------ MODULE AvahiPoll ------------------------------
(***************************************************************************)
(* The AvahiPoll that avahi's client is given: a watch of a descriptor is  *)
(* a QSocketNotifier, a timeout a QTimer; avahi's callbacks are called     *)
(* from their slots, and call back to look, update and free.               *)
(***************************************************************************)
EXTENDS Naturals

CONSTANTS MaxUpdates   \* bound: calls of the update and free functions

VARIABLES
  watch,      \* the AvahiWatch: its event, lastEvent, whether it exists
  notifier,   \* what its QSocketNotifier waits for: "in", "out", or "none"
  inWatch,    \* the event for which the watch's callback is running, or "none"
  timer,      \* the QTimer of the AvahiTimeout runs
  wanted,     \* avahi waits for the timeout: it was set and did not expire yet
  inTimeout,  \* the timeout's callback is running
  updates     \* for the bound

pollVars == <<watch, notifier, inWatch, timer, wanted, inTimeout, updates>>

WatchEvents == {"in", "out", "both", "none"}   \* AVAHI_WATCH_IN, OUT, IN | OUT, 0

\* There is a notifier for one event; for both, or none, only a warning.
NotifierFor(e) == IF e \in {"in", "out"} THEN e ELSE "none"

PollInit ==
  /\ \E e \in WatchEvents : watch = [event |-> e, last |-> "none", exists |-> TRUE]
  /\ notifier = NotifierFor(watch.event)
  /\ inWatch = "none" /\ inTimeout = FALSE
  /\ timer \in BOOLEAN /\ wanted = timer
  /\ updates = 0

\* avahi calls from its callbacks and, in the same thread, at other times.
Counted == updates < MaxUpdates /\ updates' = updates + 1

WatchUpdate(e) ==
  /\ watch.exists /\ Counted
  /\ watch' = [watch EXCEPT !.event = e]
  /\ notifier' = NotifierFor(e)
  /\ UNCHANGED <<inWatch, timer, wanted, inTimeout>>

\* "It is safe to call this function from an AvahiWatchCallback": activated()
\* goes on to write into the watch that was deleted.
WatchFree ==
  /\ watch.exists /\ Counted
  /\ watch' = [watch EXCEPT !.exists = FALSE]
  /\ notifier' = "none"
  /\ UNCHANGED <<inWatch, timer, wanted, inTimeout>>

\* Mutant: lastEvent is left to the notifier's next event.
Activated_NoLast ==
  /\ notifier # "none" /\ inWatch = "none" /\ ~inTimeout
  /\ inWatch' = notifier
  /\ UNCHANGED <<watch, notifier, timer, wanted, inTimeout, updates>>

\* activated(), up to the callback
Activated ==
  /\ notifier # "none" /\ inWatch = "none" /\ ~inTimeout
  /\ watch' = [watch EXCEPT !.last = watch.event]
  /\ inWatch' = notifier
  /\ UNCHANGED <<notifier, timer, wanted, inTimeout, updates>>

WatchReturns ==
  /\ inWatch # "none"
  /\ inWatch' = "none"
  /\ watch' = [watch EXCEPT !.last = "none"]
  /\ UNCHANGED <<notifier, timer, wanted, inTimeout, updates>>

\* updateTimeout(): a time, past or to come, starts the timer; none stops it, as
\* does freeing the timeout, which is safe in its own callback.
TimeoutUpdate(set) ==
  /\ Counted
  /\ timer' = set /\ wanted' = set
  /\ UNCHANGED <<watch, notifier, inWatch, inTimeout>>

\* timeout(): the timer is stopped first; the callback may set it again.
Timeout ==
  \/ /\ timer /\ ~inTimeout /\ inWatch = "none"
     /\ timer' = FALSE /\ wanted' = FALSE /\ inTimeout' = TRUE
     /\ UNCHANGED <<watch, notifier, inWatch, updates>>
  \/ /\ inTimeout
     /\ inTimeout' = FALSE
     /\ UNCHANGED <<watch, notifier, inWatch, timer, wanted, updates>>

PollNext ==
  \/ \E e \in WatchEvents : WatchUpdate(e)
  \/ WatchFree
  \/ Activated \/ WatchReturns
  \/ \E set \in BOOLEAN : TimeoutUpdate(set)
  \/ Timeout

\* The event loop runs, gets round to a timer between the events of the watch,
\* and avahi's callbacks return.
PollFairness == WF_pollVars(WatchReturns) /\ SF_pollVars(Timeout)

-----------------------------------------------------------------------------
\* A callback that asks which events happened is told those it was called for,
\* even after it changed what it waits for.
EventsTold == inWatch # "none" /\ watch.exists => watch.last = inWatch

\* A timeout that avahi set, also from the callback of the last one, expires
\* unless it is taken back.
TimeoutExpires == wanted ~> ~wanted
=============================================================================
