--------------------------- MODULE ProtocolThread ---------------------------
(***************************************************************************)
(* ClientProtocolThread: init() makes the protocol object, run() the       *)
(* message bus, and the two threads meet twice on one wait condition to    *)
(* hand the one over to the other.  The thread ends with its bus: its      *)
(* destroyed() and the deletion of the thread object go through the event  *)
(* loop of the thread that called init().                                  *)
(***************************************************************************)
EXTENDS Naturals

CONSTANTS Callers   \* threads that call init()

VARIABLES
  caller,        \* where each call of init() is
  initMutex,     \* who holds _initMutex
  threadMutex,   \* who holds _mutex
  run,           \* where run() is
  bus,           \* _bus: "none", "there", "asked" to go, "destroyed"
  protocol,      \* _protocol: its thread, whether its signals are connected, its parent
  quits,         \* quit() in the creator's event loop: "none", "queued", "called"
  threadObject   \* the QThread object: "alive", "deleting", "deleted"

threadVars == <<caller, initMutex, threadMutex, run, bus, protocol, quits, threadObject>>

Nil == "nobody"

\* A thread that calls is somebody.
ASSUME CallersAssumption == Nil \notin Callers

NoProtocol == [in |-> "none", wired |-> FALSE, child |-> FALSE]
IsRunning == run \notin {"none", "ended"}

ThreadInit ==
  /\ caller = [c \in Callers |-> "out"]
  /\ initMutex = Nil /\ threadMutex = Nil
  /\ run = "none" /\ bus = "none" /\ protocol = NoProtocol
  /\ quits = "none" /\ threadObject = "alive"

Goes(c, from, to) == caller[c] = from /\ caller' = [caller EXCEPT ![c] = to]

-----------------------------------------------------------------------------
(* init() and initialize().                                                 *)

LockInit(c) ==
  /\ bus \in {"none", "there"}
  /\ Goes(c, "out", "init")
  /\ initMutex = Nil /\ initMutex' = c
  /\ UNCHANGED <<threadMutex, run, bus, protocol, quits, threadObject>>

\* The thread is running: its bus is returned.
AlreadyRunning(c) ==
  /\ Goes(c, "init", "returned")
  /\ IsRunning
  /\ initMutex' = Nil
  /\ UNCHANGED <<threadMutex, run, bus, protocol, quits, threadObject>>

\* Mutant: the thread is started without _mutex.
Start_Unlocked(c) ==
  /\ Goes(c, "init", "started")
  /\ ~IsRunning
  /\ protocol' = [NoProtocol EXCEPT !.in = "creator"]
  /\ run' = "started"
  /\ UNCHANGED <<initMutex, threadMutex, bus, quits, threadObject>>

\* _mutex.lock(), the protocol object, start()
Start(c) ==
  /\ Goes(c, "init", "started")
  /\ ~IsRunning
  /\ threadMutex = Nil /\ threadMutex' = c
  /\ protocol' = [NoProtocol EXCEPT !.in = "creator"]
  /\ run' = "started"
  /\ UNCHANGED <<initMutex, bus, quits, threadObject>>

\* waiter.wait() gives the mutex up until it is woken
Wait(c) ==
  /\ Goes(c, "started", "waiting")
  /\ threadMutex' = IF threadMutex = c THEN Nil ELSE threadMutex
  /\ UNCHANGED <<initMutex, run, bus, protocol, quits, threadObject>>

\* moveToThread(), the connections, wakeAll(), and both mutexes
HandOver(c) ==
  /\ Goes(c, "woken", "returned")
  /\ threadMutex = Nil
  /\ protocol' = [protocol EXCEPT !.in = "thread", !.wired = TRUE]
  /\ run' = IF run = "waiting" THEN "woken" ELSE run
  /\ initMutex' = Nil
  /\ UNCHANGED <<threadMutex, bus, quits, threadObject>>

-----------------------------------------------------------------------------
(* run().                                                                   *)

Woken == [c \in Callers |-> IF caller[c] = "waiting" THEN "woken" ELSE caller[c]]

\* Mutant: run() does not wait for the caller.
RunBegins_NoWait ==
  /\ run = "started" /\ threadMutex = Nil
  /\ bus' = "there"
  /\ caller' = Woken
  /\ run' = "woken"
  /\ UNCHANGED <<initMutex, threadMutex, protocol, quits, threadObject>>

\* the bus is made; wakeAll(), and wait() on the same condition
RunBegins ==
  /\ run = "started" /\ threadMutex = Nil
  /\ bus' = "there"
  /\ caller' = Woken
  /\ run' = "waiting"
  /\ UNCHANGED <<initMutex, threadMutex, protocol, quits, threadObject>>

\* setParent(_bus), exec()
RunGoesOn ==
  /\ run = "woken" /\ threadMutex = Nil
  /\ protocol' = [protocol EXCEPT !.child = TRUE]
  /\ run' = "exec"
  /\ UNCHANGED <<caller, initMutex, threadMutex, bus, quits, threadObject>>

\* The deferred deletion of the bus, which takes its child with it.
BusDestroyed ==
  /\ run = "exec" /\ bus = "asked"
  /\ bus' = "destroyed"
  /\ protocol' = IF protocol.child THEN NoProtocol ELSE protocol
  /\ quits' = "queued"
  /\ UNCHANGED <<caller, initMutex, threadMutex, run, threadObject>>

\* exec() returns, deleteLater()
RunEnds ==
  /\ run = "exec" /\ quits = "called"
  /\ run' = "ended"
  /\ threadObject' = "deleting"
  /\ UNCHANGED <<caller, initMutex, threadMutex, bus, protocol, quits>>

-----------------------------------------------------------------------------
(* The creator's thread.                                                    *)

\* The last one that has the bus asks for its deletion.
LetGo ==
  /\ bus = "there" /\ \A c \in Callers : caller[c] \in {"out", "returned"}
  /\ \E c \in Callers : caller[c] = "returned"
  /\ bus' = "asked"
  /\ UNCHANGED <<caller, initMutex, threadMutex, run, protocol, quits, threadObject>>

Quit ==
  /\ quits = "queued" /\ quits' = "called"
  /\ UNCHANGED <<caller, initMutex, threadMutex, run, bus, protocol, threadObject>>

\* ~ClientProtocolThread: quit(), wait()
ThreadDeleted ==
  /\ threadObject = "deleting" /\ run = "ended"
  /\ threadObject' = "deleted"
  /\ UNCHANGED <<caller, initMutex, threadMutex, run, bus, protocol, quits>>

InitCall(c) == AlreadyRunning(c) \/ Start(c) \/ Wait(c) \/ HandOver(c)
Run == RunBegins \/ RunGoesOn \/ BusDestroyed \/ RunEnds
CreatorLoop == Quit \/ ThreadDeleted

ThreadNext == (\E c \in Callers : LockInit(c) \/ InitCall(c)) \/ Run \/ LetGo \/ CreatorLoop

\* Both threads run, and the creator's has an event loop.
ThreadFairness ==
  /\ \A c \in Callers : WF_threadVars(InitCall(c))
  /\ WF_threadVars(Run) /\ WF_threadVars(CreatorLoop)

-----------------------------------------------------------------------------
\* Whoever has been given the bus, or is answered by its event loop, finds the
\* protocol object in the bus's thread with its signals connected; and the event
\* loop only runs when the protocol will die with the bus.
HandedOver ==
  /\ \A c \in Callers : caller[c] = "returned" /\ bus # "destroyed"
       => bus # "none" /\ protocol.in = "thread" /\ protocol.wired
  /\ run = "exec" /\ bus # "destroyed"
       => protocol.in = "thread" /\ protocol.wired /\ protocol.child

\* init() returns, and a bus that is let go of takes its thread with it.
ThreadServes ==
  /\ \A c \in Callers : caller[c] = "init" ~> caller[c] = "returned"
  /\ bus = "asked" ~> threadObject = "deleted" /\ protocol = NoProtocol
=============================================================================
