----------------------------- MODULE MessageBus -----------------------------
(***************************************************************************)
(* ClientMessageBus (src/lib/clientmessagebus.cpp) with the part of the    *)
(* protocol object it talks to.                                            *)
(*                                                                         *)
(* Caller threads make synchronous calls: they register an id in the wait  *)
(* list wm, post the call to the protocol thread and sleep on the wait     *)
(* condition.  The application thread makes asynchronous calls.  The       *)
(* protocol thread handles the posted calls, and answers, disconnections   *)
(* and the deletion of the bus all run on it.  The mutex is the one of     *)
(* ClientMessageBusPrivate; a caller holds it exactly while its pc is      *)
(* "compute", every other critical section is one step.                    *)
(***************************************************************************)
EXTENDS Naturals, Sequences

CONSTANTS
  Callers,    \* the threads that make synchronous calls
  Objects,    \* the receivers of asynchronous answers
  NoObject,   \* the NULL receiver of "disconnect()" and "destroyService()"
  MaxCalls,   \* bound: how many calls are issued on the bus
  Racing      \* may the bus be deleted while a thread is about to call it?

ASSUME CallsAssumption == MaxCalls \in Nat
ASSUME ObjectsAssumption ==
  /\ NoObject \notin Objects
  /\ Objects \cap {"none", "sync"} = {}
  /\ NoObject \notin {"none", "sync"}
ASSUME RacingAssumption == Racing \in BOOLEAN

VARIABLES
  curid,         \* last id given out
  wm,            \* the wait list: "none", "sync" or the receiver, by id
  returnValues,  \* answers a synchronous caller has not taken yet, by id
  ptr,           \* ConnectionData::bus is not null
  pc,            \* where each caller thread is in callFunction
  mine,          \* the id each caller thread waits for
  clock,         \* timer.elapsed() against timeout: "early", "due" (=), "late"
  forever,       \* the wait's argument wrapped to an unbounded wait
  out,           \* events posted to the protocol thread, in order
  sock,          \* the socket: "unconnected", "connected" or "closing"
  connectId,     \* id of the connect call, 0 before it (connectId() = -1)
  written,       \* ids written to the socket and not void since
  replied,       \* ids the server or the protocol object has answered
  stage,         \* what the protocol thread is doing with the bus
  pass,          \* ids disconnected() has copied and not yet answered
  posted,        \* answers queued to each receiver's thread, in order
  dead,          \* receivers that were deleted
  seen           \* history: what the issuer of each id was told, in order

busVars    == <<curid, wm, returnValues>>
callerVars == <<pc, mine, clock, forever>>
protVars   == <<sock, connectId, written, replied>>
dyingVars  == <<stage, pass>>
asyncVars  == <<posted, dead>>
vars == <<busVars, callerVars, protVars, dyingVars, asyncVars, ptr, out, seen>>

Ids   == 1 .. MaxCalls
Ret   == [of : Ids, kind : {"reply", "error", "timeout"}]
NoRet == [of |-> 0, kind |-> "none"]

Answer(id, kind) == [of |-> id, kind |-> kind]

\* The calls clients put on a bus.  "local" is answered by the protocol object
\* itself: version(), getProperty() and setProperty().
CallKinds == {"connect", "function", "local", "disconnect"}
DeleteEvent == [id |-> 0, kind |-> "delete"]

Waiting == {id \in Ids : wm[id] # "none"}      \* wm.keys()
Inside  == {"compute", "asleep", "woken"}
Free    == \A c \in Callers : pc[c] # "compute"

\* waiter.wakeAll(): every sleeper must take the mutex and look again.
Wake(p) == [c \in Callers |-> IF p[c] = "asleep" THEN "woken" ELSE p[c]]

Init ==
  /\ curid = 0
  /\ wm = [id \in Ids |-> "none"]
  /\ returnValues = [id \in Ids |-> NoRet]
  /\ ptr = TRUE
  /\ pc = [c \in Callers |-> "out"]
  /\ mine = [c \in Callers |-> 0]
  /\ clock = [c \in Callers |-> "early"]
  /\ forever = [c \in Callers |-> FALSE]
  /\ out = <<>>
  /\ sock = "unconnected"
  /\ connectId = 0
  /\ written = {}
  /\ replied = {}
  /\ stage = "loop"
  /\ pass = {}
  /\ posted = [o \in Objects |-> <<>>]
  /\ dead = {}
  /\ seen = [id \in Ids |-> <<>>]

-----------------------------------------------------------------------------
(* Callers: the critical section of both callFunction()s, then the wait.   *)

\* Mutant of Register: the asynchronous overload does not store the id it used.
Register_AsyncUncounted(entry, kind) ==
  /\ Free
  /\ stage # "gone"
  /\ curid < MaxCalls
  /\ (kind = "connect") <=> (curid = 0)
  /\ curid' = IF entry = "sync" THEN curid + 1 ELSE curid
  /\ wm' = [wm EXCEPT ![curid + 1] = entry]
  /\ out' = Append(out, [id |-> curid + 1, kind |-> kind])

\* A new id, its wait-list entry, and the call posted, all under the mutex.
\* A client connects a bus before it makes any other call on it.
Register(entry, kind) ==
  /\ Free
  /\ stage # "gone"
  /\ curid < MaxCalls
  /\ (kind = "connect") <=> (curid = 0)
  /\ curid' = curid + 1
  /\ wm' = [wm EXCEPT ![curid + 1] = entry]
  /\ out' = Append(out, [id |-> curid + 1, kind |-> kind])

\* The caller has read the bus pointer and is about to take the mutex.
EnterSync(c) ==
  /\ pc[c] = "out"
  /\ ptr
  /\ curid < MaxCalls
  /\ pc' = [pc EXCEPT ![c] = "entering"]
  /\ UNCHANGED <<busVars, mine, clock, forever, protVars, dyingVars, asyncVars,
                 ptr, out, seen>>

\* Synchronous callFunction up to the first look at the timer.
CallSync(c) ==
  /\ pc[c] = "entering"
  /\ \E kind \in CallKinds \ {"disconnect"} : Register("sync", kind)
  /\ pc' = [pc EXCEPT ![c] = "compute"]
  /\ mine' = [mine EXCEPT ![c] = curid + 1]
  /\ clock' = [clock EXCEPT ![c] = "early"]
  /\ forever' = [forever EXCEPT ![c] = FALSE]
  /\ UNCHANGED <<returnValues, protVars, dyingVars, asyncVars, ptr, seen>>

\* waiter.wait(&mutex, timeout - timer.elapsed()) releases the mutex.  The
\* argument is an unsigned long: a negative difference waits without bound.
Sleep(c) ==
  /\ pc[c] = "compute"
  /\ pc' = [pc EXCEPT ![c] = "asleep"]
  /\ forever' = [forever EXCEPT ![c] = clock[c] = "late"]
  /\ UNCHANGED <<busVars, mine, clock, protVars, dyingVars, asyncVars, ptr, out, seen>>

\* The caller leaves callFunction with ret.
Leave(c, ret) ==
  /\ pc' = [pc EXCEPT ![c] = "out"]
  /\ mine' = [mine EXCEPT ![c] = 0]
  /\ clock' = [clock EXCEPT ![c] = "early"]
  /\ forever' = [forever EXCEPT ![c] = FALSE]
  /\ seen' = [seen EXCEPT ![mine[c]] = Append(@, ret)]
  /\ UNCHANGED <<curid, wm, protVars, dyingVars, asyncVars, ptr, out>>

\* Mutant of TakeReturn: take any answer that is there.
TakeReturn_Anyone(c) ==
  /\ pc[c] = "woken" /\ Free
  /\ clock[c] = "early"
  /\ \E id \in Ids :
       /\ returnValues[id] # NoRet
       /\ returnValues' = [returnValues EXCEPT ![id] = NoRet]
       /\ Leave(c, returnValues[id])

\* Woken in time, and the answer is there: take it.
TakeReturn(c) ==
  /\ pc[c] = "woken" /\ Free
  /\ clock[c] = "early"
  /\ returnValues[mine[c]] # NoRet
  /\ returnValues' = [returnValues EXCEPT ![mine[c]] = NoRet]
  /\ Leave(c, returnValues[mine[c]])

\* Woken in time by somebody else's answer: wait again.
WaitAgain(c) ==
  /\ pc[c] = "woken" /\ Free
  /\ clock[c] = "early"
  /\ returnValues[mine[c]] = NoRet
  /\ pc' = [pc EXCEPT ![c] = "compute"]
  /\ UNCHANGED <<busVars, mine, clock, forever, protVars, dyingVars, asyncVars,
                 ptr, out, seen>>

\* The wait ran out, or the caller was woken too late.  Neither the wait-list
\* entry nor an answer that is already there is removed.
TimeOut(c) ==
  /\ Free
  /\ clock[c] # "early"
  /\ pc[c] = "woken" \/ (pc[c] = "asleep" /\ ~forever[c])
  /\ UNCHANGED returnValues
  /\ Leave(c, Answer(mine[c], "timeout"))

Tick(c) ==
  /\ pc[c] \in Inside
  /\ clock[c] # "late"
  /\ clock' = [clock EXCEPT ![c] = IF @ = "early" THEN "due" ELSE "late"]
  /\ UNCHANGED <<busVars, pc, mine, forever, protVars, dyingVars, asyncVars,
                 ptr, out, seen>>

-----------------------------------------------------------------------------
(* The application thread: asynchronous calls and the end of the bus.      *)

\* Asynchronous callFunction for a live receiver, or for none.
CallAsync(entry) ==
  /\ ptr
  /\ entry \in (Objects \ dead) \cup {NoObject}
  /\ \E kind \in CallKinds :
       /\ (kind = "disconnect") => (entry = NoObject)
       /\ Register(entry, kind)
  /\ UNCHANGED <<returnValues, callerVars, protVars, dyingVars, asyncVars, ptr, seen>>

\* ClientProxy::disconnect and ~ConnectionData: bus->deleteLater(); bus = 0.
DeleteLater ==
  /\ ptr
  /\ Racing \/ \A c \in Callers : pc[c] # "entering"
  /\ ptr' = FALSE
  /\ out' = Append(out, DeleteEvent)
  /\ UNCHANGED <<busVars, callerVars, protVars, dyingVars, asyncVars, seen>>
\* The receiver's event loop invokes the slot with the answer.
Deliver(o) ==
  /\ posted[o] # <<>>
  /\ posted' = [posted EXCEPT ![o] = Tail(@)]
  /\ seen' = [seen EXCEPT ![Head(posted[o]).id] = Append(@, Head(posted[o]).ret)]
  /\ UNCHANGED <<busVars, callerVars, protVars, dyingVars, dead, ptr, out>>

\* A receiver is deleted; Qt drops the events posted to it.
ObjectDies(o) ==
  /\ o \notin dead
  /\ dead' = dead \cup {o}
  /\ posted' = [posted EXCEPT ![o] = <<>>]
  /\ UNCHANGED <<busVars, callerVars, protVars, dyingVars, ptr, out, seen>>

-----------------------------------------------------------------------------
(* The protocol thread.                                                     *)

\* ClientMessageBusPrivate::returnReceived, in each of its four outcomes.
Unexpected(id) ==
  /\ wm[id] = "none"
  /\ UNCHANGED <<wm, returnValues, posted, pc>>

\* Mutant of KeepForCaller: nobody is woken.
KeepForCaller_NoWake(id, ret) ==
  /\ wm[id] = "sync"
  /\ wm' = [wm EXCEPT ![id] = "none"]
  /\ returnValues' = [returnValues EXCEPT ![id] = ret]
  /\ UNCHANGED <<pc, posted>>

KeepForCaller(id, ret) ==
  /\ wm[id] = "sync"
  /\ wm' = [wm EXCEPT ![id] = "none"]
  /\ returnValues' = [returnValues EXCEPT ![id] = ret]
  /\ pc' = Wake(pc)
  /\ UNCHANGED posted

DropForDeadObject(id) ==
  /\ wm[id] \in dead \cup {NoObject}
  /\ wm' = [wm EXCEPT ![id] = "none"]
  /\ UNCHANGED <<returnValues, posted, pc>>

PostToObject(id, ret) ==
  /\ wm[id] \in Objects \ dead
  /\ wm' = [wm EXCEPT ![id] = "none"]
  /\ posted' = [posted EXCEPT ![wm[id]] = Append(@, [id |-> id, ret |-> ret])]
  /\ UNCHANGED <<returnValues, pc>>

ReturnReceived(id, ret) ==
  /\ Free
  /\ \/ Unexpected(id)
     \/ KeepForCaller(id, ret)
     \/ DropForDeadObject(id)
     \/ PostToObject(id, ret)
  /\ UNCHANGED <<curid, mine, clock, forever, dead>>

\* The snapshot disconnected() takes of the wait list under the mutex.
BeginSweep(s) ==
  /\ Free
  /\ stage' = s
  /\ pass' = Waiting

QuietBus == UNCHANGED <<wm, returnValues, posted, pc, curid, mine, clock, forever, dead>>

InLoop == stage = "loop"

Handling(kind) == InLoop /\ out # <<>> /\ Head(out).kind = kind /\ out' = Tail(out)

\* ClientProtocolBase::sendFunction, version/getProperty/setProperty.
HandleLocal ==
  LET id == Head(out).id IN
  /\ Handling("local")
  /\ replied' = replied \cup {id}
  /\ ReturnReceived(id, Answer(id, "reply"))
  /\ UNCHANGED <<sock, connectId, written, dyingVars, ptr, seen>>

\* ... and connect: the socket connects, and the answer comes with the
\* negotiation, or the failure is reported at once.
HandleConnect ==
  LET id == Head(out).id IN
  /\ Handling("connect")
  /\ connectId' = id
  /\ \/ /\ sock' = "connected"
        /\ written' = written \cup {id}
        /\ QuietBus
     \/ /\ ReturnReceived(id, Answer(id, "error"))
        /\ UNCHANGED <<sock, written>>
  /\ UNCHANGED <<replied, dyingVars, ptr, seen>>

\* ... and everything the server answers: write it, or say "Not Connected".
\* A closing socket still takes the bytes.
HandleFunction ==
  LET id == Head(out).id IN
  /\ Handling("function")
  /\ \/ /\ sock # "unconnected"
        /\ written' = written \cup {id}
        /\ QuietBus
     \/ /\ sock = "unconnected"
        /\ ReturnReceived(id, Answer(id, "error"))
        /\ UNCHANGED written
  /\ UNCHANGED <<sock, connectId, replied, dyingVars, ptr, seen>>

\* ... and disconnect: protocolDisconnect() closes the socket and emits
\* disconnected(), unless there is no socket to close.
HandleDisconnect ==
  /\ Handling("disconnect")
  /\ \/ /\ sock # "unconnected"
        /\ sock' = "closing"
        /\ BeginSweep("sweep")
     \/ /\ sock = "unconnected"
        /\ UNCHANGED <<sock, dyingVars>>
  /\ QuietBus
  /\ UNCHANGED <<connectId, written, replied, ptr, seen>>

\* Mutant of HandleDelete: ~ClientMessageBus without USE_MESSAGEBUS_FIX.
HandleDelete_OneSweep ==
  /\ Handling("delete")
  /\ BeginSweep("dying2")
  /\ QuietBus
  /\ UNCHANGED <<protVars, ptr, seen>>

\* The deferred deletion of the bus starts ~ClientMessageBus.
HandleDelete ==
  /\ Handling("delete")
  /\ BeginSweep("dying")
  /\ QuietBus
  /\ UNCHANGED <<protVars, ptr, seen>>

\* An answer is read from the socket.
Reply(id) ==
  /\ InLoop
  /\ sock # "unconnected"
  /\ id \in written \ replied
  /\ replied' = replied \cup {id}
  /\ ReturnReceived(id, Answer(id, "reply"))
  /\ UNCHANGED <<sock, connectId, written, dyingVars, ptr, out, seen>>

\* The server sends a fatal error: the connect call is answered (again, if it
\* was answered before) and the protocol disconnects.
FatalError ==
  /\ InLoop
  /\ sock # "unconnected"
  /\ ReturnReceived(connectId, Answer(connectId, "error"))
  /\ sock' = "closing"
  /\ stage' = "sweep"
  /\ pass' = {id \in Ids : wm'[id] # "none"}
  /\ UNCHANGED <<connectId, written, replied, ptr, out, seen>>

\* Mutant of SocketClosed: the end of the socket is not passed on to the bus.
SocketClosed_Unnoticed ==
  /\ InLoop
  /\ sock # "unconnected"
  /\ sock' = "unconnected"
  /\ written' = {}
  /\ QuietBus
  /\ UNCHANGED <<connectId, replied, dyingVars, ptr, out, seen>>

\* The connection is gone, whoever closed it.
SocketClosed ==
  /\ InLoop
  /\ sock # "unconnected"
  /\ sock' = "unconnected"
  /\ written' = {}
  /\ BeginSweep("sweep")
  /\ QuietBus
  /\ UNCHANGED <<connectId, replied, ptr, out, seen>>

\* disconnected(): answer the copied ids one by one, each under the mutex.
SweepOne(id) ==
  /\ id \in pass
  /\ pass' = pass \ {id}
  /\ ReturnReceived(id, Answer(id, "error"))
  /\ UNCHANGED <<protVars, stage, ptr, out, seen>>

NextStage == [sweep |-> "loop", dying |-> "nap", dying2 |-> "gone"]

SweepEnd ==
  /\ stage \in DOMAIN NextStage
  /\ pass = {}
  /\ pc' = Wake(pc)
  /\ stage' = NextStage[stage]
  /\ UNCHANGED <<busVars, mine, clock, forever, protVars, pass, asyncVars, ptr, out, seen>>

\* The 10 ms sleep of ~ClientMessageBus, taken to be long enough for the
\* threads the first sweep woke to leave, then the second sweep.
Nap ==
  /\ stage = "nap"
  /\ \A c \in Callers : pc[c] # "woken"
  /\ BeginSweep("dying2")
  /\ QuietBus
  /\ UNCHANGED <<protVars, ptr, out, seen>>

-----------------------------------------------------------------------------
Caller(c) == EnterSync(c) \/ CallSync(c) \/ Sleep(c) \/ TakeReturn(c) \/ WaitAgain(c)
               \/ TimeOut(c) \/ Tick(c)

Application == (\E entry \in Objects \cup {NoObject} : CallAsync(entry)) \/ DeleteLater

Receiver(o) == Deliver(o) \/ ObjectDies(o)

\* What the protocol thread does whenever it runs ...
Dispatch == HandleLocal \/ HandleConnect \/ HandleFunction \/ HandleDisconnect \/ HandleDelete
Sweep    == (\E id \in Ids : SweepOne(id)) \/ SweepEnd \/ Nap
\* ... and what it does only if the peer or the network makes it.
Network  == (\E id \in Ids : Reply(id)) \/ FatalError \/ SocketClosed

Next ==
  \/ \E c \in Callers : Caller(c)
  \/ Application
  \/ \E o \in Objects : Receiver(o)
  \/ Dispatch
  \/ Sweep
  \/ Network

Spec == Init /\ [][Next]_vars

-----------------------------------------------------------------------------
(* Fairness.  The threads run, Qt's event loops dispatch what is posted,    *)
(* and a blocked mutex or wait is resumed when it can be.                   *)
LoopFair   == WF_vars(Dispatch) /\ WF_vars(Sweep)
CallerFair == \A c \in Callers :
                /\ WF_vars(CallSync(c))
                /\ WF_vars(Sleep(c))
                /\ WF_vars(TakeReturn(c) \/ WaitAgain(c) \/ TimeOut(c))
DeliverFair == \A o \in Objects : WF_vars(Deliver(o))

\* Every written call is answered in the end or its connection ends, and a
\* closing socket closes.
PeerFair == /\ \A id \in Ids : WF_vars(Reply(id) \/ SocketClosed)
            /\ WF_vars(sock = "closing" /\ SocketClosed)
ClockFair == \A c \in Callers : WF_vars(Tick(c))

\* What the program itself guarantees: nothing of the peer, nothing of time.
FairSpec == Spec /\ LoopFair /\ CallerFair /\ DeliverFair

-----------------------------------------------------------------------------
(* Properties.                                                              *)

Event == [id : Ids, kind : CallKinds] \cup {DeleteEvent}
Post  == [id : Ids, ret : Ret]

\* Every variable has its type: the state a run of the bus can be in.
TypeOK ==
  /\ curid \in 0 .. MaxCalls
  /\ wm \in [Ids -> {"none", "sync", NoObject} \cup Objects]
  /\ returnValues \in [Ids -> Ret \cup {NoRet}]
  /\ ptr \in BOOLEAN
  /\ pc \in [Callers -> {"out", "entering"} \cup Inside]
  /\ mine \in [Callers -> 0 .. MaxCalls]
  /\ clock \in [Callers -> {"early", "due", "late"}]
  /\ forever \in [Callers -> BOOLEAN]
  /\ out \in Seq(Event)
  /\ sock \in {"unconnected", "connected", "closing"}
  /\ connectId \in 0 .. MaxCalls
  /\ written \in SUBSET Ids
  /\ replied \in SUBSET Ids
  /\ stage \in {"loop", "nap", "gone"} \cup DOMAIN NextStage
  /\ pass \in SUBSET Ids
  /\ posted \in [Objects -> Seq(Post)]
  /\ dead \in SUBSET Objects
  /\ seen \in [Ids -> Seq(Ret)]

\* No answer is lost to a sleeper: a thread that is in the wait (or goes back
\* to it) has no answer waiting in returnValues; its entry is still in wm.
NoLostWakeup ==
  \A c \in Callers : pc[c] \in {"compute", "asleep"} => wm[mine[c]] = "sync"

\* Two threads never wait for the same id.
WaitersApart ==
  \A c, d \in Callers : c # d /\ pc[c] \in Inside /\ pc[d] \in Inside => mine[c] # mine[d]

\* What an issuer is told, once: never two completions of a call, whatever
\* disconnections, duplicate answers, timeouts and deletions do together.
CompletedOnce == \A id \in Ids : Len(seen[id]) <= 1

\* An issuer is told what was said about its own call, and is told of an
\* answer only if its call was answered.
OwnAnswer ==
  \A id \in Ids : \A i \in DOMAIN seen[id] :
    /\ seen[id][i].of = id
    /\ seen[id][i].kind = "reply" => id \in replied

\* What the issuers of returnReceived()'s and the sweeps' completions count on:
\* each call is completed once at most, and by what was said about it.
OnceAndOwn == CompletedOnce /\ OwnAnswer

\* Nobody waits for nothing: as long as the bus lives, an entry of the wait
\* list with a receiver is still on its way to the socket, or is written to a
\* socket that will answer or close, or is about to be swept.
Queued == {out[i].id : i \in DOMAIN out}
AnswerToCome ==
  \A id \in Ids :
    wm[id] \notin {"none", NoObject} /\ stage # "gone"
      => id \in Queued \/ id \in written \ replied \/ id \in pass

\* The destructor leaves no thread inside the mutex and the wait condition it
\* is about to free (what USE_MESSAGEBUS_FIX and its sleep are for).
NobodyLeftInside == stage = "gone" => \A c \in Callers : pc[c] = "out"

\* Neither a call's entry in wm nor a thread in the wait condition is forgotten
\* by the sweeps of disconnected() and of the destructor.
NobodyForgotten == AnswerToCome /\ NobodyLeftInside

\* With a peer that answers or closes, a synchronous call returns, even if no
\* timer ever runs out.
SyncReturns ==
  PeerFair => \A c \in Callers : pc[c] \in Inside ~> pc[c] = "out"

\* With such a peer an asynchronous call with a receiver is answered, or its
\* receiver is dead.
AsyncAnswered ==
  PeerFair => \A id \in Ids : \A o \in Objects : wm[id] = o ~> seen[id] # <<>> \/ o \in dead

\* With a silent peer and a clock that runs a synchronous call still returns,
\* unless the argument of its wait wrapped: then only an answer ends it.
TimesOut ==
  ClockFair => \A c \in Callers : pc[c] \in Inside ~> pc[c] = "out" \/ forever[c]

\* Every callFunction() ends: by the peer's answer, by the loss of the
\* connection, or by its time-out.
CallsReturn == SyncReturns /\ AsyncAnswered /\ TimesOut

\* The bus implements the contract of its callers.
Contract == INSTANCE CallContract WITH issued <- curid
ContractSpec == Contract!Spec
=============================================================================
