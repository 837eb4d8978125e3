------------------------------ MODULE Dispatch ------------------------------
(***************************************************************************)
(* How a signal of a ClientProxy becomes a slot of a ServiceProxy, and the *)
(* other way round: the tables ProxyBase makes of a class, and the way of  *)
(* a function call, an event or a callback through them; and how the       *)
(* service's slots answer, at once or later by sendReturn().  The messages *)
(* between the two are Framing's and Session's: here they arrive.          *)
(***************************************************************************)
EXTENDS Integers, Signatures

CONSTANTS
  ClientClasses,  \* classes: each the sequence of its methods
  ServerClasses,
  MaxCalls,       \* bound: function calls
  MaxInits        \* bound: how often the service is returned to the client

ASSUME DispatchAssumption == MaxCalls \in Nat /\ MaxInits \in Nat \ {0}

VARIABLES
  client, server,  \* the classes at hand, never change,
  proxy, service,  \* ... and ProxyBase's tables of each
  inits,           \* how often the service was initialised
  calls,           \* the calls made: signature and arguments sent
  inbox,           \* those the instance has not read
  running,         \* the call whose slot runs, and how; Nothing if none
  current,         \* currentFunctionId
  promised,        \* ids a slot asked for, with the call it asked for
  returns,         \* Return messages written: the id, the call it is about, and
                   \* whether by "sendReturn" or for what a slot returned
  instance,        \* the service has an instance
  last             \* history: the last method that was emitted or called for one

classes == <<client, server, proxy, service, inits>>
messages == <<calls, inbox, promised, returns>>
vars == <<classes, messages, running, current, instance, last>>

Nothing == [id |-> 0]

-----------------------------------------------------------------------------
(* Asynchronous functions.                                                  *)

AsyncArgs == <<"QObject*", "const char*">>

\* The first two arguments of an asynchronous function, as init() knows them
IsAsync(args) ==
  Len(args) >= 2 /\ args[1] = "QObject*" /\ args[2] \in {"const char*", "char*"}

WithoutTwo(args) == SubSeq(args, 3, Len(args))

\* The signature init() gives a method that is a function: its first two arguments are
\* for the answer.
OwnSig(method) ==
  LET sig == Parse(method.text)
  IN IF IsAsync(sig.args) THEN [sig EXCEPT !.args = WithoutTwo(@)] ELSE sig

\* A class as moc describes it: each method has a valid signature, that no other has,
\* and nothing asynchronous behind the first two arguments.
ASSUME ClassesAssumption ==
  \A class \in ClientClasses \cup ServerClasses :
    /\ class \in Seq([kind : {"signal", "slot"}, type : STRING, text : Seq(STRING),
                      cloned : BOOLEAN])
    /\ \A i \in DOMAIN class :
         /\ Valid(class[i].text) /\ ~IsAsync(OwnSig(class[i]).args)
         /\ \A j \in DOMAIN class : Parse(class[i].text) = Parse(class[j].text) => i = j

-----------------------------------------------------------------------------
(* ProxyBase.                                                               *)

\* The methods of a kind whose type is listed; the copies moc makes for default
\* arguments are passed over.
Chosen(class, kind, types) ==
  {i \in DOMAIN class :
     ~class[i].cloned /\ class[i].kind = kind /\ class[i].type \in types}

\* init(), for the return types of functions, callbacks and events.  A signal that
\* is a function gets the next number from 1000 on, and is connected to it; the
\* tables are cleared first, but connections are the object's: old ones stay.
Tables(old, class, functionlist, callbacklist, eventlist) ==
  LET made == Chosen(class, "signal", functionlist)
      signal(id) == class[Nth(made, id - 999)]
      ids == 1000 .. 999 + Cardinality(made)
  IN [connected |-> old \o [n \in 1 .. Cardinality(made) |->
                              [signal |-> Nth(made, n), id |-> 999 + n]],
      functions |-> [id \in ids |-> OwnSig(signal(id))],
      types     |-> [id \in ids |-> signal(id).type],
      asyncfunctions |-> {id \in ids : IsAsync(Parse(signal(id).text).args)},
      callbacks |-> [i \in Chosen(class, "slot", callbacklist) |-> Parse(class[i].text)],
      signals   |-> [i \in Chosen(class, "signal", eventlist \ functionlist) |->
                       Parse(class[i].text)]]

\* ClientProxy::init() and ServiceProxy::initProxy()
ClientTables(class) == Tables(<<>>, class, {"ReturnValue"}, {"ReturnValue"}, {"Event"})
ServerTables(old, class) == Tables(old, class, {"Event", "CallbackValue"}, {"ReturnValue"}, {})

\* Server::requestService(): a new one of the class
RequestService(class) == ServerTables(<<>>, class)

\* A table of ProxyBase as a list
ListedBy(tables, kind) ==
  CASE kind = "functions" -> Range(tables.functions)
    [] kind = "callbacks" -> Range(tables.callbacks)
    [] kind = "events"    -> Range(tables.signals)

\* What a server lists of a service is what the instance of its factory knows,
\* made when the service was registered; each table is asked for under its own
\* name: the slots that clients call are "callbacks", what it sends "functions".
FactoryTables == ServerTables(<<>>, server)
Lists(kind) == ListedBy(FactoryTables, kind)

\* The values method i is emitted with, each of the type the class declares.
Params(class, i) ==
  LET args == Parse(class[i].text).args
  IN [k \in DOMAIN args |-> [type |-> args[k], at |-> k]]

\* Mutant: the values are taken from the first on.
Packed_FromFirst(tables, id, params) ==
  [sig |-> tables.functions[id], async |-> id \in tables.asyncfunctions,
   values |-> SubSeq(params, 1, Len(tables.functions[id].args))]

\* qt_metacall() for a signal: the values behind the first two, for an
\* asynchronous function, else all of them.
Packed(tables, id, params) ==
  LET async == id \in tables.asyncfunctions
      from == IF async THEN 3 ELSE 1
  IN [sig |-> tables.functions[id], async |-> async,
      values |-> SubSeq(params, from, from + Len(tables.functions[id].args) - 1)]

\* callMetacall(): the method of the class that has the signature, or the number
\* of the error; table is where emitSignal() or callCallback() looked before.
Metacall(class, table, sig, values) ==
  LET found == {i \in DOMAIN class : Parse(class[i].text) = sig}
  IN IF \A i \in DOMAIN table : table[i] # sig THEN [error |-> 1]
     ELSE IF ~Test(sig.args, values) THEN [error |-> 2]
     ELSE IF sig.name = "" THEN [error |-> 3]
     ELSE IF found = {} THEN [error |-> 4]
     ELSE [error |-> 0, method |-> CHOOSE i \in found : TRUE, values |-> values]

-----------------------------------------------------------------------------
(* ServiceProxy::callFunction(): the slot that answers later is preferred.  *)

AsyncSig(sig) == [sig EXCEPT !.args = AsyncArgs \o @]

AsyncValues(values) ==
  <<[type |-> "QObject*", at |-> 0], [type |-> "QString", at |-> 0]>> \o values

AnswersLater(sig) == \E i \in DOMAIN service.callbacks : service.callbacks[i] = AsyncSig(sig)

Called(sig, values) ==
  IF AnswersLater(sig)
  THEN Metacall(server, service.callbacks, AsyncSig(sig), AsyncValues(values))
  ELSE Metacall(server, service.callbacks, sig, values)

-----------------------------------------------------------------------------
Init ==
  /\ client \in ClientClasses /\ server \in ServerClasses
  /\ proxy = ClientTables(client) /\ service = RequestService(server)
  /\ inits = 1
  /\ calls = <<>> /\ inbox = <<>> /\ promised = {} /\ returns = <<>>
  /\ running = Nothing /\ current = 0
  /\ instance = TRUE
  /\ last = [of |-> "none"]

\* Method i of a class was emitted: result says what was called for it in to, and
\* how many times.
Remember(of, class, i, to, result, times) ==
  last' = [of |-> of, method |-> class[i], values |-> Params(class, i), to |-> to,
           result |-> result, times |-> times]

\* A function is called: functionCalled() sends its signature and arguments.
Call ==
  /\ instance /\ Len(calls) < MaxCalls
  /\ \E c \in Range(proxy.connected) :
       LET message == Packed(proxy, c.id, Params(client, c.signal))
       IN calls' = Append(calls, [by |-> c.signal, sig |-> message.sig, values |-> message.values])
  /\ inbox' = Append(inbox, Len(calls'))
  /\ UNCHANGED <<classes, promised, returns, running, current, instance, last>>

Respond(id, of, by) == returns' = Append(returns, [id |-> id, of |-> of, by |-> by])

\* ServerProtocolInstanceBase::callFunction(), up to the slot; a call that finds
\* none is answered with the error.
CallFunction ==
  /\ instance /\ running = Nothing /\ inbox # <<>>
  /\ LET id == Head(inbox)
         call == calls[id]
         result == Called(call.sig, call.values)
     IN /\ Remember("call", client, call.by, server, result, 1)
        /\ IF result.error = 0
           THEN /\ running' = [id |-> id, later |-> AnswersLater(call.sig), asked |-> -1,
                               sent |-> FALSE]
                /\ current' = id
                /\ UNCHANGED returns
           ELSE Respond(id, id, "error") /\ UNCHANGED <<running, current>>
  /\ inbox' = Tail(inbox)
  /\ UNCHANGED <<classes, calls, promised, instance>>

\* A slot that will answer by sendReturn() asks for the id, of either kind ...
CurrentFunctionId ==
  /\ running # Nothing /\ running.asked = -1
  /\ running' = [running EXCEPT !.asked = current]
  /\ UNCHANGED <<classes, messages, current, instance, last>>

\* ... and may answer before it returns.
SendReturnAtOnce ==
  /\ running # Nothing /\ running.asked # -1 /\ ~running.sent
  /\ running' = [running EXCEPT !.sent = TRUE]
  /\ Respond(running.asked, running.id, "sendReturn")
  /\ UNCHANGED <<classes, calls, inbox, promised, current, instance, last>>

\* It returns a value, an error (which an exception is for a plain slot), or
\* ReturnValue::asyncronous().
Outcomes == {"value", "error", "asyncronous"}

\* Mutant: the value of a slot that answers later is written too.
ReturnWritten_Both(outcome) == outcome # "asyncronous"

\* asyncronous() is not written, and is what callFunction() makes of the value of a
\* slot that answers later; an error always is.
ReturnWritten(outcome) == outcome = "error" \/ (outcome = "value" /\ ~running.later)

Promise == promised' = promised \cup {[id |-> running.asked, of |-> running.id]}

\* Mutant: what a slot that answers later returned is never looked at.
Answered_NoError ==
  /\ IF running.later THEN UNCHANGED returns ELSE Respond(running.id, running.id, "value")
  /\ IF running.asked = -1 \/ running.sent THEN UNCHANGED promised ELSE Promise

\* What becomes of the answer: one may still follow what was written, by a slot that
\* asked for its id; one must if nothing was.
Answered ==
  \E outcome \in Outcomes :
    /\ IF ReturnWritten(outcome) THEN Respond(running.id, running.id, outcome) ELSE UNCHANGED returns
    /\ \/ (ReturnWritten(outcome) \/ running.sent) /\ UNCHANGED promised
       \/ running.asked # -1 /\ ~running.sent /\ Promise

SlotReturns ==
  /\ running # Nothing
  /\ Answered
  /\ running' = Nothing /\ current' = 0
  /\ UNCHANGED <<classes, calls, inbox, instance, last>>

\* Mutant: the answer goes to the call that runs now.
SendReturn_Current ==
  \E p \in promised :
    /\ promised' = promised \ {p}
    /\ IF instance THEN Respond(current, p.of, "sendReturn") ELSE UNCHANGED returns
    /\ UNCHANGED <<classes, calls, inbox, running, current, instance, last>>

\* sendReturn(), in its own time: dropped if the instance is gone
SendReturn ==
  \E p \in promised :
    /\ promised' = promised \ {p}
    /\ IF instance THEN Respond(p.id, p.of, "sendReturn") ELSE UNCHANGED returns
    /\ UNCHANGED <<classes, calls, inbox, running, current, instance, last>>

\* parseReturn() for a service that was returned before: it is initialised again.
ReturnedAgain ==
  /\ instance /\ inits < MaxInits
  /\ service' = ServerTables(service.connected, server)
  /\ inits' = inits + 1
  /\ UNCHANGED <<client, server, proxy, messages, running, current, instance, last>>

\* receiveEvent() of the client emits its signal, receiveCallback() calls its slot.
Received(event, message) ==
  Metacall(client, IF event THEN proxy.signals ELSE proxy.callbacks, message.sig, message.values)

\* An event or a callback of the service goes to the client: once for each
\* connection its signal has.
Emit ==
  /\ instance
  /\ \E c \in Range(service.connected) :
       LET message == Packed(service, c.id, Params(server, c.signal))
           event == service.types[c.id] = "Event"
       IN /\ event # message.async
          /\ Remember(IF event THEN "event" ELSE "callback", server, c.signal, client,
                      Received(event, message),
                      Len(SelectSeq(service.connected, LAMBDA d : d.signal = c.signal)))
  /\ UNCHANGED <<classes, messages, running, current, instance>>

\* ~ServerProtocolInstanceBase(), no slot of the service being under way
Destroy ==
  /\ instance /\ running = Nothing
  /\ instance' = FALSE
  /\ UNCHANGED <<classes, messages, running, current, last>>

Next ==
  \/ Call \/ CallFunction \/ CurrentFunctionId \/ SendReturnAtOnce \/ SlotReturns
  \/ SendReturn \/ ReturnedAgain \/ Emit \/ Destroy

Spec == Init /\ [][Next]_vars

\* Slots return, and keep their promises; the instance reads.
DispatchFairness == WF_vars(CallFunction) /\ WF_vars(SlotReturns) /\ WF_vars(SendReturn)

-----------------------------------------------------------------------------
\* The values a method has of its own
Own(method, values) ==
  IF IsAsync(Parse(method.text).args) THEN WithoutTwo(values) ELSE values

\* Which methods of a class can be called for one of this kind
Receives(of, m) ==
  ~m.cloned /\ CASE of = "event" -> m.kind = "signal" /\ m.type = "Event"
                 [] OTHER        -> m.kind = "slot" /\ m.type = "ReturnValue"

\* Through the numbers, tables and lists of both ends, what is called for a method
\* is its namesake of the same types, with the same values in the same order;
\* and nothing is called only if there is no such method.  A slot of the service
\* may have QObject* and const char* in front, which answers later.
ReachesNamesake ==
  last.of # "none" =>
    LET Fits(m) ==
          /\ Receives(last.of, m)
          /\ \/ Parse(m.text) = OwnSig(last.method)
             \/ last.of = "call" /\ Parse(m.text) = AsyncSig(OwnSig(last.method))
    IN IF last.result.error = 0
       THEN /\ Fits(last.to[last.result.method])
            /\ Own(last.to[last.result.method], last.result.values)
                 = Own(last.method, last.values)
       ELSE \A i \in DOMAIN last.to : ~Fits(last.to[i])

\* What a client reaches was listed to it, and what reaches the client too, however
\* often the service was initialised; nothing that is sent is among the "events".
SentAsListed ==
  /\ last.of = "call" /\ last.result.error = 0
       => Parse(last.to[last.result.method].text) \in Lists("callbacks")
  /\ last.of \in {"event", "callback"}
       => OwnSig(last.method) \in Lists("functions") \ Lists("events")

\* The way through the tables leads to the right method, and the lists tell it.
ReachesAsListed == ReachesNamesake /\ SentAsListed

\* A call gets nobody else's answer, and is answered once by sendReturn() and once
\* by what its slot returns, at most.  It gets both only from a slot that uses both:
\* that has an error besides, or a value if it is not one that answers later.
AnsweredOnce ==
  \A i \in DOMAIN returns :
    /\ returns[i].id = returns[i].of
    /\ returns[i].by = "value" => ~AnswersLater(calls[returns[i].of].sig)
    /\ \A j \in DOMAIN returns :
         /\ returns[j].id = returns[i].id
         /\ (returns[j].by = "sendReturn") = (returns[i].by = "sendReturn")
         => i = j

\* A call that was read is answered while the instance lives, at once or later.
CallAnswered ==
  \A id \in 1 .. MaxCalls :
    id \in DOMAIN calls ~> ~instance \/ \E i \in DOMAIN returns : returns[i].id = id

\* proxybase.cpp:196, "clear old lists in case init() is run twice": an event or a
\* callback that is emitted once reaches the client once, however often its
\* service was returned.
SentOnce == last.of # "none" => last.times = 1
=============================================================================
