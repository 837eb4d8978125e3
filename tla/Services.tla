------------------------------ MODULE Services ------------------------------
(***************************************************************************)
(* The services of one connection as its proxies see them                  *)
(* (clientproxy.cpp): getService(), with its chain of asynchronous calls,  *)
(* functions that return services, the ServiceData objects that proxies    *)
(* and return values share, the table ConnectionData routes events and     *)
(* callbacks by, and the end of the connection.  Everything here runs on   *)
(* the application's thread but the answers, which the protocol thread     *)
(* posts to it.  Both ends speak version 1 or later.                       *)
(***************************************************************************)
EXTENDS Naturals, Sequences, SequencesExt, Subsequences

CONSTANTS
  Proxies,     \* the ClientProxy objects on the connection
  NoProxy,     \* a null ClientProxy pointer
  MaxGets,     \* bound: how many services are asked for
  MaxCalls,    \* bound: how many functions are called
  MaxPushes    \* bound: how many events and callbacks the services send

ASSUME ProxiesAssumption == Proxies # {} /\ NoProxy \notin Proxies
ASSUME BoundsAssumption == MaxGets \in Nat /\ MaxCalls \in Nat /\ MaxPushes \in Nat

VARIABLES
  left,      \* how many gets, calls and pushes the bounds still allow
  bus,       \* ConnectionData::bus is not null
  link,      \* the socket is open
  curid,     \* last id the bus gave out
  open,      \* calls the bus has not answered
  queue,     \* events posted to the application's thread, in order
  services,  \* curServiceId: the server has handed out services 1 .. services
  chains,    \* getServiceStatus: the state of each getService(), by its first id
  chainOf,   \* getServiceObjects: the getService() each call belongs to, by id
  service,   \* the ServiceData each proxy holds, 0 for none
  gone,      \* proxies that were destroyed
  data,      \* every ServiceData made so far
  alive,     \* ... that something still points to
  table,     \* serviceDataObjects: the ServiceData of each service id, 0 for none
  inside,    \* the event being sent to the proxies of a ServiceData
  owed       \* history: how many results each call of the application still gets

serverVars == <<link, services>>
busVars    == <<bus, curid, open>>
vars == <<left, serverVars, busVars, queue, chains, chainOf, service, gone, data, alive,
          table, inside, owed>>

\* getService() makes four calls, a function is one.  (The calls
\* "destroyService" get ids of the same count, and no answer anyone waits for.)
Ids        == 1 .. 4 * MaxGets + MaxCalls
ServiceIds == 1 .. MaxGets + MaxCalls
Datas      == 1 .. MaxGets + MaxCalls

NoChain == [proxy |-> NoProxy, step |-> 0, data |-> 0]
Outside == [id |-> 0, of |-> 0, rest |-> <<>>]

Event(ev, proxy, id, ok, arg) == [ev |-> ev, proxy |-> proxy, id |-> id, ok |-> ok, arg |-> arg]
\* A result, with the ServiceData its return value holds, on its way to the caller.
Result(id, k) == Event("result", NoProxy, id, k # 0, k)
Call(id, kind, proxy) == [id |-> id, kind |-> kind, proxy |-> proxy]

Init ==
  /\ left = [gets |-> MaxGets, calls |-> MaxCalls, pushes |-> MaxPushes]
  /\ bus = TRUE /\ link = TRUE /\ curid = 0 /\ open = {}
  /\ queue = <<>>
  /\ services = 0
  /\ chains = [id \in Ids |-> NoChain] /\ chainOf = [id \in Ids |-> 0]
  /\ service = [p \in Proxies |-> 0] /\ gone = {}
  /\ data = <<>> /\ alive = {}
  /\ table = [s \in ServiceIds |-> 0]
  /\ inside = Outside
  /\ owed = [id \in Ids |-> 0]

-----------------------------------------------------------------------------
(* ServiceData: made by parseReturn(), destroyed with the last pointer.     *)

AddProxy(d, p) ==
  [d EXCEPT !.list = Append(@, p), !.primary = IF @ = NoProxy THEN p ELSE @]

RemoveProxy(d, p) ==
  LET rest == Only(d.list, LAMBDA q : q # p) IN
  [d EXCEPT !.list = rest,
            !.primary = IF @ # p THEN @ ELSE IF rest = <<>> THEN NoProxy ELSE Head(rest)]

\* The objects with p no longer in the list of the one it holds.
Without(p) == [k \in DOMAIN data |-> IF k = service[p] THEN RemoveProxy(data[k], p) ELSE data[k]]

\* What still points to ServiceData k: a proxy, a result under way, or a chain.
Held(k, holds, q, c) ==
  \/ \E p \in Proxies : holds[p] = k
  \/ \E i \in DOMAIN q : q[i].ev = "result" /\ q[i].arg = k
  \/ \E id \in Ids : c[id].data = k

\* Mutant: ~ServiceData does not unregister itself.
Point_StaysRegistered(holds, q, c, made, tab) ==
  /\ service' = holds /\ queue' = q /\ chains' = c
  /\ alive' = {k \in alive \cup made : Held(k, holds, q, c)}
  /\ table' = tab

\* The pointers are these from now on.  What nothing points to is destroyed,
\* and takes the entry of its id out of the table.
Point(holds, q, c, made, tab) ==
  LET lost == {k \in alive \cup made : ~Held(k, holds, q, c)} IN
  /\ service' = holds /\ queue' = q /\ chains' = c
  /\ alive' = (alive \cup made) \ lost
  /\ table' = [s \in ServiceIds |->
                 IF \E k \in lost : data'[k].id = s THEN 0 ELSE tab[s]]

\* A return value that names service s gets its ServiceData: the registered
\* one, or a new one.
Parsed(s) == IF s = 0 THEN 0 ELSE IF table[s] # 0 THEN table[s] ELSE Len(data) + 1
Fresh(s)  == IF s # 0 /\ table[s] = 0 THEN {Len(data) + 1} ELSE {}
MakeData(s) ==
  data' = IF Fresh(s) = {} THEN data
            ELSE Append(data, [id |-> s, list |-> <<>>, primary |-> NoProxy])
Registered(s) == IF s = 0 THEN table ELSE [table EXCEPT ![s] = Parsed(s)]

\* p takes k into service: out of one list, into the other.
Assigned(p, k) == [i \in DOMAIN data |-> IF i = k THEN AddProxy(Without(p)[i], p) ELSE Without(p)[i]]
-----------------------------------------------------------------------------
(* The application.                                                         *)

Idle == inside = Outside

\* An asynchronous call: the bus gives it an id and posts it.
Make(kind, p) ==
  /\ curid + 1 \in Ids
  /\ curid' = curid + 1
  /\ open' = open \cup {Call(curid + 1, kind, p)}

\* getService() with a receiver.
GetService(p) ==
  /\ p \notin gone /\ bus /\ left.gets > 0
  /\ left' = [left EXCEPT !.gets = @ - 1]
  /\ Make("version", p)
  /\ chains' = [chains EXCEPT ![curid + 1] = [proxy |-> p, step |-> 0, data |-> 0]]
  /\ chainOf' = [chainOf EXCEPT ![curid + 1] = curid + 1]
  /\ owed' = [owed EXCEPT ![curid + 1] = 1]
  /\ UNCHANGED <<serverVars, bus, queue, service, gone, data, alive, table, inside>>

\* functionCalled() with a receiver.
CallFunction(p) ==
  /\ p \notin gone /\ bus /\ service[p] # 0 /\ left.calls > 0
  /\ left' = [left EXCEPT !.calls = @ - 1]
  /\ Make("function", p)
  /\ owed' = [owed EXCEPT ![curid + 1] = 1]
  /\ UNCHANGED <<serverVars, bus, queue, chains, chainOf, service, gone, data, alive,
                 table, inside>>

\* selectService() without a receiver blocks until its calls are answered; the
\* server has selected what was asked for before by then.
SelectService(p) ==
  LET s == services + 1 IN
  /\ Idle
  /\ p \notin gone /\ bus /\ link /\ left.gets > 0 /\ s \in ServiceIds
  /\ \A c \in open : c.kind # "select"
  /\ left' = [left EXCEPT !.gets = @ - 1]
  /\ curid' = curid + 3
  /\ \/ /\ services' = s
        /\ data' = Append(Without(p), [id |-> s, list |-> <<p>>, primary |-> p])
        /\ Point([service EXCEPT ![p] = Len(data) + 1], queue, chains, {Len(data) + 1},
                 [table EXCEPT ![s] = Len(data) + 1])
     \/ /\ services' \in {services, s}
        /\ UNCHANGED <<data, queue, chains, service, alive, table>>
  /\ UNCHANGED <<bus, link, open, chainOf, gone, inside, owed>>

\* p = q; q must have a service.
Assign(p, q) ==
  /\ Idle
  /\ {p, q} \cap gone = {} /\ service[q] # 0
  /\ data' = Assigned(p, service[q])
  /\ Point([service EXCEPT ![p] = service[q]], queue, chains, {}, table)
  /\ UNCHANGED <<left, serverVars, busVars, chainOf, gone, inside, owed>>

DeselectService(p) ==
  /\ Idle
  /\ p \notin gone /\ service[p] # 0
  /\ data' = Without(p)
  /\ Point([service EXCEPT ![p] = 0], queue, chains, {}, table)
  /\ UNCHANGED <<left, serverVars, busVars, chainOf, gone, inside, owed>>

\* The calls of p that are not reported.
Asked(p) == {id \in Ids : chains[id].proxy = p}
              \cup {c.id : c \in {d \in open : d.proxy = p}}
              \cup {queue[i].id : i \in {j \in DOMAIN queue : queue[j].proxy = p}}

\* ~ClientProxy: with it go its chains, and the answers posted to it.
Destroy(p) ==
  /\ Idle
  /\ p \notin gone
  /\ gone' = gone \cup {p}
  /\ data' = Without(p)
  /\ Point([service EXCEPT ![p] = 0],
           Only(queue, LAMBDA e : e.proxy # p),
           [id \in Ids |-> IF chains[id].proxy = p THEN NoChain ELSE chains[id]], {}, table)
  /\ chainOf' = [id \in Ids |-> IF chainOf[id] # 0 /\ chains[chainOf[id]].proxy = p
                                  THEN 0 ELSE chainOf[id]]
  /\ owed' = [id \in Ids |-> IF id \in Asked(p) THEN 0 ELSE owed[id]]
  /\ UNCHANGED <<left, serverVars, busVars, inside>>

\* disconnect(): the bus is given up.
Disconnect ==
  /\ Idle /\ bus
  /\ bus' = FALSE
  /\ UNCHANGED <<left, serverVars, curid, open, queue, chains, chainOf, service, gone, data,
                 alive, table, inside, owed>>

-----------------------------------------------------------------------------
(* The bus, the protocol thread and the server.                             *)

\* Call c is answered: the answer is posted to its proxy, if there still is one.
Returned(c, ok, s) ==
  Event(IF c.kind = "function" THEN "function" ELSE "get", c.proxy, c.id, ok, s)
Answer(c, ok, s) ==
  /\ open' = open \ {c}
  /\ queue' = IF c.proxy \in gone THEN queue ELSE Append(queue, Returned(c, ok, s))
  /\ UNCHANGED <<left, bus, curid, chains, chainOf, service, gone, data, alive, table,
                 inside, owed>>

\* version() is answered by the protocol itself.
AnswerVersion(c) ==
  /\ c.kind = "version"
  /\ Answer(c, TRUE, 0)
  /\ UNCHANGED serverVars

\* The server selects in order, with a new service.  auth() and functions may
\* return later; a function with a value, a new service or one returned before.
Serve(c) ==
  /\ link
  /\ c.kind # "version" /\ \A d \in open : d.kind = "select" => c.id <= d.id
  /\ \/ /\ c.kind \in {"select", "function"}
        /\ services + 1 \in ServiceIds
        /\ services' = services + 1
        /\ Answer(c, TRUE, services + 1)
     \/ /\ UNCHANGED services
        /\ \/ Answer(c, FALSE, 0)
           \/ c.kind = "auth" /\ Answer(c, TRUE, 0)
           \/ c.kind = "function" /\ \E s \in 0 .. services : Answer(c, TRUE, s)
  /\ UNCHANGED link

\* The server sends an event, for all proxies of a service, or a callback.
Push(s, ev) ==
  /\ link /\ left.pushes > 0
  /\ left' = [left EXCEPT !.pushes = @ - 1]
  /\ queue' = Append(queue, Event(ev, NoProxy, 0, TRUE, s))
  /\ UNCHANGED <<serverVars, busVars, chains, chainOf, service, gone, data, alive, table,
                 inside, owed>>

\* The link is lost, or was given up: the bus answers what it has, in any
\* order, and says so.
LinkDown ==
  /\ link
  /\ link' = FALSE
  /\ open' = {}
  /\ \E sweep \in SetToSeqs({c \in open : c.proxy \notin gone}) :
       queue' = queue \o [i \in DOMAIN sweep |-> Returned(sweep[i], FALSE, 0)]
                      \o <<Event("lost", NoProxy, 0, TRUE, 0)>>
  /\ UNCHANGED <<left, services, bus, curid, chains, chainOf, service, gone, data, alive,
                 table, inside, owed>>

\* A call made after that.
Fail(c) ==
  /\ ~link
  /\ Answer(c, FALSE, 0)
  /\ UNCHANGED serverVars

-----------------------------------------------------------------------------
(* The application's event loop.                                            *)

Take(ev) == Idle /\ queue # <<>> /\ Head(queue).ev = ev
Rest     == Tail(queue)

\* What getServiceCompleted() does next: the call, by the step.
NextCall == <<"version", "select", "auth">>
\* Report the result of chain f, and forget it.
Report(f, id, k, made, tab) ==
  /\ owed' = [owed EXCEPT ![f] = @ - 1]
  /\ chainOf' = [chainOf EXCEPT ![id] = 0]
  /\ Point(service, Append(Rest, Result(f, k)), [chains EXCEPT ![f] = NoChain], made, tab)
  /\ UNCHANGED <<curid, open>>

\* Mutant: an error is reported, but the status is kept.
GetFailed_Kept ==
  LET e == Head(queue) f == chainOf[e.id] IN
  /\ Take("get") /\ ~e.ok
  /\ UNCHANGED data
  /\ owed' = [owed EXCEPT ![f] = @ - 1]
  /\ chainOf' = [chainOf EXCEPT ![e.id] = 0]
  /\ Point(service, Append(Rest, Result(f, 0)), chains, {}, table)
  /\ UNCHANGED <<left, serverVars, busVars, gone, inside>>

\* Mutant: an error is not reported.
GetFailed_Silent ==
  LET e == Head(queue) f == chainOf[e.id] IN
  /\ Take("get") /\ ~e.ok
  /\ UNCHANGED <<data, owed>>
  /\ chainOf' = [chainOf EXCEPT ![e.id] = 0]
  /\ Point(service, Rest, [chains EXCEPT ![f] = NoChain], {}, table)
  /\ UNCHANGED <<left, serverVars, busVars, gone, inside>>

\* getServiceCompleted() with an error.
GetFailed ==
  LET e == Head(queue) IN
  /\ Take("get") /\ ~e.ok
  /\ UNCHANGED data
  /\ Report(chainOf[e.id], e.id, 0, {}, table)
  /\ UNCHANGED <<left, serverVars, bus, gone, inside>>

\* ... with a value, before the last step: the service is registered if there
\* is one, and the next call is made.  If the bus is gone the error is
\* reported and the status removed, but put back at the end.
GetGoesOn ==
  LET e == Head(queue) f == chainOf[e.id] c == chains[f] k == Parsed(e.arg)
      next == [c EXCEPT !.step = @ + 1, !.data = k] IN
  /\ Take("get") /\ e.ok /\ c.step < 3
  /\ MakeData(e.arg)
  /\ \/ /\ bus
        /\ Make(NextCall[c.step + 1], c.proxy)
        /\ chainOf' = [chainOf EXCEPT ![e.id] = 0, ![curid + 1] = f]
        /\ Point(service, Rest, [chains EXCEPT ![f] = next], Fresh(e.arg), Registered(e.arg))
        /\ UNCHANGED owed
     \/ /\ ~bus
        /\ owed' = [owed EXCEPT ![f] = @ - 1]
        /\ chainOf' = [chainOf EXCEPT ![e.id] = 0]
        /\ Point(service, Append(Rest, Result(f, 0)), [chains EXCEPT ![f] = next],
                 Fresh(e.arg), Registered(e.arg))
        /\ UNCHANGED <<curid, open>>
  /\ UNCHANGED <<left, serverVars, bus, gone, inside>>

\* ... auth() succeeded: report the service.
GetDone ==
  LET e == Head(queue) f == chainOf[e.id] IN
  /\ Take("get") /\ e.ok /\ chains[f].step = 3
  /\ UNCHANGED data
  /\ Report(f, e.id, chains[f].data, {}, table)
  /\ UNCHANGED <<left, serverVars, bus, gone, inside>>

\* functionCompleted(): register the service if there is one, and report.
FunctionCompleted ==
  LET e == Head(queue) IN
  /\ Take("function")
  /\ MakeData(e.arg)
  /\ Point(service, Append(Rest, Result(e.id, Parsed(e.arg))), chains, Fresh(e.arg),
           Registered(e.arg))
  /\ owed' = [owed EXCEPT ![e.id] = @ - 1]
  /\ UNCHANGED <<left, serverVars, busVars, chainOf, gone, inside>>

\* The caller gets its result: it assigns the service to a proxy, or drops it.
TakeResult ==
  LET k == Head(queue).arg IN
  /\ Take("result")
  /\ \/ /\ \E p \in Proxies \ gone :
             /\ k # 0
             /\ data' = Assigned(p, k)
             /\ Point([service EXCEPT ![p] = k], Rest, chains, {}, table)
     \/ /\ UNCHANGED data
        /\ Point(service, Rest, chains, {}, table)
  /\ UNCHANGED <<left, serverVars, busVars, chainOf, gone, inside, owed>>

\* Mutant: as with version 0, the first service there is gets the event.
Route_First ==
  LET e == Head(queue) IN
  /\ Take("event") \/ Take("callback")
  /\ queue' = Rest
  /\ \E s \in ServiceIds :
       /\ table[s] # 0 /\ \A u \in 1 .. s - 1 : table[u] = 0
       /\ inside' = [id |-> e.arg, of |-> table[s], rest |-> data[table[s]].list]
  /\ UNCHANGED <<left, serverVars, busVars, chains, chainOf, service, gone, data, alive,
                 table, owed>>

\* ConnectionData::sendEvent and sendCallback: nothing is registered for the
\* service any more, or its ServiceData goes through a copy of its list, or
\* takes the primary.  (It looks for a new primary if it has proxies and no
\* primary, which ListsAgree excludes.)
Route ==
  LET e == Head(queue) k == table[e.arg] IN
  /\ Take("event") \/ Take("callback")
  /\ queue' = Rest
  /\ inside' = IF k = 0 \/ data[k].primary = NoProxy THEN Outside
                 ELSE [id |-> e.arg, of |-> k,
                       rest |-> IF e.ev = "event" THEN data[k].list ELSE <<data[k].primary>>]
  /\ UNCHANGED <<left, serverVars, busVars, chains, chainOf, service, gone, data, alive,
                 table, owed>>

\* A proxy of the list has handled it.  Its slots may make calls (Next); they
\* change no proxy: the list under way would keep one that was deleted.
Handled ==
  /\ inside.rest # <<>>
  /\ inside' = IF Len(inside.rest) = 1 THEN Outside ELSE [inside EXCEPT !.rest = Tail(@)]
  /\ UNCHANGED <<left, serverVars, busVars, queue, chains, chainOf, service, gone, data,
                 alive, table, owed>>

\* disconnectedSlot()
Lost ==
  /\ Take("lost")
  /\ queue' = Rest
  /\ bus' = FALSE
  /\ UNCHANGED <<left, serverVars, curid, open, chains, chainOf, service, gone, data, alive,
                 table, inside, owed>>

Loop == GetFailed \/ GetGoesOn \/ GetDone \/ FunctionCompleted \/ TakeResult \/ Route
          \/ Handled \/ Lost

Application ==
  \/ \E p \in Proxies : \/ GetService(p) \/ CallFunction(p) \/ SelectService(p)
                        \/ DeselectService(p) \/ Destroy(p)
                        \/ \E q \in Proxies : Assign(p, q)
  \/ Disconnect

Answering == \E c \in open : AnswerVersion(c) \/ Serve(c) \/ Fail(c)

Next ==
  \/ Application
  \/ Answering
  \/ \E s \in 1 .. services, ev \in {"event", "callback"} : Push(s, ev)
  \/ LinkDown
  \/ Loop

Spec == Init /\ [][Next]_vars

\* Fairness: both event loops run, the server answers, and a link that was
\* given up goes down.
FairSpec == Spec /\ WF_vars(Loop) /\ WF_vars(Answering) /\ WF_vars(~bus /\ LinkDown)

-----------------------------------------------------------------------------
(* Properties.                                                              *)

\* The list of a ServiceData and the pointers of the proxies agree, through
\* assignments, selections and destructions: every holder is in the list,
\* once, nobody else is, and the primary is one of them.
ListsAgree ==
  \A k \in alive :
    /\ ToSet(data[k].list) = {p \in Proxies : service[p] = k}
    /\ IsInjective(data[k].list)
    /\ IF data[k].list = <<>> THEN data[k].primary = NoProxy
                              ELSE data[k].primary \in ToSet(data[k].list)

\* A service has one ServiceData at a time, and the table leads to it: no
\* event, callback or returned service ever meets a second or a dead one.
OneData ==
  /\ \A s \in ServiceIds : table[s] # 0 => table[s] \in alive /\ data[table[s]].id = s
  /\ \A k \in alive : table[data[k].id] = k

\* The proxies, their ServiceData and the table of the connection agree.
DataAgree == ListsAgree /\ OneData

\* An event is handled by proxies that exist and hold the service it names,
\* up to the last one of the list.
RoutedToHolders ==
  \A i \in DOMAIN inside.rest :
    /\ inside.rest[i] \notin gone
    /\ service[inside.rest[i]] = inside.of
    /\ data[inside.of].id = inside.id

\* While the bus is there, a getService() that is not over waits for one call
\* of its own, or for the answer to it, and has not been reported: no status
\* stays behind, none is continued twice, and no request is reported twice.
Awaited == {c.id : c \in open} \cup {queue[i].id : i \in {j \in DOMAIN queue : queue[j].ev = "get"}}
ChainsUnderWay ==
  /\ \A id \in Ids : owed[id] \in {0, 1}
  /\ bus => \A f \in Ids : chains[f] # NoChain =>
              /\ owed[f] = 1
              /\ \E id \in Awaited : {i \in Ids : chainOf[i] = f} = {id}

\* Every getService() and every function call is reported,
\* whatever happens to the connection, unless its proxy is destroyed.
AllReported == (\E id \in Ids : owed[id] = 1) ~> (\A id \in Ids : owed[id] = 0)
=============================================================================
