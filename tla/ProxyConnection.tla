-------------------------- MODULE ProxyConnection --------------------------
(***************************************************************************)
(* ClientProxy and the ConnectionData objects it shares (clientproxy.cpp): *)
(* connecting, synchronously or not, selecting a service, handing a        *)
(* service to another proxy, disconnecting, and hearing of a lost          *)
(* connection through two queued signals.  Everything here runs on the     *)
(* application's thread except the links, which their protocol threads     *)
(* bring up and lose.  Connection k is the one the k-th connect() made; 0  *)
(* is the ConnectionData every proxy starts with.                          *)
(***************************************************************************)
EXTENDS Naturals, Sequences, SequencesExt, Subsequences

CONSTANTS
  Proxies,    \* the ClientProxy objects
  MaxConns,   \* bound: how many times connect() is called
  Sharing,    \* is a service of one proxy assigned to another?
  BadUrls,    \* are there URLs without a protocol, or with an unknown one?
  Patient     \* proxies whose users let everything under way arrive before
              \* they connect or disconnect

ASSUME ProxiesAssumption == Proxies # {}
ASSUME ConnsAssumption == MaxConns \in Nat
ASSUME SwitchesAssumption == {Sharing, BadUrls} \subseteq BOOLEAN /\ Patient \subseteq Proxies

Conns == 1 .. MaxConns

VARIABLES
  conn,      \* the connection each proxy points to
  service,   \* the connection of the service each proxy holds, 0 for none
  gone,      \* proxies that were destroyed
  made,      \* how many connections were made
  exists,    \* connections something still points to
  state,     \* State of each connection
  bus,       \* connections whose bus pointer is not null
  freed,     \* how often deleteLater() was called on each bus
  busGone,   \* buses that were deleted
  asked,     \* connections on which "disconnect()" was called
  link,      \* each socket: "idle", "up" or "down"
  maker,     \* the proxy whose slots listen to each connection's disconnected()
  curid,     \* last id each bus gave to a call of connectCompleted's chain
  pending,   \* the calls each bus has not answered: proxy and id
  token,     \* connections whose default token is still to be set
  wanted,    \* connections whose URL named a service still to be selected
  objects,   \* connectObjects of each proxy: the connect() call, by id
  queue,     \* events posted to the application's thread
  told,      \* history: what the caller of each connect() was told
  heard      \* history: whose disconnected() was emitted for which connection

holders == <<conn, service, gone>>
vars == <<holders, made, exists, state, bus, freed, busGone, asked, link, maker, curid,
          pending, token, wanted, objects, queue, told, heard>>

MaxId == 6
Ids   == 1 .. MaxId

Hop(k)       == [ev |-> "hop", proxy |-> maker[k], of |-> k, id |-> 0, ok |-> FALSE]
Slot(k)      == [Hop(k) EXCEPT !.ev = "slot"]
Signal(k)    == [Hop(k) EXCEPT !.ev = "signal"]
Answer(c, k, ok) == [ev |-> c.ev, proxy |-> c.proxy, of |-> k, id |-> c.id, ok |-> ok]
Call(ev, p, id) == [ev |-> ev, proxy |-> p, id |-> id]

Held(c, s, k) == \E p \in Proxies \ gone : c[p] = k \/ s[p] = k

Init ==
  /\ conn = [p \in Proxies |-> 0]
  /\ service = [p \in Proxies |-> 0]
  /\ gone = {}
  /\ made = 0
  /\ exists = {}
  /\ state = [k \in {0} \cup Conns |-> "Disconnected"]
  /\ bus = {}
  /\ freed = [k \in Conns |-> 0]
  /\ busGone = {} /\ asked = {}
  /\ link = [k \in Conns |-> "idle"]
  /\ maker \in [Conns -> {CHOOSE p \in Proxies : TRUE}]
  /\ curid = [k \in Conns |-> 0]
  /\ pending = [k \in Conns |-> {}]
  /\ token = {} /\ wanted = {}
  /\ objects = [p \in Proxies |-> [id \in Ids |-> 0]]
  /\ queue = <<>>
  /\ told = [k \in Conns |-> <<>>]
  /\ heard = {}

\* Mutant: ~ConnectionData does not delete the bus.
Rebind_Leaks(c, s, live, b, q) ==
  LET lost == {k \in live : ~Held(c, s, k)} IN
  /\ conn' = c /\ service' = s
  /\ exists' = live \ lost
  /\ bus' = b \ lost
  /\ freed' = freed
  /\ queue' = Only(q, LAMBDA e : ~(e.ev = "hop" /\ e.of \in lost))

\* Proxies point to c and hold the services s from now on; the connections
\* among live that nothing points to are destroyed, their buses deleted later.
\* The events posted to them vanish.
Rebind(c, s, live, b, q) ==
  LET lost == {k \in live : ~Held(c, s, k)} IN
  /\ conn' = c /\ service' = s
  /\ exists' = live \ lost
  /\ bus' = b \ lost
  /\ freed' = [k \in Conns |-> IF k \in lost \cap b THEN freed[k] + 1 ELSE freed[k]]
  /\ queue' = Only(q, LAMBDA e : ~(e.ev = "hop" /\ e.of \in lost))

\* Connection k is over for its users: state = Disconnected, bus->deleteLater(),
\* bus = 0.
TearDown(k) ==
  /\ state' = [state EXCEPT ![k] = "Disconnected"]
  /\ bus' = bus \ {k}
  /\ freed' = [freed EXCEPT ![k] = @ + 1]

Tell(k, what) == told' = IF k = 0 THEN told ELSE [told EXCEPT ![k] = Append(@, what)]

-----------------------------------------------------------------------------
(* The application.                                                         *)

Quiet ==
  /\ queue = <<>>
  /\ \A k \in Conns : pending[k] = {} /\ ~(k \in asked /\ link[k] = "up")

\* connect(): always a new connection object; the service is kept, or becomes
\* s if the URL named one and it was selected at once.
Connect(p, k, s, q) ==
  /\ p \notin gone /\ (p \in Patient => Quiet /\ service[p] = 0)
  /\ k = made + 1 /\ made' = k
  /\ Rebind([conn EXCEPT ![p] = k], [service EXCEPT ![p] = s], exists \cup {k}, bus \cup {k}, q)
  /\ maker' = [maker EXCEPT ![k] = p]

\* Without a receiver it blocks until the connection is made and the version
\* and the token are settled, or something failed.  If only the service of
\* the URL cannot be selected, or the link was lost behind the first answer,
\* an error is returned and state stays Connected.  A link that stood before the
\* connection failed tells of its end; and after the time limit it may still come up.
ConnectSync(p, k) ==
  /\ \/ /\ \E s \in {service[p], k} : Connect(p, k, s, queue)
        /\ state' = [state EXCEPT ![k] = "Connected"]
        /\ link' = [link EXCEPT ![k] = "up"]
        /\ Tell(k, "ok")
     \/ /\ Connect(p, k, service[p], queue)
        /\ state' = [state EXCEPT ![k] = "Connected"]
        /\ link' = [link EXCEPT ![k] = "up"]
        /\ Tell(k, "unselected")
     \/ /\ \/ Connect(p, k, service[p], queue) /\ link' \in {link, [link EXCEPT ![k] = "down"]}
           \/ /\ Connect(p, k, service[p], Append(queue, [Hop(k) EXCEPT !.proxy = p]))
              /\ link' = [link EXCEPT ![k] = "down"]
        /\ state' = [state EXCEPT ![k] = "Disconnected"]
        /\ Tell(k, "error")
     \/ /\ Connect(p, k, service[p], Append(queue, [Hop(k) EXCEPT !.proxy = p]))
        /\ state' = [state EXCEPT ![k] = "Connected"]
        /\ link' = [link EXCEPT ![k] = "down"]
        /\ Tell(k, "error")
  /\ UNCHANGED <<gone, busGone, asked, curid, pending, token, wanted, objects, heard>>

\* With one it only makes the first call, with id 1 of the new bus.
ConnectAsync(p, k) ==
  /\ Connect(p, k, service[p], queue)
  /\ state' = [state EXCEPT ![k] = "Connecting"]
  /\ curid' = [curid EXCEPT ![k] = 1]
  /\ pending' = [pending EXCEPT ![k] = {Call("answer", p, 1)}]
  /\ token' = token \cup {k}
  /\ wanted' \in {wanted, wanted \cup {k}}
  /\ objects' = [objects EXCEPT ![p][1] = k]
  /\ UNCHANGED <<gone, busGone, asked, link, told, heard>>

\* A URL without a protocol, or with one nobody registered: the new connection object
\* gets no bus, and is like the one a proxy starts with.
ConnectRefused(p) ==
  /\ BadUrls /\ p \notin gone /\ (p \in Patient => Quiet /\ service[p] = 0)
  /\ Rebind([conn EXCEPT ![p] = 0], service, exists, bus, queue)
  /\ UNCHANGED <<gone, made, state, busGone, asked, link, maker, curid, pending, token,
                 wanted, objects, told, heard>>

\* A synchronous selectService() on a connection that works, then operator=.
SelectService(p) ==
  LET k == conn[p] IN
  /\ p \notin gone
  /\ k \in bus /\ state[k] = "Connected" /\ link[k] = "up"
  /\ service[p] # k
  /\ Rebind(conn, [service EXCEPT ![p] = k], exists, bus, queue)
  /\ UNCHANGED <<gone, made, state, busGone, asked, link, maker, curid, pending, token,
                 wanted, objects, told, heard>>

\* deselectService(): the last one to let go of a service lets go of its
\* connection, too.
DeselectService(p) ==
  /\ p \notin gone /\ service[p] # 0
  /\ Rebind(conn, [service EXCEPT ![p] = 0], exists, bus, queue)
  /\ UNCHANGED <<gone, made, state, busGone, asked, link, maker, curid, pending, token,
                 wanted, objects, told, heard>>

\* q = p.getService(...): operator= takes the service and its connection, and
\* connects no signal.
Assign(q, p) ==
  LET k == conn[p] IN
  /\ Sharing /\ p # q /\ {p, q} \cap gone = {}
  /\ k \in bus /\ state[k] = "Connected" /\ link[k] = "up"
  /\ conn[q] # k
  /\ Rebind([conn EXCEPT ![q] = k], [service EXCEPT ![q] = k], exists, bus, queue)
  /\ UNCHANGED <<gone, made, state, busGone, asked, link, maker, curid, pending, token,
                 wanted, objects, told, heard>>

\* Mutant: "disconnect()" is not called.
Disconnect_Unsaid(p) ==
  LET k == conn[p] IN
  /\ p \notin gone /\ (p \in Patient => Quiet)
  /\ k \in bus /\ state[k] # "Disconnected"
  /\ TearDown(k)
  /\ UNCHANGED <<holders, made, exists, busGone, asked, link, maker, curid, pending,
                 token, wanted, objects, queue, told, heard>>

\* disconnect(): the call is posted to the bus, then the bus is given up.
Disconnect(p) ==
  LET k == conn[p] IN
  /\ p \notin gone /\ (p \in Patient => Quiet)
  /\ k \in bus /\ state[k] # "Disconnected"
  /\ asked' = asked \cup {k}
  /\ TearDown(k)
  /\ UNCHANGED <<holders, made, exists, busGone, link, maker, curid, pending, token,
                 wanted, objects, queue, told, heard>>

\* ~ClientProxy; events posted to it and to its private object vanish.
Destroy(p) ==
  LET c == [conn EXCEPT ![p] = 0] s == [service EXCEPT ![p] = 0] IN
  /\ p \notin gone
  /\ gone' = gone \cup {p}
  /\ Rebind(c, s, exists, bus, Only(queue, LAMBDA e : e.ev = "hop" \/ e.proxy # p))
  /\ UNCHANGED <<made, state, busGone, asked, link, maker, curid, pending, token,
                 wanted, objects, told, heard>>

-----------------------------------------------------------------------------
(* The protocol threads.                                                    *)

\* The bus answers every call it still has, with an error.
Swept(k) ==
  SetToSeq({Answer(c, k, FALSE) : c \in {d \in pending[k] : d.proxy \notin gone}})

\* The connect call is handled: the link is up, or an error comes back, and what
\* there was of a link tells of its end.
LinkUp(k) ==
  /\ k <= made /\ link[k] = "idle" /\ k \notin busGone
  /\ \/ /\ link' = [link EXCEPT ![k] = "up"]
        /\ queue' = queue \o [i \in 1 .. Len(Swept(k)) |-> [Swept(k)[i] EXCEPT !.ok = TRUE]]
     \/ /\ link' = [link EXCEPT ![k] = "down"]
        /\ \E end \in {<<>>, <<Hop(k)>>} :
             queue' = queue \o Swept(k) \o IF k \in exists THEN end ELSE <<>>
  /\ pending' = [pending EXCEPT ![k] = {}]
  /\ UNCHANGED <<holders, made, exists, state, bus, freed, busGone, asked, maker, curid,
                 token, wanted, objects, told, heard>>

\* The calls behind it: the server answers, and may refuse the service; or
\* there is no link any more.
LinkAnswers(k) ==
  /\ link[k] # "idle" /\ pending[k] # {} /\ k \notin busGone
  /\ \E selected \in BOOLEAN :
       queue' = queue \o [i \in 1 .. Len(Swept(k)) |->
         [Swept(k)[i] EXCEPT !.ok = link[k] = "up" /\ (Swept(k)[i].ev = "selected" => selected)]]
  /\ pending' = [pending EXCEPT ![k] = {}]
  /\ UNCHANGED <<holders, made, exists, state, bus, freed, busGone, asked, link, maker,
                 curid, token, wanted, objects, told, heard>>

\* The link ends, by itself or because "disconnect()" was handled: the bus
\* sweeps, then its disconnected() is queued to the connection object.
LinkDown(k) ==
  /\ link[k] = "up" /\ k \notin busGone
  /\ link' = [link EXCEPT ![k] = "down"]
  /\ pending' = [pending EXCEPT ![k] = {}]
  /\ queue' = queue \o Swept(k) \o IF k \in exists THEN <<Hop(k)>> ELSE <<>>
  /\ UNCHANGED <<holders, made, exists, state, bus, freed, busGone, asked, maker, curid,
                 token, wanted, objects, told, heard>>

\* The deferred deletion: behind a "disconnect()" if there was one.
BusDies(k) ==
  /\ freed[k] > 0 /\ k \notin busGone /\ link[k] # "idle"
  /\ k \in asked => link[k] = "down"
  /\ busGone' = busGone \cup {k}
  /\ link' = [link EXCEPT ![k] = "down"]
  /\ pending' = [pending EXCEPT ![k] = {}]
  /\ queue' = queue \o Swept(k)
  /\ UNCHANGED <<holders, made, exists, state, bus, freed, asked, maker, curid, token,
                 wanted, objects, told, heard>>

-----------------------------------------------------------------------------
(* The event loop of the application's thread.                              *)

Arrives(ev) == queue # <<>> /\ Head(queue).ev = ev
Rest == Tail(queue)

\* Mutant: only disconnectedSlot() is connected, not the signal.
Forwarded_SlotOnly ==
  LET k == Head(queue).of IN
  /\ Arrives("hop")
  /\ queue' = Rest \o IF maker[k] \in gone THEN <<>> ELSE <<Slot(k)>>
  /\ UNCHANGED <<holders, made, exists, state, bus, freed, busGone, asked, link, maker,
                 curid, pending, token, wanted, objects, told, heard>>

\* ConnectionData::disconnected() is emitted: two more events for the proxy
\* that made the connection.
Forwarded ==
  LET k == Head(queue).of IN
  /\ Arrives("hop")
  /\ queue' = Rest \o IF maker[k] \in gone THEN <<>> ELSE <<Slot(k), Signal(k)>>
  /\ UNCHANGED <<holders, made, exists, state, bus, freed, busGone, asked, link, maker,
                 curid, pending, token, wanted, objects, told, heard>>

\* Mutant: without the early returns.
DisconnectedSlot_Unchecked ==
  /\ Arrives("slot")
  /\ queue' = Rest
  /\ TearDown(conn[Head(queue).proxy])
  /\ UNCHANGED <<holders, made, exists, busGone, asked, link, maker, curid, pending,
                 token, wanted, objects, told, heard>>

\* disconnectedSlot(): it does not know which connection was lost.
DisconnectedSlot ==
  LET k == conn[Head(queue).proxy] IN
  /\ Arrives("slot")
  /\ queue' = Rest
  /\ IF k \in bus /\ state[k] # "Disconnected"
       THEN TearDown(k)
       ELSE UNCHANGED <<state, bus, freed>>
  /\ UNCHANGED <<holders, made, exists, busGone, asked, link, maker, curid, pending,
                 token, wanted, objects, told, heard>>

\* ClientProxy::disconnected() is emitted.
Emitted ==
  /\ Arrives("signal")
  /\ queue' = Rest
  /\ heard' = heard \cup {<<Head(queue).proxy, Head(queue).of>>}
  /\ UNCHANGED <<holders, made, exists, state, bus, freed, busGone, asked, link, maker,
                 curid, pending, token, wanted, objects, told>>

\* connectCompleted(), on whatever connection the proxy has now: report the
\* failure; or set the token next, or select the service; or report success.
CompletedWith(p, id, what, s) ==
  /\ token' = token \ {conn[p]} /\ wanted' = wanted \ {conn[p]}
  /\ state' = [state EXCEPT ![conn[p]] = s]
  /\ objects' = [objects EXCEPT ![p][id] = 0]
  /\ Tell(objects[p][id], what)
  /\ UNCHANGED <<pending, curid>>

\* Mutant: success is reported before the next call is answered.
CallNext_Hasty(p, id, ev) ==
  LET k == conn[p] next == curid[k] + 1 IN
  /\ curid' = [curid EXCEPT ![k] = next]
  /\ pending' = [pending EXCEPT ![k] = @ \cup {Call(ev, p, next)}]
  /\ objects' = [objects EXCEPT ![p][id] = 0, ![p][next] = objects[p][id]]
  /\ Tell(objects[p][id], "ok")
  /\ UNCHANGED state

CallNext(p, id, ev) ==
  LET k == conn[p] next == curid[k] + 1 IN
  /\ curid' = [curid EXCEPT ![k] = next]
  /\ pending' = [pending EXCEPT ![k] = @ \cup {Call(ev, p, next)}]
  /\ objects' = [objects EXCEPT ![p][id] = 0, ![p][next] = objects[p][id]]
  /\ UNCHANGED <<state, told>>

ConnectCompleted ==
  LET e == Head(queue) p == e.proxy k == conn[p] IN
  /\ Arrives("answer")
  /\ queue' = Rest
  /\ \/ /\ ~e.ok \/ (k \in token \cup wanted /\ k \notin bus)
        /\ CompletedWith(p, e.id, "error", "Disconnected")
     \/ /\ e.ok /\ k \in token /\ k \in bus
        /\ token' = token \ {k} /\ UNCHANGED wanted
        /\ CallNext(p, e.id, "answer")
     \/ /\ e.ok /\ k \notin token /\ k \in wanted /\ k \in bus
        /\ wanted' = wanted \ {k} /\ UNCHANGED token
        /\ CallNext(p, e.id, "selected")
     \/ /\ e.ok /\ k \notin token \cup wanted
        /\ CompletedWith(p, e.id, "ok", "Connected")
  /\ UNCHANGED <<holders, made, exists, bus, freed, busGone, asked, link, maker, heard>>

\* The calls of getService(), taken as one, are answered: operator= takes the
\* service, and connectCompleted() is called through a queued signal.
SelectServiceCompleted ==
  LET e == Head(queue) p == e.proxy k == conn[p] ok == e.ok /\ k \in bus IN
  /\ Arrives("selected")
  /\ Rebind(conn, [service EXCEPT ![p] = IF ok THEN k ELSE @], exists, bus,
            Append(Rest, [e EXCEPT !.ev = "answer", !.ok = ok]))
  /\ UNCHANGED <<gone, made, state, busGone, asked, link, maker, curid, pending, token,
                 wanted, objects, told, heard>>

EventLoop ==
  Forwarded \/ DisconnectedSlot \/ Emitted \/ ConnectCompleted \/ SelectServiceCompleted

Application(p) ==
  \/ \E k \in Conns : ConnectSync(p, k) \/ ConnectAsync(p, k)
  \/ ConnectRefused(p) \/ SelectService(p) \/ DeselectService(p)
  \/ \E q \in Proxies : Assign(q, p)
  \/ Disconnect(p)
  \/ Destroy(p)

Protocol(k) == LinkUp(k) \/ LinkAnswers(k) \/ LinkDown(k) \/ BusDies(k)

Next == (\E p \in Proxies : Application(p)) \/ (\E k \in Conns : Protocol(k)) \/ EventLoop

Spec == Init /\ [][Next]_vars
-----------------------------------------------------------------------------
(* Fairness: the event loops of the protocol threads and of the            *)
(* application's thread run.                                                *)
FairSpec ==
  /\ Spec
  /\ WF_vars(EventLoop)
  /\ \A k \in Conns : /\ WF_vars(LinkUp(k)) /\ WF_vars(LinkAnswers(k)) /\ WF_vars(BusDies(k))
                      /\ WF_vars(k \in asked /\ LinkDown(k))

-----------------------------------------------------------------------------
(* Properties.                                                              *)

\* Each bus is deleted once, and not before the connection was torn down or
\* the last proxy and service let go of it.
BusFreedOnce ==
  \A k \in 1 .. made :
    /\ k \in exists /\ k \in bus => freed[k] = 0
    /\ k \notin bus => freed[k] = 1
    /\ k \notin exists => k \notin bus

\* A connection is only torn down for its own sake: because it was lost or
\* because its user disconnected it.
LossIsOwn == \A k \in exists : k \notin bus /\ k \notin asked => link[k] = "down"

\* The caller of connect() is told once: of success only if the connection was
\* made, its token set and its service selected, of an error only if it does
\* not last.
ReportedOnce ==
  \A k \in 1 .. made :
    /\ Len(told[k]) <= 1
    /\ told[k] = <<"ok">> => link[k] # "idle" /\ k \notin token \cup wanted
    /\ told[k] = <<"error">> => link[k] = "down" \/ state[k] = "Disconnected"

\* Every connection let go of ends: its bus is deleted with its thread.
BusEnds == \A k \in Conns : (k <= made /\ k \notin exists) ~> k \in busGone

\* The caller of an asynchronous connect() is told, unless its proxy is gone.
ConnectReported ==
  \A k \in Conns : k <= made ~> told[k] # <<>> \/ maker[k] \in gone \/ conn[maker[k]] # k

\* "This is emitted when the protocol becomes disconnected": a proxy that is
\* on a connection when it is lost hears of it, if it stays and does not
\* disconnect in between.
LossHeard ==
  \A p \in Proxies, k \in Conns :
    conn[p] = k /\ k \notin asked /\ link[k] = "down" /\ told[k] = <<"ok">>
      ~> <<p, k>> \in heard \/ conn[p] # k \/ p \in gone \/ k \in asked

\* What its user is promised to hear of a connection, he hears: the outcome of
\* connect(), and the end.
ToldOf == ConnectReported /\ LossHeard

\* A connection comes to its end for the library and for its user.
ConnectionsEnd == BusEnds /\ ToldOf
=============================================================================
