# A TLA+ verification of QtRpc2

QtRpc2 is a remote procedure call library for Qt. A client holds a `ClientProxy`; a server
registers service classes with a `Server`, listens on tcp, local sockets or a forked process,
and makes one protocol instance per connection and one service object per selected service.
Calls, their answers, events and callbacks travel as numbered messages. This directory holds
TLA+ modules of the library's concurrent and distributed core, the TLC configurations that
check them, and TLAPS proofs. All line numbers are those of `src/lib/`.

## 1. Inventory

| part | state | operations | talks to | module |
|---|---|---|---|---|
| `ClientMessageBus` | `curid`, wait list `wm`, `returnValues`, mutex, wait condition | `callFunction` (blocking, asynchronous), `returnReceived`, `disconnected`, destructor | callers' threads; the protocol through queued signals | MessageBus, CallContract |
| client protocols (`base`, `iodevice`, `tcp`, `socket`) | socket, message version, read buffer, ping timer | `sendFunction`, `protocolConnect/Disconnect`, `readyRead`, `checkProtocolFunction`, `protocolFunction`, `ping` | the bus (signals), the server (messages) | Session, Framing, Keepalive, SocketLink |
| `ClientProtocolThread` | the bus, the protocol, mutex and condition of the start | `init`, `initialize`, `run`, destructor | creates bus and protocol, ends with the bus | ProtocolThread |
| `ClientProxy`, `ConnectionData`, `ServiceData` | shared connection and service, `connectObjects`, state | `connect`, `connectCompleted`, `selectService`, `getService`, `disconnect`, `disconnectedSlot`, `operator=`, `functionCalled` | its bus, other proxies that share the connection | ProxyConnection, Services, Authentication |
| server instances (`base`, `iodevice`, `tcp`, `socket`) | `State`, message version, services by id, services without authentication, ping timer | `init`, `setSsl`, `selectService`, `callFunction`, `parseReturn`, `readyRead`, `ping`, `disconnect` | `ServiceProxy`, the client | Session, Framing, ServiceTable, Keepalive |
| `ProxyBase`, `ServiceProxy` | tables of functions, events and callbacks; calls to answer later | `init`, `qt_metacall`, `callFunction`, `sendReturn`, `functionCalled` | the service object, the instance | Dispatch |
| `Server`, `ServerThread`, factories | `threads`, `threadCount`, registered services | `requestThread`, `removeService`, `registerService`, `requestService` | listeners, instances | ServerPool, ServiceTable |
| listeners (`base`, `tcp`, `socket`, `process`) | ssl mode, certificate, two read-write locks, the socket's file, children | `incomingConnection`, `prepareInstance`, `setSslMode`, `setCertificate`, `listen`, `close`, the handler of SIGCHLD | the server, the instances | ServerPool, ListenerTcp, ForkedServer, SocketLink |
| `Message`, `ReturnValue`, `Signature` | implicitly shared data | stream operators, parsing, setters, copies | all of the above | Framing, Signatures, Values |
| `AuthToken` | maps behind a lock, which copies share | copy, detach, set, get | proxies, both ends | AuthToken, Authentication |
| discovery (`ServiceFinder`, `ServicePublisher`, `Qxt*`) | queues of services heard of, resolved, looked up; state of a registration | `scan`, `publish`, `browse`, `resolve`, `lookupHost` | the mDNS daemon | Finder, Publisher, ServiceNames, Discovery, AvahiPoll |

**Who runs where.** Callers' threads sleep in the bus. One protocol thread per connection runs
the bus' slots and the protocol. Proxies and receivers run in their own thread's event loop.
On the server, an instance runs on the server's thread, a thread of the pool, its own, or in a
child process. Between threads everything is a queued event, except the bus' three shared
tables, the tokens, the listener's settings and the pool's counts, each behind locks of its
own. Discovery runs on one thread, with a daemon that answers in any order.

**What is hard about it.** A caller that goes to sleep while its answer arrives; a sweep of all
open calls that runs while answers still come in; a time-out computed unsigned; a bus that is
deleted while threads sleep in it; two ends that switch the format of their messages at
different times, with messages cut into parts under way; a chain of asynchronous calls
continued on whatever connection the proxy has by then; queued `disconnected()` events that
arrive at a proxy which has connected again; service objects that several connections hold;
slots that answer at once or later, found by their signatures; pings that cross a change of the
time-out; locks taken twice or crosswise; signals of the system that merge; answers of a daemon
about services that are gone. `PROJECT.json` lists the hazards with their lines and the property
that watches each.

**What makes each part correct.**
- Bus: every call is completed once, by its own answer; no sleeper misses its answer; nobody is
  inside when it is freed; every call ends.
- Session: each message is read in the format it was written in; no legal call comes too early;
  no call is lost or answered twice.
- Framing: the messages handled are the messages written, however the stream is cut.
- Proxy: each bus is deleted once and no sooner; each `connect()` is reported once; a loss tears
  down only the connection that was lost.
- Services: an event reaches the proxies that hold its service and no other; one `ServiceData`
  per service; each request is reported once.
- Dispatch: a call, an event or a callback reaches its namesake, or there is none; a call is answered
  once, unless its slot answers it in two ways.
- Service table: an object lives as long as a connection holds it, under one number, and writes
  to no instance that is gone.
- Authentication: a service is told to serve whom the application meant.
- Server: counts equal the instances that live on a thread; instances live on running threads;
  settings belong together; children are reaped as they exit, and waited for only after one was
  stopped or continued; the socket's file leads to the server that listens.
- Keepalive: neither end gives up on one that is there; a loss is noticed.
- Discovery: what is published is on the network once; what is heard of is reported once; both ends
  name a service alike.

## 2. Modules

### CallContract, MessageBus, MCMessageBus, MessageBus_proofs

`CallContract` is what the bus promises, in three actions: issue, reply, complete.

`MessageBus` is the bus with its threads. A caller's `pc` follows `callFunction`: `out`,
`entering` (it has read the bus pointer), `compute` (it holds the mutex, between a look at the
timer and `wait`), `asleep`, `woken` (it must take the mutex again). Every other critical
section is one step, possible only when no caller is at `compute`. `out` is the queue of
signals to the protocol thread; `Handle...` are `sendFunction` and the tcp protocol's reaction
to it; `stage` says whether the thread is in its event loop, in a sweep of `disconnected()` or
in the destructor (`dying`, the 10 ms `nap`, `dying2`, `gone`); `pass` is the copy of
`wm.keys()` the sweep walks through, one id per step, so answers and callers interleave with
it. `clock` is the timer against the timeout (`early`, equal, `late`): `wait`'s argument wraps
to an unbounded wait exactly if it is `late` when the difference is computed, which `forever`
remembers. `seen` is a history of what each issuer was told. Receivers of asynchronous answers
can die at any moment; Qt drops what is posted to them. `Racing = FALSE` says that the proxy
does not delete the bus between another thread's read of its pointer and that thread's call;
`clientproxy.cpp` guarantees that only for one thread per proxy. The proofs hold for both, but for that of
`NobodyForgotten` (section 4).

The nap is modelled as long enough for the threads woken by the first sweep to leave; that is
the assumption of `USE_MESSAGEBUS_FIX`, and `NobodyLeftInside` shows what rests on it.

### Session, Session_proofs

One connection: the client's and the server's protocol with the messages under way in each
direction. `setup` is drawn once: the two builds (which fix the highest version each end
knows), the url scheme, and the listener's ssl mode. The server's `state` is its
`Connecting`/`Service`/`Ready` machine; `tls` is the handshake (`doomed` when unencrypted data
was already under way behind the client's `setSsl`); `wired` turns `FALSE` when the client
protocol calls `QObject::disconnect()`; `told` counts the answers the bus got for each call.
`Call` issues what the public interface allows: a service is selected once the connect call is
answered, authenticated once selected, called once authenticated. `listServices()` and its
kind may come before that, with an agreed version in `Early`; with version 1, which has no
magic number to tell the old format by, such a call is not read (both builds of this
repository speak version 2).

### ProxyConnection, ProxyConnection_proofs

`ClientProxy` objects that share `ConnectionData`. Connection *k* is the one the *k*-th
`connect()` made. `queue` holds the events posted to the application's thread: the answers of
`connectCompleted`'s chain, and the two hops of a loss (bus to connection, connection to the
proxy that made it). `Rebind` is reference counting: whatever nothing points to any more is
destroyed, with what is posted to it. `objects` is `connectObjects`, keyed by call id as in the
code. Synchronous calls block the application's thread and are one step with every outcome: a
connect that fails may tell of its own link's end, and a link may come up after the wait for it
was given up. With `BadUrls` there are URLs that `connect()` refuses, after which the proxy has
a connection without a bus, as at first (`ConnectRefused`).
`Patient` names the proxies whose users wait until nothing is under way before they connect or
disconnect: some of the promises hold only for them (section 3). What is left of `queue` is said
with `Only` (Subsequences).

### Services, Services_proofs, Subsequences, Subsequences_proofs

What the proxies of one connection do with its services. `data` are the `ServiceData` objects,
each with its `list` of proxies and its `primary`; `alive` are those that a proxy, a return value
under way or the status of a `getService()` still points to. `Point` is the reference counting:
an object that is no longer pointed to is destroyed and unregisters itself from `table`
(`serviceDataObjects`, weak pointers by service id). `chains` is `getServiceStatus` and
`chainOf` is `getServiceObjects`: a `getService()` is known by the id of its first call and
continued under the ids of the later ones. `queue` holds what is posted to the application's
thread: answers, results on their way to the receivers (queued once more by
`sendReturnValue`), events and callbacks, and the loss of the connection. `inside` is the walk of
`sendEvent` through its copy of the list. A synchronous `selectService()` blocks the thread and
is one step. `open` are the calls the bus has not answered; the server's side is a counter of
services and the order of its answers. `owed` is a history: one result for each call.

`Subsequences` says what is left of a list or a queue when some is taken out, as `Only`: it is
`SelectSeq`, of which the provers know nothing, by counting indices; its lemmas, which the proofs of
Services, ProxyConnection and Calls share, are in `Subsequences_proofs`. Three guards (`curid + 1 \in
Ids` in `Make`, `s \in ServiceIds` in `SelectService`, and the bound of `Serve`'s counter) say of the
bounds what the guards around them imply, so that the proofs need no counting argument for
them; the reachable states are the same.

Slots run inside `sendEvent` may call, but not delete or reassign proxies (section 3, what was
noticed). `destroyService`, which `~ServiceData` sends, is left out: nothing handles it.

### Framing, MessageChannel

One direction of one connection: what the stream operators of `Message` make of each kind of
message in the three formats, the size in front of each, and the `readyRead()` loops that put
messages together from whatever parts arrive. The unit of the stream is a 32 bit word, since
every size and tag the code reads is one or two of them; a string, a signature or a value takes
one. `Encode` and `Decode` are `operator<<` and `operator>>`, with the zeros a `QDataStream`
reads past its end; `Shown` is the reference, what a reader of each version is meant to make
of a message. The reader's variables are the code's (`total`, `buffer`), and the loop (`Loops`,
`EndLoop`) may stop wherever the code breaks. `MessageChannel` is the promise, whole messages in
order until the connection is cut; that Framing implements it is proved in Calls_proofs.

### Dispatch, MCDispatch, Signatures

The tables `ProxyBase::init()` makes of two classes, and the way of a call, an event or a callback
through them: number, signature, message, signature, number. Classes are sequences of methods
with their kind, return type and signature, as moc describes a class that compiles: no two
methods of one have the same signature (`ClassesAssumption`). `MCDispatch` gives three of each
side, chosen for what meets what: namesakes of another kind, of other arguments, asynchronous and
not, with the copies moc makes for default arguments. `Tables` numbers the methods a list of types
chooses (`Chosen`) by counting them, which is what the loop with its counter comes to. A slot of
either kind may ask for the id of its call, send an answer before it returns (`SendReturnAtOnce`),
and return a value, an error or `ReturnValue::asyncronous()` (`Outcomes`); `ReturnWritten` is what
`callFunction()` makes of that, `promised` holds the ids under which slots will answer once they
have returned. A slot calls `sendReturn()` once at most for a call, and has asked for its id if it
leaves the answer to it. `Signatures` is `Signature::parse()` with `toString()` and `test()`.

### ServiceTable

The service objects of a server with two connections or more: the factories, each instance's
table (`services` by number), the holders, which share an object by its `weakPointer`, what
`parseReturn()` makes of an object that is new, returned again or another's, and the end of an object by its
last holder or by `deleteLater()`. What is called in between is Session's and Dispatch's.

### Values

`Signature`, `ReturnValue` and `Message` as handles on data that copies share: which operation
detaches, which assigns in place. `Read` is `operator>>` into a value that had another before.

### Authentication

What a token carries. `connect()` puts the service of its URL and a mark for the next step of
the chain into the token it was given, the protocol's thread writes the token out when it gets to
the message, and the session keeps a copy as its default. The history `pick` is what is being
selected and the users that can be meant by it, `meant` the same for the default token. Two
assumptions keep to what the code supports: no other attempt is under way with the same token,
and a service that a failed synchronous `connect()` left in a token is not taken for that of
a later URL without one (section 3, what was noticed). `Failed` is the state in which such a
`connect()` leaves the proxy: connected, without a service, to be disconnected by its user.

### Calls, Calls_proofs

The composition of the five parts a call goes through that share no state (Dispatch, Framing,
ServiceTable, Values, Authentication): one is looked at in a behaviour, the others stand still.

### ServerPool

`prepareInstance`, `requestThread` and `removeService` under the four threading models, chosen
in `Init`. `Chosen` is the search: the first idle thread, else the last one below the first
one's count, else the first: `lowest` is never lowered in the code (server.cpp:126), so that is
what it computes. `quitting` are the queued `quit()` calls of threads of an instance's own.

### ListenerTcp

`incomingConnection()` takes both read locks through `QReadLocker` and then each again around
the property it sets; the setters write behind the same locks. The lock is Qt's: not recursive,
and a waiting writer keeps new readers out. `threaded` says whether the setters run on other
threads or on the listener's own.

### ForkedServer

The process per connection: the server forks, or fails to, closes its descriptor, and reaps in the
handler of SIGCHLD. Children raise it when they exit, are killed, stopped or continued;
deliveries merge while one is pending. Each runs one `waitpid()` without `WNOHANG`: it reaps a
child, fails when there is none, and waits as long as children live and none has exited. The
histories `spurious` and `merged` count what was raised for no exit and what merged. The child
configures one instance from its listener and ends when the thread of the instance does.

### Keepalive

Both ends of a tcp connection with their timers. Time goes by in seconds, as the comparisons
of `lastPing` do; the timers go off within a second, since the code divides seconds by four and
uses them as milliseconds. `Second` lets time pass only when the timers have gone off and what
was sent is read. `Late = FALSE`: the service does not enable a time-out, or lower it, when
more time has passed at the client since its last ping. With `Late = TRUE` the client gives up
on a server that is there (`OnlyTheDead` is violated): the client's `enableTimeout` starts the
timer, but leaves `lastPing` at the connect or the last ping (clientprotocoltcp.cpp:147).

### ProtocolThread

`init()` with its mutex, `initialize()` and `run()`, which meet twice on one wait condition, and the
end of the thread: the bus is deleted in it, `destroyed()` and the deletion of the thread object
go through the event loop of the thread that called `init()`.

### AuthToken

Handles on shared data with a lock. `copy()` locks its own data, then the other's, and copies
the two maps one after the other; `operator[]` and the accessors hand out references that outlive
the lock (`raced`). The histories `moments` say what the other token held at any moment of the copy.

### SocketLink

Servers that listen on one file, one after the other or at once. `listen()` is two steps, as two
servers may start together: it removes what file there is (`ClearFile`), then binds (`BindFile`),
which fails if there is a file again. A crash leaves the file, and
`~ServerProtocolListenerSocket()` removes whatever has the name. The history `hindered` has those
in `listen()` whom the system stopped or another overtook, `overlapped` those that listen and
did so beside another, or lost the file to one. Clients
connect to what the file leads to, before it is accepted; either end leaves first.

### AvahiPoll

A watch and a timeout of avahi's client as notifier and timer, with avahi's callbacks calling
back to look, update and free.

### Endpoints, Endpoints_proofs

The composition of the eight modules above that share no state, as Calls. `Endpoints_proofs` has
their proofs, those of the pool first.

### Finder

`ServiceFinder` with its browser, resolvers and look-ups, over Avahi and over Bonjour. The names
told by the daemon get ids; `serviceQueue`, `resolverQueue`, `resolveQueue` and `lookups` are the code's,
`reports` and `withdrawn` histories of what was reported and forgotten. The daemon takes any of the
resolvers a doubled signal makes (`answerable`). `thread` is `reading` while a
read of a connection blocks that has nothing to say, `locked` where the slot of a signal takes the lock
it was emitted under, and `broken` where something is used that was freed; from the last two it
does not come back (`Stopped`), and the properties say what holds until then.

### Publisher, ServiceNames, Discovery, Discovery_proofs

`Publisher` is `ServicePublisher` with its `QxtDiscoverableService` against the daemon: `conns` are
all connections ever made, `service` the one the object knows, so that what nobody releases is
seen. The notifier of a connection that failed stays (`watched`), and what it has read is the
connection in use by then (`SocketData`): its answer if there is one; nothing yet, so that the
read blocks (`loop` is `reading`); or one that was released (`broken`). `ServiceNames` is what the two call a service: `SetServiceType`, `FullServiceType` and
`SubTypes` on names split at their commas and dots, for the type that is published, browsed for
and resolved, and the port through `qToBigEndian` and its inverse on machines of either order. A
text is a sequence of parts, these of words, these of pieces, so that only what the code compares
or cuts is told apart. `Discovery` composes Publisher and Finder on one network, or takes either
alone, with more of what can fail, and ServiceNames beside them. Together they publish twice and
scan once, with a daemon that does not fail: the name may come, go and come again while it is heard
of, resolved and looked up.

## 3. Runs

| run | question | bounds | states |
|---|---|---|---|
| `bus` | Are the bus' tables, sleepers and completions right in every order of events, does it implement `CallContract`, and does every call end? | 2 callers, 1 receiver, 2 calls | 116 thousand |
| `session` | Formats, versions, states, conservation of calls; does every call over tcp and sockets end? | all schemes and ssl modes, builds 1 and 2, 4 calls, 3 services, 1 event or callback | 353 thousand |
| `session_ssl` | ... and over tcps? **No.** | 2 calls | 380 |
| `proxy_sharing` | Is each bus deleted exactly once? | 2 proxies that share services, one of them impatient, 2 connects | 2.2 million |
| `proxy_patient` | Connects reported, losses heard, buses ended | 1 patient proxy, 2 connects, refused URLs | 18 thousand |
| `proxy_stale` | Does a loss tear down only its own connection? **No.** | 1 impatient proxy, 2 connects | stops at depth 6 |
| `services` | Do events reach the holders, and every request its receiver? | 2 proxies, 1 getService or selectService, 2 calls, 1 event or callback | 348 thousand |
| `calls` | Do calls reach their slots and come back once, whole, to the right holder, for the right user? | 9 pairs of classes, 2 calls; 3 messages, versions 0 to 2; 2 connections, 2 objects; 2 handles; 2 connections, 1 token, 2 users | 363 thousand |
| `dispatch_twice` | Is an event sent once after its service was returned twice? **No.** | 2 initialisations | stops at depth 3 |
| `shared_service` | Are all who share a service answered? **No.** | 2 connections, 2 objects | stops at depth 8 |
| `endpoints` | Threads, settings, children, time-outs, hand-over, tokens, sockets, polls | 5 instances on 3 threads; 2 setters; 2 children, stopped or continued 2 times; time-outs of 1 and 3 seconds; 2 creators; 2 users of tokens; 3 servers on a file; 3 updates | 63 thousand |
| `discovery` | Is what is published on the network once and told of, and what is heard of reported once? Do both ends name it alike? | 1 name, 2 scans, 3 ids, 3 registrations, 1 failure; together 2 registrations and 1 scan; 7 texts, 2 byte orders on each side | 233 thousand |

**Why the bounds are enough.** In `bus` two calls are two threads that block at once, or one
and an asynchronous call beside it, and their answers, time-outs and the sweep meet on different
ids; what holds for more callers and calls is proved (section 4). In `Session` four calls are
the longest dependency (connect, select, authenticate, call); three services are one selected,
one it returned, and one that returned. In `Services` one get and two calls give up to three
services, or one service returned twice, which is what sharing and a second registration need.
Two connects are what a stale event needs. Five instances on three threads are the least with
which `Chosen` finds no idle thread, and has more than one below the first. In Framing three
messages put one before, one at and one behind the change of version; cuts are at every word. Two
connections and two objects let one share an object, hold another and lose either; with two
handles one copy is always left behind the change. In Keepalive 1 and 3 seconds are the shortest
time-out and one that a change crosses; three servers on one file are an old one, its follower
and one that comes in between. In Finder a second scan connects the signals twice, and three ids
are one service heard of twice over and once again.

**Deadlock** is not checked where the system may stop: a bus that is gone, a session whose ends
are closed, destroyed proxies, a stuck listener or finder, a part that has done all its bounds
let it. Every run is of that kind; what must go on is said by the liveness properties.

**Properties.**
- The bus: `NoLostWakeup`; `OnceAndOwn`; `NobodyForgotten` (an entry of the wait list with a
  receiver is queued, written to a live socket, or about to be swept, and nobody is inside when
  the bus is freed); `ContractSpec`; `CallsReturn`.
- The session: `Understood`; `InTurn`; `CallsConserved` (a call is in exactly one of five places
  while the connection is up); `CallsAnswered`.
- The proxy: `BusFreedOnce`; `LossIsOwn`; `ReportedOnce`; `ConnectionsEnd`.
- The services: `DataAgree`; `RoutedToHolders`; `ChainsUnderWay` (a `getService()` waits for one
  answer of its own, while the bus is there); `AllReported`.
- Calls: `ReachesAsListed` (through numbers, tables and lists of both ends to the namesake of the
  same types, and what is listed is what is reached); `AnsweredOnce`; `CallAnswered`;
  `ChannelSpec` and the half of `ReadAsWritten` that says nothing is left in a buffer;
  `CopiesIndependent`; `ServicesKept`; `LoggedInAsMeant`.
- Endpoints: `CountsLive`, `HomeRuns`, `Placed`; `FutureOnly`; `KeptAlive`, `LossNoticed`;
  `HandedOverWhole`; `SocketReachable`; `CallbacksSound`; `NobodyStuck`.
- Discovery: `RegisteredOnce`; `FinderKeepsTrack`; `NamedAlike`; `AllTold`; `PublishedFound`.

**Fairness.** Weak fairness on what an event loop dispatches and on what a runnable thread does
next, because Qt's loops and the system's scheduler are fair to what is queued and runnable.
What the code does not guarantee is a premise of the property: in `CallsReturn` the answers
come under `PeerFair` (a written call is answered in the end or its connection ends), and no
clock, the time-outs under `ClockFair` and nothing of the peer. In `Session` the services that
return later do so, a handshake ends, and a closed end is noticed by the other; no user call is
assumed to be made. In `Services` the event loop runs and slots return, the server answers what
it has, and the link goes down once the bus was given up. `CallAnswered` assumes that slots
return, and that one that leaves its answer to `sendReturn()`, by its kind or by returning
`asyncronous()`, has asked for the id of its call and keeps the promise to send. In Endpoints the event loops of both
ends run, the thread that called `init()` has one (its destruction of the thread object is
queued there), time goes by in Keepalive, children and copies go on; avahi's timer has strong
fairness, because the events of the watch can switch it off in between again and again, and Qt's
loop still gets round to a timer that is due. In Discovery the daemon answers what it took, and
the loop reads what comes; that it refuses or fails is in the actions.

### Disagreements found

Four runs look for a violation and find it; `PROJECT.json` quotes the lines.
- `session_ssl`: on `enableSsl` the client protocol calls `disconnect()` without an argument,
  meaning to disconnect a slot; it is `QObject::disconnect()` and cuts the protocol off from the
  bus (clientprotocoltcp.cpp:158).
- `proxy_stale`: `disconnectedSlot()` tears down the connection the proxy has when the event
  arrives, not the one that was lost.
- `dispatch_twice`: `ProxyBase::init()` clears its tables but not its connections; a service that
  is returned to its client again sends each event once more for each time.
- `shared_service`: a service belongs to the instance that returned it last; what another client
  called before is answered to the wrong one.

Noticed while modelling, built into the models, and not runs of their own.

The bus and the proxies:
- `wait(&mutex, timeout - timer.elapsed())` wraps if the timer passes the timeout between the
  test and the subtraction (clientmessagebus.cpp:149). Without the disjunct `forever[c]`,
  `CallsReturn` is violated.
- A call that timed out keeps its entry in `wm`; its late answer goes to `returnValues` and
  stays there. The warning at clientmessagebus.cpp:202 expects it to find no entry.
- The return value of a callback goes to a signal nothing is connected to (clientproxy.cpp:887,
  351), against clientproxy.h:116; the server's reply slot stays in its `queue`.
- When `getService()` cannot make its next call because the bus is gone, it reports the error and
  removes the status, but puts it back on its way out (clientproxy.cpp:714). Without `bus =>`,
  `ChainsUnderWay` is violated.
- `~ServiceData` calls `destroyService` (clientproxy.cpp:60), which no server handles or answers:
  services live in the server's table, and the call waits in `wm`, until the connection ends.
- `ServiceData::sendEvent` walks a copy of the list (clientproxy.cpp:91): a slot that deletes
  another proxy of the service makes the walk use it afterwards.
- `operator=(const ClientProxy&)` uses the other's service unchecked (clientproxy.cpp:1033); the
  models assign only proxies that have one. clientproxy.cpp:576 uses a service it has not checked.
- A proxy that was assigned a service is never told of the loss of its connection: `operator=`
  connects no `disconnected()` (clientproxy.cpp:1015 against clientproxy.h:293). `ConnectionsEnd`
  is therefore checked without assignment.
- Attempts to connect that share one token at a time take each other's service and mark from it,
  and a synchronous `connect()` that fails after its URL's service went into the token
  leaves it there (clientproxy.cpp:336): the next with that token and a URL without service selects it.

The server:
- The pool does not pick a thread with the fewest instances (server.cpp:126), as
  server.h:69 has it ("load balanced"): counts 3, 1, 2 pick the third. `NeverBusiest` is what
  does hold.
- `incomingConnection()` takes a read lock it has (serverprotocollistenertcp.cpp:82): with a
  setter waiting on another thread, which serverprotocollistenertcp.h:58 allows, both are stuck.
  `InlineReturns` is about setters on the listener's thread.
- One `waitpid()` for merged SIGCHLDs leaves zombies; and since the handler is not told
  `SA_NOCLDSTOP` (server.cpp:87) and does not pass `WNOHANG` (server.cpp:55), a child that is stopped
  or continued makes the thread the signal finds wait until a child exits. `ReapedInTurn` bounds both.
- When `fork()` fails the server keeps the connection's descriptor open
  (serverprotocollistenerbase.cpp:83): its client waits for nobody.
- Between the removal of the old file and `bind()` (serverprotocollistenersocket.cpp:91, 100)
  another server may bind: `listen()` then fails, though nothing stood in the way of the removal.
- A slot that sends its answer and then returns an error is answered twice, and so is a plain one
  that sends and then returns a value (serviceproxy.cpp:255, 262, with
  serverprotocolinstanceiodevice.cpp:189). Nothing keeps slots from it; `AnsweredOnce` says that only
  these are. The client's bus drops the second.
- An exception of a slot that answers later is not caught (serviceproxy.cpp:254), one of a plain
  slot is (serviceproxy.cpp:264). The model lets no such slot throw.
- A time-out that is disabled leaves the server's timer running, which then does nothing.
- The server's `disconnect()` of a client not heard from is `QObject::disconnect()`
  (serverprotocolinstancetcp.cpp:80): the instance stays until its socket is told.
- While the network is down the client's `disconnectFromHost()` stays closing with pings unsent,
  and `disconnected()` is emitted at each timer. A local socket's `protocolDisconnect()` emits it
  twice as well.
- `~ServerProtocolListenerSocket()` removes the file even if another server bound it since
  (`overlapped`).
- Listing a service's functions lists what the service sends, listing callbacks the slots that
  clients may call, and listing events nothing (`SentAsListed`).
- A slot with `(QObject*, char*)` in front is taken for an asynchronous one by `init()` but not by
  `ServiceProxy::callFunction()`, which only knows `const char*`.
- `initProxy()` in `parseReturn()` hands a service that is returned again an empty set of data.
- `server.h:82` registers without the mutex; programs register before their event loop.

Values and discovery:
- message.h claims thread safety; its copy constructor and `operator=` read the other's data
  without its lock. The models pass messages by queued copies.
- `parse()` of something invalid keeps an old name; arguments of template types are cut at their
  commas; `parseReturn()` writes through shared data, into every copy (`ParseReturn` in Values).
- qxtdiscoverableservice.cpp:394 says "Any outstanding resolve attempt will be aborted": it is not.
- qxtavahipoll.cpp:45 says of freeing a watch "safe to call from an AvahiWatchCallback":
  `activated()` then writes to the watch that was deleted.
- Two tokens copied crosswise, or a token onto a copy that shares its data, stop for good
  (`Crosswise`, excepted by `CopyReturned`). `AuthTokenData`'s copy leaves `defaultToken` out.
- A second `scan()` connects the browser's signals again, and errors enter a queue nothing takes
  them out of (`Failed` in Finder).
- The notifier of a registration that failed outlives it, and has the connection in use read
  (qxtdiscoverableservice.cpp:137): while nothing has come on that, the thread blocks.
- An answer that comes during `doLookup()` has a slot take the lock it was emitted under
  (qxtdiscoverableservicename.cpp:188): the thread is stuck. `PublishedFound` excepts it (`Stopped`), as
  well as what the daemon refused (`Missed`).
- A service whose name has one dot is taken for a type with its protocol: "a.b" and "a.c" are
  both announced as "a" under udp, and resolved under tcp (servicefinder.cpp:115).
  `NamedAlike` is about the others (`Plain`).
- `serviceRemoved()` resolves under the service's name without "QtRpc_" (servicefinder.cpp:133), so
  what it asks for was never announced.
- The name of a resolved service is not parsed (qxtdiscoverableservicename.cpp:71): the resolver's
  name and domain are empty afterwards. The finder uses what it had put into its queue.

## 4. Proofs

TLAPS proves, for every value of the constants (sets of callers, receivers, proxies, threads,
connections, objects, tokens, handles; numbers of messages; every bound):

| theorem | module | says |
|---|---|---|
| `TypeCorrect` | MessageBus_proofs | `Spec => []TypeOK` |
| `WakeupsKept`, `WaitersKeptApart` | | `NoLostWakeup`, `WaitersApart` |
| `CompletesOnce`, `AnswersOwn`, `ToldOnceAndOwn` | | `CompletedOnce`, `OwnAnswer`, and `OnceAndOwn`, which is both |
| `AnswersToCome` | | an entry of the wait list with a receiver is on its way to an answer, as long as the bus lives |
| `NoneForgotten` | | `~Racing => (Spec => []NobodyForgotten)` |
| `BusImplementsContract` | | `Spec => ContractSpec`, with `issued` read as `curid` |
| `BuildsUnderstand` | Session_proofs | `1 \notin Early => (Spec => []Understood)` |
| `CallsInOnePlace`, `NeverTooEarly` | | `CallsConserved`, `InTurn` |
| `FreedOnce` | ProxyConnection_proofs | `BusFreedOnce` |
| `LossOwn`, `ToldOnce` | | `Careful => (Spec => []LossIsOwn)`, and the same of `ReportedOnce` |
| `ServiceDataAgrees`, `EventsReachHolders`, `ChainsAwaitOneCall` | Services_proofs | `DataAgree`, `RoutedToHolders`, `ChainsUnderWay` |
| `LoginsAsMeant` | Calls_proofs | `LoggedInAsMeant` |
| `AnsweredAtMostOnce` | | `AnsweredOnce` |
| `ServicesStayKept` | | `ServicesKept` |
| `CopiesApart` | | the action property `CopiesIndependent` |
| `ReadInItsVersion` | | `Decode(Encode(m, v), v) = Shown(m, v)` for every message and version |
| `ChannelImplemented`, `EverythingHandled` | | `ChannelSpec`, and `AllHandled` of `ReadAsWritten` |
| `WrittenIsRead` | | `ReadAsWritten` |
| `MethodsReachTheirs` | | `ReachesAsListed` |
| `TypeCorrect`, `CountsCorrect`, `HomesCorrect` | Endpoints_proofs | of ServerPool's `Spec`: `TypeOK`, `CountsLive`, `HomeRuns` |
| `IdleThreadsFirst`, `NeverTheBusiest`, `PlacedWell` | | the two action properties of the choice, and `Placed`, which is both |
| `ModeAndCertificateTogether` | | `FutureOnly` |
| `HandedOverInOnePiece`, `CallbacksToldTrue`, `LastServerReached` | | `HandedOverWhole`, `CallbacksSound`, `SocketReachable` |
| `TimeoutKnown`, `NobodyGivenUp` | | the half of `KeptAlive` that always holds, and `~Late => (EndpointsSpec => []KeptAlive)` |
| `PublishedOnce`, `HeardOfOnce`, `FoundUnderItsName` | Discovery_proofs | `RegisteredOnce`, `FinderKeepsTrack`, `NamedAlike` |

**Assumptions.** Only the named ones of the modules, which TLC evaluates in the runs. Bounds are
naturals, switches Boolean, schemes and modes among those the code has. Words a model uses for
"nobody" or "nothing" are none of the model values beside them (`ObjectsAssumption`,
`ProxiesAssumption`, `SettersAssumption`, `CallersAssumption`, `ConnectionsAssumption`,
`LoginsAssumption`). The instances of the pool and the objects of Values are finitely many
(`InstancesAssumption`, `HandlesAssumption`); there is an account to log in to and something to write
into a token (`LoginsAssumption`, `TokenAssumption`), a listener's setting to give
(`ListenerAssumption`), a proxy (`ProxiesAssumption`). No service is called "", which is what a
connection holds that announces nothing (`NamesAssumption`). Three say what a text is made of:
- `ServiceTextsAssumption`: the name of a service is cut at its commas into parts, these at their
  dots into pieces, of which a part has at least one: what `split()` returns.
- `TextsAssumption`: a name or a type has no bracket and no comma of its own, and a text of a
  signature that `parse()` takes has one word before its bracket. A type with a comma, such as a
  template of two arguments, does not read back (section 3, what was noticed).
- `ClassesAssumption`: each method of a class has a valid signature that no other method of it has,
  and is not asynchronous once more behind its first two arguments. C++ grants all but this: a copy
  moc makes for a default argument may have the signature of an overload, in a class whose short
  calls are ambiguous; `callMetacall()` then calls the one moc lists first.

**Hypotheses.** Five theorems have one, and none is a convenience.
- `~Racing` in `NoneForgotten`: the bus frees itself after two sweeps and a nap, and a thread that
  has read its pointer but has not called yet is inside what is freed. The code leaves it to its
  users not to delete a bus that another thread is about to call. With `Racing = TRUE` TLC refutes
  the second half of the invariant; `AnswersToCome`, the first half, has no such hypothesis.
- `1 \notin Early` in `BuildsUnderstand`: a client of version 1 that calls before its `connect()` is
  answered writes what the server reads in the old format, since that version has no magic
  number. Versions 0 and 2 may.
- `~Late` in `NobodyGivenUp`: section 2, Keepalive.
- `Careful`, in `LossOwn` and `ToldOnce`: all proxies are `Patient` and no service is assigned to
  another. `disconnectedSlot()` and `connectCompleted()` do not know which connection they are called
  for, and take the one the proxy has by then. `proxy_stale` shows what an impatient proxy does to
  itself; an assigned one is not told of its loss at all (section 3).

**The bus.** `CompletedOnce` is not inductive: that a completion does not happen twice rests on
where the call is before it. `IndInv` in `MessageBus_proofs` says that a call is in one place
at a time: not issued and unknown everywhere; in the wait list; answered in `returnValues`
(then it is out of the wait list and its caller, if still there, is awake); posted to one
receiver, once; or completed, and then in none of these, except a timed-out synchronous call,
whose leftovers no one can take since its caller is gone and its id belongs to nobody inside.
Each action is proved to keep each conjunct it can disturb; `ReturnReceived`, which five actions
share, has lemmas of its own. The refinement uses the same invariant: completions map to
`Complete`, the protocol's answers to `Reply`, `Register` to `Issue`, and the rest stutters.
`NobodyForgotten` needs two more: `QueueInv`, what is in the queue to the protocol thread and when
the answers of a dead link can still be told, and `DyingInv`, what each sweep of the destructor
has left behind: the second finds nobody asleep whom the first did not wake.

**The session.** The invariant is built in layers, each of which uses those before it. First types.
Then the formats, on which `Understood` rests: `Negotiated` says of each message under way, from
what lies before it in its direction, that it was written in the version its reader will have
when it comes to it (`ToldClient`, `ToldServer`), and that a switch only one end has made is under
way to the other. Then the calls: `OnePlace` says that a call that was made is asked, held,
answered or told, in one of these, and that while both ends are up it is in some; that is
`CallsConserved` with what the places exclude. Then the turns: what a message under way says of
the services and of ssl (`OkAsk`, `OkAnswer`, `SslFirst`, `SslAwaited`), so that the state it is legal in
is reached before it is read: `InTurn`.

**The proxies' connections.** `FreedInv`: what is freed is what no longer is in `bus`, `bus` is part
of what exists, and a connection that is not yet made was not freed. That `Rebind` lets go of a
connection once is the whole of it, whichever of the actions it is used in. For careful users
`PatientInv` says what makes up for what the slots do not know: a connection that exists belongs to
the proxy that made it, which is on it (`Mine`); what is posted to a proxy is about that
connection (`Timely`), and an answer to its chain has no other beside it, neither posted
(`OnceEach`) nor to come (`Waiting`), goes to the call `connectObjects` has last, and finds nothing
told (`Underway`). How many calls the chain has made bounds what it has still to do (`Stages`). It is
`Quiet` in `connect()` that keeps this up when a proxy goes on to a new connection; that a proxy which
is destroyed or refused a URL lets go of its connection with what was posted about it is one lemma
(`LetGo`).

**The services.** In layers again: types; the calls and the chains (`Awaiting`: each status of a
`getService()` has one call under way, or its answer posted); what points where and who is in
which list (`Pointing`), from which `DataAgree`; then the events under way, whose walk holds only
proxies that were in the list. `Point`, the reference counting that most actions end with, is
proved once for what a step may do before it (`Ready`) and what it leaves (`Pointed`).

**Calls and Endpoints.** Their parts share no state, so each part has an invariant that the steps of
the others leave alone (`PartSteps`, and the last cases of each `...Keep`).
- Logins (`LoginsInv`): a chain's token holds the service of its own URL until it selects, what is
  selected is followed by the users its token had at the time, and the session's default by the
  one it was set with.
- Dispatch (`AnswersInv`): a call is in the inbox, running, promised, or none of these any more; it may
  have an answer of either kind (`Alike`) only where that kind is used up (`Unsent`, `Unwritten`).
  `Responding` is shared by the ways of answering.
- Tables (`TablesInv`): `ServicesKept` lacks what it needs of the calls that are to be answered
  late: who called is a holder as long as it lives, and an object that was another's when it was
  called is a shared one (`LateKept`); and that numbers are those that were given out
  (`Numbering`), so that the next is new.
- Framing (`FrameInv`): for each message written there is the version it went in and the stream from
  it on, of which each is the frame of its message and the next (`Carried`). What the reader has
  of a message, its device and the net make up the stream from the message it is at, whatever a
  cut took aside, so that to read on is to compare two ways to part one stream (`SameHead`). One
  message at most changes the version, and each was written in one that its reader can tell
  (`InFormat`, `SeenAsWritten`). The history is under an existential: no variable was added for it,
  and no induction over it is needed, since each stream is only compared with the next.
- Values: pointers lead to places, so that by the pigeonhole there is a free one while two share.
  What reads back needs the types of what the handles hold (`ReadInv`) and what `Parse` makes of
  `ToText`: the words of the list lie at its odd places and the commas between them at the even
  ones, so that what is left without the commas is known by counting (`ParseBack`, `CutBack`).
- Dispatch again (`ReachesInv`): the tables are those of the classes, a connection leads to the number
  under which its signal's signature is kept however often the service was initialised (`Known`,
  `TablesKnown`), and what was called was packed from it (`SentOwn`, `PackedOwn`). The signature is
  of the right types for the values (`OwnTested`), and then `Metacall` finds the one method that has
  it, or no method has it (`MetacallLeads`); for a call `CallReaches` has the two tries.
- Endpoints: `ListenerInv` (who holds which lock where), `ForkInv` (what is still to be
  reaped is counted by the signals that are due and those that merged), `ThreadInv` (the two program counters and the condition between them),
  `TokenInv` (what a copy has taken, and at which moment that was the other's), `SocketInv`
  (of two servers that listen both are in `overlapped`, and while there is a file all that are about
  to bind are `hindered`), `PollInv`, and `KeepaliveInv`: the last message that is no ping tells the client what it does not
  know of the time-out (`Agreeing`), and neither `lastPing` is too old for a time-out its end has
  or is about to be given (`InTime`).

**Discovery.** The publisher and the finder share only the names on the network, which neither
invariant speaks of, so the steps of one leave the other's alone.
- `PublisherInv`: an error on a connection is the end of it; a registration that was accepted is
  read by who waits for it, on the connection in use (`Answers`), and so is what is Registering or
  Registered (`InUse`); and who is blocked in a read is alive and has a connection to read
  (`Reading`). `DaemonKeeps` is shared by the three answers of the daemon.
- `FinderInv`: the places of a service exclude each other (`Placed`, which is `Conserved` without
  the counting), ids were given out, and what is queued under an id is known by it, so that a
  resolver that answers finds its service (`FinderType`). `LookUpsAgree` is part of the induction: that no
  address comes for a look-up nobody waits for is why Avahi reports nothing that was not heard of. What
  `scan()` forgets and what a failure of the browser adds are proved apart (`TablesForgotten`,
  `FailedKeeps`), since a `scan()` may do both.
- `NamesInv`: what was announced, browsed for and heard of was each made of the texts at hand, by the
  operators both ends share; and to turn a port's bytes twice is to leave it, on either machine.

The proof of the publisher found a fault in a model: two `CASE`s of `Publisher` and `Dispatch` had guards
that overlapped, of which TLA+ chooses either; they are `IF`s now, in the order of the code.

**The pool.** `PoolInv` is type, `CountsLive` and `HomeRuns`, where `HomeRuns` is stated with
equivalences so that it is inductive; a count is never negative because the instance that is
destroyed is on its thread, so the set the count measures is not empty. The action properties
follow from `Chosen` with the type of `threadCount`.

**Model-checked only.** The nine liveness properties, which are out of the prover's reach
(`CallsReturn`, `CallsAnswered`, `ConnectionsEnd`, `AllReported`, `CallAnswered`, `LossNoticed`,
`NobodyStuck`, `AllTold`, `PublishedFound`). Every safety property the passing runs check is a
theorem as well. Induction over data is out of reach too: where the models number, cut or select, they
do so by counting indices (`Nth`, `Only`), of which the lemmas of `Subsequences_proofs` say
what is needed, and not by recursion.

## 5. Not modelled, and the plan

Not modelled for good: the conversions of a `QVariant` and of arguments between meta types, which
are Qt's; debug output; properties that only describe a connection (certificate, cipher,
peer); the test protocol, which has no state; permissions of the socket's file; the functions that
pass dns_sd's calls on to avahi one to one; the escaping of service
names. The test client, test
server and examples are programs in a fixed order: what they expect of the library is where the
runs' properties and the classes of `MCDispatch` come from. What they show of themselves was not
modelled: the testclient has no callback for "some toehr stuff" (testclient.cpp:71) and stops
at the first one, and the auth example's user names differ.

Assumed of users, nowhere enforced: slots do not delete or reassign other proxies of the service
that sends (Services); the proxies of one connection live on one thread (ProxyConnection, Services);
no copies of tokens crosswise (AuthToken).

Planned: proxies of one connection on several threads, and slots that delete or reassign other
proxies, which two hazards without a property are about.
