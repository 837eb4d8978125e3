------------------------------ MODULE Session ------------------------------
(***************************************************************************)
(* One connection between a ClientProtocolIODevice and a                   *)
(* ServerProtocolInstanceIODevice, with what their tcp and socket          *)
(* subclasses add: negotiation of the message version, setSsl and the      *)
(* Connecting/Service/Ready states, service selection, authentication,     *)
(* function calls with immediate and asynchronous returns, events and      *)
(* callbacks.  The device delivers whole messages in order until one end   *)
(* closes.  The two ends may be different builds of the library.           *)
(***************************************************************************)
EXTENDS Naturals, Sequences, FiniteSets

CONSTANTS
  Builds,       \* values of Message::currentVersion() in the two peers
  Schemes,      \* url schemes: "tcp", "tcps", "socket"
  SslModes,     \* listener modes: "enabled", "disabled", "forced"
  Early,        \* agreed versions with which clients call before connect is answered
  MaxCalls,     \* bound: how many calls the client makes, connect included
  MaxServices,  \* bound: how many services the instance hands out
  MaxPushes     \* bound: how many events and callbacks the services send

\* Both builds know the negotiation and the formats of Message's operators.
ASSUME BuildsAssumption == Builds \subseteq 1 .. 2
ASSUME SetupAssumption ==
  /\ Schemes \subseteq {"tcp", "tcps", "socket"}
  /\ SslModes \subseteq {"enabled", "disabled", "forced"}
  /\ Early \subseteq 0 .. 2
ASSUME BoundsAssumption ==
  MaxCalls \in Nat \ {0} /\ MaxServices \in Nat /\ MaxPushes \in Nat

VARIABLES
  setup,      \* the builds of the peers, the scheme, the ssl mode: never changes
  cversion,   \* the client protocol's version()
  sversion,   \* the server instance's version
  state,      \* the server instance's State
  csock,      \* the client's socket: "up", "closing" or "down"
  ssock,      \* the server's socket: "up", "closing" or "down"
  tls,        \* encryption: "off", "offered" by the server, "shaking", "doomed", "on"
  wired,      \* the client protocol's signals are connected to the bus
  lost,       \* the bus has been told of a disconnection
  toServer,   \* messages on their way to the server
  toClient,   \* messages on their way to the client
  calls,      \* what the client called, in the order of the ids
  told,       \* how many answers the bus got for each id
  known,      \* services whose id the client has been given
  usable,     \* ... and on which its auth() succeeded, or needs none
  services,   \* curServiceId: the server handed out services 1 .. services
  needsAuth,  \* services on which no auth() succeeded yet
  pending,    \* ids of calls whose function returns asynchronously
  pushed,     \* how many events and callbacks were sent
  queue       \* callbacks whose return value the server waits for

versionVars == <<cversion, sversion>>
clientVars  == <<wired, lost, calls, told, known, usable>>
serverVars  == <<services, needsAuth, pending, pushed, queue>>
wireVars    == <<csock, ssock, tls, toServer, toClient>>
vars == <<setup, versionVars, state, wireVars, clientVars, serverVars>>

Lower(a, b) == IF a < b THEN a ELSE b

\* The version both ends are meant to end up with.
Agreed == Lower(setup.client, setup.server)

Connect == 1                       \* the id of the connect call
Level   == [Connecting |-> 0, Service |-> 1, Ready |-> 2]

\* A message in the format of version ver.  arg is a version, a state, an
\* error level, a flag or a service id; 0 stands for no service.
Msg(ver, is, id, arg) == [ver |-> ver, is |-> is, id |-> id, arg |-> arg]

\* The messages that fit in one format can be read in it.  The server tries
\* version 0 when the magic number of version 2 is missing.
ClientCanRead(m) == m.ver = cversion

ServerCanRead(m) == m.ver = sversion \/ (m.ver = 0 /\ sversion = 2)

Called(id) == id \in DOMAIN calls
IdsOf == DOMAIN calls

Setups == [client : Builds, server : Builds, scheme : Schemes, ssl : SslModes]

\* The client has connected the device and posted nothing but connect(); the
\* server instance has run init(): welcome, and on a socket Service at once.
Init ==
  /\ setup \in Setups
  /\ cversion = 0 /\ sversion = 0
  /\ state = IF setup.scheme = "socket" THEN "Service" ELSE "Connecting"
  /\ csock = "up" /\ ssock = "up" /\ tls = "off"
  /\ wired = TRUE /\ lost = FALSE
  /\ toServer = <<>>
  /\ toClient = <<Msg(0, "welcome", 0, setup.server)>>
                  \o IF setup.scheme = "socket" THEN <<Msg(0, "stateChanged", 0, 1)>> ELSE <<>>
  /\ calls = <<[kind |-> "connect", on |-> 0]>>
  /\ told = <<0>>
  /\ known = {} /\ usable = {}
  /\ services = 0 /\ needsAuth = {}
  /\ pending = {} /\ pushed = 0 /\ queue = {}

-----------------------------------------------------------------------------
(* Writing, and telling the bus.                                            *)

\* What the peer will find when ms is written behind q.
Written(q, ms) == q \o ms
FromClient(ms) == toServer' = IF ssock # "down" THEN Written(toServer, ms) ELSE toServer
FromServer(ms) == toClient' = IF csock # "down" THEN Written(toClient, ms) ELSE toClient

\* emit returnReceived: it reaches the bus while the signals are connected.
Tell(id)    == told' = IF wired THEN [told EXCEPT ![id] = @ + 1] ELSE told
TellNobody  == UNCHANGED told

\* emit disconnected
TellLost == lost' = (lost \/ wired)

-----------------------------------------------------------------------------
(* The client's calls, as the protocol thread handles them.                 *)

\* function(): write the call, or answer it at once without a socket.
Send(kind, on) ==
  LET id == Len(calls) + 1 IN
  /\ Len(calls) < MaxCalls
  /\ calls' = Append(calls, [kind |-> kind, on |-> on])
  /\ \/ /\ csock # "down"
        /\ FromClient(<<Msg(cversion, kind, id, on)>>)
        /\ told' = Append(told, 0)
     \/ /\ csock = "down"
        /\ told' = Append(told, IF wired THEN 1 ELSE 0)
        /\ UNCHANGED toServer

\* Services are selected, authenticated and called in that order, once the
\* connect call is answered; listServices() and the like may come earlier.
Call ==
  /\ \/ /\ Agreed \in Early \/ told[Connect] > 0
        /\ Send("list", 0)
     \/ /\ told[Connect] > 0
        /\ \E found \in {0, 1} : Send("select", found)
     \/ \E s \in known : Send("auth", s)
     \/ \E s \in usable : Send("call", s)
  /\ UNCHANGED <<setup, versionVars, state, csock, ssock, tls, toClient, wired, lost,
                 known, usable, serverVars>>

\* protocolDisconnect()
Close ==
  /\ csock = "up"
  /\ csock' = "closing"
  /\ TellLost
  /\ UNCHANGED <<setup, versionVars, state, ssock, tls, toServer, toClient, wired,
                 calls, told, known, usable, serverVars>>

-----------------------------------------------------------------------------
(* The client reads: checkProtocolFunction, protocolFunction, parseMessage. *)

ClientReads(is) ==
  /\ csock # "down"
  /\ tls \notin {"shaking", "doomed"}
  /\ toClient # <<>>
  /\ Head(toClient).is = is
  /\ ClientCanRead(Head(toClient))
  /\ toClient' = Tail(toClient)

\* Ask for the highest version both know; keep writing in the old one.
Welcome ==
  /\ ClientReads("welcome")
  /\ FromClient(<<Msg(cversion, "setProtocolVersion", 0,
                      Lower(Head(toClient).arg, setup.client))>>)
  /\ UNCHANGED <<setup, versionVars, state, csock, ssock, tls, clientVars, serverVars>>

\* What connected() of the two protocols writes.
ConnectedMsgs(version) ==
  CASE setup.scheme = "tcp"    -> <<Msg(version, "setSsl", 0, 0)>>
    [] setup.scheme = "tcps"   -> <<Msg(version, "setSsl", 0, 1)>>
    [] setup.scheme = "socket" -> <<>>

\* The server has switched: switch, say whether to use ssl, answer connect.
VersionSet ==
  /\ ClientReads("setProtocolVersion")
  /\ cversion' = Head(toClient).arg
  /\ FromClient(ConnectedMsgs(Head(toClient).arg))
  /\ Tell(Connect)
  /\ UNCHANGED <<setup, sversion, state, csock, ssock, tls, wired, lost, calls, known,
                 usable, serverVars>>

\* A fatal error: answer the connect call and disconnect.
FatalError ==
  /\ ClientReads("error")
  /\ Tell(Connect)
  /\ csock' = "closing"
  /\ TellLost
  /\ UNCHANGED <<setup, versionVars, state, ssock, tls, toServer, wired, calls, known,
                 usable, serverVars>>

\* ClientProxy leaves no service name in the url, so the client selects none
\* by itself: stateChanged changes nothing.  Events and callbacks go to the
\* proxies, which send no answer: callbackReturn() is connected to nothing.
Passed(is) ==
  /\ ClientReads(is)
  /\ UNCHANGED <<setup, versionVars, state, csock, ssock, tls, toServer, clientVars,
                 serverVars>>

\* disconnect() without an object is QObject::disconnect().
EnableSsl ==
  /\ ClientReads("enableSsl")
  /\ wired' = FALSE
  /\ tls' = IF toServer = <<>> THEN "shaking" ELSE "doomed"
  /\ UNCHANGED <<setup, versionVars, state, csock, ssock, toServer, lost, calls, told,
                 known, usable, serverVars>>

\* An answer, with the service it brings: a selected service must be
\* authenticated first, one returned by a function may be used at once.
Return ==
  LET m == Head(toClient) IN
  /\ ClientReads("return")
  /\ Tell(m.id)
  /\ known' = IF wired /\ m.arg > 0 /\ calls[m.id].kind = "select"
                THEN known \cup {m.arg} ELSE known
  /\ usable' = IF wired /\ m.arg > 0 /\ calls[m.id].kind # "select"
                 THEN usable \cup {m.arg} ELSE usable
  /\ UNCHANGED <<setup, versionVars, state, csock, ssock, tls, toServer, wired, lost,
                 calls, serverVars>>

ClientReadsOne == Welcome \/ VersionSet \/ FatalError \/ EnableSsl \/ Return
                    \/ \E is \in {"stateChanged", "event", "callback"} : Passed(is)

-----------------------------------------------------------------------------
(* The server reads: readyRead, parseMessage, checkProtocolFunction.        *)

ServerReads(is) ==
  /\ ssock # "down"
  /\ tls \in {"off", "on"}
  /\ toServer # <<>>
  /\ Head(toServer).is = is
  /\ ServerCanRead(Head(toServer))
  /\ toServer' = Tail(toServer)

\* Mutant of SetProtocolVersion: switch first, then answer.
SetProtocolVersion_SwitchFirst ==
  LET v == Lower(Head(toServer).arg, setup.server) IN
  /\ ServerReads("setProtocolVersion")
  /\ FromServer(<<Msg(v, "setProtocolVersion", 0, v)>>)
  /\ sversion' = v
  /\ UNCHANGED <<setup, cversion, state, csock, ssock, tls, clientVars, serverVars>>

\* Answer in the version the client still reads, then switch.
SetProtocolVersion ==
  LET v == Lower(Head(toServer).arg, setup.server) IN
  /\ ServerReads("setProtocolVersion")
  /\ FromServer(<<Msg(sversion, "setProtocolVersion", 0, v)>>)
  /\ sversion' = v
  /\ UNCHANGED <<setup, cversion, state, csock, ssock, tls, clientVars, serverVars>>

\* changeState: states only go forward, and the client is told.
ChangeState(s) == state' = IF Level[s] > Level[state] THEN s ELSE state
StateMsg(s) == IF Level[s] > Level[state]
                 THEN <<Msg(sversion, "stateChanged", 0, Level[s])>> ELSE <<>>

\* setSsl(): refused with a fatal error and disconnect(), which leaves what
\* has already arrived to be read; or encrypted first; or served at once.
SetSsl ==
  LET ssl == Head(toServer).arg = 1
      refused == IF ssl THEN setup.ssl = "disabled" ELSE setup.ssl = "forced" IN
  /\ ServerReads("setSsl")
  /\ \/ /\ refused
        /\ FromServer(<<Msg(sversion, "error", 0, 2)>>)
        /\ ssock' = "closing"
        /\ UNCHANGED <<tls, state>>
     \/ /\ ~refused /\ ssl
        /\ FromServer(<<Msg(sversion, "enableSsl", 0, 0)>>)
        /\ tls' = "offered"
        /\ UNCHANGED <<ssock, state>>
     \/ /\ ~refused /\ ~ssl
        /\ FromServer(StateMsg("Service"))
        /\ ChangeState("Service")
        /\ UNCHANGED <<ssock, tls>>
  /\ UNCHANGED <<setup, versionVars, csock, clientVars, serverVars>>

\* encrypted(): the handshake is over.
Encrypted ==
  /\ tls = "shaking" /\ ssock = "up"
  /\ tls' = "on"
  /\ FromServer(StateMsg("Service"))
  /\ ChangeState("Service")
  /\ UNCHANGED <<setup, versionVars, csock, ssock, toServer, clientVars, serverVars>>

\* Answer call id, with a service or without (0: a plain value or an error).
\* The successful return of auth() names the service it was called on.
Reply(id, service) == Msg(sversion, "return", id, service)

\* listServices() and its kind, setDefaultToken()
List ==
  /\ ServerReads("list")
  /\ FromServer(<<Reply(Head(toServer).id, 0)>>)
  /\ UNCHANGED <<setup, versionVars, state, csock, ssock, tls, clientVars, serverVars>>

\* Mutant of Select: the instance stays in state Service.
Select_NotReady ==
  LET m == Head(toServer) IN
  /\ ServerReads("select")
  /\ services < MaxServices
  /\ services' = services + 1
  /\ needsAuth' = needsAuth \cup {services + 1}
  /\ FromServer(<<Reply(m.id, services + 1)>>)
  /\ UNCHANGED <<setup, versionVars, state, csock, ssock, tls, clientVars, pending, pushed, queue>>

\* selectService(name): a new service object, or an error if it is too early
\* or the name is not registered.
Select ==
  LET m == Head(toServer) IN
  /\ ServerReads("select")
  /\ \/ /\ state = "Connecting" \/ m.arg = 0
        /\ FromServer(<<Reply(m.id, 0)>>)
        /\ UNCHANGED <<state, services, needsAuth>>
     \/ /\ state # "Connecting" /\ m.arg = 1
        /\ services < MaxServices
        /\ services' = services + 1
        /\ needsAuth' = needsAuth \cup {services + 1}
        /\ FromServer(StateMsg("Ready") \o <<Reply(m.id, services + 1)>>)
        /\ ChangeState("Ready")
  /\ UNCHANGED <<setup, versionVars, csock, ssock, tls, clientVars, pending, pushed, queue>>

\* callFunction("auth"): the service decides.
Auth ==
  LET m == Head(toServer) IN
  /\ ServerReads("auth")
  /\ state = "Ready" /\ m.arg \in 1 .. services
  /\ \/ /\ needsAuth' = needsAuth \ {m.arg}
        /\ FromServer(<<Reply(m.id, m.arg)>>)
     \/ /\ FromServer(<<Reply(m.id, 0)>>)
        /\ UNCHANGED needsAuth
  /\ UNCHANGED <<setup, versionVars, state, csock, ssock, tls, clientVars, services,
                 pending, pushed, queue>>

\* Mutant of Function: an asynchronous call is also answered at once.
Function_AnswersAsync ==
  LET m == Head(toServer) IN
  /\ ServerReads("call")
  /\ state = "Ready" /\ m.arg \in (1 .. services) \ needsAuth
  /\ FromServer(<<Reply(m.id, 0)>>)
  /\ pending' = pending \cup {m.id}
  /\ UNCHANGED <<setup, versionVars, state, csock, ssock, tls, clientVars, services,
                 needsAuth, pushed, queue>>

\* callFunction of any other function: it returns a value, the service itself,
\* a service of its own, which parseReturn gives an id, or it returns later.
Function ==
  LET m == Head(toServer) IN
  /\ ServerReads("call")
  /\ state = "Ready" /\ m.arg \in (1 .. services) \ needsAuth
  /\ \/ /\ \E s \in {0, m.arg} : FromServer(<<Reply(m.id, s)>>)
        /\ UNCHANGED <<services, pending>>
     \/ /\ services < MaxServices
        /\ services' = services + 1
        /\ FromServer(<<Reply(m.id, services + 1)>>)
        /\ UNCHANGED pending
     \/ /\ pending' = pending \cup {m.id}
        /\ UNCHANGED <<services, toClient>>
  /\ UNCHANGED <<setup, versionVars, state, csock, ssock, tls, clientVars, needsAuth,
                 pushed, queue>>

ServerReadsOne == SetProtocolVersion \/ SetSsl \/ List \/ Select \/ Auth \/ Function

\* ServiceProxy::sendReturn, whenever the service is ready.
SendReturn(id) ==
  /\ ssock = "up"
  /\ id \in pending
  /\ pending' = pending \ {id}
  /\ FromServer(<<Reply(id, 0)>>)
  /\ UNCHANGED <<setup, versionVars, state, csock, ssock, tls, toServer, clientVars,
                 services, needsAuth, pushed, queue>>

\* A service emits an event or calls a callback.
Push ==
  /\ ssock = "up"
  /\ pushed < MaxPushes
  /\ pushed' = pushed + 1
  /\ \E s \in 1 .. services :
       \/ /\ FromServer(<<Msg(sversion, "event", 0, s)>>)
          /\ UNCHANGED queue
       \/ /\ FromServer(<<Msg(sversion, "callback", pushed + 1, s)>>)
          /\ queue' = queue \cup {pushed + 1}
  /\ UNCHANGED <<setup, versionVars, state, csock, ssock, tls, toServer, clientVars,
                 services, needsAuth, pending>>

-----------------------------------------------------------------------------
(* The end of the connection, noticed by each side on its own.              *)

\* Mutant of ClientDown: the end of the socket is not passed on to the bus.
ClientDown_Unnoticed ==
  /\ csock # "down"
  /\ csock' = "down"
  /\ toClient' = <<>>
  /\ UNCHANGED <<setup, versionVars, state, ssock, tls, toServer, wired, lost, calls, told,
                 known, usable, serverVars>>

ClientDown ==
  /\ csock # "down"
  /\ csock' = "down"
  /\ toClient' = <<>>
  /\ TellLost
  /\ UNCHANGED <<setup, versionVars, state, ssock, tls, toServer, wired, calls, told,
                 known, usable, serverVars>>

\* disconnect(): the instance is deleted and its services forget it.
ServerDown ==
  /\ ssock # "down"
  /\ ssock' = "down"
  /\ toServer' = <<>>
  /\ pending' = {} /\ queue' = {}
  /\ UNCHANGED <<setup, versionVars, state, csock, tls, toClient, clientVars, services,
                 needsAuth, pushed>>

Next ==
  \/ Call
  \/ Close
  \/ ClientReadsOne
  \/ ServerReadsOne
  \/ Encrypted
  \/ \E id \in IdsOf : SendReturn(id)
  \/ Push
  \/ ClientDown
  \/ ServerDown

Spec == Init /\ [][Next]_vars

-----------------------------------------------------------------------------
(* Fairness: both event loops run, a service that returns later does so,    *)
(* an ssl handshake ends, and an end is noticed by the other side.          *)
FairSpec ==
  /\ Spec
  /\ WF_vars(ClientReadsOne) /\ WF_vars(ServerReadsOne) /\ WF_vars(Encrypted)
  /\ \A id \in 1 .. MaxCalls : WF_vars(SendReturn(id))
  /\ WF_vars(ssock = "closing" /\ ServerDown)
  /\ WF_vars(tls = "doomed" /\ ServerDown)
  /\ WF_vars(csock = "down" /\ ServerDown)
  /\ WF_vars(ssock = "down" /\ toClient = <<>> /\ ClientDown)

-----------------------------------------------------------------------------
(* Properties.                                                              *)

\* Every message is read in the format it was written in, although the two
\* ends switch formats at different times with messages under way.
ReadAsWritten ==
  /\ toClient # <<>> => ClientCanRead(Head(toClient))
  /\ toServer # <<>> => ServerCanRead(Head(toServer))

\* Each end is at version 0 or at the version both agreed on, the server
\* first, and connect() is answered with success only when both are there.
VersionsAgree ==
  /\ sversion \in {0, Agreed}
  /\ cversion \in {0, Agreed}
  /\ cversion = Agreed => sversion = Agreed
  /\ told[Connect] > 0 => cversion = Agreed

\* The two builds understand each other, and connect() succeeds only when they
\* have agreed on what they speak.
Understood == ReadAsWritten /\ VersionsAgree

\* A client that waits for its answers never calls too early: its service
\* selection finds the server in state Service, its calls find it Ready with
\* the service they name, and authenticated.
InTurn ==
  ssock = "up" /\ tls \in {"off", "on"} /\ toServer # <<>> =>
    LET m == Head(toServer) IN
    /\ m.is = "select" => state # "Connecting"
    /\ m.is \in {"auth", "call"} => state = "Ready" /\ m.arg \in 1 .. services
    /\ m.is = "call" => m.arg \notin needsAuth

\* A call is in one place at a time: on its way to the server, with a service
\* that will return it later, on its way back, or answered.  While the
\* connection is up and the protocol talks to the bus it is in one exactly.
AsksFor(m, id)  == m.is \in {"list", "select", "auth", "call"} /\ m.id = id
Answers(m, id)  == m.is = "return" /\ m.id = id
Count(s, P(_))  == Cardinality({i \in DOMAIN s : P(s[i])})
Places(id) ==
  Count(toServer, LAMBDA m : AsksFor(m, id)) + (IF id \in pending THEN 1 ELSE 0)
    + Count(toClient, LAMBDA m : Answers(m, id)) + told[id]
CallsConserved ==
  \A id \in IdsOf \ {Connect} :
    /\ Places(id) <= 1
    /\ csock # "down" /\ ssock # "down" /\ wired => Places(id) = 1

\* A call is answered, or the bus is told that the connection is lost (and
\* answers it).
Settled(id) == Called(id) => told[id] > 0 \/ lost
Answered == \A id \in 1 .. MaxCalls : Called(id) ~> Called(id) /\ Settled(id)
CallsAnswered == setup.scheme # "tcps" => Answered

\* The same over tcps, which "uses SSL to connect to the server".
SslCallsAnswered == Answered
=============================================================================
