------------------------------ MODULE Keepalive ------------------------------
(***************************************************************************)
(* The time-outs of a tcp connection: the service sets timeoutEnabled and  *)
(* timeout of its instance, which tells the client; both ends then ping    *)
(* each other by a timer, and give up on one not heard from.  Time goes    *)
(* by in seconds; the timers are faster, as timeout / 4 is in milliseconds.*)
(***************************************************************************)
EXTENDS Naturals, Sequences

CONSTANTS
  Timeouts,  \* values of the property timeout, in seconds
  Late,      \* may the service enable it when the client's lastPing is old already?
  MaxSets    \* bound: properties set in a second

ASSUME KeepaliveAssumption == Timeouts \subseteq Nat \ {0} /\ Late \in BOOLEAN /\ MaxSets \in Nat

VARIABLES
  network,    \* "up", "down" (everything is lost)
  enabled, timeout,              \* the instance's timeoutEnabled and timeout
  serverTimer, serverSince,      \* its timer runs; the seconds since its lastPing
  instance,   \* there is an instance
  clientTimer, clientTimeout, clientSince,
  socket,     \* the client's socket: "connected", "closing" (what is unsent keeps it), "unconnected"
  toClient, toServer,            \* protocol functions under way
  fired,      \* the ends whose timer went off in this second
  sets,       \* properties set in this second
  wrong       \* history: an end gave up though the network is up and the other there

serverVars == <<enabled, timeout, serverTimer, serverSince, instance>>
clientVars == <<clientTimer, clientTimeout, clientSince, socket>>
keepaliveVars ==
  <<network, serverVars, clientVars, toClient, toServer, fired, sets, wrong>>

Longest == CHOOSE t \in Timeouts : \A u \in Timeouts : u <= t

Older(since) == IF since > Longest THEN since ELSE since + 1

KeepaliveInit ==
  /\ network = "up"
  /\ enabled = FALSE /\ timeout \in Timeouts
  /\ serverTimer = FALSE /\ serverSince = 0 /\ instance = TRUE
  /\ clientTimer = FALSE /\ clientTimeout = 0 /\ clientSince = 0 /\ socket = "connected"
  /\ toClient = <<>> /\ toServer = <<>>
  /\ fired = {} /\ sets = 0 /\ wrong = FALSE

Sent(queue, message) ==
  queue' = IF network = "up" THEN Append(queue, message) ELSE queue

Ping == [name |-> "ping"]

\* enableTimeout(int), lastPing, and the timer, which starts over
EnableTimeout(t) ==
  /\ Sent(toClient, [name |-> "enableTimeout", timeout |-> t])
  /\ serverSince' = 0 /\ serverTimer' = TRUE /\ fired' = fired \ {"server"}

DisableTimeout ==
  /\ Sent(toClient, [name |-> "disableTimeout"])
  /\ UNCHANGED <<serverSince, serverTimer, fired>>

\* setProperty("timeoutEnabled", b)
SetEnabled(b) ==
  /\ b /\ ~enabled => Late \/ clientSince <= timeout
  /\ \/ b # enabled /\ b /\ EnableTimeout(timeout)
     \/ b # enabled /\ ~b /\ DisableTimeout
     \/ b = enabled /\ UNCHANGED <<toClient, serverSince, serverTimer, fired>>
  /\ enabled' = b
  /\ UNCHANGED timeout

\* setProperty("timeout", t)
SetTimeout(t) ==
  /\ enabled => Late \/ clientSince <= t
  /\ timeout' = t
  /\ IF enabled THEN EnableTimeout(t) ELSE DisableTimeout
  /\ UNCHANGED enabled

SetTimeoutProperty ==
  /\ instance /\ sets < MaxSets
  /\ sets' = sets + 1
  /\ (\E b \in BOOLEAN : SetEnabled(b)) \/ (\E t \in Timeouts : SetTimeout(t))
  /\ UNCHANGED <<network, instance, clientVars, toServer, wrong>>

\* Mutant: what disconnect() was meant to be is called.
ServerPing_Disconnects ==
  IF serverSince > timeout
  THEN instance' = FALSE /\ wrong' = (wrong \/ (network = "up" /\ socket = "connected")) /\ UNCHANGED toClient
  ELSE Sent(toClient, Ping) /\ UNCHANGED <<instance, wrong>>

\* The instance's ping(): a client not heard from is logged, and disconnect(),
\* which is QObject's here, changes nothing.
ServerPing ==
  /\ IF serverSince > timeout THEN UNCHANGED toClient ELSE Sent(toClient, Ping)
  /\ UNCHANGED <<instance, wrong>>

ServerTimer ==
  /\ instance /\ serverTimer /\ "server" \notin fired
  /\ ServerPing
  /\ fired' = fired \cup {"server"}
  /\ UNCHANGED <<network, enabled, timeout, serverTimer, serverSince, clientVars, toServer, sets>>

\* protocolFunction() of the instance: ping
ServerReads ==
  /\ instance /\ toServer # <<>>
  /\ toServer' = Tail(toServer)
  /\ serverSince' = 0
  /\ UNCHANGED <<network, enabled, timeout, serverTimer, instance, clientVars, toClient, fired,
                 sets, wrong>>

\* disconnect() of the instance, when its socket is told that the client's is gone
InstanceEnds ==
  /\ instance /\ network = "up" /\ socket = "unconnected"
  /\ instance' = FALSE
  /\ UNCHANGED <<network, enabled, timeout, serverTimer, serverSince, clientVars, toClient,
                 toServer, fired, sets, wrong>>

\* Mutant: disconnect(), which is QObject's, as on the other end.
ClientPing_Disconnects ==
  /\ IF clientSince > clientTimeout THEN UNCHANGED toServer ELSE Sent(toServer, Ping)
  /\ UNCHANGED <<socket, clientTimer, wrong>>

\* The client's ping(): protocolDisconnect() says disconnected() at once; the
\* socket, whose own stops the timer, says it when the pings have left.
ClientPing ==
  IF clientSince > clientTimeout
  THEN /\ socket' = IF network = "up" THEN "unconnected" ELSE "closing"
       /\ clientTimer' = (network # "up")
       /\ wrong' = (wrong \/ (network = "up" /\ instance))
       /\ UNCHANGED toServer
  ELSE Sent(toServer, Ping) /\ UNCHANGED <<socket, clientTimer, wrong>>

ClientTimer ==
  /\ socket # "unconnected" /\ clientTimer /\ "client" \notin fired
  /\ ClientPing
  /\ fired' = fired \cup {"client"}
  /\ UNCHANGED <<network, serverVars, clientTimeout, clientSince, toClient, sets>>

\* protocolFunction() of the client
ClientFunction(message) ==
  CASE message.name = "ping" -> clientSince' = 0 /\ UNCHANGED <<clientTimer, clientTimeout, fired>>
    [] message.name = "enableTimeout" ->
         /\ clientTimeout' = message.timeout /\ clientTimer' = TRUE
         /\ fired' = fired \ {"client"}
         /\ UNCHANGED clientSince
    [] OTHER -> clientTimer' = FALSE /\ UNCHANGED <<clientTimeout, clientSince, fired>>

ClientReads ==
  /\ socket = "connected" /\ toClient # <<>>
  /\ ClientFunction(Head(toClient))
  /\ toClient' = Tail(toClient)
  /\ UNCHANGED <<network, serverVars, socket, toServer, sets, wrong>>

\* The network breaks, or the other computer is gone: nobody is told.
Break ==
  /\ network = "up"
  /\ network' = "down"
  /\ toClient' = <<>> /\ toServer' = <<>>
  /\ UNCHANGED <<serverVars, clientVars, fired, sets, wrong>>

\* A second has gone by: the timers went off in it, what was sent arrived, and a
\* loss the socket is told of is known.
Second ==
  /\ instance => toServer = <<>> /\ (serverTimer => "server" \in fired)
  /\ socket = "connected" => toClient = <<>>
  /\ clientTimer => "client" \in fired
  /\ instance /\ network = "up" => socket # "unconnected"
  /\ serverSince' = Older(serverSince) /\ clientSince' = Older(clientSince)
  /\ fired' = {} /\ sets' = 0
  /\ UNCHANGED <<network, enabled, timeout, serverTimer, instance, clientTimer, clientTimeout,
                 socket, toClient, toServer, wrong>>

EndsStep ==
  \/ ServerTimer \/ ServerReads \/ InstanceEnds \/ ClientTimer \/ ClientReads \/ Second

KeepaliveNext == SetTimeoutProperty \/ EndsStep \/ Break

-----------------------------------------------------------------------------
\* Neither end gives up on one that is there and can be reached, however the
\* service sets, changes, enables and disables the time-out; if the client knows
\* of it before its own lastPing is too old.
OnlyTheDead == ~wrong

\* With nothing under way, both ends know the same time-out, or none.
TimeoutAgreed ==
  network = "up" /\ socket = "connected" /\ instance /\ toClient = <<>> =>
    /\ clientTimer = enabled
    /\ enabled => clientTimeout = timeout /\ serverTimer

\* A client that waits for pings notices that the network is down.
LossNoticed == network = "down" /\ clientTimer ~> socket # "connected"
=============================================================================
