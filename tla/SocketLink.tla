----------------------------- MODULE SocketLink -----------------------------
(***************************************************************************)
(* Connections over a local socket: servers that listen() on one file, one *)
(* after the other or at once, crash and leave the file behind; clients    *)
(* that connect to what the file leads to, and either end leaving first.   *)
(***************************************************************************)
EXTENDS FiniteSets

CONSTANTS
  Servers,         \* processes with a listener for the file; a restarted one is another
  SocketClients    \* ClientProtocolSockets

VARIABLES
  file,        \* the server whose bind() made the socket file, or "none"
  server,      \* "none", "clearing" (in listen()), "listening", "failed", "closed", "crashed"
  hindered,    \* history: those in listen() whom the system did not let remove the file
               \* or bind(), or between whose removal and bind() another was bound
  overlapped,  \* history: those that listen and did so beside another, or lost the file to one
  clientEnd,   \* the client's socket: "none", "open", "closing", "closed", "refused"
  peer,        \* the server of each connection
  served,      \* its instance: "none", "backlog", "made", "ready", "doomed", "gone"
  lost         \* the client emitted disconnected(), or the error of connect()

socketVars == <<file, server, hindered, overlapped, clientEnd, peer, served, lost>>

SocketInit ==
  /\ file = "none" /\ hindered = {} /\ overlapped = {}
  /\ server = [s \in Servers |-> "none"]
  /\ clientEnd = [c \in SocketClients |-> "none"]
  /\ peer = [c \in SocketClients |-> "none"]
  /\ served = [c \in SocketClients |-> "none"]
  /\ lost = [c \in SocketClients |-> FALSE]

linkVars == <<clientEnd, peer, served, lost>>
Up == {s \in Servers : server[s] = "listening"}
Clearing == {s \in Servers : server[s] = "clearing"}

\* Mutant: the old file is left where it is.
ClearFile_KeepsOld(s) ==
  /\ server[s] = "none"
  /\ server' = [server EXCEPT ![s] = "clearing"]
  /\ UNCHANGED <<file, hindered, overlapped, linkVars>>

\* listen() removes the file it finds, whoever made it; where that is not allowed
\* it goes on.
ClearFile(s) ==
  /\ server[s] = "none"
  /\ server' = [server EXCEPT ![s] = "clearing"]
  /\ \/ file' = "none" /\ UNCHANGED hindered
        /\ overlapped' = IF file = "none" THEN overlapped ELSE overlapped \cup Up
     \/ file # "none" /\ hindered' = hindered \cup {s} /\ UNCHANGED <<file, overlapped>>
  /\ UNCHANGED linkVars

\* QLocalServer::listen(): bind() makes the file, if there is none.
Bound(s) ==
  /\ file = "none"
  /\ server' = [server EXCEPT ![s] = "listening"]
  /\ file' = s
  /\ overlapped' = IF Up = {} THEN overlapped ELSE overlapped \cup Up \cup {s}
  /\ hindered' = (hindered \cup Clearing) \ {s}

Refused(s) ==
  /\ server' = [server EXCEPT ![s] = "failed"]
  /\ hindered' = IF file # "none" THEN hindered ELSE hindered \cup {s}
  /\ UNCHANGED <<file, overlapped>>

BindFile(s) == server[s] = "clearing" /\ (Bound(s) \/ Refused(s)) /\ UNCHANGED linkVars

\* A process that ends takes its sockets with it, and leaves the file.
Crash(s) ==
  /\ server[s] \in {"clearing", "listening", "closed"}
  /\ server' = [server EXCEPT ![s] = "crashed"]
  /\ served' = [c \in SocketClients |-> IF peer[c] = s THEN "gone" ELSE served[c]]
  /\ hindered' = hindered \ {s} /\ overlapped' = overlapped \ {s}
  /\ UNCHANGED <<file, clientEnd, peer, lost>>

\* ~ServerProtocolListenerSocket(): close() removes the file of that name, whoever
\* made it; those nobody accepted are reset, the instances live on.
CloseListener(s) ==
  /\ server[s] = "listening"
  /\ server' = [server EXCEPT ![s] = "closed"]
  /\ file' = "none"
  /\ overlapped' = overlapped \ {s}
  /\ served' = [c \in SocketClients |->
                  IF peer[c] = s /\ served[c] = "backlog" THEN "gone" ELSE served[c]]
  /\ UNCHANGED <<hindered, clientEnd, peer, lost>>

\* protocolConnect(): without waiting for the server to accept
ConnectToFile(c) ==
  /\ clientEnd[c] = "none"
  /\ IF file \in Up
     THEN /\ clientEnd' = [clientEnd EXCEPT ![c] = "open"]
          /\ peer' = [peer EXCEPT ![c] = file]
          /\ served' = [served EXCEPT ![c] = "backlog"]
          /\ UNCHANGED lost
     ELSE /\ clientEnd' = [clientEnd EXCEPT ![c] = "refused"]
          /\ lost' = [lost EXCEPT ![c] = TRUE]
          /\ UNCHANGED <<peer, served>>
  /\ UNCHANGED <<file, server, hindered, overlapped>>

InstanceGoes(c, from, to) ==
  /\ served[c] = from
  /\ served' = [served EXCEPT ![c] = to]
  /\ UNCHANGED <<file, server, hindered, overlapped, clientEnd, peer, lost>>

\* setProperty(): the instance is told its descriptor.
SetDescriptor(c) == InstanceGoes(c, "backlog", "made")

\* incomingConnection(): an instance with the descriptor, given its thread
Accept(c) == peer[c] \in Up /\ SetDescriptor(c)

\* init(), on its thread: prepareDevice() connects disconnected() to disconnect().
InitSocket(c) == InstanceGoes(c, "made", "ready")

\* The client closed: disconnect(), which calls deleteLater().
InstanceHears(c) == clientEnd[c] = "closed" /\ InstanceGoes(c, "ready", "doomed")

\* disconnect() for a reason of the server's own
InstanceDisconnects(c) == InstanceGoes(c, "ready", "doomed")

InstanceDeleted(c) == InstanceGoes(c, "doomed", "gone")

\* protocolDisconnect() emits disconnected(), and the socket will once more when
\* it has written what it had.
ClientDisconnects(c) ==
  /\ clientEnd[c] \in {"open", "closing"}
  /\ clientEnd' = [clientEnd EXCEPT ![c] = "closing"]
  /\ lost' = [lost EXCEPT ![c] = TRUE]
  /\ UNCHANGED <<file, server, hindered, overlapped, peer, served>>

\* disconnected() of the socket is the protocol's.
ClientCloses(c) ==
  /\ \/ clientEnd[c] = "closing"
     \/ clientEnd[c] = "open" /\ served[c] \in {"doomed", "gone"}
  /\ clientEnd' = [clientEnd EXCEPT ![c] = "closed"]
  /\ lost' = [lost EXCEPT ![c] = TRUE]
  /\ UNCHANGED <<file, server, hindered, overlapped, peer, served>>

ServerGoesOn(c) == Accept(c) \/ InitSocket(c) \/ InstanceHears(c) \/ InstanceDeleted(c)

SocketNext ==
  \/ \E s \in Servers : ClearFile(s) \/ BindFile(s) \/ Crash(s) \/ CloseListener(s)
  \/ \E c \in SocketClients :
       ConnectToFile(c) \/ ServerGoesOn(c) \/ InstanceDisconnects(c)
         \/ ClientDisconnects(c) \/ ClientCloses(c)

\* The event loops of both ends run.
SocketFairness ==
  \A c \in SocketClients : WF_socketVars(ServerGoesOn(c)) /\ WF_socketVars(ClientCloses(c))

-----------------------------------------------------------------------------
\* A server is reached under the file as long as it listens, whatever a crash or
\* an end of the last left there, unless another began to listen beside it; and
\* listen() fails only where the system forbids it or another server was bound
\* after this one had looked at the file.
SocketReachable ==
  \A s \in Servers :
    /\ s \in Up \ overlapped => file = s
    /\ server[s] = "failed" => s \in hindered

\* The instance of a client that is gone is deleted, and a client whose
\* connection the server ended, or lost with its process, hears of it.
SocketSettles ==
  \A c \in SocketClients :
    /\ clientEnd[c] = "closed" ~> served[c] = "gone"
    /\ served[c] \in {"doomed", "gone"} ~> lost[c]
=============================================================================
