----------------------------- MODULE Endpoints -----------------------------
(***************************************************************************)
(* What stands at either end of a connection and shares no state with the  *)
(* rest: the server's threads, its listeners and forked children, the      *)
(* keepalive of a tcp connection, local sockets, the client's protocol     *)
(* thread, the tokens both ends pass around, and the poll of the discovery *)
(* daemon's client.                                                        *)
(* One part is looked at in a behaviour, while the others stand still.     *)
(***************************************************************************)
EXTENDS ServerPool, ListenerTcp, ForkedServer, Keepalive, ProtocolThread, AuthToken, AvahiPoll, SocketLink

CONSTANT Parts   \* the parts to look at

VARIABLE part    \* the one at hand: never changes

partsVars ==
  <<part, vars, listenerVars, forkVars, keepaliveVars, threadVars, tokenVars, pollVars, socketVars>>

\* A part that is not at hand has one initial state.
Standing ==
  /\ part # "pool" => threadType = CHOOSE t \in ThreadTypes : TRUE
  /\ part # "listener" => /\ threaded = CHOOSE b \in Threadings : TRUE
                          /\ setting = [l \in Settings |-> CHOOSE v \in Values : TRUE]
  /\ part # "fork" => configured = [p \in Peers |-> [listener |-> CHOOSE s \in Configs : TRUE,
                                                     instance |-> "none"]]
  /\ part # "keepalive" => timeout = Longest
  /\ part # "token" => handle = [u \in Users |-> 1]
  /\ part # "poll" => /\ watch = [event |-> "in", last |-> "none", exists |-> TRUE]
                      /\ timer = FALSE

EndpointsInit ==
  /\ part \in Parts
  /\ Standing
  /\ Init /\ ListenerInit /\ ForkInit /\ KeepaliveInit /\ ThreadInit /\ TokenInit /\ PollInit
  /\ SocketInit

PoolStep ==
  /\ part = "pool" /\ Next
  /\ UNCHANGED <<part, listenerVars, forkVars, keepaliveVars, threadVars, tokenVars, pollVars, socketVars>>

ListenerStep ==
  /\ part = "listener" /\ ListenerNext
  /\ UNCHANGED <<part, vars, forkVars, keepaliveVars, threadVars, tokenVars, pollVars, socketVars>>

ForkStep ==
  /\ part = "fork" /\ ForkNext
  /\ UNCHANGED <<part, vars, listenerVars, keepaliveVars, threadVars, tokenVars, pollVars, socketVars>>

KeepaliveStep ==
  /\ part = "keepalive" /\ KeepaliveNext
  /\ UNCHANGED <<part, vars, listenerVars, forkVars, threadVars, tokenVars, pollVars, socketVars>>

ThreadStep ==
  /\ part = "thread" /\ ThreadNext
  /\ UNCHANGED <<part, vars, listenerVars, forkVars, keepaliveVars, tokenVars, pollVars, socketVars>>

TokenStep ==
  /\ part = "token" /\ TokenNext
  /\ UNCHANGED <<part, vars, listenerVars, forkVars, keepaliveVars, threadVars, pollVars, socketVars>>

PollStep ==
  /\ part = "poll" /\ PollNext
  /\ UNCHANGED <<part, vars, listenerVars, forkVars, keepaliveVars, threadVars, tokenVars, socketVars>>

SocketStep ==
  /\ part = "socket" /\ SocketNext
  /\ UNCHANGED <<part, vars, listenerVars, forkVars, keepaliveVars, threadVars, tokenVars, pollVars>>

EndpointsNext ==
  \/ PoolStep \/ ListenerStep \/ ForkStep \/ SocketStep
  \/ KeepaliveStep \/ ThreadStep \/ TokenStep \/ PollStep

EndpointsSpec == EndpointsInit /\ [][EndpointsNext]_partsVars

\* The parts are fair.  Nothing is enabled in one that stands still but the time
\* of the keepalive.  There the event loops run and time goes by: a second only
\* does when its timers have gone off and what was sent is read.
EndpointsFairSpec ==
  /\ EndpointsSpec
  /\ PoolFairness /\ ListenerFairness /\ ForkFairness /\ ThreadFairness /\ TokenFairness
  /\ PollFairness /\ SocketFairness
  /\ WF_keepaliveVars(part = "keepalive" /\ EndsStep)

-----------------------------------------------------------------------------
(* Properties of several parts.                                             *)

\* Both ends of a tcp connection agree on the time-out, and give up on nobody
\* who is there.
KeptAlive == OnlyTheDead /\ TimeoutAgreed

\* What one thread begins another finds whole: the protocol that the thread of
\* clients hands over, and the token that is copied.
HandedOverWhole == HandedOver /\ CopiedWhole

\* What runs in callbacks of the system: the handler of SIGCHLD reaps as many
\* children as it was run for, and avahi's callbacks are told what they were
\* called for.
CallbacksSound == ReapedInTurn /\ EventsTold

\* Nobody is stuck: the threads of instances that are gone, the settings and
\* connections of a listener, children that end, both ends of a local socket,
\* protocol threads, copies of tokens and avahi's timeouts come to their end.
NobodyStuck ==
  /\ ThreadsEnd /\ InlineReturns /\ ConnectionEnds /\ SocketSettles
  /\ ThreadServes /\ CopyReturned /\ TimeoutExpires
=============================================================================
