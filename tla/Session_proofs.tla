--------------------------- MODULE Session_proofs ---------------------------
(***************************************************************************)
(* One session, for any builds, schemes and ssl modes and any number of    *)
(* calls, services and pushes.                                             *)
(***************************************************************************)
EXTENDS Session, SequenceTheorems, FiniteSetTheorems, TLAPS

-----------------------------------------------------------------------------
(* Queues.                                                                  *)

\* What is behind a queue that ms was written to.
LEMMA WrittenQueue ==
  ASSUME NEW S, NEW q \in Seq(S), NEW ms \in Seq(S)
  PROVE  /\ q \o ms \in Seq(S)
         /\ \A i \in DOMAIN q : i \in DOMAIN (q \o ms) /\ (q \o ms)[i] = q[i] /\ i <= Len(q)
         /\ \A i \in DOMAIN ms : i + Len(q) \in DOMAIN (q \o ms) /\ (q \o ms)[i + Len(q)] = ms[i]
         /\ \A i \in DOMAIN (q \o ms) :
              i \in DOMAIN q \/ (i > Len(q) /\ i - Len(q) \in DOMAIN ms /\ (q \o ms)[i] = ms[i - Len(q)])
         /\ Len(q) \in Nat /\ DOMAIN q \subseteq Nat \ {0} /\ DOMAIN (q \o ms) \subseteq Nat \ {0}
  OBVIOUS

\* What is left of a queue whose head was read.
LEMMA ReadQueue ==
  ASSUME NEW S, NEW q \in Seq(S), q # <<>>
  PROVE  /\ Tail(q) \in Seq(S) /\ Head(q) = q[1] /\ 1 \in DOMAIN q /\ q[1] \in S
         /\ \A i \in DOMAIN Tail(q) :
              i \in Nat \ {0} /\ i + 1 \in DOMAIN q /\ Tail(q)[i] = q[i + 1]
         /\ \A i \in DOMAIN q :
              i = 1 \/ (i - 1 \in DOMAIN Tail(q) /\ i \in Nat \ {0} /\ Tail(q)[i - 1] = q[i])
  OBVIOUS

-----------------------------------------------------------------------------
(* Types.                                                                   *)

Kinds == {"welcome", "setProtocolVersion", "setSsl", "enableSsl", "error", "stateChanged",
          "list", "select", "auth", "call", "return", "event", "callback"}
Message == [ver : Nat, is : Kinds, id : Nat, arg : Nat]
CallKinds == {"connect", "list", "select", "auth", "call"}

SessionType ==
  /\ setup \in Setups
  /\ cversion \in Nat /\ sversion \in Nat
  /\ state \in {"Connecting", "Service", "Ready"}
  /\ csock \in {"up", "closing", "down"} /\ ssock \in {"up", "closing", "down"}
  /\ tls \in {"off", "offered", "shaking", "doomed", "on"}
  /\ wired \in BOOLEAN
  /\ toServer \in Seq(Message) /\ toClient \in Seq(Message)
  /\ calls \in Seq([kind : CallKinds, on : Nat]) /\ told \in Seq(Nat)
  /\ Len(told) = Len(calls) /\ Connect \in DOMAIN calls
  /\ known \in SUBSET Nat /\ usable \in SUBSET Nat
  /\ services \in Nat /\ needsAuth \in SUBSET Nat
  /\ pending \in SUBSET Nat /\ pushed \in Nat

\* Both ends know version 1 or 2.
LEMMA AgreedType ==
  ASSUME setup \in Setups
  PROVE  setup.client \in {1, 2} /\ setup.server \in {1, 2} /\ Agreed \in {1, 2}
  <1>1. setup.client \in Builds /\ setup.server \in Builds
    BY DEF Setups
  <1>2. \A b \in Builds : b = 1 \/ b = 2
    BY BuildsAssumption
  <1> QED
    BY <1>1, <1>2 DEF Agreed, Lower

LEMMA MsgType ==
  ASSUME NEW ver \in Nat, NEW is \in Kinds, NEW id \in Nat, NEW arg \in Nat
  PROVE  Msg(ver, is, id, arg) \in Message
  BY DEF Msg, Message

\* A queue of one message, or of none.
LEMMA Singleton ==
  ASSUME NEW m \in Message
  PROVE  <<m>> \in Seq(Message) /\ <<>> \in Seq(Message)
  OBVIOUS

LEMMA InitType == Init => SessionType
  <1> SUFFICES ASSUME Init PROVE SessionType
    OBVIOUS
  <1>1. setup \in Setups /\ setup.server \in Nat
    BY AgreedType DEF Init
  <1>2. toClient \in Seq(Message)
    <2>1. Msg(0, "welcome", 0, setup.server) \in Message /\ Msg(0, "stateChanged", 0, 1) \in Message
      BY <1>1 DEF Msg, Message, Kinds
    <2>2. <<Msg(0, "welcome", 0, setup.server)>> \in Seq(Message)
          /\ (IF setup.scheme = "socket" THEN <<Msg(0, "stateChanged", 0, 1)>> ELSE <<>>) \in Seq(Message)
      BY <2>1, Singleton
    <2> QED
      BY <2>2, WrittenQueue DEF Init
  <1>3. calls \in Seq([kind : CallKinds, on : Nat]) /\ Connect \in DOMAIN calls /\ Len(calls) = 1
    BY DEF Init, CallKinds, Connect
  <1>4. told \in Seq(Nat) /\ Len(told) = 1
    BY DEF Init
  <1> QED
    BY <1>1, <1>2, <1>3, <1>4 DEF Init, SessionType

\* Telling the bus keeps the type of what it was told.
LEMMA TellType ==
  ASSUME SessionType, NEW id, Tell(id)
  PROVE  told' \in Seq(Nat) /\ Len(told') = Len(told)
  <1> SUFFICES ASSUME wired PROVE told' \in Seq(Nat) /\ Len(told') = Len(told)
    BY DEF Tell, SessionType
  <1>1. told \in Seq(Nat) /\ told' = [told EXCEPT ![id] = told[id] + 1]
    BY DEF Tell, SessionType
  <1>2. CASE id \in 1 .. Len(told)
    <2>1. told[id] + 1 \in Nat
      BY <1>1, <1>2
    <2> QED
      BY <1>1, <1>2, <2>1, ExceptSeq
  <1>3. CASE id \notin 1 .. Len(told)
    <2>1. told' = told
      BY <1>1, <1>3
    <2> QED
      BY <1>1, <2>1
  <1> QED
    BY <1>2, <1>3

LEMMA FromClientType ==
  ASSUME SessionType, NEW ms \in Seq(Message), FromClient(ms)
  PROVE  toServer' \in Seq(Message)
  BY DEF FromClient, Written, SessionType

LEMMA FromServerType ==
  ASSUME SessionType, NEW ms \in Seq(Message), FromServer(ms)
  PROVE  toClient' \in Seq(Message)
  BY DEF FromServer, Written, SessionType

\* What the client reads is a message; it is gone from the queue.
LEMMA ClientReadsType ==
  ASSUME SessionType, NEW is, ClientReads(is)
  PROVE  /\ toClient' \in Seq(Message) /\ toClient' = Tail(toClient) /\ toClient # <<>>
         /\ Head(toClient) = toClient[1] /\ 1 \in DOMAIN toClient /\ toClient[1] \in Message
         /\ toClient[1].is = is /\ csock # "down"
  BY ReadQueue DEF ClientReads, SessionType

LEMMA ServerReadsType ==
  ASSUME SessionType, NEW is, ServerReads(is)
  PROVE  /\ toServer' \in Seq(Message) /\ toServer' = Tail(toServer) /\ toServer # <<>>
         /\ Head(toServer) = toServer[1] /\ 1 \in DOMAIN toServer /\ toServer[1] \in Message
         /\ toServer[1].is = is /\ ssock # "down"
  BY ReadQueue DEF ServerReads, SessionType

LEMMA StateType ==
  ASSUME SessionType, NEW s \in {"Service", "Ready"}
  PROVE  /\ StateMsg(s) \in Seq(Message)
         /\ ChangeState(s) => state' \in {"Connecting", "Service", "Ready"}
  <1>1. Level[s] \in Nat
    BY DEF Level
  <1>2. Msg(sversion, "stateChanged", 0, Level[s]) \in Message
    BY <1>1 DEF SessionType, Msg, Message, Kinds
  <1>3. StateMsg(s) = <<Msg(sversion, "stateChanged", 0, Level[s])>> \/ StateMsg(s) = <<>>
    BY DEF StateMsg
  <1>4. StateMsg(s) \in Seq(Message)
    BY <1>2, <1>3, Singleton
  <1>5. ChangeState(s) => state' = s \/ state' = state
    BY DEF ChangeState
  <1>6. state \in {"Connecting", "Service", "Ready"}
    BY DEF SessionType
  <1> QED
    BY <1>4, <1>5, <1>6
\* What a call leaves of the client's bookkeeping.
LEMMA SendType ==
  ASSUME SessionType, NEW kind \in CallKinds \ {"connect"}, NEW on \in Nat, Send(kind, on)
  PROVE  /\ toServer' \in Seq(Message)
         /\ calls' \in Seq([kind : CallKinds, on : Nat]) /\ told' \in Seq(Nat)
         /\ Len(told') = Len(calls') /\ Connect \in DOMAIN calls'
         /\ calls' = Append(calls, [kind |-> kind, on |-> on])
         /\ Len(calls) \in Nat \ {0}
         /\ \E n \in {0, 1} : told' = Append(told, n)
  <1>1. calls' = Append(calls, [kind |-> kind, on |-> on])
    BY DEF Send
  <1>2. /\ calls \in Seq([kind : CallKinds, on : Nat]) /\ told \in Seq(Nat)
        /\ Len(told) = Len(calls) /\ Connect \in DOMAIN calls
    BY DEF SessionType
  <1>3. [kind |-> kind, on |-> on] \in [kind : CallKinds, on : Nat]
    OBVIOUS
  <1>4. PICK n \in {0, 1} : told' = Append(told, n)
    BY DEF Send
  <1>5. Len(calls) \in Nat \ {0} /\ Len(calls) + 1 \in Nat
    BY <1>2 DEF Connect
  <1>6. toServer' \in Seq(Message)
    <2>1. Msg(cversion, kind, Len(calls) + 1, on) \in Message
      <3>1. kind \in Kinds /\ cversion \in Nat
        BY DEF Kinds, CallKinds, SessionType
      <3> QED
        BY <3>1, <1>5 DEF Msg, Message
    <2>2. CASE FromClient(<<Msg(cversion, kind, Len(calls) + 1, on)>>)
      BY <2>1, <2>2, Singleton, FromClientType
    <2>3. CASE UNCHANGED toServer
      BY <2>3 DEF SessionType
    <2> QED
      BY <2>2, <2>3 DEF Send
  <1>7. calls' \in Seq([kind : CallKinds, on : Nat]) /\ Len(calls') = Len(calls) + 1
        /\ Connect \in DOMAIN calls'
    BY <1>1, <1>2, <1>3 DEF Connect
  <1>8. told' \in Seq(Nat) /\ Len(told') = Len(told) + 1
    <2> HIDE <1>4
    <2>1. n \in Nat
      OBVIOUS
    <2> QED
      BY <1>4, <2>1, <1>2
  <1> QED
    BY <1>1, <1>2, <1>4, <1>5, <1>6, <1>7, <1>8

\* A call of the client is one of these.
LEMMA CallCases ==
  ASSUME Call
  PROVE  \E kind \in CallKinds \ {"connect"} :
           \E on \in {0, 1} \cup known \cup usable :
             /\ Send(kind, on)
             /\ \/ kind = "list" /\ on = 0 /\ (Agreed \in Early \/ told[Connect] > 0)
                \/ kind = "select" /\ on \in {0, 1} /\ told[Connect] > 0
                \/ kind = "auth" /\ on \in known
                \/ kind = "call" /\ on \in usable
  <1>1. CASE (Agreed \in Early \/ told[Connect] > 0) /\ Send("list", 0)
    BY <1>1 DEF CallKinds
  <1>2. CASE told[Connect] > 0 /\ \E found \in {0, 1} : Send("select", found)
    BY <1>2 DEF CallKinds
  <1>3. CASE \E s \in known : Send("auth", s)
    BY <1>3 DEF CallKinds
  <1>4. CASE \E s \in usable : Send("call", s)
    BY <1>4 DEF CallKinds
  <1> QED
    BY <1>1, <1>2, <1>3, <1>4 DEF Call

LEMMA ClientStepType ==
  ASSUME SessionType, Call \/ Close \/ ClientReadsOne \/ ClientDown
  PROVE  SessionType'
  <1>1. CASE Call
    <2>1. PICK kind \in CallKinds \ {"connect"}, on \in {0, 1} \cup known \cup usable : Send(kind, on)
      BY <1>1, CallCases
    <2>2. on \in Nat
      BY DEF SessionType
    <2>3. /\ toServer' \in Seq(Message)
          /\ calls' \in Seq([kind : CallKinds, on : Nat]) /\ told' \in Seq(Nat)
          /\ Len(told') = Len(calls') /\ Connect \in DOMAIN calls'
      BY <2>1, <2>2, SendType
    <2> QED
      BY <1>1, <2>3 DEF Call, SessionType, versionVars, serverVars
  <1>2. CASE Close
    BY <1>2 DEF Close, SessionType, versionVars, serverVars
  <1>3. CASE Welcome
    <2>1. toClient' \in Seq(Message) /\ Head(toClient) \in Message
      BY <1>3, ClientReadsType DEF Welcome
    <2>2. Lower(Head(toClient).arg, setup.client) \in Nat
      <3>1. Head(toClient).arg \in Nat
        BY <2>1 DEF Message
      <3>2. setup.client \in Nat
        BY AgreedType DEF SessionType
      <3> QED
        BY <3>1, <3>2 DEF Lower
    <2>3. toServer' \in Seq(Message)
      BY <1>3, <2>2, MsgType, Singleton, FromClientType DEF Welcome, SessionType, Kinds
    <2> QED
      BY <1>3, <2>1, <2>3 DEF Welcome, SessionType, versionVars, clientVars, serverVars
  <1>4. CASE VersionSet
    <2>1. toClient' \in Seq(Message) /\ Head(toClient) \in Message
      BY <1>4, ClientReadsType DEF VersionSet
    <2>2. Head(toClient).arg \in Nat
      BY <2>1 DEF Message
    <2>3. ConnectedMsgs(Head(toClient).arg) \in Seq(Message)
      <3>1. /\ Msg(Head(toClient).arg, "setSsl", 0, 0) \in Message
            /\ Msg(Head(toClient).arg, "setSsl", 0, 1) \in Message
        BY <2>2, MsgType DEF Kinds
      <3>2. setup.scheme \in {"tcp", "tcps", "socket"}
        BY SetupAssumption DEF SessionType, Setups
      <3> QED
        BY <3>1, <3>2, Singleton DEF ConnectedMsgs
    <2>4. toServer' \in Seq(Message)
      BY <1>4, <2>3, FromClientType DEF VersionSet
    <2>5. told' \in Seq(Nat) /\ Len(told') = Len(told)
      BY <1>4, TellType DEF VersionSet
    <2> QED
      BY <1>4, <2>1, <2>2, <2>4, <2>5 DEF VersionSet, SessionType, serverVars
  <1>5. CASE FatalError
    <2>1. toClient' \in Seq(Message)
      BY <1>5, ClientReadsType DEF FatalError
    <2>2. told' \in Seq(Nat) /\ Len(told') = Len(told)
      BY <1>5, TellType DEF FatalError
    <2> QED
      BY <1>5, <2>1, <2>2 DEF FatalError, SessionType, versionVars, serverVars
  <1>6. CASE EnableSsl
    <2>1. toClient' \in Seq(Message)
      BY <1>6, ClientReadsType DEF EnableSsl
    <2> QED
      BY <1>6, <2>1 DEF EnableSsl, SessionType, versionVars, serverVars
  <1>7. CASE Return
    <2>1. toClient' \in Seq(Message) /\ Head(toClient) \in Message
      BY <1>7, ClientReadsType DEF Return
    <2>2. told' \in Seq(Nat) /\ Len(told') = Len(told)
      BY <1>7, TellType DEF Return
    <2>3. Head(toClient).arg \in Nat
      BY <2>1 DEF Message
    <2>4. known' \in SUBSET Nat /\ usable' \in SUBSET Nat
      BY <1>7, <2>3 DEF Return, SessionType
    <2> QED
      BY <1>7, <2>1, <2>2, <2>4 DEF Return, SessionType, versionVars, serverVars
  <1>8. CASE \E is \in {"stateChanged", "event", "callback"} : Passed(is)
    <2>1. toClient' \in Seq(Message)
      BY <1>8, ClientReadsType DEF Passed
    <2> QED
      BY <1>8, <2>1 DEF Passed, SessionType, versionVars, clientVars, serverVars
  <1>9. CASE ClientDown
    BY <1>9 DEF ClientDown, SessionType, versionVars, serverVars
  <1> QED
    BY <1>1, <1>2, <1>3, <1>4, <1>5, <1>6, <1>7, <1>8, <1>9 DEF ClientReadsOne
\* An answer is a message, alone or behind the news of a state.
LEMMA ReplyType ==
  ASSUME SessionType, NEW id \in Nat, NEW service \in Nat
  PROVE  /\ Reply(id, service) \in Message /\ <<Reply(id, service)>> \in Seq(Message)
         /\ \A s \in {"Service", "Ready"} : StateMsg(s) \o <<Reply(id, service)>> \in Seq(Message)
  <1>1. Reply(id, service) \in Message
    BY DEF Reply, Msg, Message, Kinds, SessionType
  <1>2. <<Reply(id, service)>> \in Seq(Message)
    BY <1>1, Singleton
  <1>3. ASSUME NEW s \in {"Service", "Ready"}
        PROVE  StateMsg(s) \o <<Reply(id, service)>> \in Seq(Message)
    <2>1. StateMsg(s) \in Seq(Message)
      BY StateType
    <2> QED
      BY <2>1, <1>2
  <1> QED
    BY <1>1, <1>2, <1>3

LEMMA ServerReadsOneType ==
  ASSUME SessionType, ServerReadsOne
  PROVE  SessionType'
  <1>0. /\ toServer' \in Seq(Message)
        /\ Head(toServer).arg \in Nat /\ Head(toServer).id \in Nat
    <2>1. toServer' \in Seq(Message) /\ Head(toServer) \in Message
      BY ServerReadsType DEF ServerReadsOne, SetProtocolVersion, SetSsl, List, Select, Auth, Function
    <2> QED
      BY <2>1 DEF Message
  <1> DEFINE id == Head(toServer).id
             arg == Head(toServer).arg
  <1> HIDE DEF id, arg
  <1>a. id \in Nat /\ arg \in Nat /\ services + 1 \in Nat
    BY <1>0 DEF id, arg, SessionType
  <1>1. CASE SetProtocolVersion
    <2>1. Lower(arg, setup.server) \in Nat
      <3>1. setup.server \in Nat
        BY AgreedType DEF SessionType
      <3> QED
        BY <3>1, <1>a DEF Lower
    <2>2. toClient' \in Seq(Message)
      <3>1. Msg(sversion, "setProtocolVersion", 0, Lower(arg, setup.server)) \in Message
        BY <2>1, MsgType DEF SessionType, Kinds
      <3>2. FromServer(<<Msg(sversion, "setProtocolVersion", 0, Lower(arg, setup.server))>>)
        BY <1>1 DEF SetProtocolVersion, arg
      <3> QED
        BY <3>1, <3>2, Singleton, FromServerType
    <2>3. sversion' = Lower(arg, setup.server)
      BY <1>1 DEF SetProtocolVersion, arg
    <2> QED
      BY <1>1, <1>0, <2>1, <2>2, <2>3 DEF SetProtocolVersion, SessionType, clientVars, serverVars
  <1>2. CASE SetSsl
    <2>1. toClient' \in Seq(Message) /\ state' \in {"Connecting", "Service", "Ready"}
          /\ tls' \in {tls, "offered"} /\ ssock' \in {ssock, "closing"}
      <3>1. CASE FromServer(<<Msg(sversion, "error", 0, 2)>>) /\ UNCHANGED <<tls, state>>
                 /\ ssock' = "closing"
        <4>1. Msg(sversion, "error", 0, 2) \in Message
          BY MsgType DEF SessionType, Kinds
        <4> QED
          BY <3>1, <4>1, Singleton, FromServerType DEF SessionType
      <3>2. CASE FromServer(<<Msg(sversion, "enableSsl", 0, 0)>>) /\ UNCHANGED <<ssock, state>>
                 /\ tls' = "offered"
        <4>1. Msg(sversion, "enableSsl", 0, 0) \in Message
          BY MsgType DEF SessionType, Kinds
        <4> QED
          BY <3>2, <4>1, Singleton, FromServerType DEF SessionType
      <3>3. CASE FromServer(StateMsg("Service")) /\ ChangeState("Service") /\ UNCHANGED <<ssock, tls>>
        BY <3>3, StateType, FromServerType DEF SessionType
      <3> QED
        BY <1>2, <3>1, <3>2, <3>3 DEF SetSsl
    <2> QED
      BY <1>2, <1>0, <2>1 DEF SetSsl, SessionType, versionVars, clientVars, serverVars
  <1>3. CASE List
    <2>1. FromServer(<<Reply(id, 0)>>)
      BY <1>3 DEF List, id
    <2>2. toClient' \in Seq(Message)
      BY <2>1, <1>a, ReplyType, FromServerType
    <2> QED
      BY <1>3, <1>0, <2>2 DEF List, SessionType, versionVars, clientVars, serverVars
  <1>4. CASE Select
    <2>1. CASE FromServer(<<Reply(id, 0)>>) /\ UNCHANGED <<state, services, needsAuth>>
      <3>1. toClient' \in Seq(Message)
        BY <2>1, <1>a, ReplyType, FromServerType
      <3> QED
        BY <1>4, <1>0, <2>1, <3>1 DEF Select, SessionType, versionVars, clientVars
    <2>2. CASE /\ services' = services + 1 /\ needsAuth' = needsAuth \cup {services + 1}
               /\ FromServer(StateMsg("Ready") \o <<Reply(id, services + 1)>>)
               /\ ChangeState("Ready")
      <3>1. toClient' \in Seq(Message)
        BY <2>2, <1>a, ReplyType, FromServerType
      <3>2. state' \in {"Connecting", "Service", "Ready"}
        BY <2>2, StateType
      <3>3. services' \in Nat /\ needsAuth' \in SUBSET Nat
        BY <2>2, <1>a DEF SessionType
      <3> QED
        BY <1>4, <1>0, <3>1, <3>2, <3>3 DEF Select, SessionType, versionVars, clientVars
    <2> QED
      BY <1>4, <2>1, <2>2 DEF Select, id
  <1>5. CASE Auth
    <2>1. \E s \in {arg, 0} : FromServer(<<Reply(id, s)>>)
      BY <1>5 DEF Auth, id, arg
    <2>2. toClient' \in Seq(Message)
      BY <2>1, <1>a, ReplyType, FromServerType
    <2>3. needsAuth' \in SUBSET Nat
      BY <1>5 DEF Auth, SessionType
    <2> QED
      BY <1>5, <1>0, <2>2, <2>3 DEF Auth, SessionType, versionVars, clientVars
  <1>6. CASE Function
    <2>1. (\E s \in {arg, 0, services + 1} : FromServer(<<Reply(id, s)>>)) \/ UNCHANGED toClient
      BY <1>6 DEF Function, id, arg
    <2>2. toClient' \in Seq(Message)
      BY <2>1, <1>a, ReplyType, FromServerType DEF SessionType
    <2>3. services' \in Nat /\ pending' \in SUBSET Nat
      BY <1>6, <1>a DEF Function, SessionType, id
    <2> QED
      BY <1>6, <1>0, <2>2, <2>3 DEF Function, SessionType, versionVars, clientVars
  <1> QED
    BY <1>1, <1>2, <1>3, <1>4, <1>5, <1>6 DEF ServerReadsOne

LEMMA TypeStep == SessionType /\ [Next]_vars => SessionType'
  <1> SUFFICES ASSUME SessionType, [Next]_vars PROVE SessionType'
    OBVIOUS
  <1>1. CASE Encrypted
    <2>1. toClient' \in Seq(Message) /\ state' \in {"Connecting", "Service", "Ready"}
      BY <1>1, StateType, FromServerType DEF Encrypted
    <2> QED
      BY <1>1, <2>1 DEF Encrypted, SessionType, versionVars, clientVars, serverVars
  <1>2. CASE \E id \in IdsOf : SendReturn(id)
    <2>1. PICK id \in Nat : SendReturn(id)
      BY <1>2 DEF SendReturn, SessionType
    <2>2. toClient' \in Seq(Message)
      BY <2>1, ReplyType, FromServerType DEF SendReturn
    <2> QED
      BY <2>1, <2>2 DEF SendReturn, SessionType, versionVars, clientVars
  <1>3. CASE Push
    <2>1. PICK s \in 1 .. services : \/ FromServer(<<Msg(sversion, "event", 0, s)>>)
                                    \/ FromServer(<<Msg(sversion, "callback", pushed + 1, s)>>)
      BY <1>3 DEF Push
    <2>2. s \in Nat /\ pushed + 1 \in Nat
      BY DEF SessionType
    <2>3. /\ Msg(sversion, "event", 0, s) \in Message
          /\ Msg(sversion, "callback", pushed + 1, s) \in Message
      BY <2>2, MsgType DEF SessionType, Kinds
    <2>4. toClient' \in Seq(Message)
      BY <2>1, <2>3, Singleton, FromServerType
    <2> QED
      BY <1>3, <2>2, <2>4 DEF Push, SessionType, versionVars, clientVars
  <1>4. CASE ServerDown
    BY <1>4 DEF ServerDown, SessionType, versionVars, clientVars
  <1>5. CASE UNCHANGED vars
    BY <1>5 DEF vars, versionVars, wireVars, clientVars, serverVars, SessionType
  <1> QED
    BY <1>1, <1>2, <1>3, <1>4, <1>5, ClientStepType, ServerReadsOneType DEF Next
-----------------------------------------------------------------------------
(* Versions.                                                                *)

Asks == {"list", "select", "auth", "call"}

\* The client has switched when it reads message i of toClient.
Switched(i) ==
  cversion = Agreed \/ \E j \in DOMAIN toClient : j < i /\ toClient[j].is = "setProtocolVersion"

\* Message i on its way to the client: written in the version in which it will
\* be read; the first one only starts the negotiation, one only ends it.
ToldClient(i) ==
  LET m == toClient[i] IN
  /\ Switched(i) => m.ver = Agreed
  /\ ~Switched(i) => m.ver = 0
  /\ m.is = "welcome" => /\ i = 1 /\ m.arg = setup.server /\ sversion = 0
                         /\ \A k \in DOMAIN toServer : toServer[k].is # "setProtocolVersion"
  /\ m.is = "setProtocolVersion" => /\ m.arg = Agreed /\ m.ver = 0
                                    /\ cversion = 0 /\ sversion = Agreed
  /\ m.is = "error" => cversion = Agreed
  /\ m.is = "return" => m.id > 1 /\ (m.arg > 0 => cversion = Agreed)

\* Message k on its way to the server: in a version the server can read when
\* it gets there, and asking for a switch once at most.
ToldServer(k) ==
  LET m == toServer[k] IN
  /\ m.ver = 0 \/ (m.ver = Agreed /\ sversion = Agreed)
  /\ m.ver = 0 => m.is = "setProtocolVersion" \/ Agreed = 2
  /\ m.is = "setProtocolVersion" =>
       /\ m.arg = Agreed /\ m.ver = 0 /\ sversion = 0
       /\ \A l \in DOMAIN toServer : toServer[l].is = "setProtocolVersion" => l = k
  /\ m.is \in {"setSsl", "select", "auth", "call"} => cversion = Agreed
  /\ m.is \in Asks => m.id > 1

\* A switch the server has made and the client has not is on its way.
SwitchUnderWay ==
  csock # "down" /\ sversion = Agreed /\ cversion = 0 =>
    \E i \in DOMAIN toClient : toClient[i].is = "setProtocolVersion"

Negotiated ==
  /\ VersionsAgree
  /\ \A i \in DOMAIN toClient : ToldClient(i)
  /\ \A k \in DOMAIN toServer : ToldServer(k)
  /\ SwitchUnderWay
  /\ \A id \in pending : id > 1
  /\ known # {} \/ usable # {} => cversion = Agreed

\* What the server writes besides the answer that switches versions.
Plain(m) ==
  /\ m.ver = sversion
  /\ m.is \in {"stateChanged", "error", "enableSsl", "event", "callback", "return"}
  /\ m.is = "error" => cversion = Agreed
  /\ m.is = "return" => m.id > 1 /\ (m.arg > 0 => cversion = Agreed)

\* A step of the server that leaves the versions alone.
ServerStep ==
  /\ UNCHANGED <<setup, versionVars, csock, clientVars>>
  /\ \E ms \in Seq(Message) : FromServer(ms) /\ \A j \in DOMAIN ms : Plain(ms[j])
  /\ toServer' = toServer \/ (toServer # <<>> /\ toServer' = Tail(toServer))
  /\ \A id \in pending' : id \in pending \/ id > 1

LEMMA InitNegotiated == Init => Negotiated
  <1> SUFFICES ASSUME Init PROVE Negotiated
    OBVIOUS
  <1>1. setup \in Setups /\ Agreed \in {1, 2} /\ setup.server \in {1, 2}
    BY AgreedType DEF Init
  <1>3. \A i \in DOMAIN toClient : /\ toClient[i].ver = 0
                                   /\ toClient[i].is \in {"welcome", "stateChanged"}
                                   /\ toClient[i].is = "welcome" => i = 1 /\ toClient[i].arg = setup.server
    <2> DEFINE first == Msg(0, "welcome", 0, setup.server)
               next  == Msg(0, "stateChanged", 0, 1)
               rest  == IF setup.scheme = "socket" THEN <<next>> ELSE <<>>
    <2>1. first \in Message /\ next \in Message
      BY <1>1 DEF Msg, Message, Kinds
    <2> HIDE DEF first, next
    <2>2. <<first>> \in Seq(Message) /\ rest \in Seq(Message) /\ Len(<<first>>) = 1
      BY <2>1, Singleton
    <2>3. \A i \in DOMAIN <<first>> : i = 1 /\ <<first>>[i] = first
      OBVIOUS
    <2>4. \A i \in DOMAIN rest : rest[i] = next
      BY <2>1
    <2> HIDE DEF rest
    <2>5. toClient = <<first>> \o rest
      BY DEF Init, first, next, rest
    <2>6. \A i \in DOMAIN toClient : (i = 1 /\ toClient[i] = first) \/ toClient[i] = next
      BY <2>2, <2>3, <2>4, <2>5, WrittenQueue
    <2> QED
      BY <2>6 DEF first, next, Msg
  <1>4. \A i \in DOMAIN toClient : ToldClient(i)
    BY <1>1, <1>3 DEF ToldClient, Switched, Init
  <1>5. VersionsAgree
    BY <1>1 DEF VersionsAgree, Init, Connect
  <1> QED
    BY <1>1, <1>4, <1>5 DEF Negotiated, SwitchUnderWay, Init

\* The next message of each side can be read.
LEMMA NegotiatedRead == SessionType /\ Negotiated => Understood
  <1> SUFFICES ASSUME SessionType, Negotiated PROVE Understood
    OBVIOUS
  <1>1. Agreed \in {1, 2}
    BY AgreedType DEF SessionType
  <1>2. ASSUME toClient # <<>> PROVE ClientCanRead(Head(toClient))
    <2>1. Head(toClient) = toClient[1] /\ 1 \in DOMAIN toClient /\ DOMAIN toClient \subseteq Nat \ {0}
      BY <1>2, ReadQueue DEF SessionType
    <2>2. ToldClient(1)
      BY <2>1 DEF Negotiated
    <2>3. Switched(1) <=> cversion = Agreed
      BY <2>1 DEF Switched
    <2>4. cversion \in {0, Agreed}
      BY DEF Negotiated, VersionsAgree
    <2> QED
      BY <1>1, <2>1, <2>2, <2>3, <2>4 DEF ToldClient, ClientCanRead
  <1>3. ASSUME toServer # <<>> PROVE ServerCanRead(Head(toServer))
    <2>1. Head(toServer) = toServer[1] /\ 1 \in DOMAIN toServer
      BY <1>3, ReadQueue DEF SessionType
    <2>2. ToldServer(1) /\ sversion \in {0, Agreed}
      BY <2>1 DEF Negotiated, VersionsAgree
    <2> QED
      BY <1>1, <2>1, <2>2 DEF ToldServer, ServerCanRead
  <1> QED
    BY <1>2, <1>3 DEF Understood, ReadAsWritten, Negotiated

LEMMA ServerKeepsNegotiated ==
  ASSUME SessionType, SessionType', Negotiated, ServerStep
  PROVE  Negotiated'
  <1>0. Agreed' = Agreed /\ Agreed \in {1, 2}
    BY AgreedType DEF ServerStep, Agreed, SessionType
  <1>1. PICK ms \in Seq(Message) : FromServer(ms) /\ \A j \in DOMAIN ms : Plain(ms[j])
    BY DEF ServerStep
  <1>2. /\ setup' = setup /\ cversion' = cversion /\ sversion' = sversion /\ csock' = csock
        /\ told' = told /\ known' = known /\ usable' = usable
    BY DEF ServerStep, versionVars, clientVars
  <1>3. toServer \in Seq(Message) /\ toClient \in Seq(Message)
    BY DEF SessionType
  <1>4. /\ \A k \in DOMAIN toServer' : \E l \in DOMAIN toServer : toServer'[k] = toServer[l]
        /\ \A k \in DOMAIN toServer', n \in DOMAIN toServer' :
             \E l \in DOMAIN toServer, o \in DOMAIN toServer :
               /\ toServer'[k] = toServer[l] /\ toServer'[n] = toServer[o]
               /\ l = o => k = n
    <2>1. CASE toServer' = toServer
      BY <2>1
    <2>2. CASE toServer # <<>> /\ toServer' = Tail(toServer)
      <3>1. \A i \in DOMAIN Tail(toServer) :
              i \in Nat \ {0} /\ i + 1 \in DOMAIN toServer /\ Tail(toServer)[i] = toServer[i + 1]
        BY <1>3, <2>2, ReadQueue
      <3> QED
        BY <2>2, <3>1
    <2> QED
      BY <2>1, <2>2 DEF ServerStep
  <1>5. toClient' = toClient \o ms \/ (csock = "down" /\ toClient' = toClient)
    BY <1>1 DEF FromServer, Written
  <1>6. /\ \A i \in DOMAIN toClient : i \in DOMAIN toClient' /\ toClient'[i] = toClient[i] /\ i <= Len(toClient)
        /\ \A i \in DOMAIN toClient' :
             i \in DOMAIN toClient
             \/ (csock # "down" /\ i > Len(toClient) /\ i - Len(toClient) \in DOMAIN ms
                   /\ toClient'[i] = ms[i - Len(toClient)])
        /\ DOMAIN toClient' \subseteq Nat /\ Len(toClient) \in Nat /\ DOMAIN toClient = 1 .. Len(toClient)
    <2>1. CASE csock # "down"
      <3>1. toClient' = toClient \o ms
        BY <1>5, <2>1
      <3> QED
        BY <3>1, <2>1, <1>3, WrittenQueue
    <2>2. CASE csock = "down"
      <3>1. toClient' = toClient
        BY <1>1, <2>2 DEF FromServer
      <3> QED
        BY <3>1, <1>3
    <2> QED
      BY <2>1, <2>2
  <1>7. ASSUME NEW i \in DOMAIN toClient, Switched(i) PROVE Switched(i)'
    <2>1. CASE cversion = Agreed
      BY <2>1, <1>0, <1>2 DEF Switched
    <2>2. CASE \E j \in DOMAIN toClient : j < i /\ toClient[j].is = "setProtocolVersion"
      BY <2>2, <1>6 DEF Switched
    <2> QED
      BY <1>7, <2>1, <2>2 DEF Switched
  <1>8. ASSUME NEW i \in DOMAIN toClient, Switched(i)' PROVE Switched(i)
    <2>1. CASE cversion' = Agreed'
      BY <2>1, <1>0, <1>2 DEF Switched
    <2>2. CASE \E j \in DOMAIN toClient' : j < i /\ toClient'[j].is = "setProtocolVersion"
      <3>1. PICK j \in DOMAIN toClient' : j < i /\ toClient'[j].is = "setProtocolVersion"
        BY <2>2
      <3>2. j \in Nat /\ i <= Len(toClient) /\ i \in Nat
        BY <1>6
      <3>3. j \in DOMAIN toClient
        BY <1>6, <3>1, <3>2
      <3> QED
        BY <3>1, <3>3, <1>6 DEF Switched
    <2> QED
      BY <1>8, <2>1, <2>2 DEF Switched
  <1>9. ASSUME NEW i \in DOMAIN toClient' PROVE ToldClient(i)'
    <2>0. \A k \in DOMAIN toServer' : \E l \in DOMAIN toServer : toServer'[k] = toServer[l]
      BY <1>4
    <2>1. CASE i \in DOMAIN toClient
      <3>1. ToldClient(i) /\ toClient'[i] = toClient[i] /\ (Switched(i)' <=> Switched(i))
        BY <2>1, <1>6, <1>7, <1>8 DEF Negotiated
      <3> QED
        BY <3>1, <2>0, <1>0, <1>2 DEF ToldClient
    <2>2. CASE i \notin DOMAIN toClient
      <3>1. csock # "down" /\ i > Len(toClient) /\ i - Len(toClient) \in DOMAIN ms
            /\ toClient'[i] = ms[i - Len(toClient)]
        BY <2>2, <1>6
      <3>2. Plain(toClient'[i])
        BY <1>1, <3>1
      <3>3. sversion \in {0, Agreed} /\ cversion \in {0, Agreed} /\ (cversion = Agreed => sversion = Agreed)
        BY DEF Negotiated, VersionsAgree
      <3>4. CASE sversion = Agreed
        <4>1. cversion = Agreed \/ \E j \in DOMAIN toClient : toClient[j].is = "setProtocolVersion"
          BY <3>1, <3>3, <3>4 DEF Negotiated, SwitchUnderWay
        <4>2. ASSUME NEW j \in DOMAIN toClient, toClient[j].is = "setProtocolVersion"
              PROVE  j < i /\ j \in DOMAIN toClient' /\ toClient'[j].is = "setProtocolVersion"
          BY <4>2, <3>1, <1>6
        <4>3. Switched(i)'
          BY <4>1, <4>2, <1>0, <1>2 DEF Switched
        <4> QED
          BY <4>3, <3>2, <3>4, <1>0, <1>2 DEF ToldClient, Plain
      <3>5. CASE sversion = 0
        <4>1. cversion = 0 /\ cversion' # Agreed'
          BY <3>3, <3>5, <1>0, <1>2
        <4>2. ASSUME NEW j \in DOMAIN toClient' PROVE toClient'[j].is # "setProtocolVersion"
          <5>1. CASE j \in DOMAIN toClient
            <6>1. ToldClient(j) /\ toClient'[j] = toClient[j]
              BY <5>1, <1>6 DEF Negotiated
            <6> QED
              BY <6>1, <3>5, <1>0 DEF ToldClient
          <5>2. CASE j \notin DOMAIN toClient
            <6>1. Plain(toClient'[j])
              BY <5>2, <1>1, <1>6
            <6> QED
              BY <6>1 DEF Plain
          <5> QED
            BY <5>1, <5>2
        <4>3. ~Switched(i)'
          BY <4>1, <4>2 DEF Switched
        <4> QED
          BY <4>3, <3>2, <3>5, <1>0, <1>2 DEF ToldClient, Plain
      <3> QED
        BY <3>3, <3>4, <3>5
    <2> QED
      BY <2>1, <2>2
  <1>10. ASSUME NEW k \in DOMAIN toServer' PROVE ToldServer(k)'
    <2>1. PICK l \in DOMAIN toServer : toServer'[k] = toServer[l]
      BY <1>4
    <2>2. ToldServer(l)
      BY DEF Negotiated
    <2>3. ASSUME toServer'[k].is = "setProtocolVersion", NEW n \in DOMAIN toServer',
                 toServer'[n].is = "setProtocolVersion"
          PROVE  n = k
      <3>1. PICK p \in DOMAIN toServer, o \in DOMAIN toServer :
               toServer'[k] = toServer[p] /\ toServer'[n] = toServer[o] /\ (p = o => k = n)
        BY <1>4
      <3>2. ToldServer(p)
        BY DEF Negotiated
      <3> QED
        BY <2>3, <3>1, <3>2 DEF ToldServer
    <2> QED
      BY <2>1, <2>2, <2>3, <1>0, <1>2 DEF ToldServer
  <1>11. SwitchUnderWay'
    <2>1. SwitchUnderWay
      BY DEF Negotiated
    <2> QED
      BY <2>1, <1>0, <1>2, <1>6 DEF SwitchUnderWay
  <1>12. VersionsAgree'
    BY <1>0, <1>2 DEF VersionsAgree, Negotiated, Connect
  <1>13. \A id \in pending' : id > 1
    BY DEF ServerStep, Negotiated
  <1> QED
    BY <1>0, <1>2, <1>9, <1>10, <1>11, <1>12, <1>13 DEF Negotiated
\* What the client writes besides setSsl: a call, or the request to switch
\* with which it answers the welcome.
Spoken(m) ==
  /\ m.ver = cversion
  /\ \/ /\ m.is \in Asks /\ m.id > 1
        /\ m.is # "list" => cversion = Agreed
        /\ cversion = 0 => Agreed = 2
     \/ /\ m.is = "setProtocolVersion" /\ m.arg = Agreed
        /\ toClient # <<>> /\ Head(toClient).is = "welcome" /\ toClient' = Tail(toClient)

\* A step of the client, or the end of a socket, that leaves the versions alone.
ClientStep ==
  /\ UNCHANGED <<setup, versionVars>>
  /\ \/ toClient' = toClient
     \/ /\ toClient # <<>> /\ Head(toClient).is # "setProtocolVersion"
        /\ toClient' = Tail(toClient)
     \/ toClient' = <<>> /\ csock' = "down"
  /\ csock = "down" => csock' = "down"
  /\ \/ toServer' = toServer
     \/ toServer' = <<>>
     \/ \E m \in Message : Spoken(m) /\ toServer' = toServer \o <<m>>
  /\ pending' \subseteq pending
  /\ told'[Connect] > 0 => cversion = Agreed
  /\ known' # {} \/ usable' # {} => cversion = Agreed

LEMMA ClientKeepsNegotiated ==
  ASSUME SessionType, SessionType', Negotiated, ClientStep
  PROVE  Negotiated'
  <1>0. Agreed' = Agreed /\ Agreed \in {1, 2}
    BY AgreedType DEF ClientStep, Agreed, SessionType
  <1>1. setup' = setup /\ cversion' = cversion /\ sversion' = sversion
    BY DEF ClientStep, versionVars
  <1>2. toServer \in Seq(Message) /\ toClient \in Seq(Message)
    BY DEF SessionType
  <1>3. VersionsAgree /\ (cversion = 0 \/ sversion = Agreed)
    BY <1>0 DEF Negotiated, VersionsAgree
  <1>4. \A k \in DOMAIN toServer' :
          \/ k \in DOMAIN toServer /\ toServer'[k] = toServer[k]
          \/ k = Len(toServer) + 1 /\ toServer'[k] \in Message /\ Spoken(toServer'[k])
    <2>1. CASE toServer' = toServer \/ toServer' = <<>>
      BY <2>1
    <2>2. ASSUME NEW m \in Message, Spoken(m), toServer' = toServer \o <<m>>
          PROVE  \A k \in DOMAIN toServer' :
                   \/ k \in DOMAIN toServer /\ toServer'[k] = toServer[k]
                   \/ k = Len(toServer) + 1 /\ toServer'[k] = m
      BY <2>2, <1>2
    <2> QED
      BY <2>1, <2>2 DEF ClientStep
  <1>5. DOMAIN toServer = 1 .. Len(toServer) /\ Len(toServer) \in Nat
    BY <1>2
  <1>6. ASSUME NEW i \in DOMAIN toClient' PROVE ToldClient(i)'
    <2>1. CASE toClient' = toClient
      <3>1. ToldClient(i) /\ (Switched(i)' <=> Switched(i))
        BY <2>1, <1>0, <1>1, <1>6 DEF Negotiated, Switched
      <3>2. toClient[i].is = "welcome" => \A k \in DOMAIN toServer' : toServer'[k].is # "setProtocolVersion"
        <4>1. ASSUME NEW k \in DOMAIN toServer', k \notin DOMAIN toServer, toClient[i].is = "welcome"
              PROVE  toServer'[k].is # "setProtocolVersion"
          <5>1. Spoken(toServer'[k])
            BY <4>1, <1>4
          <5>2. toClient # <<>> => Tail(toClient) # toClient
            BY <1>2
          <5> QED
            BY <5>1, <5>2, <2>1 DEF Spoken, Asks
        <4> QED
          BY <4>1, <3>1, <1>4, <1>5 DEF ToldClient
      <3> QED
        BY <2>1, <3>1, <3>2, <1>0, <1>1 DEF ToldClient
    <2>2. CASE toClient # <<>> /\ Head(toClient).is # "setProtocolVersion" /\ toClient' = Tail(toClient)
      <3>1. /\ Head(toClient) = toClient[1] /\ 1 \in DOMAIN toClient
            /\ \A j \in DOMAIN Tail(toClient) :
                 j \in Nat \ {0} /\ j + 1 \in DOMAIN toClient /\ Tail(toClient)[j] = toClient[j + 1]
            /\ \A j \in DOMAIN toClient :
                 j = 1 \/ (j - 1 \in DOMAIN Tail(toClient) /\ j \in Nat \ {0} /\ Tail(toClient)[j - 1] = toClient[j])
        BY <1>2, <2>2, ReadQueue
      <3>2. i \in Nat \ {0} /\ i + 1 \in DOMAIN toClient /\ toClient'[i] = toClient[i + 1]
        BY <2>2, <3>1, <1>6
      <3>3. ToldClient(i + 1)
        BY <3>2 DEF Negotiated
      <3>4. ASSUME Switched(i + 1) PROVE Switched(i)'
        <4>1. CASE cversion = Agreed
          BY <4>1, <1>0, <1>1 DEF Switched
        <4>2. ASSUME NEW j \in DOMAIN toClient, j < i + 1, toClient[j].is = "setProtocolVersion"
              PROVE  Switched(i)'
          <5>1. j # 1
            BY <4>2, <3>1, <2>2
          <5>2. j - 1 \in DOMAIN toClient' /\ toClient'[j - 1] = toClient[j] /\ j - 1 < i
            BY <5>1, <4>2, <3>1, <3>2, <2>2
          <5> QED
            BY <5>2, <4>2 DEF Switched
        <4> QED
          BY <3>4, <4>1, <4>2 DEF Switched
      <3>5. ASSUME Switched(i)' PROVE Switched(i + 1)
        <4>1. CASE cversion' = Agreed'
          BY <4>1, <1>0, <1>1 DEF Switched
        <4>2. ASSUME NEW j \in DOMAIN toClient', j < i, toClient'[j].is = "setProtocolVersion"
              PROVE  Switched(i + 1)
          <5>1. j + 1 \in DOMAIN toClient /\ toClient[j + 1] = toClient'[j] /\ j + 1 < i + 1
            BY <4>2, <3>1, <3>2, <2>2
          <5> QED
            BY <5>1, <4>2 DEF Switched
        <4> QED
          BY <3>5, <4>1, <4>2 DEF Switched
      <3>6. toClient'[i].is # "welcome"
        BY <3>2, <3>3 DEF ToldClient
      <3> QED
        BY <3>2, <3>3, <3>4, <3>5, <3>6, <1>0, <1>1 DEF ToldClient
    <2>3. CASE toClient' = <<>>
      BY <2>3, <1>6
    <2> QED
      BY <2>1, <2>2, <2>3 DEF ClientStep
  <1>7. ASSUME NEW k \in DOMAIN toServer' PROVE ToldServer(k)'
    <2>1. CASE k \in DOMAIN toServer /\ toServer'[k] = toServer[k]
      <3>1. ToldServer(k)
        BY <2>1 DEF Negotiated
      <3>2. ASSUME toServer'[k].is = "setProtocolVersion", NEW l \in DOMAIN toServer',
                   toServer'[l].is = "setProtocolVersion"
            PROVE  l = k
        <4>1. CASE l \in DOMAIN toServer /\ toServer'[l] = toServer[l]
          BY <2>1, <3>1, <3>2, <4>1 DEF ToldServer
        <4>2. CASE Spoken(toServer'[l])
          <5>1. toClient # <<>> /\ toClient[1].is = "welcome" /\ 1 \in DOMAIN toClient
            BY <3>2, <4>2, <1>2, ReadQueue DEF Spoken, Asks
          <5>2. ToldClient(1)
            BY <5>1 DEF Negotiated
          <5>3. toServer[k].is # "setProtocolVersion"
            BY <5>1, <5>2, <2>1 DEF ToldClient
          <5> QED
            BY <5>3, <2>1, <3>2
        <4> QED
          BY <4>1, <4>2, <1>4
      <3> QED
        BY <2>1, <3>1, <3>2, <1>0, <1>1 DEF ToldServer
    <2>2. CASE k = Len(toServer) + 1 /\ toServer'[k] \in Message /\ Spoken(toServer'[k])
      <3>1. CASE toServer'[k].is \in Asks
        BY <2>2, <3>1, <1>0, <1>1, <1>3 DEF Spoken, ToldServer, Asks, VersionsAgree
      <3>2. CASE toServer'[k].is = "setProtocolVersion"
        <4>1. toServer'[k].arg = Agreed /\ toServer'[k].ver = cversion
              /\ toClient # <<>> /\ toClient[1].is = "welcome" /\ 1 \in DOMAIN toClient
          BY <3>2, <2>2, <1>2, ReadQueue DEF Spoken, Asks
        <4>2. ToldClient(1)
          BY <4>1 DEF Negotiated
        <4>3. sversion = 0 /\ cversion = 0
              /\ \A l \in DOMAIN toServer : toServer[l].is # "setProtocolVersion"
          BY <4>1, <4>2, <1>0, <1>3 DEF ToldClient
        <4>4. ASSUME NEW l \in DOMAIN toServer', toServer'[l].is = "setProtocolVersion" PROVE l = k
          BY <4>3, <4>4, <1>4, <2>2
        <4> QED
          BY <4>1, <4>3, <4>4, <3>2, <1>0, <1>1 DEF ToldServer, Asks
      <3> QED
        BY <2>2, <3>1, <3>2 DEF Spoken
    <2> QED
      BY <2>1, <2>2, <1>4
  <1>8. SwitchUnderWay'
    <2> SUFFICES ASSUME csock' # "down", sversion = Agreed, cversion = 0
                 PROVE  \E i \in DOMAIN toClient' : toClient'[i].is = "setProtocolVersion"
      BY <1>0, <1>1 DEF SwitchUnderWay
    <2>1. PICK i \in DOMAIN toClient : toClient[i].is = "setProtocolVersion"
      BY DEF Negotiated, SwitchUnderWay, ClientStep
    <2>2. CASE toClient' = toClient
      BY <2>1, <2>2
    <2>3. CASE toClient # <<>> /\ Head(toClient).is # "setProtocolVersion" /\ toClient' = Tail(toClient)
      <3>1. i # 1
        BY <2>1, <2>3, <1>2, ReadQueue
      <3>2. i - 1 \in DOMAIN toClient' /\ toClient'[i - 1] = toClient[i]
        BY <3>1, <2>3, <1>2, ReadQueue
      <3> QED
        BY <3>2, <2>1
    <2> QED
      BY <2>2, <2>3 DEF ClientStep
  <1>9. VersionsAgree'
    BY <1>0, <1>1, <1>3 DEF VersionsAgree, ClientStep, Connect
  <1> QED
    BY <1>0, <1>1, <1>6, <1>7, <1>8, <1>9 DEF Negotiated, ClientStep
\* What is left of a queue without its head.
LEMMA TailShift ==
  ASSUME NEW q \in Seq(Message), q # <<>>
  PROVE  \A i \in DOMAIN Tail(q) :
           /\ i \in Nat \ {0} /\ i + 1 \in DOMAIN q /\ i + 1 # 1 /\ 1 < i + 1
           /\ Tail(q)[i] = q[i + 1]
  BY ReadQueue

LEMMA VersionSetKeepsNegotiated ==
  ASSUME SessionType, Negotiated, VersionSet
  PROVE  Negotiated'
  <1>0. Agreed' = Agreed /\ Agreed \in {1, 2} /\ setup' = setup /\ setup.scheme \in {"tcp", "tcps", "socket"}
    BY AgreedType, SetupAssumption DEF VersionSet, Agreed, SessionType, Setups
  <1>1. /\ toServer \in Seq(Message) /\ toClient \in Seq(Message) /\ toClient # <<>>
        /\ toClient' = Tail(toClient) /\ Head(toClient) = toClient[1] /\ 1 \in DOMAIN toClient
        /\ toClient[1].is = "setProtocolVersion"
    BY ClientReadsType DEF SessionType, VersionSet
  <1>2. ToldClient(1)
    BY <1>1 DEF Negotiated
  <1>3. cversion' = Agreed /\ sversion' = Agreed /\ sversion = Agreed
    BY <1>1, <1>2 DEF ToldClient, VersionSet
  <1>4. ASSUME NEW i \in DOMAIN toClient' PROVE ToldClient(i)'
    <2>1. i \in Nat \ {0} /\ i + 1 \in DOMAIN toClient /\ i + 1 # 1 /\ 1 < i + 1
          /\ toClient'[i] = toClient[i + 1]
      BY <1>1, <1>4, TailShift
    <2>2. ToldClient(i + 1) /\ Switched(i + 1)
      BY <1>1, <2>1 DEF Negotiated, Switched
    <2>3. Switched(i)'
      BY <1>0, <1>3 DEF Switched
    <2> QED
      BY <1>0, <1>3, <2>1, <2>2, <2>3 DEF ToldClient
  <1>5. ASSUME NEW k \in DOMAIN toServer'
        PROVE  \/ k \in DOMAIN toServer /\ toServer'[k] = toServer[k]
               \/ toServer'[k].ver = Agreed /\ toServer'[k].is = "setSsl"
    <2> DEFINE ms == ConnectedMsgs(Head(toClient).arg)
               m0 == Msg(Head(toClient).arg, "setSsl", 0, 0)
               m1 == Msg(Head(toClient).arg, "setSsl", 0, 1)
    <2>1. Head(toClient).arg = Agreed /\ Agreed \in Nat
      BY <1>0, <1>1, <1>2 DEF ToldClient
    <2>2. m0 \in Message /\ m1 \in Message
      BY <2>1, MsgType DEF Kinds
    <2>3. m0.ver = Agreed /\ m0.is = "setSsl" /\ m1.ver = Agreed /\ m1.is = "setSsl"
      BY <2>1 DEF Msg
    <2> HIDE DEF m0, m1
    <2>4. ms = <<m0>> \/ ms = <<m1>> \/ ms = <<>>
      BY <1>0 DEF ConnectedMsgs, m0, m1
    <2>5. ms \in Seq(Message) /\ \A j \in DOMAIN ms : ms[j].ver = Agreed /\ ms[j].is = "setSsl"
      <3> HIDE DEF ms
      <3>1. CASE ms = <<m0>>
        BY <3>1, <2>2, <2>3
      <3>2. CASE ms = <<m1>>
        BY <3>2, <2>2, <2>3
      <3>3. CASE ms = <<>>
        BY <3>3
      <3> QED
        BY <2>4, <3>1, <3>2, <3>3
    <2>6. FromClient(ms)
      BY DEF VersionSet
    <2> HIDE DEF ms
    <2>7. CASE toServer' = toServer \o ms
      <3>1. \A i \in DOMAIN (toServer \o ms) :
              \/ i \in DOMAIN toServer /\ (toServer \o ms)[i] = toServer[i]
              \/ i - Len(toServer) \in DOMAIN ms /\ (toServer \o ms)[i] = ms[i - Len(toServer)]
        BY <1>1, <2>5, WrittenQueue
      <3> QED
        BY <3>1, <1>5, <2>5, <2>7
    <2>8. CASE toServer' = toServer
      BY <2>8, <1>5
    <2> QED
      BY <2>6, <2>7, <2>8 DEF FromClient, Written
  <1>6. ASSUME NEW k \in DOMAIN toServer' PROVE ToldServer(k)'
    <2>1. CASE k \in DOMAIN toServer /\ toServer'[k] = toServer[k]
      <3>1. ToldServer(k)
        BY <2>1 DEF Negotiated
      <3> QED
        BY <2>1, <3>1, <1>0, <1>3 DEF ToldServer
    <2>2. CASE toServer'[k].ver = Agreed /\ toServer'[k].is = "setSsl"
      BY <2>2, <1>0, <1>3 DEF ToldServer, Asks
    <2> QED
      BY <2>1, <2>2, <1>5
  <1>7. SwitchUnderWay' /\ VersionsAgree'
    BY <1>0, <1>3 DEF SwitchUnderWay, VersionsAgree
  <1>8. \A id \in pending' : id > 1
    BY DEF VersionSet, serverVars, Negotiated
  <1> QED
    BY <1>0, <1>3, <1>4, <1>6, <1>7, <1>8 DEF Negotiated

LEMMA SetProtocolVersionKeepsNegotiated ==
  ASSUME SessionType, Negotiated, SetProtocolVersion
  PROVE  Negotiated'
  <1>0. /\ Agreed' = Agreed /\ Agreed \in {1, 2} /\ setup' = setup /\ cversion' = cversion
        /\ csock' = csock /\ setup.server \in {1, 2} /\ setup.client \in {1, 2}
    BY AgreedType DEF SetProtocolVersion, Agreed, SessionType
  <1>1. /\ toServer \in Seq(Message) /\ toClient \in Seq(Message) /\ toServer # <<>>
        /\ toServer' = Tail(toServer) /\ Head(toServer) = toServer[1] /\ 1 \in DOMAIN toServer
        /\ toServer[1].is = "setProtocolVersion"
    BY ServerReadsType DEF SessionType, SetProtocolVersion
  <1>2. ToldServer(1)
    BY <1>1 DEF Negotiated
  <1>3. sversion = 0 /\ cversion = 0 /\ Head(toServer).arg = Agreed
    BY <1>0, <1>1, <1>2 DEF ToldServer, Negotiated, VersionsAgree
  <1>4. Lower(Agreed, setup.server) = Agreed
    BY <1>0 DEF Lower, Agreed
  <1>5. sversion' = Agreed
    BY <1>3, <1>4 DEF SetProtocolVersion
  <1> DEFINE m == Msg(0, "setProtocolVersion", 0, Agreed)
  <1>6. m.ver = 0 /\ m.is = "setProtocolVersion" /\ m.arg = Agreed /\ m \in Message
    BY <1>0, MsgType DEF Msg, Kinds
  <1> HIDE DEF m
  <1>7. FromServer(<<m>>)
    BY <1>3, <1>4 DEF SetProtocolVersion, m
  <1>8. ASSUME NEW i \in DOMAIN toClient
        PROVE  /\ ToldClient(i) /\ toClient[i].ver = 0
               /\ toClient[i].is \notin {"setProtocolVersion", "welcome"}
    <2>1. ToldClient(i)
      BY DEF Negotiated
    <2>2. ~Switched(i)
      <3>1. \A j \in DOMAIN toClient : toClient[j].is # "setProtocolVersion"
        BY <1>0, <1>3 DEF Negotiated, ToldClient
      <3> QED
        BY <3>1, <1>0, <1>3 DEF Switched
    <2> QED
      BY <2>1, <2>2, <1>0, <1>1, <1>3 DEF ToldClient
  <1>9. \A i \in DOMAIN toClient' :
          \/ i \in DOMAIN toClient /\ toClient'[i] = toClient[i]
          \/ i = Len(toClient) + 1 /\ toClient'[i] = m
    <2>1. CASE toClient' = toClient
      BY <2>1
    <2>2. CASE toClient' = toClient \o <<m>>
      BY <2>2, <1>1, <1>6
    <2> QED
      BY <1>7, <2>1, <2>2 DEF FromServer, Written
  <1>10. DOMAIN toClient = 1 .. Len(toClient) /\ Len(toClient) \in Nat
    BY <1>1
  <1>11. ASSUME NEW i \in DOMAIN toClient' PROVE ToldClient(i)'
    <2>1. ~Switched(i)'
      <3>1. cversion' # Agreed'
        BY <1>0, <1>3
      <3>2. ASSUME NEW j \in DOMAIN toClient', j < i PROVE toClient'[j].is # "setProtocolVersion"
        <4>1. j \in DOMAIN toClient
          BY <3>2, <1>9, <1>10, <1>11
        <4>2. toClient'[j] = toClient[j]
          BY <4>1, <1>9, <1>10
        <4> QED
          BY <4>1, <4>2, <1>8
      <3> QED
        BY <3>1, <3>2 DEF Switched
    <2>2. CASE i \in DOMAIN toClient /\ toClient'[i] = toClient[i]
      BY <2>1, <2>2, <1>0, <1>3, <1>8 DEF ToldClient
    <2>3. CASE toClient'[i] = m
      BY <2>1, <2>3, <1>0, <1>3, <1>5, <1>6 DEF ToldClient
    <2> QED
      BY <2>2, <2>3, <1>9
  <1>12. ASSUME NEW k \in DOMAIN toServer' PROVE ToldServer(k)'
    <2>1. k \in Nat \ {0} /\ k + 1 \in DOMAIN toServer /\ k + 1 # 1 /\ toServer'[k] = toServer[k + 1]
      BY <1>1, <1>12, TailShift
    <2>2. ToldServer(k + 1) /\ toServer[k + 1].is # "setProtocolVersion"
      BY <2>1, <1>1, <1>2 DEF Negotiated, ToldServer
    <2> QED
      BY <2>1, <2>2, <1>0, <1>5 DEF ToldServer
  <1>13. SwitchUnderWay'
    <2>1. CASE csock # "down"
      <3>1. toClient' = toClient \o <<m>>
        BY <1>7, <2>1 DEF FromServer, Written
      <3>2. Len(toClient) + 1 \in DOMAIN toClient' /\ toClient'[Len(toClient) + 1] = m
        BY <3>1, <1>1, <1>6
      <3> QED
        BY <3>2, <1>6 DEF SwitchUnderWay
    <2> QED
      BY <2>1, <1>0 DEF SwitchUnderWay
  <1>14. VersionsAgree'
    BY <1>0, <1>3, <1>5 DEF VersionsAgree, Negotiated, SetProtocolVersion, clientVars
  <1> QED
    BY <1>0, <1>3, <1>11, <1>12, <1>13, <1>14 DEF Negotiated, SetProtocolVersion, clientVars, serverVars
\* News of a state, and an answer behind it, are plain.
LEMMA PlainMsgs ==
  ASSUME SessionType, NEW id \in Nat, id > 1, NEW service \in Nat,
         service > 0 => cversion = Agreed
  PROVE  \A s \in {"Service", "Ready"} :
           LET alone  == StateMsg(s)
               answer == <<Reply(id, service)>>
           IN  /\ alone \in Seq(Message) /\ answer \in Seq(Message) /\ alone \o answer \in Seq(Message)
               /\ \A j \in DOMAIN alone : Plain(alone[j])
               /\ \A j \in DOMAIN answer : Plain(answer[j])
               /\ \A j \in DOMAIN (alone \o answer) : Plain((alone \o answer)[j])
  <1> SUFFICES ASSUME NEW s \in {"Service", "Ready"}
               PROVE  LET alone  == StateMsg(s)
                          answer == <<Reply(id, service)>>
                      IN  /\ alone \in Seq(Message) /\ answer \in Seq(Message)
                          /\ alone \o answer \in Seq(Message)
                          /\ \A j \in DOMAIN alone : Plain(alone[j])
                          /\ \A j \in DOMAIN answer : Plain(answer[j])
                          /\ \A j \in DOMAIN (alone \o answer) : Plain((alone \o answer)[j])
    OBVIOUS
  <1> DEFINE alone  == StateMsg(s)
             answer == <<Reply(id, service)>>
             news   == Msg(sversion, "stateChanged", 0, Level[s])
  <1>1. Plain(Reply(id, service)) /\ Plain(news)
    BY DEF Plain, Reply, Msg
  <1>2. alone \in Seq(Message) /\ answer \in Seq(Message) /\ alone \o answer \in Seq(Message)
    BY StateType, ReplyType
  <1>3. \A j \in DOMAIN answer : answer[j] = Reply(id, service)
    OBVIOUS
  <1>4. \A j \in DOMAIN alone : alone[j] = news
    BY DEF StateMsg
  <1> HIDE DEF alone, answer, news
  <1>5. \A j \in DOMAIN (alone \o answer) :
          \/ j \in DOMAIN alone /\ (alone \o answer)[j] = alone[j]
          \/ j - Len(alone) \in DOMAIN answer /\ (alone \o answer)[j] = answer[j - Len(alone)]
    BY <1>2, WrittenQueue
  <1>6. \A j \in DOMAIN (alone \o answer) : Plain((alone \o answer)[j])
    BY <1>1, <1>3, <1>4, <1>5
  <1> QED
    BY <1>1, <1>2, <1>3, <1>4, <1>6 DEF alone, answer

\* Writing one plain message.
LEMMA PlainMsg ==
  ASSUME SessionType, NEW is \in {"error", "enableSsl", "event", "callback"},
         is = "error" => cversion = Agreed, NEW id \in Nat, NEW arg \in Nat
  PROVE  LET ms == <<Msg(sversion, is, id, arg)>>
         IN  ms \in Seq(Message) /\ \A j \in DOMAIN ms : Plain(ms[j])
  <1>1. Msg(sversion, is, id, arg) \in Message
    BY MsgType DEF SessionType, Kinds
  <1>2. Plain(Msg(sversion, is, id, arg))
    BY DEF Plain, Msg
  <1> QED
    BY <1>1, <1>2, Singleton

LEMMA ServerSteps ==
  ASSUME SessionType, Negotiated,
         \/ SetSsl \/ List \/ Select \/ Auth \/ Function \/ Encrypted
         \/ (\E id \in IdsOf : SendReturn(id)) \/ Push
  PROVE  ServerStep
  <1> DEFINE Writes == \E ms \in Seq(Message) : FromServer(ms) /\ \A j \in DOMAIN ms : Plain(ms[j])
             Reads(is) == /\ toServer # <<>> /\ toServer' = Tail(toServer)
                          /\ 1 \in DOMAIN toServer /\ Head(toServer) = toServer[1]
                          /\ toServer[1].is = is /\ ToldServer(1)
                          /\ Head(toServer).id \in Nat /\ Head(toServer).arg \in Nat
  <1>0. ASSUME NEW is, ServerReads(is) PROVE Reads(is)
    <2>1. toServer' = Tail(toServer) /\ toServer # <<>> /\ Head(toServer) = toServer[1]
          /\ 1 \in DOMAIN toServer /\ toServer[1] \in Message /\ toServer[1].is = is
      BY <1>0, ServerReadsType
    <2> QED
      BY <2>1 DEF Negotiated, Message
  <1>a. UNCHANGED toClient => Writes
    <2>1. <<>> \in Seq(Message) /\ \A j \in DOMAIN <<>> : Plain(<<>>[j])
      OBVIOUS
    <2>2. toClient \o <<>> = toClient
      BY DEF SessionType
    <2>3. ASSUME UNCHANGED toClient PROVE FromServer(<<>>)
      BY <2>2, <2>3 DEF FromServer, Written
    <2> QED
      BY <2>1, <2>3
  <1>b. ASSUME NEW id \in Nat, id > 1, NEW service \in Nat, FromServer(<<Reply(id, service)>>),
               service > 0 => cversion = Agreed
        PROVE  Writes
    <2> DEFINE ms == <<Reply(id, service)>>
    <2>1. ms \in Seq(Message) /\ \A j \in DOMAIN ms : Plain(ms[j])
      BY <1>b, PlainMsgs
    <2> QED
      BY <1>b, <2>1
  <1>c. ASSUME NEW s \in {"Service", "Ready"}, FromServer(StateMsg(s))
        PROVE  Writes
    <2> DEFINE ms == StateMsg(s)
    <2>0. Plain(Msg(sversion, "stateChanged", 0, Level[s]))
      BY DEF Plain, Msg
    <2>1. ms \in Seq(Message) /\ \A j \in DOMAIN ms : Plain(ms[j])
      BY <2>0, StateType DEF StateMsg
    <2> QED
      BY <1>c, <2>1
  <1>1. CASE SetSsl
    <2>1. Reads("setSsl")
      BY <1>1, <1>0 DEF SetSsl
    <2>2. cversion = Agreed
      BY <2>1 DEF ToldServer
    <2>3. Writes
      <3>1. ASSUME NEW is \in {"error", "enableSsl"}, NEW arg \in {0, 2},
                   FromServer(<<Msg(sversion, is, 0, arg)>>)
            PROVE  Writes
        <4> DEFINE ms == <<Msg(sversion, is, 0, arg)>>
        <4>1. ms \in Seq(Message) /\ \A j \in DOMAIN ms : Plain(ms[j])
          BY <2>2, PlainMsg
        <4> QED
          BY <3>1, <4>1
      <3>2. CASE FromServer(<<Msg(sversion, "error", 0, 2)>>)
        BY <3>1, <3>2
      <3>3. CASE FromServer(<<Msg(sversion, "enableSsl", 0, 0)>>)
        BY <3>1, <3>3
      <3>4. CASE FromServer(StateMsg("Service"))
        BY <1>c, <3>4
      <3> QED
        BY <1>1, <3>2, <3>3, <3>4 DEF SetSsl
    <2> QED
      BY <1>1, <2>1, <2>3 DEF SetSsl, ServerStep, serverVars
  <1>2. CASE List
    <2>1. Reads("list")
      BY <1>2, <1>0 DEF List
    <2>2. Head(toServer).id > 1
      BY <2>1 DEF ToldServer, Asks
    <2>3. Writes
      BY <1>2, <1>b, <2>1, <2>2 DEF List
    <2> QED
      BY <1>2, <2>1, <2>3 DEF List, ServerStep, serverVars
  <1>3. CASE Select
    <2>1. Reads("select")
      BY <1>3, <1>0 DEF Select
    <2>2. Head(toServer).id > 1 /\ cversion = Agreed
      BY <2>1 DEF ToldServer, Asks
    <2>3. CASE FromServer(<<Reply(Head(toServer).id, 0)>>)
      <3>1. Writes
        BY <1>b, <2>1, <2>2, <2>3
      <3> QED
        BY <1>3, <2>1, <3>1 DEF Select, ServerStep
    <2>4. CASE FromServer(StateMsg("Ready") \o <<Reply(Head(toServer).id, services + 1)>>)
      <3> DEFINE ms == StateMsg("Ready") \o <<Reply(Head(toServer).id, services + 1)>>
      <3>1. services + 1 \in Nat
        BY DEF SessionType
      <3>2. ms \in Seq(Message) /\ \A j \in DOMAIN ms : Plain(ms[j])
        BY <2>1, <2>2, <3>1, PlainMsgs
      <3>3. Writes
        BY <2>4, <3>2
      <3> QED
        BY <1>3, <2>1, <3>3 DEF Select, ServerStep
    <2> QED
      BY <1>3, <2>3, <2>4 DEF Select
  <1>4. CASE Auth
    <2>1. Reads("auth")
      BY <1>4, <1>0 DEF Auth
    <2>2. Head(toServer).id > 1 /\ cversion = Agreed
      BY <2>1 DEF ToldServer, Asks
    <2>3. Writes
      BY <1>4, <1>b, <2>1, <2>2 DEF Auth
    <2> QED
      BY <1>4, <2>1, <2>3 DEF Auth, ServerStep
  <1>5. CASE Function
    <2>1. Reads("call")
      BY <1>5, <1>0 DEF Function
    <2>2. Head(toServer).id > 1 /\ cversion = Agreed
      BY <2>1 DEF ToldServer, Asks
    <2>3. services + 1 \in Nat
      BY DEF SessionType
    <2>4. (\E s \in Nat : FromServer(<<Reply(Head(toServer).id, s)>>)) \/ UNCHANGED toClient
      BY <1>5, <2>1, <2>3 DEF Function
    <2>5. Writes
      BY <1>a, <1>b, <2>1, <2>2, <2>4
    <2>6. \A id \in pending' : id \in pending \/ id > 1
      BY <1>5, <2>2 DEF Function
    <2> QED
      BY <1>5, <2>1, <2>5, <2>6 DEF Function, ServerStep
  <1>6. CASE Encrypted
    <2>1. Writes
      BY <1>6, <1>c DEF Encrypted
    <2> QED
      BY <1>6, <2>1 DEF Encrypted, ServerStep, serverVars
  <1>7. CASE \E id \in IdsOf : SendReturn(id)
    <2>1. PICK id \in Nat : SendReturn(id) /\ id > 1
      BY <1>7 DEF SendReturn, SessionType, Negotiated
    <2>2. FromServer(<<Reply(id, 0)>>)
      BY <2>1 DEF SendReturn
    <2>3. Writes
      BY <1>b, <2>1, <2>2
    <2> QED
      BY <2>1, <2>3 DEF SendReturn, ServerStep
  <1>8. CASE Push
    <2>1. PICK s \in 1 .. services : \/ FromServer(<<Msg(sversion, "event", 0, s)>>)
                                    \/ FromServer(<<Msg(sversion, "callback", pushed + 1, s)>>)
      BY <1>8 DEF Push
    <2>2. s \in Nat /\ pushed + 1 \in Nat
      BY DEF SessionType
    <2>3. Writes
      <3>1. CASE FromServer(<<Msg(sversion, "event", 0, s)>>)
        <4> DEFINE ms == <<Msg(sversion, "event", 0, s)>>
        <4>1. ms \in Seq(Message) /\ \A j \in DOMAIN ms : Plain(ms[j])
          BY <2>2, PlainMsg
        <4> QED
          BY <3>1, <4>1
      <3>2. CASE FromServer(<<Msg(sversion, "callback", pushed + 1, s)>>)
        <4> DEFINE ms == <<Msg(sversion, "callback", pushed + 1, s)>>
        <4>1. ms \in Seq(Message) /\ \A j \in DOMAIN ms : Plain(ms[j])
          BY <2>2, PlainMsg
        <4> QED
          BY <3>2, <4>1
      <3> QED
        BY <2>1, <3>1, <3>2
    <2> QED
      BY <1>8, <2>3 DEF Push, ServerStep
  <1> QED
    BY <1>1, <1>2, <1>3, <1>4, <1>5, <1>6, <1>7, <1>8
LEMMA ClientSteps ==
  ASSUME SessionType, Negotiated, 1 \notin Early,
         \/ Call \/ Close \/ Welcome \/ FatalError \/ EnableSsl \/ Return
         \/ (\E is \in {"stateChanged", "event", "callback"} : Passed(is))
         \/ ClientDown \/ ServerDown
  PROVE  ClientStep
  <1> DEFINE Reads(is) == /\ toClient # <<>> /\ toClient' = Tail(toClient)
                          /\ 1 \in DOMAIN toClient /\ Head(toClient) = toClient[1]
                          /\ Head(toClient).is = is /\ ToldClient(1)
                          /\ Head(toClient).id \in Nat /\ Head(toClient).arg \in Nat
  <1>0. ASSUME NEW is, ClientReads(is) PROVE Reads(is)
    <2>1. toClient' = Tail(toClient) /\ toClient # <<>> /\ Head(toClient) = toClient[1]
          /\ 1 \in DOMAIN toClient /\ toClient[1] \in Message /\ toClient[1].is = is
      BY <1>0, ClientReadsType
    <2> QED
      BY <2>1 DEF Negotiated, Message
  <1>a. /\ told[Connect] > 0 => cversion = Agreed
        /\ known # {} \/ usable # {} => cversion = Agreed
        /\ Agreed \in {1, 2} /\ cversion \in {0, Agreed} /\ (cversion = Agreed => sversion = Agreed)
    BY AgreedType DEF Negotiated, VersionsAgree, SessionType
  <1>1. CASE Call
    <2>1. PICK kind \in CallKinds \ {"connect"}, on \in {0, 1} \cup known \cup usable :
            /\ Send(kind, on)
            /\ \/ kind = "list" /\ on = 0 /\ (Agreed \in Early \/ told[Connect] > 0)
               \/ kind = "select" /\ on \in {0, 1} /\ told[Connect] > 0
               \/ kind = "auth" /\ on \in known
               \/ kind = "call" /\ on \in usable
      BY <1>1, CallCases
    <2>2. on \in Nat
      BY DEF SessionType
    <2> DEFINE m == Msg(cversion, kind, Len(calls) + 1, on)
    <2>3. Len(calls) \in Nat \ {0} /\ (\E n \in {0, 1} : told' = Append(told, n))
      BY <2>1, <2>2, SendType
    <2>4. m \in Message /\ m.ver = cversion /\ m.is = kind /\ m.id = Len(calls) + 1 /\ m.id > 1
      <3>1. kind \in Kinds /\ cversion \in Nat /\ Len(calls) + 1 \in Nat
        BY <2>3 DEF Kinds, CallKinds, SessionType
      <3> QED
        BY <3>1, <2>2, <2>3, MsgType DEF Msg
    <2>5. kind \in Asks /\ (kind # "list" => cversion = Agreed) /\ (cversion = 0 => Agreed = 2)
      BY <2>1, <1>a DEF Asks, CallKinds
    <2> HIDE DEF m
    <2>6. Spoken(m)
      BY <2>4, <2>5 DEF Spoken
    <2>7. toServer' = toServer \/ toServer' = toServer \o <<m>>
      BY <2>1 DEF Send, FromClient, Written, m
    <2>8. told'[Connect] = told[Connect]
      <3>1. PICK n \in {0, 1} : told' = Append(told, n)
        BY <2>3
      <3>2. n \in Nat /\ told \in Seq(Nat) /\ 1 \in 1 .. Len(told)
        BY DEF SessionType, Connect
      <3> QED
        BY <3>1, <3>2 DEF Connect
    <2> QED
      BY <1>1, <1>a, <2>4, <2>6, <2>7, <2>8 DEF Call, ClientStep, serverVars
  <1>2. CASE Close
    BY <1>2, <1>a DEF Close, ClientStep, serverVars
  <1>3. CASE Welcome
    <2>1. Reads("welcome")
      BY <1>3, <1>0 DEF Welcome
    <2>2. Head(toClient).arg = setup.server /\ Lower(setup.server, setup.client) = Agreed
          /\ setup.server \in {1, 2} /\ setup.client \in {1, 2}
      BY <2>1, AgreedType DEF ToldClient, Lower, Agreed, SessionType
    <2>3. Lower(Head(toClient).arg, setup.client) = Agreed
      BY <2>2
    <2> DEFINE m == Msg(cversion, "setProtocolVersion", 0, Agreed)
    <2>4. m \in Message /\ m.ver = cversion /\ m.is = "setProtocolVersion" /\ m.arg = Agreed
      BY <1>a, MsgType DEF SessionType, Kinds, Msg
    <2>5. toServer' = toServer \/ toServer' = toServer \o <<m>>
      BY <1>3, <2>3 DEF Welcome, FromClient, Written
    <2> HIDE DEF m
    <2>6. Spoken(m)
      BY <2>1, <2>4 DEF Spoken
    <2> QED
      BY <1>3, <1>a, <2>1, <2>4, <2>5, <2>6 DEF Welcome, ClientStep, clientVars, serverVars
  <1>4. CASE FatalError
    <2>1. Reads("error")
      BY <1>4, <1>0 DEF FatalError
    <2>2. cversion = Agreed
      BY <2>1 DEF ToldClient
    <2> QED
      BY <1>4, <2>1, <2>2 DEF FatalError, ClientReads, ClientStep, serverVars
  <1>5. CASE EnableSsl
    <2>1. Reads("enableSsl")
      BY <1>5, <1>0 DEF EnableSsl
    <2> QED
      BY <1>5, <1>a, <2>1 DEF EnableSsl, ClientStep, serverVars
  <1>6. CASE Return
    <2> DEFINE r == Head(toClient)
    <2>1. Reads("return") /\ r.id > 1 /\ (r.arg > 0 => cversion = Agreed)
      BY <1>6, <1>0 DEF Return, ToldClient
    <2>2. told'[Connect] = told[Connect]
      <3>1. told' = told \/ told' = [told EXCEPT ![r.id] = @ + 1]
        BY <1>6 DEF Return, Tell
      <3>2. r.id # 1 /\ told \in Seq(Nat) /\ 1 \in DOMAIN told
        BY <2>1 DEF SessionType, Connect
      <3> QED
        BY <3>1, <3>2 DEF Connect
    <2>3. known' # {} \/ usable' # {} => cversion = Agreed
      BY <1>6, <1>a, <2>1 DEF Return
    <2> QED
      BY <1>6, <1>a, <2>1, <2>2, <2>3 DEF Return, ClientStep, serverVars
  <1>7. CASE \E is \in {"stateChanged", "event", "callback"} : Passed(is)
    <2>1. PICK is \in {"stateChanged", "event", "callback"} : Passed(is)
      BY <1>7
    <2>2. Reads(is)
      BY <2>1, <1>0 DEF Passed
    <2> QED
      BY <2>1, <1>a, <2>2 DEF Passed, ClientStep, clientVars, serverVars
  <1>8. CASE ClientDown
    BY <1>8, <1>a DEF ClientDown, ClientStep, serverVars
  <1>9. CASE ServerDown
    BY <1>9, <1>a DEF ServerDown, ClientStep, clientVars
  <1> QED
    BY <1>1, <1>2, <1>3, <1>4, <1>5, <1>6, <1>7, <1>8, <1>9

\* A step preserves what the two ends know of each other's version.
LEMMA NegotiatedStep ==
  1 \notin Early => (SessionType /\ Negotiated /\ [Next]_vars => Negotiated')
  <1> SUFFICES ASSUME 1 \notin Early, SessionType, Negotiated, [Next]_vars
               PROVE  Negotiated'
    OBVIOUS
  <1>0. SessionType'
    BY TypeStep
  <1>1. CASE \/ Call \/ Close \/ Welcome \/ FatalError \/ EnableSsl \/ Return
             \/ (\E is \in {"stateChanged", "event", "callback"} : Passed(is))
             \/ ClientDown \/ ServerDown
    BY <1>0, <1>1, ClientSteps, ClientKeepsNegotiated
  <1>2. CASE VersionSet
    BY <1>2, VersionSetKeepsNegotiated
  <1>3. CASE \/ SetSsl \/ List \/ Select \/ Auth \/ Function \/ Encrypted
             \/ (\E id \in IdsOf : SendReturn(id)) \/ Push
    BY <1>0, <1>3, ServerSteps, ServerKeepsNegotiated
  <1>4. CASE SetProtocolVersion
    BY <1>4, SetProtocolVersionKeepsNegotiated
  <1>5. CASE UNCHANGED vars
    <2>1. Agreed' = Agreed /\ \A i : Switched(i)' <=> Switched(i)
      BY <1>5 DEF vars, wireVars, versionVars, Agreed, Switched
    <2> QED
      BY <1>5, <2>1
      DEF vars, wireVars, clientVars, serverVars, versionVars, Negotiated, VersionsAgree,
          ToldClient, ToldServer, SwitchUnderWay
  <1> QED
    BY <1>1, <1>2, <1>3, <1>4, <1>5 DEF Next, ClientReadsOne, ServerReadsOne

\* The two builds understand each other, whichever they are and whatever is
\* under way when they switch versions, and connect() succeeds only when they
\* have agreed.  Clients that will speak version 1 must wait for the answer to
\* connect(): a server that has switched to 1 no longer reads version 0.
THEOREM BuildsUnderstand == 1 \notin Early => (Spec => []Understood)
  <1> SUFFICES ASSUME 1 \notin Early PROVE Spec => []Understood
    OBVIOUS
  <1>1. Init => SessionType /\ Negotiated
    BY InitType, InitNegotiated
  <1>2. SessionType /\ Negotiated /\ [Next]_vars => (SessionType /\ Negotiated)'
    BY TypeStep, NegotiatedStep
  <1>3. SessionType /\ Negotiated => Understood
    BY NegotiatedRead
  <1> QED
    BY <1>1, <1>2, <1>3, PTL DEF Spec
-----------------------------------------------------------------------------
(* Calls.                                                                   *)

\* Whether, and where, a queue holds messages of a set.
Holds(q, M)  == \E i \in DOMAIN q : q[i] \in M
OnceIn(q, M) == \A i, j \in DOMAIN q : q[i] \in M /\ q[j] \in M => i = j

LEMMA TailHolds ==
  ASSUME NEW q \in Seq(Message), q # <<>>, NEW M
  PROVE  /\ OnceIn(q, M) => OnceIn(Tail(q), M)
         /\ Head(q) \notin M => (Holds(Tail(q), M) <=> Holds(q, M))
         /\ Head(q) \in M => Holds(q, M)
         /\ Head(q) \in M /\ OnceIn(q, M) => ~Holds(Tail(q), M)
  <1>1. /\ Head(q) = q[1] /\ 1 \in DOMAIN q
        /\ \A i \in DOMAIN Tail(q) :
             i \in Nat \ {0} /\ i + 1 \in DOMAIN q /\ i + 1 # 1 /\ Tail(q)[i] = q[i + 1]
        /\ \A i \in DOMAIN q :
             i = 1 \/ (i - 1 \in DOMAIN Tail(q) /\ i \in Nat \ {0} /\ Tail(q)[i - 1] = q[i])
    BY ReadQueue
  <1>2. ASSUME OnceIn(q, M) PROVE OnceIn(Tail(q), M)
    <2> SUFFICES ASSUME NEW i \in DOMAIN Tail(q), NEW j \in DOMAIN Tail(q),
                        Tail(q)[i] \in M, Tail(q)[j] \in M
                 PROVE  i = j
      BY DEF OnceIn
    <2>1. i + 1 = j + 1
      BY <1>1, <1>2 DEF OnceIn
    <2> QED
      BY <1>1, <2>1
  <1>3. ASSUME Head(q) \notin M PROVE Holds(Tail(q), M) <=> Holds(q, M)
    BY <1>1, <1>3 DEF Holds
  <1>4. Head(q) \in M => Holds(q, M)
    BY <1>1 DEF Holds
  <1>5. ASSUME Head(q) \in M, OnceIn(q, M) PROVE ~Holds(Tail(q), M)
    <2> SUFFICES ASSUME NEW i \in DOMAIN Tail(q), Tail(q)[i] \in M PROVE FALSE
      BY DEF Holds
    <2> QED
      BY <1>1, <1>5 DEF OnceIn
  <1> QED
    BY <1>2, <1>3, <1>4, <1>5

LEMMA WrittenHolds ==
  ASSUME NEW q \in Seq(Message), NEW ms \in Seq(Message), NEW M
  PROVE  /\ Holds(q \o ms, M) <=> Holds(q, M) \/ Holds(ms, M)
         /\ OnceIn(q, M) /\ OnceIn(ms, M) /\ ~(Holds(q, M) /\ Holds(ms, M)) => OnceIn(q \o ms, M)
  <1>1. /\ \A i \in DOMAIN q : i \in DOMAIN (q \o ms) /\ (q \o ms)[i] = q[i]
        /\ \A i \in DOMAIN ms : i + Len(q) \in DOMAIN (q \o ms) /\ (q \o ms)[i + Len(q)] = ms[i]
        /\ \A i \in DOMAIN (q \o ms) :
             \/ i \in DOMAIN q /\ (q \o ms)[i] = q[i]
             \/ i - Len(q) \in DOMAIN ms /\ (q \o ms)[i] = ms[i - Len(q)]
        /\ Len(q) \in Nat /\ DOMAIN (q \o ms) \subseteq Nat
    BY WrittenQueue
  <1>2. Holds(q \o ms, M) <=> Holds(q, M) \/ Holds(ms, M)
    BY <1>1 DEF Holds
  <1>3. ASSUME OnceIn(q, M), OnceIn(ms, M), ~(Holds(q, M) /\ Holds(ms, M)),
               NEW i \in DOMAIN (q \o ms), NEW j \in DOMAIN (q \o ms),
               (q \o ms)[i] \in M, (q \o ms)[j] \in M
        PROVE  i = j
    <2>1. CASE Holds(q, M)
      <3>1. \A k \in DOMAIN ms : ms[k] \notin M
        BY <1>3, <2>1 DEF Holds
      <3> QED
        BY <1>1, <1>3, <3>1 DEF OnceIn
    <2>2. CASE ~Holds(q, M)
      <3>1. \A k \in DOMAIN q : q[k] \notin M
        BY <2>2 DEF Holds
      <3>2. i - Len(q) = j - Len(q) /\ i \in Nat /\ j \in Nat
        BY <1>1, <1>3, <3>1 DEF OnceIn
      <3> QED
        BY <1>1, <3>2
    <2> QED
      BY <2>1, <2>2
  <1> QED
    BY <1>2, <1>3 DEF OnceIn

LEMMA OneHolds ==
  ASSUME NEW m \in Message, NEW M
  PROVE  /\ Holds(<<m>>, M) <=> m \in M
         /\ OnceIn(<<m>>, M)
         /\ ~Holds(<<>>, M) /\ OnceIn(<<>>, M)
  BY DEF Holds, OnceIn
\* The messages that ask for call id, and those that answer it.
AskMsgs(id)    == {m \in Message : AsksFor(m, id)}
AnswerMsgs(id) == {m \in Message : Answers(m, id)}
Asked(id)      == Holds(toServer, AskMsgs(id))
Answering(id)  == Holds(toClient, AnswerMsgs(id))

\* A call that was made is in one place; while the connection is up and the
\* client told of it, it is somewhere.
OnePlace(id) ==
  /\ OnceIn(toServer, AskMsgs(id)) /\ OnceIn(toClient, AnswerMsgs(id))
  /\ told[id] \in {0, 1}
  /\ Asked(id) => id \notin pending /\ ~Answering(id) /\ told[id] = 0
  /\ id \in pending => ~Answering(id) /\ told[id] = 0
  /\ Answering(id) => told[id] = 0
  /\ csock # "down" /\ ssock # "down" /\ wired =>
       Asked(id) \/ id \in pending \/ Answering(id) \/ told[id] = 1

\* One that was not made yet, and connect itself, is nowhere.
Nowhere(id) == ~Asked(id) /\ id \notin pending /\ ~Answering(id)

Kept(id) == IF id \in IdsOf \ {Connect} THEN OnePlace(id) ELSE Nowhere(id)
Conserved == \A id \in Nat : Kept(id)

LEMMA ServerWritesHolds ==
  ASSUME SessionType, NEW ms \in Seq(Message), FromServer(ms), NEW M
  PROVE  /\ Holds(toClient', M) => Holds(toClient, M) \/ Holds(ms, M)
         /\ Holds(toClient, M) => Holds(toClient', M)
         /\ csock # "down" /\ Holds(ms, M) => Holds(toClient', M)
         /\ OnceIn(toClient, M) /\ OnceIn(ms, M) /\ ~(Holds(toClient, M) /\ Holds(ms, M)) =>
              OnceIn(toClient', M)
  <1>1. toClient \in Seq(Message)
    BY DEF SessionType
  <1>2. CASE csock # "down"
    <2>1. toClient' = toClient \o ms
      BY <1>2 DEF FromServer, Written
    <2> QED
      BY <1>1, <2>1, WrittenHolds
  <1>3. CASE csock = "down"
    <2>1. toClient' = toClient
      BY <1>3 DEF FromServer
    <2> QED
      BY <1>3, <2>1
  <1> QED
    BY <1>2, <1>3

LEMMA ClientWritesHolds ==
  ASSUME SessionType, NEW ms \in Seq(Message), FromClient(ms), NEW M
  PROVE  /\ Holds(toServer', M) => Holds(toServer, M) \/ Holds(ms, M)
         /\ Holds(toServer, M) => Holds(toServer', M)
         /\ ssock # "down" /\ Holds(ms, M) => Holds(toServer', M)
         /\ OnceIn(toServer, M) /\ OnceIn(ms, M) /\ ~(Holds(toServer, M) /\ Holds(ms, M)) =>
              OnceIn(toServer', M)
  <1>1. toServer \in Seq(Message)
    BY DEF SessionType
  <1>2. CASE ssock # "down"
    <2>1. toServer' = toServer \o ms
      BY <1>2 DEF FromClient, Written
    <2> QED
      BY <1>1, <2>1, WrittenHolds
  <1>3. CASE ssock = "down"
    <2>1. toServer' = toServer
      BY <1>3 DEF FromClient
    <2> QED
      BY <1>3, <2>1
  <1> QED
    BY <1>2, <1>3

\* The server says something that answers no call, and reads nothing, or
\* something that asks for none.
LEMMA ServerTalks ==
  ASSUME SessionType, Conserved,
         UNCHANGED <<calls, told, wired, csock, pending>>, ssock = "down" => ssock' = "down",
         \/ toServer' = toServer
         \/ toServer # <<>> /\ toServer' = Tail(toServer) /\ Head(toServer).is \notin Asks,
         \E ms \in Seq(Message) : FromServer(ms) /\ \A j \in DOMAIN ms : ms[j].is # "return"
  PROVE  Conserved'
  <1> SUFFICES ASSUME NEW id \in Nat PROVE Kept(id)'
    BY DEF Conserved
  <1>1. Kept(id)
    BY DEF Conserved
  <1>2. PICK ms \in Seq(Message) : FromServer(ms) /\ \A j \in DOMAIN ms : ms[j].is # "return"
    OBVIOUS
  <1>3. ~Holds(ms, AnswerMsgs(id)) /\ OnceIn(ms, AnswerMsgs(id))
    BY <1>2 DEF Holds, OnceIn, AnswerMsgs, Answers
  <1>4. /\ Answering(id)' <=> Answering(id)
        /\ OnceIn(toClient, AnswerMsgs(id)) => OnceIn(toClient', AnswerMsgs(id))
    BY <1>2, <1>3, ServerWritesHolds DEF Answering
  <1>5. /\ Asked(id)' <=> Asked(id)
        /\ OnceIn(toServer, AskMsgs(id)) => OnceIn(toServer', AskMsgs(id))
    <2>1. CASE toServer' = toServer
      BY <2>1 DEF Asked
    <2>2. CASE toServer # <<>> /\ toServer' = Tail(toServer) /\ Head(toServer).is \notin Asks
      <3>1. Head(toServer) \notin AskMsgs(id) /\ toServer \in Seq(Message)
        BY <2>2 DEF AskMsgs, AsksFor, Asks, SessionType
      <3> QED
        BY <2>2, <3>1, TailHolds DEF Asked
    <2> QED
      BY <2>1, <2>2
  <1> QED
    BY <1>1, <1>4, <1>5 DEF Kept, OnePlace, Nowhere, IdsOf

\* The server reads the call of id x and answers it.
LEMMA ServerAnswers ==
  ASSUME SessionType, Conserved, NEW is \in Asks, ServerReads(is),
         UNCHANGED <<calls, told, wired, csock, ssock, pending>>,
         NEW ms \in Seq(Message), FromServer(ms),
         \A j \in DOMAIN ms : ms[j].is = "return" => ms[j].id = Head(toServer).id /\ j = Len(ms),
         Len(ms) \in DOMAIN ms, ms[Len(ms)].is = "return"
  PROVE  Conserved'
  <1> SUFFICES ASSUME NEW id \in Nat PROVE Kept(id)'
    BY DEF Conserved
  <1>1. Kept(id)
    BY DEF Conserved
  <1>2. /\ toServer' = Tail(toServer) /\ toServer # <<>> /\ Head(toServer) \in Message
        /\ Head(toServer).is = is /\ toServer \in Seq(Message)
    BY ServerReadsType DEF SessionType
  <1>3. /\ Head(toServer) \in AskMsgs(id) <=> Head(toServer).id = id
        /\ is = "list" \/ is = "select" \/ is = "auth" \/ is = "call"
    BY <1>2 DEF AskMsgs, AsksFor, Asks
  <1>4. OnceIn(ms, AnswerMsgs(id)) /\ (Holds(ms, AnswerMsgs(id)) <=> Head(toServer).id = id)
    <2>1. \A j \in DOMAIN ms : ms[j] \in Message
      OBVIOUS
    <2> QED
      BY <2>1 DEF OnceIn, Holds, AnswerMsgs, Answers
  <1>5. CASE Head(toServer).id = id
    <2>1. Asked(id) /\ id \in IdsOf \ {Connect} /\ OnePlace(id)
      BY <1>1, <1>2, <1>3, <1>5, TailHolds DEF Asked, Kept, Nowhere
    <2>2. ~Asked(id)' /\ OnceIn(toServer', AskMsgs(id))
      BY <1>2, <1>3, <1>5, <2>1, TailHolds DEF Asked, OnePlace
    <2>3. ~Answering(id) /\ id \notin pending /\ told[id] = 0
      BY <2>1 DEF OnePlace
    <2>4. OnceIn(toClient', AnswerMsgs(id)) /\ (csock # "down" => Answering(id)')
      BY <1>4, <1>5, <2>1, <2>3, ServerWritesHolds DEF Answering, OnePlace
    <2> QED
      BY <2>1, <2>2, <2>3, <2>4 DEF Kept, OnePlace, IdsOf
  <1>6. CASE Head(toServer).id # id
    <2>1. /\ Asked(id)' <=> Asked(id)
          /\ OnceIn(toServer, AskMsgs(id)) => OnceIn(toServer', AskMsgs(id))
      BY <1>2, <1>3, <1>6, TailHolds DEF Asked
    <2>2. /\ Answering(id)' <=> Answering(id)
          /\ OnceIn(toClient, AnswerMsgs(id)) => OnceIn(toClient', AnswerMsgs(id))
      BY <1>4, <1>6, ServerWritesHolds DEF Answering
    <2> QED
      BY <1>1, <2>1, <2>2 DEF Kept, OnePlace, Nowhere, IdsOf
  <1> QED
    BY <1>5, <1>6
\* The server reads the call of id x, whose function will return later.
LEMMA ServerDefers ==
  ASSUME SessionType, Conserved, ServerReads("call"),
         UNCHANGED <<calls, told, wired, csock, ssock, toClient>>,
         pending' = pending \cup {Head(toServer).id}
  PROVE  Conserved'
  <1> SUFFICES ASSUME NEW id \in Nat PROVE Kept(id)'
    BY DEF Conserved
  <1>1. Kept(id)
    BY DEF Conserved
  <1>2. /\ toServer' = Tail(toServer) /\ toServer # <<>> /\ Head(toServer) \in Message
        /\ Head(toServer).is = "call" /\ toServer \in Seq(Message)
    BY ServerReadsType DEF SessionType
  <1>3. Head(toServer) \in AskMsgs(id) <=> Head(toServer).id = id
    BY <1>2 DEF AskMsgs, AsksFor
  <1>4. Answering(id)' <=> Answering(id)
    BY DEF Answering
  <1>5. CASE Head(toServer).id = id
    <2>1. Asked(id) /\ id \in IdsOf \ {Connect} /\ OnePlace(id)
      BY <1>1, <1>2, <1>3, <1>5, TailHolds DEF Asked, Kept, Nowhere
    <2>2. ~Asked(id)' /\ OnceIn(toServer', AskMsgs(id))
      BY <1>2, <1>3, <1>5, <2>1, TailHolds DEF Asked, OnePlace
    <2> QED
      BY <1>4, <1>5, <2>1, <2>2 DEF Kept, OnePlace, IdsOf
  <1>6. CASE Head(toServer).id # id
    <2>1. /\ Asked(id)' <=> Asked(id)
          /\ OnceIn(toServer, AskMsgs(id)) => OnceIn(toServer', AskMsgs(id))
      BY <1>2, <1>3, <1>6, TailHolds DEF Asked
    <2> QED
      BY <1>1, <1>4, <1>6, <2>1 DEF Kept, OnePlace, Nowhere, IdsOf
  <1> QED
    BY <1>5, <1>6

\* A service returns at last.
LEMMA SendReturnKeeps ==
  ASSUME SessionType, Conserved, NEW x \in Nat, SendReturn(x)
  PROVE  Conserved'
  <1> SUFFICES ASSUME NEW id \in Nat PROVE Kept(id)'
    BY DEF Conserved
  <1>1. Kept(id)
    BY DEF Conserved
  <1>2. /\ x \in pending /\ pending' = pending \ {x} /\ FromServer(<<Reply(x, 0)>>)
        /\ UNCHANGED <<calls, told, wired, csock, ssock, toServer>>
    BY DEF SendReturn, clientVars
  <1>3. Reply(x, 0) \in Message /\ <<Reply(x, 0)>> \in Seq(Message)
    BY ReplyType
  <1>4. Reply(x, 0) \in AnswerMsgs(id) <=> x = id
    BY <1>3 DEF AnswerMsgs, Answers, Reply, Msg
  <1>5. /\ Holds(<<Reply(x, 0)>>, AnswerMsgs(id)) <=> x = id
        /\ OnceIn(<<Reply(x, 0)>>, AnswerMsgs(id))
    BY <1>3, <1>4, OneHolds
  <1>6. (Asked(id)' <=> Asked(id)) /\ OnceIn(toServer, AskMsgs(id))' = OnceIn(toServer, AskMsgs(id))
    BY <1>2 DEF Asked
  <1>7. CASE x = id
    <2>1. id \in IdsOf \ {Connect} /\ OnePlace(id)
      BY <1>1, <1>2, <1>7 DEF Kept, Nowhere
    <2>2. ~Answering(id) /\ ~Asked(id) /\ told[id] = 0
      BY <1>2, <1>7, <2>1 DEF OnePlace
    <2>3. OnceIn(toClient', AnswerMsgs(id)) /\ (csock # "down" => Answering(id)')
      BY <1>2, <1>3, <1>5, <1>7, <2>1, <2>2, ServerWritesHolds DEF Answering, OnePlace
    <2> QED
      BY <1>2, <1>6, <1>7, <2>1, <2>2, <2>3 DEF Kept, OnePlace, IdsOf
  <1>8. CASE x # id
    <2>1. /\ Answering(id)' <=> Answering(id)
          /\ OnceIn(toClient, AnswerMsgs(id)) => OnceIn(toClient', AnswerMsgs(id))
      BY <1>2, <1>3, <1>5, <1>8, ServerWritesHolds DEF Answering
    <2> QED
      BY <1>1, <1>2, <1>6, <1>8, <2>1 DEF Kept, OnePlace, Nowhere, IdsOf
  <1> QED
    BY <1>7, <1>8

\* The client says something that is no call, and reads nothing, or something
\* that answers none; the bus may be told of connect.
LEMMA ClientTalks ==
  ASSUME SessionType, Conserved,
         UNCHANGED <<calls, pending, ssock>>, wired' => wired, csock = "down" => csock' = "down",
         \A id \in Nat \ {Connect} : told'[id] = told[id],
         \/ toClient' = toClient
         \/ toClient # <<>> /\ toClient' = Tail(toClient) /\ Head(toClient).is # "return",
         \/ toServer' = toServer
         \/ \E ms \in Seq(Message) : FromClient(ms) /\ \A j \in DOMAIN ms : ms[j].is \notin Asks
  PROVE  Conserved'
  <1> SUFFICES ASSUME NEW id \in Nat PROVE Kept(id)'
    BY DEF Conserved
  <1>1. Kept(id)
    BY DEF Conserved
  <1>2. /\ Asked(id)' <=> Asked(id)
        /\ OnceIn(toServer, AskMsgs(id)) => OnceIn(toServer', AskMsgs(id))
    <2>1. CASE toServer' = toServer
      BY <2>1 DEF Asked
    <2>2. ASSUME NEW ms \in Seq(Message), FromClient(ms), \A j \in DOMAIN ms : ms[j].is \notin Asks
          PROVE  /\ Asked(id)' <=> Asked(id)
                 /\ OnceIn(toServer, AskMsgs(id)) => OnceIn(toServer', AskMsgs(id))
      <3>1. ~Holds(ms, AskMsgs(id)) /\ OnceIn(ms, AskMsgs(id))
        BY <2>2 DEF Holds, OnceIn, AskMsgs, AsksFor, Asks
      <3> QED
        BY <2>2, <3>1, ClientWritesHolds DEF Asked
    <2> QED
      BY <2>1, <2>2
  <1>3. /\ Answering(id)' <=> Answering(id)
        /\ OnceIn(toClient, AnswerMsgs(id)) => OnceIn(toClient', AnswerMsgs(id))
    <2>1. CASE toClient' = toClient
      BY <2>1 DEF Answering
    <2>2. CASE toClient # <<>> /\ toClient' = Tail(toClient) /\ Head(toClient).is # "return"
      <3>1. Head(toClient) \notin AnswerMsgs(id) /\ toClient \in Seq(Message)
        BY <2>2 DEF AnswerMsgs, Answers, SessionType
      <3> QED
        BY <2>2, <3>1, TailHolds DEF Answering
    <2> QED
      BY <2>1, <2>2
  <1>4. CASE id \in IdsOf \ {Connect}
    <2>1. OnePlace(id) /\ told'[id] = told[id]
      BY <1>1, <1>4 DEF Kept
    <2> QED
      BY <1>2, <1>3, <1>4, <2>1 DEF Kept, OnePlace, IdsOf
  <1>5. CASE id \notin IdsOf \ {Connect}
    BY <1>1, <1>2, <1>3, <1>5 DEF Kept, Nowhere, IdsOf
  <1> QED
    BY <1>4, <1>5

\* The client reads an answer, and tells the bus of it.
LEMMA ReturnKeeps ==
  ASSUME SessionType, Conserved, Return
  PROVE  Conserved'
  <1> SUFFICES ASSUME NEW id \in Nat PROVE Kept(id)'
    BY DEF Conserved
  <1>1. Kept(id)
    BY DEF Conserved
  <1>2. /\ toClient' = Tail(toClient) /\ toClient # <<>> /\ Head(toClient) \in Message
        /\ Head(toClient).is = "return" /\ toClient \in Seq(Message)
    BY ClientReadsType DEF SessionType, Return
  <1>3. /\ UNCHANGED <<calls, wired, csock, ssock, toServer, pending>>
        /\ Tell(Head(toClient).id)
    BY DEF Return, serverVars
  <1>4. Head(toClient) \in AnswerMsgs(id) <=> Head(toClient).id = id
    BY <1>2 DEF AnswerMsgs, Answers
  <1>5. (Asked(id)' <=> Asked(id)) /\ OnceIn(toServer, AskMsgs(id))' = OnceIn(toServer, AskMsgs(id))
    BY <1>3 DEF Asked
  <1>6. told \in Seq(Nat) /\ DOMAIN told = IdsOf /\ wired \in BOOLEAN
    BY DEF SessionType, IdsOf
  <1>7. CASE Head(toClient).id = id
    <2>1. Answering(id) /\ id \in IdsOf \ {Connect} /\ OnePlace(id)
      BY <1>1, <1>2, <1>4, <1>7, TailHolds DEF Answering, Kept, Nowhere
    <2>2. ~Answering(id)' /\ OnceIn(toClient', AnswerMsgs(id))
      BY <1>2, <1>4, <1>7, <2>1, TailHolds DEF Answering, OnePlace
    <2>3. ~Asked(id) /\ id \notin pending /\ told[id] = 0
      BY <2>1 DEF OnePlace
    <2>4. told'[id] \in {0, 1} /\ (wired => told'[id] = 1)
      BY <1>3, <1>6, <1>7, <2>1, <2>3 DEF Tell
    <2> QED
      BY <1>3, <1>5, <2>1, <2>2, <2>3, <2>4 DEF Kept, OnePlace, IdsOf
  <1>8. CASE Head(toClient).id # id
    <2>1. /\ Answering(id)' <=> Answering(id)
          /\ OnceIn(toClient, AnswerMsgs(id)) => OnceIn(toClient', AnswerMsgs(id))
      BY <1>2, <1>4, <1>8, TailHolds DEF Answering
    <2>2. id \in IdsOf => told'[id] = told[id]
      BY <1>3, <1>6, <1>8 DEF Tell
    <2>3. CASE id \in IdsOf \ {Connect}
      BY <1>1, <1>3, <1>5, <2>1, <2>2, <2>3 DEF Kept, OnePlace, IdsOf
    <2>4. CASE id \notin IdsOf \ {Connect}
      BY <1>1, <1>3, <1>5, <2>1, <2>4 DEF Kept, Nowhere, IdsOf
    <2> QED
      BY <2>3, <2>4
  <1> QED
    BY <1>7, <1>8

\* The client makes a call.
LEMMA CallKeeps ==
  ASSUME SessionType, Conserved, Call
  PROVE  Conserved'
  <1>0. PICK kind \in CallKinds \ {"connect"}, on \in {0, 1} \cup known \cup usable : Send(kind, on)
    BY CallCases
  <1>1. on \in Nat
    BY DEF SessionType
  <1> DEFINE new == Len(calls) + 1
             m   == Msg(cversion, kind, new, on)
  <1>2. /\ Len(calls) \in Nat \ {0} /\ Len(told) = Len(calls)
        /\ calls' = Append(calls, [kind |-> kind, on |-> on])
        /\ calls \in Seq([kind : CallKinds, on : Nat]) /\ told \in Seq(Nat)
        /\ [kind |-> kind, on |-> on] \in [kind : CallKinds, on : Nat]
    BY <1>0, <1>1, SendType DEF SessionType
  <1>3. m \in Message /\ m.is = kind /\ m.id = new /\ kind \in Asks
    <2>1. kind \in Kinds /\ cversion \in Nat /\ new \in Nat
      BY <1>2 DEF Kinds, CallKinds, SessionType
    <2> QED
      BY <2>1, <1>1, MsgType DEF Msg, Asks, CallKinds
  <1> HIDE DEF m
  <1>4. /\ UNCHANGED <<toClient, pending, csock, ssock, wired>>
        /\ \/ csock # "down" /\ FromClient(<<m>>) /\ told' = Append(told, 0)
           \/ csock = "down" /\ toServer' = toServer /\ \E n \in {0, 1} : told' = Append(told, n)
    BY <1>0 DEF Call, Send, serverVars, m
  <1>5. /\ IdsOf' = 1 .. new /\ IdsOf = 1 .. Len(calls) /\ new \notin IdsOf /\ new # Connect
        /\ Connect \in IdsOf /\ new \in Nat
    BY <1>2 DEF IdsOf, Connect
  <1>6. ASSUME NEW id \in Nat PROVE Kept(id)'
    <2>1. Kept(id)
      BY DEF Conserved
    <2>2. /\ Answering(id)' <=> Answering(id)
          /\ OnceIn(toClient, AnswerMsgs(id)) => OnceIn(toClient', AnswerMsgs(id))
      BY <1>4 DEF Answering
    <2>3. m \in AskMsgs(id) <=> id = new
      BY <1>3 DEF AskMsgs, AsksFor, Asks
    <2>4. /\ Holds(<<m>>, AskMsgs(id)) <=> id = new
          /\ OnceIn(<<m>>, AskMsgs(id)) /\ <<m>> \in Seq(Message)
      BY <1>3, <2>3, OneHolds, Singleton
    <2>5. CASE id = new
      <3>1. Nowhere(id)
        BY <1>5, <2>1, <2>5 DEF Kept
      <3>2. /\ OnceIn(toServer, AskMsgs(id)) /\ OnceIn(toClient, AnswerMsgs(id))
        BY <3>1 DEF Nowhere, Asked, Answering, Holds, OnceIn
      <3>3. id \in (IdsOf \ {Connect})'
        BY <1>5, <2>5 DEF Connect
      <3>4. CASE csock # "down" /\ FromClient(<<m>>) /\ told' = Append(told, 0)
        <4>1. told'[id] = 0
          BY <1>2, <2>5, <3>4
        <4>2. OnceIn(toServer', AskMsgs(id)) /\ (ssock # "down" => Asked(id)')
          BY <2>4, <2>5, <3>1, <3>2, <3>4, ClientWritesHolds DEF Asked, Nowhere
        <4> QED
          BY <1>4, <2>2, <3>1, <3>2, <3>3, <4>1, <4>2 DEF Kept, OnePlace, Nowhere
      <3>5. ASSUME csock = "down", toServer' = toServer, NEW n \in {0, 1}, told' = Append(told, n)
            PROVE  Kept(id)'
        <4>1. told'[id] \in {0, 1}
          <5>1. n \in Nat
            OBVIOUS
          <5>2. told'[id] = n
            BY <1>2, <2>5, <3>5, <5>1
          <5> QED
            BY <5>2
        <4>2. Asked(id)' <=> Asked(id)
          BY <3>5 DEF Asked
        <4> QED
          BY <1>4, <2>2, <3>1, <3>2, <3>3, <3>5, <4>1, <4>2 DEF Kept, OnePlace, Nowhere
      <3> QED
        BY <1>4, <3>4, <3>5
    <2>6. CASE id # new
      <3>1. id \in (IdsOf \ {Connect})' <=> id \in IdsOf \ {Connect}
        BY <1>2, <1>5, <2>6 DEF Connect
      <3>2. /\ Asked(id)' <=> Asked(id)
            /\ OnceIn(toServer, AskMsgs(id)) => OnceIn(toServer', AskMsgs(id))
        <4>1. CASE FromClient(<<m>>)
          BY <2>4, <2>6, <4>1, ClientWritesHolds DEF Asked
        <4>2. CASE toServer' = toServer
          BY <4>2 DEF Asked
        <4> QED
          BY <1>4, <4>1, <4>2
      <3>3. id \in IdsOf => told'[id] = told[id]
        <4>1. PICK n \in {0, 1} : told' = Append(told, n)
          BY <1>4
        <4>2. n \in Nat
          OBVIOUS
        <4> QED
          BY <1>2, <1>5, <4>1, <4>2
      <3>4. CASE id \in IdsOf \ {Connect}
        BY <1>4, <2>1, <2>2, <3>1, <3>2, <3>3, <3>4 DEF Kept, OnePlace
      <3>5. CASE id \notin IdsOf \ {Connect}
        BY <1>4, <2>1, <2>2, <3>1, <3>2, <3>5 DEF Kept, Nowhere
      <3> QED
        BY <3>4, <3>5
    <2> QED
      BY <2>5, <2>6
  <1> QED
    BY <1>6 DEF Conserved
\* Either socket comes to its end.
LEMMA DownKeeps ==
  ASSUME SessionType, Conserved, ClientDown \/ ServerDown
  PROVE  Conserved'
  <1> SUFFICES ASSUME NEW id \in Nat PROVE Kept(id)'
    BY DEF Conserved
  <1>1. Kept(id)
    BY DEF Conserved
  <1>2. ~Holds(<<>>, AskMsgs(id)) /\ OnceIn(<<>>, AskMsgs(id))
        /\ ~Holds(<<>>, AnswerMsgs(id)) /\ OnceIn(<<>>, AnswerMsgs(id))
    BY DEF Holds, OnceIn
  <1>3. CASE ClientDown
    <2>1. toClient' = <<>> /\ csock' = "down" /\ UNCHANGED <<toServer, calls, told, pending>>
      BY <1>3 DEF ClientDown, serverVars
    <2> QED
      BY <1>1, <1>2, <2>1 DEF Kept, OnePlace, Nowhere, IdsOf, Asked, Answering
  <1>4. CASE ServerDown
    <2>1. toServer' = <<>> /\ ssock' = "down" /\ pending' = {} /\ UNCHANGED <<toClient, calls, told>>
      BY <1>4 DEF ServerDown, clientVars
    <2> QED
      BY <1>1, <1>2, <2>1 DEF Kept, OnePlace, Nowhere, IdsOf, Asked, Answering
  <1> QED
    BY <1>3, <1>4

LEMMA InitConserved == Init => Conserved
  <1> SUFFICES ASSUME Init, NEW id \in Nat PROVE Kept(id)
    BY DEF Conserved
  <1>1. IdsOf \ {Connect} = {}
    BY DEF Init, IdsOf, Connect
  <1>2. ~Asked(id) /\ id \notin pending
    BY DEF Init, Asked, Holds
  <1>3. ~Answering(id)
    <2>1. setup.server \in Nat
      BY AgreedType DEF Init
    <2> DEFINE first == Msg(0, "welcome", 0, setup.server)
               next  == Msg(0, "stateChanged", 0, 1)
               rest  == IF setup.scheme = "socket" THEN <<next>> ELSE <<>>
    <2>2. first \in Message /\ next \in Message
      BY <2>1, MsgType DEF Kinds
    <2>3. first \notin AnswerMsgs(id) /\ next \notin AnswerMsgs(id)
      BY DEF AnswerMsgs, Answers, Msg
    <2> HIDE DEF first, next
    <2>4. <<first>> \in Seq(Message) /\ rest \in Seq(Message)
      BY <2>2, Singleton
    <2>5. ~Holds(<<first>>, AnswerMsgs(id)) /\ ~Holds(rest, AnswerMsgs(id))
      BY <2>2, <2>3, OneHolds
    <2> HIDE DEF rest
    <2>6. toClient = <<first>> \o rest
      BY DEF Init, first, next, rest
    <2> QED
      BY <2>4, <2>5, <2>6, WrittenHolds DEF Answering
  <1> QED
    BY <1>1, <1>2, <1>3 DEF Kept, Nowhere

\* What the server writes when it changes its state, and behind it an answer.
LEMMA StateMsgs ==
  ASSUME SessionType, NEW s \in {"Service", "Ready"}, NEW id \in Nat, NEW service \in Nat
  PROVE  LET ms == StateMsg(s)
             as == ms \o <<Reply(id, service)>>
         IN  /\ ms \in Seq(Message) /\ as \in Seq(Message)
             /\ \A j \in DOMAIN ms : ms[j].is = "stateChanged"
             /\ \A j \in DOMAIN as : as[j].is # "stateChanged" => j = Len(as) /\ as[j].id = id
             /\ Len(as) \in DOMAIN as /\ as[Len(as)] = Reply(id, service)
  <1> DEFINE ms == StateMsg(s)
             r  == Reply(id, service)
             as == ms \o <<r>>
  <1>1. ms \in Seq(Message) /\ r \in Message
    BY StateType, ReplyType
  <1>2. \A j \in DOMAIN ms : ms[j].is = "stateChanged"
    BY DEF StateMsg, Msg
  <1>3. r.id = id
    BY DEF Reply, Msg
  <1> HIDE DEF ms, r
  <1>4. /\ as \in Seq(Message) /\ Len(as) = Len(ms) + 1 /\ Len(as) \in DOMAIN as /\ as[Len(as)] = r
        /\ \A j \in DOMAIN as : (j \in DOMAIN ms /\ as[j] = ms[j]) \/ (j = Len(as) /\ as[j] = r)
    BY <1>1
  <1> HIDE DEF as
  <1>5. \A j \in DOMAIN as : as[j].is # "stateChanged" => j = Len(as) /\ as[j].id = id
    BY <1>2, <1>3, <1>4
  <1> QED
    BY <1>1, <1>2, <1>4, <1>5 DEF ms, as, r

LEMMA ServerTalksSteps ==
  ASSUME SessionType, Conserved, SetProtocolVersion \/ SetSsl \/ Encrypted \/ Push
  PROVE  Conserved'
  <1> DEFINE Says == \E ms \in Seq(Message) : FromServer(ms) /\ \A j \in DOMAIN ms : ms[j].is # "return"
             Reads == toServer # <<>> /\ toServer' = Tail(toServer) /\ Head(toServer).is \notin Asks
  <1>a. ASSUME NEW is \in Kinds \ {"return"}, NEW ver \in Nat, NEW id \in Nat, NEW arg \in Nat,
               FromServer(<<Msg(ver, is, id, arg)>>)
        PROVE  Says
    <2> DEFINE ms == <<Msg(ver, is, id, arg)>>
    <2>1. Msg(ver, is, id, arg) \in Message /\ Msg(ver, is, id, arg).is = is
      BY MsgType DEF Msg
    <2>2. ms \in Seq(Message) /\ \A j \in DOMAIN ms : ms[j].is # "return"
      BY <2>1, Singleton
    <2> QED
      BY <1>a, <2>2
  <1>b. ASSUME FromServer(StateMsg("Service")) PROVE Says
    <2> DEFINE ms == StateMsg("Service")
    <2>1. ms \in Seq(Message)
      BY StateType
    <2>2. \A j \in DOMAIN ms : ms[j].is # "return"
      BY DEF StateMsg, Msg
    <2> QED
      BY <1>b, <2>1, <2>2
  <1>c. ASSUME NEW is \in {"setProtocolVersion", "setSsl"}, ServerReads(is) PROVE Reads
    BY <1>c DEF ServerReads, Asks
  <1>1. CASE SetProtocolVersion
    <2>1. Reads
      BY <1>1, <1>c DEF SetProtocolVersion
    <2> DEFINE v == Lower(Head(toServer).arg, setup.server)
    <2>2. Head(toServer) \in Message
      BY <1>1, ServerReadsType DEF SetProtocolVersion
    <2>3. v \in Nat
      <3>1. Head(toServer).arg \in Nat
        BY <2>2 DEF Message
      <3>2. setup.server \in Nat
        BY AgreedType DEF SessionType
      <3> QED
        BY <3>1, <3>2 DEF Lower
    <2>4. FromServer(<<Msg(sversion, "setProtocolVersion", 0, v)>>)
      BY <1>1 DEF SetProtocolVersion
    <2> HIDE DEF v
    <2>5. Says
      BY <1>a, <2>3, <2>4 DEF SessionType, Kinds
    <2> QED
      BY <1>1, <2>1, <2>5, ServerTalks DEF SetProtocolVersion, clientVars, serverVars
  <1>2. CASE SetSsl
    <2>1. Reads
      BY <1>2, <1>c DEF SetSsl
    <2>2. Says
      BY <1>2, <1>a, <1>b DEF SetSsl, SessionType, Kinds
    <2>3. ssock = "down" => ssock' = "down"
      BY <1>2 DEF SetSsl, ServerReads
    <2> QED
      BY <1>2, <2>1, <2>2, <2>3, ServerTalks DEF SetSsl, clientVars, serverVars, ServerReads
  <1>3. CASE Encrypted
    <2>1. Says
      BY <1>3, <1>b DEF Encrypted
    <2> QED
      BY <1>3, <2>1, ServerTalks DEF Encrypted, clientVars, serverVars
  <1>4. CASE Push
    <2>1. PICK s \in 1 .. services : \/ FromServer(<<Msg(sversion, "event", 0, s)>>)
                                    \/ FromServer(<<Msg(sversion, "callback", pushed + 1, s)>>)
      BY <1>4 DEF Push
    <2>2. s \in Nat /\ pushed + 1 \in Nat
      BY DEF SessionType
    <2>3. Says
      BY <1>a, <2>1, <2>2 DEF SessionType, Kinds
    <2> QED
      BY <1>4, <2>3, ServerTalks DEF Push, clientVars
  <1> QED
    BY <1>1, <1>2, <1>3, <1>4
LEMMA ServerAnswersSteps ==
  ASSUME SessionType, Conserved, List \/ Select \/ Auth \/ Function
  PROVE  Conserved'
  <1> DEFINE x == Head(toServer).id
  <1>0. ASSUME NEW is \in Asks, ServerReads(is) PROVE x \in Nat /\ Head(toServer).arg \in Nat
    <2>1. Head(toServer) \in Message
      BY <1>0, ServerReadsType
    <2> QED
      BY <2>1 DEF Message
  <1>a. ASSUME NEW is \in Asks, ServerReads(is), NEW s \in Nat, FromServer(<<Reply(x, s)>>),
               UNCHANGED <<calls, told, wired, csock, ssock, pending>>
        PROVE  Conserved'
    <2> DEFINE ms == <<Reply(x, s)>>
    <2>1. ms \in Seq(Message) /\ Reply(x, s).id = x /\ Reply(x, s).is = "return"
      BY <1>0, <1>a, ReplyType DEF Reply, Msg
    <2>2. Len(ms) = 1 /\ DOMAIN ms = {1} /\ ms[1] = Reply(x, s)
      OBVIOUS
    <2>3. /\ \A j \in DOMAIN ms : ms[j].is = "return" => ms[j].id = Head(toServer).id /\ j = Len(ms)
          /\ Len(ms) \in DOMAIN ms /\ ms[Len(ms)].is = "return"
      BY <2>1, <2>2
    <2> HIDE DEF ms
    <2>4. FromServer(ms)
      BY <1>a DEF ms
    <2> QED
      BY <1>a, <2>1, <2>3, <2>4, ServerAnswers
  <1>1. CASE List
    BY <1>1, <1>a DEF List, Asks, clientVars, serverVars
  <1>2. CASE Select
    <2>1. CASE FromServer(<<Reply(x, 0)>>)
      BY <1>2, <1>a, <2>1 DEF Select, Asks, clientVars
    <2>2. CASE FromServer(StateMsg("Ready") \o <<Reply(x, services + 1)>>)
      <3> DEFINE ms == StateMsg("Ready") \o <<Reply(x, services + 1)>>
      <3>1. x \in Nat /\ services + 1 \in Nat
        BY <1>0, <1>2 DEF Select, Asks, SessionType
      <3>2. /\ ms \in Seq(Message)
            /\ \A j \in DOMAIN ms : ms[j].is # "stateChanged" => j = Len(ms) /\ ms[j].id = x
            /\ Len(ms) \in DOMAIN ms /\ ms[Len(ms)] = Reply(x, services + 1)
        BY <3>1, StateMsgs
      <3>3. Reply(x, services + 1).is = "return"
        BY DEF Reply, Msg
      <3>4. FromServer(ms)
        BY <2>2
      <3> HIDE DEF ms
      <3>5. /\ \A j \in DOMAIN ms : ms[j].is = "return" => ms[j].id = Head(toServer).id /\ j = Len(ms)
            /\ Len(ms) \in DOMAIN ms /\ ms[Len(ms)].is = "return"
        BY <3>2, <3>3
      <3>6. ServerReads("select") /\ UNCHANGED <<calls, told, wired, csock, ssock, pending>>
        BY <1>2 DEF Select, clientVars
      <3> QED
        BY <3>2, <3>4, <3>5, <3>6, ServerAnswers DEF Asks
    <2> QED
      BY <1>2, <2>1, <2>2 DEF Select
  <1>3. CASE Auth
    <2>1. Head(toServer).arg \in Nat
      BY <1>0, <1>3 DEF Auth, Asks
    <2> QED
      BY <1>3, <1>a, <2>1 DEF Auth, Asks, clientVars
  <1>4. CASE Function
    <2>1. Head(toServer).arg \in Nat /\ services + 1 \in Nat
      BY <1>0, <1>4 DEF Function, Asks, SessionType
    <2>2. ASSUME NEW s \in Nat, FromServer(<<Reply(x, s)>>), UNCHANGED pending PROVE Conserved'
      BY <1>4, <1>a, <2>2 DEF Function, Asks, clientVars
    <2>3. CASE pending' = pending \cup {x} /\ UNCHANGED <<services, toClient>>
      BY <1>4, <2>3, ServerDefers DEF Function, clientVars
    <2> QED
      BY <1>4, <2>1, <2>2, <2>3 DEF Function
  <1> QED
    BY <1>1, <1>2, <1>3, <1>4

LEMMA ClientTalksSteps ==
  ASSUME SessionType, Conserved,
         \/ Close \/ Welcome \/ VersionSet \/ FatalError \/ EnableSsl
         \/ (\E is \in {"stateChanged", "event", "callback"} : Passed(is))
  PROVE  Conserved'
  <1> DEFINE Reads == toClient # <<>> /\ toClient' = Tail(toClient) /\ Head(toClient).is # "return"
             Says  == \E ms \in Seq(Message) : FromClient(ms) /\ \A j \in DOMAIN ms : ms[j].is \notin Asks
             Others == \A id \in Nat \ {Connect} : told'[id] = told[id]
  <1>a. ASSUME NEW is \in Kinds \ {"return"}, ClientReads(is)
        PROVE  Reads /\ Head(toClient) \in Message /\ Head(toClient).arg \in Nat /\ csock # "down"
    <2>1. Head(toClient) \in Message
      BY <1>a, ClientReadsType
    <2> QED
      BY <1>a, <2>1 DEF ClientReads, Message
  <1>b. Tell(Connect) => Others
    BY DEF Tell, SessionType
  <1>1. CASE Close
    BY <1>1, ClientTalks DEF Close, serverVars
  <1>2. CASE Welcome
    <2>1. Reads /\ Head(toClient).arg \in Nat
      BY <1>2, <1>a DEF Welcome, Kinds
    <2> DEFINE v == Lower(Head(toClient).arg, setup.client)
               m == Msg(cversion, "setProtocolVersion", 0, v)
    <2>2. v \in Nat
      <3>1. setup.client \in Nat
        BY AgreedType DEF SessionType
      <3> QED
        BY <2>1, <3>1 DEF Lower
    <2> HIDE DEF v
    <2>3. m \in Message /\ m.is = "setProtocolVersion"
      BY <2>2, MsgType DEF Msg, SessionType, Kinds
    <2>4. FromClient(<<m>>)
      BY <1>2 DEF Welcome, v
    <2> HIDE DEF m
    <2>5. Says
      <3>1. <<m>> \in Seq(Message) /\ \A j \in DOMAIN <<m>> : <<m>>[j].is \notin Asks
        BY <2>3, Singleton DEF Asks
      <3> QED
        BY <2>4, <3>1
    <2> QED
      BY <1>2, <2>1, <2>5, ClientTalks DEF Welcome, clientVars, serverVars
  <1>3. CASE VersionSet
    <2>1. Reads /\ Head(toClient).arg \in Nat
      BY <1>3, <1>a DEF VersionSet, Kinds
    <2> DEFINE ms == ConnectedMsgs(Head(toClient).arg)
    <2>2. ms \in Seq(Message) /\ \A j \in DOMAIN ms : ms[j].is \notin Asks
      <3> DEFINE m0 == Msg(Head(toClient).arg, "setSsl", 0, 0)
                 m1 == Msg(Head(toClient).arg, "setSsl", 0, 1)
      <3>1. m0 \in Message /\ m1 \in Message /\ m0.is \notin Asks /\ m1.is \notin Asks
        BY <2>1, MsgType DEF Kinds, Msg, Asks
      <3> HIDE DEF m0, m1
      <3>2. ms = <<m0>> \/ ms = <<m1>> \/ ms = <<>>
        BY SetupAssumption DEF ConnectedMsgs, SessionType, Setups, m0, m1
      <3> HIDE DEF ms
      <3>3. CASE ms = <<m0>>
        BY <3>1, <3>3
      <3>4. CASE ms = <<m1>>
        BY <3>1, <3>4
      <3>5. CASE ms = <<>>
        BY <3>5
      <3> QED
        BY <3>2, <3>3, <3>4, <3>5
    <2>3. FromClient(ms) /\ Others
      BY <1>3, <1>b DEF VersionSet
    <2> HIDE DEF ms
    <2>4. Says
      BY <2>2, <2>3
    <2> QED
      BY <1>3, <2>1, <2>3, <2>4, ClientTalks DEF VersionSet, serverVars
  <1>4. CASE FatalError
    <2>1. Reads /\ csock # "down"
      BY <1>4, <1>a DEF FatalError, Kinds
    <2> QED
      BY <1>4, <1>b, <2>1, ClientTalks DEF FatalError, serverVars
  <1>5. CASE EnableSsl
    <2>1. Reads
      BY <1>5, <1>a DEF EnableSsl, Kinds
    <2> QED
      BY <1>5, <2>1, ClientTalks DEF EnableSsl, serverVars
  <1>6. CASE \E is \in {"stateChanged", "event", "callback"} : Passed(is)
    <2>1. PICK is \in {"stateChanged", "event", "callback"} : Passed(is)
      BY <1>6
    <2>2. Reads
      BY <2>1, <1>a DEF Passed, Kinds
    <2> QED
      BY <2>1, <2>2, ClientTalks DEF Passed, clientVars, serverVars
  <1> QED
    BY <1>1, <1>2, <1>3, <1>4, <1>5, <1>6

LEMMA ConservedStep == SessionType /\ Conserved /\ [Next]_vars => Conserved'
  <1> SUFFICES ASSUME SessionType, Conserved, [Next]_vars PROVE Conserved'
    OBVIOUS
  <1>1. CASE Call
    BY <1>1, CallKeeps
  <1>2. CASE \/ Close \/ Welcome \/ VersionSet \/ FatalError \/ EnableSsl
             \/ (\E is \in {"stateChanged", "event", "callback"} : Passed(is))
    BY <1>2, ClientTalksSteps
  <1>3. CASE Return
    BY <1>3, ReturnKeeps
  <1>4. CASE SetProtocolVersion \/ SetSsl \/ Encrypted \/ Push
    BY <1>4, ServerTalksSteps
  <1>5. CASE List \/ Select \/ Auth \/ Function
    BY <1>5, ServerAnswersSteps
  <1>6. CASE \E id \in IdsOf : SendReturn(id)
    <2>1. PICK id \in Nat : SendReturn(id)
      BY <1>6 DEF SendReturn, SessionType
    <2> QED
      BY <2>1, SendReturnKeeps
  <1>7. CASE ClientDown \/ ServerDown
    BY <1>7, DownKeeps
  <1>8. CASE UNCHANGED vars
    BY <1>8 DEF vars, wireVars, clientVars, serverVars, Conserved, Kept, OnePlace, Nowhere, IdsOf,
                Asked, Answering
  <1> QED
    BY <1>1, <1>2, <1>3, <1>4, <1>5, <1>6, <1>7, <1>8 DEF Next, ClientReadsOne, ServerReadsOne

\* How many messages of a kind a queue holds when it holds one at most.
LEMMA CountOnce ==
  ASSUME NEW q \in Seq(Message), NEW M, OnceIn(q, M)
  PROVE  Cardinality({i \in DOMAIN q : q[i] \in M}) = IF Holds(q, M) THEN 1 ELSE 0
  <1> DEFINE at == {i \in DOMAIN q : q[i] \in M}
  <1>1. CASE Holds(q, M)
    <2>1. PICK i \in DOMAIN q : q[i] \in M
      BY <1>1 DEF Holds
    <2>2. at = {i}
      BY <2>1 DEF OnceIn
    <2> QED
      BY <1>1, <2>2, FS_Singleton
  <1>2. CASE ~Holds(q, M)
    <2>1. at = {}
      BY <1>2 DEF Holds
    <2> QED
      BY <1>2, <2>1, FS_EmptySet
  <1> QED
    BY <1>1, <1>2

LEMMA ConservedPlaces == SessionType /\ Conserved => CallsConserved
  <1> SUFFICES ASSUME SessionType, Conserved, NEW id \in IdsOf \ {Connect}
               PROVE  /\ Places(id) <= 1
                      /\ csock # "down" /\ ssock # "down" /\ wired => Places(id) = 1
    BY DEF CallsConserved
  <1>1. toServer \in Seq(Message) /\ toClient \in Seq(Message) /\ id \in Nat
    BY DEF SessionType, IdsOf
  <1>2. OnePlace(id)
    BY <1>1 DEF Conserved, Kept
  <1>3. Count(toServer, LAMBDA m : AsksFor(m, id)) = IF Asked(id) THEN 1 ELSE 0
    <2>1. {i \in DOMAIN toServer : toServer[i] \in AskMsgs(id)} = {i \in DOMAIN toServer : AsksFor(toServer[i], id)}
      BY <1>1 DEF AskMsgs
    <2>2. Cardinality({i \in DOMAIN toServer : toServer[i] \in AskMsgs(id)}) = IF Asked(id) THEN 1 ELSE 0
      BY <1>1, <1>2, CountOnce DEF OnePlace, Asked
    <2> QED
      BY <2>1, <2>2 DEF Count
  <1>4. Count(toClient, LAMBDA m : Answers(m, id)) = IF Answering(id) THEN 1 ELSE 0
    <2>1. {i \in DOMAIN toClient : toClient[i] \in AnswerMsgs(id)} = {i \in DOMAIN toClient : Answers(toClient[i], id)}
      BY <1>1 DEF AnswerMsgs
    <2>2. Cardinality({i \in DOMAIN toClient : toClient[i] \in AnswerMsgs(id)}) = IF Answering(id) THEN 1 ELSE 0
      BY <1>1, <1>2, CountOnce DEF OnePlace, Answering
    <2> QED
      BY <2>1, <2>2 DEF Count
  <1>5. /\ Asked(id) => id \notin pending /\ ~Answering(id) /\ told[id] = 0
        /\ id \in pending => ~Answering(id) /\ told[id] = 0
        /\ Answering(id) => told[id] = 0
        /\ told[id] \in {0, 1}
        /\ csock # "down" /\ ssock # "down" /\ wired =>
             Asked(id) \/ id \in pending \/ Answering(id) \/ told[id] = 1
    BY <1>2 DEF OnePlace
  <1>6. Places(id) = (IF Asked(id) THEN 1 ELSE 0) + (IF id \in pending THEN 1 ELSE 0)
                       + (IF Answering(id) THEN 1 ELSE 0) + told[id]
    BY <1>3, <1>4 DEF Places
  <1> QED
    BY <1>5, <1>6

\* No call is answered twice, and none is lost while the connection is up.
THEOREM CallsInOnePlace == Spec => []CallsConserved
  <1>1. Init => SessionType /\ Conserved
    BY InitType, InitConserved
  <1>2. SessionType /\ Conserved /\ [Next]_vars => (SessionType /\ Conserved)'
    BY TypeStep, ConservedStep
  <1> QED
    BY <1>1, <1>2, ConservedPlaces, PTL DEF Spec
-----------------------------------------------------------------------------
(* Turns.                                                                   *)

Told == told[Connect] > 0

\* A message on its way to the server, if it is a call: it is the one the
\* client noted, made after connect was answered unless it is a list, on a
\* service that exists and, when it is a plain call, is open.
OkAsk(m) ==
  /\ m.is \in Asks => m.id \in IdsOf /\ calls[m.id].kind = m.is
  /\ m.is \in {"select", "auth", "call"} => Told
  /\ m.is \in {"auth", "call"} => m.arg \in 1 .. services
  /\ m.is = "call" => m.arg \notin needsAuth

\* A message on its way to the client: a service it brings exists, and is open
\* unless it answers a select; an error ends the connection.
OkAnswer(m) ==
  /\ m.is = "return" /\ m.arg > 0 =>
       /\ Told /\ m.id \in IdsOf /\ m.arg \in 1 .. services
       /\ m.arg \in needsAuth => calls[m.id].kind = "select"
  /\ m.is = "error" => ssock # "up"

\* What the two ends hold, besides the queues.
Holdings ==
  /\ setup.scheme = "socket" => state # "Connecting"
  /\ tls = "on" => state # "Connecting"
  /\ services > 0 => state = "Ready"
  /\ needsAuth \subseteq 1 .. services
  /\ known \subseteq 1 .. services
  /\ usable \subseteq (1 .. services) \ needsAuth
  /\ known # {} \/ usable # {} => Told

\* The answer about ssl is ahead of every call that needs it.
SslFirst ==
  \E i \in DOMAIN toServer :
    /\ toServer[i].is = "setSsl"
    /\ \A j \in DOMAIN toServer : toServer[j].is \in {"select", "auth", "call"} => i < j

\* A client that was told it is connected before the server has left its
\* first state: the server reads of ssl first, or encrypts, or ends.
SslAwaited ==
  Told /\ state = "Connecting" /\ ssock = "up" =>
    tls \in {"offered", "shaking", "doomed"} \/ SslFirst

Turns ==
  /\ Holdings
  /\ \A m \in Message : Holds(toServer, {m}) => OkAsk(m)
  /\ \A m \in Message : Holds(toClient, {m}) => OkAnswer(m)
  /\ SslAwaited

\* What only ever grows, or closes, or opens.
Growth ==
  /\ \A id \in IdsOf : id \in IdsOf' /\ calls'[id] = calls[id]
  /\ Told => Told'
  /\ services <= services'
  /\ \A s \in needsAuth' : s \in needsAuth \/ s > services
  /\ ssock # "up" => ssock' # "up"

LEMMA TurnsInTurn == SessionType /\ Turns => InTurn
  <1> SUFFICES ASSUME SessionType, Turns, ssock = "up", tls \in {"off", "on"}, toServer # <<>>
               PROVE  LET m == Head(toServer) IN
                        /\ m.is = "select" => state # "Connecting"
                        /\ m.is \in {"auth", "call"} => state = "Ready" /\ m.arg \in 1 .. services
                        /\ m.is = "call" => m.arg \notin needsAuth
    BY DEF InTurn
  <1> DEFINE m == Head(toServer)
  <1>1. m = toServer[1] /\ 1 \in DOMAIN toServer /\ m \in Message /\ DOMAIN toServer \subseteq Nat \ {0}
    BY ReadQueue DEF SessionType
  <1>2. OkAsk(m)
    BY <1>1 DEF Turns, Holds
  <1>3. m.is = "select" => state # "Connecting"
    <2> SUFFICES ASSUME m.is = "select", state = "Connecting" PROVE FALSE
      OBVIOUS
    <2>1. Told
      BY <1>2 DEF OkAsk
    <2>2. SslFirst
      BY <2>1 DEF Turns, SslAwaited
    <2>3. PICK i \in DOMAIN toServer : i < 1
      BY <1>1, <2>2 DEF SslFirst
    <2> QED
      BY <1>1, <2>3
  <1>4. m.is \in {"auth", "call"} => state = "Ready" /\ m.arg \in 1 .. services
    BY <1>2 DEF OkAsk, Turns, Holdings, SessionType
  <1> QED
    BY <1>2, <1>3, <1>4 DEF OkAsk

LEMMA InitTurns == Init => Turns
  <1> SUFFICES ASSUME Init PROVE Turns
    OBVIOUS
  <1>1. Holdings /\ SslAwaited
    BY DEF Init, Holdings, SslAwaited, Told, Connect
  <1>2. \A m \in Message : ~Holds(toServer, {m})
    BY DEF Init, Holds
  <1>3. ASSUME NEW m \in Message, Holds(toClient, {m}) PROVE OkAnswer(m)
    <2>1. setup.server \in Nat
      BY AgreedType DEF Init
    <2> DEFINE first == Msg(0, "welcome", 0, setup.server)
               next  == Msg(0, "stateChanged", 0, 1)
               rest  == IF setup.scheme = "socket" THEN <<next>> ELSE <<>>
    <2>2. first \in Message /\ next \in Message
      BY <2>1, MsgType DEF Kinds
    <2>3. first.is = "welcome" /\ next.is = "stateChanged"
      BY DEF Msg
    <2> HIDE DEF first, next
    <2>4. <<first>> \in Seq(Message) /\ rest \in Seq(Message)
      BY <2>2, Singleton
    <2>5. (Holds(<<first>>, {m}) => first = m) /\ (Holds(rest, {m}) => next = m)
      BY <2>2, OneHolds
    <2> HIDE DEF rest
    <2>6. toClient = <<first>> \o rest
      BY DEF Init, first, next, rest
    <2>7. m.is \in {"welcome", "stateChanged"}
      BY <1>3, <2>3, <2>4, <2>5, <2>6, WrittenHolds
    <2> QED
      BY <2>7 DEF OkAnswer
  <1> QED
    BY <1>1, <1>2, <1>3 DEF Turns

\* What was right of a message stays right.
LEMMA StaysOk ==
  ASSUME SessionType, Growth, services' \in Nat, NEW m \in Message
  PROVE  (OkAsk(m) => OkAsk(m)') /\ (OkAnswer(m) => OkAnswer(m)')
  <1>1. services \in Nat /\ services' \in Nat /\ services <= services'
    BY DEF Growth, SessionType
  <1>2. OkAsk(m) => OkAsk(m)'
    BY <1>1 DEF Growth, OkAsk, Asks
  <1>3. OkAnswer(m) => OkAnswer(m)'
    BY <1>1 DEF Growth, OkAnswer
  <1> QED
    BY <1>2, <1>3

LEMMA TellGrows ==
  ASSUME SessionType, NEW id \in Nat, Tell(id)
  PROVE  (Told => Told') /\ (id # Connect => (Told' <=> Told))
  <1>1. told \in Seq(Nat) /\ 1 \in DOMAIN told /\ told[1] \in Nat
    BY DEF SessionType, Connect
  <1>2. told' = told \/ told' = [told EXCEPT ![id] = @ + 1]
    BY DEF Tell
  <1> QED
    BY <1>1, <1>2 DEF Told, Connect

LEMMA Grows == SessionType /\ SessionType' /\ [Next]_vars => Growth
  <1> SUFFICES ASSUME SessionType, SessionType', [Next]_vars PROVE Growth
    OBVIOUS
  <1>0. services \in Nat
    BY DEF SessionType
  <1> DEFINE Same == UNCHANGED <<calls, told>>
             Table == /\ services <= services'
                      /\ \A s \in needsAuth' : s \in needsAuth \/ s > services
  <1>a. UNCHANGED <<services, needsAuth>> => Table
    BY <1>0
  <1>b. ASSUME Same
        PROVE  /\ \A id \in IdsOf : id \in IdsOf' /\ calls'[id] = calls[id]
               /\ Told => Told'
    <2>1. calls' = calls /\ told' = told
      BY <1>b
    <2> QED
      BY <2>1 DEF IdsOf, Told
  <1>1. CASE Call
    <2>1. PICK kind \in CallKinds \ {"connect"}, on \in {0, 1} \cup known \cup usable : Send(kind, on)
      BY <1>1, CallCases
    <2>0. known \subseteq Nat /\ usable \subseteq Nat
      BY DEF SessionType
    <2>2. on \in Nat
      BY <2>0
    <2>3. /\ calls' = Append(calls, [kind |-> kind, on |-> on])
          /\ (\E n \in {0, 1} : told' = Append(told, n))
      BY <2>1, <2>2, SendType
    <2>4. \A id \in IdsOf : id \in IdsOf' /\ calls'[id] = calls[id]
      <3>1. calls \in Seq([kind : CallKinds, on : Nat])
            /\ [kind |-> kind, on |-> on] \in [kind : CallKinds, on : Nat]
        BY <2>2 DEF SessionType
      <3> QED
        BY <2>3, <3>1 DEF IdsOf
    <2>5. Told => Told'
      <3>1. PICK n \in {0, 1} : told' = Append(told, n)
        BY <2>3
      <3>2. n \in Nat /\ told \in Seq(Nat) /\ 1 \in 1 .. Len(told)
        BY DEF SessionType, Connect
      <3>3. told'[1] = told[1]
        BY <3>1, <3>2
      <3> QED
        BY <3>3 DEF Told, Connect
    <2> QED
      BY <1>1, <1>a, <2>4, <2>5 DEF Call, Growth, serverVars
  <1>2. CASE Close \/ Welcome \/ EnableSsl \/ (\E is \in {"stateChanged", "event", "callback"} : Passed(is))
             \/ ClientDown
    BY <1>2, <1>a, <1>b DEF Close, Welcome, EnableSsl, Passed, ClientDown, Growth, clientVars, serverVars
  <1>3. CASE VersionSet \/ FatalError \/ Return
    <2>1. Told => Told'
      <3>1. Connect \in Nat /\ (Return => Head(toClient).id \in Nat)
        BY ClientReadsType DEF Connect, Return, Message
      <3> QED
        BY <1>3, <3>1, TellGrows DEF VersionSet, FatalError, Return
    <2> QED
      BY <1>3, <1>a, <2>1 DEF VersionSet, FatalError, Return, Growth, serverVars, IdsOf
  <1>4. CASE SetProtocolVersion \/ List \/ Encrypted \/ Push \/ (\E id \in IdsOf : SendReturn(id))
    BY <1>4, <1>a, <1>b DEF SetProtocolVersion, List, Encrypted, Push, SendReturn, Growth, clientVars, serverVars
  <1>5. CASE SetSsl
    BY <1>5, <1>a, <1>b DEF SetSsl, Growth, clientVars, serverVars
  <1>6. CASE Select
    <2>1. Table
      BY <1>6, <1>0 DEF Select
    <2> QED
      BY <1>6, <1>b, <2>1 DEF Select, Growth, clientVars
  <1>7. CASE Auth
    <2>1. Table
      BY <1>7, <1>0 DEF Auth
    <2> QED
      BY <1>7, <1>b, <2>1 DEF Auth, Growth, clientVars
  <1>8. CASE Function
    <2>1. Table
      BY <1>8, <1>0 DEF Function
    <2> QED
      BY <1>8, <1>b, <2>1 DEF Function, Growth, clientVars
  <1>9. CASE ServerDown
    BY <1>9, <1>a, <1>b DEF ServerDown, Growth, clientVars
  <1>10. CASE UNCHANGED vars
    BY <1>10, <1>a, <1>b DEF vars, wireVars, clientVars, serverVars, Growth
  <1> QED
    BY <1>1, <1>2, <1>3, <1>4, <1>5, <1>6, <1>7, <1>8, <1>9, <1>10
    DEF Next, ClientReadsOne, ServerReadsOne
LEMMA TurnsKept ==
  ASSUME SessionType, SessionType', Turns, Growth, Holdings', SslAwaited',
         \A m \in Message : Holds(toServer', {m}) => Holds(toServer, {m}) \/ OkAsk(m)',
         \A m \in Message : Holds(toClient', {m}) => Holds(toClient, {m}) \/ OkAnswer(m)'
  PROVE  Turns'
  <1>1. services' \in Nat
    BY DEF SessionType
  <1>2. ASSUME NEW m \in Message, Holds(toServer', {m}) PROVE OkAsk(m)'
    BY <1>1, <1>2, StaysOk DEF Turns
  <1>3. ASSUME NEW m \in Message, Holds(toClient', {m}) PROVE OkAnswer(m)'
    BY <1>1, <1>3, StaysOk DEF Turns
  <1> QED
    BY <1>2, <1>3 DEF Turns

LEMMA SslKept ==
  ASSUME SessionType, SslAwaited, Told' => Told, state' = "Connecting" => state = "Connecting",
         tls' = tls \/ tls' \in {"offered", "shaking", "doomed"}, ssock' = "up" => ssock = "up",
         \/ toServer' = toServer
         \/ toServer # <<>> /\ toServer' = Tail(toServer) /\ Head(toServer).is # "setSsl"
         \/ \E ms \in Seq(Message) : toServer' = toServer \o ms
  PROVE  SslAwaited'
  <1> SUFFICES ASSUME Told', state' = "Connecting", ssock' = "up", SslFirst PROVE SslFirst'
    BY DEF SslAwaited
  <1>1. toServer \in Seq(Message)
    BY DEF SessionType
  <1>2. PICK i \in DOMAIN toServer :
          /\ toServer[i].is = "setSsl"
          /\ \A j \in DOMAIN toServer : toServer[j].is \in {"select", "auth", "call"} => i < j
    BY DEF SslFirst
  <1>3. CASE toServer' = toServer
    BY <1>2, <1>3 DEF SslFirst
  <1>4. CASE toServer # <<>> /\ toServer' = Tail(toServer) /\ Head(toServer).is # "setSsl"
    <2>1. /\ Head(toServer) = toServer[1]
          /\ \A j \in DOMAIN toServer' : j \in Nat /\ j + 1 \in DOMAIN toServer /\ toServer'[j] = toServer[j + 1]
          /\ \A j \in DOMAIN toServer :
               j = 1 \/ (j - 1 \in DOMAIN toServer' /\ j \in Nat \ {0} /\ toServer'[j - 1] = toServer[j])
      BY <1>1, <1>4, ReadQueue
    <2>2. i - 1 \in DOMAIN toServer' /\ toServer'[i - 1].is = "setSsl" /\ i \in Nat
      BY <1>2, <1>4, <2>1
    <2>3. ASSUME NEW j \in DOMAIN toServer', toServer'[j].is \in {"select", "auth", "call"}
          PROVE  i - 1 < j
      <3>1. j \in Nat /\ i < j + 1
        BY <1>2, <2>1, <2>3
      <3> QED
        BY <2>2, <3>1
    <2> QED
      BY <2>2, <2>3 DEF SslFirst
  <1>5. ASSUME NEW ms \in Seq(Message), toServer' = toServer \o ms PROVE SslFirst'
    <2>1. /\ DOMAIN toServer = 1 .. Len(toServer) /\ Len(toServer) \in Nat
          /\ \A k \in DOMAIN toServer : k \in DOMAIN toServer' /\ toServer'[k] = toServer[k] /\ k <= Len(toServer)
          /\ \A k \in DOMAIN toServer' : (k \in DOMAIN toServer \/ k > Len(toServer)) /\ k \in Nat
      BY <1>1, <1>5, WrittenQueue
    <2>2. ASSUME NEW j \in DOMAIN toServer', toServer'[j].is \in {"select", "auth", "call"}
          PROVE  i < j
      BY <1>2, <2>1, <2>2
    <2> QED
      BY <1>2, <2>1, <2>2 DEF SslFirst
  <1> QED
    BY <1>3, <1>4, <1>5

\* Nobody answers connect with a return.
LEMMA NoConnectReturn ==
  ASSUME SessionType, Conserved, Return
  PROVE  Head(toClient).id # Connect
  <1>1. Head(toClient) \in Message /\ Head(toClient).is = "return" /\ toClient # <<>> /\ toClient \in Seq(Message)
    BY ClientReadsType DEF Return, SessionType
  <1>2. Head(toClient) \in AnswerMsgs(Head(toClient).id)
    BY <1>1 DEF AnswerMsgs, Answers
  <1>3. Answering(Head(toClient).id)
    BY <1>1, <1>2, TailHolds DEF Answering
  <1>4. ~Answering(Connect)
    BY DEF Conserved, Kept, Nowhere, Connect
  <1> QED
    BY <1>3, <1>4

LEMMA ClientInTurn ==
  ASSUME SessionType, SessionType', Conserved, Turns, Growth, Call \/ Close \/ ClientReadsOne \/ ClientDown
  PROVE  Turns'
  <1> DEFINE Reads == \A m \in Message : Holds(toClient', {m}) => Holds(toClient, {m})
             Quiet == \A m \in Message : Holds(toServer', {m}) => Holds(toServer, {m}) \/ OkAsk(m)'
             Head1 == Head(toClient)
  <1>a. ASSUME NEW is, ClientReads(is)
        PROVE  Reads /\ Head1 \in Message /\ Head1.is = is /\ OkAnswer(Head1)
    <2>1. toClient' = Tail(toClient) /\ toClient # <<>> /\ toClient \in Seq(Message)
          /\ Head1 \in Message /\ Head1.is = is
      BY <1>a, ClientReadsType DEF SessionType
    <2>2. ASSUME NEW m \in Message, Holds(toClient', {m}) PROVE Holds(toClient, {m})
      BY <2>1, <2>2, TailHolds
    <2>3. Holds(toClient, {Head1})
      BY <2>1, TailHolds
    <2> QED
      BY <2>1, <2>2, <2>3 DEF Turns
  <1>b. UNCHANGED toServer => Quiet
    OBVIOUS
  <1>c. ASSUME NEW ms \in Seq(Message), FromClient(ms), \A j \in DOMAIN ms : ms[j].is \notin Asks
        PROVE  Quiet
    <2> SUFFICES ASSUME NEW m \in Message, Holds(toServer', {m}), ~Holds(toServer, {m}) PROVE OkAsk(m)'
      OBVIOUS
    <2>1. Holds(ms, {m})
      BY <1>c, ClientWritesHolds
    <2>2. m.is \notin Asks
      BY <1>c, <2>1 DEF Holds
    <2> QED
      BY <2>2 DEF OkAsk, Asks
  <1>d. Holdings /\ SslAwaited
    BY DEF Turns
  <1>e. cversion \in Nat /\ setup \in Setups /\ toServer \in Seq(Message)
    BY DEF SessionType
  <1>1. CASE Call
    <2>1. PICK kind \in CallKinds \ {"connect"}, on \in {0, 1} \cup known \cup usable :
            /\ Send(kind, on)
            /\ \/ kind = "list" /\ on = 0 /\ (Agreed \in Early \/ told[Connect] > 0)
               \/ kind = "select" /\ on \in {0, 1} /\ told[Connect] > 0
               \/ kind = "auth" /\ on \in known
               \/ kind = "call" /\ on \in usable
      BY <1>1, CallCases
    <2>0. known \subseteq Nat /\ usable \subseteq Nat
      BY DEF SessionType
    <2>2. on \in Nat
      BY <2>0
    <2> DEFINE new == Len(calls) + 1
    <2>3. /\ calls' = Append(calls, [kind |-> kind, on |-> on])
          /\ Len(calls) \in Nat \ {0} /\ (\E n \in {0, 1} : told' = Append(told, n))
      BY <2>1, <2>2, SendType
    <2>4. new \in IdsOf' /\ calls'[new].kind = kind
      <3>1. calls \in Seq([kind : CallKinds, on : Nat])
            /\ [kind |-> kind, on |-> on] \in [kind : CallKinds, on : Nat]
        BY <2>2 DEF SessionType
      <3> QED
        BY <2>3, <3>1 DEF IdsOf
    <2>5. /\ kind \in {"select", "auth", "call"} => Told
          /\ kind \in {"auth", "call"} => on \in 1 .. services
          /\ kind = "call" => on \notin needsAuth
      BY <2>1, <1>d DEF Holdings, Told
    <2>6. PICK m \in Message : /\ m = Msg(cversion, kind, new, on)
                               /\ m.is = kind /\ m.id = new /\ m.arg = on
      <3>1. kind \in Kinds /\ new \in Nat
        BY <2>3 DEF Kinds, CallKinds
      <3>2. Msg(cversion, kind, new, on) \in Message
        BY <1>e, <2>2, <3>1, MsgType
      <3> QED
        BY <3>2 DEF Msg
    <2>7. OkAsk(m)'
      <3>1. services' = services /\ needsAuth' = needsAuth
        BY <1>1 DEF Call, serverVars
      <3>2. Told => Told'
        BY DEF Growth
      <3>3. m.id \in IdsOf' /\ calls'[m.id].kind = m.is
        BY <2>4, <2>6
      <3> QED
        BY <2>5, <2>6, <3>1, <3>2, <3>3 DEF OkAsk
    <2>8. FromClient(<<m>>) \/ toServer' = toServer
      BY <2>1, <2>6 DEF Send
    <2>9. Quiet
      <3>1. CASE FromClient(<<m>>)
        <4>1. <<m>> \in Seq(Message) /\ \A x : Holds(<<m>>, {x}) => x = m
          BY <2>6, Singleton DEF Holds
        <4>2. ASSUME NEW x \in Message, Holds(toServer', {x}) PROVE Holds(toServer, {x}) \/ OkAsk(x)'
          BY <3>1, <4>1, <4>2, <2>7, ClientWritesHolds
        <4> QED
          BY <4>2
      <3> QED
        BY <3>1, <2>8, <1>b
    <2>10. Told' <=> Told
      <3>1. PICK n \in {0, 1} : told' = Append(told, n)
        BY <2>3
      <3>2. n \in Nat /\ told \in Seq(Nat) /\ 1 \in 1 .. Len(told)
        BY DEF SessionType, Connect
      <3>3. told'[1] = told[1]
        BY <3>1, <3>2
      <3> QED
        BY <3>3 DEF Told, Connect
    <2>11. SslAwaited'
      <3>1. \E ms \in Seq(Message) : toServer' = toServer \/ toServer' = toServer \o ms
        BY <2>6, <2>8, Singleton DEF FromClient, Written
      <3> QED
        BY <1>1, <1>d, <2>10, <3>1, SslKept DEF Call
    <2>12. Holdings'
      BY <1>1, <1>d, <2>10 DEF Call, Holdings, serverVars
    <2>13. \A x \in Message : Holds(toClient', {x}) => Holds(toClient, {x})
      BY <1>1 DEF Call
    <2> QED
      BY <2>9, <2>11, <2>12, <2>13, TurnsKept
  <1>2. CASE Close
    <2>1. UNCHANGED <<toServer, toClient, told, state, tls, ssock, setup, services, needsAuth, known, usable>>
      BY <1>2 DEF Close, serverVars
    <2>2. Told' <=> Told
      BY <2>1 DEF Told
    <2>3. SslAwaited' /\ Holdings'
      BY <1>d, <2>1, <2>2, SslKept DEF Holdings
    <2> QED
      BY <2>1, <2>3, TurnsKept
  <1>3. CASE Welcome
    <2>1. Reads /\ Head1 \in Message /\ UNCHANGED <<told, state, tls, ssock, setup, services, needsAuth, known, usable>>
      BY <1>3, <1>a DEF Welcome, clientVars, serverVars
    <2> DEFINE v == Lower(Head1.arg, setup.client)
               m == Msg(cversion, "setProtocolVersion", 0, v)
    <2>2. v \in Nat
      <3>1. setup.client \in Nat
        BY <1>e, AgreedType
      <3>2. Head1.arg \in Nat
        BY <2>1 DEF Message
      <3> QED
        BY <3>1, <3>2 DEF Lower
    <2> HIDE DEF v
    <2>3. m \in Message /\ m.is \notin Asks
      BY <2>2, MsgType DEF Msg, SessionType, Kinds, Asks
    <2>4. FromClient(<<m>>)
      BY <1>3 DEF Welcome, v
    <2> HIDE DEF m
    <2>5. Quiet /\ <<m>> \in Seq(Message)
      <3>1. <<m>> \in Seq(Message) /\ \A j \in DOMAIN <<m>> : <<m>>[j].is \notin Asks
        BY <2>3, Singleton
      <3> QED
        BY <2>4, <3>1, <1>c
    <2>6. Told' <=> Told
      BY <2>1 DEF Told
    <2>7. SslAwaited' /\ Holdings'
      <3>1. \E ms \in Seq(Message) : toServer' = toServer \/ toServer' = toServer \o ms
        BY <2>4, <2>5 DEF FromClient, Written
      <3> QED
        BY <1>d, <2>1, <2>6, <3>1, SslKept DEF Holdings
    <2> QED
      BY <2>1, <2>5, <2>7, TurnsKept
  <1>4. CASE VersionSet
    <2>1. /\ Reads /\ Head1 \in Message
          /\ UNCHANGED <<state, tls, ssock, setup, services, needsAuth, known, usable>>
      BY <1>4, <1>a DEF VersionSet, serverVars
    <2> DEFINE ms == ConnectedMsgs(Head1.arg)
               m0 == Msg(Head1.arg, "setSsl", 0, 0)
               m1 == Msg(Head1.arg, "setSsl", 0, 1)
    <2>2. m0 \in Message /\ m1 \in Message /\ m0.is = "setSsl" /\ m1.is = "setSsl"
      <3>1. Head1.arg \in Nat
        BY <2>1 DEF Message
      <3> QED
        BY <3>1, MsgType DEF Kinds, Msg
    <2> HIDE DEF m0, m1
    <2>3. (ms = <<m0>> \/ ms = <<m1>>) \/ (ms = <<>> /\ setup.scheme = "socket")
      BY SetupAssumption DEF ConnectedMsgs, SessionType, Setups, m0, m1
    <2>4. FromClient(ms)
      BY <1>4 DEF VersionSet
    <2> HIDE DEF ms
    <2>5. ms \in Seq(Message) /\ (\A j \in DOMAIN ms : ms[j].is = "setSsl")
          /\ (ms # <<>> => 1 \in DOMAIN ms) /\ DOMAIN ms \subseteq Nat
      <3>1. ASSUME NEW m \in {m0, m1}, ms = <<m>>
            PROVE  ms \in Seq(Message) /\ (\A j \in DOMAIN ms : ms[j].is = "setSsl") /\ 1 \in DOMAIN ms
                   /\ DOMAIN ms \subseteq Nat
        <4>1. m \in Message /\ m.is = "setSsl"
          BY <2>2
        <4> QED
          BY <3>1, <4>1
      <3>2. CASE ms = <<>>
        BY <3>2
      <3> QED
        BY <2>3, <3>1, <3>2
    <2>6. Quiet
      BY <1>c, <2>4, <2>5 DEF Asks
    <2>7. Holdings'
      BY <1>d, <2>1 DEF Holdings, Growth
    <2>8. SslAwaited'
      <3> SUFFICES ASSUME state = "Connecting", ssock = "up", tls \notin {"offered", "shaking", "doomed"}
                   PROVE  SslFirst'
        BY <2>1 DEF SslAwaited
      <3>1. toServer' = toServer \o ms /\ ms # <<>>
        <4>1. ms # <<>>
          BY <1>d, <2>3 DEF Holdings
        <4> QED
          BY <2>4, <4>1 DEF FromClient, Written
      <3>2. /\ \A k \in DOMAIN toServer : k \in DOMAIN toServer' /\ toServer'[k] = toServer[k] /\ k <= Len(toServer)
            /\ \A k \in DOMAIN ms : k + Len(toServer) \in DOMAIN toServer' /\ toServer'[k + Len(toServer)] = ms[k]
            /\ \A k \in DOMAIN toServer' :
                 k \in DOMAIN toServer \/ (k > Len(toServer) /\ k - Len(toServer) \in DOMAIN ms
                                           /\ toServer'[k] = ms[k - Len(toServer)])
            /\ Len(toServer) \in Nat /\ DOMAIN toServer' \subseteq Nat
        BY <1>e, <2>5, <3>1, WrittenQueue
      <3>3. CASE Told
        <4>1. SslFirst
          BY <1>d, <3>3 DEF SslAwaited
        <4>2. PICK i \in DOMAIN toServer :
                /\ toServer[i].is = "setSsl"
                /\ \A j \in DOMAIN toServer : toServer[j].is \in {"select", "auth", "call"} => i < j
          BY <4>1 DEF SslFirst
        <4>3. ASSUME NEW j \in DOMAIN toServer', toServer'[j].is \in {"select", "auth", "call"} PROVE i < j
          BY <2>5, <3>2, <4>2, <4>3
        <4> QED
          BY <3>2, <4>2, <4>3 DEF SslFirst
      <3>4. CASE ~Told
        <4> DEFINE i == 1 + Len(toServer)
        <4>1. i \in DOMAIN toServer' /\ toServer'[i].is = "setSsl"
          BY <2>5, <3>1, <3>2
        <4>2. ASSUME NEW j \in DOMAIN toServer' PROVE toServer'[j].is \notin {"select", "auth", "call"}
          <5>1. CASE j \in DOMAIN toServer
            <6>1. Holds(toServer, {toServer[j]}) /\ toServer[j] \in Message
              BY <5>1 DEF Holds, SessionType
            <6>2. OkAsk(toServer[j])
              BY <6>1 DEF Turns
            <6> QED
              BY <3>2, <3>4, <5>1, <6>2 DEF OkAsk
          <5>2. CASE j \notin DOMAIN toServer
            BY <2>5, <3>2, <5>2
          <5> QED
            BY <5>1, <5>2
        <4> QED
          BY <4>1, <4>2 DEF SslFirst
      <3> QED
        BY <3>3, <3>4
    <2> QED
      BY <2>1, <2>6, <2>7, <2>8, TurnsKept
  <1>5. CASE FatalError
    <2>1. /\ Reads /\ Head1.is = "error" /\ OkAnswer(Head1)
          /\ UNCHANGED <<state, tls, ssock, setup, services, needsAuth, known, usable, toServer>>
      BY <1>5, <1>a DEF FatalError, serverVars
    <2>2. ssock # "up"
      BY <2>1 DEF OkAnswer
    <2>3. Holdings' /\ SslAwaited'
      BY <1>d, <2>1, <2>2 DEF Holdings, Growth, SslAwaited
    <2> QED
      BY <2>1, <2>3, TurnsKept
  <1>6. CASE EnableSsl
    <2>1. /\ Reads /\ tls' \in {"shaking", "doomed"}
          /\ UNCHANGED <<told, state, ssock, setup, services, needsAuth, known, usable, toServer>>
      BY <1>6, <1>a DEF EnableSsl, serverVars
    <2>2. Told' <=> Told
      BY <2>1 DEF Told
    <2>3. Holdings' /\ SslAwaited'
      BY <1>d, <2>1, <2>2, SslKept DEF Holdings
    <2> QED
      BY <2>1, <2>3, TurnsKept
  <1>7. CASE Return
    <2>1. /\ Reads /\ Head1 \in Message /\ Head1.is = "return" /\ OkAnswer(Head1)
          /\ UNCHANGED <<calls, state, tls, ssock, setup, services, needsAuth, toServer>>
          /\ Tell(Head1.id)
      BY <1>7, <1>a DEF Return, serverVars
    <2>2. Told' <=> Told
      <3>1. Head1.id \in Nat /\ Head1.id # Connect
        BY <1>7, <2>1, NoConnectReturn DEF Message
      <3> QED
        BY <2>1, <3>1, TellGrows
    <2>3. /\ known' # known => /\ known' = known \cup {Head1.arg} /\ Head1.arg > 0
          /\ usable' # usable => /\ usable' = usable \cup {Head1.arg} /\ Head1.arg > 0
                                 /\ calls[Head1.id].kind # "select"
      BY <1>7 DEF Return
    <2>4. Holdings'
      BY <1>d, <2>1, <2>2, <2>3 DEF Holdings, OkAnswer
    <2>5. SslAwaited'
      BY <1>d, <2>1, <2>2, SslKept
    <2> QED
      BY <2>1, <2>4, <2>5, TurnsKept
  <1>8. CASE \E is \in {"stateChanged", "event", "callback"} : Passed(is)
    <2>1. /\ Reads
          /\ UNCHANGED <<told, state, tls, ssock, setup, services, needsAuth, known, usable, toServer>>
      BY <1>8, <1>a DEF Passed, clientVars, serverVars
    <2>2. Told' <=> Told
      BY <2>1 DEF Told
    <2>3. Holdings' /\ SslAwaited'
      BY <1>d, <2>1, <2>2, SslKept DEF Holdings
    <2> QED
      BY <2>1, <2>3, TurnsKept
  <1>9. CASE ClientDown
    <2>1. /\ \A m \in Message : ~Holds(toClient', {m})
          /\ UNCHANGED <<told, state, tls, ssock, setup, services, needsAuth, known, usable, toServer>>
      BY <1>9 DEF ClientDown, serverVars, Holds
    <2>2. Told' <=> Told
      BY <2>1 DEF Told
    <2>3. Holdings' /\ SslAwaited'
      BY <1>d, <2>1, <2>2, SslKept DEF Holdings
    <2> QED
      BY <2>1, <2>3, TurnsKept
  <1> QED
    BY <1>1, <1>2, <1>3, <1>4, <1>5, <1>6, <1>7, <1>8, <1>9 DEF ClientReadsOne
LEMMA ServerInTurn ==
  ASSUME SessionType, SessionType', Turns, Growth,
         \/ ServerReadsOne \/ Encrypted \/ Push \/ (\E id \in IdsOf : SendReturn(id)) \/ ServerDown
  PROVE  Turns'
  <1> DEFINE Head1 == Head(toServer)
             Reads == \A m \in Message : Holds(toServer', {m}) => Holds(toServer, {m})
             Replied == \A m \in Message : Holds(toClient', {m}) => Holds(toClient, {m}) \/ OkAnswer(m)'
             Whole == UNCHANGED <<told, known, usable, setup>>
  <1>a. ASSUME NEW is, ServerReads(is)
        PROVE  /\ Reads /\ Head1 \in Message /\ Head1.is = is /\ OkAsk(Head1)
               /\ toServer # <<>> /\ toServer' = Tail(toServer)
               /\ Head1.id \in Nat /\ Head1.arg \in Nat
    <2>1. toServer' = Tail(toServer) /\ toServer # <<>> /\ toServer \in Seq(Message)
          /\ Head1 \in Message /\ Head1.is = is
      BY <1>a, ServerReadsType DEF SessionType
    <2>2. ASSUME NEW m \in Message, Holds(toServer', {m}) PROVE Holds(toServer, {m})
      BY <2>1, <2>2, TailHolds
    <2>3. Holds(toServer, {Head1})
      BY <2>1, TailHolds
    <2> QED
      BY <2>1, <2>2, <2>3 DEF Turns, Message
  <1>b. ASSUME NEW ms \in Seq(Message), FromServer(ms),
               \A m \in Message : Holds(ms, {m}) => OkAnswer(m)'
        PROVE  Replied
    BY <1>b, ServerWritesHolds
  <1>c. UNCHANGED toClient => Replied
    OBVIOUS
  <1>d. Holdings /\ SslAwaited /\ services \in Nat /\ sversion \in Nat
        /\ state \in {"Connecting", "Service", "Ready"}
    BY DEF Turns, SessionType
  <1>e. Whole => (Told' <=> Told)
    BY DEF Told
  <1>f. ASSUME FromServer(StateMsg("Service")) PROVE Replied
    <2>1. StateMsg("Service") \in Seq(Message)
      BY StateType
    <2>2. ASSUME NEW m \in Message, Holds(StateMsg("Service"), {m}) PROVE OkAnswer(m)'
      <3>1. m.is = "stateChanged"
        BY <2>2 DEF StateMsg, Holds, Msg
      <3> QED
        BY <3>1 DEF OkAnswer
    <2> QED
      BY <1>f, <1>b, <2>1, <2>2
  <1>g. ASSUME NEW is \in Kinds \ {"return"}, NEW id \in Nat, NEW arg \in Nat,
               is = "error" => ssock' # "up",
               FromServer(<<Msg(sversion, is, id, arg)>>)
        PROVE  Replied
    <2>1. PICK r \in Message : r = Msg(sversion, is, id, arg) /\ r.is = is
      <3>1. Msg(sversion, is, id, arg) \in Message
        BY <1>d, MsgType
      <3> QED
        BY <3>1 DEF Msg
    <2>2. FromServer(<<r>>) /\ <<r>> \in Seq(Message)
      BY <1>g, <2>1, Singleton
    <2>3. OkAnswer(r)'
      BY <1>g, <2>1 DEF OkAnswer
    <2>4. \A m \in Message : Holds(<<r>>, {m}) => m = r
      BY OneHolds
    <2> QED
      BY <1>b, <2>2, <2>3, <2>4
  <1>h. ASSUME NEW id \in Nat, NEW s \in Nat, FromServer(<<Reply(id, s)>>),
               s > 0 => /\ Told' /\ id \in IdsOf' /\ s \in 1 .. services'
                        /\ s \in needsAuth' => calls'[id].kind = "select"
        PROVE  Replied
    <2>1. PICK r \in Message : r = Reply(id, s) /\ r.is = "return" /\ r.id = id /\ r.arg = s
      BY ReplyType DEF Reply, Msg
    <2>2. FromServer(<<r>>) /\ <<r>> \in Seq(Message)
      BY <1>h, <2>1, Singleton
    <2>3. OkAnswer(r)'
      BY <1>h, <2>1 DEF OkAnswer
    <2>4. \A m \in Message : Holds(<<r>>, {m}) => m = r
      BY OneHolds
    <2> QED
      BY <1>b, <2>2, <2>3, <2>4
  <1>1. CASE SetProtocolVersion
    <2>1. /\ Reads /\ Head1.is = "setProtocolVersion" /\ toServer # <<>> /\ toServer' = Tail(toServer)
          /\ Head1.arg \in Nat
      BY <1>1, <1>a DEF SetProtocolVersion
    <2>2. Whole /\ UNCHANGED <<state, tls, ssock, services, needsAuth>>
      BY <1>1 DEF SetProtocolVersion, clientVars, serverVars
    <2> DEFINE v == Lower(Head1.arg, setup.server)
    <2>3. v \in Nat
      <3>0. setup \in Setups
        BY DEF SessionType
      <3>1. setup.server \in Nat
        BY <3>0, AgreedType
      <3> QED
        BY <2>1, <3>1 DEF Lower
    <2>4. FromServer(<<Msg(sversion, "setProtocolVersion", 0, v)>>)
      BY <1>1 DEF SetProtocolVersion
    <2> HIDE DEF v
    <2>5. Replied
      BY <1>g, <2>3, <2>4 DEF Kinds
    <2>6. Holdings' /\ SslAwaited'
      BY <1>d, <1>e, <2>1, <2>2, SslKept DEF Holdings
    <2> QED
      BY <2>1, <2>5, <2>6, TurnsKept
  <1>2. CASE SetSsl
    <2>1. Reads
      BY <1>2, <1>a DEF SetSsl
    <2>2. Whole /\ UNCHANGED <<services, needsAuth>>
      BY <1>2 DEF SetSsl, clientVars, serverVars
    <2>3. CASE FromServer(<<Msg(sversion, "error", 0, 2)>>) /\ ssock' = "closing" /\ UNCHANGED <<tls, state>>
      <3>1. Replied
        BY <1>g, <2>3 DEF Kinds
      <3>2. Holdings' /\ SslAwaited'
        BY <1>d, <1>e, <2>2, <2>3 DEF Holdings, SslAwaited
      <3> QED
        BY <2>1, <3>1, <3>2, TurnsKept
    <2>4. CASE FromServer(<<Msg(sversion, "enableSsl", 0, 0)>>) /\ tls' = "offered" /\ UNCHANGED <<ssock, state>>
      <3>1. Replied
        BY <1>g, <2>4 DEF Kinds
      <3>2. Holdings' /\ SslAwaited'
        BY <1>d, <1>e, <2>2, <2>4 DEF Holdings, SslAwaited
      <3> QED
        BY <2>1, <3>1, <3>2, TurnsKept
    <2>5. CASE FromServer(StateMsg("Service")) /\ ChangeState("Service") /\ UNCHANGED <<ssock, tls>>
      <3>1. Replied
        BY <1>f, <2>5
      <3>2. state' # "Connecting" /\ (state = "Ready" => state' = "Ready")
        BY <1>d, <2>5 DEF ChangeState, Level
      <3>3. Holdings' /\ SslAwaited'
        BY <1>d, <1>e, <2>2, <2>5, <3>2 DEF Holdings, SslAwaited
      <3> QED
        BY <2>1, <3>1, <3>3, TurnsKept
    <2> QED
      BY <1>2, <2>3, <2>4, <2>5 DEF SetSsl
  <1>3. CASE List
    <2>1. /\ Reads /\ Head1.is = "list" /\ toServer # <<>> /\ toServer' = Tail(toServer) /\ Head1.id \in Nat
      BY <1>3, <1>a DEF List
    <2>2. Whole /\ UNCHANGED <<state, tls, ssock, services, needsAuth>>
      BY <1>3 DEF List, clientVars, serverVars
    <2>3. FromServer(<<Reply(Head1.id, 0)>>)
      BY <1>3 DEF List
    <2>4. Replied
      BY <1>h, <2>1, <2>3
    <2>5. Holdings' /\ SslAwaited'
      BY <1>d, <1>e, <2>1, <2>2, SslKept DEF Holdings
    <2> QED
      BY <2>1, <2>4, <2>5, TurnsKept
  <1>4. CASE Select
    <2>1. /\ Reads /\ Head1.is = "select" /\ toServer # <<>> /\ toServer' = Tail(toServer)
          /\ Head1.id \in Nat /\ OkAsk(Head1)
      BY <1>4, <1>a DEF Select
    <2>2. Whole /\ UNCHANGED <<tls, ssock, calls>>
      BY <1>4 DEF Select, clientVars
    <2>3. CASE FromServer(<<Reply(Head1.id, 0)>>) /\ UNCHANGED <<state, services, needsAuth>>
      <3>1. Replied
        BY <1>h, <2>1, <2>3
      <3>2. Holdings' /\ SslAwaited'
        BY <1>d, <1>e, <2>1, <2>2, <2>3, SslKept DEF Holdings
      <3> QED
        BY <2>1, <3>1, <3>2, TurnsKept
    <2>4. CASE /\ services' = services + 1 /\ needsAuth' = needsAuth \cup {services + 1}
               /\ FromServer(StateMsg("Ready") \o <<Reply(Head1.id, services + 1)>>)
               /\ ChangeState("Ready")
      <3>1. state' = "Ready"
        BY <1>d, <2>4 DEF ChangeState, Level
      <3>2. Holdings' /\ SslAwaited'
        BY <1>d, <1>e, <2>2, <2>4, <3>1 DEF Holdings, SslAwaited
      <3>3. PICK r \in Message : /\ r = Reply(Head1.id, services + 1) /\ r.is = "return"
                                 /\ r.id = Head1.id /\ r.arg = services + 1
        <4>1. services + 1 \in Nat
          BY <1>d
        <4> QED
          BY <2>1, <4>1, ReplyType DEF Reply, Msg
      <3>4. OkAnswer(r)'
        <4>1. Told /\ r.id \in IdsOf /\ calls[r.id].kind = "select"
          BY <2>1, <3>3 DEF OkAsk, Asks
        <4>2. Told' /\ r.id \in IdsOf' /\ calls'[r.id].kind = "select"
          BY <4>1, <2>2 DEF Growth
        <4> QED
          BY <1>d, <2>4, <3>3, <4>2 DEF OkAnswer
      <3>5. StateMsg("Ready") \in Seq(Message) /\ <<r>> \in Seq(Message)
        BY <3>3, StateType, Singleton
      <3>6. ASSUME NEW m \in Message, Holds(StateMsg("Ready") \o <<r>>, {m}) PROVE OkAnswer(m)'
        <4>1. CASE Holds(StateMsg("Ready"), {m})
          <5>1. m.is = "stateChanged"
            BY <4>1 DEF StateMsg, Holds, Msg
          <5> QED
            BY <5>1 DEF OkAnswer
        <4>2. CASE Holds(<<r>>, {m})
          <5>1. m = r
            BY <4>2, OneHolds
          <5> QED
            BY <5>1, <3>4
        <4> QED
          BY <3>5, <3>6, <4>1, <4>2, WrittenHolds
      <3>7. Replied
        <4>1. StateMsg("Ready") \o <<r>> \in Seq(Message)
          BY <3>5
        <4>2. FromServer(StateMsg("Ready") \o <<r>>)
          BY <2>4, <3>3
        <4> QED
          BY <1>b, <3>6, <4>1, <4>2
      <3> QED
        BY <2>1, <3>2, <3>7, TurnsKept
    <2> QED
      BY <1>4, <2>3, <2>4 DEF Select
  <1>5. CASE Auth
    <2>1. /\ Reads /\ Head1.is = "auth" /\ toServer # <<>> /\ toServer' = Tail(toServer)
          /\ Head1.id \in Nat /\ Head1.arg \in Nat /\ OkAsk(Head1)
      BY <1>5, <1>a DEF Auth
    <2>2. Whole /\ UNCHANGED <<state, tls, ssock, calls, services>> /\ Head1.arg \in 1 .. services
      BY <1>5 DEF Auth, clientVars
    <2>3. Told' /\ Head1.id \in IdsOf'
      BY <2>1 DEF OkAsk, Asks, Growth
    <2>4. CASE needsAuth' = needsAuth \ {Head1.arg} /\ FromServer(<<Reply(Head1.id, Head1.arg)>>)
      <3>1. Replied
        BY <1>h, <2>1, <2>2, <2>3, <2>4
      <3>2. Holdings' /\ SslAwaited'
        BY <1>d, <1>e, <2>1, <2>2, <2>4, SslKept DEF Holdings
      <3> QED
        BY <2>1, <3>1, <3>2, TurnsKept
    <2>5. CASE FromServer(<<Reply(Head1.id, 0)>>) /\ UNCHANGED needsAuth
      <3>1. Replied
        BY <1>h, <2>1, <2>5
      <3>2. Holdings' /\ SslAwaited'
        BY <1>d, <1>e, <2>1, <2>2, <2>5, SslKept DEF Holdings
      <3> QED
        BY <2>1, <3>1, <3>2, TurnsKept
    <2> QED
      BY <1>5, <2>4, <2>5 DEF Auth
  <1>6. CASE Function
    <2>1. /\ Reads /\ Head1.is = "call" /\ toServer # <<>> /\ toServer' = Tail(toServer)
          /\ Head1.id \in Nat /\ Head1.arg \in Nat /\ OkAsk(Head1)
      BY <1>6, <1>a DEF Function
    <2>2. /\ Whole /\ UNCHANGED <<state, tls, ssock, calls, needsAuth>>
          /\ Head1.arg \in (1 .. services) \ needsAuth /\ state = "Ready"
      BY <1>6 DEF Function, clientVars
    <2>3. Told' /\ Head1.id \in IdsOf'
      BY <2>1 DEF OkAsk, Asks, Growth
    <2>4. services' \in {services, services + 1}
      BY <1>6 DEF Function
    <2>5. Replied
      <3>1. CASE \E s \in {0, Head1.arg} : FromServer(<<Reply(Head1.id, s)>>)
        <4>1. PICK s \in {0, Head1.arg} : FromServer(<<Reply(Head1.id, s)>>)
          BY <3>1
        <4>2. s \in Nat /\ (s > 0 => s \in 1 .. services' /\ s \notin needsAuth')
          BY <1>d, <2>1, <2>2, <2>4
        <4> QED
          BY <1>h, <2>1, <2>3, <4>1, <4>2
      <3>2. CASE services' = services + 1 /\ FromServer(<<Reply(Head1.id, services + 1)>>)
        <4>1. services + 1 \in Nat /\ services + 1 \in 1 .. services' /\ services + 1 \notin needsAuth'
          BY <1>d, <2>2, <3>2 DEF Holdings
        <4> QED
          BY <1>h, <2>1, <2>3, <3>2, <4>1
      <3>3. CASE UNCHANGED <<services, toClient>>
        BY <3>3, <1>c
      <3> QED
        BY <1>6, <3>1, <3>2, <3>3 DEF Function
    <2>6. Holdings'
      BY <1>d, <1>e, <2>2, <2>4 DEF Holdings
    <2>7. SslAwaited'
      BY <1>d, <1>e, <2>1, <2>2, SslKept
    <2> QED
      BY <2>1, <2>5, <2>6, <2>7, TurnsKept
  <1>7. CASE Encrypted
    <2>1. Whole /\ UNCHANGED <<toServer, services, needsAuth>>
      BY <1>7 DEF Encrypted, clientVars, serverVars
    <2>2. Replied
      BY <1>7, <1>f DEF Encrypted
    <2>3. state' # "Connecting" /\ (state = "Ready" => state' = "Ready")
      BY <1>7, <1>d DEF Encrypted, ChangeState, Level
    <2>4. Holdings' /\ SslAwaited'
      BY <1>d, <1>e, <2>1, <2>3 DEF Holdings, SslAwaited
    <2> QED
      BY <2>1, <2>2, <2>4, TurnsKept
  <1>8. CASE Push
    <2>1. Whole /\ UNCHANGED <<toServer, services, needsAuth, state, tls, ssock>>
      BY <1>8 DEF Push, clientVars
    <2>2. PICK s \in 1 .. services : \/ FromServer(<<Msg(sversion, "event", 0, s)>>)
                                    \/ FromServer(<<Msg(sversion, "callback", pushed + 1, s)>>)
      BY <1>8 DEF Push
    <2>3. pushed \in Nat
      BY DEF SessionType
    <2>4. s \in Nat /\ pushed + 1 \in Nat
      BY <1>d, <2>3
    <2>5. Replied
      BY <1>g, <2>2, <2>4 DEF Kinds
    <2>6. Holdings' /\ SslAwaited'
      BY <1>d, <1>e, <2>1, SslKept DEF Holdings
    <2> QED
      BY <2>1, <2>5, <2>6, TurnsKept
  <1>9. CASE \E id \in IdsOf : SendReturn(id)
    <2>0. pending \subseteq Nat
      BY DEF SessionType
    <2>1. PICK id \in Nat : SendReturn(id)
      BY <1>9, <2>0 DEF SendReturn
    <2>2. Whole /\ UNCHANGED <<toServer, services, needsAuth, state, tls, ssock>>
      BY <2>1 DEF SendReturn, clientVars
    <2>3. FromServer(<<Reply(id, 0)>>)
      BY <2>1 DEF SendReturn
    <2>4. Replied
      BY <1>h, <2>3
    <2>5. Holdings' /\ SslAwaited'
      BY <1>d, <1>e, <2>2, SslKept DEF Holdings
    <2> QED
      BY <2>2, <2>4, <2>5, TurnsKept
  <1>10. CASE ServerDown
    <2>1. Whole /\ UNCHANGED <<services, needsAuth, state, tls, toClient>> /\ ssock' = "down"
      BY <1>10 DEF ServerDown, clientVars
    <2>2. \A m \in Message : ~Holds(toServer', {m})
      BY <1>10 DEF ServerDown, Holds
    <2>3. Holdings' /\ SslAwaited'
      BY <1>d, <1>e, <2>1 DEF Holdings, SslAwaited
    <2> QED
      BY <1>c, <2>1, <2>2, <2>3, TurnsKept
  <1> QED
    BY <1>1, <1>2, <1>3, <1>4, <1>5, <1>6, <1>7, <1>8, <1>9, <1>10 DEF ServerReadsOne

LEMMA TurnsStep == SessionType /\ Conserved /\ Turns /\ [Next]_vars => Turns'
  <1> SUFFICES ASSUME SessionType, Conserved, Turns, [Next]_vars PROVE Turns'
    OBVIOUS
  <1>0. SessionType' /\ Growth
    BY TypeStep, Grows
  <1>1. CASE Call \/ Close \/ ClientReadsOne \/ ClientDown
    BY <1>0, <1>1, ClientInTurn
  <1>2. CASE ServerReadsOne \/ Encrypted \/ Push \/ (\E id \in IdsOf : SendReturn(id)) \/ ServerDown
    BY <1>0, <1>2, ServerInTurn
  <1>3. CASE UNCHANGED vars
    BY <1>3 DEF vars, wireVars, versionVars, clientVars, serverVars, Turns, Holdings, SslAwaited,
                SslFirst, OkAsk, OkAnswer, Told, IdsOf
  <1> QED
    BY <1>1, <1>2, <1>3 DEF Next

\* A client that waits for its answers never calls too early, however the
\* two ends negotiate, encrypt or close, and whatever else is under way.
THEOREM NeverTooEarly == Spec => []InTurn
  <1>1. Init => SessionType /\ Conserved /\ Turns
    BY InitType, InitConserved, InitTurns
  <1>2. SessionType /\ Conserved /\ Turns /\ [Next]_vars => (SessionType /\ Conserved /\ Turns)'
    BY TypeStep, ConservedStep, TurnsStep
  <1> QED
    BY <1>1, <1>2, TurnsInTurn, PTL DEF Spec
=============================================================================
