------------------------ MODULE ProxyConnection_proofs ------------------------
(***************************************************************************)
(* For any number of proxies and connections: the bus of a connection is   *)
(* deleted once, whatever the users do; and no connection is torn down but *)
(* for its own sake, and connect() told once, if they are patient and hand *)
(* no service from one proxy to another.                                   *)
(***************************************************************************)
EXTENDS ProxyConnection, Subsequences_proofs

\* The inductive invariant.  What is freed is what is no longer in bus, and bus
\* is part of what exists; freed says nothing of connections not yet made.
FreedInv ==
  /\ made \in 0 .. MaxConns
  /\ freed \in [Conns -> Nat]
  /\ exists \subseteq 1 .. made
  /\ bus \subseteq exists
  /\ \A k \in Conns : freed[k] = IF k \in bus \/ k > made THEN 0 ELSE 1

-----------------------------------------------------------------------------
\* Nothing is made and nothing freed at first.
LEMMA InitFreed == Init => FreedInv
  BY ConnsAssumption, SMT DEF Init, FreedInv, Conns

\* Pointers that move delete the buses of the connections that are lost by it,
\* which are no longer in bus, and no others.
LEMMA RebindFreed ==
  ASSUME FreedInv, NEW n \in {made, made + 1}, n <= MaxConns, made' = n,
         NEW c, NEW s, NEW q,
         Rebind(c, s, exists \cup (made + 1 .. n), bus \cup (made + 1 .. n), q)
  PROVE  FreedInv'
  <1> DEFINE new == made + 1 .. n
             lost == {k \in exists \cup new : ~Held(c, s, k)}
  <1>1. /\ exists' = (exists \cup new) \ lost
        /\ bus' = (bus \cup new) \ lost
        /\ freed' = [k \in Conns |-> IF k \in lost \cap (bus \cup new) THEN freed[k] + 1
                                     ELSE freed[k]]
    BY DEF Rebind
  <1>2. /\ new \subseteq 1 .. n /\ 1 .. n \subseteq Conns
        /\ exists \subseteq 1 .. n /\ exists \subseteq Conns
        /\ n \in 0 .. MaxConns
    BY ConnsAssumption, SMT DEF FreedInv, Conns
  <1>3. \A k \in Conns : /\ k \in exists => ~(k > made) /\ ~(k > n)
                         /\ k \in new <=> k > made /\ ~(k > n)
                         /\ k > n => k > made
    BY ConnsAssumption, SMT DEF FreedInv, Conns
  <1> HIDE DEF new, lost
  <1>4. freed' \in [Conns -> Nat]
    BY <1>1, SMT DEF FreedInv
  <1>5. exists' \subseteq 1 .. n /\ bus' \subseteq exists'
    BY <1>1, <1>2 DEF FreedInv
  <1>6. ASSUME NEW k \in Conns PROVE freed'[k] = IF k \in bus' \/ k > n THEN 0 ELSE 1
    <2>1. freed[k] = IF k \in bus \/ k > made THEN 0 ELSE 1
      BY DEF FreedInv
    <2>2. k \in bus => k \in exists
      BY DEF FreedInv
    <2>3. freed'[k] = IF k \in lost \cap (bus \cup new) THEN freed[k] + 1 ELSE freed[k]
      BY <1>1
    <2> QED
      BY <1>1, <1>3, <2>1, <2>2, <2>3
  <1> QED
    BY <1>2, <1>4, <1>5, <1>6 DEF FreedInv

\* A connection is torn down only while it is in bus.
LEMMA TearDownFreed ==
  ASSUME FreedInv, NEW k \in bus, TearDown(k), UNCHANGED <<made, exists>>
  PROVE  FreedInv'
  BY ConnsAssumption, SMT DEF TearDown, FreedInv, Conns

\* Most steps leave what the invariant speaks of alone.
LEMMA FreedFrame ==
  ASSUME FreedInv, UNCHANGED <<made, exists, bus, freed>>
  PROVE  FreedInv'
  BY DEF FreedInv

\* connect() makes one connection more.
LEMMA ConnectFreed ==
  ASSUME FreedInv, NEW p, NEW k \in Conns, NEW s, NEW q, Connect(p, k, s, q)
  PROVE  FreedInv'
  <1>1. k = made + 1 /\ made' = made + 1 /\ made + 1 <= MaxConns
    BY ConnsAssumption, SMT DEF Connect, FreedInv, Conns
  <1>2. {k} = made + 1 .. made + 1
    BY <1>1, SMT DEF FreedInv
  <1>3. PICK c, t : Rebind(c, t, exists \cup {k}, bus \cup {k}, q)
    BY DEF Connect
  <1> QED
    BY <1>1, <1>2, <1>3, RebindFreed

\* So do the pointers of proxies that only change hands.
LEMMA HandsFreed ==
  ASSUME FreedInv, made' = made, NEW c, NEW s, NEW q, Rebind(c, s, exists, bus, q)
  PROVE  FreedInv'
  <1>1. made + 1 .. made = {} /\ made <= MaxConns
    BY ConnsAssumption, SMT DEF FreedInv
  <1> QED
    BY <1>1, RebindFreed

\* Every step of the application keeps the invariant.
LEMMA ApplicationFreed ==
  ASSUME FreedInv, NEW p \in Proxies, Application(p)
  PROVE  FreedInv'
  <1>1. ASSUME NEW k \in Conns, ConnectSync(p, k) PROVE FreedInv'
    BY <1>1, ConnectFreed DEF ConnectSync
  <1>2. ASSUME NEW k \in Conns, ConnectAsync(p, k) PROVE FreedInv'
    BY <1>2, ConnectFreed DEF ConnectAsync
  <1>3. CASE SelectService(p)
    BY <1>3, HandsFreed DEF SelectService
  <1>4. CASE DeselectService(p)
    BY <1>4, HandsFreed DEF DeselectService
  <1>5. ASSUME NEW q \in Proxies, Assign(q, p) PROVE FreedInv'
    BY <1>5, HandsFreed DEF Assign
  <1>6. CASE Disconnect(p)
    BY <1>6, TearDownFreed DEF Disconnect
  <1>7. CASE Destroy(p)
    BY <1>7, HandsFreed DEF Destroy
  <1>8. CASE ConnectRefused(p)
    BY <1>8, HandsFreed DEF ConnectRefused
  <1> QED
    BY <1>1, <1>2, <1>3, <1>4, <1>5, <1>6, <1>7, <1>8 DEF Application

\* The protocol threads free nothing, and the event loop what is in bus.
LEMMA NextFreed == FreedInv /\ [Next]_vars => FreedInv'
  <1> SUFFICES ASSUME FreedInv, [Next]_vars PROVE FreedInv'
    OBVIOUS
  <1>1. ASSUME NEW p \in Proxies, Application(p) PROVE FreedInv'
    BY <1>1, ApplicationFreed
  <1>2. ASSUME NEW k \in Conns, Protocol(k) PROVE FreedInv'
    BY <1>2, FreedFrame DEF Protocol, LinkUp, LinkAnswers, LinkDown, BusDies
  <1>3. CASE Forwarded \/ Emitted \/ ConnectCompleted
    BY <1>3, FreedFrame DEF Forwarded, Emitted, ConnectCompleted
  <1>4. CASE DisconnectedSlot
    BY <1>4, TearDownFreed, FreedFrame DEF DisconnectedSlot
  <1>5. CASE SelectServiceCompleted
    BY <1>5, HandsFreed DEF SelectServiceCompleted
  <1>6. CASE UNCHANGED vars
    BY <1>6, FreedFrame DEF vars
  <1> QED
    BY <1>1, <1>2, <1>3, <1>4, <1>5, <1>6 DEF Next, EventLoop

\* However connections are made, shared, disconnected, lost and let go of, the
\* bus of each is deleted once, and only then.
THEOREM FreedOnce == Spec => []BusFreedOnce
  <1>1. Spec => []FreedInv
    BY InitFreed, NextFreed, PTL DEF Spec
  <1>2. FreedInv => BusFreedOnce
    BY ConnsAssumption, SMT DEF FreedInv, BusFreedOnce, Conns
  <1> QED
    BY <1>1, <1>2, PTL
-----------------------------------------------------------------------------
(* A connection is torn down for its own sake, and connect() told once, if  *)
(* users are patient and share no services.                                 *)

Words  == {"ok", "unselected", "error"}
Calls  == [ev : {"answer", "selected"}, proxy : Proxies, id : Ids]
Posted == [ev : {"hop", "slot", "signal", "answer", "selected"}, proxy : Proxies, of : Conns,
           id : 0 .. MaxId, ok : BOOLEAN]

ConnType ==
  /\ FreedInv
  /\ conn \in [Proxies -> 0 .. made] /\ service \in [Proxies -> 0 .. made] /\ gone \subseteq Proxies
  /\ maker \in [Conns -> Proxies]
  /\ state \in [{0} \cup Conns -> {"Disconnected", "Connecting", "Connected"}]
  /\ link \in [Conns -> {"idle", "up", "down"}]
  /\ curid \in [Conns -> 0 .. 3]
  /\ pending \in [Conns -> SUBSET Calls]
  /\ token \subseteq 1 .. made /\ wanted \subseteq 1 .. made
  /\ objects \in [Proxies -> [Ids -> {0} \cup Conns]]
  /\ queue \in Seq(Posted)
  /\ told \in [Conns -> {<<>>} \cup {<<w>> : w \in Words}]

\* A proxy is on the connection it made last, and holds a service of that only.
Mine ==
  /\ \A p \in Proxies \ gone :
       /\ service[p] \in {0, conn[p]}
       /\ conn[p] # 0 => conn[p] \in exists /\ maker[conn[p]] = p
  /\ \A k \in exists : maker[k] \notin gone /\ conn[maker[k]] = k

\* The chain of connect() for k goes on with the answer to call id, for the
\* proxy that is still there.
Underway(k, p, id) ==
  /\ conn[p] = k /\ k \in 1 .. made /\ maker[k] = p
  /\ id = curid[k] /\ id \in Ids /\ objects[p][id] = k
  /\ told[k] = <<>>

\* One answer at a time is to come for it, or to be read.
InChain(e) == e.ev \in {"answer", "selected"}
OnceEach(q) ==
  \A i, j \in DOMAIN q : InChain(q[i]) /\ InChain(q[j]) /\ q[i].of = q[j].of => i = j

Waiting ==
  \A k \in Conns : \A c \in pending[k] :
    /\ c.proxy \notin gone => Underway(k, c.proxy, c.id)
    /\ k \in 1 .. made
    /\ \A d \in pending[k] : d = c

\* What is posted is about the connection its proxy is on.
Timely(e) ==
  /\ e.ev = "hop" => e.of \in exists
  /\ e.ev # "hop" => e.proxy \notin gone /\ conn[e.proxy] = e.of
  /\ InChain(e) =>
       Underway(e.of, e.proxy, e.id) /\ link[e.of] # "idle" /\ pending[e.of] = {}
  /\ ~InChain(e) => link[e.of] = "down"

\* How far the chain is says what it has still to do.
Stages ==
  \A k \in Conns :
    /\ k \in token => curid[k] <= 1
    /\ k \in wanted => curid[k] <= 2

Unmade == \A k \in Conns : k > made => link[k] = "idle" /\ told[k] = <<>>

PatientInv ==
  /\ ConnType /\ Mine /\ Waiting /\ Stages /\ Unmade
  /\ OnceEach(queue) /\ \A e \in ToSet(queue) : Timely(e)
  /\ LossIsOwn /\ ReportedOnce

\* Users let everything arrive, and assign no services.
Careful == Patient = Proxies /\ ~Sharing

-----------------------------------------------------------------------------
(* What has been made exists or is gone.                                    *)

LEMMA Making ==
  ASSUME ConnType
  PROVE  /\ made \in Nat /\ MaxConns \in Nat /\ made <= MaxConns /\ Conns = 1 .. MaxConns
         /\ 1 .. made \subseteq Conns
         /\ exists \subseteq 1 .. made /\ exists \subseteq Conns /\ bus \subseteq exists
  <1>1. /\ made \in 0 .. MaxConns /\ MaxConns \in Nat /\ Conns = 1 .. MaxConns
        /\ exists \subseteq 1 .. made /\ bus \subseteq exists
    BY ConnsAssumption DEF ConnType, FreedInv, Conns
  <1>2. made \in Nat /\ made <= MaxConns
    BY <1>1
  <1>3. 1 .. made \subseteq 1 .. MaxConns
    BY <1>1, <1>2
  <1> QED
    BY <1>1, <1>2, <1>3

-----------------------------------------------------------------------------
(* Queues.                                                                  *)

LEMMA Members ==
  ASSUME NEW q
  PROVE  /\ \A i \in DOMAIN q : q[i] \in ToSet(q)
         /\ \A e \in ToSet(q) : \E i \in DOMAIN q : q[i] = e
  BY DEF ToSet

LEMMA InPosted ==
  ASSUME NEW q \in Seq(Posted), NEW e \in ToSet(q)
  PROVE  e \in Posted /\ e.of \in Conns /\ e.proxy \in Proxies
  <1>1. PICK i \in DOMAIN q : q[i] = e
    BY Members
  <1>2. e \in Posted
    BY <1>1
  <1> QED
    BY <1>2 DEF Posted

LEMMA TailPosted ==
  ASSUME NEW q \in Seq(Posted), q # <<>>, OnceEach(q)
  PROVE  /\ Head(q) \in Posted /\ Head(q) \in ToSet(q)
         /\ Tail(q) \in Seq(Posted) /\ ToSet(Tail(q)) \subseteq ToSet(q) /\ OnceEach(Tail(q))
         /\ \A e \in ToSet(Tail(q)) : InChain(Head(q)) /\ InChain(e) => e.of # Head(q).of
  <1>1. /\ Head(q) = q[1] /\ 1 \in DOMAIN q /\ Tail(q) \in Seq(Posted) /\ q[1] \in Posted
        /\ \A i \in DOMAIN Tail(q) : i \in Nat /\ i + 1 \in DOMAIN q /\ Tail(q)[i] = q[i + 1] /\ i + 1 # 1
    OBVIOUS
  <1>2. OnceEach(Tail(q))
    <2> SUFFICES ASSUME NEW i \in DOMAIN Tail(q), NEW j \in DOMAIN Tail(q),
                        InChain(Tail(q)[i]), InChain(Tail(q)[j]), Tail(q)[i].of = Tail(q)[j].of
                 PROVE  i = j
      BY DEF OnceEach
    <2>1. i + 1 = j + 1
      BY <1>1 DEF OnceEach
    <2> QED
      BY <1>1, <2>1
  <1>3. ToSet(Tail(q)) \subseteq ToSet(q)
    <2> SUFFICES ASSUME NEW e \in ToSet(Tail(q))
                 PROVE  e \in ToSet(q)
      OBVIOUS
    <2>1. PICK i \in DOMAIN Tail(q) : Tail(q)[i] = e
      BY Members
    <2> QED
      BY <1>1, <2>1, Members
  <1>4. ASSUME NEW e \in ToSet(Tail(q)), InChain(Head(q)), InChain(e)
        PROVE  e.of # Head(q).of
    <2>1. PICK i \in DOMAIN Tail(q) : Tail(q)[i] = e
      BY Members
    <2> QED
      BY <1>1, <1>4, <2>1 DEF OnceEach
  <1> QED
    BY <1>1, <1>2, <1>3, <1>4, Members

LEMMA MorePosted ==
  ASSUME NEW q \in Seq(Posted), NEW w \in Seq(Posted), OnceEach(q), OnceEach(w),
         \A e \in ToSet(q), f \in ToSet(w) : InChain(e) /\ InChain(f) => e.of # f.of
  PROVE  /\ q \o w \in Seq(Posted) /\ OnceEach(q \o w)
         /\ \A e \in ToSet(q \o w) : e \in ToSet(q) \/ e \in ToSet(w)
  <1> DEFINE r == q \o w
  <1>1. /\ r \in Seq(Posted)
        /\ \A i \in DOMAIN r :
             \/ i \in DOMAIN q /\ r[i] = q[i]
             \/ /\ i - Len(q) \in DOMAIN w /\ i = (i - Len(q)) + Len(q)
                /\ r[i] = w[i - Len(q)]
    OBVIOUS
  <1> HIDE DEF r
  <1>2. \A e \in ToSet(r) : e \in ToSet(q) \/ e \in ToSet(w)
    BY <1>1, Members
  <1>3. ASSUME NEW i \in DOMAIN r, NEW j \in DOMAIN r, InChain(r[i]), InChain(r[j]),
               r[i].of = r[j].of
        PROVE  i = j
    <2>1. CASE i \in DOMAIN q /\ r[i] = q[i] /\ j \in DOMAIN q /\ r[j] = q[j]
      BY <1>3, <2>1 DEF OnceEach
    <2>2. CASE /\ i - Len(q) \in DOMAIN w /\ r[i] = w[i - Len(q)]
               /\ j - Len(q) \in DOMAIN w /\ r[j] = w[j - Len(q)]
      <3>1. i - Len(q) = j - Len(q)
        BY <1>3, <2>2 DEF OnceEach
      <3> QED
        BY <1>1, <3>1
    <2>3. CASE i \in DOMAIN q /\ r[i] = q[i] /\ j - Len(q) \in DOMAIN w /\ r[j] = w[j - Len(q)]
      BY <1>3, <2>3, Members
    <2>4. CASE j \in DOMAIN q /\ r[j] = q[j] /\ i - Len(q) \in DOMAIN w /\ r[i] = w[i - Len(q)]
      BY <1>3, <2>4, Members
    <2> QED
      BY <1>1, <2>1, <2>2, <2>3, <2>4
  <1> QED
    BY <1>1, <1>2, <1>3 DEF OnceEach, r

LEMMA OnePosted ==
  ASSUME NEW e \in Posted
  PROVE  /\ <<e>> \in Seq(Posted) /\ OnceEach(<<e>>) /\ ToSet(<<e>>) = {e}
         /\ \A q \in Seq(Posted) : Append(q, e) = q \o <<e>>
  BY DEF OnceEach, ToSet

LEMMA NonePosted == <<>> \in Seq(Posted) /\ OnceEach(<<>>) /\ ToSet(<<>>) = {}
  BY DEF OnceEach, ToSet

LEMMA LeftPosted ==
  ASSUME NEW q \in Seq(Posted), NEW K \in SUBSET (DOMAIN q), OnceEach(q)
  PROVE  /\ At(q, K) \in Seq(Posted) /\ OnceEach(At(q, K))
         /\ \A e \in ToSet(At(q, K)) : \E i \in K : e = q[i]
  <1>1. /\ At(q, K) \in Seq(Posted)
        /\ \A n \in DOMAIN At(q, K) : Nth(K, n) \in K /\ At(q, K)[n] = q[Nth(K, n)]
        /\ \A n, m \in DOMAIN At(q, K) : Nth(K, n) = Nth(K, m) => n = m
    BY AtElements
  <1>2. OnceEach(At(q, K))
    BY <1>1 DEF OnceEach
  <1> QED
    BY <1>1, <1>2, Members

\* The bus has one answer to give at most.
LEMMA SweptPosted ==
  ASSUME ConnType, Waiting, NEW k \in Conns
  PROVE  \/ Swept(k) = <<>>
         \/ \E c \in pending[k] : c.proxy \notin gone /\ Swept(k) = <<Answer(c, k, FALSE)>>
  <1> DEFINE S == {Answer(c, k, FALSE) : c \in {d \in pending[k] : d.proxy \notin gone}}
  <1>1. CASE S = {}
    <2>1. Cardinality({}) = 0
      BY FS_EmptySet
    <2>2. \A f \in [1 .. 0 -> {}] : f = <<>>
      OBVIOUS
    <2>3. <<>> \in [1 .. 0 -> {}] /\ IsInjective(<<>>)
      BY DEF IsInjective
    <2>4. SetToSeq({}) = <<>>
      BY <2>1, <2>2, <2>3 DEF SetToSeq
    <2> QED
      BY <1>1, <2>4 DEF Swept
  <1>2. CASE S # {}
    <2>1. PICK c \in pending[k] : c.proxy \notin gone /\ Answer(c, k, FALSE) \in S
      BY <1>2
    <2>2. S = {Answer(c, k, FALSE)}
      <3>1. \A d \in pending[k] : d = c
        BY <2>1 DEF Waiting
      <3> QED
        BY <2>1, <3>1
    <2>3. PICK x : x = Answer(c, k, FALSE)
      OBVIOUS
    <2>4. Cardinality({x}) = 1
      BY FS_Singleton
    <2>5. \A f \in [1 .. 1 -> {x}] : f = <<x>>
      OBVIOUS
    <2>6. <<x>> \in [1 .. 1 -> {x}] /\ IsInjective(<<x>>)
      BY DEF IsInjective
    <2>7. SetToSeq({x}) = <<x>>
      BY <2>4, <2>5, <2>6 DEF SetToSeq
    <2> QED
      BY <2>1, <2>2, <2>3, <2>7 DEF Swept
  <1> QED
    BY <1>1, <1>2
-----------------------------------------------------------------------------
(* The steps of the protocol threads.                                       *)

LEMMA HopPosted ==
  ASSUME ConnType, NEW k \in Conns
  PROVE  Hop(k) \in Posted /\ Hop(k).ev = "hop" /\ Hop(k).of = k /\ Hop(k).proxy = maker[k]
  BY DEF ConnType, Hop, Posted, MaxId

LEMMA AnswerPosted ==
  ASSUME ConnType, NEW k \in Conns, NEW c \in pending[k], NEW ok \in BOOLEAN
  PROVE  /\ Answer(c, k, ok) \in Posted /\ InChain(Answer(c, k, ok))
         /\ Answer(c, k, ok).of = k /\ Answer(c, k, ok).proxy = c.proxy /\ Answer(c, k, ok).id = c.id
  <1>1. c \in Calls
    BY DEF ConnType
  <1> QED
    BY <1>1 DEF Answer, Calls, Posted, InChain, MaxId, Ids

LEMMA AnswerAlone ==
  ASSUME ConnType, NEW k \in Conns, NEW c \in pending[k], NEW ok \in BOOLEAN
  PROVE  <<Answer(c, k, ok)>> \in Seq(Posted)
  <1>1. Answer(c, k, ok) \in Posted
    BY AnswerPosted
  <1> QED
    BY <1>1, OnePosted

\* A link comes up, answers or goes down: what is asked of it is answered, and
\* its end is said to the connection as long as that exists.
LEMMA LinkMoves ==
  ASSUME PatientInv, NEW k \in Conns, k <= made, NEW l \in {"up", "down"},
         link' = [link EXCEPT ![k] = l], link[k] = "down" => l = "down",
         pending' = [pending EXCEPT ![k] = {}],
         NEW STATE a, NEW STATE h, queue' = queue \o a \o h,
         \/ a = <<>>
         \/ \E c \in pending[k], ok \in BOOLEAN : c.proxy \notin gone /\ a = <<Answer(c, k, ok)>>,
         h = <<>> \/ (h = <<Hop(k)>> /\ k \in exists /\ l = "down"),
         UNCHANGED <<holders, made, exists, state, bus, freed, asked, maker, curid, token,
                     wanted, objects, told>>
  PROVE  PatientInv'
  <1>1. /\ conn' = conn /\ service' = service /\ gone' = gone /\ made' = made /\ exists' = exists
        /\ state' = state /\ bus' = bus /\ freed' = freed /\ asked' = asked /\ maker' = maker
        /\ curid' = curid /\ token' = token /\ wanted' = wanted /\ objects' = objects
        /\ told' = told
    BY DEF holders
  <1>2. /\ ConnType /\ Mine /\ Waiting /\ Stages /\ Unmade /\ OnceEach(queue)
        /\ \A e \in ToSet(queue) : Timely(e)
    BY DEF PatientInv
  <1>3. /\ link' \in [Conns -> {"idle", "up", "down"}] /\ link'[k] = l
        /\ \A j \in Conns : j # k => link'[j] = link[j]
        /\ pending' \in [Conns -> SUBSET Calls] /\ pending'[k] = {}
        /\ \A j \in Conns : j # k => pending'[j] = pending[j]
    BY <1>2 DEF ConnType
  <1>4. /\ \A j \in Conns : link[j] # "idle" => link'[j] # "idle"
        /\ \A j \in Conns : link[j] = "down" => link'[j] = "down"
        /\ \A j \in Conns : pending[j] = {} => pending'[j] = {}
    BY <1>3
  <1>5. \A j, p, id : Underway(j, p, id)' <=> Underway(j, p, id)
    BY <1>1 DEF Underway
  <1>6. \A e \in ToSet(queue) : Timely(e)' /\ e \in Posted
    <2>1. \A e \in ToSet(queue) : e \in Posted /\ e.of \in Conns
      BY <1>2, InPosted DEF ConnType
    <2> QED
      BY <1>1, <1>2, <1>4, <1>5, <2>1 DEF Timely
  <1>7. /\ a \in Seq(Posted) /\ OnceEach(a)
        /\ \A e \in ToSet(a) : Timely(e)' /\ e.of = k /\ pending[k] # {}
    <2>1. CASE a = <<>>
      BY <2>1, NonePosted
    <2>2. CASE \E c \in pending[k], ok \in BOOLEAN :
                 c.proxy \notin gone /\ a = <<Answer(c, k, ok)>>
      <3>1. PICK c \in pending[k], ok \in BOOLEAN :
                 c.proxy \notin gone /\ a = <<Answer(c, k, ok)>>
        BY <2>2
      <3>2. PICK e : e = Answer(c, k, ok)
        OBVIOUS
      <3>3. /\ e \in Posted /\ InChain(e) /\ e.of = k /\ e.proxy = c.proxy /\ e.id = c.id
        BY <1>2, <3>2, AnswerPosted
      <3>4. Underway(k, c.proxy, c.id) /\ conn[c.proxy] = k
        BY <1>2, <3>1 DEF Waiting, Underway
      <3>5. Timely(e)'
        BY <1>1, <1>3, <1>5, <3>1, <3>3, <3>4 DEF Timely, InChain
      <3>6. a = <<e>>
        BY <3>1, <3>2
      <3> QED
        BY <3>3, <3>5, <3>6, OnePosted
    <2> QED
      BY <2>1, <2>2
  <1>8. /\ h \in Seq(Posted) /\ OnceEach(h)
        /\ \A e \in ToSet(h) : Timely(e)' /\ ~InChain(e)
    <2>1. CASE h = <<>>
      BY <2>1, NonePosted
    <2>2. CASE h = <<Hop(k)>> /\ k \in exists /\ l = "down"
      <3>1. Hop(k) \in Posted /\ Hop(k).ev = "hop" /\ Hop(k).of = k
        BY <1>2, HopPosted
      <3>2. PICK e : e = Hop(k)
        OBVIOUS
      <3>3. Timely(e)' /\ ~InChain(e)
        BY <1>1, <1>3, <2>2, <3>1, <3>2 DEF Timely, InChain
      <3> QED
        BY <2>2, <3>1, <3>2, <3>3, OnePosted
    <2> QED
      BY <2>1, <2>2
  <1>9. /\ queue' \in Seq(Posted) /\ OnceEach(queue') /\ \A e \in ToSet(queue') : Timely(e)'
    <2> DEFINE w == queue \o a
    <2>1. \A e \in ToSet(queue) : InChain(e) => pending[e.of] = {}
      BY <1>2 DEF Timely
    <2>2. \A e \in ToSet(queue), f \in ToSet(a) : InChain(e) /\ InChain(f) => e.of # f.of
      BY <1>7, <2>1
    <2>3. /\ w \in Seq(Posted) /\ OnceEach(w)
          /\ \A e \in ToSet(w) : e \in ToSet(queue) \/ e \in ToSet(a)
      BY <1>2, <1>7, <2>2, MorePosted DEF ConnType
    <2> HIDE DEF w
    <2>4. /\ w \o h \in Seq(Posted) /\ OnceEach(w \o h)
          /\ \A e \in ToSet(w \o h) : e \in ToSet(w) \/ e \in ToSet(h)
      BY <1>8, <2>3, MorePosted
    <2>5. queue' = w \o h
      BY DEF w
    <2> QED
      BY <1>6, <1>7, <1>8, <2>3, <2>4, <2>5
  <1>10. ConnType' /\ Mine' /\ Stages' /\ Unmade'
    <2>1. FreedInv'
      BY <1>1, <1>2 DEF ConnType, FreedInv
    <2>2. ConnType'
      BY <1>1, <1>2, <1>3, <1>9, <2>1 DEF ConnType
    <2>3. Mine' /\ Stages'
      BY <1>1, <1>2 DEF Mine, Stages
    <2>4. Unmade'
      <3>1. \A j \in Conns : j > made => j # k
        BY <1>2, Making
      <3> QED
        BY <1>1, <1>2, <1>3, <3>1 DEF Unmade
    <2> QED
      BY <2>2, <2>3, <2>4
  <1>11. Waiting'
    BY <1>1, <1>2, <1>3, <1>5 DEF Waiting
  <1>12. LossIsOwn' /\ ReportedOnce'
    <2>1. exists \subseteq Conns /\ 1 .. made \subseteq Conns
      BY <1>2, Making
    <2> QED
      BY <1>1, <1>4, <2>1 DEF PatientInv, LossIsOwn, ReportedOnce
  <1> QED
    BY <1>9, <1>10, <1>11, <1>12 DEF PatientInv

\* a is what the bus sweeps, each with an outcome of its own.
SweptWith(k, ok, a) == a = [i \in 1 .. Len(Swept(k)) |-> [Swept(k)[i] EXCEPT !.ok = ok[i]]]

LEMMA SweptAnswers ==
  ASSUME ConnType, Waiting, NEW k \in Conns,
         NEW STATE ok, ok \in [1 .. Len(Swept(k)) -> BOOLEAN],
         NEW STATE a, SweptWith(k, ok, a)
  PROVE  \/ a = <<>>
         \/ \E c \in pending[k], b \in BOOLEAN : c.proxy \notin gone /\ a = <<Answer(c, k, b)>>
  <1>1. CASE Swept(k) = <<>>
    BY <1>1 DEF SweptWith
  <1>2. CASE \E c \in pending[k] : c.proxy \notin gone /\ Swept(k) = <<Answer(c, k, FALSE)>>
    <2>1. PICK c \in pending[k] : c.proxy \notin gone /\ Swept(k) = <<Answer(c, k, FALSE)>>
      BY <1>2
    <2>2. Len(Swept(k)) = 1 /\ Swept(k)[1] = Answer(c, k, FALSE) /\ ok[1] \in BOOLEAN
      BY <2>1
    <2>3. [Answer(c, k, FALSE) EXCEPT !.ok = ok[1]] = Answer(c, k, ok[1])
      BY DEF Answer
    <2>4. PICK x : x = Answer(c, k, ok[1])
      OBVIOUS
    <2>5. [Swept(k)[1] EXCEPT !.ok = ok[1]] = x
      BY <2>2, <2>3, <2>4
    <2>6. a = [i \in 1 .. 1 |-> x]
      <3>1. \A i \in 1 .. 1 : i = 1
        OBVIOUS
      <3> QED
        BY <2>2, <2>5, <3>1 DEF SweptWith
    <2>7. a = <<x>>
      BY <2>6
    <2> QED
      BY <2>1, <2>2, <2>4, <2>7
  <1> QED
    BY <1>1, <1>2, SweptPosted

LEMMA ProtocolKeeps ==
  ASSUME PatientInv, NEW k \in Conns, Protocol(k)
  PROVE  PatientInv'
  <1>1. /\ ConnType /\ Waiting /\ Unmade /\ link[k] \in {"idle", "up", "down"}
        /\ queue \in Seq(Posted) /\ made \in Nat /\ k \in Nat
    <2>1. ConnType /\ Waiting /\ Unmade
      BY DEF PatientInv
    <2>2. made \in Nat /\ k \in Nat
      BY <2>1, Making
    <2> QED
      BY <2>1, <2>2 DEF ConnType
  <1>2. /\ link[k] # "idle" => k <= made
        /\ pending[k] # {} => k <= made
    <2>1. k > made => link[k] = "idle" /\ pending[k] = {}
      BY <1>1 DEF Unmade, Waiting
    <2> QED
      BY <1>1, <2>1
  <1>3. \A a \in Seq(Posted) : queue \o a = queue \o a \o <<>>
    BY <1>1
  <1>4. CASE LinkUp(k)
    <2>1. /\ pending' = [pending EXCEPT ![k] = {}] /\ k <= made /\ link[k] = "idle"
          /\ UNCHANGED <<holders, made, exists, state, bus, freed, asked, maker, curid, token,
                         wanted, objects, told>>
      BY <1>4 DEF LinkUp
    <2>2. CASE /\ link' = [link EXCEPT ![k] = "up"]
               /\ queue' = queue \o [i \in 1 .. Len(Swept(k)) |-> [Swept(k)[i] EXCEPT !.ok = TRUE]]
      <3> DEFINE a == [i \in 1 .. Len(Swept(k)) |-> [Swept(k)[i] EXCEPT !.ok = TRUE]]
      <3>1. \/ a = <<>>
            \/ \E c \in pending[k], b \in BOOLEAN : c.proxy \notin gone /\ a = <<Answer(c, k, b)>>
        <4>1. PICK oks : oks = [i \in 1 .. Len(Swept(k)) |-> TRUE]
          OBVIOUS
        <4>2. oks \in [1 .. Len(Swept(k)) -> BOOLEAN]
          BY <4>1
        <4>3. SweptWith(k, oks, a)
          BY <4>1 DEF SweptWith
        <4> HIDE DEF a
        <4> QED
          BY <1>1, <4>2, <4>3, SweptAnswers
      <3>2. queue' = queue \o a
        BY <2>2
      <3> HIDE DEF a
      <3>3. a \in Seq(Posted)
        BY <1>1, <3>1, AnswerAlone, NonePosted
      <3>4. queue' = queue \o a \o <<>>
        BY <1>3, <3>2, <3>3
      <3> QED
        BY <2>1, <2>2, <3>1, <3>4, LinkMoves
    <2>3. CASE /\ link' = [link EXCEPT ![k] = "down"]
               /\ \E end \in {<<>>, <<Hop(k)>>} :
                    queue' = queue \o Swept(k) \o IF k \in exists THEN end ELSE <<>>
      <3>1. \/ queue' = queue \o Swept(k) \o <<>>
            \/ queue' = queue \o Swept(k) \o <<Hop(k)>> /\ k \in exists
        BY <2>3
      <3> QED
        BY <1>1, <2>1, <2>3, <3>1, SweptPosted, LinkMoves
    <2> QED
      BY <1>4, <2>2, <2>3 DEF LinkUp
  <1>5. CASE LinkAnswers(k)
    <2>1. PICK selected \in BOOLEAN :
             queue' = queue \o [i \in 1 .. Len(Swept(k)) |->
               [Swept(k)[i] EXCEPT !.ok = link[k] = "up" /\ (Swept(k)[i].ev = "selected" => selected)]]
      BY <1>5 DEF LinkAnswers
    <2> DEFINE ok == [i \in 1 .. Len(Swept(k)) |->
                        link[k] = "up" /\ (Swept(k)[i].ev = "selected" => selected)]
               a == [i \in 1 .. Len(Swept(k)) |-> [Swept(k)[i] EXCEPT !.ok = ok[i]]]
    <2>2. \/ a = <<>>
          \/ \E c \in pending[k], b \in BOOLEAN : c.proxy \notin gone /\ a = <<Answer(c, k, b)>>
      <3>1. ok \in [1 .. Len(Swept(k)) -> BOOLEAN]
        OBVIOUS
      <3>2. SweptWith(k, ok, a)
        BY DEF SweptWith
      <3> HIDE DEF ok, a
      <3> QED
        BY <1>1, <3>1, <3>2, SweptAnswers
    <2>3. a \in Seq(Posted)
      <3> HIDE DEF a
      <3> QED
        BY <1>1, <2>2, AnswerAlone, NonePosted
    <2>4. queue' = queue \o a
      BY <2>1
    <2>5. /\ link' = [link EXCEPT ![k] = link[k]] /\ link[k] \in {"up", "down"}
          /\ pending' = [pending EXCEPT ![k] = {}] /\ k <= made
          /\ UNCHANGED <<holders, made, exists, state, bus, freed, asked, maker, curid, token,
                         wanted, objects, told>>
      BY <1>1, <1>2, <1>5 DEF LinkAnswers, ConnType
    <2> HIDE DEF a
    <2> QED
      BY <1>3, <2>2, <2>3, <2>4, <2>5, LinkMoves
  <1>6. CASE LinkDown(k)
    <2>1. /\ link' = [link EXCEPT ![k] = "down"] /\ k <= made
          /\ pending' = [pending EXCEPT ![k] = {}]
          /\ UNCHANGED <<holders, made, exists, state, bus, freed, asked, maker, curid, token,
                         wanted, objects, told>>
      BY <1>1, <1>2, <1>6 DEF LinkDown
    <2>2. \/ queue' = queue \o Swept(k) \o <<>>
          \/ queue' = queue \o Swept(k) \o <<Hop(k)>> /\ k \in exists
      BY <1>6 DEF LinkDown
    <2> QED
      BY <1>1, <2>1, <2>2, SweptPosted, LinkMoves
  <1>7. CASE BusDies(k)
    <2>1. /\ link' = [link EXCEPT ![k] = "down"] /\ k <= made
          /\ pending' = [pending EXCEPT ![k] = {}] /\ queue' = queue \o Swept(k)
          /\ UNCHANGED <<holders, made, exists, state, bus, freed, asked, maker, curid, token,
                         wanted, objects, told>>
      BY <1>1, <1>2, <1>7 DEF BusDies
    <2>2. Swept(k) \in Seq(Posted)
      BY <1>1, SweptPosted, AnswerAlone, NonePosted
    <2>3. queue' = queue \o Swept(k) \o <<>>
      BY <1>3, <2>1, <2>2
    <2> QED
      BY <1>1, <2>1, <2>3, SweptPosted, LinkMoves
  <1> QED
    BY <1>4, <1>5, <1>6, <1>7 DEF Protocol
-----------------------------------------------------------------------------
(* The event loop.                                                          *)

LEMMA QueueRead ==
  ASSUME PatientInv, queue' \in Seq(Posted), OnceEach(queue'), \A e \in ToSet(queue') : Timely(e),
         UNCHANGED <<holders, made, exists, state, bus, freed, asked, link, maker, curid, pending,
                     token, wanted, objects, told>>
  PROVE  PatientInv'
  <1>1. /\ conn' = conn /\ service' = service /\ gone' = gone /\ made' = made /\ exists' = exists
        /\ state' = state /\ bus' = bus /\ freed' = freed /\ asked' = asked /\ maker' = maker
        /\ curid' = curid /\ token' = token /\ wanted' = wanted /\ objects' = objects
        /\ told' = told /\ link' = link /\ pending' = pending
    BY DEF holders
  <1>2. \A j, p, id : Underway(j, p, id)' <=> Underway(j, p, id)
    BY <1>1 DEF Underway
  <1>3. \A e : Timely(e)' <=> Timely(e)
    BY <1>1, <1>2 DEF Timely
  <1>4. FreedInv'
    BY <1>1, FreedFrame DEF PatientInv, ConnType
  <1>5. ConnType'
    BY <1>1, <1>4 DEF PatientInv, ConnType
  <1>6. Waiting'
    BY <1>1, <1>2 DEF PatientInv, Waiting
  <1>7. Mine' /\ Stages' /\ Unmade' /\ LossIsOwn' /\ ReportedOnce'
    BY <1>1 DEF PatientInv, Mine, Stages, Unmade, LossIsOwn, ReportedOnce
  <1> QED
    BY <1>3, <1>5, <1>6, <1>7 DEF PatientInv

\* What is read next, and what is behind it.
LEMMA Reading ==
  ASSUME PatientInv, queue # <<>>
  PROVE  LET e == Head(queue) IN
         /\ e \in Posted /\ e.of \in Conns /\ e.proxy \in Proxies /\ Timely(e)
         /\ Rest \in Seq(Posted) /\ OnceEach(Rest) /\ \A f \in ToSet(Rest) : Timely(f)
         /\ \A f \in ToSet(Rest) : InChain(e) /\ InChain(f) => f.of # e.of
  <1>1. queue \in Seq(Posted) /\ OnceEach(queue) /\ \A f \in ToSet(queue) : Timely(f)
    BY DEF PatientInv, ConnType
  <1> QED
    BY <1>1, TailPosted, InPosted DEF Rest

LEMMA ForwardedKeeps ==
  ASSUME PatientInv, Forwarded
  PROVE  PatientInv'
  <1> DEFINE k == Head(queue).of
  <1>1. /\ queue # <<>> /\ Head(queue).ev = "hop"
        /\ UNCHANGED <<holders, made, exists, state, bus, freed, asked, link, maker, curid,
                       pending, token, wanted, objects, told>>
        /\ \/ queue' = Rest \o <<>>
           \/ maker[k] \notin gone /\ queue' = Rest \o <<Slot(k), Signal(k)>>
    BY DEF Forwarded, Arrives
  <1>2. /\ k \in Conns /\ k \in exists /\ link[k] = "down" /\ ConnType
        /\ Rest \in Seq(Posted) /\ OnceEach(Rest) /\ \A f \in ToSet(Rest) : Timely(f)
    BY <1>1, Reading DEF Timely, InChain, PatientInv
  <1>3. conn[maker[k]] = k
    BY <1>2 DEF PatientInv, Mine
  <1>4. CASE queue' = Rest \o <<>>
    <2>1. queue' = Rest
      BY <1>2, <1>4
    <2> QED
      BY <1>1, <1>2, <2>1, QueueRead
  <1>5. CASE maker[k] \notin gone /\ queue' = Rest \o <<Slot(k), Signal(k)>>
    <2>1. /\ Slot(k) \in Posted /\ Slot(k).ev = "slot" /\ Slot(k).of = k /\ Slot(k).proxy = maker[k]
          /\ Signal(k) \in Posted /\ Signal(k).ev = "signal" /\ Signal(k).of = k
          /\ Signal(k).proxy = maker[k]
      <3>1. Hop(k) \in Posted /\ Hop(k).of = k /\ Hop(k).proxy = maker[k]
        BY <1>2, HopPosted
      <3> HIDE DEF k
      <3> QED
        BY <3>1 DEF Slot, Signal, Posted
    <2>2. PICK e, f : e = Slot(k) /\ f = Signal(k)
      OBVIOUS
    <2>3. Timely(e) /\ Timely(f) /\ ~InChain(e) /\ ~InChain(f)
      BY <1>2, <1>3, <1>5, <2>1, <2>2 DEF Timely, InChain
    <2>4. /\ <<e, f>> \in Seq(Posted) /\ OnceEach(<<e, f>>) /\ ToSet(<<e, f>>) = {e, f}
      BY <2>1, <2>2, <2>3 DEF OnceEach, ToSet
    <2>5. /\ queue' \in Seq(Posted) /\ OnceEach(queue')
          /\ \A g \in ToSet(queue') : g \in ToSet(Rest) \/ g \in {e, f}
      <3>1. PICK w : w = <<e, f>>
        OBVIOUS
      <3>2. queue' = Rest \o w
        BY <1>5, <2>2, <3>1
      <3>3. \A g \in ToSet(Rest), h \in ToSet(w) : InChain(g) /\ InChain(h) => g.of # h.of
        BY <2>3, <2>4, <3>1
      <3> QED
        BY <1>2, <2>4, <3>1, <3>2, <3>3, MorePosted
    <2> QED
      BY <1>1, <1>2, <2>3, <2>5, QueueRead
  <1> QED
    BY <1>1, <1>4, <1>5

LEMMA EmittedKeeps ==
  ASSUME PatientInv, Emitted
  PROVE  PatientInv'
  BY Reading, QueueRead DEF Emitted, Arrives

\* A connection is torn down that was lost, or that its user gives up.
LEMMA TornDown ==
  ASSUME PatientInv, NEW k \in bus, TearDown(k),
         queue' \in Seq(Posted), OnceEach(queue'), \A e \in ToSet(queue') : Timely(e),
         asked \subseteq asked', k \in asked' \/ link[k] = "down",
         UNCHANGED <<holders, made, exists, link, maker, curid, pending, token, wanted, objects,
                     told>>
  PROVE  PatientInv'
  <1>1. /\ conn' = conn /\ service' = service /\ gone' = gone /\ made' = made /\ exists' = exists
        /\ maker' = maker /\ curid' = curid /\ token' = token /\ wanted' = wanted
        /\ objects' = objects /\ told' = told /\ link' = link /\ pending' = pending
    BY DEF holders
  <1>2. /\ ConnType /\ Mine /\ Waiting /\ Stages /\ Unmade /\ LossIsOwn /\ ReportedOnce
    BY DEF PatientInv
  <1>3. /\ state' = [state EXCEPT ![k] = "Disconnected"] /\ bus' = bus \ {k}
    BY DEF TearDown
  <1>4. \A j, p, id : Underway(j, p, id)' <=> Underway(j, p, id)
    BY <1>1 DEF Underway
  <1>5. \A e : Timely(e)' <=> Timely(e)
    BY <1>1, <1>4 DEF Timely
  <1>6. FreedInv'
    BY <1>1, <1>2, TearDownFreed DEF ConnType
  <1>7. ConnType'
    BY <1>1, <1>2, <1>3, <1>6 DEF ConnType
  <1>8. Waiting' /\ Mine' /\ Stages' /\ Unmade'
    BY <1>1, <1>2, <1>4 DEF Waiting, Mine, Stages, Unmade
  <1>9. LossIsOwn'
    BY <1>1, <1>2, <1>3 DEF LossIsOwn
  <1>10. ReportedOnce'
    <2>1. \A j \in 1 .. made : state[j] = "Disconnected" => state'[j] = "Disconnected"
      BY <1>2, <1>3, Making DEF ConnType
    <2> QED
      BY <1>1, <1>2, <2>1 DEF ReportedOnce
  <1> QED
    BY <1>5, <1>7, <1>8, <1>9, <1>10 DEF PatientInv

LEMMA DisconnectedSlotKeeps ==
  ASSUME PatientInv, DisconnectedSlot
  PROVE  PatientInv'
  <1> DEFINE k == conn[Head(queue).proxy]
  <1>1. /\ queue # <<>> /\ Head(queue).ev = "slot" /\ queue' = Rest
        /\ UNCHANGED <<holders, made, exists, asked, link, maker, curid, pending, token, wanted,
                       objects, told>>
        /\ \/ k \in bus /\ TearDown(k)
           \/ UNCHANGED <<state, bus, freed>>
    BY DEF DisconnectedSlot, Arrives
  <1>2. /\ link[k] = "down"
        /\ Rest \in Seq(Posted) /\ OnceEach(Rest) /\ \A f \in ToSet(Rest) : Timely(f)
    BY <1>1, Reading DEF Timely, InChain
  <1>3. CASE k \in bus /\ TearDown(k)
    BY <1>1, <1>2, <1>3, TornDown
  <1>4. CASE UNCHANGED <<state, bus, freed>>
    BY <1>1, <1>2, <1>4, QueueRead
  <1> QED
    BY <1>1, <1>3, <1>4

LEMMA DisconnectKeeps ==
  ASSUME PatientInv, NEW p \in Proxies, Disconnect(p)
  PROVE  PatientInv'
  <1>1. /\ conn[p] \in bus /\ TearDown(conn[p]) /\ asked' = asked \cup {conn[p]} /\ queue' = queue
        /\ UNCHANGED <<holders, made, exists, link, maker, curid, pending, token, wanted, objects,
                       told>>
    BY DEF Disconnect
  <1>2. queue \in Seq(Posted) /\ OnceEach(queue) /\ \A e \in ToSet(queue) : Timely(e)
    BY DEF PatientInv, ConnType
  <1> QED
    BY <1>1, <1>2, TornDown

\* The chain ends: with an error, or when there is nothing more to do.
LEMMA CompletedKeeps ==
  ASSUME PatientInv, NEW e, e = Head(queue), queue # <<>>, e.ev = "answer", queue' = Rest,
         NEW k, k = conn[e.proxy], NEW what, NEW s,
         CompletedWith(e.proxy, e.id, what, s),
         \/ what = "error" /\ s = "Disconnected"
         \/ what = "ok" /\ s = "Connected" /\ k \notin token \cup wanted,
         UNCHANGED <<holders, made, exists, bus, freed, asked, link, maker>>
  PROVE  PatientInv'
  <1>1. /\ ConnType /\ Mine /\ Waiting /\ Stages /\ Unmade /\ LossIsOwn /\ ReportedOnce
    BY DEF PatientInv
  <1>2. /\ Rest \in Seq(Posted) /\ OnceEach(Rest) /\ \A f \in ToSet(Rest) : Timely(f) /\ f \in Posted
        /\ \A f \in ToSet(Rest) : InChain(f) => f.of # k
        /\ e.proxy \in Proxies /\ e.proxy \notin gone /\ k \in Conns
        /\ Underway(k, e.proxy, e.id) /\ link[k] # "idle" /\ pending[k] = {}
    BY Reading, InPosted DEF Timely, InChain
  <1>3. /\ k \in 1 .. made /\ maker[k] = e.proxy /\ e.id \in Ids /\ objects[e.proxy][e.id] = k
        /\ told[k] = <<>> /\ k # 0
    BY <1>2, ConnsAssumption DEF Underway, Conns
  <1>4. /\ conn' = conn /\ service' = service /\ gone' = gone /\ made' = made /\ exists' = exists
        /\ bus' = bus /\ freed' = freed /\ asked' = asked /\ maker' = maker /\ link' = link
        /\ curid' = curid /\ pending' = pending /\ token' = token \ {k} /\ wanted' = wanted \ {k}
        /\ state' = [state EXCEPT ![k] = s] /\ told' = [told EXCEPT ![k] = <<what>>]
        /\ objects' = [objects EXCEPT ![e.proxy][e.id] = 0]
    BY <1>3 DEF holders, CompletedWith, Tell
  <1>5. /\ told' \in [Conns -> {<<>>} \cup {<<w>> : w \in Words}]
        /\ told'[k] = <<what>> /\ \A j \in Conns : j # k => told'[j] = told[j]
        /\ state' \in [{0} \cup Conns -> {"Disconnected", "Connecting", "Connected"}]
        /\ state'[k] = s /\ \A j \in Conns : j # k => state'[j] = state[j]
        /\ objects' \in [Proxies -> [Ids -> {0} \cup Conns]]
        /\ \A p \in Proxies, id \in Ids :
             ~(p = e.proxy /\ id = e.id) => objects'[p][id] = objects[p][id]
    BY <1>1, <1>2, <1>3, <1>4 DEF ConnType, Words
  <1>6. ASSUME NEW j \in Conns, NEW p \in Proxies \ gone, NEW id, Underway(j, p, id), j # k
        PROVE  Underway(j, p, id)'
    <2>1. p # e.proxy
      BY <1>6 DEF Underway
    <2> QED
      BY <1>4, <1>5, <1>6, <2>1 DEF Underway
  <1>7. \A f \in ToSet(Rest) : Timely(f)'
    <2> SUFFICES ASSUME NEW f \in ToSet(Rest)
                 PROVE  Timely(f)'
      OBVIOUS
    <2>1. Timely(f) /\ f.of \in Conns /\ f.proxy \in Proxies /\ (InChain(f) => f.of # k)
      BY <1>2, InPosted
    <2>2. InChain(f) => f.proxy \notin gone
      BY <2>1 DEF Timely, InChain
    <2>3. InChain(f) => Underway(f.of, f.proxy, f.id)'
      BY <1>6, <2>1, <2>2 DEF Timely
    <2> QED
      BY <1>4, <2>1, <2>3 DEF Timely
  <1>8. FreedInv'
    BY <1>1, <1>4, FreedFrame DEF ConnType
  <1>9. ConnType'
    <2>1. token' \subseteq 1 .. made /\ wanted' \subseteq 1 .. made
      BY <1>1, <1>4 DEF ConnType
    <2>2. /\ conn' \in [Proxies -> 0 .. made'] /\ service' \in [Proxies -> 0 .. made']
          /\ gone' \subseteq Proxies /\ maker' \in [Conns -> Proxies]
          /\ link' \in [Conns -> {"idle", "up", "down"}] /\ curid' \in [Conns -> 0 .. 3]
          /\ pending' \in [Conns -> SUBSET Calls]
      BY <1>1, <1>4 DEF ConnType
    <2> QED
      BY <1>2, <1>4, <1>5, <1>8, <2>1, <2>2 DEF ConnType
  <1>10. Waiting'
    <2> SUFFICES ASSUME NEW j \in Conns, NEW c \in pending[j]
                 PROVE  /\ c.proxy \notin gone => Underway(j, c.proxy, c.id)'
                        /\ j \in 1 .. made
                        /\ \A d \in pending[j] : d = c
      BY <1>4 DEF Waiting
    <2>1. /\ c.proxy \notin gone => Underway(j, c.proxy, c.id)
          /\ j \in 1 .. made /\ \A d \in pending[j] : d = c
      BY <1>1 DEF Waiting
    <2>2. c.proxy \in Proxies /\ j # k
      BY <1>1, <1>2 DEF ConnType, Calls
    <2> QED
      BY <1>6, <2>1, <2>2
  <1>11. Mine' /\ Stages'
    BY <1>1, <1>4 DEF Mine, Stages
  <1>12. Unmade'
    <2>1. \A j \in Conns : j > made => j # k
      BY <1>1, <1>3, Making
    <2> QED
      BY <1>1, <1>4, <1>5, <2>1 DEF Unmade
  <1>13. LossIsOwn'
    BY <1>1, <1>4 DEF LossIsOwn
  <1>14. ReportedOnce'
    <2> SUFFICES ASSUME NEW j \in 1 .. made
                 PROVE  /\ Len(told'[j]) <= 1
                        /\ told'[j] = <<"ok">> => link[j] # "idle" /\ j \notin token' \cup wanted'
                        /\ told'[j] = <<"error">> => link[j] = "down" \/ state'[j] = "Disconnected"
      BY <1>4 DEF ReportedOnce
    <2>1. j \in Conns
      BY <1>1, Making
    <2>2. CASE j = k
      <3>1. Len(<<what>>) = 1 /\ (<<what>> = <<"ok">> => what = "ok")
            /\ (<<what>> = <<"error">> => what = "error")
        OBVIOUS
      <3>2. k \notin token' \cup wanted'
        BY <1>4
      <3>3. what = "error" => s = "Disconnected"
        OBVIOUS
      <3>4. told'[j] = <<what>> /\ state'[j] = s /\ link[j] # "idle" /\ j \notin token' \cup wanted'
        BY <1>2, <1>5, <2>2, <3>2
      <3> QED
        BY <3>1, <3>3, <3>4
    <2>3. CASE j # k
      BY <1>1, <1>4, <1>5, <2>1, <2>3 DEF ReportedOnce
    <2> QED
      BY <2>2, <2>3
  <1> QED
    BY <1>2, <1>4, <1>7, <1>9, <1>10, <1>11, <1>12, <1>13, <1>14 DEF PatientInv

\* The chain goes on with one call more.
LEMMA CallNextKeeps ==
  ASSUME PatientInv, NEW e, e = Head(queue), queue # <<>>, e.ev = "answer", queue' = Rest,
         NEW k, k = conn[e.proxy], NEW ev \in {"answer", "selected"}, CallNext(e.proxy, e.id, ev),
         \/ k \in token /\ token' = token \ {k} /\ wanted' = wanted
         \/ k \notin token /\ k \in wanted /\ wanted' = wanted \ {k} /\ token' = token,
         UNCHANGED <<holders, made, exists, bus, freed, asked, link, maker>>
  PROVE  PatientInv'
  <1>1. /\ ConnType /\ Mine /\ Waiting /\ Stages /\ Unmade /\ LossIsOwn /\ ReportedOnce
    BY DEF PatientInv
  <1>2. /\ Rest \in Seq(Posted) /\ OnceEach(Rest) /\ \A f \in ToSet(Rest) : Timely(f) /\ f \in Posted
        /\ \A f \in ToSet(Rest) : InChain(f) => f.of # k
        /\ e.proxy \in Proxies /\ e.proxy \notin gone /\ k \in Conns
        /\ Underway(k, e.proxy, e.id) /\ link[k] # "idle" /\ pending[k] = {}
    BY Reading, InPosted DEF Timely, InChain
  <1>3. /\ k \in 1 .. made /\ maker[k] = e.proxy /\ e.id \in Ids /\ objects[e.proxy][e.id] = k
        /\ told[k] = <<>> /\ k # 0 /\ e.id = curid[k]
    BY <1>2, ConnsAssumption DEF Underway, Conns
  <1>0. PICK n : n = curid[k] + 1
    OBVIOUS
  <1>4. /\ n \in 1 .. 3 /\ n \in Ids /\ n # e.id
        /\ k \in token' => n <= 1
        /\ k \in wanted' => n <= 2
    <2>1. curid[k] \in 0 .. 3 /\ curid[k] \in 1 .. MaxId
      BY <1>1, <1>2, <1>3 DEF ConnType, Ids
    <2>2. /\ k \in token => curid[k] <= 1
          /\ k \in wanted => curid[k] <= 2
      BY <1>1, <1>2 DEF Stages
    <2>3. /\ k \in token \/ k \in wanted
          /\ k \notin token' /\ (k \in wanted' => k \in token)
      OBVIOUS
    <2> QED
      BY <1>0, <1>3, <2>1, <2>2, <2>3 DEF Ids, MaxId
  <1>5. PICK c : c = Call(ev, e.proxy, n)
    OBVIOUS
  <1>6. c \in Calls /\ c.proxy = e.proxy /\ c.id = n
    BY <1>2, <1>4, <1>5 DEF Call, Calls
  <1>7. /\ conn' = conn /\ service' = service /\ gone' = gone /\ made' = made /\ exists' = exists
        /\ bus' = bus /\ freed' = freed /\ asked' = asked /\ maker' = maker /\ link' = link
        /\ curid' = [curid EXCEPT ![k] = n] /\ pending' = [pending EXCEPT ![k] = {c}]
        /\ state' = state /\ told' = told
        /\ objects' = [objects EXCEPT ![e.proxy][e.id] = 0, ![e.proxy][n] = k]
        /\ token' \subseteq token /\ wanted' \subseteq wanted
    BY <1>0, <1>1, <1>2, <1>3, <1>5 DEF holders, CallNext
  <1>8. /\ curid' \in [Conns -> 0 .. 3] /\ curid'[k] = n
        /\ \A j \in Conns : j # k => curid'[j] = curid[j]
        /\ pending' \in [Conns -> SUBSET Calls] /\ pending'[k] = {c}
        /\ \A j \in Conns : j # k => pending'[j] = pending[j]
    <2>1. curid \in [Conns -> 0 .. 3] /\ pending \in [Conns -> SUBSET Calls] /\ n \in 0 .. 3
      BY <1>1, <1>4 DEF ConnType
    <2>2. curid' \in [Conns -> 0 .. 3] /\ curid'[k] = n
          /\ \A j \in Conns : j # k => curid'[j] = curid[j]
      BY <1>2, <1>7, <2>1
    <2>3. pending' \in [Conns -> SUBSET Calls] /\ pending'[k] = {c}
          /\ \A j \in Conns : j # k => pending'[j] = pending[j]
      BY <1>2, <1>6, <1>7, <2>1
    <2> QED
      BY <2>2, <2>3
  <1>9. /\ objects' \in [Proxies -> [Ids -> {0} \cup Conns]] /\ objects'[e.proxy][n] = k
        /\ \A p \in Proxies : p # e.proxy => objects'[p] = objects[p]
    BY <1>1, <1>2, <1>3, <1>4, <1>7 DEF ConnType
  <1>10. ASSUME NEW j \in Conns, NEW p \in Proxies \ gone, NEW id, Underway(j, p, id), j # k
        PROVE  Underway(j, p, id)'
    <2>1. p # e.proxy
      BY <1>10 DEF Underway
    <2> QED
      BY <1>7, <1>8, <1>9, <1>10, <2>1 DEF Underway
  <1>11. Underway(k, e.proxy, n)'
    BY <1>3, <1>4, <1>7, <1>8, <1>9 DEF Underway
  <1>12. \A f \in ToSet(Rest) : Timely(f)'
    <2> SUFFICES ASSUME NEW f \in ToSet(Rest)
                 PROVE  Timely(f)'
      OBVIOUS
    <2>1. Timely(f) /\ f.of \in Conns /\ f.proxy \in Proxies /\ (InChain(f) => f.of # k)
      BY <1>2, InPosted
    <2>2. InChain(f) => f.proxy \notin gone
      BY <2>1 DEF Timely, InChain
    <2>3. InChain(f) => Underway(f.of, f.proxy, f.id)'
      BY <1>10, <2>1, <2>2 DEF Timely
    <2> QED
      BY <1>7, <1>8, <2>1, <2>3 DEF Timely
  <1>13. FreedInv'
    BY <1>1, <1>7, FreedFrame DEF ConnType
  <1>14. ConnType'
    BY <1>1, <1>2, <1>7, <1>8, <1>9, <1>13 DEF ConnType
  <1>15. Waiting'
    <2> SUFFICES ASSUME NEW j \in Conns, NEW d \in pending'[j]
                 PROVE  /\ d.proxy \notin gone => Underway(j, d.proxy, d.id)'
                        /\ j \in 1 .. made
                        /\ \A b \in pending'[j] : b = d
      BY <1>7 DEF Waiting
    <2>1. CASE j = k
      BY <1>3, <1>6, <1>8, <1>11, <2>1
    <2>2. CASE j # k
      <3>1. d \in pending[j] /\ d.proxy \in Proxies
        BY <1>1, <1>8, <2>2 DEF ConnType, Calls
      <3> QED
        BY <1>1, <1>8, <1>10, <2>2, <3>1 DEF Waiting
    <2> QED
      BY <2>1, <2>2
  <1>16. Mine' /\ Unmade' /\ LossIsOwn'
    BY <1>1, <1>7 DEF Mine, Unmade, LossIsOwn
  <1>17. Stages'
    BY <1>1, <1>4, <1>7, <1>8 DEF Stages
  <1>18. ReportedOnce'
    BY <1>1, <1>7 DEF ReportedOnce
  <1> QED
    BY <1>2, <1>7, <1>12, <1>14, <1>15, <1>16, <1>17, <1>18 DEF PatientInv

LEMMA ConnectCompletedKeeps ==
  ASSUME PatientInv, ConnectCompleted
  PROVE  PatientInv'
  <1>1. PICK e : e = Head(queue)
    OBVIOUS
  <1>2. PICK k : k = conn[e.proxy]
    OBVIOUS
  <1>3. /\ queue # <<>> /\ e.ev = "answer" /\ queue' = Rest
        /\ UNCHANGED <<holders, made, exists, bus, freed, asked, link, maker>>
    BY <1>1 DEF ConnectCompleted, Arrives
  <1>4. \/ CompletedWith(e.proxy, e.id, "error", "Disconnected")
        \/ /\ k \in token /\ token' = token \ {k} /\ wanted' = wanted
           /\ CallNext(e.proxy, e.id, "answer")
        \/ /\ k \notin token /\ k \in wanted /\ wanted' = wanted \ {k} /\ token' = token
           /\ CallNext(e.proxy, e.id, "selected")
        \/ k \notin token \cup wanted /\ CompletedWith(e.proxy, e.id, "ok", "Connected")
    BY <1>1, <1>2 DEF ConnectCompleted
  <1> QED
    BY <1>1, <1>2, <1>3, <1>4, CompletedKeeps, CallNextKeeps
-----------------------------------------------------------------------------
(* Pointers move.                                                           *)

LEMMA Rebound ==
  ASSUME NEW STATE c, NEW STATE s, NEW STATE live, NEW STATE b,
         NEW STATE q, q \in Seq(Posted), OnceEach(q), Rebind(c, s, live, b, q)
  PROVE  /\ conn' = c /\ service' = s
         /\ \A k : k \in exists' <=> k \in live /\ Held(c, s, k)
         /\ \A k : k \in bus' <=> k \in b /\ (k \in live => Held(c, s, k))
         /\ queue' \in Seq(Posted) /\ OnceEach(queue')
         /\ \A e \in ToSet(queue') :
              e \in ToSet(q) /\ (e.ev = "hop" /\ e.of \in live => Held(c, s, e.of))
  <1> DEFINE lost == {k \in live : ~Held(c, s, k)}
             K == {i \in DOMAIN q : ~(q[i].ev = "hop" /\ q[i].of \in lost)}
  <1>1. /\ conn' = c /\ service' = s /\ exists' = live \ lost /\ bus' = b \ lost
        /\ queue' = At(q, K)
    BY DEF Rebind, Only
  <1>2. /\ queue' \in Seq(Posted) /\ OnceEach(queue')
        /\ \A e \in ToSet(queue') : \E i \in K : e = q[i]
    BY <1>1, LeftPosted
  <1>3. \A e \in ToSet(queue') :
          e \in ToSet(q) /\ (e.ev = "hop" /\ e.of \in live => Held(c, s, e.of))
    BY <1>2, Members
  <1> QED
    BY <1>1, <1>2, <1>3

LEMMA Existing ==
  ASSUME ConnType, NEW k \in exists
  PROVE  k \in 1 .. made /\ k \in Conns /\ k # 0
  <1>1. k \in 1 .. made /\ k \in Conns /\ made \in Nat
    BY Making
  <1> QED
    BY <1>1

\* A proxy changes the service it holds for that of its own connection or none:
\* nothing is lost.
LEMMA HandsMove ==
  ASSUME PatientInv, NEW STATE s, s \in [Proxies -> 0 .. made],
         \A p \in Proxies \ gone : s[p] \in {0, conn[p]},
         NEW STATE q, q \in Seq(Posted), OnceEach(q), \A e \in ToSet(q) : Timely(e),
         Rebind(conn, s, exists, bus, q),
         UNCHANGED <<gone, made, state, asked, link, maker, curid, pending, token, wanted,
                     objects, told>>
  PROVE  PatientInv'
  <1>1. /\ ConnType /\ Mine /\ Waiting /\ Stages /\ Unmade /\ LossIsOwn /\ ReportedOnce
    BY DEF PatientInv
  <1>2. \A k \in exists : Held(conn, s, k)
    <2> SUFFICES ASSUME NEW k \in exists
                 PROVE  Held(conn, s, k)
      OBVIOUS
    <2>1. maker[k] \in Proxies \ gone /\ conn[maker[k]] = k
      BY <1>1, Existing DEF Mine, ConnType
    <2> QED
      BY <2>1 DEF Held
  <1>3. /\ conn' = conn /\ service' = s /\ queue' \in Seq(Posted) /\ OnceEach(queue')
        /\ \A e \in ToSet(queue') : e \in ToSet(q)
        /\ exists' = exists /\ bus' = bus
    <2>1. /\ conn' = conn /\ service' = s
          /\ \A k : k \in exists' <=> k \in exists /\ Held(conn, s, k)
          /\ \A k : k \in bus' <=> k \in bus /\ (k \in exists => Held(conn, s, k))
          /\ queue' \in Seq(Posted) /\ OnceEach(queue')
          /\ \A e \in ToSet(queue') : e \in ToSet(q)
      BY Rebound
    <2> QED
      BY <1>2, <2>1
  <1>4. /\ gone' = gone /\ made' = made /\ state' = state /\ asked' = asked /\ link' = link
        /\ maker' = maker /\ curid' = curid /\ pending' = pending /\ token' = token
        /\ wanted' = wanted /\ objects' = objects /\ told' = told
    OBVIOUS
  <1>5. \A j, p, id : Underway(j, p, id)' <=> Underway(j, p, id)
    BY <1>3, <1>4 DEF Underway
  <1>6. \A e : Timely(e)' <=> Timely(e)
    BY <1>3, <1>4, <1>5 DEF Timely
  <1>7. FreedInv'
    BY <1>1, <1>4, HandsFreed DEF ConnType
  <1>8. ConnType'
    BY <1>1, <1>3, <1>4, <1>7 DEF ConnType
  <1>9. Waiting'
    BY <1>1, <1>4, <1>5 DEF Waiting
  <1>10. Mine'
    BY <1>1, <1>3, <1>4 DEF Mine
  <1>11. Stages' /\ Unmade' /\ LossIsOwn' /\ ReportedOnce'
    BY <1>1, <1>3, <1>4 DEF Stages, Unmade, LossIsOwn, ReportedOnce
  <1> QED
    BY <1>3, <1>6, <1>8, <1>9, <1>10, <1>11 DEF PatientInv

LEMMA ServiceKeeps ==
  ASSUME PatientInv, NEW p \in Proxies, SelectService(p) \/ DeselectService(p)
  PROVE  PatientInv'
  <1>1. /\ ConnType /\ Mine /\ queue \in Seq(Posted) /\ OnceEach(queue)
        /\ \A e \in ToSet(queue) : Timely(e)
    BY DEF PatientInv, ConnType
  <1>2. UNCHANGED <<gone, made, state, asked, link, maker, curid, pending, token, wanted,
                    objects, told>>
    BY DEF SelectService, DeselectService
  <1>3. PICK v \in {0, conn[p]} : Rebind(conn, [service EXCEPT ![p] = v], exists, bus, queue)
    BY DEF SelectService, DeselectService
  <1> DEFINE s == [service EXCEPT ![p] = v]
  <1>4. s \in [Proxies -> 0 .. made] /\ \A r \in Proxies \ gone : s[r] \in {0, conn[r]}
    BY <1>1 DEF ConnType, FreedInv, Mine
  <1>5. Rebind(conn, s, exists, bus, queue)
    BY <1>3
  <1> HIDE DEF s
  <1> QED
    BY <1>1, <1>2, <1>4, <1>5, HandsMove

LEMMA SelectServiceCompletedKeeps ==
  ASSUME PatientInv, SelectServiceCompleted
  PROVE  PatientInv'
  <1>1. PICK e, k, ok, f : /\ e = Head(queue) /\ k = conn[e.proxy] /\ ok = (e.ok /\ k \in bus)
                           /\ f = [e EXCEPT !.ev = "answer", !.ok = ok]
    OBVIOUS
  <1>2. /\ queue # <<>> /\ e.ev = "selected"
        /\ UNCHANGED <<gone, made, state, asked, link, maker, curid, pending, token, wanted,
                       objects, told>>
    BY <1>1 DEF SelectServiceCompleted, Arrives
  <1>3. /\ ConnType /\ Mine /\ e \in Posted /\ Timely(e) /\ InChain(e) /\ e.proxy \in Proxies
        /\ Rest \in Seq(Posted) /\ OnceEach(Rest) /\ \A g \in ToSet(Rest) : Timely(g)
        /\ \A g \in ToSet(Rest) : InChain(g) => g.of # e.of
    BY <1>1, <1>2, Reading DEF PatientInv, InChain
  <1>4. /\ f \in Posted /\ f.ev = "answer" /\ f.of = e.of /\ f.proxy = e.proxy /\ f.id = e.id
        /\ InChain(f)
    <2>1. ok \in BOOLEAN
      BY <1>1, <1>3 DEF Posted
    <2> QED
      BY <1>1, <1>3, <2>1 DEF Posted, InChain
  <1>5. Timely(f)
    BY <1>3, <1>4, <1>2 DEF Timely, InChain
  <1> DEFINE q == Append(Rest, f)
  <1>6. q \in Seq(Posted) /\ OnceEach(q) /\ \A g \in ToSet(q) : Timely(g)
    <2>1. PICK w : w = <<f>>
      OBVIOUS
    <2>2. w \in Seq(Posted) /\ OnceEach(w) /\ ToSet(w) = {f} /\ q = Rest \o w
      BY <1>3, <1>4, <2>1, OnePosted
    <2>3. \A g \in ToSet(Rest), h \in ToSet(w) : InChain(g) /\ InChain(h) => g.of # h.of
      BY <1>3, <1>4, <2>2
    <2> HIDE DEF q
    <2> QED
      BY <1>3, <1>5, <2>2, <2>3, MorePosted
  <1>7. PICK v \in {service[e.proxy], k} :
             Rebind(conn, [service EXCEPT ![e.proxy] = v], exists, bus, q)
    BY <1>1 DEF SelectServiceCompleted
  <1> DEFINE s == [service EXCEPT ![e.proxy] = v]
  <1>8. s \in [Proxies -> 0 .. made] /\ \A r \in Proxies \ gone : s[r] \in {0, conn[r]}
    BY <1>1, <1>3, <1>7 DEF ConnType, FreedInv, Mine
  <1>9. Rebind(conn, s, exists, bus, q)
    BY <1>7
  <1> HIDE DEF s, q
  <1> QED
    BY <1>2, <1>6, <1>8, <1>9, HandsMove

\* A proxy lets go of its connection, and with it of what was posted about that.
LEMMA LetGo ==
  ASSUME PatientInv, NEW p \in Proxies, p \notin gone, NEW STATE q,
         Rebind([conn EXCEPT ![p] = 0], [service EXCEPT ![p] = 0], exists, bus, q),
         q \in Seq(Posted), OnceEach(q),
         \A e \in ToSet(q) : e \in ToSet(queue) /\ (e.ev = "hop" \/ e.proxy # p),
         \/ gone' = gone \cup {p}
         \/ gone' = gone /\ \A k \in Conns : pending[k] = {},
         UNCHANGED <<made, state, asked, link, maker, curid, pending, token, wanted, objects,
                     told>>
  PROVE  PatientInv'
  <1> DEFINE c == [conn EXCEPT ![p] = 0]
             s == [service EXCEPT ![p] = 0]
  <1>1. /\ ConnType /\ Mine /\ Waiting /\ Stages /\ Unmade /\ LossIsOwn /\ ReportedOnce
        /\ queue \in Seq(Posted) /\ OnceEach(queue) /\ \A e \in ToSet(queue) : Timely(e)
    BY DEF PatientInv, ConnType
  <1>2. /\ Rebind(c, s, exists, bus, q) /\ gone' \in {gone, gone \cup {p}}
        /\ made' = made /\ state' = state /\ asked' = asked /\ link' = link
        /\ maker' = maker /\ curid' = curid /\ pending' = pending /\ token' = token
        /\ wanted' = wanted /\ objects' = objects /\ told' = told
    OBVIOUS
  <1>3. /\ q \in Seq(Posted) /\ OnceEach(q)
        /\ \A e \in ToSet(q) : e \in ToSet(queue) /\ (e.ev = "hop" \/ e.proxy # p)
    OBVIOUS
  <1>4. /\ c \in [Proxies -> 0 .. made] /\ s \in [Proxies -> 0 .. made]
        /\ c[p] = 0 /\ s[p] = 0
        /\ \A r \in Proxies : r # p => c[r] = conn[r] /\ s[r] = service[r]
    BY <1>1 DEF ConnType, FreedInv
  <1> HIDE DEF c, s
  <1>5. /\ conn' = c /\ service' = s
        /\ \A k : k \in exists' <=> k \in exists /\ Held(c, s, k)
        /\ \A k : k \in bus' <=> k \in bus /\ (k \in exists => Held(c, s, k))
        /\ queue' \in Seq(Posted) /\ OnceEach(queue')
        /\ \A e \in ToSet(queue') :
             e \in ToSet(q) /\ (e.ev = "hop" /\ e.of \in exists => Held(c, s, e.of))
    BY <1>2, <1>3, Rebound
  <1>6. \A k \in exists : k \in 1 .. made /\ k \in Conns /\ k # 0
    BY <1>1, Existing
  <1>7. Mine'
    <2>1. ASSUME NEW r \in Proxies \ gone, r # p
          PROVE  /\ service'[r] \in {0, conn'[r]}
                 /\ conn'[r] # 0 => conn'[r] \in exists' /\ maker[conn'[r]] = r
      <3>1. /\ service[r] \in {0, conn[r]} /\ conn'[r] = conn[r] /\ service'[r] = service[r]
            /\ conn[r] # 0 => conn[r] \in exists /\ maker[conn[r]] = r
        BY <1>1, <1>4, <1>5, <2>1 DEF Mine
      <3>2. Held(c, s, conn[r])
        BY <1>5, <2>1, <3>1 DEF Held
      <3> QED
        BY <1>5, <3>1, <3>2
    <2>2. service'[p] = 0 /\ conn'[p] = 0
      BY <1>4, <1>5
    <2>3. ASSUME NEW k \in exists'
          PROVE  maker[k] \notin gone' /\ conn'[maker[k]] = k
      <3>1. k \in exists /\ Held(c, s, k) /\ k # 0
        BY <1>5, <1>6, <2>3
      <3>2. PICK r \in Proxies \ gone : c[r] = k \/ s[r] = k
        BY <3>1 DEF Held
      <3>3. r # p
        BY <1>4, <3>1, <3>2
      <3>4. conn[r] = k
        BY <1>1, <1>4, <3>1, <3>2, <3>3 DEF Mine
      <3>5. maker[k] = r
        BY <1>1, <3>1, <3>4 DEF Mine
      <3> QED
        BY <1>2, <1>4, <1>5, <3>3, <3>4, <3>5
    <2> QED
      BY <1>2, <2>1, <2>2, <2>3 DEF Mine
  <1>8. ASSUME NEW j, NEW r \in Proxies, r # p, NEW id, Underway(j, r, id)
        PROVE  Underway(j, r, id)'
    BY <1>2, <1>4, <1>5, <1>8 DEF Underway
  <1>9. \A e \in ToSet(queue') : Timely(e)'
    <2> SUFFICES ASSUME NEW e \in ToSet(queue')
                 PROVE  Timely(e)'
      OBVIOUS
    <2>1. /\ e \in ToSet(queue) /\ Timely(e) /\ e.proxy \in Proxies /\ (e.ev = "hop" \/ e.proxy # p)
          /\ e.ev = "hop" /\ e.of \in exists => Held(c, s, e.of)
      BY <1>1, <1>3, <1>5, InPosted
    <2>2. CASE e.ev = "hop"
      BY <1>2, <1>5, <2>1, <2>2 DEF Timely, InChain
    <2>3. CASE e.ev # "hop"
      <3>1. e.proxy # p /\ conn'[e.proxy] = conn[e.proxy]
        BY <1>4, <1>5, <2>1, <2>3
      <3> QED
        BY <1>2, <1>8, <2>1, <2>3, <3>1 DEF Timely
    <2> QED
      BY <2>2, <2>3
  <1>10. ConnType'
    <2>1. FreedInv'
      BY <1>1, <1>2, HandsFreed DEF ConnType
    <2> QED
      BY <1>1, <1>2, <1>4, <1>5, <2>1 DEF ConnType
  <1>11. Waiting'
    <2> SUFFICES ASSUME NEW j \in Conns, NEW d \in pending[j]
                 PROVE  /\ d.proxy \notin gone' => Underway(j, d.proxy, d.id)'
                        /\ j \in 1 .. made
                        /\ \A b \in pending[j] : b = d
      BY <1>2 DEF Waiting
    <2>1. d.proxy \in Proxies
      BY <1>1 DEF ConnType, Calls
    <2> QED
      BY <1>1, <1>2, <1>8, <2>1 DEF Waiting
  <1>12. Stages' /\ Unmade'
    BY <1>1, <1>2 DEF Stages, Unmade
  <1>13. LossIsOwn'
    BY <1>1, <1>2, <1>5 DEF LossIsOwn
  <1>14. ReportedOnce'
    BY <1>1, <1>2 DEF ReportedOnce
  <1> QED
    BY <1>5, <1>7, <1>9, <1>10, <1>11, <1>12, <1>13, <1>14 DEF PatientInv

\* A proxy goes, with what was posted to it.
LEMMA DestroyKeeps ==
  ASSUME PatientInv, NEW p \in Proxies, Destroy(p)
  PROVE  PatientInv'
  <1> DEFINE K == {i \in DOMAIN queue : queue[i].ev = "hop" \/ queue[i].proxy # p}
             q == At(queue, K)
  <1>1. queue \in Seq(Posted) /\ OnceEach(queue)
    BY DEF PatientInv, ConnType
  <1>2. /\ p \notin gone /\ gone' = gone \cup {p}
        /\ Rebind([conn EXCEPT ![p] = 0], [service EXCEPT ![p] = 0], exists, bus, q)
        /\ UNCHANGED <<made, state, asked, link, maker, curid, pending, token, wanted, objects,
                       told>>
    BY DEF Destroy, Only
  <1>3. /\ q \in Seq(Posted) /\ OnceEach(q)
        /\ \A e \in ToSet(q) : e \in ToSet(queue) /\ (e.ev = "hop" \/ e.proxy # p)
    BY <1>1, LeftPosted, Members
  <1> HIDE DEF q
  <1> QED
    BY <1>2, <1>3, LetGo

\* A connect() that is refused at once leaves the proxy without a connection.
LEMMA RefusedKeeps ==
  ASSUME PatientInv, Careful, NEW p \in Proxies, ConnectRefused(p)
  PROVE  PatientInv'
  <1>1. /\ p \notin gone /\ gone' = gone /\ queue = <<>> /\ service[p] = 0
        /\ \A k \in Conns : pending[k] = {}
        /\ Rebind([conn EXCEPT ![p] = 0], service, exists, bus, queue)
        /\ UNCHANGED <<made, state, asked, link, maker, curid, pending, token, wanted, objects,
                       told>>
    BY DEF ConnectRefused, Careful, Quiet
  <1>2. service = [service EXCEPT ![p] = 0]
    BY <1>1 DEF PatientInv, ConnType
  <1>3. Rebind([conn EXCEPT ![p] = 0], [service EXCEPT ![p] = 0], exists, bus, queue)
    BY <1>1, <1>2
  <1>4. queue \in Seq(Posted) /\ OnceEach(queue) /\ ToSet(queue) = {}
    BY <1>1, NonePosted
  <1> QED
    BY <1>1, <1>3, <1>4, LetGo
-----------------------------------------------------------------------------
(* connect(), and all together.                                             *)

LEMMA InitPatient == Init => PatientInv
  <1> SUFFICES ASSUME Init PROVE PatientInv
    OBVIOUS
  <1>1. FreedInv
    BY InitFreed
  <1>2. maker \in [Conns -> Proxies]
    <2>1. (CHOOSE p \in Proxies : TRUE) \in Proxies
      BY ProxiesAssumption
    <2> QED
      BY <2>1 DEF Init
  <1>3. ConnType
    <2>1. made = 0 /\ 0 \in 0 .. made
      BY DEF Init
    <2> QED
      BY <1>1, <1>2, <2>1, NonePosted DEF Init, ConnType
  <1>4. /\ OnceEach(queue) /\ \A e \in ToSet(queue) : Timely(e)
    BY NonePosted DEF Init
  <1>5. Mine /\ Waiting /\ Stages /\ Unmade
    BY DEF Init, Mine, Waiting, Stages, Unmade
  <1>6. LossIsOwn /\ ReportedOnce
    BY DEF Init, LossIsOwn, ReportedOnce
  <1> QED
    BY <1>3, <1>4, <1>5, <1>6 DEF PatientInv

\* A proxy that has nothing under way leaves its connection for a new one: the
\* old one is destroyed, as no other proxy points to it.
LEMMA ConnectKeeps ==
  ASSUME PatientInv, Careful, NEW p \in Proxies, NEW k \in Conns, NEW s \in {service[p], k},
         NEW STATE q, Connect(p, k, s, q), q \in Seq(Posted), OnceEach(q),
         NEW l \in {"idle", "up", "down"}, link' = [link EXCEPT ![k] = l],
         \A e \in ToSet(q) : e.ev = "hop" /\ e.of = k /\ l = "down",
         NEW t \in {"Disconnected", "Connecting", "Connected"}, state' = [state EXCEPT ![k] = t],
         NEW w \in {<<>>} \cup {<<v>> : v \in Words}, told' = [told EXCEPT ![k] = w],
         w = <<"ok">> => l = "up" /\ token' = token /\ wanted' = wanted,
         w = <<"error">> => l = "down" \/ t = "Disconnected",
         \/ UNCHANGED <<curid, pending, token, wanted, objects>>
         \/ /\ w = <<>>
            /\ curid' = [curid EXCEPT ![k] = 1]
            /\ pending' = [pending EXCEPT ![k] = {Call("answer", p, 1)}]
            /\ token' = token \cup {k}
            /\ wanted' \in {wanted, wanted \cup {k}}
            /\ objects' = [objects EXCEPT ![p][1] = k],
         UNCHANGED <<gone, asked>>
  PROVE  PatientInv'
  <1> DEFINE c == [conn EXCEPT ![p] = k]
             d == [service EXCEPT ![p] = s]
             live == exists \cup {k}
             b == bus \cup {k}
  <1>1. /\ ConnType /\ Mine /\ Stages /\ Unmade /\ LossIsOwn /\ ReportedOnce
    BY DEF PatientInv
  <1>2. /\ p \notin gone /\ Quiet /\ service[p] = 0 /\ k = made + 1 /\ made' = k
        /\ maker' = [maker EXCEPT ![k] = p] /\ Rebind(c, d, live, b, q)
    BY DEF Connect, Careful
  <1>3. /\ made \in Nat /\ made' \in 0 .. MaxConns /\ k # 0 /\ k \notin 1 .. made /\ k \in 1 .. made'
        /\ 1 .. made \subseteq 1 .. made' /\ 0 .. made \subseteq 0 .. made' /\ k \in 0 .. made'
        /\ k \notin 0 .. made /\ 1 .. made' = 1 .. made \cup {k} /\ k > made
        /\ \A j \in Conns : j > made' => j > made /\ j # k
    <2>1. made \in Nat /\ MaxConns \in Nat /\ Conns = 1 .. MaxConns /\ k = made + 1 /\ made' = k
      BY <1>1, <1>2, Making
    <2> QED
      BY <2>1
  <1>4. /\ exists \subseteq 1 .. made /\ exists \subseteq Conns /\ bus \subseteq exists
        /\ link[k] = "idle" /\ told[k] = <<>> /\ 1 .. made \subseteq Conns
    <2>1. 1 .. made \subseteq Conns /\ exists \subseteq 1 .. made /\ bus \subseteq exists
      BY <1>1, Making
    <2>2. link[k] = "idle" /\ told[k] = <<>>
      BY <1>1, <1>3 DEF Unmade
    <2> QED
      BY <2>1, <2>2
  <1>5. /\ c \in [Proxies -> 0 .. made'] /\ d \in [Proxies -> 0 .. made']
        /\ c[p] = k /\ d[p] \in {0, k}
        /\ \A r \in Proxies : r # p => c[r] = conn[r] /\ d[r] = service[r]
    BY <1>1, <1>2, <1>3 DEF ConnType
  <1>6. Held(c, d, k)
    BY <1>2, <1>5 DEF Held
  <1> HIDE DEF c, d
  <1>7. /\ conn' = c /\ service' = d
        /\ \A j : j \in exists' <=> j \in live /\ Held(c, d, j)
        /\ \A j : j \in bus' <=> j \in b /\ (j \in live => Held(c, d, j))
        /\ queue' \in Seq(Posted) /\ OnceEach(queue')
        /\ \A e \in ToSet(queue') : e \in ToSet(q)
    <2> HIDE DEF live, b
    <2> QED
      BY <1>2, Rebound
  <1>8. /\ maker' \in [Conns -> Proxies] /\ maker'[k] = p
        /\ \A j \in Conns : j # k => maker'[j] = maker[j]
        /\ link' \in [Conns -> {"idle", "up", "down"}] /\ link'[k] = l
        /\ \A j \in Conns : j # k => link'[j] = link[j]
        /\ state' \in [{0} \cup Conns -> {"Disconnected", "Connecting", "Connected"}]
        /\ state'[k] = t /\ \A j \in Conns : j # k => state'[j] = state[j]
        /\ told' \in [Conns -> {<<>>} \cup {<<v>> : v \in Words}] /\ told'[k] = w
        /\ \A j \in Conns : j # k => told'[j] = told[j]
    BY <1>1, <1>2 DEF ConnType
  <1>9. /\ curid' \in [Conns -> 0 .. 3] /\ pending' \in [Conns -> SUBSET Calls]
        /\ token' \subseteq 1 .. made' /\ wanted' \subseteq 1 .. made'
        /\ objects' \in [Proxies -> [Ids -> {0} \cup Conns]]
        /\ \A j \in Conns : j # k => pending'[j] = {} /\ curid'[j] = curid[j]
        /\ token' \subseteq token \cup {k} /\ wanted' \subseteq wanted \cup {k}
        /\ \/ pending'[k] = {} /\ token' = token /\ wanted' = wanted
           \/ /\ w = <<>> /\ curid'[k] = 1 /\ pending'[k] = {Call("answer", p, 1)}
              /\ objects'[p][1] = k
    <2>1. \A j \in Conns : pending[j] = {}
      BY <1>2 DEF Quiet
    <2>2. Call("answer", p, 1) \in Calls /\ 1 \in Ids
      BY DEF Call, Calls, Ids, MaxId
    <2>3. PICK x : x = Call("answer", p, 1)
      OBVIOUS
    <2>4. /\ curid \in [Conns -> 0 .. 3] /\ pending \in [Conns -> SUBSET Calls]
          /\ token \subseteq 1 .. made' /\ wanted \subseteq 1 .. made'
          /\ objects \in [Proxies -> [Ids -> {0} \cup Conns]]
      BY <1>1, <1>3 DEF ConnType
    <2>5. CASE UNCHANGED <<curid, pending, token, wanted, objects>>
      BY <1>3, <2>1, <2>4, <2>5
    <2>6. CASE /\ w = <<>>
               /\ curid' = [curid EXCEPT ![k] = 1] /\ pending' = [pending EXCEPT ![k] = {x}]
               /\ token' = token \cup {k} /\ wanted' \in {wanted, wanted \cup {k}}
               /\ objects' = [objects EXCEPT ![p][1] = k]
      <3>1. curid' \in [Conns -> 0 .. 3] /\ curid'[k] = 1
            /\ \A j \in Conns : j # k => curid'[j] = curid[j]
        BY <2>4, <2>6
      <3>2. pending' \in [Conns -> SUBSET Calls] /\ pending'[k] = {x}
            /\ \A j \in Conns : j # k => pending'[j] = {}
        BY <2>1, <2>2, <2>3, <2>4, <2>6
      <3>3. objects' \in [Proxies -> [Ids -> {0} \cup Conns]] /\ objects'[p][1] = k
        BY <2>2, <2>4, <2>6
      <3> QED
        BY <1>3, <2>3, <2>4, <2>6, <3>1, <3>2, <3>3
    <2> QED
      BY <2>3, <2>5, <2>6
  <1>10. FreedInv'
    BY <1>1, ConnectFreed DEF ConnType
  <1>11. ConnType'
    BY <1>1, <1>5, <1>7, <1>8, <1>9, <1>10 DEF ConnType
  <1>12. Mine'
    <2>1. ASSUME NEW r \in Proxies \ gone
          PROVE  /\ service'[r] \in {0, conn'[r]}
                 /\ conn'[r] # 0 => conn'[r] \in exists' /\ maker'[conn'[r]] = r
      <3>1. CASE r = p
        BY <1>5, <1>6, <1>7, <1>8, <3>1
      <3>2. CASE r # p
        <4>1. /\ service[r] \in {0, conn[r]} /\ conn'[r] = conn[r] /\ service'[r] = service[r]
              /\ c[r] = conn[r] /\ (conn[r] # 0 => conn[r] \in exists /\ maker[conn[r]] = r)
          BY <1>1, <1>5, <1>7, <3>2 DEF Mine
        <4>2. Held(c, d, conn[r])
          BY <4>1 DEF Held
        <4>3. conn[r] # 0 => conn[r] \in Conns /\ conn[r] # k
          BY <1>3, <1>4, <4>1
        <4> QED
          BY <1>7, <1>8, <4>1, <4>2, <4>3
      <3> QED
        BY <3>1, <3>2
    <2>2. ASSUME NEW j \in exists'
          PROVE  maker'[j] \notin gone' /\ conn'[maker'[j]] = j
      <3>1. CASE j = k
        BY <1>2, <1>5, <1>7, <1>8, <3>1
      <3>2. CASE j # k
        <4>1. j \in exists /\ Held(c, d, j) /\ j # 0 /\ j \in Conns
          BY <1>1, <1>7, <2>2, <3>2, Existing
        <4>2. PICK r \in Proxies \ gone : c[r] = j \/ d[r] = j
          BY <4>1 DEF Held
        <4>3. r # p
          BY <1>5, <3>2, <4>1, <4>2
        <4>4. conn[r] = j
          BY <1>1, <1>5, <4>1, <4>2, <4>3 DEF Mine
        <4>5. maker[j] = r
          BY <1>1, <4>1, <4>4 DEF Mine
        <4> QED
          BY <1>5, <1>7, <1>8, <3>2, <4>1, <4>3, <4>4, <4>5
      <3> QED
        BY <3>1, <3>2
    <2> QED
      BY <2>1, <2>2 DEF Mine
  <1>13. Waiting'
    <2> SUFFICES ASSUME NEW j \in Conns, NEW x \in pending'[j]
                 PROVE  /\ x.proxy \notin gone' => Underway(j, x.proxy, x.id)'
                        /\ j \in 1 .. made'
                        /\ \A y \in pending'[j] : y = x
      BY DEF Waiting
    <2>1. j = k /\ w = <<>> /\ curid'[k] = 1 /\ pending'[k] = {Call("answer", p, 1)}
          /\ objects'[p][1] = k
      BY <1>9
    <2>2. x.proxy = p /\ x.id = 1 /\ 1 \in Ids
      BY <2>1 DEF Call, Ids, MaxId
    <2>3. Underway(k, p, 1)'
      BY <1>3, <1>5, <1>7, <1>8, <2>1, <2>2 DEF Underway
    <2> QED
      BY <1>3, <2>1, <2>2, <2>3
  <1>14. \A e \in ToSet(queue') : Timely(e)'
    <2> SUFFICES ASSUME NEW e \in ToSet(queue')
                 PROVE  Timely(e)'
      OBVIOUS
    <2>1. e.ev = "hop" /\ e.of = k /\ l = "down"
      BY <1>7
    <2>2. k \in exists' /\ link'[k] = "down"
      BY <1>6, <1>7, <1>8, <2>1
    <2> QED
      BY <2>1, <2>2 DEF Timely, InChain
  <1>15. Stages'
    <2> SUFFICES ASSUME NEW j \in Conns
                 PROVE  (j \in token' => curid'[j] <= 1) /\ (j \in wanted' => curid'[j] <= 2)
      BY DEF Stages
    <2>1. CASE j # k
      BY <1>1, <1>9, <2>1 DEF Stages
    <2>2. CASE j = k
      <3>1. k \notin token /\ k \notin wanted
        BY <1>1, <1>3 DEF ConnType
      <3> QED
        BY <1>9, <2>2, <3>1
    <2> QED
      BY <2>1, <2>2
  <1>16. Unmade'
    BY <1>1, <1>3, <1>8 DEF Unmade
  <1>17. LossIsOwn'
    <2> SUFFICES ASSUME NEW j \in exists', j \notin bus', j \notin asked
                 PROVE  link'[j] = "down"
      BY DEF LossIsOwn
    <2>1. j # k /\ j \in exists /\ j \notin bus /\ j \in Conns
      BY <1>1, <1>6, <1>7, Existing
    <2> QED
      BY <1>1, <1>8, <2>1 DEF LossIsOwn
  <1>18. ReportedOnce'
    <2> SUFFICES ASSUME NEW j \in 1 .. made'
                 PROVE  /\ Len(told'[j]) <= 1
                        /\ told'[j] = <<"ok">> => link'[j] # "idle" /\ j \notin token' \cup wanted'
                        /\ told'[j] = <<"error">> => link'[j] = "down" \/ state'[j] = "Disconnected"
      BY DEF ReportedOnce
    <2>1. CASE j # k
      <3>1. j \in 1 .. made /\ j \in Conns
        BY <1>3, <1>4, <2>1
      <3>2. /\ Len(told[j]) <= 1
            /\ told[j] = <<"ok">> => link[j] # "idle" /\ j \notin token \cup wanted
            /\ told[j] = <<"error">> => link[j] = "down" \/ state[j] = "Disconnected"
        BY <1>1, <3>1 DEF ReportedOnce
      <3>3. /\ told'[j] = told[j] /\ link'[j] = link[j] /\ state'[j] = state[j]
            /\ j \notin token \cup wanted => j \notin token' \cup wanted'
        BY <1>8, <1>9, <2>1, <3>1
      <3> QED
        BY <3>2, <3>3
    <2>2. CASE j = k
      <3>1. Len(w) <= 1
        <4>1. CASE w = <<>>
          BY <4>1
        <4>2. ASSUME NEW v \in Words, w = <<v>> PROVE Len(w) <= 1
          BY <4>2
        <4> QED
          BY <4>1, <4>2
      <3>2. k \notin token /\ k \notin wanted
        BY <1>1, <1>3 DEF ConnType
      <3> QED
        BY <1>8, <2>2, <3>1, <3>2
    <2> QED
      BY <2>1, <2>2
  <1> QED
    BY <1>7, <1>11, <1>12, <1>13, <1>14, <1>15, <1>16, <1>17, <1>18 DEF PatientInv

\* A blocking connect() comes back with a connection, or with its loss.
LEMMA ConnectSyncKeeps ==
  ASSUME PatientInv, Careful, NEW p \in Proxies, NEW k \in Conns, ConnectSync(p, k)
  PROVE  PatientInv'
  <1>1. ConnType /\ told[k] = <<>> /\ k # 0 /\ queue = <<>> /\ p \in Proxies
    <2>1. ConnType /\ Unmade /\ k > made /\ k # 0
      <3>1. k = made + 1 /\ made \in 0 .. MaxConns /\ ConnType /\ Unmade
        BY DEF PatientInv, ConnType, FreedInv, ConnectSync, Connect
      <3> QED
        BY <3>1, ConnsAssumption
    <2> QED
      BY <2>1 DEF Unmade, ConnectSync, Connect, Careful, Quiet
  <1>2. \A v : Tell(k, v) => told' = [told EXCEPT ![k] = <<v>>]
    BY <1>1 DEF Tell
  <1>3. UNCHANGED <<gone, asked, curid, pending, token, wanted, objects>>
    BY DEF ConnectSync
  <1>4. \A v \in Words : <<v>> \in {<<>>} \cup {<<x>> : x \in Words}
    OBVIOUS
  <1>5. /\ "ok" \in Words /\ "unselected" \in Words /\ "error" \in Words
        /\ <<"unselected">> # <<"ok">> /\ <<"error">> # <<"ok">> /\ <<"ok">> # <<"error">>
        /\ <<"unselected">> # <<"error">>
    BY DEF Words
  <1>6. CASE /\ \E s \in {service[p], k} : Connect(p, k, s, queue)
             /\ state' = [state EXCEPT ![k] = "Connected"] /\ link' = [link EXCEPT ![k] = "up"]
             /\ Tell(k, "ok")
    <2>1. PICK s \in {service[p], k} : Connect(p, k, s, queue)
      BY <1>6
    <2>2. /\ queue \in Seq(Posted) /\ OnceEach(queue) /\ ToSet(queue) = {}
          /\ state' = [state EXCEPT ![k] = "Connected"] /\ link' = [link EXCEPT ![k] = "up"]
          /\ told' = [told EXCEPT ![k] = <<"ok">>] /\ UNCHANGED <<token, wanted>>
      BY <1>1, <1>2, <1>3, <1>6, NonePosted
    <2> QED
      BY <1>3, <1>4, <1>5, <2>1, <2>2, ConnectKeeps
  <1>7. CASE /\ Connect(p, k, service[p], queue)
             /\ state' = [state EXCEPT ![k] = "Connected"] /\ link' = [link EXCEPT ![k] = "up"]
             /\ Tell(k, "unselected")
    BY <1>1, <1>2, <1>3, <1>4, <1>5, <1>7, NonePosted, ConnectKeeps
  <1>8. CASE /\ Connect(p, k, service[p], queue)
             /\ link' \in {link, [link EXCEPT ![k] = "down"]}
             /\ state' = [state EXCEPT ![k] = "Disconnected"] /\ Tell(k, "error")
    <2>1. PICK l \in {"idle", "up", "down"} : link' = [link EXCEPT ![k] = l]
      BY <1>1, <1>8 DEF ConnType
    <2>2. /\ queue \in Seq(Posted) /\ OnceEach(queue)
          /\ \A e \in ToSet(queue) : e.ev = "hop" /\ e.of = k /\ l = "down"
      BY <1>1, NonePosted
    <2>3. told' = [told EXCEPT ![k] = <<"error">>] /\ UNCHANGED <<token, wanted>>
      BY <1>2, <1>3, <1>8
    <2> QED
      BY <1>3, <1>4, <1>5, <1>8, <2>1, <2>2, <2>3, ConnectKeeps
  <1>9. ASSUME NEW t \in {"Disconnected", "Connected"},
               Connect(p, k, service[p], Append(queue, [Hop(k) EXCEPT !.proxy = p])),
               state' = [state EXCEPT ![k] = t], link' = [link EXCEPT ![k] = "down"],
               Tell(k, "error")
        PROVE  PatientInv'
    <2>1. PICK e : e = [Hop(k) EXCEPT !.proxy = p]
      OBVIOUS
    <2>2. e \in Posted /\ e.ev = "hop" /\ e.of = k
      <3>1. Hop(k) \in Posted /\ Hop(k).ev = "hop" /\ Hop(k).of = k
        BY <1>1, HopPosted
      <3> QED
        BY <2>1, <3>1 DEF Posted
    <2>3. PICK q : q = <<e>>
      OBVIOUS
    <2>4. q = Append(queue, e)
      BY <1>1, <2>3
    <2>5. q \in Seq(Posted) /\ OnceEach(q) /\ ToSet(q) = {e}
      BY <2>2, <2>3, OnePosted
    <2>6. Connect(p, k, service[p], q)
      BY <1>9, <2>1, <2>4
    <2>7. \A f \in ToSet(q) : f.ev = "hop" /\ f.of = k
      BY <2>2, <2>5
    <2>8. told' = [told EXCEPT ![k] = <<"error">>] /\ UNCHANGED <<token, wanted>>
      BY <1>2, <1>3, <1>9
    <2> QED
      BY <1>3, <1>4, <1>5, <1>9, <2>5, <2>6, <2>7, <2>8, ConnectKeeps
  <1> QED
    BY <1>6, <1>7, <1>8, <1>9 DEF ConnectSync

\* With a receiver it begins the chain.
LEMMA ConnectAsyncKeeps ==
  ASSUME PatientInv, Careful, NEW p \in Proxies, NEW k \in Conns, ConnectAsync(p, k)
  PROVE  PatientInv'
  <1>1. ConnType /\ told[k] = <<>> /\ link[k] = "idle" /\ queue = <<>>
    <2>1. ConnType /\ Unmade /\ k > made
      <3>1. k = made + 1 /\ made \in 0 .. MaxConns /\ ConnType /\ Unmade
        BY DEF PatientInv, ConnType, FreedInv, ConnectAsync, Connect
      <3> QED
        BY <3>1, ConnsAssumption
    <2> QED
      BY <2>1 DEF Unmade, ConnectAsync, Connect, Careful, Quiet
  <1>2. link' = [link EXCEPT ![k] = "idle"] /\ told' = [told EXCEPT ![k] = <<>>]
    BY <1>1 DEF ConnectAsync, ConnType
  <1>3. <<>> # <<"ok">> /\ <<>> # <<"error">>
    OBVIOUS
  <1> QED
    BY <1>1, <1>2, <1>3, NonePosted, ConnectKeeps DEF ConnectAsync

LEMMA ApplicationKeeps ==
  ASSUME PatientInv, Careful, NEW p \in Proxies, Application(p)
  PROVE  PatientInv'
  <1>1. ASSUME NEW k \in Conns, ConnectSync(p, k) \/ ConnectAsync(p, k)
        PROVE  PatientInv'
    BY <1>1, ConnectSyncKeeps, ConnectAsyncKeeps
  <1>2. CASE SelectService(p) \/ DeselectService(p)
    BY <1>2, ServiceKeeps
  <1>3. ASSUME NEW q \in Proxies
        PROVE  ~Assign(q, p)
    BY DEF Assign, Careful
  <1>4. CASE Disconnect(p)
    BY <1>4, DisconnectKeeps
  <1>5. CASE Destroy(p)
    BY <1>5, DestroyKeeps
  <1>6. CASE ConnectRefused(p)
    BY <1>6, RefusedKeeps
  <1> QED
    BY <1>1, <1>2, <1>3, <1>4, <1>5, <1>6 DEF Application

LEMMA NextPatient == Careful /\ PatientInv /\ [Next]_vars => PatientInv'
  <1> SUFFICES ASSUME Careful, PatientInv, [Next]_vars PROVE PatientInv'
    OBVIOUS
  <1>1. ASSUME NEW p \in Proxies, Application(p) PROVE PatientInv'
    BY <1>1, ApplicationKeeps
  <1>2. ASSUME NEW k \in Conns, Protocol(k) PROVE PatientInv'
    BY <1>2, ProtocolKeeps
  <1>3. CASE EventLoop
    BY <1>3, ForwardedKeeps, DisconnectedSlotKeeps, EmittedKeeps, ConnectCompletedKeeps,
       SelectServiceCompletedKeeps DEF EventLoop
  <1>4. CASE UNCHANGED vars
    <2>1. queue \in Seq(Posted) /\ OnceEach(queue) /\ \A e \in ToSet(queue) : Timely(e)
      BY DEF PatientInv, ConnType
    <2> QED
      BY <1>4, <2>1, QueueRead DEF vars
  <1> QED
    BY <1>1, <1>2, <1>3, <1>4 DEF Next

\* When the users of the proxies let what is under way arrive before they
\* connect or disconnect, and no service is handed from one proxy to another,
\* disconnectedSlot() never tears down a connection but the one that was lost.
THEOREM LossOwn == Careful => (Spec => []LossIsOwn)
  <1>1. PatientInv => LossIsOwn
    BY DEF PatientInv
  <1> SUFFICES ASSUME Careful PROVE Spec => []LossIsOwn
    OBVIOUS
  <1>2. PatientInv /\ [Next]_vars => PatientInv'
    BY NextPatient
  <1> QED
    BY <1>1, <1>2, InitPatient, PTL DEF Spec

\* Such users are told of each connect() at most once; of success only when the
\* link was up, the token set and the service selected, and of an error only when
\* the link or the connection is down.
THEOREM ToldOnce == Careful => (Spec => []ReportedOnce)
  <1>1. PatientInv => ReportedOnce
    BY DEF PatientInv
  <1> SUFFICES ASSUME Careful PROVE Spec => []ReportedOnce
    OBVIOUS
  <1>2. PatientInv /\ [Next]_vars => PatientInv'
    BY NextPatient
  <1> QED
    BY <1>1, <1>2, InitPatient, PTL DEF Spec
=============================================================================
