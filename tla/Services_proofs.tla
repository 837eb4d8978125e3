--------------------------- MODULE Services_proofs ---------------------------
(***************************************************************************)
(* The proxies of one connection, their ServiceData and the table of the   *)
(* connection agree, and events reach the holders, for any number of       *)
(* proxies, requests and pushes.                                           *)
(***************************************************************************)
EXTENDS Services, Subsequences_proofs

Kinds        == {"version", "select", "auth", "function"}
AnswerEvents == {"get", "function"}

\* What can be posted: answers to a proxy, and the rest, to none.
Posted ==
  [ev : AnswerEvents, proxy : Proxies, id : Ids, ok : BOOLEAN, arg : 0 .. MaxGets + MaxCalls]
    \cup [ev : {"result", "event", "callback", "lost"}, proxy : {NoProxy}, id : Nat, ok : BOOLEAN,
          arg : Nat]
Chain   == [proxy : Proxies \cup {NoProxy}, step : 0 .. 3, data : Nat]
Service == [id : ServiceIds, list : Seq(Proxies), primary : Proxies \cup {NoProxy}]

ServicesType ==
  /\ bus \in BOOLEAN /\ link \in BOOLEAN /\ curid \in Nat
  /\ open \subseteq [id : Ids, kind : Kinds, proxy : Proxies]
  /\ queue \in Seq(Posted)
  /\ services \in 0 .. MaxGets + MaxCalls
  /\ chains \in [Ids -> Chain] /\ chainOf \in [Ids -> {0} \cup Ids]
  /\ service \in [Proxies -> Nat] /\ gone \subseteq Proxies
  /\ data \in Seq(Service) /\ alive \subseteq DOMAIN data
  /\ table \in [ServiceIds -> Nat]
  /\ inside \in [id : Nat, of : Nat, rest : Seq(Proxies)]
  /\ owed \in [Ids -> Int]

\* The answers in a queue, and that there is one at most for each call.
Asks(q) == {q[i] : i \in {j \in DOMAIN q : q[j].ev \in AnswerEvents}}
OnceEach(q) ==
  \A i, j \in DOMAIN q :
    q[i].ev \in AnswerEvents /\ q[j].ev \in AnswerEvents /\ q[i].id = q[j].id => i = j

\* A call is open or answered, once, and has an id that was given out.
IdsApart ==
  /\ \A c, d \in open : c.id = d.id => c = d
  /\ OnceEach(queue)
  /\ \A c \in open, e \in Asks(queue) : c.id # e.id
GivenOut ==
  /\ \A c \in open : c.id <= curid
  /\ \A e \in Asks(queue) : e.id <= curid /\ e.proxy \notin gone
  /\ \A id \in Ids : id > curid => chains[id] = NoChain /\ chainOf[id] = 0 /\ owed[id] = 0

\* It is one of a getService() of its proxy, or a function; either is owed.
ChainCall(a) ==
  /\ chainOf[a.id] \in Ids
  /\ chains[chainOf[a.id]].proxy = a.proxy
  /\ owed[chainOf[a.id]] = 1
FunctionCall(a) == chainOf[a.id] = 0 /\ chains[a.id] = NoChain /\ owed[a.id] = 1
Owned ==
  /\ \A c \in open : c.proxy \notin gone => IF c.kind = "function" THEN FunctionCall(c) ELSE ChainCall(c)
  /\ \A e \in Asks(queue) : IF e.ev = "function" THEN FunctionCall(e) ELSE ChainCall(e)
  /\ \A a \in open \cup Asks(queue) : chains[a.id] # NoChain => chains[a.id].proxy = a.proxy

\* A getService() waits for one call, of those that are open or answered.
ChainIds == {c.id : c \in {d \in open : d.kind # "function" /\ d.proxy \notin gone}}
              \cup {e.id : e \in {d \in Asks(queue) : d.ev = "get"}}
Chained ==
  /\ \A i, j \in Ids : chainOf[i] # 0 /\ chainOf[i] = chainOf[j] => i = j
  /\ \A i \in Ids : chainOf[i] # 0 => i \in ChainIds
  /\ \A id \in Ids : owed[id] \in {0, 1}
  /\ bus => \A f \in Ids : chains[f] # NoChain => owed[f] = 1 /\ \E i \in Ids : chainOf[i] = f

Awaiting == IdsApart /\ GivenOut /\ Owned /\ Chained

\* All pointers lead to a ServiceData that is alive, and events name services
\* the server has handed out.
Pointing ==
  /\ \A p \in Proxies : service[p] \in {0} \cup alive /\ (p \in gone => service[p] = 0)
  /\ \A id \in Ids : chains[id].data \in {0} \cup alive
  /\ \A k \in alive : data[k].id <= services
  /\ \A e \in ToSet(queue) :
       /\ e.ev = "result" => e.arg \in {0} \cup alive
       /\ e.ev \in AnswerEvents => e.arg <= services
       /\ e.ev \in {"event", "callback"} => e.arg \in 1 .. services

ServicesInv == ServicesType /\ Awaiting /\ Pointing /\ DataAgree /\ RoutedToHolders
-----------------------------------------------------------------------------
(* Queues.                                                                  *)

\* Each answer in a queue is at some place in it.
LEMMA AsksPlace ==
  ASSUME NEW q, NEW e
  PROVE  /\ e \in Asks(q) <=> \E i \in DOMAIN q : q[i] = e /\ e.ev \in AnswerEvents
         /\ e \in ToSet(q) <=> \E i \in DOMAIN q : q[i] = e
  BY DEF Asks, ToSet

\* The head is taken.
LEMMA TailAsks ==
  ASSUME NEW q \in Seq(Posted), q # <<>>
  PROVE  /\ Head(q) \in Posted /\ Tail(q) \in Seq(Posted)
         /\ Head(q) \in ToSet(q) /\ ToSet(Tail(q)) \subseteq ToSet(q)
         /\ Head(q).ev \in AnswerEvents => Head(q) \in Asks(q)
         /\ OnceEach(q) =>
              /\ OnceEach(Tail(q))
              /\ Asks(Tail(q)) = IF Head(q).ev \in AnswerEvents THEN Asks(q) \ {Head(q)} ELSE Asks(q)
              /\ Head(q).ev \in AnswerEvents => \A e \in Asks(Tail(q)) : e.id # Head(q).id
  <1>1. /\ Tail(q) \in Seq(Posted) /\ Head(q) \in Posted
        /\ 1 \in DOMAIN q /\ Head(q) = q[1]
        /\ \A i \in DOMAIN Tail(q) : i \in Nat /\ i # 0 /\ i + 1 \in DOMAIN q /\ Tail(q)[i] = q[i + 1]
        /\ \A i \in DOMAIN q : i # 1 => i - 1 \in DOMAIN Tail(q) /\ Tail(q)[i - 1] = q[i]
    OBVIOUS
  <1>2. Head(q) \in ToSet(q) /\ (Head(q).ev \in AnswerEvents => Head(q) \in Asks(q))
    BY <1>1, AsksPlace
  <1>3. ToSet(Tail(q)) \subseteq ToSet(q) /\ Asks(Tail(q)) \subseteq Asks(q)
    BY <1>1 DEF ToSet, Asks
  <1>4. ASSUME OnceEach(q)
        PROVE  /\ OnceEach(Tail(q))
               /\ Asks(Tail(q)) = IF Head(q).ev \in AnswerEvents THEN Asks(q) \ {Head(q)} ELSE Asks(q)
               /\ Head(q).ev \in AnswerEvents => \A e \in Asks(Tail(q)) : e.id # Head(q).id
    <2>1. OnceEach(Tail(q))
      BY <1>1, <1>4 DEF OnceEach
    <2>2. ASSUME Head(q).ev \in AnswerEvents, NEW e \in Asks(Tail(q)) PROVE e.id # Head(q).id
      <3>1. PICK i \in DOMAIN Tail(q) : Tail(q)[i] = e /\ e.ev \in AnswerEvents
        BY AsksPlace
      <3>2. i + 1 \in DOMAIN q /\ q[i + 1] = e /\ i + 1 # 1
        BY <1>1, <3>1
      <3> QED
        BY <1>1, <1>4, <2>2, <3>1, <3>2 DEF OnceEach
    <2>3. ASSUME NEW e \in Asks(q), e # Head(q) PROVE e \in Asks(Tail(q))
      <3>1. PICK i \in DOMAIN q : q[i] = e /\ e.ev \in AnswerEvents
        BY AsksPlace
      <3>2. i - 1 \in DOMAIN Tail(q) /\ Tail(q)[i - 1] = e
        BY <1>1, <2>3, <3>1
      <3> QED
        BY <3>1, <3>2, AsksPlace
    <2>4. Head(q).ev \notin AnswerEvents => Head(q) \notin Asks(q)
      BY AsksPlace
    <2> QED
      BY <1>3, <2>1, <2>2, <2>3, <2>4
  <1> QED
    BY <1>1, <1>2, <1>3, <1>4

\* An event is appended: one that is no answer, or the first to its call.
LEMMA AppendAsks ==
  ASSUME NEW q \in Seq(Posted), NEW e \in Posted
  PROVE  /\ Append(q, e) \in Seq(Posted)
         /\ ToSet(Append(q, e)) = ToSet(q) \cup {e}
         /\ Asks(Append(q, e)) = IF e.ev \in AnswerEvents THEN Asks(q) \cup {e} ELSE Asks(q)
         /\ OnceEach(q) /\ (e.ev \in AnswerEvents => \A a \in Asks(q) : a.id # e.id)
              => OnceEach(Append(q, e))
  <1>1. /\ Append(q, e) \in Seq(Posted)
        /\ DOMAIN Append(q, e) = DOMAIN q \cup {Len(q) + 1}
        /\ \A i \in DOMAIN q : Append(q, e)[i] = q[i]
        /\ Append(q, e)[Len(q) + 1] = e
    OBVIOUS
  <1>2. ToSet(Append(q, e)) = ToSet(q) \cup {e}
    BY <1>1 DEF ToSet
  <1>3. Asks(Append(q, e)) = IF e.ev \in AnswerEvents THEN Asks(q) \cup {e} ELSE Asks(q)
    <2>1. ASSUME NEW a \in Asks(Append(q, e))
          PROVE  a \in Asks(q) \/ (a = e /\ e.ev \in AnswerEvents)
      <3>1. PICK i \in DOMAIN Append(q, e) : Append(q, e)[i] = a /\ a.ev \in AnswerEvents
        BY AsksPlace
      <3> QED
        BY <1>1, <3>1, AsksPlace
    <2>2. \A a \in Asks(q) : a \in Asks(Append(q, e))
      BY <1>1 DEF Asks
    <2>3. e.ev \in AnswerEvents => e \in Asks(Append(q, e))
      BY <1>1, AsksPlace
    <2> QED
      BY <2>1, <2>2, <2>3
  <1>4. ASSUME OnceEach(q), e.ev \in AnswerEvents => \A a \in Asks(q) : a.id # e.id
        PROVE  OnceEach(Append(q, e))
    <2>1. \A i \in DOMAIN q : q[i].ev \in AnswerEvents => q[i] \in Asks(q)
      BY AsksPlace
    <2> QED
      BY <1>1, <1>4, <2>1 DEF OnceEach
  <1> QED
    BY <1>1, <1>2, <1>3, <1>4

\* The events of a proxy vanish.
LEMMA OnlyAsks ==
  ASSUME NEW q \in Seq(Posted), NEW p
  PROVE  LET r == Only(q, LAMBDA e : e.proxy # p) IN
         /\ r \in Seq(Posted)
         /\ ToSet(r) = {e \in ToSet(q) : e.proxy # p}
         /\ Asks(r) = {e \in Asks(q) : e.proxy # p}
         /\ OnceEach(q) => OnceEach(r)
  <1> DEFINE K == {i \in DOMAIN q : q[i].proxy # p}
             r == At(q, K)
  <1>1. Only(q, LAMBDA e : e.proxy # p) = r
    BY DEF Only
  <1>2. /\ r \in Seq(Posted)
        /\ \A n \in DOMAIN r : Nth(K, n) \in K /\ r[n] = q[Nth(K, n)]
        /\ \A i \in K : \E n \in DOMAIN r : r[n] = q[i]
        /\ \A n, m \in DOMAIN r : Nth(K, n) = Nth(K, m) => n = m
    <2>1. K \in SUBSET (DOMAIN q)
      OBVIOUS
    <2> HIDE DEF K
    <2> QED
      BY <2>1, AtElements
  <1> HIDE DEF r
  <1>3. \A e : (\E n \in DOMAIN r : r[n] = e) <=> (\E i \in DOMAIN q : q[i] = e /\ e.proxy # p)
    BY <1>2
  <1>4. /\ ToSet(r) = {e \in ToSet(q) : e.proxy # p}
        /\ Asks(r) = {e \in Asks(q) : e.proxy # p}
    BY <1>3, AsksPlace
  <1>5. ASSUME OnceEach(q) PROVE OnceEach(r)
    <2> SUFFICES ASSUME NEW n \in DOMAIN r, NEW m \in DOMAIN r, r[n].ev \in AnswerEvents,
                        r[m].ev \in AnswerEvents, r[n].id = r[m].id
                 PROVE  n = m
      BY DEF OnceEach
    <2>1. /\ Nth(K, n) \in DOMAIN q /\ r[n] = q[Nth(K, n)]
          /\ Nth(K, m) \in DOMAIN q /\ r[m] = q[Nth(K, m)]
      BY <1>2
    <2>2. Nth(K, n) = Nth(K, m)
      BY <1>5, <2>1 DEF OnceEach
    <2> QED
      BY <1>2, <2>2
  <1> QED
    BY <1>1, <1>2, <1>4, <1>5
-----------------------------------------------------------------------------
(* A link that goes down answers all calls at once.                         *)

\* Some more events are appended.
LEMMA ConcatAsks ==
  ASSUME NEW q \in Seq(Posted), NEW w \in Seq(Posted)
  PROVE  /\ q \o w \in Seq(Posted)
         /\ ToSet(q \o w) = ToSet(q) \cup ToSet(w)
         /\ Asks(q \o w) = Asks(q) \cup Asks(w)
         /\ OnceEach(q) /\ OnceEach(w) /\ (\A a \in Asks(q), b \in Asks(w) : a.id # b.id)
              => OnceEach(q \o w)
  <1> DEFINE r == q \o w
  <1>1. /\ r \in Seq(Posted)
        /\ \A i \in DOMAIN q : i \in DOMAIN r /\ r[i] = q[i]
        /\ \A i \in DOMAIN w : i + Len(q) \in DOMAIN r /\ r[i + Len(q)] = w[i]
        /\ \A i \in DOMAIN r : \/ i \in DOMAIN q
                               \/ i - Len(q) \in DOMAIN w /\ i = (i - Len(q)) + Len(q)
    OBVIOUS
  <1> HIDE DEF r
  <1>2. ASSUME NEW e
        PROVE  (\E i \in DOMAIN r : r[i] = e) <=> (\E i \in DOMAIN q : q[i] = e) \/ (\E i \in DOMAIN w : w[i] = e)
    <2>1. ASSUME NEW i \in DOMAIN r, r[i] = e
          PROVE  (\E j \in DOMAIN q : q[j] = e) \/ (\E j \in DOMAIN w : w[j] = e)
      <3>1. CASE i \in DOMAIN q
        BY <1>1, <2>1, <3>1
      <3>2. CASE i - Len(q) \in DOMAIN w /\ i = (i - Len(q)) + Len(q)
        <4>1. r[(i - Len(q)) + Len(q)] = w[i - Len(q)]
          BY <1>1, <3>2
        <4> QED
          BY <2>1, <3>2, <4>1
      <3> QED
        BY <1>1, <3>1, <3>2
    <2>2. ASSUME NEW i \in DOMAIN q, q[i] = e PROVE \E j \in DOMAIN r : r[j] = e
      BY <1>1, <2>2
    <2>3. ASSUME NEW i \in DOMAIN w, w[i] = e PROVE \E j \in DOMAIN r : r[j] = e
      BY <1>1, <2>3
    <2> QED
      BY <2>1, <2>2, <2>3
  <1>3. /\ \A e : e \in ToSet(r) <=> e \in ToSet(q) \/ e \in ToSet(w)
        /\ \A e : e \in Asks(r) <=> e \in Asks(q) \/ e \in Asks(w)
    <2> SUFFICES ASSUME NEW e
                 PROVE  /\ e \in ToSet(r) <=> e \in ToSet(q) \/ e \in ToSet(w)
                        /\ e \in Asks(r) <=> e \in Asks(q) \/ e \in Asks(w)
      OBVIOUS
    <2>1. /\ e \in ToSet(r) <=> \E i \in DOMAIN r : r[i] = e
          /\ e \in ToSet(q) <=> \E i \in DOMAIN q : q[i] = e
          /\ e \in ToSet(w) <=> \E i \in DOMAIN w : w[i] = e
      BY AsksPlace
    <2>2. /\ e \in Asks(r) <=> e \in ToSet(r) /\ e.ev \in AnswerEvents
          /\ e \in Asks(q) <=> e \in ToSet(q) /\ e.ev \in AnswerEvents
          /\ e \in Asks(w) <=> e \in ToSet(w) /\ e.ev \in AnswerEvents
      BY AsksPlace
    <2> QED
      BY <1>2, <2>1, <2>2
  <1>4. ASSUME OnceEach(q), OnceEach(w), \A a \in Asks(q), b \in Asks(w) : a.id # b.id
        PROVE  OnceEach(r)
    <2> SUFFICES ASSUME NEW i \in DOMAIN r, NEW j \in DOMAIN r, r[i].ev \in AnswerEvents,
                        r[j].ev \in AnswerEvents, r[i].id = r[j].id
                 PROVE  i = j
      BY DEF OnceEach
    <2>1. CASE i \in DOMAIN q /\ j \in DOMAIN q
      BY <1>1, <1>4, <2>1 DEF OnceEach
    <2>2. CASE i - Len(q) \in DOMAIN w /\ j - Len(q) \in DOMAIN w
      <3>1. /\ r[i] = w[i - Len(q)] /\ r[j] = w[j - Len(q)]
            /\ i = (i - Len(q)) + Len(q) /\ j = (j - Len(q)) + Len(q)
        <4>1. i \in Int /\ j \in Int /\ Len(q) \in Int
          BY <1>1
        <4>2. i = (i - Len(q)) + Len(q) /\ j = (j - Len(q)) + Len(q)
          BY <4>1
        <4> QED
          BY <1>1, <2>2, <4>2
      <3>2. i - Len(q) = j - Len(q)
        BY <1>4, <2>2, <3>1 DEF OnceEach
      <3> QED
        BY <3>1, <3>2
    <2>3. ASSUME NEW a \in DOMAIN r, NEW b \in DOMAIN r, a \in DOMAIN q, b - Len(q) \in DOMAIN w,
                 b = (b - Len(q)) + Len(q), r[a].ev \in AnswerEvents, r[b].ev \in AnswerEvents
          PROVE  r[a].id # r[b].id
      <3>1. r[a] = q[a] /\ r[b] = w[b - Len(q)]
        BY <1>1, <2>3
      <3>2. r[a] \in Asks(q) /\ r[b] \in Asks(w)
        BY <2>3, <3>1, AsksPlace
      <3> QED
        BY <1>4, <3>2
    <2> QED
      BY <1>1, <2>1, <2>2, <2>3
  <1> QED
    BY <1>1, <1>3, <1>4 DEF r
\* The calls that are swept are all those of the proxies that are left, once.
LEMMA Sweeping ==
  ASSUME ServicesType, IdsApart, NEW sweep \in SetToSeqs({c \in open : c.proxy \notin gone})
  PROVE  /\ sweep \in Seq(open)
         /\ \A i, j \in DOMAIN sweep : i # j => sweep[i] # sweep[j]
         /\ \A c : c \in open /\ c.proxy \notin gone <=> \E i \in DOMAIN sweep : sweep[i] = c
  <1> DEFINE S == {c \in open : c.proxy \notin gone}
             ids == [c \in S |-> c.id]
  <1>1. IsFiniteSet(S) /\ Cardinality(S) \in Nat
    <2>1. IsFiniteSet(Ids)
      <3>1. 1 \in Int /\ 4 * MaxGets + MaxCalls \in Int
        BY BoundsAssumption
      <3> QED
        BY <3>1, FS_Interval DEF Ids
    <2>2. ids \in [S -> Ids]
      BY DEF ServicesType
    <2>3. \A c, d \in S : ids[c] = ids[d] => c = d
      BY DEF IdsApart
    <2>4. ids \in Injection(S, Ids)
      <3>1. DOMAIN ids = S
        OBVIOUS
      <3> HIDE DEF ids, S
      <3> QED
        BY <2>2, <2>3, <3>1 DEF Injection, IsInjective
    <2> HIDE DEF ids, S
    <2> QED
      BY <2>1, <2>4, FS_Injection, FS_CardinalityType
  <1>2. /\ sweep \in [1 .. Cardinality(S) -> S]
        /\ \A i, j \in 1 .. Cardinality(S) : i # j => sweep[i] # sweep[j]
    BY DEF SetToSeqs
  <1>3. sweep \in Surjection(1 .. Cardinality(S), S)
    <2>1. IsFiniteSet(1 .. Cardinality(S)) /\ Cardinality(1 .. Cardinality(S)) = Cardinality(S)
      BY <1>1, FS_Interval
    <2>2. sweep \in Injection(1 .. Cardinality(S), S)
      BY <1>2 DEF Injection, IsInjective
    <2> HIDE DEF S
    <2> QED
      BY <1>1, <2>1, <2>2, FS_Injection
  <1>4. ASSUME NEW c
        PROVE  c \in S <=> \E i \in DOMAIN sweep : sweep[i] = c
    BY <1>2, <1>3 DEF Surjection
  <1>5. sweep \in Seq(open)
    <2>1. sweep \in [1 .. Cardinality(S) -> open]
      BY <1>2
    <2> HIDE DEF S
    <2> QED
      BY <1>1, <2>1
  <1> QED
    BY <1>2, <1>4, <1>5

\* An answer that can be posted.
LEMMA ReturnedPosted ==
  ASSUME ServicesType, NEW c \in open, NEW ok \in BOOLEAN, NEW s \in 0 .. MaxGets + MaxCalls
  PROVE  /\ Returned(c, ok, s) \in Posted
         /\ Returned(c, ok, s).ev = (IF c.kind = "function" THEN "function" ELSE "get")
         /\ Returned(c, ok, s).proxy = c.proxy /\ Returned(c, ok, s).id = c.id
         /\ Returned(c, ok, s).arg = s
         /\ Returned(c, ok, s).ev \in AnswerEvents
  <1>1. c.id \in Ids /\ c.proxy \in Proxies
    BY DEF ServicesType
  <1> QED
    BY <1>1 DEF Returned, Event, Posted, AnswerEvents

\* What the bus says when the link is down: an answer to each call, then "lost".
LEMMA SweptAsks ==
  ASSUME ServicesType, IdsApart, NEW sweep \in SetToSeqs({c \in open : c.proxy \notin gone}),
         NEW q, q = queue \o [i \in DOMAIN sweep |-> Returned(sweep[i], FALSE, 0)]
                      \o <<Event("lost", NoProxy, 0, TRUE, 0)>>
  PROVE  /\ q \in Seq(Posted) /\ OnceEach(q)
         /\ \A e : e \in Asks(q) <=> \/ e \in Asks(queue)
                                     \/ \E c \in open : c.proxy \notin gone /\ e = Returned(c, FALSE, 0)
         /\ \A e \in ToSet(q) : e \in ToSet(queue) \/ (e.ev \in AnswerEvents /\ e.arg = 0) \/ e.ev = "lost"
  <1> DEFINE w == [i \in DOMAIN sweep |-> Returned(sweep[i], FALSE, 0)]
             lost == Event("lost", NoProxy, 0, TRUE, 0)
  <1>1. /\ sweep \in Seq(open)
        /\ \A i, j \in DOMAIN sweep : i # j => sweep[i] # sweep[j]
        /\ \A c : c \in open /\ c.proxy \notin gone <=> \E i \in DOMAIN sweep : sweep[i] = c
    BY Sweeping
  <1>2. \A c \in open : /\ Returned(c, FALSE, 0) \in Posted
                        /\ Returned(c, FALSE, 0).id = c.id /\ Returned(c, FALSE, 0).arg = 0
                        /\ Returned(c, FALSE, 0).ev \in AnswerEvents
    <2>1. 0 \in 0 .. MaxGets + MaxCalls
      BY BoundsAssumption
    <2> QED
      BY <2>1, ReturnedPosted
  <1>3. DOMAIN w = DOMAIN sweep /\ \A i \in DOMAIN w : sweep[i] \in open /\ w[i] = Returned(sweep[i], FALSE, 0)
    BY <1>1
  <1>4. w \in Seq(Posted)
    <2>1. Len(sweep) \in Nat /\ DOMAIN sweep = 1 .. Len(sweep)
      BY <1>1
    <2>2. \A i \in 1 .. Len(sweep) : Returned(sweep[i], FALSE, 0) \in Posted
      BY <1>2, <1>3, <2>1
    <2>3. w \in [1 .. Len(sweep) -> Posted]
      BY <2>1, <2>2
    <2> HIDE DEF w
    <2> QED
      BY <2>1, <2>3
  <1> HIDE DEF w
  <1>5. OnceEach(w)
    <2> SUFFICES ASSUME NEW i \in DOMAIN w, NEW j \in DOMAIN w, w[i].id = w[j].id, i # j
                 PROVE  FALSE
      BY DEF OnceEach
    <2>1. sweep[i] # sweep[j] /\ sweep[i].id = sweep[j].id
      BY <1>1, <1>2, <1>3
    <2> QED
      BY <1>3, <2>1 DEF IdsApart
  <1>6. \A e : e \in Asks(w) <=> \E c \in open : c.proxy \notin gone /\ e = Returned(c, FALSE, 0)
    <2>1. ASSUME NEW e \in Asks(w)
          PROVE  \E c \in open : c.proxy \notin gone /\ e = Returned(c, FALSE, 0)
      <3>1. PICK i \in DOMAIN w : w[i] = e
        BY AsksPlace
      <3> QED
        BY <1>1, <1>3, <3>1
    <2>2. ASSUME NEW c \in open, c.proxy \notin gone
          PROVE  Returned(c, FALSE, 0) \in Asks(w)
      <3>1. PICK i \in DOMAIN w : sweep[i] = c
        BY <1>1, <1>3, <2>2
      <3> QED
        BY <1>2, <1>3, <3>1, AsksPlace
    <2> QED
      BY <2>1, <2>2
  <1>7. \A e \in ToSet(w) : e.ev \in AnswerEvents /\ e.arg = 0
    <2>1. \A i \in DOMAIN w : w[i].ev \in AnswerEvents /\ w[i].arg = 0
      BY <1>2, <1>3
    <2> QED
      BY <2>1, AsksPlace
  <1>8. /\ queue \o w \in Seq(Posted) /\ OnceEach(queue \o w)
        /\ ToSet(queue \o w) = ToSet(queue) \cup ToSet(w)
        /\ Asks(queue \o w) = Asks(queue) \cup Asks(w)
    <2>1. ASSUME NEW a \in Asks(queue), NEW b \in Asks(w) PROVE a.id # b.id
      <3>1. PICK c \in open : b = Returned(c, FALSE, 0)
        BY <1>6
      <3> QED
        BY <1>2, <3>1 DEF IdsApart
    <2>2. queue \in Seq(Posted) /\ OnceEach(queue)
      BY DEF ServicesType, IdsApart
    <2> QED
      BY <1>4, <1>5, <2>1, <2>2, ConcatAsks
  <1>9. /\ lost \in Posted /\ lost.ev = "lost" /\ lost.ev \notin AnswerEvents
        /\ q = Append(queue \o w, lost)
    <2>1. lost \in Posted /\ lost.ev = "lost" /\ lost.ev \notin AnswerEvents
      BY DEF Event, Posted, AnswerEvents
    <2> HIDE DEF lost
    <2>2. (queue \o w) \o <<lost>> = Append(queue \o w, lost)
      BY <1>8, <2>1, AppendIsConcat
    <2> QED
      BY <2>1, <2>2 DEF w, lost
  <1> HIDE DEF lost
  <1>10. /\ q \in Seq(Posted) /\ OnceEach(q)
         /\ ToSet(q) = (ToSet(queue) \cup ToSet(w)) \cup {lost}
         /\ Asks(q) = Asks(queue) \cup Asks(w)
    <2> DEFINE u == queue \o w
    <2>1. u \in Seq(Posted) /\ q = Append(u, lost)
      BY <1>8, <1>9
    <2>2. /\ Append(u, lost) \in Seq(Posted)
          /\ ToSet(Append(u, lost)) = ToSet(u) \cup {lost}
          /\ Asks(Append(u, lost)) = Asks(u)
          /\ OnceEach(u) => OnceEach(Append(u, lost))
      <3> HIDE DEF u
      <3> QED
        BY <1>9, <2>1, AppendAsks
    <2> QED
      BY <1>8, <2>1, <2>2
  <1> QED
    BY <1>6, <1>7, <1>9, <1>10
-----------------------------------------------------------------------------
(* The calls that are waited for.                                           *)

\* The event taken from the queue.
LEMMA Taken ==
  ASSUME ServicesType, IdsApart, queue # <<>>, NEW e, e = Head(queue)
  PROVE  /\ e \in Posted /\ e \in ToSet(queue)
         /\ Rest \in Seq(Posted) /\ OnceEach(Rest) /\ ToSet(Rest) \subseteq ToSet(queue)
         /\ e.ev \in AnswerEvents =>
              /\ e \in Asks(queue) /\ Asks(Rest) = Asks(queue) \ {e}
              /\ \A a \in Asks(Rest) : a.id # e.id
              /\ \A c \in open : c.id # e.id
         /\ e.ev \notin AnswerEvents => Asks(Rest) = Asks(queue)
  <1>1. queue \in Seq(Posted) /\ OnceEach(queue)
    BY DEF ServicesType, IdsApart
  <1>2. e.ev \in AnswerEvents => e \in Asks(queue)
    BY <1>1, TailAsks
  <1> QED
    BY <1>1, <1>2, TailAsks DEF IdsApart, Rest

\* What an answer says of its call, and an open call.
LEMMA CallFacts ==
  ASSUME ServicesType
  PROVE  /\ \A c \in open : c.id \in Ids /\ c.kind \in Kinds /\ c.proxy \in Proxies
         /\ \A e \in Asks(queue) : /\ e \in ToSet(queue) /\ e.ev \in AnswerEvents
                                   /\ e.id \in Ids /\ e.proxy \in Proxies /\ e.ok \in BOOLEAN
                                   /\ e.arg \in 0 .. MaxGets + MaxCalls
  <1>1. ASSUME NEW e \in Asks(queue)
        PROVE  /\ e \in ToSet(queue) /\ e.ev \in AnswerEvents
               /\ e.id \in Ids /\ e.proxy \in Proxies /\ e.ok \in BOOLEAN
               /\ e.arg \in 0 .. MaxGets + MaxCalls
    <2>1. e \in ToSet(queue) /\ e.ev \in AnswerEvents
      BY AsksPlace
    <2>2. e \in Posted
      BY <2>1 DEF ServicesType, ToSet
    <2> QED
      BY <2>1, <2>2 DEF Posted, AnswerEvents
  <1> QED
    BY <1>1 DEF ServicesType

\* A step that answers nothing and calls nothing.
LEMMA AwaitingFrame ==
  ASSUME ServicesType, Awaiting, curid' \in Nat, curid <= curid', bus' => bus,
         UNCHANGED <<open, chains, chainOf, gone, owed>>,
         Asks(queue') = Asks(queue), OnceEach(queue')
  PROVE  Awaiting'
  <1>1. IdsApart'
    BY DEF Awaiting, IdsApart
  <1>2. Asks(queue)' = Asks(queue)
    BY DEF Asks
  <1>3. GivenOut'
    <2>1. /\ \A c \in open : c.id <= curid'
          /\ \A e \in Asks(queue) : e.id <= curid'
          /\ \A id \in Ids : id > curid' => id > curid
      <3>1. curid \in Nat /\ \A id \in Ids : id \in Nat
        BY DEF ServicesType, Ids
      <3>2. /\ \A c \in open : c.id \in Nat /\ c.id <= curid
            /\ \A e \in Asks(queue) : e.id \in Nat /\ e.id <= curid
        BY <3>1, CallFacts DEF Awaiting, GivenOut
      <3> QED
        BY <3>1, <3>2
    <2> QED
      BY <2>1 DEF Awaiting, GivenOut
  <1>4. Owned'
    BY DEF Awaiting, Owned, FunctionCall, ChainCall
  <1>5. Chained'
    BY DEF Awaiting, Chained, ChainIds
  <1> QED
    BY <1>1, <1>3, <1>4, <1>5 DEF Awaiting
\* Open calls are answered: the ones of a proxy that is left have an answer in
\* the queue.
LEMMA AwaitingAnswered ==
  ASSUME ServicesType, Awaiting, open' \subseteq open,
         UNCHANGED <<bus, curid, chains, chainOf, gone, owed>>,
         OnceEach(queue'),
         \A e \in Asks(queue') :
           \/ e \in Asks(queue)
           \/ \E c \in open \ open' : /\ c.proxy \notin gone
                                      /\ e.id = c.id /\ e.proxy = c.proxy
                                      /\ e.ev = IF c.kind = "function" THEN "function" ELSE "get",
         Asks(queue) \subseteq Asks(queue'),
         \A c \in open \ open' : c.proxy \notin gone =>
           \E e \in Asks(queue') : e.id = c.id /\ e.ev = IF c.kind = "function" THEN "function" ELSE "get"
  PROVE  Awaiting'
  <1> DEFINE As == Asks(queue')
  <1>0. Asks(queue)' = As
    BY DEF Asks
  <1>1. IdsApart'
    <2>1. \A c \in open', e \in As : c.id # e.id
      <3> SUFFICES ASSUME NEW c \in open', NEW e \in As PROVE c.id # e.id
        OBVIOUS
      <3>1. CASE e \in Asks(queue)
        BY <3>1 DEF Awaiting, IdsApart
      <3>2. CASE \E d \in open \ open' : e.id = d.id
        BY <3>2 DEF Awaiting, IdsApart
      <3> QED
        BY <3>1, <3>2
    <2> QED
      BY <1>0, <2>1 DEF Awaiting, IdsApart
  <1>2. GivenOut'
    <2>1. \A e \in As : e.id <= curid /\ e.proxy \notin gone
      BY DEF Awaiting, GivenOut
    <2>2. \A c \in open' : c.id <= curid
      BY DEF Awaiting, GivenOut
    <2>3. \A id \in Ids : id > curid' => chains'[id] = NoChain /\ chainOf'[id] = 0 /\ owed'[id] = 0
      BY DEF Awaiting, GivenOut
    <2> QED
      BY <1>0, <2>1, <2>2, <2>3 DEF GivenOut
  <1>3. Owned'
    <2>1. ASSUME NEW e \in As
          PROVE  /\ IF e.ev = "function" THEN FunctionCall(e) ELSE ChainCall(e)
                 /\ chains[e.id] # NoChain => chains[e.id].proxy = e.proxy
      <3>1. CASE e \in Asks(queue)
        BY <3>1 DEF Awaiting, Owned
      <3>2. ASSUME NEW c \in open, c.proxy \notin gone, e.id = c.id, e.proxy = c.proxy,
                   e.ev = IF c.kind = "function" THEN "function" ELSE "get"
            PROVE  /\ IF e.ev = "function" THEN FunctionCall(e) ELSE ChainCall(e)
                   /\ chains[e.id] # NoChain => chains[e.id].proxy = e.proxy
        <4>1. /\ IF c.kind = "function" THEN FunctionCall(c) ELSE ChainCall(c)
              /\ chains[c.id] # NoChain => chains[c.id].proxy = c.proxy
          BY <3>2 DEF Awaiting, Owned
        <4> QED
          BY <3>2, <4>1 DEF FunctionCall, ChainCall
      <3> QED
        BY <3>1, <3>2
    <2>2. ASSUME NEW c \in open'
          PROVE  /\ c.proxy \notin gone => IF c.kind = "function" THEN FunctionCall(c) ELSE ChainCall(c)
                 /\ chains[c.id] # NoChain => chains[c.id].proxy = c.proxy
      BY DEF Awaiting, Owned
    <2>3. chains' = chains /\ chainOf' = chainOf /\ owed' = owed /\ gone' = gone
      OBVIOUS
    <2> HIDE DEF As
    <2> QED
      BY <1>0, <2>1, <2>2, <2>3 DEF Owned, FunctionCall, ChainCall
  <1>4. Chained'
    <2>1. ChainIds \subseteq ChainIds'
      <3>1. ASSUME NEW c \in open, c.kind # "function", c.proxy \notin gone PROVE c.id \in ChainIds'
        <4>1. CASE c \in open'
          BY <3>1, <4>1 DEF ChainIds
        <4>2. CASE c \notin open'
          <5>1. PICK e \in As : e.id = c.id /\ e.ev = "get"
            BY <3>1, <4>2
          <5> QED
            BY <1>0, <5>1 DEF ChainIds
        <4> QED
          BY <4>1, <4>2
      <3>2. ASSUME NEW e \in Asks(queue), e.ev = "get" PROVE e.id \in ChainIds'
        BY <1>0, <3>2 DEF ChainIds
      <3> QED
        BY <3>1, <3>2 DEF ChainIds
    <2>2. Chained
      BY DEF Awaiting
    <2> QED
      BY <2>1, <2>2 DEF Chained
  <1> QED
    BY <1>1, <1>2, <1>3, <1>4 DEF Awaiting

\* The answer at the head is the last of its getService(), which is reported
\* and forgotten.
LEMMA AwaitingReported ==
  ASSUME ServicesType, Awaiting, queue # <<>>, NEW e, e = Head(queue), e.ev = "get",
         NEW f, f = chainOf[e.id],
         bus' => bus, UNCHANGED <<curid, open, gone>>,
         chainOf' = [chainOf EXCEPT ![e.id] = 0], owed' = [owed EXCEPT ![f] = @ - 1],
         NEW kept \in Chain, chains' = [chains EXCEPT ![f] = kept],
         kept = NoChain \/ (~bus' /\ kept.proxy = chains[f].proxy),
         Asks(queue') = Asks(Rest), OnceEach(queue')
  PROVE  Awaiting'
  <1>0. Asks(queue)' = Asks(Rest)
    BY DEF Asks
  <1>1. /\ e \in Asks(queue) /\ Asks(Rest) = Asks(queue) \ {e}
        /\ \A a \in Asks(Rest) : a.id # e.id
        /\ \A c \in open : c.id # e.id
    BY Taken DEF Awaiting, AnswerEvents
  <1>2. /\ e.id \in Ids /\ e.proxy \in Proxies /\ e.proxy \notin gone
        /\ f \in Ids /\ chains[f].proxy = e.proxy /\ owed[f] = 1
    <2>1. ChainCall(e)
      BY <1>1 DEF Awaiting, Owned
    <2> QED
      BY <1>1, <2>1, CallFacts DEF Awaiting, GivenOut, ChainCall
  <1>3. chains[f] # NoChain
    BY <1>2, ProxiesAssumption DEF NoChain
  <1>4. \A a \in open \cup Asks(Rest) : a.id \in Ids /\ a.id # e.id
    BY <1>1, CallFacts
  <1>5. \A i \in Ids : i # e.id => chainOf[i] # f /\ chainOf'[i] = chainOf[i]
    <2>1. f # 0
      BY <1>2 DEF Ids
    <2>2. \A i \in Ids : chainOf[i] = f => i = e.id
      BY <1>2, <2>1 DEF Awaiting, Chained
    <2>3. chainOf \in [Ids -> {0} \cup Ids]
      BY DEF ServicesType
    <2> QED
      BY <1>2, <2>2, <2>3
  <1>6. /\ chainOf'[e.id] = 0 /\ owed'[f] = 0
        /\ \A g \in Ids : g # f => chains'[g] = chains[g] /\ owed'[g] = owed[g]
        /\ chains'[f].proxy = NoProxy \/ chains'[f].proxy = chains[f].proxy
        /\ bus' => chains'[f] = NoChain
    BY <1>2 DEF ServicesType, NoChain
  <1>7. IdsApart'
    BY <1>0, <1>1 DEF Awaiting, IdsApart
  <1>8. GivenOut'
    <2>1. f <= curid
      <3>1. f \in Nat /\ curid \in Nat
        BY <1>2 DEF ServicesType, Ids
      <3> QED
        BY <1>2, <1>3, <3>1 DEF Awaiting, GivenOut
    <2>2. \A id \in Ids : id > curid' => id # f /\ id > curid
      BY <1>2, <2>1 DEF ServicesType, Ids
    <2>3. \A id \in Ids : id > curid' => chains'[id] = NoChain /\ chainOf'[id] = 0 /\ owed'[id] = 0
      <3> SUFFICES ASSUME NEW id \in Ids, id > curid'
                   PROVE  chains'[id] = NoChain /\ chainOf'[id] = 0 /\ owed'[id] = 0
        OBVIOUS
      <3>1. id # f /\ chains[id] = NoChain /\ chainOf[id] = 0 /\ owed[id] = 0
        BY <2>2 DEF Awaiting, GivenOut
      <3> QED
        BY <1>5, <1>6, <3>1
    <2> QED
      BY <1>0, <1>1, <2>3 DEF Awaiting, GivenOut
  <1>9. Owned'
    <2>1. ASSUME NEW a \in open \cup Asks(Rest)
          PROVE  /\ FunctionCall(a) => FunctionCall(a)'
                 /\ ChainCall(a) => ChainCall(a)'
      <3>1. a.id \in Ids /\ a.id # e.id /\ chainOf[a.id] # f /\ chainOf'[a.id] = chainOf[a.id]
        BY <1>4, <1>5
      <3>2. FunctionCall(a) => a.id # f
        BY <1>3 DEF FunctionCall
      <3> QED
        BY <1>6, <3>1, <3>2 DEF FunctionCall, ChainCall
    <2>2. ASSUME NEW a \in open \cup Asks(Rest), chains'[a.id] # NoChain
          PROVE  chains'[a.id].proxy = a.proxy
      <3>1. chains[a.id] # NoChain => chains[a.id].proxy = a.proxy
        BY <1>1 DEF Awaiting, Owned
      <3>2. CASE a.id # f
        BY <1>4, <1>6, <2>2, <3>1, <3>2
      <3>3. CASE a.id = f
        <4>1. chains'[f] = NoChain \/ chains'[f].proxy = chains[f].proxy
          BY <1>2 DEF ServicesType
        <4> QED
          BY <1>3, <2>2, <3>1, <3>3, <4>1
      <3> QED
        BY <3>2, <3>3
    <2>3. /\ \A c \in open : c.proxy \notin gone => IF c.kind = "function" THEN FunctionCall(c) ELSE ChainCall(c)
          /\ \A a \in Asks(Rest) : IF a.ev = "function" THEN FunctionCall(a) ELSE ChainCall(a)
      BY <1>1 DEF Awaiting, Owned
    <2> QED
      BY <1>0, <2>1, <2>2, <2>3 DEF Owned
  <1>10. Chained'
    <2>1. \A i \in Ids : i # e.id /\ i \in ChainIds => i \in ChainIds'
      <3>1. ASSUME NEW a \in Asks(queue), a.id # e.id PROVE a \in Asks(queue)'
        BY <1>0, <1>1, <3>1
      <3> QED
        BY <3>1 DEF ChainIds
    <2>2. \A i, j \in Ids : chainOf'[i] # 0 /\ chainOf'[i] = chainOf'[j] => i = j
      BY <1>5, <1>6 DEF Awaiting, Chained
    <2>3. \A i \in Ids : chainOf'[i] # 0 => i \in ChainIds'
      BY <1>5, <1>6, <2>1 DEF Awaiting, Chained
    <2>4. \A id \in Ids : owed'[id] \in {0, 1}
      BY <1>6 DEF Awaiting, Chained
    <2>5. bus' => \A g \in Ids : chains'[g] # NoChain => owed'[g] = 1 /\ \E i \in Ids : chainOf'[i] = g
      <3> SUFFICES ASSUME bus', NEW g \in Ids, chains'[g] # NoChain
                   PROVE  owed'[g] = 1 /\ \E i \in Ids : chainOf'[i] = g
        OBVIOUS
      <3>1. g # f /\ chains[g] # NoChain /\ owed'[g] = owed[g]
        BY <1>6
      <3>2. PICK i \in Ids : chainOf[i] = g /\ owed[g] = 1
        BY <3>1 DEF Awaiting, Chained
      <3> QED
        BY <1>5, <3>1, <3>2
    <2> QED
      BY <2>2, <2>3, <2>4, <2>5 DEF Chained
  <1> QED
    BY <1>7, <1>8, <1>9, <1>10 DEF Awaiting
\* The next id is nobody's yet.
LEMMA NextId ==
  ASSUME ServicesType, Awaiting, NEW n, n = curid + 1, n \in Ids
  PROVE  /\ chains[n] = NoChain /\ chainOf[n] = 0 /\ owed[n] = 0
         /\ \A a \in open \cup Asks(queue) : a.id \in Ids /\ a.id # n /\ a.id <= n
         /\ \A i \in Ids : chainOf[i] # n
         /\ \A id \in Ids : id > n => id > curid
  <1>1. curid \in Nat /\ (\A id \in Ids : id \in Nat \ {0}) /\ n > curid
    <2>1. curid \in Nat /\ \A id \in Ids : id \in Nat \ {0}
      BY DEF ServicesType, Ids
    <2> QED
      BY <2>1
  <1>2. chains[n] = NoChain /\ chainOf[n] = 0 /\ owed[n] = 0
    BY <1>1 DEF Awaiting, GivenOut
  <1>3. ASSUME NEW a \in open \cup Asks(queue) PROVE a.id \in Ids /\ a.id # n /\ a.id <= n
    <2>1. a.id \in Ids /\ a.id <= curid
      BY CallFacts DEF Awaiting, GivenOut
    <2>2. a.id \in Nat
      BY <1>1, <2>1
    <2>3. \A k \in Nat : k <= curid => k # n /\ k <= n
      BY <1>1
    <2> QED
      BY <2>1, <2>2, <2>3
  <1>4. ASSUME NEW i \in Ids, chainOf[i] = n PROVE FALSE
    <2>1. i \in ChainIds
      BY <1>1, <1>4 DEF Awaiting, Chained
    <2>2. PICK a \in open \cup Asks(queue) :
            /\ a.id = i
            /\ \/ a \in open /\ a.kind # "function" /\ a.proxy \notin gone
               \/ a \in Asks(queue) /\ a.ev = "get"
      BY <2>1 DEF ChainIds
    <2>3. ChainCall(a)
      BY <2>2 DEF Awaiting, Owned
    <2> QED
      BY <1>2, <1>4, <2>2, <2>3 DEF ChainCall
  <1>5. \A id \in Ids : id > n => id > curid
    BY <1>1
  <1> QED
    BY <1>2, <1>3, <1>4, <1>5

\* The answer at the head is not the last of its getService(): the next call
\* takes its place.
LEMMA AwaitingContinued ==
  ASSUME ServicesType, Awaiting, queue # <<>>, NEW e, e = Head(queue), e.ev = "get",
         NEW f, f = chainOf[e.id], NEW n, n = curid + 1, n \in Ids,
         NEW call, call.id = n, call.kind # "function", call.proxy = chains[f].proxy,
         NEW next \in Chain, next.proxy = chains[f].proxy,
         UNCHANGED <<bus, gone, owed>>, curid' = n, open' = open \cup {call},
         chainOf' = [chainOf EXCEPT ![e.id] = 0, ![n] = f],
         chains' = [chains EXCEPT ![f] = next],
         Asks(queue') = Asks(Rest), OnceEach(queue')
  PROVE  Awaiting'
  <1>0. Asks(queue)' = Asks(Rest)
    BY DEF Asks
  <1>1. /\ e \in Asks(queue) /\ Asks(Rest) = Asks(queue) \ {e}
        /\ \A a \in Asks(Rest) : a.id # e.id
        /\ \A c \in open : c.id # e.id
    BY Taken DEF Awaiting, AnswerEvents
  <1>2. /\ e.id \in Ids /\ e.proxy \in Proxies /\ e.proxy \notin gone
        /\ f \in Ids /\ chains[f].proxy = e.proxy /\ owed[f] = 1
    <2>1. ChainCall(e)
      BY <1>1 DEF Awaiting, Owned
    <2> QED
      BY <1>1, <2>1, CallFacts DEF Awaiting, GivenOut, ChainCall
  <1>3. chains[f] # NoChain /\ next # NoChain
    BY <1>2, ProxiesAssumption DEF NoChain
  <1>4. /\ chains[n] = NoChain /\ chainOf[n] = 0 /\ owed[n] = 0
        /\ \A a \in open \cup Asks(queue) : a.id \in Ids /\ a.id # n /\ a.id <= n
        /\ \A i \in Ids : chainOf[i] # n
        /\ \A id \in Ids : id > n => id > curid
    BY NextId
  <1>5. /\ n # e.id /\ n # f /\ f # 0
        /\ \A i \in Ids : i # e.id => chainOf[i] # f
        /\ \A i \in Ids : i # e.id /\ i # n => chainOf'[i] = chainOf[i]
        /\ chainOf'[n] = f /\ chainOf'[e.id] = 0
    <2>1. f # 0
      BY <1>2 DEF Ids
    <2>2. \A i \in Ids : chainOf[i] = f => i = e.id
      BY <1>2, <2>1 DEF Awaiting, Chained
    <2>3. chainOf \in [Ids -> {0} \cup Ids]
      BY DEF ServicesType
    <2>4. n # e.id /\ n # f
      BY <1>1, <1>3, <1>4
    <2> QED
      BY <1>2, <2>1, <2>2, <2>3, <2>4
  <1>6. /\ chains'[f] = next /\ \A g \in Ids : g # f => chains'[g] = chains[g]
    BY <1>2 DEF ServicesType
  <1>7. IdsApart'
    <2>1. \A c \in open' : c = call \/ c \in open
      OBVIOUS
    <2>2. \A c, d \in open' : c.id = d.id => c = d
      BY <1>4, <2>1 DEF Awaiting, IdsApart
    <2>3. \A c \in open', a \in Asks(Rest) : c.id # a.id
      BY <1>1, <1>4, <2>1 DEF Awaiting, IdsApart
    <2> QED
      BY <1>0, <2>2, <2>3 DEF IdsApart
  <1>8. GivenOut'
    <2>1. ASSUME NEW id \in Ids, id > n
          PROVE  chains'[id] = NoChain /\ chainOf'[id] = 0 /\ owed'[id] = 0
      <3>1. id > curid /\ id # n
        BY <1>4, <2>1 DEF Ids
      <3>2. chains[id] = NoChain /\ chainOf[id] = 0 /\ owed[id] = 0
        BY <3>1 DEF Awaiting, GivenOut
      <3>3. id # f /\ id # e.id
        BY <1>2, <1>3, <1>5, <3>2
      <3> QED
        BY <1>5, <1>6, <3>1, <3>2, <3>3
    <2>2. \A c \in open' : c.id <= n
      BY <1>4 DEF Ids
    <2>3. \A a \in Asks(Rest) : a.id <= n /\ a.proxy \notin gone
      BY <1>1, <1>4 DEF Awaiting, GivenOut
    <2> QED
      BY <1>0, <2>1, <2>2, <2>3 DEF GivenOut
  <1>9. Owned'
    <2>1. ASSUME NEW a \in open \cup Asks(Rest)
          PROVE  /\ FunctionCall(a) => FunctionCall(a)'
                 /\ ChainCall(a) => ChainCall(a)'
                 /\ chains'[a.id] # NoChain => chains'[a.id].proxy = a.proxy
      <3>1. a.id \in Ids /\ a.id # e.id /\ a.id # n /\ chainOf'[a.id] = chainOf[a.id]
        BY <1>1, <1>4, <1>5
      <3>2. FunctionCall(a) => a.id # f
        BY <1>3 DEF FunctionCall
      <3>3. chains[a.id] # NoChain => chains[a.id].proxy = a.proxy
        BY <1>1 DEF Awaiting, Owned
      <3>4. chainOf[a.id] # f
        BY <1>5, <3>1
      <3> QED
        BY <1>3, <1>6, <3>1, <3>2, <3>3, <3>4 DEF FunctionCall, ChainCall
    <2>2. ChainCall(call)' /\ chains'[call.id] = NoChain
      BY <1>2, <1>4, <1>5, <1>6 DEF ChainCall
    <2>3. /\ \A c \in open : c.proxy \notin gone => IF c.kind = "function" THEN FunctionCall(c) ELSE ChainCall(c)
          /\ \A a \in Asks(Rest) : IF a.ev = "function" THEN FunctionCall(a) ELSE ChainCall(a)
      BY <1>1 DEF Awaiting, Owned
    <2> QED
      BY <1>0, <2>1, <2>2, <2>3 DEF Owned
  <1>10. Chained'
    <2>1. \A i \in Ids : i # e.id /\ i \in ChainIds => i \in ChainIds'
      <3>1. ASSUME NEW a \in Asks(queue), a.id # e.id PROVE a \in Asks(queue)'
        BY <1>0, <1>1, <3>1
      <3> QED
        BY <3>1 DEF ChainIds
    <2>2. n \in ChainIds'
      <3>1. call \in {d \in open' : d.kind # "function" /\ d.proxy \notin gone'} /\ call.id = n
        BY <1>2
      <3> QED
        BY <3>1 DEF ChainIds
    <2>3. \A i, j \in Ids : chainOf'[i] # 0 /\ chainOf'[i] = chainOf'[j] => i = j
      <3>1. \A i, j \in Ids : chainOf[i] # 0 /\ chainOf[i] = chainOf[j] => i = j
        BY DEF Awaiting, Chained
      <3> QED
        BY <1>5, <3>1
    <2>4. \A i \in Ids : chainOf'[i] # 0 => i \in ChainIds'
      BY <1>5, <2>1, <2>2 DEF Awaiting, Chained
    <2>5. \A id \in Ids : owed'[id] \in {0, 1}
      BY DEF Awaiting, Chained
    <2>6. bus' => \A g \in Ids : chains'[g] # NoChain => owed'[g] = 1 /\ \E i \in Ids : chainOf'[i] = g
      <3> SUFFICES ASSUME bus', NEW g \in Ids, chains'[g] # NoChain
                   PROVE  owed'[g] = 1 /\ \E i \in Ids : chainOf'[i] = g
        OBVIOUS
      <3>1. CASE g = f
        BY <1>2, <1>5, <3>1
      <3>2. CASE g # f
        <4>1. PICK i \in Ids : chainOf[i] = g /\ owed[g] = 1
          BY <1>6, <3>2 DEF Awaiting, Chained
        <4>2. i # e.id /\ i # n
          <5>1. g # 0
            BY DEF Ids
          <5> QED
            BY <1>4, <3>2, <4>1, <5>1
        <4> QED
          BY <1>5, <4>1, <4>2
      <3> QED
        BY <3>1, <3>2
    <2> QED
      BY <2>3, <2>4, <2>5, <2>6 DEF Chained
  <1> QED
    BY <1>7, <1>8, <1>9, <1>10 DEF Awaiting
\* The answer of a function is at the head: it is reported.
LEMMA AwaitingReturned ==
  ASSUME ServicesType, Awaiting, queue # <<>>, NEW e, e = Head(queue), e.ev = "function",
         UNCHANGED <<bus, curid, open, chains, chainOf, gone>>,
         owed' = [owed EXCEPT ![e.id] = @ - 1],
         Asks(queue') = Asks(Rest), OnceEach(queue')
  PROVE  Awaiting'
  <1>0. Asks(queue)' = Asks(Rest)
    BY DEF Asks
  <1>1. /\ e \in Asks(queue) /\ Asks(Rest) = Asks(queue) \ {e}
        /\ \A a \in Asks(Rest) : a.id # e.id
        /\ \A c \in open : c.id # e.id
    BY Taken DEF Awaiting, AnswerEvents
  <1>2. /\ e.id \in Ids /\ e.id <= curid
        /\ chainOf[e.id] = 0 /\ chains[e.id] = NoChain /\ owed[e.id] = 1
    <2>1. FunctionCall(e)
      BY <1>1 DEF Awaiting, Owned
    <2> QED
      BY <1>1, <2>1, CallFacts DEF Awaiting, GivenOut, FunctionCall
  <1>3. /\ owed'[e.id] = 0 /\ \A i \in Ids : i # e.id => owed'[i] = owed[i]
    BY <1>2 DEF ServicesType
  <1>4. \A a \in open \cup Asks(Rest) : a.id \in Ids /\ a.id # e.id
    BY <1>1, CallFacts
  <1>5. IdsApart'
    BY <1>0, <1>1 DEF Awaiting, IdsApart
  <1>6. GivenOut'
    <2>1. \A id \in Ids : id > curid => owed'[id] = 0
      BY <1>2, <1>3 DEF Awaiting, GivenOut
    <2> QED
      BY <1>0, <1>1, <2>1 DEF Awaiting, GivenOut
  <1>7. Owned'
    <2>1. ASSUME NEW a \in open \cup Asks(Rest)
          PROVE  /\ FunctionCall(a) => FunctionCall(a)'
                 /\ ChainCall(a) => ChainCall(a)'
      <3>1. a.id \in Ids /\ a.id # e.id
        BY <1>4
      <3>2. ASSUME ChainCall(a) PROVE chainOf[a.id] \in Ids /\ chainOf[a.id] # e.id
        <4>1. chains[chainOf[a.id]].proxy \in Proxies
          BY <1>1, <3>2, CallFacts DEF ChainCall
        <4> QED
          BY <1>2, <3>2, <4>1, ProxiesAssumption DEF ChainCall, NoChain
      <3> QED
        BY <1>3, <3>1, <3>2 DEF FunctionCall, ChainCall
    <2>2. /\ \A c \in open : c.proxy \notin gone => IF c.kind = "function" THEN FunctionCall(c) ELSE ChainCall(c)
          /\ \A a \in Asks(Rest) : IF a.ev = "function" THEN FunctionCall(a) ELSE ChainCall(a)
          /\ \A a \in open \cup Asks(Rest) : chains[a.id] # NoChain => chains[a.id].proxy = a.proxy
      BY <1>1 DEF Awaiting, Owned
    <2> QED
      BY <1>0, <2>1, <2>2 DEF Owned
  <1>8. Chained'
    <2>1. \A i \in Ids : i # e.id /\ i \in ChainIds => i \in ChainIds'
      <3>1. ASSUME NEW a \in Asks(queue), a.id # e.id PROVE a \in Asks(queue)'
        BY <1>0, <1>1, <3>1
      <3> QED
        BY <3>1 DEF ChainIds
    <2>2. \A i \in Ids : chainOf'[i] # 0 => i \in ChainIds'
      BY <1>2, <2>1 DEF Awaiting, Chained
    <2>3. \A id \in Ids : owed'[id] \in {0, 1}
      BY <1>3 DEF Awaiting, Chained
    <2>4. \A g \in Ids : chains[g] # NoChain => owed'[g] = owed[g]
      BY <1>2, <1>3
    <2> QED
      BY <2>2, <2>3, <2>4 DEF Awaiting, Chained
  <1> QED
    BY <1>5, <1>6, <1>7, <1>8 DEF Awaiting

\* The application asks for a service, or calls a function.
LEMMA AwaitingAsked ==
  ASSUME ServicesType, Awaiting, NEW n, n = curid + 1, n \in Ids,
         NEW p \in Proxies, p \notin gone, NEW call, call.id = n, call.proxy = p,
         UNCHANGED <<bus, gone>>, Asks(queue') = Asks(queue), OnceEach(queue'),
         curid' = n, open' = open \cup {call}, owed' = [owed EXCEPT ![n] = 1],
         \/ /\ call.kind = "function"
            /\ UNCHANGED <<chains, chainOf>>
         \/ /\ call.kind # "function"
            /\ chains' = [chains EXCEPT ![n] = [proxy |-> p, step |-> 0, data |-> 0]]
            /\ chainOf' = [chainOf EXCEPT ![n] = n]
  PROVE  Awaiting'
  <1>0. Asks(queue)' = Asks(queue)
    BY DEF Asks
  <1>1. /\ chains[n] = NoChain /\ chainOf[n] = 0 /\ owed[n] = 0
        /\ \A a \in open \cup Asks(queue) : a.id \in Ids /\ a.id # n /\ a.id <= n
        /\ \A i \in Ids : chainOf[i] # n
        /\ \A id \in Ids : id > n => id > curid
    BY NextId
  <1>2. /\ owed'[n] = 1
        /\ \A i \in Ids : i # n => chains'[i] = chains[i] /\ chainOf'[i] = chainOf[i] /\ owed'[i] = owed[i]
    BY DEF ServicesType
  <1>3. \/ call.kind = "function" /\ chains'[n] = NoChain /\ chainOf'[n] = 0
        \/ call.kind # "function" /\ chains'[n] # NoChain /\ chains'[n].proxy = p /\ chainOf'[n] = n
    BY <1>1, ProxiesAssumption DEF ServicesType, NoChain
  <1>4. n # 0
    BY DEF Ids
  <1>5. IdsApart'
    <2>1. \A c \in open' : c = call \/ c \in open
      OBVIOUS
    <2>2. \A c, d \in open' : c.id = d.id => c = d
      BY <1>1, <2>1 DEF Awaiting, IdsApart
    <2>3. \A c \in open', a \in Asks(queue) : c.id # a.id
      BY <1>1, <2>1 DEF Awaiting, IdsApart
    <2> QED
      BY <1>0, <2>2, <2>3 DEF IdsApart
  <1>6. GivenOut'
    <2>1. ASSUME NEW id \in Ids, id > n
          PROVE  chains'[id] = NoChain /\ chainOf'[id] = 0 /\ owed'[id] = 0
      <3>1. id > curid /\ id # n
        BY <1>1, <2>1 DEF Ids
      <3> QED
        BY <1>2, <3>1 DEF Awaiting, GivenOut
    <2>2. \A c \in open' : c.id <= n
      BY <1>1 DEF Ids
    <2>3. \A a \in Asks(queue) : a.id <= n /\ a.proxy \notin gone
      BY <1>1 DEF Awaiting, GivenOut
    <2> QED
      BY <1>0, <2>1, <2>2, <2>3 DEF GivenOut
  <1>7. Owned'
    <2>1. ASSUME NEW a \in open \cup Asks(queue)
          PROVE  /\ FunctionCall(a) => FunctionCall(a)'
                 /\ ChainCall(a) => ChainCall(a)'
                 /\ chains'[a.id] # NoChain => chains'[a.id].proxy = a.proxy
      <3>1. a.id \in Ids /\ a.id # n /\ chainOf[a.id] # n
        BY <1>1
      <3>2. chains[a.id] # NoChain => chains[a.id].proxy = a.proxy
        BY DEF Awaiting, Owned
      <3>3. FunctionCall(a) => FunctionCall(a)'
        BY <1>2, <3>1 DEF FunctionCall
      <3>4. ASSUME ChainCall(a) PROVE ChainCall(a)'
        <4>1. PICK g \in Ids : g = chainOf[a.id]
          BY <3>4 DEF ChainCall
        <4>2. chainOf'[a.id] = g /\ chains'[g] = chains[g] /\ owed'[g] = owed[g]
          BY <1>2, <3>1, <4>1
        <4> QED
          BY <3>4, <4>1, <4>2 DEF ChainCall
      <3> QED
        BY <1>2, <3>1, <3>2, <3>3, <3>4
    <2>2. /\ IF call.kind = "function" THEN FunctionCall(call)' ELSE ChainCall(call)'
          /\ chains'[call.id] # NoChain => chains'[call.id].proxy = call.proxy
      BY <1>2, <1>3 DEF FunctionCall, ChainCall
    <2>3. /\ \A c \in open : c.proxy \notin gone => IF c.kind = "function" THEN FunctionCall(c) ELSE ChainCall(c)
          /\ \A a \in Asks(queue) : IF a.ev = "function" THEN FunctionCall(a) ELSE ChainCall(a)
      BY DEF Awaiting, Owned
    <2> QED
      BY <1>0, <2>1, <2>2, <2>3 DEF Owned
  <1>8. Chained'
    <2>1. ChainIds \subseteq ChainIds' /\ (call.kind # "function" => n \in ChainIds')
      BY <1>0 DEF ChainIds
    <2>2. \A i, j \in Ids : chainOf'[i] # 0 /\ chainOf'[i] = chainOf'[j] => i = j
      <3>1. \A i, j \in Ids : chainOf[i] # 0 /\ chainOf[i] = chainOf[j] => i = j
        BY DEF Awaiting, Chained
      <3> QED
        BY <1>1, <1>2, <1>3, <3>1
    <2>3. \A i \in Ids : chainOf'[i] # 0 => i \in ChainIds'
      BY <1>2, <1>3, <2>1 DEF Awaiting, Chained
    <2>4. \A id \in Ids : owed'[id] \in {0, 1}
      BY <1>2 DEF Awaiting, Chained
    <2>5. bus' => \A g \in Ids : chains'[g] # NoChain => owed'[g] = 1 /\ \E i \in Ids : chainOf'[i] = g
      <3> SUFFICES ASSUME bus', NEW g \in Ids, chains'[g] # NoChain
                   PROVE  owed'[g] = 1 /\ \E i \in Ids : chainOf'[i] = g
        OBVIOUS
      <3>1. CASE g = n
        BY <1>2, <1>3, <3>1
      <3>2. CASE g # n
        <4>1. PICK i \in Ids : chainOf[i] = g /\ owed[g] = 1
          BY <1>2, <3>2 DEF Awaiting, Chained
        <4>2. i # n
          <5>1. g # 0
            BY DEF Ids
          <5> QED
            BY <1>1, <4>1, <5>1
        <4> QED
          BY <1>2, <3>2, <4>1, <4>2
      <3> QED
        BY <3>1, <3>2
    <2> QED
      BY <2>2, <2>3, <2>4, <2>5 DEF Chained
  <1> QED
    BY <1>5, <1>6, <1>7, <1>8 DEF Awaiting
\* A proxy is deleted: its calls and chains go, those of others stay.
LEMMA AwaitingDestroyed ==
  ASSUME ServicesType, Awaiting, NEW p \in Proxies,
         UNCHANGED <<bus, curid, open>>, gone' = gone \cup {p},
         chains' = [id \in Ids |-> IF chains[id].proxy = p THEN NoChain ELSE chains[id]],
         chainOf' = [id \in Ids |-> IF chainOf[id] # 0 /\ chains[chainOf[id]].proxy = p
                                      THEN 0 ELSE chainOf[id]],
         owed' = [id \in Ids |-> IF id \in Asked(p) THEN 0 ELSE owed[id]],
         Asks(queue') = {e \in Asks(queue) : e.proxy # p}, OnceEach(queue')
  PROVE  Awaiting'
  <1> DEFINE As == {e \in Asks(queue) : e.proxy # p}
  <1>0. Asks(queue)' = As
    BY DEF Asks
  <1>1. \A a \in open \cup Asks(queue) : a.id \in Ids /\ a.proxy \in Proxies
    BY CallFacts
  <1>2. ASSUME NEW i \in DOMAIN queue, queue[i].proxy = p PROVE queue[i] \in Asks(queue)
    <2>1. queue[i] \in Posted
      BY DEF ServicesType
    <2>2. queue[i].ev \in AnswerEvents
      BY <1>2, <2>1, ProxiesAssumption DEF Posted
    <2> QED
      BY <2>2, AsksPlace
  <1>3. ASSUME NEW id \in Ids, id \in Asked(p)
        PROVE  chains[id].proxy = p \/ \E a \in open \cup Asks(queue) : a.proxy = p /\ a.id = id
    BY <1>2, <1>3 DEF Asked
  <1>4. ASSUME NEW g \in Ids, chains[g] # NoChain, chains[g].proxy # p PROVE g \notin Asked(p)
    BY <1>3, <1>4 DEF Awaiting, Owned
  <1>5. ASSUME NEW a \in open \cup Asks(queue), a.proxy # p, FunctionCall(a)
        PROVE  a.id \notin Asked(p)
    <2>1. ASSUME NEW b \in open \cup Asks(queue), b.id = a.id PROVE b = a
      <3>1. \A c, d \in Asks(queue) : c.id = d.id => c = d
        BY AsksPlace DEF Awaiting, IdsApart, OnceEach
      <3> QED
        BY <2>1, <3>1 DEF Awaiting, IdsApart
    <2>2. chains[a.id].proxy = NoProxy
      BY <1>5 DEF FunctionCall, NoChain
    <2> QED
      BY <1>1, <1>3, <1>5, <2>1, <2>2, ProxiesAssumption
  <1>6. \A id \in Ids : /\ chains'[id] = IF chains[id].proxy = p THEN NoChain ELSE chains[id]
                        /\ chainOf'[id] = IF chainOf[id] # 0 /\ chains[chainOf[id]].proxy = p
                                            THEN 0 ELSE chainOf[id]
                        /\ owed'[id] = IF id \in Asked(p) THEN 0 ELSE owed[id]
    OBVIOUS
  <1>7. ASSUME NEW a \in open \cup Asks(queue), a.proxy # p
        PROVE  /\ FunctionCall(a) => FunctionCall(a)'
               /\ ChainCall(a) => ChainCall(a)'
               /\ chains'[a.id] # NoChain => chains'[a.id].proxy = a.proxy
    <2>1. a.id \in Ids /\ a.proxy \in Proxies
      BY <1>1
    <2>2. FunctionCall(a) => FunctionCall(a)'
      BY <1>5, <1>6, <1>7, <2>1 DEF FunctionCall
    <2>3. ASSUME ChainCall(a) PROVE ChainCall(a)'
      <3> DEFINE g == chainOf[a.id]
      <3>1. g \in Ids /\ g # 0 /\ chains[g].proxy = a.proxy /\ owed[g] = 1
        BY <2>3 DEF ChainCall, Ids
      <3>2. chains[g] # NoChain
        BY <2>1, <3>1, ProxiesAssumption DEF NoChain
      <3>3. g \notin Asked(p)
        BY <1>4, <1>7, <3>1, <3>2
      <3>4. chainOf'[a.id] = g /\ chains'[g] = chains[g] /\ owed'[g] = owed[g]
        BY <1>6, <1>7, <2>1, <3>1, <3>3
      <3> QED
        BY <3>1, <3>4 DEF ChainCall
    <2>4. chains[a.id] # NoChain => chains[a.id].proxy = a.proxy
      BY DEF Awaiting, Owned
    <2> QED
      BY <1>6, <2>1, <2>2, <2>3, <2>4
  <1>8. IdsApart'
    BY <1>0 DEF Awaiting, IdsApart
  <1>9. GivenOut'
    <2>1. \A id \in Ids : id > curid => chains'[id] = NoChain /\ chainOf'[id] = 0 /\ owed'[id] = 0
      BY <1>6 DEF Awaiting, GivenOut
    <2>2. /\ \A c \in open : c.id <= curid
          /\ \A e \in As : e.id <= curid /\ e.proxy \notin gone'
      BY DEF Awaiting, GivenOut
    <2> QED
      BY <1>0, <2>1, <2>2 DEF GivenOut
  <1>10. Owned'
    <2>1. \A c \in open : c.proxy \notin gone' => IF c.kind = "function" THEN FunctionCall(c)' ELSE ChainCall(c)'
      BY <1>7 DEF Awaiting, Owned
    <2>2. \A e \in As : IF e.ev = "function" THEN FunctionCall(e)' ELSE ChainCall(e)'
      BY <1>7 DEF Awaiting, Owned
    <2>3. ASSUME NEW a \in open \cup As, chains'[a.id] # NoChain PROVE chains'[a.id].proxy = a.proxy
      <3>1. CASE a.proxy # p
        BY <1>7, <2>3, <3>1
      <3>2. CASE a.proxy = p
        <4>1. chains[a.id] # NoChain => chains[a.id].proxy = p
          BY <3>2 DEF Awaiting, Owned
        <4> QED
          BY <1>1, <1>6, <2>3, <4>1
      <3> QED
        BY <3>1, <3>2
    <2> QED
      BY <1>0, <2>1, <2>2, <2>3 DEF Owned
  <1>11. Chained'
    <2>1. \A i, j \in Ids : chainOf'[i] # 0 /\ chainOf'[i] = chainOf'[j] => i = j
      BY <1>6 DEF Awaiting, Chained
    <2>2. ASSUME NEW i \in Ids, chainOf'[i] # 0 PROVE i \in ChainIds'
      <3>1. chainOf[i] # 0 /\ chains[chainOf[i]].proxy # p /\ i \in ChainIds
        BY <1>6, <2>2 DEF Awaiting, Chained
      <3>2. PICK a \in open \cup Asks(queue) :
              /\ a.id = i
              /\ \/ a \in open /\ a.kind # "function" /\ a.proxy \notin gone
                 \/ a \in Asks(queue) /\ a.ev = "get"
        BY <3>1 DEF ChainIds
      <3>3. ChainCall(a)
        BY <3>2 DEF Awaiting, Owned
      <3>4. a.proxy # p
        BY <3>1, <3>2, <3>3 DEF ChainCall
      <3> QED
        BY <1>0, <3>2, <3>4 DEF ChainIds
    <2>3. \A id \in Ids : owed'[id] \in {0, 1}
      BY <1>6 DEF Awaiting, Chained
    <2>4. ASSUME bus', NEW f \in Ids, chains'[f] # NoChain
          PROVE  owed'[f] = 1 /\ \E i \in Ids : chainOf'[i] = f
      <3>1. chains[f] # NoChain /\ chains[f].proxy # p
        BY <1>6, <2>4
      <3>2. PICK i \in Ids : chainOf[i] = f /\ owed[f] = 1
        BY <2>4, <3>1 DEF Awaiting, Chained
      <3>3. owed'[f] = 1
        BY <1>4, <1>6, <3>1, <3>2
      <3> QED
        BY <1>6, <3>1, <3>2, <3>3
    <2> QED
      BY <2>1, <2>2, <2>3, <2>4 DEF Chained
  <1> QED
    BY <1>8, <1>9, <1>10, <1>11 DEF Awaiting
-----------------------------------------------------------------------------
(* The ServiceData.                                                         *)

\* A list without repetitions, and a primary that is in it.
WellKept(d) ==
  /\ IsInjective(d.list)
  /\ IF d.list = <<>> THEN d.primary = NoProxy ELSE d.primary \in ToSet(d.list)

\* A list without a proxy.
LEMMA ListWithout ==
  ASSUME NEW l \in Seq(Proxies), NEW p, NEW K \in SUBSET (DOMAIN l),
         \A i \in DOMAIN l : i \in K <=> l[i] # p
  PROVE  LET rest == At(l, K) IN
         /\ rest \in Seq(Proxies)
         /\ ToSet(rest) = ToSet(l) \ {p}
         /\ IsInjective(l) => IsInjective(rest)
         /\ rest # <<>> => Head(rest) \in Proxies /\ Head(rest) \in ToSet(rest)
  <1> DEFINE rest == At(l, K)
  <1>1. /\ rest \in Seq(Proxies)
        /\ \A n \in DOMAIN rest : Nth(K, n) \in K /\ rest[n] = l[Nth(K, n)]
        /\ \A i \in K : \E n \in DOMAIN rest : rest[n] = l[i]
        /\ \A n, m \in DOMAIN rest : Nth(K, n) = Nth(K, m) => n = m
    BY AtElements
  <1> HIDE DEF rest
  <1>3. /\ \A n \in DOMAIN rest : Nth(K, n) \in DOMAIN l /\ rest[n] = l[Nth(K, n)] /\ rest[n] # p
        /\ \A i \in DOMAIN l : l[i] # p => \E n \in DOMAIN rest : rest[n] = l[i]
    BY <1>1
  <1>4. ToSet(rest) = ToSet(l) \ {p}
    <2>1. ASSUME NEW x \in ToSet(rest) PROVE x \in ToSet(l) /\ x # p
      <3>1. PICK n \in DOMAIN rest : rest[n] = x
        BY AsksPlace
      <3> QED
        BY <1>3, <3>1, AsksPlace
    <2>2. ASSUME NEW x \in ToSet(l), x # p PROVE x \in ToSet(rest)
      <3>1. PICK i \in DOMAIN l : l[i] = x
        BY AsksPlace
      <3> QED
        BY <1>3, <2>2, <3>1, AsksPlace
    <2> QED
      BY <2>1, <2>2
  <1>5. ASSUME IsInjective(l) PROVE IsInjective(rest)
    <2>1. ASSUME NEW n \in DOMAIN rest, NEW m \in DOMAIN rest, rest[n] = rest[m] PROVE n = m
      <3>1. Nth(K, n) = Nth(K, m)
        BY <1>3, <1>5, <2>1 DEF IsInjective
      <3> QED
        BY <1>1, <3>1
    <2> QED
      BY <2>1 DEF IsInjective
  <1>6. rest # <<>> => Head(rest) \in Proxies /\ Head(rest) \in ToSet(rest)
    <2>1. rest \in Seq(Proxies)
      BY <1>1
    <2>2. rest # <<>> => 1 \in DOMAIN rest /\ Head(rest) = rest[1] /\ Head(rest) \in Proxies
      BY <2>1
    <2> QED
      BY <2>2, AsksPlace
  <1> QED
    BY <1>1, <1>4, <1>5, <1>6 DEF rest

\* removeProxy() takes the proxy out of the list, and keeps it well.
LEMMA RemovedProxy ==
  ASSUME NEW d \in Service, NEW p \in Proxies, WellKept(d), NEW r, r = RemoveProxy(d, p)
  PROVE  /\ r \in Service /\ r.id = d.id
         /\ ToSet(r.list) = ToSet(d.list) \ {p}
         /\ WellKept(r)
  <1>0. PICK l, K, rest : l = d.list /\ K = {i \in DOMAIN l : l[i] # p} /\ rest = At(l, K)
    OBVIOUS
  <1>1. d.list \in Seq(Proxies) /\ d.id \in ServiceIds /\ d.primary \in Proxies \cup {NoProxy}
    BY DEF Service
  <1>2. /\ rest \in Seq(Proxies)
        /\ ToSet(rest) = ToSet(d.list) \ {p}
        /\ IsInjective(rest)
        /\ rest # <<>> => Head(rest) \in Proxies /\ Head(rest) \in ToSet(rest)
    <2>1. /\ l \in Seq(Proxies) /\ K \in SUBSET (DOMAIN l) /\ IsInjective(l)
          /\ \A i \in DOMAIN l : i \in K <=> l[i] # p
      BY <1>0, <1>1 DEF WellKept
    <2>2. /\ At(l, K) \in Seq(Proxies)
          /\ ToSet(At(l, K)) = ToSet(l) \ {p}
          /\ IsInjective(At(l, K))
          /\ At(l, K) # <<>> => Head(At(l, K)) \in Proxies /\ Head(At(l, K)) \in ToSet(At(l, K))
      BY <2>1, ListWithout
    <2> QED
      BY <1>0, <2>2
  <1>3. /\ r.id = d.id /\ r.list = rest
        /\ r.primary = IF d.primary # p THEN d.primary ELSE IF rest = <<>> THEN NoProxy ELSE Head(rest)
        /\ r = [id |-> r.id, list |-> r.list, primary |-> r.primary]
    BY <1>0 DEF RemoveProxy, Only, Service
  <1>4. r \in Service
    <2>1. r.primary \in Proxies \cup {NoProxy}
      BY <1>1, <1>2, <1>3
    <2>2. r.id \in ServiceIds /\ r.list \in Seq(Proxies)
      BY <1>1, <1>2, <1>3
    <2> QED
      BY <1>3, <2>1, <2>2 DEF Service
  <1>5. IF rest = <<>> THEN r.primary = NoProxy ELSE r.primary \in ToSet(rest)
    <2>1. CASE d.primary = p
      BY <1>2, <1>3, <2>1
    <2>2. CASE d.primary # p /\ d.list # <<>>
      <3>1. d.primary \in ToSet(rest)
        BY <1>2, <2>2 DEF WellKept
      <3>2. rest = <<>> => ToSet(rest) = {}
        BY DEF ToSet
      <3> QED
        BY <1>3, <2>2, <3>1, <3>2
    <2>3. CASE d.primary # p /\ d.list = <<>>
      <3>1. ToSet(d.list) = {}
        BY <2>3 DEF ToSet
      <3>2. rest = <<>>
        BY <1>2, <3>1
      <3> QED
        BY <1>3, <2>3, <3>2 DEF WellKept
    <2> QED
      BY <2>1, <2>2, <2>3
  <1> QED
    BY <1>2, <1>3, <1>4, <1>5 DEF WellKept

\* addProxy() puts in one that is not there.
LEMMA AddedProxy ==
  ASSUME NEW d \in Service, NEW p \in Proxies, WellKept(d), p \notin ToSet(d.list),
         NEW r, r = AddProxy(d, p)
  PROVE  /\ r \in Service /\ r.id = d.id
         /\ ToSet(r.list) = ToSet(d.list) \cup {p}
         /\ WellKept(r)
  <1>0. PICK l, more : l = d.list /\ more = Append(l, p)
    OBVIOUS
  <1>1. l \in Seq(Proxies) /\ d.id \in ServiceIds /\ d.primary \in Proxies \cup {NoProxy}
    BY <1>0 DEF Service
  <1>2. /\ more \in Seq(Proxies) /\ DOMAIN more = DOMAIN l \cup {Len(l) + 1} /\ more # <<>>
        /\ \A i \in DOMAIN l : more[i] = l[i]
        /\ more[Len(l) + 1] = p
    BY <1>0, <1>1
  <1>3. /\ r.id = d.id /\ r.list = more
        /\ r.primary = IF d.primary = NoProxy THEN p ELSE d.primary
        /\ r = [id |-> r.id, list |-> r.list, primary |-> r.primary]
    BY <1>0 DEF AddProxy, Service
  <1>4. ToSet(more) = ToSet(l) \cup {p}
    BY <1>2 DEF ToSet
  <1>5. IsInjective(more)
    <2>1. \A i \in DOMAIN l : l[i] # p
      BY <1>0 DEF ToSet
    <2> QED
      BY <1>0, <1>2, <2>1 DEF IsInjective, WellKept
  <1>6. r \in Service
    BY <1>1, <1>2, <1>3 DEF Service
  <1>7. r.primary \in ToSet(more)
    BY <1>0, <1>3, <1>4 DEF WellKept
  <1> QED
    BY <1>0, <1>2, <1>3, <1>4, <1>5, <1>6, <1>7 DEF WellKept
\* The objects and the pointers to them, before those that nothing points to
\* any more are destroyed.
Ready(made, tab) ==
  /\ data' \in Seq(Service) /\ alive \cup made \subseteq DOMAIN data'
  /\ \A k \in alive \cup made :
       /\ ToSet(data'[k].list) = {p \in Proxies : service'[p] = k} /\ WellKept(data'[k])
       /\ data'[k].id <= services' /\ tab[data'[k].id] = k
  /\ \A s \in ServiceIds : tab[s] # 0 => tab[s] \in alive \cup made /\ data'[tab[s]].id = s
  /\ \A p \in Proxies : service'[p] \in {0} \cup alive \cup made /\ (p \in gone' => service'[p] = 0)
  /\ \A id \in Ids : chains'[id].data \in {0} \cup alive \cup made
  /\ \A e \in ToSet(queue') : e.ev = "result" => e.arg \in {0} \cup alive \cup made

\* What the events in a queue name.
Named(q, s) ==
  \A e \in ToSet(q) : /\ e.ev \in AnswerEvents => e.arg <= s
                      /\ e.ev \in {"event", "callback"} => e.arg \in 1 .. s

\* Then they are, and what is left agrees.
LEMMA Pointed ==
  ASSUME NEW made, NEW tab, Ready(made, tab), Point(service', queue', chains', made, tab),
         Named(queue', services'), tab \in [ServiceIds -> Nat]
  PROVE  /\ Pointing' /\ DataAgree'
         /\ alive' \subseteq DOMAIN data' /\ table' \in [ServiceIds -> Nat]
  <1> DEFINE all  == alive \cup made
             lost == {k \in all : ~Held(k, service', queue', chains')}
  <1>1. /\ alive' = all \ lost
        /\ table' = [s \in ServiceIds |-> IF \E k \in lost : data'[k].id = s THEN 0 ELSE tab[s]]
    BY DEF Point
  <1>2. ASSUME NEW k \in all, Held(k, service', queue', chains') PROVE k \in alive'
    BY <1>1, <1>2
  <1>3. /\ alive' \subseteq all /\ all \subseteq DOMAIN data'
        /\ \A k \in all : data'[k].id \in ServiceIds
    <2>1. /\ all \subseteq DOMAIN data'
          /\ \A k \in DOMAIN data' : data'[k] \in Service
      BY DEF Ready
    <2> QED
      BY <1>1, <2>1 DEF Service
  <1>4. ASSUME NEW s \in ServiceIds
        PROVE  table'[s] = IF \E k \in lost : data'[k].id = s THEN 0 ELSE tab[s]
    BY <1>1
  <1> HIDE DEF lost
  <1>5. lost \subseteq all /\ \A k \in lost : k \notin alive'
    BY <1>1 DEF lost
  <1>6. \A k \in all : k \notin alive' => k \in lost
    BY <1>1
  <1> HIDE DEF all
  <1>7. Pointing'
    <2>1. ASSUME NEW p \in Proxies
          PROVE  service'[p] \in {0} \cup alive' /\ (p \in gone' => service'[p] = 0)
      <3>1. service'[p] \in {0} \cup all /\ (p \in gone' => service'[p] = 0)
        BY DEF Ready, all
      <3>2. service'[p] \in all => service'[p] \in alive'
        BY <1>2 DEF Held
      <3> QED
        BY <3>1, <3>2
    <2>2. ASSUME NEW id \in Ids PROVE chains'[id].data \in {0} \cup alive'
      <3>1. chains'[id].data \in {0} \cup all
        BY DEF Ready, all
      <3>2. chains'[id].data \in all => chains'[id].data \in alive'
        BY <1>2 DEF Held
      <3> QED
        BY <3>1, <3>2
    <2>3. ASSUME NEW e \in ToSet(queue'), e.ev = "result" PROVE e.arg \in {0} \cup alive'
      <3>1. e.arg \in {0} \cup all
        BY <2>3 DEF Ready, all
      <3>2. PICK i \in DOMAIN queue' : queue'[i] = e
        BY AsksPlace
      <3>3. e.arg \in all => e.arg \in alive'
        BY <1>2, <2>3, <3>2 DEF Held
      <3> QED
        BY <3>1, <3>3
    <2>4. \A k \in alive' : data'[k].id <= services'
      BY <1>3 DEF Ready, all
    <2>5. ToSet(queue)' = ToSet(queue')
      BY DEF ToSet
    <2> QED
      BY <2>1, <2>2, <2>3, <2>4, <2>5 DEF Pointing, Named
  <1>8. ListsAgree'
    <2>1. \A k \in alive' : ToSet(data'[k].list) = {p \in Proxies : service'[p] = k} /\ WellKept(data'[k])
      BY <1>3 DEF Ready, all
    <2>2. \A k : ToSet(data[k].list)' = ToSet(data'[k].list) /\ IsInjective(data[k].list)' = IsInjective(data'[k].list)
      BY DEF ToSet, IsInjective
    <2> QED
      BY <2>1, <2>2 DEF ListsAgree, WellKept
  <1>9. OneData'
    <2>1. ASSUME NEW s \in ServiceIds, table'[s] # 0
          PROVE  table'[s] \in alive' /\ data'[table'[s]].id = s
      <3>1. /\ table'[s] = tab[s] /\ tab[s] \in all /\ data'[tab[s]].id = s
            /\ ~\E k \in lost : data'[k].id = s
        BY <1>4, <2>1 DEF Ready, all
      <3> QED
        BY <1>6, <3>1
    <2>2. ASSUME NEW k \in alive' PROVE table'[data'[k].id] = k
      <3>1. k \in all /\ tab[data'[k].id] = k /\ data'[k].id \in ServiceIds
        BY <1>3 DEF Ready, all
      <3>2. \A j \in lost : tab[data'[j].id] = j /\ j # k
        BY <1>5 DEF Ready, all
      <3> QED
        BY <1>4, <3>1, <3>2
    <2> QED
      BY <2>1, <2>2 DEF OneData
  <1>10. table' \in [ServiceIds -> Nat]
    BY <1>1
  <1> QED
    BY <1>3, <1>7, <1>8, <1>9, <1>10 DEF DataAgree

\* Lists as the pointers say, in the terms of Ready.
LEMMA AsItWas ==
  ASSUME ServicesType, Pointing, DataAgree
  PROVE  /\ \A k \in alive :
              /\ k \in DOMAIN data /\ k \in Nat /\ k # 0 /\ data[k] \in Service
              /\ ToSet(data[k].list) = {p \in Proxies : service[p] = k} /\ WellKept(data[k])
              /\ data[k].id \in ServiceIds /\ data[k].id <= services /\ table[data[k].id] = k
         /\ \A s \in ServiceIds : table[s] # 0 => table[s] \in alive /\ data[table[s]].id = s
  <1>1. ASSUME NEW k \in alive
        PROVE  k \in DOMAIN data /\ k \in Nat /\ k # 0 /\ data[k] \in Service /\ data[k].id \in ServiceIds
    <2>1. k \in DOMAIN data /\ data \in Seq(Service)
      BY DEF ServicesType
    <2>2. k \in Nat /\ k # 0 /\ data[k] \in Service
      BY <2>1
    <2> QED
      BY <2>1, <2>2 DEF Service
  <1> QED
    BY <1>1 DEF DataAgree, ListsAgree, OneData, WellKept, Pointing

\* Nothing is made and no proxy changes its service.
LEMMA ReadyAsItWas ==
  ASSUME ServicesType, Pointing, DataAgree, UNCHANGED <<data, service, gone>>,
         services' \in Nat, services <= services',
         \A id \in Ids : chains'[id].data \in {0} \cup alive,
         \A e \in ToSet(queue') : e.ev = "result" => e.arg \in {0} \cup alive
  PROVE  Ready({}, table)
  <1>1. \A k \in alive : data'[k].id <= services'
    <2>1. services \in Nat
      BY DEF ServicesType
    <2>2. \A k \in alive : data[k].id \in Nat /\ data[k].id <= services
      BY AsItWas DEF ServiceIds
    <2> QED
      BY <2>1, <2>2
  <1> QED
    BY <1>1, AsItWas DEF Ready, ServicesType, Pointing
\* A return value names service s: what it points to.
LEMMA ParsedFacts ==
  ASSUME ServicesType, Pointing, DataAgree, NEW s \in 0 .. MaxGets + MaxCalls
  PROVE  /\ Parsed(s) \in {0} \cup alive \cup Fresh(s) /\ Parsed(s) \in Nat
         /\ Registered(s) \in [ServiceIds -> Nat]
         /\ s # 0 => s \in ServiceIds
  <1>1. s # 0 => s \in ServiceIds
    BY BoundsAssumption DEF ServiceIds
  <1>2. Len(data) \in Nat /\ table \in [ServiceIds -> Nat]
    BY DEF ServicesType
  <1>3. s # 0 => table[s] \in Nat /\ (table[s] # 0 => table[s] \in alive)
    BY <1>1, <1>2, AsItWas
  <1>4. Parsed(s) \in {0} \cup alive \cup Fresh(s) /\ Parsed(s) \in Nat
    BY <1>2, <1>3 DEF Parsed, Fresh
  <1> QED
    BY <1>1, <1>2, <1>4 DEF Registered

\* ... and the object is made if there is none.
LEMMA ReadyMade ==
  ASSUME ServicesType, Pointing, DataAgree, NEW s \in 0 .. MaxGets + MaxCalls, s <= services,
         MakeData(s), UNCHANGED <<service, gone, services>>,
         \A id \in Ids : chains'[id].data \in {0} \cup alive \cup Fresh(s),
         \A e \in ToSet(queue') : e.ev = "result" => e.arg \in {0} \cup alive \cup Fresh(s)
  PROVE  Ready(Fresh(s), Registered(s))
  <1>1. CASE Fresh(s) = {}
    <2>1. data' = data
      BY <1>1 DEF MakeData
    <2>2. Registered(s) = table
      <3>1. s = 0 \/ table[s] # 0
        BY <1>1 DEF Fresh
      <3>2. table \in [ServiceIds -> Nat]
        BY DEF ServicesType
      <3> QED
        BY <3>1, <3>2 DEF Registered, Parsed
    <2>3. Ready({}, table)
      <3>1. services' \in Nat /\ services <= services'
        BY DEF ServicesType
      <3> QED
        BY <1>1, <2>1, <3>1, ReadyAsItWas
    <2> QED
      BY <1>1, <2>2, <2>3
  <1>2. CASE Fresh(s) # {}
    <2> DEFINE n == Len(data) + 1
               new == [id |-> s, list |-> <<>>, primary |-> NoProxy]
    <2>1. /\ s # 0 /\ s \in ServiceIds /\ table[s] = 0 /\ Fresh(s) = {n}
          /\ data' = Append(data, new) /\ Registered(s) = [table EXCEPT ![s] = n]
      BY <1>2, ParsedFacts DEF Fresh, MakeData, Registered, Parsed
    <2>2. new \in Service /\ ToSet(new.list) = {} /\ WellKept(new) /\ new.id = s
      BY <2>1 DEF Service, ToSet, WellKept, IsInjective
    <2> HIDE DEF new
    <2>3. /\ data' \in Seq(Service) /\ n \in DOMAIN data' /\ data'[n] = new
          /\ n \notin DOMAIN data /\ n # 0 /\ n \in Nat
          /\ \A k \in DOMAIN data : k \in DOMAIN data' /\ data'[k] = data[k]
      BY <2>1, <2>2 DEF ServicesType
    <2> HIDE DEF n
    <2>4. /\ \A k \in alive :
               /\ k \in DOMAIN data /\ data[k].id \in ServiceIds
               /\ ToSet(data[k].list) = {p \in Proxies : service[p] = k} /\ WellKept(data[k])
               /\ data[k].id <= services /\ table[data[k].id] = k /\ k # 0
          /\ \A u \in ServiceIds : table[u] # 0 => table[u] \in alive /\ data[table[u]].id = u
      BY AsItWas
    <2>5. table \in [ServiceIds -> Nat] /\ \A p \in Proxies : service[p] \in {0} \cup alive /\ (p \in gone => service[p] = 0)
      BY DEF ServicesType, Pointing
    <2>6. /\ Registered(s)[s] = n
          /\ \A u \in ServiceIds : u # s => Registered(s)[u] = table[u]
      BY <2>1, <2>5
    <2>7. ASSUME NEW k \in alive
          PROVE  /\ k \in DOMAIN data' /\ data'[k] = data[k]
                 /\ Registered(s)[data'[k].id] = k
      BY <2>1, <2>3, <2>4, <2>6
    <2>8. /\ ToSet(data'[n].list) = {p \in Proxies : service'[p] = n} /\ WellKept(data'[n])
          /\ data'[n].id <= services' /\ Registered(s)[data'[n].id] = n
      <3>1. \A p \in Proxies : service'[p] # n
        BY <2>3, <2>4, <2>5
      <3> QED
        BY <2>2, <2>3, <2>6, <3>1
    <2>9. \A u \in ServiceIds : Registered(s)[u] # 0 =>
            Registered(s)[u] \in alive \cup {n} /\ data'[Registered(s)[u]].id = u
      BY <2>2, <2>3, <2>4, <2>6, <2>7
    <2>10. \A k \in alive : ToSet(data'[k].list) = {p \in Proxies : service'[p] = k} /\ WellKept(data'[k])
                            /\ data'[k].id <= services'
      BY <2>4, <2>7
    <2> QED
      BY <2>1, <2>3, <2>5, <2>7, <2>8, <2>9, <2>10 DEF Ready
  <1> QED
    BY <1>1, <1>2

\* p leaves the list it is in.
LEMMA Unlisted ==
  ASSUME ServicesType, Pointing, DataAgree, NEW p \in Proxies
  PROVE  /\ Without(p) \in Seq(Service) /\ DOMAIN Without(p) = DOMAIN data /\ Len(Without(p)) = Len(data)
         /\ \A k \in alive :
              /\ Without(p)[k] \in Service
              /\ Without(p)[k].id = data[k].id
              /\ ToSet(Without(p)[k].list) = {q \in Proxies : service[q] = k} \ {p}
              /\ WellKept(Without(p)[k])
  <1>1. ASSUME NEW k \in alive
        PROVE  /\ Without(p)[k] \in Service
               /\ Without(p)[k].id = data[k].id
               /\ ToSet(Without(p)[k].list) = {q \in Proxies : service[q] = k} \ {p}
               /\ WellKept(Without(p)[k])
    <2>1. /\ k \in DOMAIN data /\ data[k] \in Service /\ WellKept(data[k])
          /\ ToSet(data[k].list) = {q \in Proxies : service[q] = k}
      BY AsItWas
    <2>2. CASE k = service[p]
      <3>1. PICK d, r : d = data[k] /\ r = RemoveProxy(d, p)
        OBVIOUS
      <3>2. Without(p)[k] = r
        BY <2>1, <2>2, <3>1 DEF Without
      <3>3. /\ d \in Service /\ WellKept(d) /\ d.id = data[k].id
            /\ ToSet(d.list) = {q \in Proxies : service[q] = k}
        BY <2>1, <3>1
      <3>4. /\ r \in Service /\ r.id = d.id
            /\ ToSet(r.list) = ToSet(d.list) \ {p}
            /\ WellKept(r)
        BY <3>1, <3>3, RemovedProxy
      <3> QED
        BY <3>2, <3>3, <3>4
    <2>3. CASE k # service[p]
      <3>1. Without(p)[k] = data[k]
        BY <2>1, <2>3 DEF Without
      <3> QED
        BY <2>1, <2>3, <3>1
    <2> QED
      BY <2>2, <2>3
  <1>2. data \in Seq(Service) /\ service[p] \in {0} \cup alive
    BY DEF ServicesType, Pointing
  <1>3. ASSUME NEW k \in DOMAIN data PROVE Without(p)[k] \in Service
    <2>1. k # 0 /\ data[k] \in Service
      BY <1>2
    <2>2. CASE k = service[p]
      BY <1>1, <1>2, <2>1, <2>2
    <2>3. CASE k # service[p]
      BY <2>1, <2>3 DEF Without
    <2> QED
      BY <2>2, <2>3
  <1>4. Without(p) \in [1 .. Len(data) -> Service] /\ Len(data) \in Nat /\ DOMAIN data = 1 .. Len(data)
    <2>1. Len(data) \in Nat /\ DOMAIN data = 1 .. Len(data)
      BY <1>2
    <2>2. DOMAIN Without(p) = DOMAIN data /\ Without(p) = [k \in DOMAIN data |-> Without(p)[k]]
      BY DEF Without
    <2> QED
      BY <1>3, <2>1, <2>2
  <1>5. Without(p) \in Seq(Service) /\ DOMAIN Without(p) = DOMAIN data /\ Len(Without(p)) = Len(data)
    BY <1>4
  <1> QED
    BY <1>1, <1>5
\* p has no service from now on.
LEMMA ReadyWithout ==
  ASSUME ServicesType, Pointing, DataAgree, NEW p \in Proxies,
         data' = Without(p), service' = [service EXCEPT ![p] = 0],
         gone' \subseteq gone \cup {p}, UNCHANGED services,
         \A id \in Ids : chains'[id].data \in {0} \cup alive,
         \A e \in ToSet(queue') : e.ev = "result" => e.arg \in {0} \cup alive
  PROVE  Ready({}, table)
  <1>1. /\ data' \in Seq(Service) /\ DOMAIN data' = DOMAIN data
        /\ \A k \in alive : /\ data'[k].id = data[k].id
                            /\ ToSet(data'[k].list) = {q \in Proxies : service[q] = k} \ {p}
                            /\ WellKept(data'[k])
    BY Unlisted
  <1>2. /\ \A k \in alive : /\ k \in DOMAIN data /\ k # 0
                            /\ data[k].id <= services /\ table[data[k].id] = k
        /\ \A s \in ServiceIds : table[s] # 0 => table[s] \in alive /\ data[table[s]].id = s
    BY AsItWas
  <1>3. /\ service'[p] = 0
        /\ \A q \in Proxies : q # p => service'[q] = service[q]
    BY DEF ServicesType
  <1>4. \A k \in alive : {q \in Proxies : service[q] = k} \ {p} = {q \in Proxies : service'[q] = k}
    BY <1>2, <1>3
  <1>5. \A q \in Proxies : service'[q] \in {0} \cup alive /\ (q \in gone' => service'[q] = 0)
    BY <1>3 DEF Pointing
  <1> QED
    BY <1>1, <1>2, <1>4, <1>5 DEF Ready

\* p takes k into service.
LEMMA ReadyAssigned ==
  ASSUME ServicesType, Pointing, DataAgree, NEW p \in Proxies, NEW k \in alive, p \notin gone,
         data' = Assigned(p, k), service' = [service EXCEPT ![p] = k],
         UNCHANGED <<gone, services>>,
         \A id \in Ids : chains'[id].data \in {0} \cup alive,
         \A e \in ToSet(queue') : e.ev = "result" => e.arg \in {0} \cup alive
  PROVE  Ready({}, table)
  <1> DEFINE w == Without(p)
  <1>1. /\ w \in Seq(Service) /\ DOMAIN w = DOMAIN data /\ Len(w) = Len(data)
        /\ \A i \in alive : /\ w[i] \in Service /\ w[i].id = data[i].id
                            /\ ToSet(w[i].list) = {q \in Proxies : service[q] = i} \ {p}
                            /\ WellKept(w[i])
    BY Unlisted
  <1>2. /\ \A i \in alive : /\ i \in DOMAIN data /\ i # 0 /\ i \in Nat
                            /\ data[i].id <= services /\ table[data[i].id] = i
        /\ \A s \in ServiceIds : table[s] # 0 => table[s] \in alive /\ data[table[s]].id = s
    BY AsItWas
  <1> HIDE DEF w
  <1>3. PICK d, r : d = w[k] /\ r = AddProxy(d, p)
    OBVIOUS
  <1>4. /\ r \in Service /\ r.id = data[k].id
        /\ ToSet(r.list) = {q \in Proxies : service[q] = k} \cup {p}
        /\ WellKept(r)
    <2>1. /\ d \in Service /\ d.id = data[k].id
          /\ ToSet(d.list) = {q \in Proxies : service[q] = k} \ {p}
          /\ WellKept(d)
      BY <1>1, <1>3
    <2>2. /\ r \in Service /\ r.id = d.id
          /\ ToSet(r.list) = ToSet(d.list) \cup {p}
          /\ WellKept(r)
      BY <1>3, <2>1, AddedProxy
    <2> QED
      BY <2>1, <2>2
  <1>5. /\ DOMAIN data' = DOMAIN data /\ data'[k] = r
        /\ \A i \in DOMAIN data : i # k => data'[i] = w[i]
    BY <1>2, <1>3 DEF Assigned, w
  <1>6. data' \in Seq(Service)
    <2>1. Len(data) \in Nat /\ DOMAIN data = 1 .. Len(data)
      BY DEF ServicesType
    <2>2. \A i \in DOMAIN data : data'[i] \in Service
      BY <1>1, <1>4, <1>5
    <2>3. data' = [i \in DOMAIN data |-> data'[i]]
      BY DEF Assigned
    <2>4. data' \in [1 .. Len(data) -> Service]
      BY <2>1, <2>2, <2>3
    <2> QED
      BY <2>1, <2>4
  <1>7. /\ service'[p] = k
        /\ \A q \in Proxies : q # p => service'[q] = service[q]
    BY <1>2 DEF ServicesType
  <1>8. ASSUME NEW i \in alive
        PROVE  /\ data'[i].id = data[i].id /\ WellKept(data'[i])
               /\ ToSet(data'[i].list) = {q \in Proxies : service'[q] = i}
    <2>1. CASE i = k
      BY <1>4, <1>5, <1>7, <2>1
    <2>2. CASE i # k
      BY <1>1, <1>2, <1>5, <1>7, <2>2
    <2> QED
      BY <2>1, <2>2
  <1>9. \A q \in Proxies : service'[q] \in {0} \cup alive /\ (q \in gone' => service'[q] = 0)
    BY <1>7 DEF Pointing
  <1> QED
    BY <1>2, <1>5, <1>6, <1>8, <1>9 DEF Ready

\* p selects a new service, the first of its ServiceData.
LEMMA ReadySelected ==
  ASSUME ServicesType, Pointing, DataAgree, NEW p \in Proxies, p \notin gone,
         NEW s, s = services + 1, s \in ServiceIds, NEW n, n = Len(data) + 1,
         data' = Append(Without(p), [id |-> s, list |-> <<p>>, primary |-> p]),
         service' = [service EXCEPT ![p] = n], services' = s,
         UNCHANGED <<gone, chains, queue>>
  PROVE  Ready({n}, [table EXCEPT ![s] = n])
  <1> DEFINE w   == Without(p)
             new == [id |-> s, list |-> <<p>>, primary |-> p]
             tab == [table EXCEPT ![s] = n]
  <1>1. /\ w \in Seq(Service) /\ DOMAIN w = DOMAIN data /\ Len(w) = Len(data)
        /\ \A i \in alive : /\ w[i].id = data[i].id
                            /\ ToSet(w[i].list) = {q \in Proxies : service[q] = i} \ {p}
                            /\ WellKept(w[i])
    BY Unlisted
  <1>2. /\ \A i \in alive : /\ i \in DOMAIN data /\ i # 0 /\ data[i].id \in ServiceIds
                            /\ data[i].id <= services /\ table[data[i].id] = i
        /\ \A u \in ServiceIds : table[u] # 0 => table[u] \in alive /\ data[table[u]].id = u
    BY AsItWas
  <1>3. new \in Service /\ ToSet(new.list) = {p} /\ WellKept(new) /\ new.id = s
    BY DEF Service, ToSet, WellKept, IsInjective
  <1> HIDE DEF w, new
  <1>4. /\ data' \in Seq(Service) /\ n \in DOMAIN data' /\ data'[n] = new
        /\ n \notin DOMAIN data /\ n # 0 /\ n \in Nat
        /\ \A i \in DOMAIN data : i \in DOMAIN data' /\ data'[i] = w[i]
    <2>1. data' = Append(w, new) /\ Len(data) \in Nat /\ DOMAIN data = 1 .. Len(data)
      BY DEF w, new, ServicesType
    <2>2. /\ n \in Nat /\ n # 0 /\ n \notin DOMAIN data /\ n = Len(w) + 1
          /\ \A i \in DOMAIN data : i \in DOMAIN w
      BY <1>1, <2>1
    <2>3. PICK v, m : v = w /\ m = new
      OBVIOUS
    <2>4. /\ Append(v, m) \in Seq(Service)
          /\ Len(v) + 1 \in DOMAIN Append(v, m) /\ Append(v, m)[Len(v) + 1] = m
          /\ \A i \in DOMAIN v : i \in DOMAIN Append(v, m) /\ Append(v, m)[i] = v[i]
      <3>1. v \in Seq(Service) /\ m \in Service
        BY <1>1, <1>3, <2>3
      <3> QED
        BY <3>1
    <2> QED
      BY <2>1, <2>2, <2>3, <2>4
  <1>5. /\ service'[p] = n
        /\ \A q \in Proxies : q # p => service'[q] = service[q]
        /\ \A q \in Proxies : service[q] \in {0} \cup alive /\ (q \in gone => service[q] = 0)
    BY <1>4 DEF ServicesType, Pointing
  <1>6. services \in Nat /\ s = services + 1 /\ \A u \in ServiceIds : u \in Nat
    BY DEF ServicesType, ServiceIds
  <1>7. tab[s] = n /\ \A u \in ServiceIds : u # s => tab[u] = table[u]
    BY DEF ServicesType
  <1> HIDE DEF tab
  <1>8. ASSUME NEW i \in alive
        PROVE  /\ i \in DOMAIN data' /\ data'[i].id = data[i].id /\ WellKept(data'[i])
               /\ ToSet(data'[i].list) = {q \in Proxies : service'[q] = i}
               /\ data'[i].id <= services' /\ tab[data'[i].id] = i
    <2>1. i \in DOMAIN data' /\ data'[i] = w[i] /\ i # n /\ data'[i].id = data[i].id
      BY <1>1, <1>2, <1>4
    <2>2. ToSet(data'[i].list) = {q \in Proxies : service'[q] = i}
      BY <1>1, <1>2, <1>5, <2>1
    <2>3. data[i].id \in Nat /\ data[i].id <= services
      BY <1>2, <1>6
    <2>4. data[i].id # s /\ data[i].id <= s
      BY <1>6, <2>3
    <2>5. WellKept(data'[i])
      BY <1>1, <2>1
    <2>6. data'[i].id <= services'
      BY <2>1, <2>4
    <2>7. tab[data'[i].id] = i
      BY <1>2, <1>7, <2>1, <2>4
    <2> QED
      BY <2>1, <2>2, <2>5, <2>6, <2>7
  <1>9. /\ ToSet(data'[n].list) = {q \in Proxies : service'[q] = n} /\ WellKept(data'[n])
        /\ data'[n].id <= services' /\ tab[data'[n].id] = n
    <2>1. \A q \in Proxies : service'[q] = n <=> q = p
      BY <1>2, <1>4, <1>5
    <2>2. s <= s
      BY <1>6
    <2>3. ToSet(data'[n].list) = {q \in Proxies : service'[q] = n}
      BY <1>3, <1>4, <2>1
    <2>4. WellKept(data'[n]) /\ data'[n].id = s
      BY <1>3, <1>4
    <2> QED
      BY <1>7, <2>2, <2>3, <2>4
  <1>10. ASSUME NEW u \in ServiceIds, tab[u] # 0
         PROVE  tab[u] \in alive \cup {n} /\ data'[tab[u]].id = u
    <2>1. CASE u = s
      <3>1. tab[u] = n /\ data'[n].id = s
        BY <1>3, <1>4, <1>7, <2>1
      <3> QED
        BY <2>1, <3>1
    <2>2. CASE u # s
      <3>1. tab[u] = table[u] /\ table[u] \in alive /\ data[table[u]].id = u
        BY <1>2, <1>7, <1>10, <2>2
      <3> QED
        BY <1>8, <3>1
    <2> QED
      BY <2>1, <2>2
  <1>11. \A q \in Proxies : service'[q] \in {0} \cup alive \cup {n} /\ (q \in gone' => service'[q] = 0)
    BY <1>5
  <1>12. /\ \A id \in Ids : chains'[id].data \in {0} \cup alive \cup {n}
         /\ \A e \in ToSet(queue') : e.ev = "result" => e.arg \in {0} \cup alive \cup {n}
    BY DEF Pointing
  <1>13. Ready({n}, tab)
    <2>1. data' \in Seq(Service) /\ alive \cup {n} \subseteq DOMAIN data'
      BY <1>4, <1>8
    <2>2. \A k \in alive \cup {n} :
            /\ ToSet(data'[k].list) = {q \in Proxies : service'[q] = k} /\ WellKept(data'[k])
            /\ data'[k].id <= services' /\ tab[data'[k].id] = k
      BY <1>8, <1>9
    <2>3. \A u \in ServiceIds : tab[u] # 0 => tab[u] \in alive \cup {n} /\ data'[tab[u]].id = u
      BY <1>10
    <2> QED
      BY <1>11, <1>12, <2>1, <2>2, <2>3 DEF Ready
  <1> QED
    BY <1>13 DEF tab
-----------------------------------------------------------------------------
(* Every step keeps the invariant.                                          *)

\* No object is made, destroyed or moved.
LEMMA Unmoved ==
  ASSUME ServicesType, Pointing, DataAgree, UNCHANGED <<data, alive, table, service, gone>>,
         services' \in Nat, services <= services',
         \A id \in Ids : chains'[id].data \in {0} \cup alive,
         \A e \in ToSet(queue') : e.ev = "result" => e.arg \in {0} \cup alive,
         Named(queue', services')
  PROVE  Pointing' /\ DataAgree'
  <1>1. DataAgree'
    BY DEF DataAgree, ListsAgree, OneData
  <1>2. ASSUME NEW k \in alive PROVE data[k].id <= services'
    <2>1. data[k].id \in Nat /\ data[k].id <= services /\ services \in Nat
      BY AsItWas DEF ServicesType, ServiceIds
    <2> QED
      BY <2>1
  <1>3. ToSet(queue)' = ToSet(queue')
    BY DEF ToSet
  <1>4. \A p \in Proxies : service[p] \in {0} \cup alive /\ (p \in gone => service[p] = 0)
    BY DEF Pointing
  <1> QED
    BY <1>1, <1>2, <1>3, <1>4 DEF Pointing, Named

\* The events in the queue as Pointing has them.
LEMMA NamedAsItWas ==
  ASSUME ServicesType, Pointing, services' \in Nat, services <= services'
  PROVE  /\ Named(queue, services')
         /\ \A e \in ToSet(queue) : e.ev = "result" => e.arg \in {0} \cup alive
  <1>1. ASSUME NEW e \in ToSet(queue)
        PROVE  /\ e.ev \in AnswerEvents => e.arg <= services'
               /\ e.ev \in {"event", "callback"} => e.arg \in 1 .. services'
    <2>1. services \in Nat
      BY DEF ServicesType
    <2>2. e \in Posted
      BY DEF ServicesType, ToSet
    <2>3. e.arg \in Nat
      BY <2>2, BoundsAssumption DEF Posted
    <2>4. /\ e.ev \in AnswerEvents => e.arg <= services
          /\ e.ev \in {"event", "callback"} => e.arg \in 1 .. services
      BY DEF Pointing
    <2> QED
      BY <2>1, <2>3, <2>4
  <1> QED
    BY <1>1 DEF Named, Pointing

\* No event is under way to proxies that change.
LEMMA RoutedFrame ==
  ASSUME ServicesType, RoutedToHolders, UNCHANGED inside,
         Idle \/ UNCHANGED <<service, gone, data>>
  PROVE  RoutedToHolders'
  <1>1. CASE Idle
    <2>1. DOMAIN inside'.rest = {}
      BY <1>1 DEF Idle, Outside
    <2> QED
      BY <2>1 DEF RoutedToHolders
  <1>2. CASE UNCHANGED <<service, gone, data>>
    BY <1>2 DEF RoutedToHolders
  <1> QED
    BY <1>1, <1>2

LEMMA GetServiceStep ==
  ASSUME ServicesInv, NEW p \in Proxies, GetService(p)
  PROVE  ServicesInv'
  <1> USE DEF ServicesInv
  <1> DEFINE n == curid + 1
             call == Call(n, "version", p)
  <1>1. /\ n \in Ids /\ n \in Nat /\ curid' = n /\ open' = open \cup {call}
        /\ call \in [id : Ids, kind : Kinds, proxy : Proxies]
        /\ call.id = n /\ call.kind = "version" /\ call.proxy = p /\ p \notin gone
    BY DEF GetService, Make, Call, Kinds, ServicesType
  <1>2. /\ chains' = [chains EXCEPT ![n] = [proxy |-> p, step |-> 0, data |-> 0]]
        /\ chainOf' = [chainOf EXCEPT ![n] = n] /\ owed' = [owed EXCEPT ![n] = 1]
        /\ UNCHANGED <<serverVars, bus, queue, service, gone, data, alive, table, inside>>
    BY DEF GetService
  <1> HIDE DEF n, call
  <1>3. [proxy |-> p, step |-> 0, data |-> 0] \in Chain
    BY DEF Chain
  <1>4. ServicesType'
    BY SMTT(30), <1>1, <1>2, <1>3 DEF ServicesType, serverVars
  <1>5. Awaiting'
    <2>1. n = curid + 1
      BY DEF n
    <2>2. OnceEach(queue') /\ Asks(queue') = Asks(queue)
      BY <1>2 DEF Awaiting, IdsApart
    <2> QED
      BY <1>1, <1>2, <2>1, <2>2, AwaitingAsked
  <1>6. Pointing' /\ DataAgree'
    <2>1. \A id \in Ids : chains'[id].data \in {0} \cup alive
      BY <1>2 DEF ServicesType, Pointing
    <2>2. services' \in Nat /\ services <= services' /\ queue' = queue
      BY <1>2 DEF ServicesType, serverVars
    <2> QED
      BY <1>2, <2>1, <2>2, NamedAsItWas, Unmoved
  <1> QED
    BY <1>2, <1>4, <1>5, <1>6, RoutedFrame

LEMMA CallFunctionStep ==
  ASSUME ServicesInv, NEW p \in Proxies, CallFunction(p)
  PROVE  ServicesInv'
  <1> USE DEF ServicesInv
  <1> DEFINE n == curid + 1
             call == Call(n, "function", p)
  <1>1. /\ n \in Ids /\ n \in Nat /\ curid' = n /\ open' = open \cup {call}
        /\ call \in [id : Ids, kind : Kinds, proxy : Proxies]
        /\ call.id = n /\ call.kind = "function" /\ call.proxy = p /\ p \notin gone
    BY DEF CallFunction, Make, Call, Kinds, ServicesType
  <1>2. /\ owed' = [owed EXCEPT ![n] = 1]
        /\ UNCHANGED <<serverVars, bus, queue, chains, chainOf, service, gone, data, alive, table,
                       inside>>
    BY DEF CallFunction
  <1> HIDE DEF n, call
  <1>3. ServicesType'
    BY <1>1, <1>2 DEF ServicesType, serverVars
  <1>4. Awaiting'
    <2>1. n = curid + 1
      BY DEF n
    <2>2. OnceEach(queue') /\ Asks(queue') = Asks(queue)
      BY <1>2 DEF Awaiting, IdsApart
    <2> QED
      BY <1>1, <1>2, <2>1, <2>2, AwaitingAsked
  <1>5. Pointing' /\ DataAgree'
    <2>1. \A id \in Ids : chains'[id].data \in {0} \cup alive
      BY <1>2 DEF Pointing
    <2>2. services' \in Nat /\ services <= services' /\ queue' = queue
      BY <1>2 DEF ServicesType, serverVars
    <2> QED
      BY <1>2, <2>1, <2>2, NamedAsItWas, Unmoved
  <1> QED
    BY <1>2, <1>3, <1>4, <1>5, RoutedFrame

LEMMA DisconnectStep ==
  ASSUME ServicesInv, Disconnect
  PROVE  ServicesInv'
  <1> USE DEF ServicesInv
  <1>1. /\ bus' = FALSE
        /\ UNCHANGED <<serverVars, curid, open, queue, chains, chainOf, service, gone, data,
                       alive, table, inside, owed>>
    BY DEF Disconnect
  <1>2. ServicesType'
    BY <1>1 DEF ServicesType, serverVars
  <1>3. Awaiting'
    <2>1. curid' \in Nat /\ curid <= curid' /\ OnceEach(queue') /\ Asks(queue') = Asks(queue)
      BY <1>1 DEF ServicesType, Awaiting, IdsApart
    <2> QED
      BY <1>1, <2>1, AwaitingFrame
  <1>4. Pointing' /\ DataAgree'
    <2>1. \A id \in Ids : chains'[id].data \in {0} \cup alive
      BY <1>1 DEF Pointing
    <2>2. services' \in Nat /\ services <= services' /\ queue' = queue
      BY <1>1 DEF ServicesType, serverVars
    <2> QED
      BY <1>1, <2>1, <2>2, NamedAsItWas, Unmoved
  <1> QED
    BY <1>1, <1>2, <1>3, <1>4, RoutedFrame
\* A call is answered, or dropped if its proxy is deleted.
LEMMA AnswerStep ==
  ASSUME ServicesInv, NEW c \in open, NEW ok \in BOOLEAN, NEW s \in 0 .. MaxGets + MaxCalls,
         link' \in BOOLEAN, services' \in 0 .. MaxGets + MaxCalls, services <= services',
         s <= services', Answer(c, ok, s)
  PROVE  ServicesInv'
  <1> USE DEF ServicesInv
  <1> DEFINE e == Returned(c, ok, s)
  <1>1. /\ open' = open \ {c}
        /\ queue' = IF c.proxy \in gone THEN queue ELSE Append(queue, e)
        /\ UNCHANGED <<bus, curid, chains, chainOf, service, gone, data, alive, table, inside, owed>>
    BY DEF Answer
  <1>2. /\ e \in Posted /\ e.proxy = c.proxy /\ e.id = c.id /\ e.arg = s
        /\ e.ev = IF c.kind = "function" THEN "function" ELSE "get"
        /\ e.ev \in AnswerEvents
    BY ReturnedPosted
  <1> HIDE DEF e
  <1>3. queue \in Seq(Posted) /\ OnceEach(queue) /\ \A a \in Asks(queue) : a.id # e.id
    BY <1>2 DEF ServicesType, Awaiting, IdsApart
  <1>4. /\ queue' \in Seq(Posted) /\ OnceEach(queue')
        /\ \/ /\ c.proxy \in gone
              /\ Asks(queue') = Asks(queue) /\ ToSet(queue') = ToSet(queue)
           \/ /\ c.proxy \notin gone
              /\ Asks(queue') = Asks(queue) \cup {e} /\ ToSet(queue') = ToSet(queue) \cup {e}
    BY <1>1, <1>2, <1>3, AppendAsks
  <1>5. ServicesType'
    BY <1>1, <1>4 DEF ServicesType
  <1>6. Awaiting'
    <2>1. \A d \in open \ open' : d = c
      BY <1>1
    <2> QED
      BY <1>1, <1>2, <1>4, <2>1, AwaitingAnswered
  <1>7. Pointing' /\ DataAgree'
    <2>1. \A id \in Ids : chains'[id].data \in {0} \cup alive
      BY <1>1 DEF Pointing
    <2>2. services' \in Nat
      BY BoundsAssumption
    <2>3. /\ Named(queue, services')
          /\ \A a \in ToSet(queue) : a.ev = "result" => a.arg \in {0} \cup alive
      BY <2>2, NamedAsItWas
    <2>4. e.ev \notin {"event", "callback", "result"} /\ e.arg <= services'
      BY <1>2
    <2>5. /\ Named(queue', services')
          /\ \A a \in ToSet(queue') : a.ev = "result" => a.arg \in {0} \cup alive
      BY <1>4, <2>3, <2>4 DEF Named
    <2> QED
      BY <1>1, <2>1, <2>2, <2>5, Unmoved
  <1> QED
    BY <1>1, <1>5, <1>6, <1>7, RoutedFrame

LEMMA AnsweringStep ==
  ASSUME ServicesInv, Answering
  PROVE  ServicesInv'
  <1> PICK c \in open : AnswerVersion(c) \/ Serve(c) \/ Fail(c)
    BY DEF Answering
  <1>1. services \in 0 .. MaxGets + MaxCalls /\ link \in BOOLEAN /\ 0 \in 0 .. MaxGets + MaxCalls
    BY BoundsAssumption DEF ServicesInv, ServicesType
  <1>2. CASE AnswerVersion(c)
    <2>1. Answer(c, TRUE, 0) /\ UNCHANGED <<link, services>>
      BY <1>2 DEF AnswerVersion, serverVars
    <2>2. services <= services' /\ 0 <= services' /\ TRUE \in BOOLEAN
      BY <1>1, <2>1
    <2> QED
      BY <1>1, <2>1, <2>2, AnswerStep
  <1>3. CASE Fail(c)
    <2>1. Answer(c, FALSE, 0) /\ UNCHANGED <<link, services>>
      BY <1>3 DEF Fail, serverVars
    <2>2. services <= services' /\ 0 <= services' /\ FALSE \in BOOLEAN
      BY <1>1, <2>1
    <2> QED
      BY <1>1, <2>1, <2>2, AnswerStep
  <1>4. CASE Serve(c)
    <2>1. /\ UNCHANGED link
          /\ \/ services + 1 \in ServiceIds /\ services' = services + 1 /\ Answer(c, TRUE, services + 1)
             \/ UNCHANGED services /\ \E ok \in BOOLEAN, s \in 0 .. services : Answer(c, ok, s)
      <3>1. 0 \in 0 .. services /\ TRUE \in BOOLEAN /\ FALSE \in BOOLEAN
        BY <1>1
      <3> QED
        BY <1>4, <3>1 DEF Serve
    <2>2. CASE services + 1 \in ServiceIds /\ services' = services + 1 /\ Answer(c, TRUE, services + 1)
      <3>1. /\ services + 1 \in 0 .. MaxGets + MaxCalls /\ services <= services'
            /\ services + 1 <= services' /\ TRUE \in BOOLEAN
        BY <1>1, <2>2, BoundsAssumption DEF ServiceIds
      <3> QED
        BY <1>1, <2>1, <2>2, <3>1, AnswerStep
    <2>3. CASE UNCHANGED services /\ \E ok \in BOOLEAN, s \in 0 .. services : Answer(c, ok, s)
      <3>1. PICK ok \in BOOLEAN, s \in 0 .. services : Answer(c, ok, s)
        BY <2>3
      <3>2. s \in 0 .. MaxGets + MaxCalls /\ s <= services' /\ services <= services'
        BY <1>1, <2>3, BoundsAssumption
      <3> QED
        BY <1>1, <2>1, <2>3, <3>1, <3>2, AnswerStep
    <2> QED
      BY <2>1, <2>2, <2>3
  <1> QED
    BY <1>2, <1>3, <1>4

LEMMA PushStep ==
  ASSUME ServicesInv, NEW s \in 1 .. services, NEW ev \in {"event", "callback"}, Push(s, ev)
  PROVE  ServicesInv'
  <1> USE DEF ServicesInv
  <1>1. PICK e : e = Event(ev, NoProxy, 0, TRUE, s)
    OBVIOUS
  <1>2. services \in Nat /\ s \in Nat
    BY DEF ServicesType
  <1>3. e \in Posted /\ e.ev = ev /\ e.ev \notin AnswerEvents /\ e.arg = s
    BY <1>1, <1>2 DEF Event, Posted, AnswerEvents
  <1>4. /\ queue' = Append(queue, e)
        /\ UNCHANGED <<serverVars, busVars, chains, chainOf, service, gone, data, alive, table,
                       inside, owed>>
    BY <1>1 DEF Push
  <1>5. queue \in Seq(Posted) /\ OnceEach(queue)
    BY DEF ServicesType, Awaiting, IdsApart
  <1>6. /\ queue' \in Seq(Posted) /\ OnceEach(queue')
        /\ Asks(queue') = Asks(queue) /\ ToSet(queue') = ToSet(queue) \cup {e}
    BY <1>3, <1>4, <1>5, AppendAsks
  <1>7. ServicesType'
    BY <1>4, <1>6 DEF ServicesType, serverVars, busVars
  <1>8. Awaiting'
    <2>1. curid' \in Nat /\ curid <= curid' /\ bus' = bus
      BY <1>4 DEF ServicesType, busVars
    <2> QED
      BY <1>4, <1>6, <2>1, AwaitingFrame DEF busVars
  <1>9. Pointing' /\ DataAgree'
    <2>1. \A id \in Ids : chains'[id].data \in {0} \cup alive
      BY <1>4 DEF Pointing
    <2>2. services' \in Nat /\ services <= services' /\ services' = services
      BY <1>2, <1>4 DEF serverVars
    <2>3. /\ Named(queue, services')
          /\ \A a \in ToSet(queue) : a.ev = "result" => a.arg \in {0} \cup alive
      BY <2>2, NamedAsItWas
    <2>4. /\ Named(queue', services')
          /\ \A a \in ToSet(queue') : a.ev = "result" => a.arg \in {0} \cup alive
      <3>1. e.ev # "result" /\ e.arg \in 1 .. services'
        BY <1>3, <2>2
      <3> QED
        BY <1>3, <1>6, <2>3, <3>1 DEF Named
    <2> QED
      BY <1>4, <2>1, <2>2, <2>4, Unmoved
  <1> QED
    BY <1>4, <1>7, <1>8, <1>9, RoutedFrame

LEMMA LinkDownStep ==
  ASSUME ServicesInv, LinkDown
  PROVE  ServicesInv'
  <1> USE DEF ServicesInv
  <1>1. PICK sweep \in SetToSeqs({c \in open : c.proxy \notin gone}) :
          queue' = queue \o [i \in DOMAIN sweep |-> Returned(sweep[i], FALSE, 0)]
                     \o <<Event("lost", NoProxy, 0, TRUE, 0)>>
    BY DEF LinkDown
  <1>2. /\ link' = FALSE /\ open' = {}
        /\ UNCHANGED <<services, bus, curid, chains, chainOf, service, gone, data, alive, table,
                       inside, owed>>
    BY DEF LinkDown
  <1>3. /\ queue' \in Seq(Posted) /\ OnceEach(queue')
        /\ \A e : e \in Asks(queue') <=> \/ e \in Asks(queue)
                                         \/ \E c \in open : c.proxy \notin gone /\ e = Returned(c, FALSE, 0)
        /\ \A e \in ToSet(queue') : e \in ToSet(queue) \/ (e.ev \in AnswerEvents /\ e.arg = 0) \/ e.ev = "lost"
    <2>1. PICK q : q = queue'
      OBVIOUS
    <2> QED
      BY <1>1, <2>1, SweptAsks DEF Awaiting
  <1>4. ServicesType'
    BY <1>2, <1>3 DEF ServicesType
  <1>5. Awaiting'
    <2>1. \A c \in open : /\ Returned(c, FALSE, 0).id = c.id /\ Returned(c, FALSE, 0).proxy = c.proxy
                          /\ Returned(c, FALSE, 0).ev = IF c.kind = "function" THEN "function" ELSE "get"
      <3>1. 0 \in 0 .. MaxGets + MaxCalls
        BY BoundsAssumption
      <3> QED
        BY <3>1, ReturnedPosted
    <2>2. \A e \in Asks(queue') :
            \/ e \in Asks(queue)
            \/ \E c \in open \ open' : /\ c.proxy \notin gone
                                       /\ e.id = c.id /\ e.proxy = c.proxy
                                       /\ e.ev = IF c.kind = "function" THEN "function" ELSE "get"
      <3> SUFFICES ASSUME NEW e \in Asks(queue'), e \notin Asks(queue)
                   PROVE  \E c \in open \ open' : /\ c.proxy \notin gone
                                                  /\ e.id = c.id /\ e.proxy = c.proxy
                                                  /\ e.ev = IF c.kind = "function" THEN "function" ELSE "get"
        OBVIOUS
      <3>1. PICK c \in open : c.proxy \notin gone /\ e = Returned(c, FALSE, 0)
        BY <1>3
      <3>2. c \in open \ open'
        BY <1>2
      <3> QED
        BY <2>1, <3>1, <3>2
    <2>3. Asks(queue) \subseteq Asks(queue')
      BY <1>3
    <2>4. ASSUME NEW c \in open \ open', c.proxy \notin gone
          PROVE  \E e \in Asks(queue') : e.id = c.id /\ e.ev = IF c.kind = "function" THEN "function" ELSE "get"
      <3>1. Returned(c, FALSE, 0) \in Asks(queue')
        BY <1>3, <2>4
      <3> QED
        BY <2>1, <3>1
    <2>5. open' \subseteq open
      BY <1>2
    <2> QED
      BY <1>2, <1>3, <2>2, <2>3, <2>4, <2>5, AwaitingAnswered
  <1>6. Pointing' /\ DataAgree'
    <2>1. \A id \in Ids : chains'[id].data \in {0} \cup alive
      BY <1>2 DEF Pointing
    <2>2. services' \in Nat /\ services <= services' /\ 0 <= services'
      BY <1>2 DEF ServicesType
    <2>3. /\ Named(queue, services')
          /\ \A a \in ToSet(queue) : a.ev = "result" => a.arg \in {0} \cup alive
      BY <2>2, NamedAsItWas
    <2>4. /\ Named(queue', services')
          /\ \A a \in ToSet(queue') : a.ev = "result" => a.arg \in {0} \cup alive
      BY <1>3, <2>2, <2>3 DEF Named, AnswerEvents
    <2> QED
      BY <1>2, <2>1, <2>2, <2>4, Unmoved
  <1> QED
    BY <1>2, <1>4, <1>5, <1>6, RoutedFrame
\* The rest of the events with the result of a call at their end.
LEMMA RestFacts ==
  ASSUME ServicesInv, queue # <<>>, services' \in Nat, services <= services'
  PROVE  /\ Rest \in Seq(Posted) /\ OnceEach(Rest) /\ Named(Rest, services')
         /\ \A e \in ToSet(Rest) : e.ev = "result" => e.arg \in {0} \cup alive
         /\ \A id, k \in Nat : LET q == Append(Rest, Result(id, k)) IN
              /\ q \in Seq(Posted) /\ OnceEach(q) /\ Asks(q) = Asks(Rest) /\ Named(q, services')
              /\ \A e \in ToSet(q) : e.ev = "result" => e.arg \in {0} \cup alive \cup {k}
  <1>1. Rest \in Seq(Posted) /\ OnceEach(Rest) /\ ToSet(Rest) \subseteq ToSet(queue)
    BY Taken DEF ServicesInv, Awaiting
  <1>2. /\ Named(Rest, services')
        /\ \A e \in ToSet(Rest) : e.ev = "result" => e.arg \in {0} \cup alive
    BY <1>1, NamedAsItWas DEF ServicesInv, Named
  <1>3. ASSUME NEW id \in Nat, NEW k \in Nat, NEW r, r = Result(id, k)
        PROVE  LET q == Append(Rest, r) IN
               /\ q \in Seq(Posted) /\ OnceEach(q) /\ Asks(q) = Asks(Rest) /\ Named(q, services')
               /\ \A e \in ToSet(q) : e.ev = "result" => e.arg \in {0} \cup alive \cup {k}
    <2>1. r \in Posted /\ r.ev = "result" /\ r.arg = k
      <3>1. (k # 0) \in BOOLEAN
        OBVIOUS
      <3> QED
        BY <1>3, <3>1 DEF Result, Event, Posted
    <2>2. r.ev \notin AnswerEvents
      BY <2>1 DEF AnswerEvents
    <2>3. /\ Append(Rest, r) \in Seq(Posted) /\ OnceEach(Append(Rest, r))
          /\ Asks(Append(Rest, r)) = Asks(Rest) /\ ToSet(Append(Rest, r)) = ToSet(Rest) \cup {r}
      BY <1>1, <2>1, <2>2, AppendAsks
    <2> QED
      BY <1>2, <2>1, <2>2, <2>3 DEF Named
  <1> QED
    BY <1>1, <1>2, <1>3

\* The queue is what it was without its head, which was no answer.
LEMMA DroppedHead ==
  ASSUME ServicesInv, queue # <<>>, Head(queue).ev \notin AnswerEvents
  PROVE  Asks(Rest) = Asks(queue)
  BY Taken DEF ServicesInv, Awaiting

LEMMA LostStep ==
  ASSUME ServicesInv, Lost
  PROVE  ServicesInv'
  <1>1. /\ queue # <<>> /\ Head(queue).ev \notin AnswerEvents
        /\ queue' = Rest /\ bus' = FALSE
        /\ UNCHANGED <<serverVars, curid, open, chains, chainOf, service, gone, data, alive, table,
                       inside, owed>>
    BY DEF Lost, Take, AnswerEvents
  <1>2. services' \in Nat /\ services <= services' /\ services' = services
    BY <1>1 DEF ServicesInv, ServicesType, serverVars
  <1>3. /\ queue' \in Seq(Posted) /\ OnceEach(queue') /\ Named(queue', services')
        /\ \A e \in ToSet(queue') : e.ev = "result" => e.arg \in {0} \cup alive
    BY <1>1, <1>2, RestFacts
  <1>4. ServicesType'
    BY <1>1, <1>3 DEF ServicesInv, ServicesType, serverVars
  <1>5. Awaiting'
    <2>1. curid' \in Nat /\ curid <= curid' /\ Asks(queue') = Asks(queue)
      BY <1>1, DroppedHead DEF ServicesInv, ServicesType
    <2> QED
      BY <1>1, <1>3, <2>1, AwaitingFrame DEF ServicesInv
  <1>6. Pointing' /\ DataAgree'
    <2>1. \A id \in Ids : chains'[id].data \in {0} \cup alive
      BY <1>1 DEF ServicesInv, Pointing
    <2> QED
      BY <1>1, <1>2, <1>3, <2>1, Unmoved DEF ServicesInv
  <1> QED
    BY <1>1, <1>4, <1>5, <1>6, RoutedFrame DEF ServicesInv

LEMMA HandledStep ==
  ASSUME ServicesInv, Handled
  PROVE  ServicesInv'
  <1>1. /\ inside.rest # <<>>
        /\ inside' = IF Len(inside.rest) = 1 THEN Outside ELSE [inside EXCEPT !.rest = Tail(@)]
        /\ UNCHANGED <<serverVars, busVars, queue, chains, chainOf, service, gone, data, alive,
                       table, owed>>
    BY DEF Handled
  <1>2. inside \in [id : Nat, of : Nat, rest : Seq(Proxies)]
    BY DEF ServicesInv, ServicesType
  <1>3. inside' \in [id : Nat, of : Nat, rest : Seq(Proxies)]
    <2>1. Tail(inside.rest) \in Seq(Proxies)
      BY <1>1, <1>2
    <2>2. Outside \in [id : Nat, of : Nat, rest : Seq(Proxies)]
      BY DEF Outside
    <2>3. [inside EXCEPT !.rest = Tail(@)] \in [id : Nat, of : Nat, rest : Seq(Proxies)]
      BY <1>2, <2>1
    <2> QED
      BY <1>1, <2>2, <2>3
  <1>4. services' \in Nat /\ services <= services' /\ services' = services
    BY <1>1 DEF ServicesInv, ServicesType, serverVars
  <1>5. ServicesType'
    BY <1>1, <1>3 DEF ServicesInv, ServicesType, serverVars, busVars
  <1>6. Awaiting'
    <2>1. /\ curid' \in Nat /\ curid <= curid' /\ bus' = bus
          /\ Asks(queue') = Asks(queue) /\ OnceEach(queue')
      BY <1>1 DEF ServicesInv, ServicesType, busVars, Awaiting, IdsApart
    <2> QED
      BY <1>1, <2>1, AwaitingFrame DEF ServicesInv, busVars
  <1>7. Pointing' /\ DataAgree'
    <2>1. \A id \in Ids : chains'[id].data \in {0} \cup alive
      BY <1>1 DEF ServicesInv, Pointing
    <2>2. /\ Named(queue', services')
          /\ \A a \in ToSet(queue') : a.ev = "result" => a.arg \in {0} \cup alive
      BY <1>1, <1>4, NamedAsItWas DEF ServicesInv
    <2> QED
      BY <1>1, <1>4, <2>1, <2>2, Unmoved DEF ServicesInv
  <1>8. RoutedToHolders'
    <2>1. CASE Len(inside.rest) = 1
      BY <1>1, <2>1 DEF RoutedToHolders, Outside
    <2>2. CASE Len(inside.rest) # 1
      <3>1. /\ inside'.rest = Tail(inside.rest) /\ inside'.of = inside.of /\ inside'.id = inside.id
        BY <1>1, <1>2, <2>2
      <3>2. \A i \in DOMAIN Tail(inside.rest) : i + 1 \in DOMAIN inside.rest /\ Tail(inside.rest)[i] = inside.rest[i + 1]
        BY <1>1, <1>2
      <3>3. UNCHANGED <<service, gone, data>>
        BY <1>1
      <3>4. ASSUME NEW i \in DOMAIN inside'.rest
            PROVE  /\ inside'.rest[i] \notin gone /\ service[inside'.rest[i]] = inside'.of
                   /\ data[inside'.of].id = inside'.id
        <4>1. i + 1 \in DOMAIN inside.rest /\ inside'.rest[i] = inside.rest[i + 1]
          BY <3>1, <3>2
        <4> QED
          BY <3>1, <4>1 DEF ServicesInv, RoutedToHolders
      <3> QED
        BY <3>3, <3>4 DEF RoutedToHolders
    <2> QED
      BY <2>1, <2>2
  <1> QED
    BY <1>5, <1>6, <1>7, <1>8 DEF ServicesInv

LEMMA RouteStep ==
  ASSUME ServicesInv, Route
  PROVE  ServicesInv'
  <1> DEFINE e == Head(queue)
             k == table[e.arg]
  <1>1. /\ queue # <<>> /\ e.ev \in {"event", "callback"} /\ queue' = Rest
        /\ inside' = IF k = 0 \/ data[k].primary = NoProxy THEN Outside
                       ELSE [id |-> e.arg, of |-> k,
                             rest |-> IF e.ev = "event" THEN data[k].list ELSE <<data[k].primary>>]
        /\ UNCHANGED <<serverVars, busVars, chains, chainOf, service, gone, data, alive, table, owed>>
    BY DEF Route, Take
  <1>2. services' \in Nat /\ services <= services' /\ services' = services
    BY <1>1 DEF ServicesInv, ServicesType, serverVars
  <1>3. /\ queue' \in Seq(Posted) /\ OnceEach(queue') /\ Named(queue', services')
        /\ \A a \in ToSet(queue') : a.ev = "result" => a.arg \in {0} \cup alive
    BY <1>1, <1>2, RestFacts
  <1>4. e.arg \in Nat /\ e.arg \in ServiceIds
    <2>1. e \in ToSet(queue)
      BY <1>1, Taken DEF ServicesInv, Awaiting
    <2>2. e.arg \in 1 .. services /\ services \in 0 .. MaxGets + MaxCalls
      BY <1>1, <2>1 DEF ServicesInv, Pointing, ServicesType
    <2> QED
      BY <2>2, BoundsAssumption DEF ServiceIds
  <1> HIDE DEF e
  <1>5. /\ k \in Nat
        /\ k # 0 => /\ k \in alive /\ data[k].id = e.arg
                    /\ data[k].list \in Seq(Proxies) /\ data[k].primary \in Proxies \cup {NoProxy}
                    /\ ToSet(data[k].list) = {p \in Proxies : service[p] = k}
                    /\ data[k].list = <<>> => data[k].primary = NoProxy
                    /\ data[k].list # <<>> => data[k].primary \in ToSet(data[k].list)
    <2>1. k \in Nat
      BY <1>4 DEF ServicesInv, ServicesType
    <2>2. ASSUME k # 0
          PROVE  /\ k \in alive /\ data[k].id = e.arg /\ data[k] \in Service
                 /\ ToSet(data[k].list) = {p \in Proxies : service[p] = k} /\ WellKept(data[k])
      BY <1>4, <2>2, AsItWas DEF ServicesInv
    <2> QED
      BY <2>1, <2>2 DEF WellKept, Service
  <1> HIDE DEF k
  <1>6. inside' \in [id : Nat, of : Nat, rest : Seq(Proxies)] /\ RoutedToHolders'
    <2>1. CASE k = 0 \/ data[k].primary = NoProxy
      BY <1>1, <2>1 DEF Outside, RoutedToHolders
    <2>2. CASE k # 0 /\ data[k].primary # NoProxy
      <3>1. /\ inside'.id = e.arg /\ inside'.of = k
            /\ inside'.rest = (IF e.ev = "event" THEN data[k].list ELSE <<data[k].primary>>)
        BY <1>1, <2>2
      <3>2. inside' \in [id : Nat, of : Nat, rest : Seq(Proxies)]
        BY <1>1, <1>4, <1>5, <2>2
      <3>3. data[k].primary \in ToSet(data[k].list)
        BY <1>5, <2>2
      <3>4. ASSUME NEW i \in DOMAIN inside'.rest PROVE inside'.rest[i] \in ToSet(data[k].list)
        <4>1. CASE e.ev = "event"
          BY <3>1, <4>1, AsksPlace
        <4>2. CASE e.ev # "event"
          <5>1. inside'.rest = <<data[k].primary>>
            BY <3>1, <4>2
          <5>2. i = 1 /\ inside'.rest[i] = data[k].primary
            BY <5>1
          <5> QED
            BY <3>3, <5>2
        <4> QED
          BY <4>1, <4>2
      <3>5. \A p \in ToSet(data[k].list) : service[p] = k /\ p \notin gone
        BY <1>5, <2>2 DEF ServicesInv, Pointing
      <3>6. RoutedToHolders'
        BY <1>1, <1>5, <2>2, <3>1, <3>4, <3>5 DEF RoutedToHolders
      <3> QED
        BY <3>2, <3>6
    <2> QED
      BY <2>1, <2>2
  <1>7. ServicesType'
    BY <1>1, <1>3, <1>6 DEF ServicesInv, ServicesType, serverVars, busVars
  <1>8. Awaiting'
    <2>1. curid' \in Nat /\ curid <= curid' /\ bus' = bus
      BY <1>1 DEF ServicesInv, ServicesType, busVars
    <2>2. Asks(queue') = Asks(queue)
      BY <1>1, DroppedHead DEF AnswerEvents, e
    <2> QED
      BY <1>1, <1>3, <2>1, <2>2, AwaitingFrame DEF ServicesInv, busVars
  <1>9. Pointing' /\ DataAgree'
    <2>1. \A id \in Ids : chains'[id].data \in {0} \cup alive
      BY <1>1 DEF ServicesInv, Pointing
    <2> QED
      BY <1>1, <1>2, <1>3, <2>1, Unmoved DEF ServicesInv
  <1> QED
    BY <1>6, <1>7, <1>8, <1>9 DEF ServicesInv
\* What a step that moves pointers leaves to be shown.
LEMMA PointStep ==
  ASSUME ServicesInv, NEW made, NEW tab, tab \in [ServiceIds -> Nat],
         Point(service', queue', chains', made, tab), Ready(made, tab), Named(queue', services'),
         queue' \in Seq(Posted), service' \in [Proxies -> Nat], chains' \in [Ids -> Chain],
         chainOf' \in [Ids -> {0} \cup Ids], owed' \in [Ids -> Int], gone' \subseteq Proxies,
         curid' \in Nat, open' \subseteq [id : Ids, kind : Kinds, proxy : Proxies],
         services' \in 0 .. MaxGets + MaxCalls, UNCHANGED <<bus, link, inside>>, Idle,
         Awaiting'
  PROVE  ServicesInv'
  <1>1. /\ Pointing' /\ DataAgree'
        /\ alive' \subseteq DOMAIN data' /\ table' \in [ServiceIds -> Nat]
    BY Pointed
  <1>2. data' \in Seq(Service)
    BY DEF Ready
  <1>3. ServicesType'
    BY <1>1, <1>2 DEF ServicesInv, ServicesType
  <1>4. RoutedToHolders'
    BY RoutedFrame DEF ServicesInv
  <1> QED
    BY <1>1, <1>3, <1>4 DEF ServicesInv

LEMMA SelectServiceStep ==
  ASSUME ServicesInv, NEW p \in Proxies, SelectService(p)
  PROVE  ServicesInv'
  <1> DEFINE s == services + 1
             n == Len(data) + 1
             tab == [table EXCEPT ![s] = n]
  <1>1. /\ Idle /\ p \notin gone /\ s \in ServiceIds
        /\ curid' = curid + 3
        /\ UNCHANGED <<bus, link, open, chainOf, gone, inside, owed>>
        /\ \/ /\ services' = s
              /\ data' = Append(Without(p), [id |-> s, list |-> <<p>>, primary |-> p])
              /\ Point([service EXCEPT ![p] = n], queue, chains, {n}, tab)
           \/ /\ services' \in {services, s}
              /\ UNCHANGED <<data, queue, chains, service, alive, table>>
    BY DEF SelectService
  <1>2. /\ services \in Nat /\ curid \in Nat /\ curid' \in Nat /\ curid <= curid'
        /\ services <= s /\ services <= services /\ s \in 0 .. MaxGets + MaxCalls
        /\ services \in 0 .. MaxGets + MaxCalls /\ n \in Nat
    BY <1>1, BoundsAssumption DEF ServicesInv, ServicesType, ServiceIds
  <1>3. /\ queue' = queue /\ chains' = chains
        /\ services' \in 0 .. MaxGets + MaxCalls /\ services' \in Nat /\ services <= services'
    BY <1>1, <1>2 DEF Point
  <1>4. OnceEach(queue') /\ Asks(queue') = Asks(queue)
    BY <1>3 DEF ServicesInv, Awaiting, IdsApart
  <1>5. Awaiting'
    BY <1>1, <1>2, <1>3, <1>4, AwaitingFrame DEF ServicesInv
  <1>6. /\ Named(queue', services')
        /\ \A e \in ToSet(queue') : e.ev = "result" => e.arg \in {0} \cup alive
    BY <1>3, NamedAsItWas DEF ServicesInv
  <1>7. CASE /\ services' = s
             /\ data' = Append(Without(p), [id |-> s, list |-> <<p>>, primary |-> p])
             /\ Point([service EXCEPT ![p] = n], queue, chains, {n}, tab)
    <2>1. service' = [service EXCEPT ![p] = n] /\ Point(service', queue', chains', {n}, tab)
      BY <1>3, <1>7 DEF Point
    <2>2. Ready({n}, tab)
      BY <1>1, <1>3, <1>7, <2>1, ReadySelected DEF ServicesInv
    <2>3. tab \in [ServiceIds -> Nat] /\ service' \in [Proxies -> Nat]
      BY <1>2, <2>1 DEF ServicesInv, ServicesType
    <2>4. /\ queue' \in Seq(Posted) /\ chains' \in [Ids -> Chain]
          /\ chainOf' \in [Ids -> {0} \cup Ids] /\ owed' \in [Ids -> Int] /\ gone' \subseteq Proxies
          /\ open' \subseteq [id : Ids, kind : Kinds, proxy : Proxies]
      BY <1>1, <1>3 DEF ServicesInv, ServicesType
    <2> HIDE DEF s, n, tab
    <2> QED
      BY <1>1, <1>2, <1>3, <1>5, <1>6, <2>1, <2>2, <2>3, <2>4, PointStep
  <1>8. CASE UNCHANGED <<data, queue, chains, service, alive, table>>
    <2>1. ServicesType'
      BY <1>1, <1>2, <1>3, <1>8 DEF ServicesInv, ServicesType
    <2>2. \A id \in Ids : chains'[id].data \in {0} \cup alive
      BY <1>3 DEF ServicesInv, Pointing
    <2>3. Pointing' /\ DataAgree'
      BY <1>1, <1>3, <1>6, <1>8, <2>2, Unmoved DEF ServicesInv
    <2> QED
      BY <1>1, <1>5, <1>8, <2>1, <2>3, RoutedFrame DEF ServicesInv
  <1> QED
    BY <1>1, <1>7, <1>8

\* The pointers in the queue and in the chains are those there were.
LEMMA PointersAsTheyWere ==
  ASSUME ServicesInv, UNCHANGED <<queue, chains, services>>
  PROVE  /\ queue' \in Seq(Posted) /\ OnceEach(queue') /\ Asks(queue') = Asks(queue)
         /\ services' \in 0 .. MaxGets + MaxCalls /\ services' \in Nat /\ services <= services'
         /\ Named(queue', services')
         /\ \A e \in ToSet(queue') : e.ev = "result" => e.arg \in {0} \cup alive
         /\ \A id \in Ids : chains'[id].data \in {0} \cup alive
  <1>1. services' \in 0 .. MaxGets + MaxCalls /\ services' \in Nat /\ services <= services'
    BY DEF ServicesInv, ServicesType
  <1> QED
    BY <1>1, NamedAsItWas DEF ServicesInv, ServicesType, Awaiting, IdsApart, Pointing

LEMMA AssignStep ==
  ASSUME ServicesInv, NEW p \in Proxies, NEW q \in Proxies, Assign(p, q)
  PROVE  ServicesInv'
  <1> DEFINE k == service[q]
  <1>1. /\ Idle /\ p \notin gone /\ k # 0
        /\ data' = Assigned(p, k)
        /\ Point([service EXCEPT ![p] = k], queue, chains, {}, table)
        /\ UNCHANGED <<bus, link, services, curid, open, chainOf, gone, inside, owed>>
    BY DEF Assign, serverVars, busVars
  <1>2. /\ service' = [service EXCEPT ![p] = k] /\ queue' = queue /\ chains' = chains
        /\ Point(service', queue', chains', {}, table)
    BY <1>1 DEF Point
  <1>3. k \in alive /\ k \in Nat
    BY <1>1 DEF ServicesInv, Pointing, ServicesType
  <1> HIDE DEF k
  <1>4. /\ queue' \in Seq(Posted) /\ OnceEach(queue') /\ Asks(queue') = Asks(queue)
        /\ services' \in 0 .. MaxGets + MaxCalls /\ services' \in Nat /\ services <= services'
        /\ Named(queue', services')
        /\ \A e \in ToSet(queue') : e.ev = "result" => e.arg \in {0} \cup alive
        /\ \A id \in Ids : chains'[id].data \in {0} \cup alive
    BY <1>1, <1>2, PointersAsTheyWere
  <1>5. Ready({}, table)
    BY <1>1, <1>2, <1>3, <1>4, ReadyAssigned DEF ServicesInv
  <1>6. /\ service' \in [Proxies -> Nat] /\ chains' \in [Ids -> Chain] /\ table \in [ServiceIds -> Nat]
        /\ chainOf' \in [Ids -> {0} \cup Ids] /\ owed' \in [Ids -> Int] /\ gone' \subseteq Proxies
        /\ open' \subseteq [id : Ids, kind : Kinds, proxy : Proxies] /\ curid' \in Nat /\ curid <= curid'
    BY <1>1, <1>2, <1>3 DEF ServicesInv, ServicesType
  <1>7. Awaiting'
    BY <1>1, <1>2, <1>4, <1>6, AwaitingFrame DEF ServicesInv
  <1> QED
    BY <1>1, <1>2, <1>4, <1>5, <1>6, <1>7, PointStep

LEMMA DeselectServiceStep ==
  ASSUME ServicesInv, NEW p \in Proxies, DeselectService(p)
  PROVE  ServicesInv'
  <1>1. /\ Idle
        /\ data' = Without(p)
        /\ Point([service EXCEPT ![p] = 0], queue, chains, {}, table)
        /\ UNCHANGED <<bus, link, services, curid, open, chainOf, gone, inside, owed>>
    BY DEF DeselectService, serverVars, busVars
  <1>2. /\ service' = [service EXCEPT ![p] = 0] /\ queue' = queue /\ chains' = chains
        /\ Point(service', queue', chains', {}, table)
    BY <1>1 DEF Point
  <1>3. /\ queue' \in Seq(Posted) /\ OnceEach(queue') /\ Asks(queue') = Asks(queue)
        /\ services' \in 0 .. MaxGets + MaxCalls /\ services' \in Nat /\ services <= services'
        /\ Named(queue', services')
        /\ \A e \in ToSet(queue') : e.ev = "result" => e.arg \in {0} \cup alive
        /\ \A id \in Ids : chains'[id].data \in {0} \cup alive
    BY <1>1, <1>2, PointersAsTheyWere
  <1>4. Ready({}, table)
    <2>1. gone' \subseteq gone \cup {p}
      BY <1>1
    <2> QED
      BY <1>1, <1>2, <1>3, <2>1, ReadyWithout DEF ServicesInv
  <1>5. /\ service' \in [Proxies -> Nat] /\ chains' \in [Ids -> Chain] /\ table \in [ServiceIds -> Nat]
        /\ chainOf' \in [Ids -> {0} \cup Ids] /\ owed' \in [Ids -> Int] /\ gone' \subseteq Proxies
        /\ open' \subseteq [id : Ids, kind : Kinds, proxy : Proxies] /\ curid' \in Nat /\ curid <= curid'
    BY <1>1, <1>2 DEF ServicesInv, ServicesType
  <1>6. Awaiting'
    BY <1>1, <1>2, <1>3, <1>5, AwaitingFrame DEF ServicesInv
  <1> QED
    BY <1>1, <1>2, <1>3, <1>4, <1>5, <1>6, PointStep

LEMMA DestroyStep ==
  ASSUME ServicesInv, NEW p \in Proxies, Destroy(p)
  PROVE  ServicesInv'
  <1> DEFINE rest == Only(queue, LAMBDA e : e.proxy # p)
             left1 == [id \in Ids |-> IF chains[id].proxy = p THEN NoChain ELSE chains[id]]
             of1 == [id \in Ids |-> IF chainOf[id] # 0 /\ chains[chainOf[id]].proxy = p
                                      THEN 0 ELSE chainOf[id]]
             owed1 == [id \in Ids |-> IF id \in Asked(p) THEN 0 ELSE owed[id]]
  <1>1. /\ Idle /\ gone' = gone \cup {p}
        /\ data' = Without(p)
        /\ Point([service EXCEPT ![p] = 0], rest, left1, {}, table)
        /\ chainOf' = of1 /\ owed' = owed1
        /\ UNCHANGED <<bus, link, services, curid, open, inside>>
    BY DEF Destroy, serverVars, busVars
  <1>2. /\ service' = [service EXCEPT ![p] = 0] /\ queue' = rest /\ chains' = left1
        /\ Point(service', queue', chains', {}, table)
    BY <1>1 DEF Point
  <1>3. /\ queue' \in Seq(Posted) /\ OnceEach(queue')
        /\ ToSet(queue') = {e \in ToSet(queue) : e.proxy # p}
        /\ Asks(queue') = {e \in Asks(queue) : e.proxy # p}
    <2>1. queue \in Seq(Posted) /\ OnceEach(queue)
      BY DEF ServicesInv, ServicesType, Awaiting, IdsApart
    <2>2. /\ rest \in Seq(Posted)
          /\ ToSet(rest) = {e \in ToSet(queue) : e.proxy # p}
          /\ Asks(rest) = {e \in Asks(queue) : e.proxy # p}
          /\ OnceEach(queue) => OnceEach(rest)
      BY <2>1, OnlyAsks DEF Only
    <2> QED
      BY <1>2, <2>1, <2>2
  <1>4. NoChain \in Chain /\ NoChain.data = 0
    BY DEF NoChain, Chain
  <1>5. /\ service' \in [Proxies -> Nat] /\ chains' \in [Ids -> Chain] /\ table \in [ServiceIds -> Nat]
        /\ chainOf' \in [Ids -> {0} \cup Ids] /\ owed' \in [Ids -> Int] /\ gone' \subseteq Proxies
        /\ open' \subseteq [id : Ids, kind : Kinds, proxy : Proxies] /\ curid' \in Nat
        /\ services' \in 0 .. MaxGets + MaxCalls
    <2>1. chains' \in [Ids -> Chain] /\ chainOf' \in [Ids -> {0} \cup Ids] /\ owed' \in [Ids -> Int]
      BY <1>1, <1>2, <1>4 DEF ServicesInv, ServicesType
    <2> QED
      BY <1>1, <1>2, <2>1 DEF ServicesInv, ServicesType
  <1>6. Awaiting'
    BY <1>1, <1>2, <1>3, AwaitingDestroyed DEF ServicesInv
  <1>7. /\ \A id \in Ids : chains'[id].data \in {0} \cup alive
        /\ \A e \in ToSet(queue') : e.ev = "result" => e.arg \in {0} \cup alive
    BY <1>2, <1>3, <1>4 DEF ServicesInv, Pointing
  <1>8. Named(queue', services')
    <2>1. services' \in Nat /\ services <= services'
      BY <1>1 DEF ServicesInv, ServicesType
    <2>2. Named(queue, services')
      BY <2>1, NamedAsItWas DEF ServicesInv
    <2> QED
      BY <1>3, <2>2 DEF Named
  <1>9. Ready({}, table)
    <2>1. gone' \subseteq gone \cup {p}
      BY <1>1
    <2> QED
      BY <1>1, <1>2, <1>7, <2>1, ReadyWithout DEF ServicesInv
  <1> HIDE DEF rest, left1, of1, owed1
  <1> QED
    BY <1>1, <1>2, <1>3, <1>5, <1>6, <1>8, <1>9, PointStep
\* The answer that is handled, and the getService() it belongs to.
LEMMA AnswerAtHead ==
  ASSUME ServicesInv, queue # <<>>, NEW e, e = Head(queue), e.ev \in AnswerEvents
  PROVE  /\ e.id \in Ids /\ e.id \in Nat /\ e.proxy \in Proxies
         /\ e.arg \in 0 .. MaxGets + MaxCalls /\ e.arg <= services
         /\ e.ev = "get" => /\ chainOf[e.id] \in Ids /\ chainOf[e.id] \in Nat
                            /\ chains[chainOf[e.id]] \in Chain
                            /\ chains[chainOf[e.id]].proxy = e.proxy
                            /\ chains[chainOf[e.id]].data \in {0} \cup alive
  <1>1. e \in Asks(queue)
    BY Taken DEF ServicesInv, Awaiting
  <1>2. /\ e \in ToSet(queue) /\ e.id \in Ids /\ e.proxy \in Proxies
        /\ e.arg \in 0 .. MaxGets + MaxCalls
    BY <1>1, CallFacts DEF ServicesInv
  <1>3. e.arg <= services
    BY <1>2 DEF ServicesInv, Pointing
  <1>4. e.ev = "get" => chainOf[e.id] \in Ids /\ chains[chainOf[e.id]].proxy = e.proxy
    BY <1>1 DEF ServicesInv, Awaiting, Owned, ChainCall
  <1>5. \A f \in Ids : f \in Nat /\ chains[f] \in Chain /\ chains[f].data \in {0} \cup alive
    BY SMTT(30) DEF ServicesInv, ServicesType, Pointing, Ids
  <1> QED
    BY <1>2, <1>3, <1>4, <1>5

\* A getService() is over: its result is posted.
LEMMA ReportStep ==
  ASSUME ServicesInv, NEW e, e = Head(queue), Take("get"), NEW f, f = chainOf[e.id],
         NEW k \in {0} \cup alive, Report(f, e.id, k, {}, table), UNCHANGED data,
         UNCHANGED <<left, serverVars, bus, gone, inside>>
  PROVE  ServicesInv'
  <1>1. /\ Idle /\ queue # <<>> /\ e.ev = "get" /\ e.ev \in AnswerEvents
        /\ UNCHANGED <<services, link, bus, gone, inside>>
    BY DEF Take, AnswerEvents, serverVars
  <1>2. /\ owed' = [owed EXCEPT ![f] = @ - 1] /\ chainOf' = [chainOf EXCEPT ![e.id] = 0]
        /\ UNCHANGED <<curid, open>> /\ UNCHANGED service
        /\ queue' = Append(Rest, Result(f, k)) /\ chains' = [chains EXCEPT ![f] = NoChain]
        /\ Point(service', queue', chains', {}, table)
    BY DEF Report, Point
  <1>3. e.id \in Ids /\ f \in Ids /\ f \in Nat /\ k \in Nat
    <2>1. k \in Nat
      BY AsItWas DEF ServicesInv
    <2> QED
      BY <1>1, <2>1, AnswerAtHead
  <1>4. services' \in Nat /\ services <= services' /\ services' \in 0 .. MaxGets + MaxCalls
    BY <1>1 DEF ServicesInv, ServicesType
  <1>5. /\ queue' \in Seq(Posted) /\ OnceEach(queue') /\ Asks(queue') = Asks(Rest)
        /\ Named(queue', services')
        /\ \A a \in ToSet(queue') : a.ev = "result" => a.arg \in {0} \cup alive
    BY <1>1, <1>2, <1>3, <1>4, RestFacts
  <1>6. NoChain \in Chain /\ NoChain.data = 0
    BY DEF NoChain, Chain
  <1>7. /\ service' \in [Proxies -> Nat] /\ chains' \in [Ids -> Chain] /\ table \in [ServiceIds -> Nat]
        /\ chainOf' \in [Ids -> {0} \cup Ids] /\ owed' \in [Ids -> Int] /\ gone' \subseteq Proxies
        /\ open' \subseteq [id : Ids, kind : Kinds, proxy : Proxies] /\ curid' \in Nat
    <2>1. ServicesType
      BY DEF ServicesInv
    <2>2. chains' \in [Ids -> Chain]
      <3>1. chains \in [Ids -> Chain]
        BY <2>1 DEF ServicesType
      <3> QED
        BY <1>2, <1>6, <3>1
    <2>3. chainOf' \in [Ids -> {0} \cup Ids]
      BY <1>2, <2>1 DEF ServicesType
    <2>4. owed' \in [Ids -> Int]
      <3>1. owed \in [Ids -> Int]
        BY <2>1 DEF ServicesType
      <3> QED
        BY <1>2, <1>3, <3>1
    <2>5. gone' = gone /\ open' = open /\ curid' = curid /\ service' = service
      BY <1>1, <1>2
    <2> QED
      BY <2>1, <2>2, <2>3, <2>4, <2>5 DEF ServicesType
  <1>8. Awaiting'
    <2>1. ServicesType /\ Awaiting /\ (bus' => bus)
      BY <1>1 DEF ServicesInv
    <2>2. PICK kept \in Chain : kept = NoChain /\ chains' = [chains EXCEPT ![f] = kept]
      BY <1>2, <1>6
    <2>3. UNCHANGED <<curid, open, gone>>
      BY <1>1, <1>2
    <2>4. chainOf' = [chainOf EXCEPT ![e.id] = 0] /\ owed' = [owed EXCEPT ![f] = @ - 1]
      BY <1>2
    <2> QED
      BY <1>1, <1>5, <2>1, <2>2, <2>3, <2>4, AwaitingReported
  <1>9. Ready({}, table)
    <2>1. \A id \in Ids : chains'[id].data \in {0} \cup alive
      BY <1>2, <1>6 DEF ServicesInv, ServicesType, Pointing
    <2> QED
      BY <1>1, <1>2, <1>4, <1>5, <2>1, ReadyAsItWas DEF ServicesInv
  <1> QED
    BY <1>1, <1>2, <1>4, <1>5, <1>7, <1>8, <1>9, PointStep

LEMMA GetFailedStep ==
  ASSUME ServicesInv, GetFailed
  PROVE  ServicesInv'
  <1>1. PICK e, f : e = Head(queue) /\ f = chainOf[e.id]
    OBVIOUS
  <1>2. /\ Take("get") /\ Report(f, e.id, 0, {}, table) /\ UNCHANGED data
        /\ UNCHANGED <<left, serverVars, bus, gone, inside>>
    BY <1>1 DEF GetFailed
  <1>3. 0 \in {0} \cup alive
    OBVIOUS
  <1> QED
    BY <1>1, <1>2, <1>3, ReportStep

LEMMA GetDoneStep ==
  ASSUME ServicesInv, GetDone
  PROVE  ServicesInv'
  <1>1. PICK e, f, k : e = Head(queue) /\ f = chainOf[e.id] /\ k = chains[f].data
    OBVIOUS
  <1>2. /\ Take("get") /\ Report(f, e.id, k, {}, table) /\ UNCHANGED data
        /\ UNCHANGED <<left, serverVars, bus, gone, inside>>
    BY <1>1 DEF GetDone
  <1>3. k \in {0} \cup alive
    <2>1. queue # <<>> /\ e.ev = "get" /\ e.ev \in AnswerEvents
      BY <1>1, <1>2 DEF Take, AnswerEvents
    <2> QED
      BY <1>1, <2>1, AnswerAtHead
  <1> QED
    BY <1>1, <1>2, <1>3, ReportStep

LEMMA FunctionCompletedStep ==
  ASSUME ServicesInv, FunctionCompleted
  PROVE  ServicesInv'
  <1>1. PICK e, k : e = Head(queue) /\ k = Parsed(e.arg)
    OBVIOUS
  <1>2. /\ Idle /\ queue # <<>> /\ e.ev = "function" /\ e.ev \in AnswerEvents
        /\ MakeData(e.arg)
        /\ Point(service, Append(Rest, Result(e.id, k)), chains, Fresh(e.arg), Registered(e.arg))
        /\ owed' = [owed EXCEPT ![e.id] = @ - 1]
        /\ UNCHANGED <<services, link, bus, curid, open, chainOf, gone, inside>>
    BY <1>1 DEF FunctionCompleted, Take, AnswerEvents, serverVars, busVars
  <1>3. /\ UNCHANGED <<service, chains>> /\ queue' = Append(Rest, Result(e.id, k))
        /\ Point(service', queue', chains', Fresh(e.arg), Registered(e.arg))
    BY <1>2 DEF Point
  <1>4. e.id \in Ids /\ e.id \in Nat /\ e.arg \in 0 .. MaxGets + MaxCalls /\ e.arg <= services
    BY <1>1, <1>2, AnswerAtHead
  <1>5. /\ k \in {0} \cup alive \cup Fresh(e.arg) /\ k \in Nat
        /\ Registered(e.arg) \in [ServiceIds -> Nat]
    BY <1>1, <1>4, ParsedFacts DEF ServicesInv
  <1>6. services' \in Nat /\ services <= services' /\ services' \in 0 .. MaxGets + MaxCalls
    BY <1>2 DEF ServicesInv, ServicesType
  <1>7. /\ queue' \in Seq(Posted) /\ OnceEach(queue') /\ Asks(queue') = Asks(Rest)
        /\ Named(queue', services')
        /\ \A a \in ToSet(queue') : a.ev = "result" => a.arg \in {0} \cup alive \cup {k}
    BY <1>2, <1>3, <1>4, <1>5, <1>6, RestFacts
  <1>8. /\ service' \in [Proxies -> Nat] /\ chains' \in [Ids -> Chain]
        /\ chainOf' \in [Ids -> {0} \cup Ids] /\ owed' \in [Ids -> Int] /\ gone' \subseteq Proxies
        /\ open' \subseteq [id : Ids, kind : Kinds, proxy : Proxies] /\ curid' \in Nat
    <2>1. ServicesType
      BY DEF ServicesInv
    <2>2. owed' \in [Ids -> Int]
      BY <1>2, <1>4, <2>1 DEF ServicesType
    <2>3. UNCHANGED <<service, chains, chainOf, gone, open, curid>>
      BY <1>2, <1>3
    <2> QED
      BY <2>1, <2>2, <2>3 DEF ServicesType
  <1>9. Awaiting'
    BY <1>1, <1>2, <1>3, <1>7, AwaitingReturned DEF ServicesInv
  <1>10. Ready(Fresh(e.arg), Registered(e.arg))
    <2>1. \A id \in Ids : chains'[id].data \in {0} \cup alive \cup Fresh(e.arg)
      BY <1>3 DEF ServicesInv, Pointing
    <2>2. \A a \in ToSet(queue') : a.ev = "result" => a.arg \in {0} \cup alive \cup Fresh(e.arg)
      BY <1>5, <1>7
    <2> QED
      BY <1>2, <1>3, <1>4, <2>1, <2>2, ReadyMade DEF ServicesInv
  <1> QED
    BY <1>2, <1>3, <1>5, <1>6, <1>7, <1>8, <1>9, <1>10, PointStep

LEMMA TakeResultStep ==
  ASSUME ServicesInv, TakeResult
  PROVE  ServicesInv'
  <1>1. PICK k : k = Head(queue).arg
    OBVIOUS
  <1>2. /\ Idle /\ queue # <<>> /\ Head(queue).ev = "result" /\ Head(queue).ev \notin AnswerEvents
        /\ \/ \E p \in Proxies \ gone :
                /\ k # 0
                /\ data' = Assigned(p, k)
                /\ Point([service EXCEPT ![p] = k], Rest, chains, {}, table)
           \/ /\ UNCHANGED data
              /\ Point(service, Rest, chains, {}, table)
        /\ UNCHANGED <<services, link, bus, curid, open, chainOf, gone, inside, owed>>
    BY <1>1 DEF TakeResult, Take, AnswerEvents, serverVars, busVars
  <1>3. /\ queue' = Rest /\ UNCHANGED chains
        /\ Point(service', queue', chains', {}, table)
    <2>1. PICK holds : Point(holds, Rest, chains, {}, table)
      BY <1>2
    <2> QED
      BY <2>1 DEF Point
  <1>4. k \in {0} \cup alive
    <2>1. Head(queue) \in ToSet(queue)
      BY <1>2, Taken DEF ServicesInv, Awaiting
    <2> QED
      BY <1>1, <1>2, <2>1 DEF ServicesInv, Pointing
  <1>5. services' \in Nat /\ services <= services' /\ services' \in 0 .. MaxGets + MaxCalls
    BY <1>2 DEF ServicesInv, ServicesType
  <1>6. /\ queue' \in Seq(Posted) /\ OnceEach(queue') /\ Asks(queue') = Asks(queue)
        /\ Named(queue', services')
        /\ \A a \in ToSet(queue') : a.ev = "result" => a.arg \in {0} \cup alive
    BY <1>2, <1>3, <1>5, RestFacts, DroppedHead
  <1>7. \A id \in Ids : chains'[id].data \in {0} \cup alive
    BY <1>3 DEF ServicesInv, Pointing
  <1>8. /\ chains' \in [Ids -> Chain] /\ table \in [ServiceIds -> Nat]
        /\ chainOf' \in [Ids -> {0} \cup Ids] /\ owed' \in [Ids -> Int] /\ gone' \subseteq Proxies
        /\ open' \subseteq [id : Ids, kind : Kinds, proxy : Proxies] /\ curid' \in Nat /\ curid <= curid'
    BY <1>2, <1>3 DEF ServicesInv, ServicesType
  <1>9. Awaiting'
    BY <1>2, <1>3, <1>6, <1>8, AwaitingFrame DEF ServicesInv
  <1>10. Ready({}, table) /\ service' \in [Proxies -> Nat]
    <2>1. CASE \E p \in Proxies \ gone :
                 /\ k # 0
                 /\ data' = Assigned(p, k)
                 /\ Point([service EXCEPT ![p] = k], Rest, chains, {}, table)
      <3>1. PICK p \in Proxies \ gone :
              /\ k # 0
              /\ data' = Assigned(p, k)
              /\ Point([service EXCEPT ![p] = k], Rest, chains, {}, table)
        BY <2>1
      <3>2. service' = [service EXCEPT ![p] = k] /\ k \in alive /\ p \notin gone
        BY <1>4, <3>1 DEF Point
      <3>3. k \in Nat
        BY <3>2, AsItWas DEF ServicesInv
      <3>4. service' \in [Proxies -> Nat]
        BY <3>2, <3>3 DEF ServicesInv, ServicesType
      <3> QED
        BY <1>2, <1>6, <1>7, <3>1, <3>2, <3>4, ReadyAssigned DEF ServicesInv
    <2>2. CASE UNCHANGED data /\ Point(service, Rest, chains, {}, table)
      <3>1. UNCHANGED service
        BY <2>2 DEF Point
      <3> QED
        BY <1>2, <1>5, <1>6, <1>7, <2>2, <3>1, ReadyAsItWas DEF ServicesInv, ServicesType
    <2> QED
      BY <1>2, <2>1, <2>2
  <1> QED
    BY <1>2, <1>3, <1>5, <1>6, <1>8, <1>9, <1>10, PointStep
LEMMA GetGoesOnStep ==
  ASSUME ServicesInv, GetGoesOn
  PROVE  ServicesInv'
  <1>1. PICK e, f, c, k, next :
          /\ e = Head(queue) /\ f = chainOf[e.id] /\ c = chains[f] /\ k = Parsed(e.arg)
          /\ next = [c EXCEPT !.step = @ + 1, !.data = k]
    OBVIOUS
  <1>2. /\ Idle /\ queue # <<>> /\ e.ev = "get" /\ e.ev \in AnswerEvents
        /\ c.step < 3 /\ MakeData(e.arg)
        /\ UNCHANGED <<services, link, bus, gone, inside>>
    BY <1>1 DEF GetGoesOn, Take, AnswerEvents, serverVars
  <1>3. \/ /\ bus
           /\ Make(NextCall[c.step + 1], c.proxy)
           /\ chainOf' = [chainOf EXCEPT ![e.id] = 0, ![curid + 1] = f]
           /\ Point(service, Rest, [chains EXCEPT ![f] = next], Fresh(e.arg), Registered(e.arg))
           /\ UNCHANGED owed
        \/ /\ ~bus
           /\ owed' = [owed EXCEPT ![f] = @ - 1]
           /\ chainOf' = [chainOf EXCEPT ![e.id] = 0]
           /\ Point(service, Append(Rest, Result(f, 0)), [chains EXCEPT ![f] = next],
                    Fresh(e.arg), Registered(e.arg))
           /\ UNCHANGED <<curid, open>>
    BY <1>1 DEF GetGoesOn
  <1>4. /\ e.id \in Ids /\ f \in Ids /\ f \in Nat /\ c \in Chain /\ c.proxy = e.proxy
        /\ e.proxy \in Proxies /\ c.data \in {0} \cup alive
        /\ e.arg \in 0 .. MaxGets + MaxCalls /\ e.arg <= services
    BY <1>1, <1>2, AnswerAtHead
  <1>5. /\ k \in {0} \cup alive \cup Fresh(e.arg) /\ k \in Nat
        /\ Registered(e.arg) \in [ServiceIds -> Nat]
    BY <1>1, <1>4, ParsedFacts DEF ServicesInv
  <1>6. next \in Chain /\ next.proxy = c.proxy /\ next.data = k
    <2>1. c.step + 1 \in 0 .. 3
      BY <1>2, <1>4 DEF Chain
    <2>2. next = [proxy |-> c.proxy, step |-> c.step + 1, data |-> k]
      BY <1>1, <1>4 DEF Chain
    <2> QED
      BY <1>4, <1>5, <2>1, <2>2 DEF Chain
  <1>7. /\ UNCHANGED service /\ chains' = [chains EXCEPT ![f] = next]
        /\ Point(service', queue', chains', Fresh(e.arg), Registered(e.arg))
    <2>1. PICK q : Point(service, q, [chains EXCEPT ![f] = next], Fresh(e.arg), Registered(e.arg))
      BY <1>3
    <2> QED
      BY <2>1 DEF Point
  <1>8. services' \in Nat /\ services <= services' /\ services' \in 0 .. MaxGets + MaxCalls
    BY <1>2 DEF ServicesInv, ServicesType
  <1>9. ServicesType /\ Awaiting /\ Pointing /\ DataAgree
    BY DEF ServicesInv
  <1>10. /\ queue' \in Seq(Posted) /\ OnceEach(queue') /\ Asks(queue') = Asks(Rest)
         /\ Named(queue', services')
         /\ \A a \in ToSet(queue') : a.ev = "result" => a.arg \in {0} \cup alive \cup Fresh(e.arg)
    <2>1. CASE queue' = Rest
      BY <1>2, <1>8, <2>1, RestFacts
    <2>2. CASE queue' = Append(Rest, Result(f, 0))
      <3>1. 0 \in Nat
        OBVIOUS
      <3> QED
        BY <1>2, <1>4, <1>8, <2>2, <3>1, RestFacts
    <2> QED
      BY <1>3, <2>1, <2>2 DEF Point
  <1>11. Ready(Fresh(e.arg), Registered(e.arg))
    <2>1. \A id \in Ids : chains'[id].data \in {0} \cup alive \cup Fresh(e.arg)
      <3>1. chains \in [Ids -> Chain] /\ \A id \in Ids : chains[id].data \in {0} \cup alive
        BY <1>9 DEF ServicesType, Pointing
      <3> QED
        BY <1>4, <1>5, <1>6, <1>7, <3>1
    <2> QED
      BY <1>2, <1>4, <1>7, <1>9, <1>10, <2>1, ReadyMade
  <1>12. chains' \in [Ids -> Chain] /\ service' \in [Proxies -> Nat] /\ gone' \subseteq Proxies
    BY <1>2, <1>4, <1>6, <1>7, <1>9 DEF ServicesType
  <1>13. /\ Awaiting' /\ chainOf' \in [Ids -> {0} \cup Ids] /\ owed' \in [Ids -> Int] /\ curid' \in Nat
         /\ open' \subseteq [id : Ids, kind : Kinds, proxy : Proxies]
    <2>0. /\ chainOf \in [Ids -> {0} \cup Ids] /\ owed \in [Ids -> Int] /\ curid \in Nat
          /\ open \subseteq [id : Ids, kind : Kinds, proxy : Proxies]
      BY <1>9 DEF ServicesType
    <2>1. CASE /\ bus
               /\ Make(NextCall[c.step + 1], c.proxy)
               /\ chainOf' = [chainOf EXCEPT ![e.id] = 0, ![curid + 1] = f]
               /\ UNCHANGED owed
      <3>1. PICK n, kind, call : /\ n = curid + 1 /\ kind = NextCall[c.step + 1]
                                 /\ call = Call(n, kind, c.proxy)
        OBVIOUS
      <3>2. kind \in Kinds /\ kind # "function"
        <4>1. c.step \in {0, 1, 2}
          BY <1>2, <1>4 DEF Chain
        <4> QED
          BY <3>1, <4>1 DEF NextCall, Kinds
      <3>3. n \in Ids /\ curid' = n /\ open' = open \cup {call}
        BY <2>1, <3>1 DEF Make
      <3>4. call.id = n /\ call.kind = kind /\ call.proxy = c.proxy
            /\ call \in [id : Ids, kind : Kinds, proxy : Proxies]
        BY <1>4, <3>1, <3>2, <3>3 DEF Call
      <3>5. chainOf' = [chainOf EXCEPT ![e.id] = 0, ![n] = f]
        BY <2>1, <3>1
      <3>6. Awaiting'
        <4>1. /\ queue # <<>> /\ e = Head(queue) /\ e.ev = "get" /\ f = chainOf[e.id]
              /\ n = curid + 1 /\ UNCHANGED <<bus, gone, owed>>
          BY <1>1, <1>2, <2>1, <3>1
        <4>2. /\ call.id = n /\ call.kind # "function" /\ call.proxy = chains[f].proxy
              /\ next \in Chain /\ next.proxy = chains[f].proxy
          BY <1>1, <1>6, <3>2, <3>4
        <4> QED
          BY <1>7, <1>9, <1>10, <3>3, <3>5, <4>1, <4>2, AwaitingContinued
      <3> QED
        BY <1>4, <2>0, <2>1, <3>1, <3>3, <3>4, <3>5, <3>6
    <2>2. CASE /\ ~bus
               /\ owed' = [owed EXCEPT ![f] = @ - 1]
               /\ chainOf' = [chainOf EXCEPT ![e.id] = 0]
               /\ UNCHANGED <<curid, open>>
      <3>1. ~bus' /\ (bus' => bus) /\ UNCHANGED gone
        BY <1>2, <2>2
      <3>2. next.proxy = chains[f].proxy
        BY <1>1, <1>6
      <3>3. Awaiting'
        BY <1>1, <1>2, <1>6, <1>7, <1>9, <1>10, <2>2, <3>1, <3>2, AwaitingReported
      <3>4. owed' \in [Ids -> Int]
        BY <1>4, <2>0, <2>2
      <3> QED
        BY <1>4, <2>0, <2>2, <3>3, <3>4
    <2> QED
      BY <1>3, <2>1, <2>2
  <1> QED
    BY <1>2, <1>5, <1>7, <1>8, <1>10, <1>11, <1>12, <1>13, PointStep

\* At first there is nothing.
LEMMA ServicesInit == Init => ServicesInv
  <1> SUFFICES ASSUME Init PROVE ServicesInv
    OBVIOUS
  <1>1. ServicesType
    BY BoundsAssumption DEF Init, ServicesType, NoChain, Chain, Outside
  <1>2. DOMAIN queue = {} /\ Asks(queue) = {} /\ ToSet(queue) = {}
    BY DEF Init, Asks, ToSet
  <1>3. Awaiting
    <2>1. IdsApart
      BY <1>2 DEF Init, IdsApart, OnceEach
    <2>2. GivenOut
      BY <1>2 DEF Init, GivenOut
    <2>3. Owned
      BY <1>2 DEF Init, Owned
    <2>4. Chained
      BY DEF Init, Chained
    <2> QED
      BY <2>1, <2>2, <2>3, <2>4 DEF Awaiting
  <1>4. Pointing
    BY <1>2 DEF Init, Pointing, NoChain
  <1>5. DataAgree
    BY DEF Init, DataAgree, ListsAgree, OneData
  <1>6. RoutedToHolders
    BY DEF Init, RoutedToHolders, Outside
  <1> QED
    BY <1>1, <1>3, <1>4, <1>5, <1>6 DEF ServicesInv

LEMMA ServicesKept == ServicesInv /\ [Next]_vars => ServicesInv'
  <1> SUFFICES ASSUME ServicesInv, [Next]_vars PROVE ServicesInv'
    OBVIOUS
  <1>1. CASE Application
    BY <1>1, GetServiceStep, CallFunctionStep, SelectServiceStep, DeselectServiceStep, DestroyStep,
       AssignStep, DisconnectStep DEF Application
  <1>2. CASE Answering
    BY <1>2, AnsweringStep
  <1>3. CASE \E s \in 1 .. services, ev \in {"event", "callback"} : Push(s, ev)
    BY <1>3, PushStep
  <1>4. CASE LinkDown
    BY <1>4, LinkDownStep
  <1>5. CASE Loop
    BY <1>5, GetFailedStep, GetGoesOnStep, GetDoneStep, FunctionCompletedStep, TakeResultStep,
       RouteStep, HandledStep, LostStep DEF Loop
  <1>6. CASE UNCHANGED vars
    <2>1. ServicesType'
      BY <1>6 DEF ServicesInv, ServicesType, vars, serverVars, busVars
    <2>2. Awaiting'
      <3>1. /\ curid' \in Nat /\ curid <= curid' /\ (bus' => bus)
            /\ Asks(queue') = Asks(queue) /\ OnceEach(queue')
        BY <1>6 DEF ServicesInv, ServicesType, vars, busVars, Awaiting, IdsApart
      <3> QED
        BY <1>6, <3>1, AwaitingFrame DEF ServicesInv, vars, busVars
    <2>3. Pointing' /\ DataAgree'
      <3>1. UNCHANGED <<queue, chains, services>>
        BY <1>6 DEF vars, serverVars
      <3> QED
        BY <1>6, <3>1, PointersAsTheyWere, Unmoved DEF ServicesInv, vars
    <2> QED
      BY <1>6, <2>1, <2>2, <2>3, RoutedFrame DEF ServicesInv, vars
  <1> QED
    BY <1>1, <1>2, <1>3, <1>4, <1>5, <1>6 DEF Next

LEMMA ServicesAlways == Spec => []ServicesInv
  BY ServicesInit, ServicesKept, PTL DEF Spec
-----------------------------------------------------------------------------
(* The theorems.                                                            *)

\* Through all assignments, selections, results, destructions and losses the
\* list of a ServiceData holds just the proxies that point to it, its primary
\* is one of them, and the table of the connection leads to it and to no other
\* (addProxy(), removeProxy(), parseReturn(), ~ServiceData).
THEOREM ServiceDataAgrees == Spec => []DataAgree
  BY ServicesAlways, PTL DEF ServicesInv

\* An event or a callback only ever gets to proxies that exist and hold the
\* service it names (ConnectionData::sendEvent and sendCallback).
THEOREM EventsReachHolders == Spec => []RoutedToHolders
  BY ServicesAlways, PTL DEF ServicesInv

\* A getService() that is not over waits for just one call or its answer, and
\* is not reported before or twice, nor is a function
\* (getServiceCompleted() and functionCompleted()).
THEOREM ChainsAwaitOneCall == Spec => []ChainsUnderWay
  <1>1. ServicesInv => ChainsUnderWay
    <2> SUFFICES ASSUME ServicesInv PROVE ChainsUnderWay
      OBVIOUS
    <2>1. \A id \in Ids : owed[id] \in {0, 1}
      BY DEF ServicesInv, Awaiting, Chained
    <2>2. ChainIds \subseteq Awaited
      <3>1. ASSUME NEW c \in open PROVE c.id \in Awaited
        BY DEF Awaited
      <3>2. ASSUME NEW e \in Asks(queue), e.ev = "get" PROVE e.id \in Awaited
        <4>1. PICK i \in DOMAIN queue : queue[i] = e
          BY AsksPlace
        <4> QED
          BY <3>2, <4>1 DEF Awaited
      <3> QED
        BY <3>1, <3>2 DEF ChainIds
    <2>3. ASSUME bus, NEW f \in Ids, chains[f] # NoChain
          PROVE  owed[f] = 1 /\ \E id \in Awaited : {i \in Ids : chainOf[i] = f} = {id}
      <3>1. PICK j \in Ids : chainOf[j] = f /\ owed[f] = 1
        BY <2>3 DEF ServicesInv, Awaiting, Chained
      <3>2. f # 0
        BY DEF Ids
      <3>3. j \in Awaited /\ \A i \in Ids : chainOf[i] = f => i = j
        BY <2>2, <3>1, <3>2 DEF ServicesInv, Awaiting, Chained
      <3>4. {i \in Ids : chainOf[i] = f} = {j}
        BY <3>1, <3>3
      <3> QED
        BY <3>1, <3>3, <3>4
    <2> QED
      BY <2>1, <2>3 DEF ChainsUnderWay
  <1> QED
    BY <1>1, ServicesAlways, PTL
=============================================================================
