-------------------------- MODULE Discovery_proofs --------------------------
(***************************************************************************)
(* The publisher is on the network once, and the finder keeps track of     *)
(* what it hears of, for any names and any number of calls, scans, answers *)
(* and failures, alone or on one network; and the two spell a service's    *)
(* type and port alike, for any texts and either byte order.               *)
(***************************************************************************)
EXTENDS Discovery, SequenceTheorems, FiniteSetTheorems, TLAPS

-----------------------------------------------------------------------------
(* The publisher.                                                           *)

Connection ==
  [op : {"register", "resolve"}, asked : Names, holds : Names \cup {""},
   answer : {"none", "ok", "error"}, failed : BOOLEAN, hungUp : BOOLEAN, open : BOOLEAN]

PublisherType ==
  /\ friendly \in Names /\ alive \in BOOLEAN
  /\ state \in {"Unknown", "Registering", "Registered", "Resolving"}
  /\ conns \in Seq(Connection)
  /\ service \in 0 .. Len(conns)
  /\ watched \subseteq DOMAIN conns

\* What a connection says of the answer on it: an error is the end of it, and a
\* registration that was accepted is to be read by who waits for it.
Answers ==
  \A c \in DOMAIN conns :
    /\ conns[c].answer = "error" => conns[c].failed
    /\ conns[c].op = "register" /\ conns[c].answer = "ok" =>
         c = service /\ state = "Registering" /\ conns[c].holds # ""

\* What is being registered, or is registered, is the connection in use.
InUse ==
  state \in {"Registering", "Registered"} =>
    service \in DOMAIN conns /\ conns[service].op = "register"

PublisherInv == PublisherType /\ Answers /\ InUse /\ RegisteredOnce

\* Who is blocked in a read has a connection to read, and stays alive meanwhile.
Reading == loop = "reading" => alive /\ service # 0

LEMMA PublisherStart ==
  ASSUME P!Init
  PROVE  PublisherInv
  BY DEF P!Init, PublisherInv, PublisherType, Answers, InUse, RegisteredOnce,
     P!OneRegistration, P!RegisteredHolds

\* A connection that is added leaves the others where they are.
LEMMA Added ==
  ASSUME NEW q \in Seq(Connection), NEW c \in Connection
  PROVE  /\ Append(q, c) \in Seq(Connection) /\ Len(Append(q, c)) = Len(q) + 1
         /\ DOMAIN Append(q, c) = DOMAIN q \cup {Len(q) + 1}
         /\ Append(q, c)[Len(q) + 1] = c
         /\ \A i \in DOMAIN q : Append(q, c)[i] = q[i]
         /\ DOMAIN q = 1 .. Len(q) /\ Len(q) \in Nat
  OBVIOUS

LEMMA ConnMade ==
  ASSUME NEW op \in {"register", "resolve"}, NEW name \in Names
  PROVE  /\ P!Conn(op, name) \in Connection /\ P!Conn(op, name).op = op
         /\ P!Conn(op, name).answer = "none"
  BY DEF P!Conn, Connection

LEMMA ResolveKeeps ==
  ASSUME PublisherInv, P!Resolve
  PROVE  PublisherInv'
  <1>1. /\ alive /\ state = "Unknown" /\ state' = "Resolving" /\ UNCHANGED <<friendly, alive>>
        /\ \A c \in DOMAIN conns : conns[c].op = "register" => ~P!Open(c)
    BY DEF P!Resolve, P!Runs, PublisherInv, PublisherType, RegisteredOnce, P!OneRegistration
  <1>2. CASE service' = 0 /\ UNCHANGED <<conns, watched>>
    BY <1>1, <1>2 DEF PublisherInv, PublisherType, Answers, InUse, RegisteredOnce,
       P!OneRegistration, P!RegisteredHolds, P!Open
  <1>3. CASE /\ conns' = Append(conns, P!Conn("resolve", friendly))
             /\ service' = Len(conns') /\ watched' = watched \cup {service'}
    <2>1. PICK made \in Connection : made = P!Conn("resolve", friendly)
                                     /\ made.op = "resolve" /\ made.answer = "none"
      BY ConnMade DEF PublisherInv, PublisherType
    <2>2. /\ conns' \in Seq(Connection) /\ Len(conns') = Len(conns) + 1 /\ Len(conns) \in Nat
          /\ DOMAIN conns' = DOMAIN conns \cup {Len(conns) + 1}
          /\ conns'[Len(conns) + 1] = made /\ \A i \in DOMAIN conns : conns'[i] = conns[i]
      BY <1>3, <2>1, Added DEF PublisherInv, PublisherType
    <2>3. PublisherType'
      BY <1>1, <1>3, <2>2 DEF PublisherInv, PublisherType
    <2>4. Answers' /\ InUse' /\ RegisteredOnce'
      BY <1>1, <2>1, <2>2 DEF PublisherInv, Answers, InUse, RegisteredOnce,
         P!OneRegistration, P!RegisteredHolds, P!Open
    <2> QED
      BY <2>3, <2>4 DEF PublisherInv
  <1> QED
    BY <1>2, <1>3 DEF P!Resolve

\* Registered, and given back: the connection in use is closed, the rest is as it was.
LEMMA ReleasedConn ==
  ASSUME PublisherInv, NEW q, q = P!ConnsReleased
  PROVE  /\ q \in Seq(Connection) /\ Len(q) = Len(conns) /\ DOMAIN q = DOMAIN conns
         /\ \A c \in DOMAIN q : q[c].op = conns[c].op /\ q[c].failed = conns[c].failed
                                /\ q[c].answer = conns[c].answer
         /\ \A c \in DOMAIN q : c # service \/ state # "Registered" => q[c] = conns[c]
         /\ state = "Registered" => ~q[service].open
  <1>1. CASE P!Releasing
    <2>1. state = "Registered" /\ service \in DOMAIN conns
      BY <1>1 DEF P!Releasing, PublisherInv, PublisherType, InUse
    <2>2. q = [conns EXCEPT ![service].open = FALSE, ![service].holds = ""]
      BY <1>1 DEF P!ConnsReleased
    <2>3. conns \in Seq(Connection)
      BY DEF PublisherInv, PublisherType
    <2>4. /\ DOMAIN q = DOMAIN conns /\ \A c \in DOMAIN conns : c # service => q[c] = conns[c]
          /\ q[service] = [conns[service] EXCEPT !.open = FALSE, !.holds = ""]
      BY <2>1, <2>2, <2>3
    <2>5. conns[service] \in Connection
      BY <2>1, <2>3
    <2>6. /\ q[service] \in Connection /\ ~q[service].open /\ q[service].op = conns[service].op
          /\ q[service].failed = conns[service].failed
          /\ q[service].answer = conns[service].answer
      BY <2>4, <2>5 DEF Connection
    <2>7. q \in Seq(Connection) /\ Len(q) = Len(conns)
      <3>1. /\ DOMAIN q = 1 .. Len(conns) /\ Len(conns) \in Nat
            /\ \A i \in 1 .. Len(conns) : q[i] \in Connection
        BY <2>3, <2>4, <2>6
      <3>2. q = [i \in 1 .. Len(conns) |-> q[i]]
        BY <2>2, <3>1
      <3> QED
        BY <3>1, <3>2
    <2> QED
      BY <2>1, <2>4, <2>6, <2>7
  <1>2. CASE ~P!Releasing
    BY <1>2 DEF P!Releasing, P!ConnsReleased, PublisherInv, PublisherType
  <1> QED
    BY <1>1, <1>2

LEMMA Released ==
  ASSUME PublisherInv, alive, NEW q, q = P!ConnsReleased
  PROVE  /\ q \in Seq(Connection) /\ Len(q) = Len(conns) /\ DOMAIN q = DOMAIN conns
         /\ P!WatchedReleased \subseteq DOMAIN conns
         /\ P!StateReleased \in {"Unknown", "Registering", "Resolving"}
         /\ P!StateReleased # "Unknown" => state = P!StateReleased /\ q = conns
         /\ P!StateReleased = "Unknown" =>
              \A c \in DOMAIN q :
                /\ q[c].answer = "error" => q[c].failed
                /\ q[c].op = "register" => ~(q[c].open /\ ~q[c].failed) /\ q[c].answer # "ok"
  <1>1. P!StateReleased = IF state = "Registered" THEN "Unknown" ELSE state
    BY DEF P!StateReleased, P!Releasing, PublisherInv, PublisherType
  <1>2. P!WatchedReleased \subseteq DOMAIN conns
    BY DEF P!WatchedReleased, PublisherInv, PublisherType
  <1>3. P!StateReleased # "Unknown" => q = conns
    BY <1>1 DEF P!ConnsReleased, P!Releasing, PublisherInv, PublisherType
  <1>4. ASSUME P!StateReleased = "Unknown", NEW c \in DOMAIN conns
        PROVE  /\ q[c].answer = "error" => q[c].failed
               /\ q[c].op = "register" => ~(q[c].open /\ ~q[c].failed) /\ q[c].answer # "ok"
    <2>1. state \in {"Unknown", "Registered"}
      BY <1>1, <1>4
    <2>2. /\ conns[c].answer = "error" => conns[c].failed
          /\ conns[c].op = "register" => conns[c].answer # "ok"
          /\ conns[c].op = "register" /\ conns[c].open /\ ~conns[c].failed =>
               c = service /\ state = "Registered"
      BY <2>1 DEF PublisherInv, Answers, RegisteredOnce, P!OneRegistration, P!Open
    <2> QED
      BY <2>2, ReleasedConn
  <1> QED
    BY <1>1, <1>2, <1>3, <1>4, ReleasedConn DEF PublisherInv, PublisherType

LEMMA PublishKeeps ==
  ASSUME PublisherInv, P!Publish
  PROVE  PublisherInv'
  <1>1. PICK q : q = P!ConnsReleased
    OBVIOUS
  <1>2. alive /\ UNCHANGED <<friendly, alive>> /\ P!RegisterService
    BY DEF P!Publish, P!Runs
  <1>3. /\ q \in Seq(Connection) /\ Len(q) = Len(conns) /\ DOMAIN q = DOMAIN conns
        /\ P!WatchedReleased \subseteq DOMAIN conns
        /\ P!StateReleased = "Unknown" =>
             \A c \in DOMAIN q :
               /\ q[c].answer = "error" => q[c].failed
               /\ q[c].op = "register" => ~(q[c].open /\ ~q[c].failed) /\ q[c].answer # "ok"
    BY <1>1, <1>2, Released
  <1>4. CASE UNCHANGED <<state, service, conns, watched, untold>>
    BY <1>2, <1>4 DEF PublisherInv, PublisherType, Answers, InUse, RegisteredOnce,
       P!OneRegistration, P!RegisteredHolds, P!Open
  <1>5. CASE /\ P!StateReleased = "Unknown"
             /\ conns' = Append(q, P!Conn("register", friendly)) /\ service' = Len(conns')
             /\ watched' = P!WatchedReleased \cup {service'} /\ state' = "Registering"
    <2>1. PICK made \in Connection : made = P!Conn("register", friendly)
                                     /\ made.op = "register" /\ made.answer = "none"
      BY ConnMade DEF PublisherInv, PublisherType
    <2>2. /\ conns' \in Seq(Connection) /\ Len(conns') = Len(conns) + 1 /\ Len(conns) \in Nat
          /\ DOMAIN conns' = DOMAIN conns \cup {Len(conns) + 1}
          /\ conns'[Len(conns) + 1] = made /\ \A i \in DOMAIN conns : conns'[i] = q[i]
      BY <1>3, <1>5, <2>1, Added
    <2>3. PublisherType'
      BY <1>2, <1>3, <1>5, <2>2 DEF PublisherInv, PublisherType
    <2>4. /\ service' \in DOMAIN conns' /\ conns'[service'] = made /\ state' = "Registering" /\ alive'
          /\ \A c \in DOMAIN conns' : c # service' =>
               /\ conns'[c].answer = "error" => conns'[c].failed
               /\ conns'[c].op = "register" =>
                    ~(conns'[c].open /\ ~conns'[c].failed) /\ conns'[c].answer # "ok"
      BY <1>2, <1>3, <1>5, <2>2
    <2>5. Answers' /\ InUse' /\ RegisteredOnce'
      BY <2>1, <2>4 DEF Answers, InUse, RegisteredOnce,
         P!OneRegistration, P!RegisteredHolds, P!Open
    <2> QED
      BY <2>3, <2>5 DEF PublisherInv
  <1>6. CASE /\ P!StateReleased = "Unknown" /\ state' = "Unknown" /\ conns' = q
             /\ watched' = P!WatchedReleased /\ service' \in {0, service}
    <2>1. /\ conns' \in Seq(Connection) /\ Len(conns') = Len(conns) /\ DOMAIN conns' = DOMAIN conns
          /\ \A c \in DOMAIN conns' :
               /\ conns'[c].answer = "error" => conns'[c].failed
               /\ conns'[c].op = "register" =>
                    ~(conns'[c].open /\ ~conns'[c].failed) /\ conns'[c].answer # "ok"
      BY <1>3, <1>6
    <2>2. PublisherType'
      <3>1. service' \in 0 .. Len(conns)
        BY <1>6 DEF PublisherInv, PublisherType
      <3> QED
        BY <1>2, <1>3, <1>6, <2>1, <3>1 DEF PublisherInv, PublisherType
    <2>3. Answers' /\ InUse' /\ RegisteredOnce'
      BY <1>6, <2>1 DEF Answers, InUse, RegisteredOnce, P!OneRegistration, P!RegisteredHolds, P!Open
    <2> QED
      BY <2>2, <2>3 DEF PublisherInv
  <1> QED
    BY <1>1, <1>2, <1>4, <1>5, <1>6 DEF P!RegisterService

\* unpublish() gives back, and so does the destructor, which lets go of all notifiers.
LEMMA ReleasingKeeps ==
  ASSUME PublisherInv, alive, alive' \in BOOLEAN, conns' = P!ConnsReleased,
         state' = P!StateReleased, watched' \subseteq P!WatchedReleased,
         UNCHANGED <<friendly, service>>
  PROVE  PublisherInv'
  <1>1. /\ conns' \in Seq(Connection) /\ Len(conns') = Len(conns) /\ DOMAIN conns' = DOMAIN conns
        /\ P!WatchedReleased \subseteq DOMAIN conns
        /\ state' \in {"Unknown", "Registering", "Resolving"}
        /\ state' # "Unknown" => state = state' /\ conns' = conns
        /\ state' = "Unknown" =>
             \A c \in DOMAIN conns' :
               /\ conns'[c].answer = "error" => conns'[c].failed
               /\ conns'[c].op = "register" =>
                    ~(conns'[c].open /\ ~conns'[c].failed) /\ conns'[c].answer # "ok"
    BY Released
  <1>2. PublisherType'
    BY <1>1 DEF PublisherInv, PublisherType
  <1>3. Answers' /\ InUse' /\ RegisteredOnce'
    BY <1>1 DEF PublisherInv, Answers, InUse, RegisteredOnce,
       P!OneRegistration, P!RegisteredHolds, P!Open
  <1> QED
    BY <1>2, <1>3 DEF PublisherInv

LEMMA UnpublishKeeps ==
  ASSUME PublisherInv, P!Unpublish
  PROVE  PublisherInv'
  <1>1. /\ alive /\ alive' \in BOOLEAN /\ conns' = P!ConnsReleased /\ state' = P!StateReleased
        /\ watched' \subseteq P!WatchedReleased /\ UNCHANGED <<friendly, service>>
    BY DEF P!Unpublish, P!Runs, PublisherInv, PublisherType
  <1> QED
    BY <1>1, ReleasingKeeps

LEMMA DestroyKeeps ==
  ASSUME PublisherInv, P!Destroy
  PROVE  PublisherInv'
  <1>1. /\ alive /\ alive' \in BOOLEAN /\ conns' = P!ConnsReleased /\ state' = P!StateReleased
        /\ watched' \subseteq P!WatchedReleased /\ UNCHANGED <<friendly, service>>
    BY DEF P!Destroy, P!Runs
  <1> QED
    BY <1>1, ReleasingKeeps

\* One connection changes, and keeps what it was asked.
LEMMA ConnChanged ==
  ASSUME PublisherInv, NEW c \in DOMAIN conns, NEW r \in Connection,
         conns' = [conns EXCEPT ![c] = r]
  PROVE  /\ conns' \in Seq(Connection) /\ Len(conns') = Len(conns) /\ DOMAIN conns' = DOMAIN conns
         /\ conns'[c] = r /\ \A d \in DOMAIN conns : d # c => conns'[d] = conns[d]
  BY DEF PublisherInv, PublisherType

\* The answer on the connection in use is read.
LEMMA ProcessKeeps ==
  ASSUME PublisherInv, alive, service # 0, conns[service].answer # "none", P!Process,
         UNCHANGED <<friendly, service, watched, alive>>
  PROVE  PublisherInv'
  <1>1. /\ service \in DOMAIN conns /\ conns[service].answer # "none" /\ conns[service] \in Connection
        /\ UNCHANGED <<friendly, service, watched, alive>>
        /\ conns' = [conns EXCEPT ![service] = [@ EXCEPT !.answer = "none"]]
    BY DEF P!Process, PublisherInv, PublisherType
  <1>2. PICK r : r = [conns[service] EXCEPT !.answer = "none"]
    OBVIOUS
  <1>9. /\ r \in Connection /\ r.op = conns[service].op /\ r.holds = conns[service].holds
        /\ r.answer = "none" /\ (r.failed <=> conns[service].failed)
        /\ (r.open <=> conns[service].open)
    BY <1>1, <1>2 DEF Connection
  <1>3. /\ conns' \in Seq(Connection) /\ Len(conns') = Len(conns) /\ DOMAIN conns' = DOMAIN conns
        /\ conns'[service] = r /\ \A d \in DOMAIN conns : d # service => conns'[d] = conns[d]
    BY <1>1, <1>2, <1>9, ConnChanged
  <1>4. \/ conns[service].answer = "error" /\ state' = "Unknown"
        \/ conns[service].answer = "ok" /\ conns[service].op = "register" /\ state' = "Registered"
        \/ conns[service].answer = "ok" /\ conns[service].op # "register" /\ state' = state
    <2>1. conns[service].answer \in {"ok", "error"}
      BY <1>1 DEF Connection
    <2>2. CASE conns[service].answer = "error"
      BY <2>2 DEF P!Process, P!Callback
    <2>3. CASE conns[service].answer = "ok" /\ conns[service].op = "register"
      BY <2>3 DEF P!Process, P!Callback
    <2>4. CASE conns[service].answer = "ok" /\ conns[service].op # "register"
      BY <2>4 DEF P!Process, P!Callback
    <2> QED
      BY <2>1, <2>2, <2>3, <2>4
  <1>5. PublisherType'
    BY <1>1, <1>3, <1>4 DEF PublisherInv, PublisherType
  <1>6. CASE conns[service].answer = "error" /\ state' = "Unknown"
    BY <1>1, <1>9, <1>3, <1>5, <1>6 DEF PublisherInv, Answers, InUse, RegisteredOnce,
       P!OneRegistration, P!RegisteredHolds, P!Open
  <1>7. CASE /\ conns[service].answer = "ok" /\ conns[service].op = "register"
             /\ state' = "Registered"
    <2>1. /\ conns[service].holds # "" /\ state = "Registering"
          /\ \A d \in DOMAIN conns :
               /\ conns[d].answer = "error" => conns[d].failed
               /\ conns[d].op = "register" /\ conns[d].answer = "ok" => d = service
          /\ \A d \in DOMAIN conns : conns[d].op = "register" /\ P!Open(d) => d = service
      BY <1>7, <1>1 DEF PublisherInv, Answers, RegisteredOnce, P!OneRegistration
    <2>2. \A d \in DOMAIN conns' :
            /\ conns'[d].answer = "error" => conns'[d].failed
            /\ conns'[d].op = "register" => conns'[d].answer # "ok"
            /\ conns'[d].op = "register" /\ conns'[d].open /\ ~conns'[d].failed => d = service
      <3> SUFFICES ASSUME NEW d \in DOMAIN conns
                   PROVE  /\ conns'[d].answer = "error" => conns'[d].failed
                          /\ conns'[d].op = "register" => conns'[d].answer # "ok"
                          /\ conns'[d].op = "register" /\ conns'[d].open /\ ~conns'[d].failed
                               => d = service
        BY <1>3
      <3>1. CASE d = service
        BY <1>3, <1>9, <3>1
      <3>2. CASE d # service
        <4>1. conns'[d] = conns[d]
          BY <1>3, <3>2
        <4>2. /\ conns[d].answer = "error" => conns[d].failed
              /\ conns[d].op = "register" => conns[d].answer # "ok"
          BY <2>1, <3>2
        <4>3. ~(conns[d].op = "register" /\ conns[d].open /\ ~conns[d].failed)
          BY <2>1, <3>2 DEF P!Open
        <4> QED
          BY <4>1, <4>2, <4>3
      <3> QED
        BY <3>1, <3>2
    <2>5. Answers' /\ InUse'
      BY <1>1, <1>9, <1>3, <1>7, <2>2 DEF Answers, InUse
    <2>6. alive
      OBVIOUS
    <2>3. P!OneRegistration'
      BY <1>1, <1>7, <2>2, <2>6 DEF P!OneRegistration, P!Open
    <2>4. P!RegisteredHolds'
      BY <1>1, <1>9, <1>3, <1>7, <2>1 DEF P!RegisteredHolds
    <2> QED
      BY <1>5, <2>3, <2>4, <2>5 DEF PublisherInv, RegisteredOnce
  <1>8. CASE conns[service].answer = "ok" /\ conns[service].op # "register" /\ state' = state
    BY <1>1, <1>9, <1>3, <1>5, <1>8 DEF PublisherInv, Answers, InUse, RegisteredOnce,
       P!OneRegistration, P!RegisteredHolds, P!Open
  <1> QED
    BY <1>4, <1>6, <1>7, <1>8

\* A step that only ends or begins a wait
LEMMA PublisherStill ==
  ASSUME PublisherInv, UNCHANGED <<state, service, conns, watched, alive>>, friendly' \in Names
  PROVE  PublisherInv'
  BY DEF PublisherInv, PublisherType, Answers, InUse, RegisteredOnce,
     P!OneRegistration, P!RegisteredHolds, P!Open

\* A notifier fires, or a read comes back.
LEMMA SocketDataKeeps ==
  ASSUME PublisherInv, Reading, P!SocketData \/ P!ReadOn
  PROVE  PublisherInv'
  <1>1. alive /\ service # 0 /\ UNCHANGED <<friendly, service, watched, alive>>
    BY DEF P!SocketData, P!ReadOn, P!Runs, Reading
  <1>2. CASE conns[service].answer # "none" /\ P!Process
    BY <1>1, <1>2, ProcessKeeps
  <1>3. CASE UNCHANGED <<state, conns>>
    BY <1>1, <1>3, PublisherStill DEF PublisherInv, PublisherType
  <1> QED
    BY <1>2, <1>3 DEF P!SocketData, P!ReadOn

\* The daemon answers on one connection.
LEMMA DaemonKeeps ==
  ASSUME PublisherInv, NEW c \in DOMAIN conns, NEW r \in Connection,
         conns' = [conns EXCEPT ![c] = r], UNCHANGED <<friendly, state, service, watched, alive>>,
         r.op = conns[c].op, r.open <=> conns[c].open, P!Open(c),
         \/ ~r.failed /\ r.answer = "ok" /\ r.op = "resolve"
         \/ ~r.failed /\ r.answer = "ok" /\ r.holds # "" /\ conns[c].holds = ""
         \/ r.failed /\ r.answer = "error"
  PROVE  PublisherInv'
  <1>1. /\ conns' \in Seq(Connection) /\ Len(conns') = Len(conns) /\ DOMAIN conns' = DOMAIN conns
        /\ conns'[c] = r /\ \A d \in DOMAIN conns : d # c => conns'[d] = conns[d]
    BY ConnChanged
  <1>2. UNCHANGED friendly /\ UNCHANGED state /\ UNCHANGED service /\ UNCHANGED watched
        /\ UNCHANGED alive
    OBVIOUS
  <1>3. PublisherType'
    BY <1>1, <1>2 DEF PublisherInv, PublisherType
  <1>4. r.answer = "ok" /\ r.op = "register" => c = service /\ state = "Registering" /\ r.holds # ""
    BY <1>1 DEF PublisherInv, Answers, RegisteredOnce, P!OneRegistration, P!RegisteredHolds,
       P!Open, PublisherType
  <1>5. Answers' /\ InUse'
    <2>1. \A d \in DOMAIN conns : d # c => conns'[d] = conns[d]
      BY <1>1
    <2>2. Answers'
      <3>1. r.answer = "error" => r.failed
        OBVIOUS
      <3> SUFFICES ASSUME NEW d \in DOMAIN conns
                   PROVE  /\ conns'[d].answer = "error" => conns'[d].failed
                          /\ conns'[d].op = "register" /\ conns'[d].answer = "ok" =>
                               d = service /\ state = "Registering" /\ conns'[d].holds # ""
        BY <1>1, <1>2 DEF Answers
      <3>2. CASE d = c
        BY <1>1, <1>4, <3>1, <3>2
      <3>3. CASE d # c
        BY <2>1, <3>3 DEF PublisherInv, Answers
      <3> QED
        BY <3>2, <3>3
    <2>3. InUse'
      BY <1>1, <1>2, <2>1 DEF PublisherInv, InUse
    <2> QED
      BY <2>2, <2>3
  <1>6. P!OneRegistration'
    <2> SUFFICES ASSUME NEW d \in DOMAIN conns', conns'[d].op = "register", P!Open(d)'
                 PROVE  d = service' /\ IF alive' THEN state' \in {"Registering", "Registered"}
                                                 ELSE state' = "Registering"
      BY DEF P!OneRegistration
    <2>1. d \in DOMAIN conns /\ conns[d].op = "register" /\ P!Open(d)
      BY <1>1 DEF P!Open
    <2>2. d = service /\ IF alive THEN state \in {"Registering", "Registered"}
                                 ELSE state = "Registering"
      BY <2>1 DEF PublisherInv, RegisteredOnce, P!OneRegistration
    <2>3. alive' = alive /\ state' = state /\ service' = service
      BY <1>2
    <2>4. CASE alive
      BY <2>2, <2>3, <2>4
    <2>5. CASE ~alive
      BY <2>2, <2>3, <2>5
    <2> QED
      BY <2>4, <2>5
  <1>7. P!RegisteredHolds'
    <2>1. CASE c = service /\ state = "Registered"
      BY <1>1, <1>2, <1>4, <2>1 DEF PublisherInv, InUse, P!RegisteredHolds
    <2>2. CASE ~(c = service /\ state = "Registered")
      BY <1>1, <1>2, <2>2 DEF PublisherInv, InUse, RegisteredOnce, P!RegisteredHolds
    <2> QED
      BY <2>1, <2>2
  <1> QED
    BY <1>3, <1>5, <1>6, <1>7 DEF PublisherInv, RegisteredOnce

LEMMA DaemonRegistersKeeps ==
  ASSUME PublisherInv, NEW c \in DOMAIN conns, P!DaemonRegisters(c)
  PROVE  PublisherInv'
  <1>1. PICK name \in Names :
             conns' = [conns EXCEPT ![c] = [@ EXCEPT !.holds = name, !.answer = "ok"]]
    BY DEF P!DaemonRegisters, PublisherInv, PublisherType
  <1>2. /\ P!Open(c) /\ conns[c].op = "register" /\ conns[c].holds = ""
        /\ UNCHANGED <<friendly, state, service, watched, alive>> /\ conns[c] \in Connection
    <2>1. conns[c] \in Connection
      BY DEF PublisherInv, PublisherType
    <2> QED
      BY <2>1 DEF P!DaemonRegisters
  <1>3. PICK r : r = [conns[c] EXCEPT !.holds = name, !.answer = "ok"]
    OBVIOUS
  <1>4. conns' = [conns EXCEPT ![c] = r]
    BY <1>1, <1>3
  <1>5. /\ r \in Connection /\ r.op = conns[c].op /\ (r.open <=> conns[c].open) /\ ~r.failed
        /\ r.answer = "ok" /\ r.holds # ""
    BY <1>2, <1>3, NamesAssumption DEF Connection, P!Open
  <1> QED
    BY <1>2, <1>4, <1>5, DaemonKeeps

LEMMA DaemonResolvesKeeps ==
  ASSUME PublisherInv, NEW c \in DOMAIN conns, P!DaemonResolves(c)
  PROVE  PublisherInv'
  <1>1. /\ P!Open(c) /\ conns[c].op = "resolve"
        /\ conns' = [conns EXCEPT ![c] = [@ EXCEPT !.answer = "ok"]]
        /\ UNCHANGED <<friendly, state, service, watched, alive>> /\ conns[c] \in Connection
    BY DEF P!DaemonResolves, PublisherInv, PublisherType
  <1>2. PICK r : r = [conns[c] EXCEPT !.answer = "ok"]
    OBVIOUS
  <1>3. conns' = [conns EXCEPT ![c] = r]
    BY <1>1, <1>2
  <1>4. /\ r \in Connection /\ r.op = conns[c].op /\ (r.open <=> conns[c].open) /\ ~r.failed
        /\ r.answer = "ok"
    BY <1>1, <1>2 DEF Connection, P!Open
  <1> QED
    BY <1>1, <1>3, <1>4, DaemonKeeps

LEMMA DaemonFailsKeeps ==
  ASSUME PublisherInv, NEW c \in DOMAIN conns, P!DaemonFails(c)
  PROVE  PublisherInv'
  <1>1. PICK gone \in BOOLEAN :
        /\ P!Open(c)
        /\ conns' = [conns EXCEPT ![c] = [@ EXCEPT !.failed = TRUE, !.answer = "error", !.holds = "",
                                                   !.hungUp = gone]]
        /\ UNCHANGED <<friendly, state, service, watched, alive>> /\ conns[c] \in Connection
    <2>1. conns[c] \in Connection
      BY DEF PublisherInv, PublisherType
    <2> QED
      BY <2>1 DEF P!DaemonFails
  <1>2. PICK r : r = [conns[c] EXCEPT !.failed = TRUE, !.answer = "error", !.holds = "", !.hungUp = gone]
    OBVIOUS
  <1>3. conns' = [conns EXCEPT ![c] = r]
    BY <1>1, <1>2
  <1>4. /\ r \in Connection /\ r.op = conns[c].op /\ (r.open <=> conns[c].open)
        /\ r.failed /\ r.answer = "error"
    BY <1>1, <1>2 DEF Connection
  <1> QED
    BY <1>1, <1>3, <1>4, DaemonKeeps

LEMMA ReadingKept ==
  ASSUME Reading, [DiscoveryNext]_allVars
  PROVE  Reading'
  <1>1. CASE P!PublisherNext
    BY <1>1 DEF Reading, P!PublisherNext, P!Resolve, P!SocketData, P!ReadOn, P!SetFriendlyName, P!Publish,
       P!Unpublish, P!Destroy, P!DaemonRegisters, P!DaemonResolves, P!DaemonFails, P!Runs
  <1>2. CASE UNCHANGED publisherVars
    BY <1>2 DEF Reading, publisherVars
  <1> QED
    BY <1>1, <1>2 DEF DiscoveryNext, allVars, PublisherStep, FinderStep, NamesStep

LEMMA PublisherKeeps ==
  ASSUME PublisherInv, Reading, [DiscoveryNext]_allVars
  PROVE  PublisherInv'
  <1>1. CASE P!PublisherNext
    <2>1. CASE P!SetFriendlyName
      BY <2>1, PublisherStill DEF P!SetFriendlyName
    <2> QED
      BY <1>1, <2>1, ResolveKeeps, SocketDataKeeps, PublishKeeps, UnpublishKeeps, DestroyKeeps,
         DaemonRegistersKeeps, DaemonResolvesKeeps, DaemonFailsKeeps DEF P!PublisherNext
  <1>2. CASE UNCHANGED publisherVars
    BY <1>2, PublisherStill DEF publisherVars, PublisherInv, PublisherType
  <1> QED
    BY <1>1, <1>2 DEF DiscoveryNext, allVars, PublisherStep, FinderStep, NamesStep

\* However it is published, renamed, unpublished, resolved and given up, whatever
\* the daemon refuses or fails, and whichever connection's notifier fires, a publisher is on the network through
\* one connection at most, which it can release, and Registered means announced:
\* RegisteredOnce, for any names and any number of calls.
THEOREM PublishedOnce == DiscoverySpec => []RegisteredOnce
  <1>1. DiscoveryInit => PublisherInv /\ Reading
    BY PublisherStart DEF DiscoveryInit, P!Init, Reading
  <1>2. PublisherInv /\ Reading /\ [DiscoveryNext]_allVars => (PublisherInv /\ Reading)'
    BY PublisherKeeps, ReadingKept
  <1>3. PublisherInv => RegisteredOnce
    BY DEF PublisherInv
  <1> QED
    BY <1>1, <1>2, <1>3, PTL DEF DiscoverySpec

-----------------------------------------------------------------------------
(* The finder.                                                              *)

\* What is queued under an id was heard of as that id, and resolvers and
\* look-ups are for services that were heard of.
FinderType ==
  /\ currentId \in 0 .. MaxIds /\ connected \in Nat /\ lookupId \in Nat
  /\ reports \in [0 .. MaxIds -> Nat]
  /\ answerable \subseteq resolverQueue /\ resolverQueue \subseteq DOMAIN serviceQueue
  /\ resolverQueue \subseteq 1 .. currentId /\ withdrawn \subseteq 1 .. currentId
  /\ \A id \in DOMAIN serviceQueue :
       "ev" \in DOMAIN serviceQueue[id] /\ serviceQueue[id].ev = id
  /\ DOMAIN resolveQueue \subseteq 1 .. lookupId /\ DOMAIN mdns \subseteq 1 .. lookupId
  /\ \A i \in DOMAIN resolveQueue : resolveQueue[i].ev \in 1 .. currentId

LookedUp(id) == \E i \in DOMAIN resolveQueue : resolveQueue[i].ev = id

\* Conserved, without counting: the four places of a service exclude each other,
\* and it is in one of them.
Placed ==
  /\ \A id \in resolverQueue : id \notin withdrawn /\ reports[id] = 0 /\ ~LookedUp(id)
  /\ \A id \in withdrawn : reports[id] = 0 /\ ~LookedUp(id)
  /\ \A i \in DOMAIN resolveQueue : reports[resolveQueue[i].ev] = 0
  /\ \A i, j \in DOMAIN resolveQueue : resolveQueue[i].ev = resolveQueue[j].ev => i = j
  /\ \A id \in 1 .. currentId :
       \/ reports[id] = 1
       \/ reports[id] = 0 /\ (id \in resolverQueue \/ id \in withdrawn \/ LookedUp(id))
  /\ \A id \in currentId + 1 .. MaxIds : reports[id] = 0

NoneUnheard == backend = "avahi" => reports[0] = 0

FinderInv == FinderType /\ (~Stopped => Placed) /\ NoneUnheard /\ LookUpsAgree

LEMMA IdsBound == MaxIds \in Nat
  BY FinderAssumption

\* Ids taken anew follow those that were taken.
LEMMA NewIdsTaken ==
  ASSUME NEW m \in Nat, NEW k \in 0 .. m, NEW n \in Nat, k + n <= m
  PROVE  /\ k + n \in 0 .. m
         /\ (k + 1 .. k + n) \subseteq (k + 1 .. m) /\ (k + 1 .. k + n) \subseteq 1 .. (k + n)
         /\ 1 .. (k + n) = (1 .. k) \cup (k + 1 .. k + n)
         /\ (k + 1 .. k + n) \cap (1 .. k) = {} /\ (k + 1 .. k + n) \cap (k + n + 1 .. m) = {}
         /\ (k + n + 1 .. m) \subseteq (k + 1 .. m) /\ 0 \notin (k + 1 .. k + n)
         /\ (k + n + 1 .. m) \cap (1 .. k) = {}
         /\ 1 .. (k + n) \subseteq 0 .. m /\ (k + 1 .. m) \subseteq 0 .. m
  OBVIOUS

LEMMA FinderStart ==
  ASSUME Init
  PROVE  FinderInv
  <1>1. FinderType
    BY FinderAssumption DEF Init, FinderType
  <1>2. Placed
    BY FinderAssumption DEF Init, Placed, LookedUp
  <1>3. NoneUnheard /\ LookUpsAgree
    BY FinderAssumption DEF Init, NoneUnheard, LookUpsAgree
  <1> QED
    BY <1>1, <1>2, <1>3 DEF FinderInv

\* Placed says what Conserved counts.
LEMMA PlacedCounted ==
  ASSUME FinderInv
  PROVE  Conserved /\ LookUpsAgree
  <1>1. ASSUME ~Stopped, NEW id \in 1 .. currentId
        PROVE  Cardinality({i \in DOMAIN resolveQueue : resolveQueue[i].ev = id})
                 + Cardinality(resolverQueue \cap {id}) + Cardinality(withdrawn \cap {id})
                 + reports[id] = 1
    <2> DEFINE L == {i \in DOMAIN resolveQueue : resolveQueue[i].ev = id}
    <2>1. Placed /\ id \in 1 .. MaxIds
      BY <1>1, FinderAssumption DEF FinderInv, FinderType
    <2>2. /\ Cardinality(resolverQueue \cap {id}) = IF id \in resolverQueue THEN 1 ELSE 0
          /\ Cardinality(withdrawn \cap {id}) = IF id \in withdrawn THEN 1 ELSE 0
      <3>1. \A S : S \cap {id} = IF id \in S THEN {id} ELSE {}
        OBVIOUS
      <3> QED
        BY <3>1, FS_EmptySet, FS_Singleton
    <2>3. Cardinality(L) = IF LookedUp(id) THEN 1 ELSE 0
      <3>1. CASE LookedUp(id)
        <4>1. PICK i \in DOMAIN resolveQueue : resolveQueue[i].ev = id
          BY <3>1 DEF LookedUp
        <4>2. L = {i}
          BY <2>1, <4>1 DEF Placed
        <4> QED
          BY <3>1, <4>2, FS_Singleton
      <3>2. CASE ~LookedUp(id)
        <4>1. L = {}
          BY <3>2 DEF LookedUp
        <4> QED
          BY <3>2, <4>1, FS_EmptySet
      <3> QED
        BY <3>1, <3>2
    <2>4. LookedUp(id) => reports[id] = 0
      BY <2>1 DEF Placed, LookedUp
    <2> QED
      BY <2>1, <2>2, <2>3, <2>4 DEF Placed
  <1> QED
    BY <1>1 DEF FinderInv, Conserved, NoneUnheard

\* New ids, taken by services heard of, with their resolvers.
LEMMA HeardKeeps ==
  ASSUME FinderInv, ~Stopped, NEW event, NEW name, Heard(event, name),
         UNCHANGED <<backend, connected, mdns, lookups, lookupId>>, ~Stopped'
  PROVE  FinderInv'
  <1>1. /\ currentId' = currentId + connected /\ currentId' <= MaxIds
        /\ resolverQueue' = resolverQueue \cup NewIds
        /\ answerable' \subseteq answerable \cup NewIds
        /\ serviceQueue' = [id \in DOMAIN serviceQueue \cup NewIds |->
             IF id \in NewIds THEN Service(id, event, name) ELSE serviceQueue[id]]
        /\ resolveQueue' = resolveQueue /\ reports' = reports /\ withdrawn' = withdrawn
    BY DEF Heard, told
  <1>2. /\ currentId' \in 0 .. MaxIds /\ NewIds \subseteq (currentId + 1 .. MaxIds)
        /\ 1 .. currentId' = (1 .. currentId) \cup NewIds /\ NewIds \cap (1 .. currentId) = {}
        /\ (currentId' + 1 .. MaxIds) \subseteq (currentId + 1 .. MaxIds)
    BY <1>1, NewIdsTaken, IdsBound DEF FinderInv, FinderType, NewIds
  <1>3. FinderType'
    <2>1. \A id \in DOMAIN serviceQueue' :
            "ev" \in DOMAIN serviceQueue'[id] /\ serviceQueue'[id].ev = id
      BY <1>1 DEF FinderInv, FinderType, Service
    <2> QED
      BY <1>1, <1>2, <2>1, IdsBound DEF FinderInv, FinderType
  <1>4. Placed'
    <2>1. Placed /\ FinderType
      BY DEF FinderInv
    <2>2. \A id \in NewIds : reports[id] = 0 /\ id \notin withdrawn /\ ~LookedUp(id)
      BY <1>2, <2>1 DEF Placed, FinderType, LookedUp
    <2>3. \A id : LookedUp(id)' <=> LookedUp(id)
      BY <1>1 DEF LookedUp
    <2> QED
      BY <1>1, <1>2, <2>1, <2>2, <2>3 DEF Placed
  <1> QED
    BY <1>1, <1>3, <1>4 DEF FinderInv, NoneUnheard, LookUpsAgree, Stopped

\* What a step leaves of the tables is right for the ids there were.
TablesKept ==
  /\ answerable' \subseteq resolverQueue' /\ resolverQueue' \subseteq resolverQueue
  /\ withdrawn' \subseteq 1 .. currentId
  /\ DOMAIN resolveQueue' \subseteq 1 .. lookupId /\ DOMAIN mdns' \subseteq 1 .. lookupId
  /\ \A id \in resolverQueue' : id \notin withdrawn' /\ reports[id] = 0 /\ ~LookedUp(id)'
  /\ \A id \in withdrawn' : reports[id] = 0 /\ ~LookedUp(id)'
  /\ \A i \in DOMAIN resolveQueue' :
       resolveQueue'[i].ev \in 1 .. currentId /\ reports[resolveQueue'[i].ev] = 0
  /\ \A i, j \in DOMAIN resolveQueue' : resolveQueue'[i].ev = resolveQueue'[j].ev => i = j
  /\ \A id \in 1 .. currentId :
       \/ reports[id] = 1
       \/ reports[id] = 0 /\ (id \in resolverQueue' \/ id \in withdrawn' \/ LookedUp(id)')
  /\ DOMAIN resolveQueue' = lookups' /\ lookups' \subseteq DOMAIN mdns'
  /\ backend = "avahi" => lookups' = DOMAIN mdns'

LEMMA TablesStay ==
  ASSUME FinderInv, ~Stopped,
         UNCHANGED <<resolverQueue, answerable, resolveQueue, mdns, lookups, withdrawn>>
  PROVE  TablesKept
  <1>1. /\ resolverQueue' = resolverQueue /\ answerable' = answerable
        /\ resolveQueue' = resolveQueue /\ mdns' = mdns /\ lookups' = lookups
        /\ withdrawn' = withdrawn
    OBVIOUS
  <1>2. \A id : LookedUp(id)' <=> LookedUp(id)
    BY <1>1 DEF LookedUp
  <1> QED
    BY <1>1, <1>2 DEF TablesKept, FinderInv, FinderType, Placed, LookUpsAgree

\* scan() forgets all that waits.
LEMMA TablesForgotten ==
  ASSUME FinderInv, ~Stopped,
         resolverQueue' = {}, answerable' = {}, resolveQueue' = <<>>,
         mdns' = Cancelled(DOMAIN resolveQueue), lookups' = lookups \ DOMAIN resolveQueue,
         withdrawn' = withdrawn \cup resolverQueue
                            \cup {resolveQueue[i].ev : i \in DOMAIN resolveQueue}
  PROVE  TablesKept
  <1>1. FinderType /\ Placed /\ LookUpsAgree /\ DOMAIN resolveQueue = lookups
    BY DEF FinderInv, LookUpsAgree
  <1>2. \A id : ~LookedUp(id)'
    BY DEF LookedUp
  <1>3. \A id : id \in withdrawn' <=> id \in withdrawn \/ id \in resolverQueue \/ LookedUp(id)
    BY DEF LookedUp
  <1>4. /\ DOMAIN resolveQueue' = {} /\ lookups' = {} /\ DOMAIN mdns' \subseteq DOMAIN mdns
        /\ backend = "avahi" => DOMAIN mdns' = {}
    BY <1>1 DEF Cancelled, Without, LookUpsAgree
  <1>5. /\ withdrawn' \subseteq 1 .. currentId
        /\ \A id \in withdrawn' : reports[id] = 0
        /\ \A id \in 1 .. currentId : reports[id] = 1 \/ (reports[id] = 0 /\ id \in withdrawn')
    <2>1. \A id : LookedUp(id) => id \in 1 .. currentId /\ reports[id] = 0
      BY <1>1 DEF FinderType, Placed, LookedUp
    <2>2. withdrawn' \subseteq 1 .. currentId
      BY <1>1, <1>3, <2>1 DEF FinderType
    <2>3. \A id \in withdrawn' : reports[id] = 0
      BY <1>1, <1>3, <2>1 DEF Placed
    <2>4. \A id \in 1 .. currentId : reports[id] = 1 \/ (reports[id] = 0 /\ id \in withdrawn')
      <3> SUFFICES ASSUME NEW id \in 1 .. currentId, reports[id] # 1
                   PROVE  reports[id] = 0 /\ id \in withdrawn'
        OBVIOUS
      <3>1. reports[id] = 0 /\ (id \in resolverQueue \/ id \in withdrawn \/ LookedUp(id))
        BY <1>1 DEF Placed
      <3> QED
        BY <1>3, <3>1
    <2> QED
      BY <2>2, <2>3, <2>4
  <1> QED
    BY <1>1, <1>2, <1>4, <1>5 DEF TablesKept, FinderType

LEMMA QueueStays ==
  ASSUME FinderInv, TablesKept, UNCHANGED <<backend, lookupId, currentId, reports>>,
         connected' \in Nat, resolverQueue' \subseteq DOMAIN serviceQueue',
         \A id \in DOMAIN serviceQueue' :
           "ev" \in DOMAIN serviceQueue'[id] /\ serviceQueue'[id].ev = id,
         ~Stopped
  PROVE  FinderInv'
  <1>1. /\ backend' = backend /\ lookupId' = lookupId /\ currentId' = currentId
        /\ reports' = reports
    OBVIOUS
  <1>2. FinderType'
    BY <1>1 DEF FinderInv, FinderType, TablesKept
  <1>3. Placed'
    BY <1>1 DEF FinderInv, Placed, TablesKept
  <1> QED
    BY <1>1, <1>2, <1>3 DEF FinderInv, NoneUnheard, LookUpsAgree, TablesKept

\* New ids, taken by errors that are reported at once.
LEMMA FailedKeeps ==
  ASSUME FinderInv, TablesKept, UNCHANGED <<backend, lookupId>>,
         NEW n \in Nat, NEW STATE queue, Failed(queue, n), ~Stopped, connected' \in Nat,
         \A id \in DOMAIN queue : "ev" \in DOMAIN queue[id] /\ queue[id].ev = id,
         resolverQueue' \subseteq DOMAIN queue
  PROVE  FinderInv'
  <1> DEFINE new == currentId + 1 .. currentId + n
  <1>1. /\ currentId' = currentId + n /\ currentId' <= MaxIds
        /\ serviceQueue' = [id \in DOMAIN queue \cup new |->
             IF id \in new THEN Service(id, "any", "") ELSE queue[id]]
        /\ reports' = [id \in DOMAIN reports |-> reports[id] + IF id \in new THEN 1 ELSE 0]
    BY DEF Failed
  <1>2. /\ currentId' \in 0 .. MaxIds /\ new \subseteq (currentId + 1 .. MaxIds)
        /\ 1 .. currentId' = (1 .. currentId) \cup new /\ new \cap (1 .. currentId) = {}
        /\ (currentId' + 1 .. MaxIds) \subseteq (currentId + 1 .. MaxIds) /\ 0 \notin new
        /\ new \cap (currentId' + 1 .. MaxIds) = {} /\ (currentId + 1 .. MaxIds) \subseteq 0 .. MaxIds
        /\ 1 .. currentId' \subseteq 0 .. MaxIds
    <2>1. currentId \in 0 .. MaxIds /\ MaxIds \in Nat /\ currentId + n <= MaxIds
      BY <1>1, IdsBound DEF FinderInv, FinderType
    <2>2. currentId' = currentId + n
      BY <1>1
    <2> QED
      BY ONLY <2>1, <2>2, NewIdsTaken, n \in Nat
  <1>3. /\ reports' \in [0 .. MaxIds -> Nat]
        /\ \A id \in 0 .. MaxIds : id \notin new => reports'[id] = reports[id]
        /\ \A id \in new : reports'[id] = reports[id] + 1
    <2>1. reports \in [0 .. MaxIds -> Nat]
      BY DEF FinderInv, FinderType
    <2>2. new \subseteq 0 .. MaxIds
      BY <1>2
    <2>3. \A id \in 0 .. MaxIds : reports'[id] = reports[id] + IF id \in new THEN 1 ELSE 0
      BY <1>1, <2>1
    <2>4. DOMAIN reports' = 0 .. MaxIds /\ reports' = [id \in 0 .. MaxIds |-> reports'[id]]
      BY <1>1, <2>1
    <2>5. \A id \in 0 .. MaxIds : reports[id] \in Nat
      BY <2>1
    <2> HIDE DEF new
    <2>6. /\ \A id \in 0 .. MaxIds : id \notin new => reports'[id] = reports[id]
          /\ \A id \in new : reports'[id] = reports[id] + 1
      <3>1. ASSUME NEW id \in 0 .. MaxIds, id \notin new
            PROVE  reports'[id] = reports[id]
        <4>1. reports'[id] = reports[id] + 0 /\ reports[id] \in Nat
          BY <2>3, <2>5, <3>1
        <4> QED
          BY <4>1
      <3>2. ASSUME NEW id \in new
            PROVE  reports'[id] = reports[id] + 1
        BY <2>2, <2>3, <3>2
      <3> QED
        BY <3>1, <3>2
    <2>7. \A id \in 0 .. MaxIds : reports'[id] \in Nat
      BY <2>5, <2>6
    <2> QED
      BY <2>4, <2>6, <2>7
  <1>4. FinderType'
    <2>1. \A id \in DOMAIN serviceQueue' :
            "ev" \in DOMAIN serviceQueue'[id] /\ serviceQueue'[id].ev = id
      BY <1>1 DEF Service
    <2>2. resolverQueue' \subseteq DOMAIN serviceQueue'
      BY <1>1
    <2> QED
      BY <1>1, <1>2, <1>3, <2>1, <2>2, IdsBound DEF FinderInv, FinderType, TablesKept
  <1>5. Placed'
    <2>1. Placed /\ FinderType
      BY DEF FinderInv
    <2>2. \A id \in new : reports'[id] = 1
      BY <1>2, <1>3, <2>1 DEF Placed, FinderType
    <2>3. /\ \A id \in 1 .. currentId : reports'[id] = reports[id]
          /\ \A id \in currentId' + 1 .. MaxIds : reports'[id] = 0
      BY <1>2, <1>3, <2>1, IdsBound DEF Placed, FinderType
    <2>4. resolverQueue' \subseteq 1 .. currentId
      BY <2>1 DEF FinderType, TablesKept
    <2> QED
      BY <1>1, <1>2, <2>2, <2>3, <2>4 DEF Placed, TablesKept
  <1>6. NoneUnheard'
    BY <1>2, <1>3, IdsBound DEF FinderInv, NoneUnheard
  <1> QED
    BY <1>4, <1>5, <1>6 DEF FinderInv, LookUpsAgree, TablesKept

\* One address, or none, ends the look-up it was for.
LEMMA GetAddressKeeps ==
  ASSUME FinderInv, ~Stopped, NEW id, GetAddress(id), id \in DOMAIN mdns,
         lookups' \subseteq DOMAIN mdns', DOMAIN mdns' \subseteq DOMAIN mdns,
         backend = "avahi" => lookups' = DOMAIN mdns',
         UNCHANGED <<backend, connected, currentId, lookupId>>
  PROVE  FinderInv'
  <1>1. PICK entry : entry = IF id \in DOMAIN resolveQueue THEN resolveQueue[id] ELSE Blank
    OBVIOUS
  <1>2. /\ lookups' = lookups \ {id}
        /\ resolveQueue' = [i \in DOMAIN resolveQueue \ {id} |-> resolveQueue[i]]
        /\ reports' = [reports EXCEPT ![entry.ev] = @ + 1]
        /\ UNCHANGED <<serviceQueue, resolverQueue, answerable, withdrawn>>
    BY <1>1 DEF GetAddress, Without
  <1>3. FinderType /\ Placed /\ DOMAIN resolveQueue = lookups /\ NoneUnheard
    BY DEF FinderInv, LookUpsAgree
  <1>4. CASE id \in DOMAIN resolveQueue
    <2>1. /\ entry.ev \in 1 .. currentId /\ LookedUp(entry.ev) /\ reports[entry.ev] = 0
      BY <1>1, <1>3, <1>4 DEF FinderType, Placed, LookedUp
    <2>2. /\ reports' \in [0 .. MaxIds -> Nat] /\ reports'[entry.ev] = 1
          /\ \A e \in 0 .. MaxIds : e # entry.ev => reports'[e] = reports[e]
          /\ 1 .. currentId \subseteq 0 .. MaxIds
          /\ currentId + 1 .. MaxIds \subseteq 0 .. MaxIds \ {entry.ev}
      BY <1>2, <1>3, <2>1, IdsBound DEF FinderType
    <2>3. FinderType'
      BY <1>2, <1>3, <2>2 DEF FinderType
    <2>4. \A e : LookedUp(e)' <=> LookedUp(e) /\ e # entry.ev
      BY <1>1, <1>2, <1>3, <1>4 DEF LookedUp, Placed
    <2>5. Placed'
      <3>1. /\ \A i \in DOMAIN resolveQueue' :
                 i \in DOMAIN resolveQueue /\ resolveQueue'[i] = resolveQueue[i] /\ i # id
            /\ \A i \in DOMAIN resolveQueue : resolveQueue[i].ev \in 0 .. MaxIds
            /\ \A i \in DOMAIN resolveQueue' : resolveQueue'[i].ev # entry.ev
        BY <1>1, <1>2, <1>3, <1>4, <2>2 DEF FinderType, Placed
      <3>2. /\ \A e \in resolverQueue' :
                 e \notin withdrawn' /\ reports'[e] = 0 /\ ~LookedUp(e)'
            /\ \A e \in withdrawn' : reports'[e] = 0 /\ ~LookedUp(e)'
        BY <1>2, <1>3, <2>1, <2>2, <2>4 DEF Placed, FinderType
      <3>3. /\ \A i \in DOMAIN resolveQueue' : reports'[resolveQueue'[i].ev] = 0
            /\ \A i, j \in DOMAIN resolveQueue' :
                 resolveQueue'[i].ev = resolveQueue'[j].ev => i = j
        BY <1>3, <2>2, <3>1 DEF Placed
      <3>4. \A e \in 1 .. currentId' :
              \/ reports'[e] = 1
              \/ reports'[e] = 0 /\ (e \in resolverQueue' \/ e \in withdrawn' \/ LookedUp(e)')
        BY <1>2, <1>3, <2>2, <2>4 DEF Placed
      <3>5. \A e \in currentId' + 1 .. MaxIds : reports'[e] = 0
        BY <1>3, <2>2 DEF Placed
      <3> QED
        BY <3>2, <3>3, <3>4, <3>5 DEF Placed
    <2>6. NoneUnheard'
      BY <1>3, <2>1, <2>2, IdsBound DEF NoneUnheard
    <2> QED
      BY <1>2, <1>3, <2>3, <2>5, <2>6 DEF FinderInv, LookUpsAgree
  <1>5. CASE id \notin DOMAIN resolveQueue
    <2>1. entry.ev = 0 /\ backend # "avahi"
      BY <1>1, <1>3, <1>5 DEF Blank, Service, FinderInv, LookUpsAgree
    <2>2. /\ reports' \in [0 .. MaxIds -> Nat]
          /\ \A e \in 1 .. MaxIds : reports'[e] = reports[e]
          /\ 1 .. currentId \subseteq 1 .. MaxIds /\ currentId + 1 .. MaxIds \subseteq 1 .. MaxIds
      BY <1>2, <1>3, <2>1, IdsBound DEF FinderType
    <2>3. FinderType'
      BY <1>2, <1>3, <2>2 DEF FinderType
    <2>4. \A e : LookedUp(e)' <=> LookedUp(e)
      BY <1>2, <1>5 DEF LookedUp
    <2>5. Placed'
      BY <1>2, <1>3, <1>5, <2>2, <2>4 DEF Placed, FinderType
    <2> QED
      BY <1>2, <1>3, <2>1, <2>3, <2>5 DEF FinderInv, LookUpsAgree, NoneUnheard
  <1> QED
    BY <1>4, <1>5

LEMMA ScanKeeps ==
  ASSUME FinderInv, Scan
  PROVE  FinderInv'
  <1> DEFINE queue == IF notifier THEN <<>> ELSE serviceQueue
  <1>1. /\ ~Stopped /\ backend' = backend /\ lookupId' = lookupId /\ connected' = connected + 1
        /\ Browse(queue, connected')
    BY DEF Scan, Stopped
  <1>2. FinderType /\ connected' \in Nat
    BY <1>1 DEF FinderInv, FinderType
  <1>3. TablesKept /\ (notifier => resolverQueue' = {})
    <2>1. CASE notifier
      BY <1>1, <2>1, TablesForgotten DEF Scan
    <2>2. CASE ~notifier
      BY <1>1, <2>2, TablesStay DEF Scan
    <2> QED
      BY <2>1, <2>2
  <1>4. /\ \A id \in DOMAIN queue : "ev" \in DOMAIN queue[id] /\ queue[id].ev = id
        /\ resolverQueue' \subseteq DOMAIN queue
    <2>1. CASE notifier
      <3>1. queue = <<>> /\ DOMAIN <<>> = {}
        BY <2>1
      <3> QED
        BY <1>3, <2>1, <3>1
    <2>2. CASE ~notifier
      BY <1>2, <1>3, <2>2 DEF FinderType, TablesKept
    <2> QED
      BY <2>1, <2>2
  <1> HIDE DEF queue
  <1>5. CASE serviceQueue' = queue /\ currentId' = currentId /\ reports' = reports
    BY <1>1, <1>2, <1>3, <1>4, <1>5, QueueStays
  <1>6. CASE Failed(queue, connected')
    BY <1>1, <1>2, <1>3, <1>4, <1>6, FailedKeeps
  <1> QED
    BY <1>1, <1>5, <1>6 DEF Browse

\* The socket of the browser, read at once or waited for.
LEMMA DeliverKeeps ==
  ASSUME FinderInv, ~Stopped, ~Stopped', Deliver, UNCHANGED <<backend, connected>>
  PROVE  FinderInv'
  <1>1. CASE /\ Failed(serviceQueue, connected)
             /\ UNCHANGED <<resolverQueue, answerable, resolveQueue, hosts, withdrawn>>
    <2>1. /\ resolverQueue' = resolverQueue /\ lookupId' = lookupId
          /\ UNCHANGED <<resolverQueue, answerable, resolveQueue, mdns, lookups, withdrawn>>
      BY <1>1 DEF hosts
    <2>2. TablesKept
      BY <2>1, TablesStay
    <2>3. /\ connected \in Nat /\ connected' = connected
          /\ \A id \in DOMAIN serviceQueue :
               "ev" \in DOMAIN serviceQueue[id] /\ serviceQueue[id].ev = id
          /\ resolverQueue' \subseteq DOMAIN serviceQueue
      BY <2>1 DEF FinderInv, FinderType
    <2> QED
      BY <1>1, <2>1, <2>2, <2>3, FailedKeeps
  <1>2. CASE \E event, name : Heard(event, name)
    <2>1. PICK event, name : Heard(event, name)
      BY <1>2
    <2>2. UNCHANGED <<backend, connected, mdns, lookups, lookupId>>
      BY <2>1 DEF Heard, hosts
    <2> QED
      BY <2>1, <2>2, HeardKeeps
  <1> QED
    BY <1>1, <1>2 DEF Deliver

LEMMA FinderStill ==
  ASSUME FinderInv, UNCHANGED <<backend, connected, currentId, queues, hosts, told>>,
         thread' = thread \/ (thread = "loop" /\ thread' \in {"broken", "reading"})
  PROVE  FinderInv'
  <1>1. /\ backend' = backend /\ connected' = connected /\ currentId' = currentId
        /\ serviceQueue' = serviceQueue /\ resolverQueue' = resolverQueue
        /\ answerable' = answerable /\ resolveQueue' = resolveQueue /\ lookupId' = lookupId
        /\ lookups' = lookups /\ mdns' = mdns /\ reports' = reports /\ withdrawn' = withdrawn
        /\ (~Stopped' => ~Stopped)
    BY DEF queues, hosts, told, Stopped
  <1>2. FinderType'
    BY <1>1 DEF FinderInv, FinderType
  <1>3. Placed => Placed'
    BY <1>1 DEF Placed, LookedUp
  <1>4. LookUpsAgree' /\ NoneUnheard'
    BY <1>1 DEF FinderInv, LookUpsAgree, NoneUnheard
  <1> QED
    BY <1>1, <1>2, <1>3, <1>4 DEF FinderInv

LEMMA SetServiceKeeps ==
  ASSUME FinderInv, SetService
  PROVE  FinderInv'
  <1>1. ~Stopped /\ ~Stopped' /\ connected' = 0 /\ TablesKept
        /\ UNCHANGED <<backend, currentId, queues, hosts, told>>
    BY TablesStay DEF SetService, Stopped, queues, hosts, told
  <1>2. /\ lookupId' = lookupId /\ resolverQueue' = resolverQueue
        /\ serviceQueue' = serviceQueue /\ reports' = reports
    BY <1>1 DEF queues, hosts, told
  <1> QED
    BY <1>1, <1>2, QueueStays DEF FinderInv, FinderType

LEMMA ReadKeeps ==
  ASSUME FinderInv, SocketData \/ ReadOn
  PROVE  FinderInv'
  <1>1. backend' = backend /\ connected' = connected
    BY DEF SocketData, ReadOn
  <1>2. CASE ReadOn
    <2>1. ~Stopped /\ ~Stopped' /\ Deliver
      BY <1>2 DEF ReadOn, Stopped
    <2> QED
      BY <1>1, <2>1, DeliverKeeps
  <1>3. CASE SocketData
    <2>1. \/ Deliver /\ thread' = thread
          \/ /\ thread' \in {"broken", "reading"}
             /\ UNCHANGED <<browser, currentId, queues, hosts, told, errors>>
      BY <1>3 DEF SocketData, Pending
    <2>2. thread = "loop"
      BY <1>3 DEF SocketData
    <2>3. CASE Deliver /\ thread' = thread
      BY <1>1, <2>2, <2>3, DeliverKeeps DEF Stopped
    <2>4. CASE /\ thread' \in {"broken", "reading"}
               /\ UNCHANGED <<browser, currentId, queues, hosts, told, errors>>
      BY <1>1, <2>2, <2>4, FinderStill
    <2> QED
      BY <2>1, <2>3, <2>4
  <1> QED
    BY <1>2, <1>3

LEMMA LookUpLeaves ==
  ASSUME NEW STATE entry, LookUp(entry)
  PROVE  /\ lookupId' = lookupId + 1
         /\ \/ thread' = "locked" /\ UNCHANGED <<mdns, lookups, resolveQueue>>
            \/ /\ DOMAIN mdns' = DOMAIN mdns \cup {lookupId + 1}
               /\ lookups' = lookups \cup {lookupId + 1}
               /\ resolveQueue' = Put(resolveQueue, lookupId + 1, entry) /\ thread' = thread
  BY DEF LookUp, Put

\* The resolver of a service is through, and a look-up begins, or the thread
\* waits for itself.
LEMMA AnsweredKeeps ==
  ASSUME FinderInv, thread = "loop", NEW id \in answerable, NEW host \in BOOLEAN,
         Answered(id, host)
  PROVE  FinderInv'
  <1>1. /\ ~Stopped /\ FinderType /\ Placed /\ LookUpsAgree /\ DOMAIN resolveQueue = lookups
        /\ NoneUnheard
    BY DEF FinderInv, Stopped, LookUpsAgree
  <1>2. /\ id \in resolverQueue /\ id \in DOMAIN serviceQueue /\ id \in 1 .. currentId
        /\ id \notin withdrawn /\ reports[id] = 0 /\ ~LookedUp(id)
    BY <1>1 DEF FinderType, Placed
  <1>3. PICK entry : entry = [serviceQueue[id] EXCEPT !.host = host]
    OBVIOUS
  <1>4. entry.ev = id
    BY <1>1, <1>2, <1>3 DEF FinderType
  <1>5. /\ resolverQueue' = resolverQueue \ {id} /\ answerable' = answerable \ {id}
        /\ LookUp(entry) /\ serviceQueue' = serviceQueue /\ backend' = backend
        /\ connected' = connected /\ currentId' = currentId /\ reports' = reports
        /\ withdrawn' = withdrawn
    BY <1>2, <1>3 DEF Answered, browser, told
  <1> DEFINE k == lookupId + 1
  <1>6. /\ lookupId' = k /\ k \in Nat /\ k \notin 1 .. lookupId /\ 1 .. k = (1 .. lookupId) \cup {k}
    BY <1>1, <1>5, LookUpLeaves DEF FinderType
  <1>7. CASE thread' = "locked" /\ UNCHANGED <<mdns, lookups, resolveQueue>>
    <2>1. FinderType'
      BY <1>1, <1>5, <1>6, <1>7 DEF FinderType
    <2> QED
      BY <1>1, <1>5, <1>7, <2>1 DEF FinderInv, Stopped, NoneUnheard, LookUpsAgree
  <1>8. CASE /\ DOMAIN mdns' = DOMAIN mdns \cup {k} /\ lookups' = lookups \cup {k}
             /\ resolveQueue' = Put(resolveQueue, k, entry) /\ thread' = thread
    <2>1. /\ DOMAIN resolveQueue' = DOMAIN resolveQueue \cup {k} /\ k \notin DOMAIN resolveQueue
          /\ resolveQueue'[k].ev = id
          /\ \A i \in DOMAIN resolveQueue : resolveQueue'[i] = resolveQueue[i]
      BY <1>1, <1>4, <1>6, <1>8 DEF Put, FinderType
    <2>2. \A e : LookedUp(e)' <=> LookedUp(e) \/ e = id
      BY <2>1 DEF LookedUp
    <2>3. FinderType'
      BY <1>1, <1>2, <1>5, <1>6, <1>8, <2>1 DEF FinderType
    <2>4. Placed'
      <3>1. /\ \A e \in resolverQueue' :
                 e \notin withdrawn' /\ reports'[e] = 0 /\ ~LookedUp(e)'
            /\ \A e \in withdrawn' : reports'[e] = 0 /\ ~LookedUp(e)'
        BY <1>1, <1>2, <1>5, <2>2 DEF Placed
      <3>2. /\ \A i \in DOMAIN resolveQueue' : reports'[resolveQueue'[i].ev] = 0
            /\ \A i, j \in DOMAIN resolveQueue' :
                 resolveQueue'[i].ev = resolveQueue'[j].ev => i = j
        BY <1>1, <1>2, <1>5, <2>1 DEF Placed, LookedUp
      <3>3. \A e \in 1 .. currentId' :
              \/ reports'[e] = 1
              \/ reports'[e] = 0 /\ (e \in resolverQueue' \/ e \in withdrawn' \/ LookedUp(e)')
        BY <1>1, <1>2, <1>5, <2>2 DEF Placed
      <3> QED
        BY <1>1, <1>5, <3>1, <3>2, <3>3 DEF Placed
    <2>5. LookUpsAgree' /\ NoneUnheard'
      BY <1>1, <1>5, <1>8, <2>1 DEF LookUpsAgree, NoneUnheard
    <2> QED
      BY <2>3, <2>4, <2>5 DEF FinderInv
  <1> QED
    BY <1>5, <1>7, <1>8, LookUpLeaves

\* The look-ups go on.
LEMMA LookUpsMove ==
  ASSUME FinderInv, DOMAIN mdns' = DOMAIN mdns,
         UNCHANGED <<backend, thread, connected, currentId, lookupId, lookups, queues, told>>
  PROVE  FinderInv'
  <1>1. /\ backend' = backend /\ connected' = connected /\ currentId' = currentId
        /\ serviceQueue' = serviceQueue /\ resolverQueue' = resolverQueue
        /\ answerable' = answerable /\ resolveQueue' = resolveQueue /\ lookupId' = lookupId
        /\ lookups' = lookups /\ reports' = reports /\ withdrawn' = withdrawn
        /\ (Stopped' <=> Stopped)
    BY DEF queues, told, Stopped
  <1>2. FinderType'
    BY <1>1 DEF FinderInv, FinderType
  <1>3. Placed => Placed'
    BY <1>1 DEF Placed, LookedUp
  <1>4. LookUpsAgree' /\ NoneUnheard'
    BY <1>1 DEF FinderInv, LookUpsAgree, NoneUnheard
  <1> QED
    BY <1>1, <1>2, <1>3, <1>4 DEF FinderInv

LEMMA ClientRunningKeeps ==
  ASSUME FinderInv, ClientRunning
  PROVE  FinderInv'
  <1>1. PICK id \in DOMAIN mdns :
          \/ /\ mdns' = [mdns EXCEPT ![id].client = "running"]
             /\ UNCHANGED <<thread, lookups, queues, told>>
          \/ /\ GetAddress(id)
             /\ mdns' = Without(mdns, {id})
             /\ thread' = "broken"
    BY DEF ClientRunning
  <1>2. /\ thread = "loop" /\ backend' = backend /\ connected' = connected
        /\ currentId' = currentId /\ lookupId' = lookupId
    BY DEF ClientRunning, browser
  <1>3. CASE /\ mdns' = [mdns EXCEPT ![id].client = "running"]
             /\ UNCHANGED <<thread, lookups, queues, told>>
    <2>1. DOMAIN mdns' = DOMAIN mdns
      BY <1>3
    <2> QED
      BY <1>2, <1>3, <2>1, LookUpsMove
  <1>4. CASE GetAddress(id) /\ mdns' = Without(mdns, {id})
    <2>1. DOMAIN mdns' = DOMAIN mdns \ {id} /\ lookups' = lookups \ {id}
      BY <1>4 DEF Without, GetAddress
    <2>2. lookups \subseteq DOMAIN mdns /\ (backend = "avahi" => lookups = DOMAIN mdns)
      BY DEF FinderInv, LookUpsAgree
    <2> QED
      BY <1>2, <1>4, <2>1, <2>2, GetAddressKeeps DEF Stopped
  <1> QED
    BY <1>1, <1>3, <1>4

LEMMA RecordAnswerKeeps ==
  ASSUME FinderInv, RecordAnswer
  PROVE  FinderInv'
  <1>1. PICK id \in DOMAIN mdns :
          /\ Live(id) /\ GetAddress(id)
          /\ mdns' = IF id \in lookups THEN Without(mdns, {id}) ELSE [mdns EXCEPT ![id].sent = TRUE]
    BY DEF RecordAnswer
  <1>2. /\ thread = "loop" /\ backend = "avahi" /\ backend' = backend /\ connected' = connected
        /\ currentId' = currentId /\ lookupId' = lookupId
    BY <1>1 DEF RecordAnswer, browser, Live
  <1>3. lookups = DOMAIN mdns
    BY <1>2 DEF FinderInv, LookUpsAgree
  <1>4. DOMAIN mdns' = DOMAIN mdns \ {id} /\ lookups' = lookups \ {id}
    BY <1>1, <1>3 DEF Without, GetAddress
  <1> QED
    BY <1>1, <1>2, <1>3, <1>4, GetAddressKeeps DEF Stopped

LEMMA QueryAnswerKeeps ==
  ASSUME FinderInv, QueryAnswer
  PROVE  FinderInv'
  <1>1. PICK id \in DOMAIN mdns :
          /\ Live(id) /\ mdns' = [mdns EXCEPT ![id].answers = @ + 1] /\ GetAddress(id)
    BY DEF QueryAnswer
  <1>2. /\ thread = "loop" /\ backend = "bonjour" /\ backend' = backend /\ connected' = connected
        /\ currentId' = currentId /\ lookupId' = lookupId
    BY <1>1 DEF QueryAnswer, browser, Live
  <1>3. DOMAIN mdns' = DOMAIN mdns /\ lookups' = lookups \ {id} /\ lookups \subseteq DOMAIN mdns
    BY <1>1 DEF GetAddress, FinderInv, LookUpsAgree
  <1> QED
    BY <1>1, <1>2, <1>3, GetAddressKeeps DEF Stopped

LEMMA FinderKeeps ==
  ASSUME FinderInv, [DiscoveryNext]_allVars
  PROVE  FinderInv'
  <1>1. CASE FinderNext
    <2>1. CASE Resolved \/ ResolveError
      <3>1. /\ thread = "loop"
            /\ \E id \in answerable, host \in BOOLEAN : Answered(id, host)
        BY <2>1 DEF Resolved, ResolveError
      <3> QED
        BY <3>1, AnsweredKeeps
    <2>2. CASE BrowseFails
      BY <2>2, FinderStill DEF BrowseFails
    <2> QED
      BY <1>1, <2>1, <2>2, ScanKeeps, SetServiceKeeps, ReadKeeps, ClientRunningKeeps,
         RecordAnswerKeeps, QueryAnswerKeeps DEF FinderNext
  <1>2. CASE UNCHANGED finderVars
    BY <1>2, FinderStill DEF finderVars, browser
  <1> QED
    BY <1>1, <1>2 DEF DiscoveryNext, allVars, vars, PublisherStep, FinderStep, NamesStep, Network

\* However often it scans, whatever comes and goes, and in whatever order and
\* however often resolvers and look-ups answer or fail, a service that was heard
\* of is in one place until it is reported or forgotten, and the tables of the
\* finder and the look-ups are in step: FinderKeepsTrack, for either daemon, any
\* names and any number of services.
THEOREM HeardOfOnce == DiscoverySpec => []FinderKeepsTrack
  <1>1. DiscoveryInit => FinderInv
    BY FinderStart DEF DiscoveryInit
  <1>2. FinderInv /\ [DiscoveryNext]_allVars => FinderInv'
    BY FinderKeeps
  <1>3. FinderInv => FinderKeepsTrack
    BY PlacedCounted DEF FinderKeepsTrack
  <1> QED
    BY <1>1, <1>2, <1>3, PTL DEF DiscoverySpec
-----------------------------------------------------------------------------
(* How the two spell a service's type and port.                             *)

\* What a text may hold, and what is added to it
Piece == STRING \cup {"_", "tcp", "QtRpc_"}
Word == Seq(Piece)

\* What the text of a service, that of a finder, and the two byte orders make
\* of it, whatever was announced, withdrawn or heard of in between.
NamesInv ==
  /\ offer.text \in ServiceTexts /\ wanted.text \in ServiceTexts
  /\ offer = [text |-> offer.text, service |-> offer.service]
  /\ offer.service = [name |-> SetServiceType(Prefixed(offer.text)),
                      subtypes |-> SubTypes(Prefixed(offer.text)), port |-> offer.service.port]
  /\ wanted.browser = Discoverable(Prefixed(wanted.text))
  /\ announced # Nothing => announced.request = Request(offer.service) /\ announced.port = Port
  /\ browsing # Nothing => browsing = Request(wanted.browser)
  /\ heard # Nothing =>
       /\ heard = [event |-> heard.event, type |-> heard.type, port |-> heard.port]
       /\ heard.port \in {AnyPort, Port}
       /\ FullServiceType(offer.service.name) = FullServiceType(wanted.browser.name)
       /\ heard.event = "added" /\ Plain(wanted.text) =>
            heard.type = FullServiceType(offer.service.name)

\* What is put in front of a sequence, and what is put behind it.
LEMMA InFront ==
  ASSUME NEW S, NEW a \in S, NEW q \in Seq(S)
  PROVE  /\ <<a>> \o q \in Seq(S) /\ Len(<<a>> \o q) = Len(q) + 1 /\ (<<a>> \o q)[1] = a
         /\ \A i \in 1 .. Len(q) : (<<a>> \o q)[i + 1] = q[i]
  <1>1. PICK one : one = <<a>>
    OBVIOUS
  <1>2. one \in Seq(S) /\ Len(one) = 1 /\ one[1] = a /\ Len(q) \in Nat
    BY <1>1
  <1>3. /\ one \o q \in Seq(S) /\ Len(one \o q) = Len(one) + Len(q)
        /\ \A i \in 1 .. Len(one) + Len(q) :
             (one \o q)[i] = IF i <= Len(one) THEN one[i] ELSE q[i - Len(one)]
    BY <1>2, ConcatProperties
  <1>4. ASSUME NEW i \in 1 .. Len(q)
        PROVE  (one \o q)[i + 1] = q[i]
    <2>1. PICK j \in 1 .. Len(one) + Len(q) : j = i + 1
      BY <1>2
    <2>2. (one \o q)[j] = q[j - 1] /\ j - 1 = i
      BY <1>2, <1>3, <2>1
    <2> QED
      BY <2>1, <2>2
  <1>5. (one \o q)[1] = a
    BY <1>2, <1>3
  <1> QED
    BY <1>1, <1>2, <1>3, <1>4, <1>5

LEMMA Behind ==
  ASSUME NEW S, NEW a \in S, NEW q \in Seq(S)
  PROVE  /\ q \o <<a>> \in Seq(S) /\ Len(q \o <<a>>) = Len(q) + 1
         /\ \A i \in 1 .. Len(q) : (q \o <<a>>)[i] = q[i]
  <1>1. PICK one : one = <<a>>
    OBVIOUS
  <1>3. one \in Seq(S) /\ Len(one) = 1 /\ Len(q) \in Nat
    BY <1>1
  <1>2. /\ q \o one \in Seq(S) /\ Len(q \o one) = Len(q) + Len(one)
        /\ \A i \in 1 .. Len(q) + Len(one) :
             (q \o one)[i] = IF i <= Len(q) THEN q[i] ELSE one[i - Len(q)]
    BY <1>3, ConcatProperties
  <1> QED
    BY <1>1, <1>2, <1>3

\* It can be taken away again.
LEMMA TakenAway ==
  ASSUME NEW S, NEW a \in S, NEW p \in Seq(S), NEW q \in Seq(S), <<a>> \o p = <<a>> \o q
  PROVE  p = q
  <1>1. PICK one : one = <<a>>
    OBVIOUS
  <1>2. one \in Seq(S) /\ one \o p = one \o q
    BY <1>1
  <1> QED
    BY <1>2, ConcatSimplifications

\* A word with a piece in front is a word, and so is the protocol.
LEMMA LongerWord ==
  ASSUME NEW word \in Word, NEW piece \in Piece
  PROVE  <<piece>> \o word \in Word
  BY InFront DEF Word

LEMMA Pair ==
  ASSUME NEW S, NEW a \in S, NEW b \in S
  PROVE  <<a, b>> \in Seq(S)
  OBVIOUS

LEMMA Pieces == "_" \in Piece /\ "tcp" \in Piece /\ "QtRpc_" \in Piece
  BY DEF Piece

LEMMA ProtocolWord == <<"_", "tcp">> \in Word
  BY Pieces, Pair DEF Word

LEMMA ShorterWord ==
  ASSUME NEW p \in Word, NEW q \in Word, NEW piece \in Piece, <<piece>> \o p = <<piece>> \o q
  PROVE  p = q
  BY TakenAway DEF Word

\* What is put in the place of the head, and behind the rest.
Between(b, w, t) == <<b>> \o Tail(w) \o <<t>>

LEMMA Headed ==
  ASSUME NEW S, NEW w \in Seq(S), w # <<>>, NEW b \in S, NEW t \in S
  PROVE  LET full == Between(b, w, t) IN
         /\ Len(full) = Len(w) + 1 /\ full[1] = b
         /\ \A i \in 2 .. Len(w) : full[i] = w[i]
  <1>0. PICK full : full = Between(b, w, t)
    OBVIOUS
  <1>1. Tail(w) \in Seq(S) /\ Len(Tail(w)) = Len(w) - 1 /\ Len(w) \in Nat \ {0}
        /\ \A i \in 1 .. Len(w) - 1 : Tail(w)[i] = w[i + 1]
    BY HeadTailProperties, EmptySeq
  <1>2. PICK front : front = <<b>> \o Tail(w)
    OBVIOUS
  <1>3. /\ front \in Seq(S) /\ Len(front) = Len(w) /\ front[1] = b
        /\ \A i \in 1 .. Len(w) - 1 : front[i + 1] = w[i + 1]
    <2>1. /\ front \in Seq(S) /\ Len(front) = Len(Tail(w)) + 1 /\ front[1] = b
          /\ \A i \in 1 .. Len(Tail(w)) : front[i + 1] = Tail(w)[i]
      BY <1>1, <1>2, InFront
    <2> QED
      BY <1>1, <2>1
  <1>4. ASSUME NEW i \in 2 .. Len(w)
        PROVE  front[i] = w[i]
    <2>1. PICK j \in 1 .. Len(w) - 1 : j + 1 = i
      BY <1>1
    <2> QED
      BY <1>3, <2>1
  <1>5. Len(full) = Len(front) + 1 /\ \A i \in 1 .. Len(front) : full[i] = front[i]
    <2>1. full = front \o <<t>>
      BY <1>0, <1>2 DEF Between
    <2> QED
      BY <1>3, <2>1, Behind
  <1>6. full[1] = front[1] /\ \A i \in 2 .. Len(w) : full[i] = front[i]
    BY <1>1, <1>3, <1>5
  <1> QED
    BY <1>0, <1>3, <1>4, <1>5, <1>6

\* "QtRpc_" goes in front of the first word and leaves the words what they are.
LEMMA PrefixedWords ==
  ASSUME NEW text \in ServiceTexts
  PROVE  /\ Head(text) \in Seq(Word) /\ Len(Head(text)) \in Nat \ {0}
         /\ Head(Prefixed(text)) \in Seq(Word) /\ Len(Head(Prefixed(text))) = Len(Head(text))
         /\ Head(Prefixed(text))[1] = <<"QtRpc_">> \o Head(text)[1]
         /\ \A i \in 2 .. Len(Head(text)) : Head(Prefixed(text))[i] = Head(text)[i]
  <1>1. /\ text \in Seq(Seq(Word) \ {<<>>}) /\ text # <<>>
    <2>1. STRING \subseteq Piece
      BY DEF Piece
    <2>2. Seq(STRING) \subseteq Word
      BY <2>1, SeqMonotonic DEF Word
    <2>3. Seq(Seq(STRING)) \ {<<>>} \subseteq Seq(Word) \ {<<>>}
      BY <2>2, SeqMonotonic
    <2>4. text \in Seq(Seq(Seq(STRING)) \ {<<>>}) /\ text # <<>>
      BY ServiceTextsAssumption
    <2> QED
      BY <2>3, <2>4, SeqMonotonic
  <1>2. /\ Head(text) \in Seq(Word) /\ Head(text) # <<>> /\ Head(text) = text[1] /\ 1 \in DOMAIN text
    BY <1>1
  <1>3. PICK words : words = Head(text)
    OBVIOUS
  <1>4. words \in Seq(Word) /\ Len(words) \in Nat \ {0} /\ words[1] \in Word
    BY <1>2, <1>3
  <1>5. PICK longer : longer = <<"QtRpc_">> \o words[1]
    OBVIOUS
  <1>6. longer \in Word
    BY <1>4, <1>5, Pieces, LongerWord
  <1>7. PICK named : named = [words EXCEPT ![1] = longer]
    OBVIOUS
  <1>8. /\ named \in Seq(Word) /\ Len(named) = Len(words) /\ named[1] = longer
        /\ \A i \in 2 .. Len(words) : named[i] = words[i]
    BY <1>4, <1>6, <1>7
  <1>9. Prefixed(text) = [text EXCEPT ![1] = named]
    BY <1>2, <1>3, <1>5, <1>7 DEF Prefixed
  <1>10. [text EXCEPT ![1] = named] \in Seq(Seq(Word)) /\ [text EXCEPT ![1] = named][1] = named
    BY <1>1, <1>2, <1>8
  <1>11. Head(Prefixed(text)) = named
    BY <1>9, <1>10
  <1> QED
    BY <1>3, <1>4, <1>5, <1>8, <1>11

\* The full type of a plain name is its words, with "_" in front, and "_tcp".
LEMMA PlainWords ==
  ASSUME NEW text \in ServiceTexts, Plain(text), NEW words, words = Head(Prefixed(text))
  PROVE  /\ SetServiceType(Prefixed(text)) = [type |-> words, socket |-> "tcp"]
         /\ SetServiceType(<<words>>) = [type |-> words, socket |-> "tcp"]
         /\ FullServiceType([type |-> words, socket |-> "tcp"]) =
              Between(Barred(Head(words)), words, <<"_", "tcp">>)
  <1>1. Len(words) # 2
    BY PrefixedWords DEF Plain
  <1>2. Head(<<words>>) = words
    OBVIOUS
  <1> QED
    BY <1>1, <1>2 DEF SetServiceType, FullServiceType, Between

\* What the words are between the bar and the protocol.
LEMMA FullWords ==
  ASSUME NEW w \in Seq(Word), w # <<>>
  PROVE  LET full == Between(Barred(Head(w)), w, <<"_", "tcp">>) IN
         /\ Len(full) = Len(w) + 1 /\ full[1] = <<"_">> \o w[1]
         /\ \A i \in 2 .. Len(w) : full[i] = w[i]
  <1>1. Head(w) \in Word /\ Head(w) = w[1]
    BY HeadTailProperties
  <1>2. PICK b : b = Barred(Head(w))
    OBVIOUS
  <1>3. b = <<"_">> \o w[1]
    BY <1>1, <1>2 DEF Barred
  <1>4. b \in Word
    BY <1>1, <1>3, Pieces, LongerWord
  <1>5. PICK tcp \in Word : tcp = <<"_", "tcp">>
    BY ProtocolWord
  <1>6. PICK full : full = Between(b, w, tcp)
    OBVIOUS
  <1>7. /\ Len(full) = Len(w) + 1 /\ full[1] = b
        /\ \A i \in 2 .. Len(w) : full[i] = w[i]
    BY <1>4, <1>6, Headed
  <1>8. full = Between(Barred(Head(w)), w, <<"_", "tcp">>)
    BY <1>2, <1>5, <1>6
  <1> QED
    BY <1>3, <1>7, <1>8

\* Two plain names with one full type are one name.
LEMMA OneTypeOneName ==
  ASSUME NEW text \in ServiceTexts, NEW other \in ServiceTexts, Plain(text), Plain(other),
         FullServiceType(SetServiceType(Prefixed(text))) =
           FullServiceType(SetServiceType(Prefixed(other)))
  PROVE  Head(text) = Head(other)
  <1>1. PICK w, x, v, y :
          w = Head(Prefixed(text)) /\ x = Head(Prefixed(other)) /\ v = Head(text) /\ y = Head(other)
    OBVIOUS
  <1>2. /\ v \in Seq(Word) /\ w \in Seq(Word) /\ Len(v) \in Nat \ {0} /\ Len(w) = Len(v)
        /\ w[1] = <<"QtRpc_">> \o v[1] /\ \A i \in 2 .. Len(v) : w[i] = v[i]
    BY <1>1, PrefixedWords
  <1>3. /\ y \in Seq(Word) /\ x \in Seq(Word) /\ Len(y) \in Nat \ {0} /\ Len(x) = Len(y)
        /\ x[1] = <<"QtRpc_">> \o y[1] /\ \A i \in 2 .. Len(y) : x[i] = y[i]
    BY <1>1, PrefixedWords
  <1>4. PICK full : full = FullServiceType(SetServiceType(Prefixed(text)))
    OBVIOUS
  <1>5. full = Between(Barred(Head(w)), w, <<"_", "tcp">>)
    BY <1>1, <1>4, PlainWords
  <1>6. full = Between(Barred(Head(x)), x, <<"_", "tcp">>)
    BY <1>1, <1>4, PlainWords
  <1>7. w # <<>> /\ x # <<>>
    BY <1>2, <1>3
  <1>8. Len(full) = Len(w) + 1 /\ full[1] = <<"_">> \o w[1] /\ \A i \in 2 .. Len(w) : full[i] = w[i]
    BY <1>2, <1>5, <1>7, FullWords
  <1>9. Len(full) = Len(x) + 1 /\ full[1] = <<"_">> \o x[1] /\ \A i \in 2 .. Len(x) : full[i] = x[i]
    BY <1>3, <1>6, <1>7, FullWords
  <1>10. Len(v) = Len(y)
    <2>1. Len(full) = Len(v) + 1 /\ Len(full) = Len(y) + 1 /\ Len(v) \in Nat /\ Len(y) \in Nat
      BY <1>2, <1>3, <1>8, <1>9
    <2> QED
      BY <2>1
  <1>11. \A i \in 2 .. Len(v) : v[i] = y[i]
    BY <1>2, <1>3, <1>8, <1>9, <1>10
  <1>12. v[1] = y[1]
    <2>0. v[1] \in Word /\ y[1] \in Word /\ w[1] \in Word /\ x[1] \in Word
      <3>1. 1 \in 1 .. Len(v) /\ 1 \in 1 .. Len(w) /\ 1 \in 1 .. Len(y) /\ 1 \in 1 .. Len(x)
        BY <1>2, <1>3
      <3> QED
        BY <1>2, <1>3, <3>1, ElementOfSeq
    <2>1. PICK v1 \in Word, y1 \in Word, w1 \in Word, x1 \in Word :
            v1 = v[1] /\ y1 = y[1] /\ w1 = w[1] /\ x1 = x[1]
      BY <2>0
    <2>2. /\ <<"_">> \o w1 = <<"_">> \o x1
          /\ w1 = <<"QtRpc_">> \o v1 /\ x1 = <<"QtRpc_">> \o y1
      BY <1>2, <1>3, <1>8, <1>9, <2>1
    <2>3. w1 = x1
      BY <2>2, Pieces, ShorterWord
    <2>4. v1 = y1
      BY <2>2, <2>3, Pieces, ShorterWord
    <2> QED
      BY <2>1, <2>4
  <1>13. \A i \in 1 .. Len(v) : v[i] = y[i]
    BY <1>2, <1>11, <1>12
  <1> QED
    BY <1>1, <1>2, <1>3, <1>10, <1>13, SeqEqual

\* A machine that turns a number round twice has it again.
LEMMA TurnedTwice ==
  ASSUME NEW machine
  PROVE  BigEndian(machine, BigEndian(machine, Port)) = Port
  BY DEF BigEndian, Port, Reverse

LEMMA NamesStart ==
  ASSUME NamesInit
  PROVE  NamesInv
  BY DEF NamesInit, NamesInv, Discoverable, Nothing

LEMMA NamesKeep ==
  ASSUME NamesInv, NamesNext
  PROVE  NamesInv'
  <1>1. CASE Publish
    <2>1. PICK name, port : /\ name = SetServiceType(Prefixed(offer.text))
                            /\ port = BigEndian(order.publisher, Port)
      OBVIOUS
    <2>2. PICK given : given = [offer.service EXCEPT !.name = name, !.port = port]
      OBVIOUS
    <2>3. /\ offer' = [offer EXCEPT !.service = given]
          /\ announced' = [request |-> Request(given),
                           port |-> BigEndian(order.publisher, given.port)]
          /\ UNCHANGED <<order, wanted, browsing, heard>>
      BY <1>1, <2>1, <2>2 DEF Publish
    <2>4. given = [name |-> name, subtypes |-> SubTypes(Prefixed(offer.text)), port |-> port]
      <3>1. PICK subtypes, before : subtypes = SubTypes(Prefixed(offer.text)) /\ before = offer.service.port
        OBVIOUS
      <3>2. offer.service = [name |-> name, subtypes |-> subtypes, port |-> before]
        BY <2>1, <3>1 DEF NamesInv
      <3>3. given = [[name |-> name, subtypes |-> subtypes, port |-> before]
                       EXCEPT !.name = name, !.port = port]
        BY <2>2, <3>2
      <3> QED
        BY <3>1, <3>3
    <2>5. offer' = [text |-> offer.text, service |-> given]
      BY <2>3 DEF NamesInv
    <2>6. announced'.request = Request(offer'.service) /\ announced'.port = Port
      BY <2>1, <2>3, <2>4, <2>5, TurnedTwice
    <2>7. given.name = offer.service.name
      BY <2>1, <2>4 DEF NamesInv
    <2> QED
      BY <2>1, <2>3, <2>4, <2>5, <2>6, <2>7 DEF NamesInv
  <1>2. CASE Unpublish
    BY <1>2 DEF Unpublish, NamesInv
  <1>3. CASE BrowseNames
    BY <1>3 DEF BrowseNames, NamesInv
  <1>4. CASE NameAdded
    <2>1. /\ heard' = [event |-> "added",
                       type |-> FullServiceType(SetServiceType(<<wanted.browser.name.type>>)),
                       port |-> AnyPort]
          /\ UNCHANGED <<order, offer, wanted, announced, browsing>>
      BY <1>4 DEF NameAdded
    <2>2. FullServiceType(offer.service.name) = FullServiceType(wanted.browser.name)
      BY <1>4 DEF NameAdded, Matches, NamesInv, Request
    <2>3. Plain(wanted.text) => heard'.type = FullServiceType(offer.service.name)
      <3>1. wanted.text \in ServiceTexts /\ wanted.browser.name = SetServiceType(Prefixed(wanted.text))
        BY DEF NamesInv, Discoverable
      <3>2. Plain(wanted.text) =>
              SetServiceType(<<wanted.browser.name.type>>) = wanted.browser.name
        <4>1. PICK words : words = Head(Prefixed(wanted.text))
          OBVIOUS
        <4>2. Plain(wanted.text) =>
                /\ SetServiceType(Prefixed(wanted.text)) = [type |-> words, socket |-> "tcp"]
                /\ SetServiceType(<<words>>) = [type |-> words, socket |-> "tcp"]
          BY <3>1, <4>1, PlainWords
        <4> QED
          BY <3>1, <4>2
      <3> QED
        BY <2>1, <2>2, <3>2
    <2> QED
      BY <2>1, <2>2, <2>3 DEF NamesInv
  <1>5. CASE NameRemoved
    <2>1. /\ heard' = [event |-> "removed", type |-> FullServiceType(SetServiceType(wanted.text)),
                       port |-> AnyPort]
          /\ UNCHANGED <<order, offer, wanted, announced, browsing>> /\ heard # Nothing
      BY <1>5 DEF NameRemoved
    <2> QED
      BY <2>1 DEF NamesInv
  <1>6. CASE NameResolved
    <2>1. PICK port : port = BigEndian(order.finder, BigEndian(order.finder,
                        BigEndian(order.finder, BigEndian(order.finder, announced.port))))
      OBVIOUS
    <2>2. /\ heard # Nothing /\ announced # Nothing /\ heard' = [heard EXCEPT !.port = port]
          /\ UNCHANGED <<order, offer, wanted, announced, browsing>>
      BY <1>6, <2>1 DEF NameResolved
    <2>3. port = Port
      BY <2>1, <2>2, TurnedTwice DEF NamesInv
    <2>4. heard' = [event |-> heard.event, type |-> heard.type, port |-> Port]
      BY <2>2, <2>3 DEF NamesInv
    <2> QED
      BY <2>2, <2>4 DEF NamesInv
  <1> QED
    BY <1>1, <1>2, <1>3, <1>4, <1>5, <1>6 DEF NamesNext

LEMMA NamesAgree ==
  ASSUME NamesInv
  PROVE  NamedAlike
  <1>1. offer.text = wanted.text /\ announced # Nothing /\ browsing # Nothing =>
          Matches(announced.request)
    BY DEF NamesInv, Matches, Request, Discoverable
  <1>2. Plain(offer.text) /\ Plain(wanted.text) /\ heard # Nothing => Head(offer.text) = Head(wanted.text)
    <2>1. /\ offer.service.name = SetServiceType(Prefixed(offer.text))
          /\ wanted.browser.name = SetServiceType(Prefixed(wanted.text))
          /\ offer.text \in ServiceTexts /\ wanted.text \in ServiceTexts
          /\ heard # Nothing =>
               FullServiceType(offer.service.name) = FullServiceType(wanted.browser.name)
      BY DEF NamesInv, Discoverable
    <2> QED
      BY <2>1, OneTypeOneName
  <1> QED
    BY <1>1, <1>2 DEF NamedAlike, NamesInv

\* Whatever text a service is registered under and a finder looks for, and
\* whatever the byte orders of the two machines: a finder that looks for a
\* service is told of it, it hears of no other if the names are plain, and it
\* asks for what was announced, on the port it was published with.
THEOREM FoundUnderItsName == DiscoverySpec => []NamedAlike
  <1>1. DiscoveryInit => NamesInv
    BY NamesStart DEF DiscoveryInit
  <1>2. NamesInv /\ [DiscoveryNext]_allVars => NamesInv'
    <2> SUFFICES ASSUME NamesInv, [DiscoveryNext]_allVars
                 PROVE  NamesInv'
      OBVIOUS
    <2>1. CASE UNCHANGED namesVars
      BY <2>1 DEF namesVars, NamesInv
    <2>2. NamesNext \/ UNCHANGED namesVars
      BY DEF DiscoveryNext, allVars, PublisherStep, FinderStep, NamesStep
    <2> QED
      BY <2>1, <2>2, NamesKeep
  <1>3. NamesInv => NamedAlike
    BY NamesAgree
  <1> QED
    BY <1>1, <1>2, <1>3, PTL DEF DiscoverySpec
=============================================================================
