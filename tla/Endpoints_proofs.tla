-------------------------- MODULE Endpoints_proofs --------------------------
(***************************************************************************)
(* The parts of Endpoints, for any number of processes, threads, tokens    *)
(* and settings: each part has an inductive invariant of its own, which no *)
(* step of another part touches.  The thread pool of the server comes      *)
(* first, on its own, as its invariant is about its own specification.     *)
(***************************************************************************)
EXTENDS Endpoints, FiniteSetTheorems, TLAPS

-----------------------------------------------------------------------------
(* ServerPool: the counts are those of the instances that live on each      *)
(* thread, and the choice of a thread is never the worst one.               *)

\* What is assumed of the types before the counts are known.
PoolTyped ==
  /\ threadType \in ThreadTypes
  /\ threadCount \in [Pool -> Int]
  /\ stage \in [Instances -> {"free", "placed", "live", "closing"}]
  /\ home \in [Instances -> Homes]
  /\ running \in SUBSET Instances
  /\ quitting \in SUBSET Instances

\* The inductive invariant.  CountsLive needs HomeRuns: an instance that dies
\* in the pool model lives on a thread of the pool.
PoolInv == PoolTyped /\ CountsLive /\ HomeRuns

\* The threads of the pool are none of the other homes.
LEMMA HomesApart == Main \notin Pool /\ Own \notin Pool /\ Absent \notin Pool
                    /\ Main # Own /\ Main # Absent /\ Own # Absent
  BY SMT, ThreadsAssumption DEF Main, Own, Absent, Pool

\* The first thread is there.
LEMMA FirstThread == 0 \in Pool
  BY SMT, ThreadsAssumption DEF Pool

\* The instances on a thread are finitely many.
LEMMA OnFinite == ASSUME NEW t PROVE IsFiniteSet(On(t))
  <1>1. On(t) \subseteq Instances
    BY DEF On
  <1> QED
    BY <1>1, InstancesAssumption, FS_Subset

\* Initially no instance lives on any thread.
LEMMA PoolInit_Inv == Init => PoolInv
  <1> SUFFICES ASSUME Init PROVE PoolInv
    OBVIOUS
  <1>1. PoolTyped
    BY DEF Init, PoolTyped, Homes
  <1>2. ASSUME NEW t \in Pool PROVE threadCount[t] = Cardinality(On(t))
    <2>1. On(t) = {}
      BY HomesApart DEF Init, On
    <2> QED
      BY <2>1, FS_EmptySet DEF Init
  <1>3. HomeRuns
    BY HomesApart DEF Init, HomeRuns
  <1> QED
    BY <1>1, <1>2, <1>3 DEF PoolInv, CountsLive

\* An instance that takes a place on a thread adds one to those on it, and
\* none to those on another.
LEMMA PlacedOn ==
  ASSUME PoolTyped, HomeRuns, NEW i \in Instances, NEW h \in Homes, Place(i, h), NEW t \in Pool
  PROVE  Cardinality(On(t)') = Cardinality(On(t)) + (IF t = h THEN 1 ELSE 0)
  <1>1. home' = [home EXCEPT ![i] = h]
    BY DEF Place
  <1>2. home[i] = Absent
    BY DEF Place, HomeRuns
  <1>3. CASE t = h
    <2>1. On(t)' = On(t) \cup {i}
      BY <1>1, <1>3 DEF On, PoolTyped
    <2>2. i \notin On(t)
      BY <1>2, HomesApart DEF On
    <2> QED
      BY <2>1, <2>2, <1>3, OnFinite, FS_AddElement
  <1>4. CASE t # h
    <2>1. On(t)' = On(t)
      BY <1>1, <1>2, <1>4, HomesApart DEF On, PoolTyped
    <2>2. Cardinality(On(t)) \in Nat
      BY OnFinite, FS_CardinalityType
    <2> QED
      BY <2>1, <2>2, <1>4, SMT
  <1> QED
    BY <1>3, <1>4

\* An instance that is gone is one less on its thread, and on no other.
LEMMA LeftOf ==
  ASSUME PoolTyped, NEW i \in Instances, home' = [home EXCEPT ![i] = Absent], NEW t \in Pool
  PROVE  Cardinality(On(t)') = Cardinality(On(t)) - (IF t = home[i] THEN 1 ELSE 0)
  <1>1. CASE t = home[i]
    <2>1. On(t)' = On(t) \ {i}
      BY <1>1, HomesApart DEF On, PoolTyped
    <2>2. i \in On(t)
      BY <1>1 DEF On
    <2> QED
      BY <2>1, <2>2, <1>1, OnFinite, FS_RemoveElement
  <1>2. CASE t # home[i]
    <2>1. On(t)' = On(t)
      BY <1>2, HomesApart DEF On, PoolTyped
    <2>2. Cardinality(On(t)) \in Nat
      BY OnFinite, FS_CardinalityType
    <2> QED
      BY <2>1, <2>2, <1>2, SMT
  <1> QED
    BY <1>1, <1>2

\* An instance is placed: the count of its thread, if it is one of the pool,
\* goes up with the instances on it.
LEMMA PreparePreserves ==
  ASSUME PoolInv, NEW i \in Instances, Prepare(i)
  PROVE  PoolInv'
  <1> USE DEF PoolInv
  <1>1. CASE PrepareSingle(i)
    <2>1. PoolTyped'
      BY <1>1 DEF PoolTyped, PrepareSingle, Place, Homes
    <2>2. ASSUME NEW t \in Pool PROVE threadCount'[t] = Cardinality(On(t)')
      <3>1. Cardinality(On(t)') = Cardinality(On(t)) + (IF t = Main THEN 1 ELSE 0)
        BY <1>1, PlacedOn DEF PrepareSingle, Homes
      <3>2. threadCount'[t] = Cardinality(On(t)) /\ threadCount'[t] \in Int
        BY <1>1 DEF PrepareSingle, CountsLive, PoolTyped
      <3> QED
        BY <3>1, <3>2, HomesApart
    <2>3. HomeRuns'
      BY <1>1, HomesApart, SMT DEF HomeRuns, PrepareSingle, Place, PoolTyped
    <2> QED
      BY <2>1, <2>2, <2>3 DEF CountsLive
  <1>2. CASE PreparePooled(i)
    <2> PICK h \in Pool : /\ threadCount' = [threadCount EXCEPT ![h] = @ + 1]
                          /\ Place(i, h)
      BY <1>2 DEF PreparePooled
    <2>1. PoolTyped'
      BY <1>2 DEF PoolTyped, PreparePooled, Place, Homes
    <2>2. ASSUME NEW t \in Pool PROVE threadCount'[t] = Cardinality(On(t)')
      <3>1. Cardinality(On(t)') = Cardinality(On(t)) + (IF t = h THEN 1 ELSE 0)
        BY PlacedOn DEF Homes
      <3>2. threadCount'[t] = threadCount[t] + (IF t = h THEN 1 ELSE 0)
        BY SMT DEF PoolTyped
      <3> QED
        BY <3>1, <3>2 DEF CountsLive
    <2>3. HomeRuns'
      BY <1>2, HomesApart, SMT DEF HomeRuns, PreparePooled, Place, PoolTyped
    <2> QED
      BY <2>1, <2>2, <2>3 DEF CountsLive
  <1>3. CASE PrepareOwn(i)
    <2>1. PoolTyped'
      BY <1>3 DEF PoolTyped, PrepareOwn, Place, Homes
    <2>2. ASSUME NEW t \in Pool PROVE threadCount'[t] = Cardinality(On(t)')
      <3>1. Cardinality(On(t)') = Cardinality(On(t)) + (IF t = Own THEN 1 ELSE 0)
        BY <1>3, PlacedOn DEF PrepareOwn, Homes
      <3>2. threadCount'[t] = Cardinality(On(t)) /\ threadCount'[t] \in Int
        BY <1>3 DEF PrepareOwn, CountsLive, PoolTyped
      <3> QED
        BY <3>1, <3>2, HomesApart
    <2>3. HomeRuns'
      BY <1>3, HomesApart, SMT DEF HomeRuns, PrepareOwn, Place, PoolTyped
    <2> QED
      BY <2>1, <2>2, <2>3 DEF CountsLive
  <1>4. CASE PrepareForked(i)
    <2>1. PoolTyped'
      BY <1>4 DEF PoolTyped, PrepareForked, Homes
    <2>2. home[i] = Absent
      BY <1>4 DEF PrepareForked, HomeRuns
    <2>3. ASSUME NEW t \in Pool PROVE threadCount'[t] = Cardinality(On(t)')
      <3>1. On(t)' = On(t)
        BY <1>4, <2>2, HomesApart DEF On, PrepareForked, PoolTyped
      <3> QED
        BY <3>1, <1>4 DEF PrepareForked, CountsLive
    <2>4. HomeRuns'
      BY <1>4, HomesApart, SMT DEF HomeRuns, PrepareForked, PoolTyped
    <2> QED
      BY <2>1, <2>3, <2>4 DEF CountsLive
  <1> QED
    BY <1>1, <1>2, <1>3, <1>4 DEF Prepare

\* An instance dies: removeService() runs on the thread it lived on.
LEMMA DestroyedPreserves ==
  ASSUME PoolInv, NEW i \in Instances, Destroyed(i)
  PROVE  PoolInv'
  <1> USE DEF PoolInv
  <1>1. threadType = "ThreadPool" => home[i] \in Pool
    BY DEF Destroyed, HomeRuns
  <1>2. threadType # "ThreadPool" => home[i] \notin Pool
    BY DEF HomeRuns
  <1>3. ASSUME NEW t \in Pool
        PROVE  /\ threadCount'[t] = threadCount[t] - (IF t = home[i] THEN 1 ELSE 0)
               /\ threadCount'[t] \in Int
    <2>1. CASE threadType = "ThreadPool"
      BY <2>1, <1>1, SMT DEF Destroyed, RemoveService, PoolTyped
    <2>2. CASE threadType # "ThreadPool"
      BY <2>2, <1>2, SMT DEF Destroyed, PoolTyped
    <2> QED
      BY <2>1, <2>2
  <1>4. PoolTyped'
    <2>1. threadCount' \in [Pool -> Int]
      BY <1>1, SMT DEF Destroyed, RemoveService, PoolTyped
    <2> QED
      BY <2>1 DEF Destroyed, PoolTyped, Homes
  <1>5. ASSUME NEW t \in Pool PROVE threadCount'[t] = Cardinality(On(t)')
    <2>1. Cardinality(On(t)') = Cardinality(On(t)) - (IF t = home[i] THEN 1 ELSE 0)
      BY LeftOf DEF Destroyed
    <2> QED
      BY <2>1, <1>3 DEF CountsLive
  <1>6. HomeRuns'
    BY HomesApart, SMT DEF HomeRuns, Destroyed, PoolTyped
  <1> QED
    BY <1>4, <1>5, <1>6 DEF CountsLive

\* The steps that move no instance leave every count and every home alone.
LEMMA HomesKept ==
  ASSUME CountsLive, UNCHANGED <<threadCount, home>>
  PROVE  CountsLive'
  BY DEF CountsLive, On

\* Every step keeps the invariant.
LEMMA PoolStep_Inv == PoolInv /\ [Next]_vars => PoolInv'
  <1> SUFFICES ASSUME PoolInv, [Next]_vars PROVE PoolInv'
    OBVIOUS
  <1>1. ASSUME NEW i \in Instances, Prepare(i) PROVE PoolInv'
    BY <1>1, PreparePreserves
  <1>2. ASSUME NEW i \in Instances, InitInstance(i) PROVE PoolInv'
    <2>1. PoolTyped' /\ HomeRuns'
      BY <1>2, SMT DEF PoolInv, InitInstance, PoolTyped, HomeRuns
    <2> QED
      BY <1>2, <2>1, HomesKept DEF PoolInv, InitInstance
  <1>3. ASSUME NEW i \in Instances, Disconnect(i) PROVE PoolInv'
    <2>1. PoolTyped' /\ HomeRuns'
      BY <1>3, SMT DEF PoolInv, Disconnect, PoolTyped, HomeRuns
    <2> QED
      BY <1>3, <2>1, HomesKept DEF PoolInv, Disconnect
  <1>4. ASSUME NEW i \in Instances, Destroyed(i) PROVE PoolInv'
    BY <1>4, DestroyedPreserves
  <1>5. ASSUME NEW i \in Instances, ThreadQuits(i) PROVE PoolInv'
    <2>1. PoolTyped' /\ HomeRuns'
      BY <1>5, SMT DEF PoolInv, ThreadQuits, PoolTyped, HomeRuns
    <2> QED
      BY <1>5, <2>1, HomesKept DEF PoolInv, ThreadQuits
  <1>6. CASE UNCHANGED vars
    <2>1. PoolTyped' /\ HomeRuns'
      BY <1>6 DEF PoolInv, vars, PoolTyped, HomeRuns
    <2> QED
      BY <1>6, <2>1, HomesKept DEF PoolInv, vars
  <1> QED
    BY <1>1, <1>2, <1>3, <1>4, <1>5, <1>6 DEF Next

\* The counts being numbers of instances, none is negative.
LEMMA PoolTypes == PoolInv => TypeOK
  <1> SUFFICES ASSUME PoolInv PROVE TypeOK
    OBVIOUS
  <1>1. ASSUME NEW t \in Pool PROVE threadCount[t] \in Nat
    BY OnFinite, FS_CardinalityType DEF PoolInv, CountsLive
  <1>2. threadCount \in [Pool -> Nat]
    BY <1>1 DEF PoolInv, PoolTyped
  <1> QED
    BY <1>2 DEF PoolInv, PoolTyped, TypeOK

\* requestThread() and removeService() keep the books of the pool: every
\* variable has its type and no count is ever negative.
THEOREM TypeCorrect == Spec => []TypeOK
  <1>1. Spec => []PoolInv
    BY PoolInit_Inv, PoolStep_Inv, PTL DEF Spec
  <1> QED
    BY <1>1, PoolTypes, PTL

\* The count of a thread is the number of instances that live on it.
THEOREM CountsCorrect == Spec => []CountsLive
  <1>1. Spec => []PoolInv
    BY PoolInit_Inv, PoolStep_Inv, PTL DEF Spec
  <1>2. PoolInv => CountsLive
    BY DEF PoolInv
  <1> QED
    BY <1>1, <1>2, PTL

\* Instances live on running threads of the kind the threading model says.
THEOREM HomesCorrect == Spec => []HomeRuns
  <1>1. Spec => []PoolInv
    BY PoolInit_Inv, PoolStep_Inv, PTL DEF Spec
  <1>2. PoolInv => HomeRuns
    BY DEF PoolInv
  <1> QED
    BY <1>1, <1>2, PTL

\* Only a placement raises a count, and it raises that of the thread chosen.
LEMMA RaisedIsChosen ==
  ASSUME PoolInv, [Next]_vars, NEW t \in Pool, threadCount'[t] > threadCount[t]
  PROVE  Chosen(t)
  <1>1. ASSUME NEW i \in Instances, PreparePooled(i) PROVE Chosen(t)
    <2> PICK h \in Pool : Chosen(h) /\ threadCount' = [threadCount EXCEPT ![h] = @ + 1]
      BY <1>1 DEF PreparePooled
    <2> QED
      BY SMT DEF PoolInv, PoolTyped
  <1>2. ASSUME threadCount' = threadCount PROVE FALSE
    BY <1>2, SMT DEF PoolInv, PoolTyped
  <1>3. ASSUME NEW i \in Instances, Destroyed(i) PROVE FALSE
    BY <1>3, <1>2, SMT DEF Destroyed, RemoveService, PoolInv, PoolTyped
  <1> QED
    BY <1>1, <1>2, <1>3
       DEF Next, vars, Prepare, PrepareSingle, PrepareOwn, PrepareForked, InitInstance,
           Disconnect, ThreadQuits

\* While a thread is idle, new instances go to idle threads.
THEOREM IdleThreadsFirst == Spec => IdleFirst
  <1>1. Spec => []PoolInv
    BY PoolInit_Inv, PoolStep_Inv, PTL DEF Spec
  <1>2. PoolInv /\ [Next]_vars =>
          [\A t \in Pool : threadCount'[t] > threadCount[t] /\ threadCount[t] # 0
                             => Idle = {}]_vars
    <2> SUFFICES ASSUME PoolInv, [Next]_vars, NEW t \in Pool,
                        threadCount'[t] > threadCount[t], threadCount[t] # 0
                 PROVE  Idle = {}
      OBVIOUS
    <2>1. Chosen(t)
      BY RaisedIsChosen
    <2> QED
      BY <2>1 DEF Chosen, Idle
  <1> QED
    BY <1>1, <1>2, PTL DEF Spec, IdleFirst

\* A new instance goes to a thread that has the fewest, or at least fewer than
\* another: the choice that requestThread() makes is never the worst.
THEOREM NeverTheBusiest == Spec => NeverBusiest
  <1>1. Spec => []PoolInv
    BY PoolInit_Inv, PoolStep_Inv, PTL DEF Spec
  <1>2. PoolInv /\ [Next]_vars =>
          [\A t \in Pool : threadCount'[t] > threadCount[t] =>
             \/ \A u \in Pool : threadCount[t] <= threadCount[u]
             \/ \E u \in Pool : threadCount[t] < threadCount[u]]_vars
    <2> SUFFICES ASSUME PoolInv, [Next]_vars, NEW t \in Pool,
                        threadCount'[t] > threadCount[t]
                 PROVE  \/ \A u \in Pool : threadCount[t] <= threadCount[u]
                        \/ \E u \in Pool : threadCount[t] < threadCount[u]
      OBVIOUS
    <2>1. threadCount \in [Pool -> Nat]
      BY PoolTypes DEF TypeOK
    <2>2. CASE t \in Idle
      BY <2>2, <2>1, SMT DEF Idle
    <2>3. CASE t \in Below
      BY <2>3, FirstThread DEF Below
    <2>4. CASE t = 0 /\ Below = {}
      BY <2>4, <2>1, SMT DEF Below
    <2> QED
      BY <2>2, <2>3, <2>4, RaisedIsChosen DEF Chosen
  <1> QED
    BY <1>1, <1>2, PTL DEF Spec, NeverBusiest

\* Together: what can be relied on of the choice that requestThread() makes.
THEOREM PlacedWell == Spec => Placed
  BY IdleThreadsFirst, NeverTheBusiest DEF Placed

-----------------------------------------------------------------------------
(* The other parts.                                                         *)

\* A step of the whole is a step of a part, or leaves the part as it is.
LEMMA PartSteps ==
  ASSUME [EndpointsNext]_partsVars
  PROVE  /\ [ListenerNext]_listenerVars
         /\ [ForkNext]_forkVars
         /\ [KeepaliveNext]_keepaliveVars
         /\ [ThreadNext]_threadVars
         /\ [TokenNext]_tokenVars
         /\ [PollNext]_pollVars
         /\ [SocketNext]_socketVars
  BY DEF EndpointsNext, partsVars, PoolStep, ListenerStep, ForkStep, SocketStep, KeepaliveStep,
         ThreadStep, TokenStep, PollStep

-----------------------------------------------------------------------------
(* AvahiPoll: the notifier waits for what the watch is set to, so that what *)
(* it was activated for is what the watch says happened.                    *)

PollInv ==
  /\ watch \in [event : WatchEvents, last : {"in", "out", "both", "none"}, exists : BOOLEAN]
  /\ notifier = IF watch.exists THEN NotifierFor(watch.event) ELSE "none"
  /\ EventsTold

LEMMA PollInit_Inv == PollInit => PollInv
  BY DEF PollInit, PollInv, EventsTold, NotifierFor, WatchEvents

LEMMA PollStep_Inv == PollInv /\ [PollNext]_pollVars => PollInv'
  <1> SUFFICES ASSUME PollInv, [PollNext]_pollVars PROVE PollInv'
    OBVIOUS
  <1> USE DEF PollInv, EventsTold, NotifierFor, WatchEvents
  <1>1. ASSUME NEW e \in WatchEvents, WatchUpdate(e) PROVE PollInv'
    BY <1>1 DEF WatchUpdate
  <1>2. CASE WatchFree
    BY <1>2 DEF WatchFree
  <1>3. CASE Activated
    BY <1>3 DEF Activated
  <1>4. CASE WatchReturns
    BY <1>4 DEF WatchReturns
  <1>5. ASSUME NEW set \in BOOLEAN, TimeoutUpdate(set) PROVE PollInv'
    BY <1>5 DEF TimeoutUpdate
  <1>6. CASE Timeout
    BY <1>6 DEF Timeout
  <1>7. CASE UNCHANGED pollVars
    BY <1>7 DEF pollVars
  <1> QED
    BY <1>1, <1>2, <1>3, <1>4, <1>5, <1>6, <1>7 DEF PollNext

-----------------------------------------------------------------------------
(* ForkedServer: a zombie has a delivery of SIGCHLD of its own or one that  *)
(* merged with it, and a delivery a zombie, unless it was raised for a      *)
(* child that did not exit.                                                 *)

ForkInv ==
  /\ child \in [Peers -> {"none", "forked", "serving", "quit", "zombie", "reaped"}]
  /\ \A p \in Peers : p \notin accepted => child[p] = "none"
  /\ sigchld \in BOOLEAN /\ reaping \in BOOLEAN
  /\ spurious \in Nat /\ merged \in Nat
  /\ ReapedInTurn

LEMMA ZombiesFinite == IsFiniteSet(Zombies) /\ Cardinality(Zombies) \in Nat
  <1>1. Zombies \subseteq Peers
    BY DEF Zombies
  <1> QED
    BY <1>1, PeersAssumption, FS_Subset, FS_CardinalityType

LEMMA ForkInit_Inv == ForkInit => ForkInv
  <1> SUFFICES ASSUME ForkInit PROVE ForkInv
    OBVIOUS
  <1>1. Zombies = {}
    BY DEF ForkInit, Zombies
  <1>2. Cardinality(Zombies) = 0
    BY <1>1, FS_EmptySet
  <1>3. ReapedInTurn
    BY <1>2 DEF ForkInit, ReapedInTurn, Due
  <1> QED
    BY <1>3 DEF ForkInit, ForkInv

\* A step that leaves the zombies and the signals alone
LEMMA ChildInv ==
  ASSUME ForkInv, NEW to \in {"forked", "serving", "quit"},
         NEW p \in Peers, child[p] # "zombie", p \in accepted',
         accepted \subseteq accepted',
         child' = [child EXCEPT ![p] = to],
         UNCHANGED signalVars
  PROVE  ForkInv'
  <1>1. Zombies' = Zombies
    BY DEF ForkInv, Zombies
  <1>2. ReapedInTurn'
    BY <1>1 DEF ForkInv, ReapedInTurn, Due, signalVars
  <1> QED
    BY <1>2 DEF ForkInv, signalVars

\* A child that exits is one zombie more, and one delivery or one that merged.
LEMMA ExitsInv ==
  ASSUME ForkInv, NEW p \in Peers, child[p] \notin {"none", "zombie"}, Exits(p)
  PROVE  ForkInv'
  <1>1. Zombies' = Zombies \cup {p} /\ p \notin Zombies
    BY DEF Exits, ForkInv, Zombies
  <1>2. Cardinality(Zombies') = Cardinality(Zombies) + 1
    BY <1>1, ZombiesFinite, FS_AddElement
  <1>3. CASE sigchld
    BY <1>2, <1>3, ZombiesFinite DEF Exits, ForkInv, ReapedInTurn, Due
  <1>4. CASE ~sigchld
    BY <1>2, <1>4, ZombiesFinite DEF Exits, ForkInv, ReapedInTurn, Due
  <1> QED
    BY <1>3, <1>4 DEF ForkInv

\* A child that is stopped or continued is a delivery more, at most.
LEMMA StopOrContinueInv ==
  ASSUME ForkInv, NEW p \in Peers, StopOrContinue(p)
  PROVE  ForkInv'
  <1>1. Zombies' = Zombies
    BY DEF StopOrContinue, Zombies
  <1>2. ReapedInTurn'
    BY <1>1, ZombiesFinite DEF StopOrContinue, ForkInv, ReapedInTurn, Due
  <1> QED
    BY <1>2 DEF StopOrContinue, processVars, ForkInv

\* waitpid() takes one zombie and one delivery.
LEMMA ReapedInv == ASSUME ForkInv, HandlerReturns PROVE ForkInv'
  <1>1. ASSUME NEW p \in Zombies, child' = [child EXCEPT ![p] = "reaped"] PROVE ForkInv'
    <2>1. Zombies' = Zombies \ {p} /\ p \in Peers
      BY <1>1 DEF ForkInv, Zombies
    <2>2. Cardinality(Zombies') = Cardinality(Zombies) - 1
      BY <2>1, ZombiesFinite, FS_RemoveElement
    <2>3. ReapedInTurn'
      BY <2>2, ZombiesFinite DEF HandlerReturns, ForkInv, ReapedInTurn, Due
    <2>4. \A q \in Peers : q \notin accepted' => child'[q] = "none"
      BY <1>1, <2>1 DEF HandlerReturns, processVars, ForkInv, Zombies
    <2> QED
      BY <1>1, <2>1, <2>3, <2>4 DEF HandlerReturns, ForkInv
  <1>2. CASE Zombies = {} /\ UNCHANGED child
    <2>1. Zombies' = Zombies
      BY <1>2 DEF Zombies
    <2>2. Cardinality(Zombies) = 0
      BY <1>2, FS_EmptySet
    <2>3. ReapedInTurn'
      BY <2>1, <2>2 DEF HandlerReturns, ForkInv, ReapedInTurn, Due
    <2> QED
      BY <1>2, <2>3 DEF HandlerReturns, processVars, ForkInv
  <1> QED
    BY <1>1, <1>2 DEF HandlerReturns

LEMMA ForkStep_Inv == ForkInv /\ [ForkNext]_forkVars => ForkInv'
  <1> SUFFICES ASSUME ForkInv, [ForkNext]_forkVars PROVE ForkInv'
    OBVIOUS
  <1>1. ASSUME NEW p \in Peers, ForkFails(p) \/ SetListener(p) PROVE ForkInv'
    BY <1>1 DEF ForkFails, SetListener, signalVars, ForkInv, ReapedInTurn, Due, Zombies
  <1>2. ASSUME NEW p \in Peers, Fork(p) \/ Listen(p) \/ ServingEnds(p) PROVE ForkInv'
    BY <1>2, ChildInv DEF Fork, Listen, ServingEnds, ForkInv
  <1>3. ASSUME NEW p \in Peers, ExecFails(p) \/ ChildExits(p) \/ Killed(p) PROVE ForkInv'
    BY <1>3, ExitsInv DEF ExecFails, ChildExits, Killed, Living
  <1>4. ASSUME NEW p \in Peers, StopOrContinue(p) PROVE ForkInv'
    BY <1>4, StopOrContinueInv
  <1>5. CASE HandlerRuns
    <2>1. Zombies' = Zombies
      BY <1>5 DEF HandlerRuns, Zombies
    <2>2. ReapedInTurn'
      BY <1>5, <2>1, ZombiesFinite DEF HandlerRuns, ForkInv, ReapedInTurn, Due
    <2> QED
      BY <1>5, <2>2 DEF HandlerRuns, processVars, ForkInv
  <1>6. CASE HandlerReturns
    BY <1>6, ReapedInv
  <1>7. CASE UNCHANGED forkVars
    BY <1>7 DEF forkVars, signalVars, processVars, ForkInv, ReapedInTurn, Due, Zombies
  <1> QED
    BY <1>1, <1>2, <1>3, <1>4, <1>5, <1>6, <1>7 DEF ForkNext, ChildRuns

-----------------------------------------------------------------------------
(* SocketLink: of servers that listen at a time each listens beside another; *)
(* one alone is the last that was bound to the file.  A file that is there   *)
(* stands in the way of all who looked for it before it was bound.           *)

SocketInv ==
  /\ server \in [Servers -> {"none", "clearing", "listening", "failed", "closed", "crashed"}]
  /\ \A s \in Up, t \in Up : s # t => s \in overlapped
  /\ file # "none" => Clearing \subseteq hindered
  /\ SocketReachable

LEMMA SocketInit_Inv == SocketInit => SocketInv
  BY DEF SocketInit, SocketInv, SocketReachable, Up, Clearing

\* Nothing the invariant is about changes.
LEMMA LinkInv ==
  ASSUME SocketInv, UNCHANGED <<file, server, hindered, overlapped>>
  PROVE  SocketInv'
  BY DEF SocketInv, SocketReachable, Up, Clearing

\* Who found no file, or took it away, has nobody in the way yet; the one it was
\* taken from is not alone.
LEMMA ClearedInv == ASSUME SocketInv, NEW s \in Servers, ClearFile(s) PROVE SocketInv'
  <1>1. Up' = Up /\ Clearing' = Clearing \cup {s}
    BY DEF ClearFile, SocketInv, Up, Clearing
  <1>2. overlapped \subseteq overlapped' /\ hindered \subseteq hindered'
    BY DEF ClearFile
  <1>3. file' # "none" => Clearing' \subseteq hindered'
    BY <1>1 DEF ClearFile, SocketInv
  <1>4. \A t \in Up \ overlapped' : file' = t
    <2>1. \A t \in Up \ overlapped : file = t
      BY DEF SocketInv, SocketReachable, Up
    <2> QED
      BY <2>1, <1>2 DEF ClearFile
  <1>5. \A t \in Servers : server'[t] = "failed" => t \in hindered'
    BY <1>2 DEF ClearFile, SocketInv, SocketReachable
  <1>6. SocketReachable'
    BY <1>1, <1>4, <1>5 DEF SocketReachable
  <1>7. server' \in [Servers -> {"none", "clearing", "listening", "failed", "closed", "crashed"}]
    BY DEF ClearFile, SocketInv
  <1> QED
    BY <1>1, <1>2, <1>3, <1>6, <1>7 DEF SocketInv

\* The file is the last server's, who is alone or overlaps with all the others,
\* and hinders those between the two halves of listen().
LEMMA BoundInv ==
  ASSUME SocketInv, NEW s \in Servers, server[s] = "clearing", Bound(s)
  PROVE  SocketInv'
  <1>1. Up' = Up \cup {s} /\ s \notin Up /\ Clearing' = Clearing \ {s}
    BY DEF Bound, SocketInv, Up, Clearing
  <1>2. Up = {} \/ Up \cup {s} \subseteq overlapped'
    BY DEF Bound
  <1>3. \A t \in Servers : server'[t] = "failed" => t \in hindered'
    BY DEF Bound, SocketInv, SocketReachable
  <1>4. server' \in [Servers -> {"none", "clearing", "listening", "failed", "closed", "crashed"}]
    BY DEF Bound, SocketInv
  <1>5. \A t \in Up' \ overlapped' : file' = t
    BY <1>1, <1>2 DEF Bound
  <1>6. \A t \in Up', r \in Up' : t # r => t \in overlapped'
    BY <1>1, <1>2
  <1>7. SocketReachable'
    BY <1>3, <1>5 DEF Bound, SocketReachable
  <1>8. Clearing' \subseteq hindered'
    BY <1>1 DEF Bound
  <1> QED
    BY <1>4, <1>6, <1>7, <1>8 DEF SocketInv

\* bind() fails for a file that was bound in between, or is forbidden.
LEMMA RefusedInv ==
  ASSUME SocketInv, NEW s \in Servers, server[s] = "clearing", Refused(s)
  PROVE  SocketInv'
  <1>1. Up' = Up /\ Clearing' = Clearing \ {s}
    BY DEF Refused, SocketInv, Up, Clearing
  <1>2. s \in hindered' /\ hindered \subseteq hindered'
    BY DEF Refused, SocketInv, Clearing
  <1>3. \A t \in Servers : server'[t] = "failed" => t \in hindered'
    BY <1>2 DEF Refused, SocketInv, SocketReachable
  <1>4. \A t \in Up' \ overlapped' : file' = t
    BY <1>1 DEF Refused, SocketInv, SocketReachable, Up
  <1>5. SocketReachable'
    BY <1>1, <1>3, <1>4 DEF SocketReachable
  <1> QED
    BY <1>1, <1>2, <1>5 DEF Refused, SocketInv

\* A server that no longer listens leaves at most one that overlaps with nobody,
\* and none if it was that one.
LEMMA DownInv ==
  ASSUME SocketInv, NEW s \in Servers, NEW to \in {"closed", "crashed"},
         server[s] # "failed", server' = [server EXCEPT ![s] = to],
         hindered' = hindered \/ hindered' = hindered \ {s}, overlapped' = overlapped \ {s},
         file' = file \/ (file' = "none" /\ server[s] = "listening")
  PROVE  SocketInv'
  <1>1. Up' = Up \ {s} /\ Clearing' = Clearing \ {s}
    BY DEF SocketInv, Up, Clearing
  <1>2. ASSUME NEW t \in Up' \ overlapped' PROVE file' = t
    BY <1>1, <1>2 DEF SocketInv, SocketReachable, Up
  <1>3. \A t \in Servers : server'[t] = "failed" => t \in hindered'
    BY DEF SocketInv, SocketReachable
  <1>4. SocketReachable'
    BY <1>2, <1>3 DEF SocketReachable
  <1>5. file' # "none" => Clearing' \subseteq hindered'
    BY <1>1 DEF SocketInv
  <1> QED
    BY <1>1, <1>4, <1>5 DEF SocketInv

LEMMA SocketStep_Inv == SocketInv /\ [SocketNext]_socketVars => SocketInv'
  <1> SUFFICES ASSUME SocketInv, [SocketNext]_socketVars PROVE SocketInv'
    OBVIOUS
  <1>1. ASSUME NEW s \in Servers, ClearFile(s) \/ BindFile(s) PROVE SocketInv'
    BY <1>1, ClearedInv, BoundInv, RefusedInv DEF BindFile
  <1>2. ASSUME NEW s \in Servers, Crash(s) PROVE SocketInv'
    <2>1. server[s] # "failed" /\ server' = [server EXCEPT ![s] = "crashed"]
      BY <1>2 DEF Crash
    <2>2. hindered' = hindered \ {s} /\ overlapped' = overlapped \ {s} /\ file' = file
      BY <1>2 DEF Crash
    <2> QED
      BY <2>1, <2>2, DownInv
  <1>3. ASSUME NEW s \in Servers, CloseListener(s) PROVE SocketInv'
    BY <1>3, DownInv DEF CloseListener
  <1>4. ASSUME NEW c \in SocketClients,
               ConnectToFile(c) \/ ServerGoesOn(c) \/ InstanceDisconnects(c)
                 \/ ClientDisconnects(c) \/ ClientCloses(c)
        PROVE  SocketInv'
    BY <1>4, LinkInv DEF ConnectToFile, ServerGoesOn, Accept, SetDescriptor, InitSocket,
       InstanceHears, InstanceDeleted, InstanceDisconnects, InstanceGoes, ClientDisconnects,
       ClientCloses
  <1>5. CASE UNCHANGED socketVars
    BY <1>5, LinkInv DEF socketVars
  <1> QED
    BY <1>1, <1>2, <1>3, <1>4, <1>5 DEF SocketNext

-----------------------------------------------------------------------------
(* ProtocolThread: whoever is in init() holds _initMutex, so that there is  *)
(* one; run() is where it is, which follows from the two waits.             *)

InSection == {"init", "started", "waiting", "woken"}

\* Who is where, when run() is.
Stages ==
  /\ run = "none" => \A c \in Callers : caller[c] \in {"out", "init"}
  /\ run = "started" => \E c \in Callers : caller[c] \in {"started", "waiting"}
  /\ run = "waiting" => \E c \in Callers : caller[c] = "woken"
  /\ \A c \in Callers :
       /\ caller[c] \in InSection => initMutex = c
       /\ caller[c] = "started" => threadMutex = c
       /\ caller[c] \in {"started", "waiting"} => run = "started"
       /\ caller[c] = "woken" => run = "waiting"
       /\ caller[c] = "returned" => run \in {"woken", "exec", "ended"}

\* What has become of the bus and the protocol object by then.
Handed ==
  /\ run \in {"none", "started"} <=> bus = "none"
  /\ bus \in {"asked", "destroyed"} => \A c \in Callers : caller[c] \in {"out", "returned"}
  /\ bus = "destroyed" => run \in {"exec", "ended"}
  /\ run = "ended" \/ quits # "none" => bus = "destroyed"
  /\ run \in {"woken", "exec"} /\ bus # "destroyed" => protocol.in = "thread" /\ protocol.wired
  /\ run = "exec" /\ bus # "destroyed" => protocol.child

ThreadInv ==
  /\ caller \in [Callers -> {"out", "returned"} \cup InSection]
  /\ run \in {"none", "started", "waiting", "woken", "exec", "ended"}
  /\ bus \in {"none", "there", "asked", "destroyed"}
  /\ protocol \in [in : {"none", "creator", "thread"}, wired : BOOLEAN, child : BOOLEAN]
  /\ Stages
  /\ Handed

LEMMA ThreadInit_Inv == ThreadInit => ThreadInv
  BY DEF ThreadInit, ThreadInv, Stages, Handed, InSection, NoProtocol

\* That is what HandedOver says.
LEMMA ThreadInv_HandedOver == ThreadInv => HandedOver
  BY DEF ThreadInv, Stages, Handed, HandedOver

LEMMA ThreadStep_Inv == ThreadInv /\ [ThreadNext]_threadVars => ThreadInv'
  <1> SUFFICES ASSUME ThreadInv, [ThreadNext]_threadVars PROVE ThreadInv'
    OBVIOUS
  <1> USE CallersAssumption DEF ThreadInv, Stages, Handed, InSection, Goes
  <1>1. ASSUME NEW c \in Callers, LockInit(c) PROVE ThreadInv'
    BY <1>1 DEF LockInit
  <1>2. ASSUME NEW c \in Callers, AlreadyRunning(c) PROVE ThreadInv'
    BY <1>2 DEF AlreadyRunning, IsRunning
  <1>3. ASSUME NEW c \in Callers, Start(c) PROVE ThreadInv'
    BY <1>3 DEF Start, IsRunning, NoProtocol
  <1>4. ASSUME NEW c \in Callers, Wait(c) PROVE ThreadInv'
    BY <1>4 DEF Wait
  <1>5. ASSUME NEW c \in Callers, HandOver(c) PROVE ThreadInv'
    BY <1>5 DEF HandOver
  <1>6. CASE RunBegins
    BY <1>6 DEF RunBegins, Woken
  <1>7. CASE RunGoesOn
    BY <1>7 DEF RunGoesOn
  <1>8. CASE BusDestroyed
    BY <1>8 DEF BusDestroyed, NoProtocol
  <1>9. CASE RunEnds
    BY <1>9 DEF RunEnds
  <1>10. CASE LetGo
    BY <1>10 DEF LetGo
  <1>11. CASE CreatorLoop
    BY <1>11 DEF CreatorLoop, Quit, ThreadDeleted
  <1>12. CASE UNCHANGED threadVars
    BY <1>12 DEF threadVars
  <1> QED
    BY <1>1, <1>2, <1>3, <1>4, <1>5, <1>6, <1>7, <1>8, <1>9, <1>10, <1>11, <1>12
       DEF ThreadNext, InitCall, Run
-----------------------------------------------------------------------------
(* AuthToken: a copy that is under way has the lock of its own data alone,  *)
(* and once it reads, that of the other with other readers only; so that,   *)
(* unless somebody writes through a reference, what it has copied is what   *)
(* the other still holds.                                                   *)

Copying(u) == copying[u].at # "out"
Reading(u) == copying[u].at \in {"both", "half", "copied"}

Locks ==
  \A u \in Users, v \in Users :
    /\ Copying(u) /\ Copying(v) /\ handle[u] = handle[v] => u = v
    /\ Reading(u) /\ Copying(v) => copying[u].from # handle[v]

\* What a copy has taken so far from the data it reads.
Taken(u) ==
  LET mine == token[handle[u]]
      from == token[copying[u].from]
  IN /\ Maps(copying[u].from) \in moments[u]
     /\ copying[u].at \in {"half", "copied"} => mine.serverData = from.serverData
     /\ copying[u].at = "copied" => mine.clientData = from.clientData

AuthTokenData == [clientData : TokenValues, serverData : TokenValues, defaultToken : BOOLEAN]

TokenInv ==
  /\ handle \in [Users -> Datas]
  /\ token \in [Datas -> AuthTokenData]
  /\ copying \in [Users -> [at : {"out", "own", "both", "half", "copied"}, from : Datas \cup {0}]]
  /\ \A u \in Users : copying[u].at = "out" <=> copying[u] = NotCopying
  /\ \A u \in Users : Copying(u) => copying[u].from \in Datas
  /\ moments \in [Users -> SUBSET [Fields -> TokenValues]]
  /\ Locks
  /\ ~raced => \A u \in Users : Reading(u) => Taken(u)

LEMMA TokenInit_Inv == TokenInit => TokenInv
  <1> SUFFICES ASSUME TokenInit PROVE TokenInv
    OBVIOUS
  <1>1. token \in [Datas -> AuthTokenData]
    BY TokenAssumption DEF TokenInit, AuthTokenData
  <1>2. \A u \in Users : copying[u] = NotCopying /\ ~Copying(u) /\ ~Reading(u)
    BY DEF TokenInit, Copying, Reading, NotCopying
  <1>3. copying \in [Users -> [at : {"out", "own", "both", "half", "copied"}, from : Datas \cup {0}]]
    BY DEF TokenInit, NotCopying
  <1>4. moments \in [Users -> SUBSET [Fields -> TokenValues]] /\ handle \in [Users -> Datas]
    BY DEF TokenInit
  <1> QED
    BY <1>1, <1>2, <1>3, <1>4 DEF TokenInv, Locks, NotCopying

LEMMA TokenInv_CopiedWhole == TokenInv => CopiedWhole
  <1> SUFFICES ASSUME TokenInv, NEW u \in Users, copying[u].at = "copied", ~raced
               PROVE  Maps(handle[u]) \in moments[u]
    BY DEF CopiedWhole
  <1>1. Taken(u)
    BY DEF TokenInv, Reading
  <1>2. Maps(handle[u]) = Maps(copying[u].from)
    BY <1>1 DEF Taken, Maps, Fields
  <1> QED
    BY <1>1, <1>2 DEF Taken
\* What holds of the moments, whatever the step: they are only added to.
Grown ==
  /\ moments' \in [Users -> SUBSET [Fields -> TokenValues]]
  /\ \A u \in Users : Reading(u) => moments[u] \subseteq moments'[u]

\* The maps of one data are a pair of maps.
LEMMA MapsType ==
  ASSUME TokenInv, NEW d \in Datas
  PROVE  Maps(d) \in [Fields -> TokenValues]
  BY DEF TokenInv, Maps, Fields, AuthTokenData

LEMMA WitnessedGrown ==
  ASSUME TokenInv, NEW d \in Datas, NEW maps \in [Fields -> TokenValues], Witnessed(d, maps)
  PROVE  Grown
  BY DEF TokenInv, Grown, Witnessed, Reading

\* A write into data that nobody has locked, or past the lock.
LEMMA WrittenInv ==
  ASSUME TokenInv, NEW d \in Datas, NEW data \in AuthTokenData,
         token' = [token EXCEPT ![d] = data], Grown, UNCHANGED <<handle, copying>>,
         ~raced' => ~raced /\ Unlocked(d)
  PROVE  TokenInv'
  <1>1. token' \in [Datas -> AuthTokenData]
    BY DEF TokenInv
  <1>2. Locks'
    BY DEF TokenInv, Locks, Copying, Reading
  <1>3. ASSUME ~raced', NEW u \in Users, Reading(u)' PROVE Taken(u)'
    <2>1. Reading(u) /\ Taken(u)
      BY <1>3 DEF TokenInv, Reading
    <2>2. copying[u].from \in Datas /\ copying[u].from # d
      BY <1>3, <2>1 DEF Unlocked, HasReadLock, Reading, TokenInv, Copying
    <2>3. handle[u] \in Datas /\ handle[u] # d
      BY <1>3, <2>1 DEF Unlocked, HasWriteLock, Reading, TokenInv
    <2>4. token'[copying[u].from] = token[copying[u].from] /\ token'[handle[u]] = token[handle[u]]
      BY <2>2, <2>3 DEF TokenInv
    <2>5. Maps(copying[u].from)' = Maps(copying[u].from)
      BY <2>4 DEF Maps
    <2>6. moments[u] \subseteq moments'[u]
      BY <2>1 DEF Grown
    <2> QED
      BY <2>1, <2>4, <2>5, <2>6 DEF Taken
  <1> QED
    BY <1>1, <1>2, <1>3 DEF TokenInv, Grown, Copying, Reading

\* One value written into data is that data with the field set.
LEMMA FieldWritten ==
  ASSUME TokenInv, NEW d \in Datas, NEW f \in Fields, NEW v \in TokenValues,
         token' = [token EXCEPT ![d][f] = v]
  PROVE  \E data \in AuthTokenData : token' = [token EXCEPT ![d] = data]
  <1>1. [token[d] EXCEPT ![f] = v] \in AuthTokenData
    BY DEF TokenInv, AuthTokenData, Fields
  <1> QED
    BY <1>1

LEMMA InsertInv ==
  ASSUME TokenInv, NEW u \in Users, NEW f \in Fields, NEW v \in TokenValues,
         Insert(u, f, v) \/ WriteThrough(u, f, v)
  PROVE  TokenInv'
  <1> DEFINE d == handle[u]
             maps == [Maps(d) EXCEPT ![f] = v]
  <1>1. d \in Datas
    BY DEF TokenInv
  <1>2. maps \in [Fields -> TokenValues]
    BY <1>1, MapsType
  <1>3. token' = [token EXCEPT ![d][f] = v] /\ Witnessed(d, maps) /\ UNCHANGED <<handle, copying>>
    BY DEF Insert, WriteThrough
  <1>4. Grown
    BY <1>1, <1>2, <1>3, WitnessedGrown
  <1>5. PICK data \in AuthTokenData : token' = [token EXCEPT ![d] = data]
    BY <1>1, <1>3, FieldWritten
  <1>6. ~raced' => ~raced /\ Unlocked(d)
    BY DEF Insert, WriteThrough
  <1> QED
    BY <1>1, <1>3, <1>4, <1>5, <1>6, WrittenInv
\* A thread that is not in copy() lets go of data, or gets data of its own.
LEMMA MovedInv ==
  ASSUME TokenInv, NEW u \in Users, copying[u] = NotCopying, NEW d \in Datas,
         handle' = [handle EXCEPT ![u] = d], UNCHANGED <<copying, moments, raced>>,
         token' \in [Datas -> AuthTokenData],
         \A e \in Datas : token'[e] = token[e]
           \/ \A v \in Users : copying[v].from # e /\ (v = u \/ handle[v] # e)
  PROVE  TokenInv'
  <1>1. handle' \in [Users -> Datas] /\ \A v \in Users : Copying(v) => handle'[v] = handle[v]
    BY DEF TokenInv, Copying, NotCopying
  <1>2. Locks'
    BY <1>1 DEF TokenInv, Locks, Copying, Reading
  <1>3. ASSUME ~raced', NEW v \in Users, Reading(v)' PROVE Taken(v)'
    <2>1. Reading(v) /\ Taken(v) /\ Copying(v) /\ v # u
      BY <1>3 DEF TokenInv, Reading, Copying, NotCopying
    <2>2. handle'[v] = handle[v] /\ handle[v] \in Datas /\ copying[v].from \in Datas
      BY <1>1, <2>1 DEF TokenInv
    <2>3. token'[copying[v].from] = token[copying[v].from] /\ token'[handle[v]] = token[handle[v]]
      BY <2>1, <2>2
    <2>4. Maps(copying[v].from)' = Maps(copying[v].from)
      BY <2>3 DEF Maps
    <2> QED
      BY <2>1, <2>2, <2>3, <2>4 DEF Taken
  <1> QED
    BY <1>1, <1>2, <1>3 DEF TokenInv, Copying, Reading

LEMMA ShareInv ==
  ASSUME TokenInv, NEW u \in Users, NEW v \in Users, Share(u, v)
  PROVE  TokenInv'
  BY MovedInv DEF Share, NotInCopy, TokenInv

LEMMA DetachInv ==
  ASSUME TokenInv, NEW u \in Users, Detach(u)
  PROVE  TokenInv'
  <1>1. PICK d \in Datas, b \in BOOLEAN :
          /\ \A v \in Users : (v = u \/ handle[v] # d) /\ copying[v].from # d
          /\ handle' = [handle EXCEPT ![u] = d]
          /\ token' = [token EXCEPT ![d] = [token[handle[u]] EXCEPT !.defaultToken = b]]
    BY DEF Detach
  <1>2. handle[u] \in Datas
    BY DEF TokenInv
  <1>3. [token[handle[u]] EXCEPT !.defaultToken = b] \in AuthTokenData
    BY <1>2 DEF TokenInv, AuthTokenData
  <1>4. token' \in [Datas -> AuthTokenData] /\ \A e \in Datas : e = d \/ token'[e] = token[e]
    BY <1>1, <1>3 DEF TokenInv
  <1>5. UNCHANGED <<copying, moments, raced>> /\ copying[u] = NotCopying
    BY DEF Detach, NotInCopy
  <1>6. \A e \in Datas : token'[e] = token[e]
          \/ \A v \in Users : copying[v].from # e /\ (v = u \/ handle[v] # e)
    BY <1>1, <1>4
  <1> QED
    BY <1>1, <1>4, <1>5, <1>6, MovedInv

\* copy() locks its own data: nobody else has it, to write or to read.
LEMMA LockOwnInv ==
  ASSUME TokenInv, NEW u \in Users, NEW v \in Users, LockOwn(u, v)
  PROVE  TokenInv'
  <1>1. copying[u] = NotCopying /\ copying' = [copying EXCEPT ![u] = [at |-> "own", from |-> handle[v]]]
    BY DEF LockOwn, NotInCopy
  <1>2. \A w \in Users : ~Copying(w) \/ handle[w] # handle[u]
    BY DEF LockOwn, Unlocked, HasWriteLock, Copying, TokenInv
  <1>3. \A w \in Users : ~Reading(w) \/ copying[w].from # handle[u]
    BY DEF LockOwn, Unlocked, HasReadLock, Reading, TokenInv
  <1>4. handle[v] \in Datas
    BY DEF TokenInv
  <1>5. \A w \in Users : w # u => copying'[w] = copying[w]
    BY <1>1 DEF TokenInv
  <1>6. copying'[u] = [at |-> "own", from |-> handle[v]]
    BY <1>1 DEF TokenInv
  <1>7. UNCHANGED <<handle, token, moments, raced>>
    BY DEF LockOwn
  <1>8. Locks'
    BY <1>2, <1>3, <1>5, <1>6, <1>7 DEF TokenInv, Locks, Copying, Reading
  <1>9. ASSUME ~raced', NEW w \in Users, Reading(w)' PROVE Taken(w)'
    <2>1. w # u /\ copying'[w] = copying[w]
      BY <1>5, <1>6, <1>9 DEF Reading
    <2>2. Taken(w)
      BY <2>1, <1>7, <1>9 DEF TokenInv, Reading
    <2>3. Maps(copying[w].from)' = Maps(copying[w].from)
      BY <2>1, <1>7 DEF Maps
    <2> QED
      BY <2>1, <2>2, <2>3, <1>7 DEF Taken
  <1>10. copying' \in [Users -> [at : {"out", "own", "both", "half", "copied"}, from : Datas \cup {0}]]
    BY <1>1, <1>4 DEF TokenInv
  <1>11. \A w \in Users : copying'[w].at = "out" <=> copying'[w] = NotCopying
    BY <1>5, <1>6 DEF TokenInv, NotCopying
  <1>12. \A w \in Users : Copying(w)' => copying'[w].from \in Datas
    BY <1>4, <1>5, <1>6 DEF TokenInv, Copying
  <1> QED
    BY <1>7, <1>8, <1>9, <1>10, <1>11, <1>12 DEF TokenInv

\* What a step of a copy under way leaves alone.
LEMMA GoesOn ==
  ASSUME TokenInv, NEW u \in Users, copying[u].at \in {"own", "both", "half"},
         NEW to \in {"both", "half", "copied"}, copying' = [copying EXCEPT ![u].at = to],
         UNCHANGED handle, copying[u].at = "own" => Readable(copying[u].from)
  PROVE  /\ copying'[u] = [at |-> to, from |-> copying[u].from]
         /\ \A w \in Users : w # u => copying'[w] = copying[w]
         /\ copying' \in [Users -> [at : {"out", "own", "both", "half", "copied"}, from : Datas \cup {0}]]
         /\ \A w \in Users : copying'[w].at = "out" <=> copying'[w] = NotCopying
         /\ \A w \in Users : Copying(w)' => copying'[w].from \in Datas
         /\ Locks'
  <1>1. copying'[u] = [at |-> to, from |-> copying[u].from]
    BY DEF TokenInv
  <1>2. \A w \in Users : w # u => copying'[w] = copying[w]
    BY DEF TokenInv
  <1>3. copying' \in [Users -> [at : {"out", "own", "both", "half", "copied"}, from : Datas \cup {0}]]
    BY DEF TokenInv
  <1>4. \A w \in Users : copying'[w].at = "out" <=> copying'[w] = NotCopying
    BY <1>1, <1>2 DEF TokenInv, NotCopying
  <1>5. \A w \in Users : Copying(w)' => Copying(w) /\ copying'[w].from = copying[w].from
    BY <1>1, <1>2 DEF Copying
  <1>6. copying[u].at = "own" => \A w \in Users : Copying(w) => copying[u].from # handle[w]
    BY DEF Readable, HasWriteLock, Copying, TokenInv
  <1>7. copying[u].at # "own" => Reading(u)
    BY DEF Reading
  <1>8. Locks'
    BY <1>1, <1>2, <1>5, <1>6, <1>7 DEF TokenInv, Locks, Reading, Copying
  <1> QED
    BY <1>1, <1>2, <1>3, <1>4, <1>5, <1>8 DEF TokenInv
\* The copies of others are where they were, and what they have taken stays.
LEMMA OthersTaken ==
  ASSUME TokenInv, NEW u \in Users, Copying(u), UNCHANGED <<handle, raced>>,
         \A w \in Users : w # u => copying'[w] = copying[w],
         \A d \in Datas : d # handle[u] => token'[d] = token[d], Grown, ~raced'
  PROVE  \A w \in Users : w # u /\ Reading(w)' => Taken(w)'
  <1> SUFFICES ASSUME NEW w \in Users, w # u, Reading(w)' PROVE Taken(w)'
    OBVIOUS
  <1>1. copying'[w] = copying[w] /\ Reading(w) /\ Copying(w)
    BY DEF Reading, Copying
  <1>2. Taken(w)
    BY <1>1 DEF TokenInv
  <1>3. copying[w].from \in Datas \ {handle[u]} /\ handle[w] \in Datas \ {handle[u]}
    BY <1>1 DEF TokenInv, Locks
  <1>4. token'[copying[w].from] = token[copying[w].from] /\ token'[handle[w]] = token[handle[w]]
    BY <1>3
  <1>5. Maps(copying[w].from)' = Maps(copying[w].from)
    BY <1>1, <1>4 DEF Maps
  <1>6. moments[w] \subseteq moments'[w]
    BY <1>1 DEF Grown
  <1> QED
    BY <1>1, <1>2, <1>4, <1>5, <1>6 DEF Taken

LEMMA LockOtherInv ==
  ASSUME TokenInv, NEW u \in Users, LockOther(u)
  PROVE  TokenInv'
  <1>1. copying[u].at = "own" /\ copying' = [copying EXCEPT ![u].at = "both"]
        /\ Readable(copying[u].from) /\ UNCHANGED <<handle, token, raced>>
    BY DEF LockOther, CopyGoes
  <1>2. copying[u].from \in Datas /\ Copying(u) /\ ~Reading(u)
    BY <1>1 DEF TokenInv, Copying, Reading
  <1>3. moments' = [moments EXCEPT ![u] = {Maps(copying[u].from)}]
    BY DEF LockOther
  <1>4. Grown /\ moments'[u] = {Maps(copying[u].from)}
    BY <1>2, <1>3, MapsType DEF Grown, TokenInv
  <1>5. copying'[u] = [at |-> "both", from |-> copying[u].from]
    BY <1>1, GoesOn
  <1>6. Taken(u)'
    BY <1>1, <1>4, <1>5 DEF Taken, Maps
  <1>7. ~raced' => \A w \in Users : Reading(w)' => Taken(w)'
    BY <1>1, <1>2, <1>4, <1>6, GoesOn, OthersTaken
  <1> QED
    BY <1>1, <1>4, <1>7, GoesOn DEF TokenInv, Grown

LEMMA CopyServerDataInv ==
  ASSUME TokenInv, NEW u \in Users, CopyServerData(u)
  PROVE  TokenInv'
  <1> DEFINE from == copying[u].from
             d    == handle[u]
             maps == [Maps(d) EXCEPT !.serverData = token[from].serverData]
  <1>1. copying[u].at = "both" /\ copying' = [copying EXCEPT ![u].at = "half"]
        /\ token' = [token EXCEPT ![d].serverData = maps.serverData]
        /\ Witnessed(d, maps) /\ UNCHANGED <<handle, raced>>
    BY DEF CopyServerData, CopyGoes
  <1>2. from \in Datas /\ d \in Datas /\ from # d /\ Copying(u) /\ Reading(u)
    BY <1>1 DEF TokenInv, Copying, Reading, Locks
  <1>3. maps \in [Fields -> TokenValues] /\ maps.serverData = token[from].serverData
    BY <1>2, MapsType DEF TokenInv, AuthTokenData, Fields
  <1>4. Grown
    BY <1>1, <1>2, <1>3, WitnessedGrown
  <1>5. /\ token' \in [Datas -> AuthTokenData]
        /\ \A e \in Datas : e # d => token'[e] = token[e]
        /\ token'[d].serverData = token[from].serverData
    BY SMTT(30), <1>1, <1>2, <1>3 DEF TokenInv, AuthTokenData
  <1>6. copying'[u] = [at |-> "half", from |-> from]
    BY <1>1, GoesOn
  <1>7. ASSUME ~raced PROVE Taken(u)'
    <2>1. Taken(u)
      BY <1>2, <1>7 DEF TokenInv
    <2>2. Maps(from)' = Maps(from)
      BY <1>2, <1>5, <1>6 DEF Maps
    <2> QED
      BY <2>1, <2>2, <1>1, <1>2, <1>4, <1>5, <1>6 DEF Taken, Grown
  <1>8. ~raced' => \A w \in Users : Reading(w)' => Taken(w)'
    BY <1>1, <1>2, <1>4, <1>5, <1>7, GoesOn, OthersTaken
  <1> QED
    BY <1>1, <1>4, <1>5, <1>8, GoesOn DEF TokenInv, Grown

LEMMA CopyClientDataInv ==
  ASSUME TokenInv, NEW u \in Users, CopyClientData(u)
  PROVE  TokenInv'
  <1> DEFINE from == copying[u].from
             d    == handle[u]
             maps == [Maps(d) EXCEPT !.clientData = token[from].clientData]
  <1>1. copying[u].at = "half" /\ copying' = [copying EXCEPT ![u].at = "copied"]
        /\ token' = [token EXCEPT ![d].clientData = maps.clientData]
        /\ Witnessed(d, maps) /\ UNCHANGED <<handle, raced>>
    BY DEF CopyClientData, CopyGoes
  <1>2. from \in Datas /\ d \in Datas /\ from # d /\ Copying(u) /\ Reading(u)
    BY <1>1 DEF TokenInv, Copying, Reading, Locks
  <1>3. maps \in [Fields -> TokenValues] /\ maps.clientData = token[from].clientData
    BY <1>2, MapsType DEF TokenInv, AuthTokenData, Fields
  <1>4. Grown
    BY <1>1, <1>2, <1>3, WitnessedGrown
  <1>5. /\ token' \in [Datas -> AuthTokenData]
        /\ \A e \in Datas : e # d => token'[e] = token[e]
        /\ token'[d].clientData = token[from].clientData
        /\ token'[d].serverData = token[d].serverData
    BY <1>1, <1>2, <1>3 DEF TokenInv, AuthTokenData
  <1>6. copying'[u] = [at |-> "copied", from |-> from]
    BY <1>1, GoesOn
  <1>7. ASSUME ~raced PROVE Taken(u)'
    <2>1. Taken(u)
      BY <1>2, <1>7 DEF TokenInv
    <2>2. Maps(from)' = Maps(from)
      BY <1>2, <1>5, <1>6 DEF Maps
    <2> QED
      BY <2>1, <2>2, <1>1, <1>2, <1>4, <1>5, <1>6 DEF Taken, Grown
  <1>8. ~raced' => \A w \in Users : Reading(w)' => Taken(w)'
    BY <1>1, <1>2, <1>4, <1>5, <1>7, GoesOn, OthersTaken
  <1> QED
    BY <1>1, <1>4, <1>5, <1>8, GoesOn DEF TokenInv, Grown

LEMMA CopyReturnsInv ==
  ASSUME TokenInv, NEW u \in Users, CopyReturns(u)
  PROVE  TokenInv'
  <1>1. copying' = [copying EXCEPT ![u] = NotCopying] /\ moments' = [moments EXCEPT ![u] = {}]
        /\ UNCHANGED <<handle, token, raced>>
    BY DEF CopyReturns
  <1>2. copying'[u] = NotCopying /\ \A w \in Users : w # u => copying'[w] = copying[w]
    BY <1>1 DEF TokenInv
  <1>3. \A w \in Users : Copying(w)' => w # u /\ Copying(w)
    BY <1>2 DEF Copying, NotCopying
  <1>4. \A w \in Users : Reading(w)' => w # u /\ Reading(w)
    BY <1>2 DEF Reading, NotCopying
  <1>5. Locks'
    BY <1>1, <1>2, <1>3, <1>4 DEF Locks, TokenInv
  <1>6. ASSUME ~raced', NEW w \in Users, Reading(w)' PROVE Taken(w)'
    <2>1. w # u /\ Taken(w) /\ copying'[w] = copying[w]
      BY <1>1, <1>2, <1>4, <1>6 DEF TokenInv
    <2>2. Maps(copying[w].from)' = Maps(copying[w].from) /\ moments'[w] = moments[w]
      BY <1>1, <2>1 DEF Maps, TokenInv
    <2> QED
      BY <1>1, <2>1, <2>2 DEF Taken
  <1>7. moments' \in [Users -> SUBSET [Fields -> TokenValues]]
    BY <1>1 DEF TokenInv
  <1>8. /\ copying' \in [Users -> [at : {"out", "own", "both", "half", "copied"}, from : Datas \cup {0}]]
        /\ \A w \in Users : copying'[w].at = "out" <=> copying'[w] = NotCopying
        /\ \A w \in Users : Copying(w)' => copying'[w].from \in Datas
    BY <1>1, <1>2, <1>3 DEF TokenInv, NotCopying
  <1> QED
    BY <1>1, <1>5, <1>6, <1>7, <1>8 DEF TokenInv

LEMMA TokenStep_Inv == TokenInv /\ [TokenNext]_tokenVars => TokenInv'
  <1> SUFFICES ASSUME TokenInv, [TokenNext]_tokenVars PROVE TokenInv'
    OBVIOUS
  <1>1. CASE UNCHANGED tokenVars
    BY <1>1 DEF tokenVars, TokenInv, Locks, Copying, Reading, Taken, Maps
  <1> QED
    BY <1>1, InsertInv, ShareInv, LockOwnInv, DetachInv, LockOtherInv, CopyServerDataInv,
       CopyClientDataInv, CopyReturnsInv DEF TokenNext, CopyGoesOn
-----------------------------------------------------------------------------
(* ListenerTcp: how often each lock is held follows from where              *)
(* incomingConnection() is, and nobody writes what it holds for reading; so *)
(* that what the instance was given stays what the settings are.            *)

\* How often incomingConnection() holds each lock.
Held(l) ==
  IF l = "sslmode"
  THEN IF pc = "idle" THEN 0 ELSE IF pc = "sslmode" THEN 2 ELSE 1
  ELSE IF pc \in {"idle", "locker"} THEN 0 ELSE IF pc = "cert" THEN 2 ELSE 1

\* What the instance has been given.
Given(l) == IF l = "sslmode" THEN pc \in {"between", "cert", "given"} ELSE pc = "given"

ListenerInv ==
  /\ pc \in {"idle", "locker", "both", "sslmode", "between", "cert", "given"}
  /\ setting \in [Settings -> Values] /\ given \in [Settings -> Values]
  /\ setter \in [Setters -> {Nothing} \cup [of : Settings, value : Values]]
  /\ writer \in [Settings -> Setters \cup {Nobody}]
  /\ readers = [l \in Settings |-> Held(l)]
  /\ \A l \in Settings : writer[l] # Nobody => readers[l] = 0
  /\ \A l \in Settings : Given(l) => given[l] = setting[l]
  /\ pc # "idle" => setting \in inForce

LEMMA ListenerInit_Inv == ListenerInit => ListenerInv
  BY DEF ListenerInit, ListenerInv, Held, Given

LEMMA ListenerInv_FutureOnly == ListenerInv => FutureOnly
  <1> SUFFICES ASSUME ListenerInv, pc = "given" PROVE given \in inForce
    BY DEF FutureOnly
  <1>1. \A l \in Settings : given[l] = setting[l]
    BY DEF ListenerInv, Given
  <1>2. given = setting
    BY <1>1 DEF ListenerInv
  <1> QED
    BY <1>2 DEF ListenerInv

\* A setting changes only while nobody holds its lock for reading.
LEMMA SetInv ==
  ASSUME ListenerInv, NEW s \in Setters, Set(s)
  PROVE  ListenerInv'
  <1> DEFINE l == setter[s].of
  <1>1. l \in Settings /\ setter[s].value \in Values /\ writer[l] = s
    BY DEF Set, ListenerInv
  <1>2. readers[l] = 0
    BY <1>1, SettersAssumption DEF ListenerInv
  <1>3. pc \in {"idle", "locker"} /\ (pc = "locker" => l = "cert")
    BY <1>1, <1>2 DEF ListenerInv, Held, Settings
  <1>4. setting' \in [Settings -> Values] /\ (pc # "idle" => setting' \in inForce')
    BY <1>1 DEF Set, ListenerInv
  <1>5. \A k \in Settings : ~Given(k)'
    BY <1>3 DEF Set, Given
  <1>6. UNCHANGED <<pc, readers, given>>
    BY DEF Set
  <1>7. readers' = [k \in Settings |-> Held(k)']
    BY <1>6 DEF ListenerInv, Held
  <1>8. /\ writer' \in [Settings -> Setters \cup {Nobody}]
        /\ setter' \in [Setters -> {Nothing} \cup [of : Settings, value : Values]]
        /\ \A k \in Settings : writer'[k] # Nobody => writer[k] # Nobody
    BY DEF Set, ListenerInv
  <1> QED
    BY <1>4, <1>5, <1>6, <1>7, <1>8 DEF ListenerInv

\* incomingConnection() takes or gives up one lock for reading, and goes where it
\* holds it once more or once less.
LEMMA ReaderInv ==
  ASSUME ListenerInv, NEW l \in Settings, NEW n \in {0, 1, 2}, NEW to, pc' = to,
         to \in {"locker", "both", "sslmode", "between", "cert", "given"},
         readers' = [readers EXCEPT ![l] = n], UNCHANGED <<setting, setter, writer>>,
         Held(l)' = n, \A k \in Settings : k # l => Held(k)' = Held(k),
         n > Held(l) => writer[l] = Nobody,
         given' \in [Settings -> Values], \A k \in Settings : Given(k)' => given'[k] = setting[k],
         setting \in inForce'
  PROVE  ListenerInv'
  <1>1. \A k \in Settings : readers'[k] = IF k = l THEN n ELSE readers[k]
    BY DEF ListenerInv
  <1>2. \A k \in Settings : readers'[k] = Held(k)'
    BY <1>1 DEF ListenerInv
  <1>3. readers' = [k \in Settings |-> Held(k)']
    BY <1>2 DEF ListenerInv
  <1>4. \A k \in Settings : writer[k] # Nobody => readers'[k] = 0
    <2>1. readers[l] = Held(l) /\ Held(l) \in {0, 1, 2}
      BY DEF ListenerInv, Held
    <2>2. writer[l] # Nobody => n = 0
      BY <2>1 DEF ListenerInv
    <2> QED
      BY <1>1, <2>2 DEF ListenerInv
  <1> QED
    BY <1>3, <1>4 DEF ListenerInv

LEMMA IncomingInv ==
  ASSUME ListenerInv, IncomingConnection
  PROVE  ListenerInv'
  <1> USE DEF Held, Given, Settings
  <1>1. CASE Enter
    <2>1. pc = "idle" /\ pc' = "locker" /\ writer["sslmode"] = Nobody
          /\ readers' = [readers EXCEPT !["sslmode"] = 1] /\ setting \in inForce'
          /\ UNCHANGED <<setting, setter, writer, given>>
      BY <1>1 DEF Enter, At, LockForRead, ListenerInv
    <2> QED
      BY <2>1, ReaderInv DEF ListenerInv
  <1>2. CASE ReadLock("cert", "locker", "both")
    <2>1. pc = "locker" /\ pc' = "both" /\ writer["cert"] = Nobody
          /\ readers' = [readers EXCEPT !["cert"] = 1]
          /\ UNCHANGED <<setting, setter, writer, given, inForce>>
      BY <1>2 DEF ReadLock, At, LockForRead, ListenerInv
    <2> QED
      BY <2>1, ReaderInv DEF ListenerInv
  <1>3. CASE ReadLock("sslmode", "both", "sslmode")
    <2>1. pc = "both" /\ pc' = "sslmode" /\ writer["sslmode"] = Nobody
          /\ readers' = [readers EXCEPT !["sslmode"] = 2]
          /\ UNCHANGED <<setting, setter, writer, given, inForce>>
      BY <1>3 DEF ReadLock, At, LockForRead, ListenerInv
    <2> QED
      BY <2>1, ReaderInv DEF ListenerInv
  <1>4. CASE SetProperty("sslmode", "sslmode", "between")
    <2>1. pc = "sslmode" /\ pc' = "between" /\ given' = [given EXCEPT !["sslmode"] = setting["sslmode"]]
          /\ readers' = [readers EXCEPT !["sslmode"] = 1]
          /\ UNCHANGED <<setting, setter, writer, inForce>>
      BY <1>4 DEF SetProperty, At, Unlock, ListenerInv
    <2> QED
      BY <2>1, ReaderInv DEF ListenerInv
  <1>5. CASE ReadLock("cert", "between", "cert")
    <2>1. pc = "between" /\ pc' = "cert" /\ writer["cert"] = Nobody
          /\ readers' = [readers EXCEPT !["cert"] = 2]
          /\ UNCHANGED <<setting, setter, writer, given, inForce>>
      BY <1>5 DEF ReadLock, At, LockForRead, ListenerInv
    <2> QED
      BY <2>1, ReaderInv DEF ListenerInv
  <1>6. CASE SetProperty("cert", "cert", "given")
    <2>1. pc = "cert" /\ pc' = "given" /\ given' = [given EXCEPT !["cert"] = setting["cert"]]
          /\ readers' = [readers EXCEPT !["cert"] = 1]
          /\ UNCHANGED <<setting, setter, writer, inForce>>
      BY <1>6 DEF SetProperty, At, Unlock, ListenerInv
    <2> QED
      BY <2>1, ReaderInv DEF ListenerInv
  <1>7. CASE Leave
    BY <1>7 DEF Leave, At, ListenerInv
  <1> QED
    BY <1>1, <1>2, <1>3, <1>4, <1>5, <1>6, <1>7 DEF IncomingConnection

LEMMA ListenerStep_Inv == ListenerInv /\ [ListenerNext]_listenerVars => ListenerInv'
  <1> SUFFICES ASSUME ListenerInv, [ListenerNext]_listenerVars PROVE ListenerInv'
    OBVIOUS
  <1>1. ASSUME NEW s \in Setters, NEW l \in Settings, NEW v \in Values, SetterCalls(s, l, v)
        PROVE  ListenerInv'
    BY <1>1 DEF SetterCalls, ListenerInv, Held, Given
  <1>2. ASSUME NEW s \in Setters, Locked(s) PROVE ListenerInv'
    BY <1>2 DEF Locked, LockForWrite, ListenerInv, Held, Given
  <1>3. CASE UNCHANGED listenerVars
    BY <1>3 DEF listenerVars, ListenerInv, Held, Given
  <1> QED
    BY <1>1, <1>2, <1>3, SetInv, IncomingInv DEF ListenerNext
-----------------------------------------------------------------------------
(* Keepalive: while both ends are there and connected, what is under way    *)
(* leads the client to the time-out of the instance; and in each second     *)
(* each end has pinged the other before the second is over.                 *)

ToClient ==
  [name : {"ping", "disableTimeout"}] \cup [name : {"enableTimeout"}, timeout : Timeouts]

Alive == network = "up" /\ socket = "connected" /\ instance

KeepaliveType ==
  /\ network \in {"up", "down"} /\ socket \in {"connected", "closing", "unconnected"}
  /\ network = "up" => socket # "closing"
  /\ instance \in BOOLEAN /\ enabled \in BOOLEAN /\ timeout \in Timeouts
  /\ serverTimer \in BOOLEAN /\ serverSince \in Nat
  /\ clientTimer \in BOOLEAN /\ clientTimeout \in Timeouts \cup {0} /\ clientSince \in Nat
  /\ clientTimer => clientTimeout \in Timeouts
  /\ toClient \in Seq(ToClient) /\ toServer \in Seq({Ping})
  /\ fired \in SUBSET {"server", "client"}

IsPing(m) == m.name = "ping"

\* A message that leaves the client as the instance is.
Tells(m) ==
  IF enabled THEN m.name = "enableTimeout" /\ m.timeout = timeout ELSE m.name = "disableTimeout"

\* The last message but pings tells the client what it does not know.
Agreeing ==
  Alive =>
    /\ enabled => serverTimer
    /\ \/ \E i \in DOMAIN toClient :
            Tells(toClient[i]) /\ \A j \in DOMAIN toClient : j > i => IsPing(toClient[j])
       \/ /\ \A j \in DOMAIN toClient : IsPing(toClient[j])
          /\ clientTimer = enabled /\ (enabled => clientTimeout = timeout)

\* The client's lastPing is not too old for any time-out it has or will be
\* given, nor is the instance's for its own; and an end whose timer went off in
\* this second has been heard of by the other, or will be.
InTime ==
  /\ ~wrong
  /\ Alive =>
       /\ clientTimer => clientSince <= clientTimeout
       /\ \A i \in DOMAIN toClient :
            toClient[i].name = "enableTimeout" => clientSince <= toClient[i].timeout
       /\ enabled => serverSince <= timeout
       /\ enabled /\ "server" \in fired =>
            clientSince = 0 \/ \E i \in DOMAIN toClient : IsPing(toClient[i])
       /\ clientTimer /\ "client" \in fired => serverSince = 0 \/ toServer # <<>>

KeepaliveInv == KeepaliveType /\ Agreeing /\ InTime

LEMMA KeepaliveInit_Inv == KeepaliveInit => KeepaliveInv
  <1> SUFFICES ASSUME KeepaliveInit PROVE KeepaliveInv
    OBVIOUS
  <1>1. KeepaliveType
    <2>1. toClient \in Seq(ToClient) /\ toServer \in Seq({Ping})
      BY DEF KeepaliveInit
    <2> QED
      BY <2>1 DEF KeepaliveInit, KeepaliveType
  <1>2. DOMAIN toClient = {}
    BY DEF KeepaliveInit
  <1>3. timeout \in Nat
    BY KeepaliveAssumption DEF KeepaliveInit
  <1> QED
    BY <1>1, <1>2, <1>3 DEF KeepaliveInit, KeepaliveInv, Agreeing, InTime

\* With nothing under way the client knows.
LEMMA Agreeing_Agreed == KeepaliveType /\ Agreeing => TimeoutAgreed
  BY DEF KeepaliveType, Agreeing, TimeoutAgreed, Alive

\* A queue with a message appended, and one without its head.
LEMMA Appended ==
  ASSUME NEW S, NEW q \in Seq(S), NEW m \in S
  PROVE  /\ Append(q, m) \in Seq(S)
         /\ DOMAIN Append(q, m) = DOMAIN q \cup {Len(q) + 1}
         /\ \A i \in DOMAIN q : Append(q, m)[i] = q[i] /\ i < Len(q) + 1
         /\ Append(q, m)[Len(q) + 1] = m
  OBVIOUS

LEMMA TakenOff ==
  ASSUME NEW S, NEW q \in Seq(S), q # <<>>
  PROVE  /\ Tail(q) \in Seq(S) /\ Head(q) = q[1] /\ 1 \in DOMAIN q
         /\ \A i \in DOMAIN Tail(q) : i + 1 \in DOMAIN q /\ Tail(q)[i] = q[i + 1] /\ i \in Nat
         /\ \A i \in DOMAIN q : i = 1 \/ (i - 1 \in DOMAIN Tail(q) /\ Tail(q)[i - 1] = q[i])
  OBVIOUS

\* The instance tells the client of its time-out.
LEMMA EnableInv ==
  ASSUME KeepaliveType, Agreeing, NEW t \in Timeouts, EnableTimeout(t), enabled' = TRUE,
         timeout' = t, UNCHANGED <<network, instance, clientVars, toServer, wrong>>
  PROVE  KeepaliveType' /\ Agreeing' /\ (InTime /\ clientSince <= t => InTime')
  <1> DEFINE m == [name |-> "enableTimeout", timeout |-> t]
  <1>1. m \in ToClient /\ m.name = "enableTimeout" /\ m.timeout = t /\ ~IsPing(m)
    BY DEF ToClient, IsPing
  <1>2. toClient' = IF network = "up" THEN Append(toClient, m) ELSE toClient
    BY DEF EnableTimeout, Sent
  <1>3. toClient \in Seq(ToClient)
    BY DEF KeepaliveType
  <1>4. KeepaliveType'
    BY <1>1, <1>2, <1>3, Appended, KeepaliveAssumption DEF KeepaliveType, EnableTimeout, clientVars
  <1> HIDE DEF m
  <1>5. Agreeing'
    <2> SUFFICES ASSUME Alive' PROVE Agreeing'
      BY DEF Agreeing
    <2>1. toClient' = Append(toClient, m)
      BY <1>2 DEF Alive
    <2>2. Tells(m)'
      BY <1>1 DEF Tells
    <2>3. \A j \in DOMAIN toClient' : ~(j > Len(toClient) + 1)
      BY <2>1, <1>1, <1>3, Appended
    <2>4. Len(toClient) + 1 \in DOMAIN toClient' /\ toClient'[Len(toClient) + 1] = m
      BY <2>1, <1>1, <1>3, Appended
    <2>5. serverTimer'
      BY DEF EnableTimeout
    <2> QED
      BY <2>2, <2>3, <2>4, <2>5 DEF Agreeing
  <1>6. ASSUME InTime, clientSince <= t PROVE InTime'
    <2> SUFFICES ASSUME Alive' PROVE InTime'
      BY <1>6 DEF InTime
    <2>1. toClient' = Append(toClient, m) /\ Alive
      BY <1>2 DEF Alive, clientVars
    <2>2. \A i \in DOMAIN toClient' :
            toClient'[i].name = "enableTimeout" => clientSince <= toClient'[i].timeout
      BY <2>1, <1>1, <1>3, <1>6, Appended DEF InTime
    <2>3. serverSince' = 0 /\ t >= 0 /\ fired' = fired \ {"server"}
      BY KeepaliveAssumption DEF EnableTimeout
    <2> QED
      BY <2>1, <2>2, <2>3, <1>6 DEF InTime, clientVars
  <1> QED
    BY <1>4, <1>5, <1>6
\* The instance tells the client that there is no time-out any more.
LEMMA DisableInv ==
  ASSUME KeepaliveType, Agreeing, DisableTimeout, enabled' = FALSE, timeout' \in Timeouts,
         UNCHANGED <<network, instance, clientVars, toServer, wrong>>
  PROVE  KeepaliveType' /\ Agreeing' /\ (InTime => InTime')
  <1> DEFINE m == [name |-> "disableTimeout"]
  <1>1. m \in ToClient /\ m.name = "disableTimeout" /\ ~IsPing(m)
    BY DEF ToClient, IsPing
  <1>2. toClient' = IF network = "up" THEN Append(toClient, m) ELSE toClient
    BY DEF DisableTimeout, Sent
  <1>3. toClient \in Seq(ToClient)
    BY DEF KeepaliveType
  <1>4. KeepaliveType'
    BY <1>1, <1>2, <1>3, Appended DEF KeepaliveType, DisableTimeout, clientVars
  <1> HIDE DEF m
  <1>5. Agreeing'
    <2> SUFFICES ASSUME Alive' PROVE Agreeing'
      BY DEF Agreeing
    <2>1. toClient' = Append(toClient, m)
      BY <1>2 DEF Alive
    <2>2. Tells(m)'
      BY <1>1 DEF Tells
    <2>3. \A j \in DOMAIN toClient' : ~(j > Len(toClient) + 1)
      BY <2>1, <1>1, <1>3, Appended
    <2>4. Len(toClient) + 1 \in DOMAIN toClient' /\ toClient'[Len(toClient) + 1] = m
      BY <2>1, <1>1, <1>3, Appended
    <2> QED
      BY <2>2, <2>3, <2>4 DEF Agreeing
  <1>6. ASSUME InTime PROVE InTime'
    <2> SUFFICES ASSUME Alive' PROVE InTime'
      BY <1>6 DEF InTime
    <2>1. toClient' = Append(toClient, m) /\ Alive
      BY <1>2 DEF Alive, clientVars
    <2>2. \A i \in DOMAIN toClient' :
            toClient'[i].name = "enableTimeout" => clientSince <= toClient'[i].timeout
      BY <2>1, <1>1, <1>3, <1>6, Appended DEF InTime
    <2> QED
      BY <2>1, <2>2, <1>6 DEF InTime, clientVars, DisableTimeout
  <1> QED
    BY <1>4, <1>5, <1>6

LEMMA SetPropertyInv ==
  ASSUME KeepaliveType, Agreeing, SetTimeoutProperty
  PROVE  KeepaliveType' /\ Agreeing' /\ (InTime /\ ~Late => InTime')
  <1>1. UNCHANGED <<network, instance, clientVars, toServer, wrong>>
    BY DEF SetTimeoutProperty
  <1>2. ASSUME NEW b \in BOOLEAN, SetEnabled(b)
        PROVE  KeepaliveType' /\ Agreeing' /\ (InTime /\ ~Late => InTime')
    <2>1. CASE b # enabled /\ b /\ EnableTimeout(timeout)
      <3>1. ~enabled /\ enabled' = TRUE /\ timeout' = timeout /\ timeout \in Timeouts
            /\ (~Late => clientSince <= timeout)
        BY <1>2, <2>1 DEF SetEnabled, KeepaliveType
      <3>2. PICK t \in Timeouts : t = timeout
        BY <3>1
      <3>3. EnableTimeout(t)
        BY <2>1, <3>2 DEF EnableTimeout
      <3> QED
        BY <1>1, <3>1, <3>2, <3>3, EnableInv
    <2>2. CASE b # enabled /\ ~b /\ DisableTimeout
      <3>1. enabled' = FALSE /\ timeout' \in Timeouts
        BY <1>2, <2>2 DEF SetEnabled, KeepaliveType
      <3> QED
        BY <1>1, <2>2, <3>1, DisableInv
    <2>3. CASE b = enabled /\ UNCHANGED <<toClient, serverSince, serverTimer, fired>>
      <3>1. UNCHANGED <<enabled, timeout>>
        BY <1>2, <2>3 DEF SetEnabled
      <3>2. KeepaliveType'
        BY <1>1, <2>3, <3>1 DEF KeepaliveType, clientVars
      <3>3. Alive' = Alive /\ \A m : Tells(m)' = Tells(m)
        BY <1>1, <3>1 DEF Alive, clientVars, Tells
      <3>4. Agreeing'
        BY <1>1, <2>3, <3>1, <3>3 DEF Agreeing, clientVars
      <3>5. InTime => InTime'
        BY <1>1, <2>3, <3>1, <3>3 DEF InTime, clientVars
      <3> QED
        BY <3>2, <3>4, <3>5
    <2> QED
      BY <1>2, <2>1, <2>2, <2>3 DEF SetEnabled
  <1>3. ASSUME NEW t \in Timeouts, SetTimeout(t)
        PROVE  KeepaliveType' /\ Agreeing' /\ (InTime /\ ~Late => InTime')
    <2>1. timeout' = t /\ UNCHANGED enabled /\ enabled \in BOOLEAN
          /\ (enabled /\ ~Late => clientSince <= t)
      BY <1>3 DEF SetTimeout, KeepaliveType
    <2>2. CASE enabled
      BY <1>1, <1>3, <2>1, <2>2, EnableInv DEF SetTimeout
    <2>3. CASE ~enabled
      BY <1>1, <1>3, <2>1, <2>3, DisableInv DEF SetTimeout
    <2> QED
      BY <2>2, <2>3
  <1> QED
    BY <1>2, <1>3 DEF SetTimeoutProperty

\* A ping is sent, or was not: it tells nothing of the time-out.
LEMMA PingAgrees ==
  ASSUME KeepaliveType, Agreeing, toClient' = Append(toClient, Ping),
         UNCHANGED <<network, socket, instance, enabled, timeout, serverTimer, clientTimer, clientTimeout>>
  PROVE  toClient' \in Seq(ToClient) /\ Agreeing'
  <1>1. Ping \in ToClient /\ IsPing(Ping) /\ Ping.name # "enableTimeout" /\ toClient \in Seq(ToClient)
    BY DEF ToClient, Ping, IsPing, KeepaliveType
  <1> SUFFICES ASSUME Alive' PROVE Agreeing' /\ toClient' \in Seq(ToClient)
    BY <1>1, Appended DEF Agreeing
  <1>2. Alive
    BY DEF Alive
  <1>3. DOMAIN toClient \subseteq DOMAIN toClient'
        /\ (\A i \in DOMAIN toClient : toClient'[i] = toClient[i])
        /\ (\A j \in DOMAIN toClient' : j \in DOMAIN toClient \/ IsPing(toClient'[j]))
    BY <1>1, Appended
  <1>4. ASSUME NEW i \in DOMAIN toClient, Tells(toClient[i]),
               \A j \in DOMAIN toClient : j > i => IsPing(toClient[j])
        PROVE  Agreeing'
    <2>1. i \in DOMAIN toClient' /\ Tells(toClient[i])'
      BY <1>3, <1>4 DEF Tells
    <2>2. \A j \in DOMAIN toClient' : j > i => IsPing(toClient'[j])
      BY <1>3, <1>4
    <2> QED
      BY <2>1, <2>2, <1>2 DEF Agreeing
  <1>5. ASSUME \A j \in DOMAIN toClient : IsPing(toClient[j]),
               clientTimer = enabled /\ (enabled => clientTimeout = timeout)
        PROVE  Agreeing'
    BY <1>2, <1>3, <1>5 DEF Agreeing
  <1> QED
    BY <1>1, <1>2, <1>4, <1>5, Appended DEF Agreeing

LEMMA ServerTimerInv ==
  ASSUME KeepaliveType, Agreeing, ServerTimer
  PROVE  KeepaliveType' /\ Agreeing' /\ (InTime => InTime')
  <1>1. UNCHANGED <<network, enabled, timeout, serverTimer, serverSince, clientVars, toServer,
                    instance, wrong>>
        /\ fired' = fired \cup {"server"}
    BY DEF ServerTimer, ServerPing
  <1>2. CASE UNCHANGED toClient /\ (network # "up" \/ serverSince > timeout)
    <2>1. KeepaliveType'
      BY <1>1, <1>2 DEF KeepaliveType, clientVars
    <2>4. Alive' = Alive /\ \A m : Tells(m)' = Tells(m)
      BY <1>1 DEF Alive, clientVars, Tells
    <2>3. Agreeing'
      BY <1>1, <1>2, <2>4 DEF Agreeing, clientVars
    <2>2. ASSUME Alive, InTime PROVE ~enabled
      BY <1>2, <2>2, KeepaliveAssumption DEF Alive, InTime, KeepaliveType
    <2> QED
      BY <1>1, <1>2, <2>1, <2>2, <2>3, <2>4 DEF InTime, clientVars
  <1>3. CASE toClient' = Append(toClient, Ping)
    <2>1. toClient' \in Seq(ToClient) /\ Agreeing'
      BY <1>1, <1>3, PingAgrees DEF clientVars
    <2>4. KeepaliveType'
      BY <1>1, <2>1 DEF KeepaliveType, clientVars
    <2>2. Ping \in ToClient /\ IsPing(Ping) /\ Ping.name # "enableTimeout" /\ toClient \in Seq(ToClient)
      BY DEF ToClient, Ping, IsPing, KeepaliveType
    <2>3. Len(toClient) + 1 \in DOMAIN toClient' /\ IsPing(toClient'[Len(toClient) + 1])
          /\ \A i \in DOMAIN toClient' :
               toClient'[i].name = "enableTimeout" =>
                 i \in DOMAIN toClient /\ toClient'[i] = toClient[i]
      BY <1>3, <2>2, Appended
    <2> QED
      BY <1>1, <2>1, <2>3, <2>4 DEF InTime, Alive, clientVars
  <1> QED
    BY <1>2, <1>3 DEF ServerTimer, ServerPing, Sent
\* The instance reads a ping, or ends.
LEMMA InstanceInv ==
  ASSUME KeepaliveType, Agreeing, ServerReads \/ InstanceEnds
  PROVE  KeepaliveType' /\ Agreeing' /\ (InTime => InTime')
  <1>1. CASE ServerReads
    <2>1. UNCHANGED <<network, enabled, timeout, serverTimer, instance, clientVars, toClient, fired, wrong>>
          /\ toServer # <<>> /\ toServer' = Tail(toServer) /\ serverSince' = 0
      BY <1>1 DEF ServerReads
    <2>2. toServer' \in Seq({Ping}) /\ timeout \in Nat
      BY <2>1, TakenOff, KeepaliveAssumption DEF KeepaliveType
    <2>3. KeepaliveType'
      BY <2>1, <2>2 DEF KeepaliveType, clientVars
    <2>4. Alive' = Alive /\ \A m : Tells(m)' = Tells(m)
      BY <2>1 DEF Alive, clientVars, Tells
    <2>5. Agreeing'
      BY <2>1, <2>4 DEF Agreeing, clientVars
    <2>6. InTime => InTime'
      BY <2>1, <2>2, <2>4 DEF InTime, clientVars
    <2> QED
      BY <2>3, <2>5, <2>6
  <1>2. CASE InstanceEnds
    <2>1. ~Alive' /\ wrong' = wrong
      BY <1>2 DEF InstanceEnds, Alive
    <2>2. KeepaliveType'
      BY <1>2 DEF InstanceEnds, KeepaliveType, clientVars
    <2> QED
      BY <2>1, <2>2 DEF Agreeing, InTime
  <1> QED
    BY <1>1, <1>2

\* The client's timer: it gives up only on one that it has not heard from.
LEMMA ClientTimerInv ==
  ASSUME KeepaliveType, Agreeing, ClientTimer
  PROVE  KeepaliveType' /\ Agreeing' /\ (InTime => InTime')
  <1>1. /\ UNCHANGED <<network, serverVars, clientTimeout, clientSince, toClient>>
        /\ fired' = fired \cup {"client"} /\ clientTimer /\ socket # "unconnected"
    BY DEF ClientTimer
  <1>2. CASE clientSince > clientTimeout
    <2>1. /\ socket' = IF network = "up" THEN "unconnected" ELSE "closing"
          /\ clientTimer' = (network # "up")
          /\ wrong' = (wrong \/ (network = "up" /\ instance)) /\ UNCHANGED toServer
      BY <1>2 DEF ClientTimer, ClientPing
    <2>2. ~Alive'
      BY <2>1 DEF Alive
    <2>3. KeepaliveType'
      BY <1>1, <2>1 DEF KeepaliveType, serverVars
    <2>4. ASSUME InTime PROVE ~wrong'
      <3>1. network = "up" /\ instance => Alive
        BY <1>1 DEF Alive, KeepaliveType
      <3>2. ~Alive
        <4>1. clientSince \in Nat /\ clientTimeout \in Nat
          BY KeepaliveAssumption DEF KeepaliveType
        <4> QED
          BY <1>1, <1>2, <2>4, <4>1 DEF InTime
      <3> QED
        BY <2>1, <2>4, <3>1, <3>2 DEF InTime
    <2> QED
      BY <2>2, <2>3, <2>4 DEF Agreeing, InTime
  <1>3. CASE ~(clientSince > clientTimeout)
    <2>1. toServer' = (IF network = "up" THEN Append(toServer, Ping) ELSE toServer)
          /\ UNCHANGED <<socket, clientTimer, wrong>>
      BY <1>3 DEF ClientTimer, ClientPing, Sent
    <2>2. toServer' \in Seq({Ping}) /\ (network = "up" => toServer' # <<>>)
      BY <2>1 DEF KeepaliveType
    <2>3. KeepaliveType'
      BY <1>1, <2>1, <2>2 DEF KeepaliveType, serverVars
    <2>4. Alive' = Alive /\ \A m : Tells(m)' = Tells(m)
      BY <1>1, <2>1 DEF Alive, serverVars, Tells
    <2>5. Agreeing'
      BY <1>1, <2>1, <2>4 DEF Agreeing, serverVars
    <2>6. InTime => InTime'
      BY <1>1, <2>1, <2>2, <2>4 DEF InTime, serverVars, Alive
    <2> QED
      BY <2>3, <2>5, <2>6
  <1> QED
    BY <1>2, <1>3

\* The client reads what is first in its queue.
LEMMA ClientReadsInv ==
  ASSUME KeepaliveType, Agreeing, ClientReads
  PROVE  KeepaliveType' /\ Agreeing' /\ (InTime => InTime')
  <1> DEFINE m == toClient[1]
  <1>1. /\ UNCHANGED <<network, serverVars, socket, toServer, wrong>>
        /\ toClient # <<>> /\ toClient' = Tail(toClient) /\ ClientFunction(Head(toClient))
    BY DEF ClientReads
  <1>2. toClient \in Seq(ToClient)
    BY DEF KeepaliveType
  <1>3. /\ toClient' \in Seq(ToClient) /\ Head(toClient) = m /\ 1 \in DOMAIN toClient
        /\ \A i \in DOMAIN toClient' : i + 1 \in DOMAIN toClient /\ toClient'[i] = toClient[i + 1] /\ i \in Nat
        /\ \A i \in DOMAIN toClient : i = 1 \/ (i - 1 \in DOMAIN toClient' /\ toClient'[i - 1] = toClient[i])
    BY <1>1, <1>2, TakenOff
  <1>4. m \in ToClient
    BY <1>2, <1>3
  <1>5. \/ /\ m.name = "ping" /\ clientSince' = 0 /\ UNCHANGED <<clientTimer, clientTimeout, fired>>
        \/ /\ m.name = "enableTimeout" /\ clientTimeout' = m.timeout /\ clientTimer' = TRUE
           /\ m.timeout \in Timeouts
           /\ fired' = fired \ {"client"} /\ UNCHANGED clientSince
        \/ /\ m.name = "disableTimeout"
           /\ clientTimer' = FALSE /\ UNCHANGED <<clientTimeout, clientSince, fired>>
    BY <1>1, <1>3, <1>4 DEF ClientFunction, ToClient
  <1>6. clientSince' \in {0, clientSince} /\ fired' \subseteq fired
    BY <1>5
  <1>7. KeepaliveType'
    <2>1. clientSince' \in Nat
      BY <1>6 DEF KeepaliveType
    <2>4. fired' \in SUBSET {"server", "client"}
      BY <1>6 DEF KeepaliveType
    <2>2. clientTimer' \in BOOLEAN /\ clientTimeout' \in Timeouts \cup {0}
          /\ (clientTimer' => clientTimeout' \in Timeouts)
      <3>1. clientTimer \in BOOLEAN /\ clientTimeout \in Timeouts \cup {0}
            /\ (clientTimer => clientTimeout \in Timeouts)
        BY DEF KeepaliveType
      <3>2. CASE m.name = "ping"
        BY <1>5, <3>1, <3>2
      <3>3. CASE m.name = "enableTimeout"
        BY <1>5, <3>1, <3>3
      <3>4. CASE m.name = "disableTimeout"
        BY <1>5, <3>1, <3>4
      <3> QED
        BY <1>5, <3>2, <3>3, <3>4
    <2>3. toClient' \in Seq(ToClient)
      BY <1>3
    <2> QED
      BY <1>1, <2>1, <2>2, <2>3, <2>4 DEF KeepaliveType, serverVars
  <1>8. Alive' = Alive /\ \A x : Tells(x)' = Tells(x)
    BY <1>1 DEF Alive, serverVars, Tells
  <1> HIDE DEF m
  <1>9. Agreeing'
    <2> SUFFICES ASSUME Alive' PROVE Agreeing'
      BY DEF Agreeing
    <2>1. enabled' => serverTimer'
      BY <1>1, <1>8 DEF Agreeing, serverVars
    <2>2. CASE \A j \in DOMAIN toClient' : IsPing(toClient'[j])
      <3>1. \A j \in DOMAIN toClient : j = 1 \/ IsPing(toClient[j])
        BY <1>3, <2>2
      <3>2. CASE IsPing(m)
        BY <1>1, <1>3, <1>5, <1>8, <2>1, <2>2, <3>1, <3>2 DEF Agreeing, IsPing, Tells, m, serverVars
      <3>3. CASE ~IsPing(m)
        <4>1. Tells(m)
          BY <1>3, <1>8, <3>1, <3>3 DEF Agreeing, m, IsPing, Tells
        <4> QED
          BY <1>1, <1>5, <2>1, <2>2, <3>3, <4>1 DEF Agreeing, IsPing, Tells, serverVars, KeepaliveType
      <3> QED
        BY <3>2, <3>3
    <2>3. ASSUME NEW k \in DOMAIN toClient', ~IsPing(toClient'[k])
          PROVE  Agreeing'
      <3>1. PICK i \in DOMAIN toClient :
              Tells(toClient[i]) /\ \A j \in DOMAIN toClient : j > i => IsPing(toClient[j])
        BY <1>3, <1>8, <2>3 DEF Agreeing
      <3>2. i # 1
        BY <1>3, <2>3, <3>1
      <3>3. i - 1 \in DOMAIN toClient' /\ toClient'[i - 1] = toClient[i] /\ i \in Nat
        <4>1. i \in Nat
          BY <1>2
        <4> QED
          BY <1>3, <3>2, <4>1
      <3>4. \A j \in DOMAIN toClient' : j > i - 1 => IsPing(toClient'[j])
        BY <1>3, <3>1, <3>3
      <3>5. Tells(toClient[i - 1])'
        BY <1>1, <3>1, <3>3 DEF Tells, serverVars
      <3> QED
        BY <2>1, <3>3, <3>4, <3>5 DEF Agreeing
    <2> QED
      BY <2>2, <2>3
  <1>10. ASSUME InTime PROVE InTime'
    <2> SUFFICES ASSUME Alive' PROVE InTime'
      BY <1>1, <1>10 DEF InTime
    <2>1. clientTimer' => clientSince' <= clientTimeout'
      <3>1. clientSince \in Nat /\ clientTimeout \in Nat
        BY KeepaliveAssumption DEF KeepaliveType
      <3>2. clientTimer => clientSince <= clientTimeout
        BY <1>8, <1>10 DEF InTime
      <3>3. m.name = "enableTimeout" => clientSince <= m.timeout
        BY <1>3, <1>8, <1>10 DEF InTime, m
      <3> QED
        <4>1. m.timeout \in Timeouts => m.timeout \in Nat
          BY KeepaliveAssumption
        <4>2. CASE m.name = "ping"
          BY <1>5, <3>1, <3>2, <4>2
        <4>3. CASE m.name = "enableTimeout"
          BY <1>5, <3>1, <3>3, <4>1, <4>3
        <4>4. CASE m.name = "disableTimeout"
          BY <1>5, <4>4
        <4> QED
          BY <1>5, <4>2, <4>3, <4>4
    <2>2. \A i \in DOMAIN toClient' :
            toClient'[i].name = "enableTimeout" => clientSince' <= toClient'[i].timeout
      <3> SUFFICES ASSUME NEW i \in DOMAIN toClient', toClient'[i].name = "enableTimeout"
                   PROVE  clientSince' <= toClient'[i].timeout
        OBVIOUS
      <3>1. clientSince <= toClient'[i].timeout
        BY <1>3, <1>8, <1>10 DEF InTime
      <3>2. toClient'[i].timeout \in Nat
        <4>1. toClient'[i] \in ToClient /\ toClient'[i].name = "enableTimeout"
          BY <1>3
        <4>2. toClient'[i].timeout \in Timeouts
          BY <4>1 DEF ToClient
        <4> QED
          BY <4>2, KeepaliveAssumption
      <3> QED
        BY <3>1, <3>2, <1>6 DEF KeepaliveType
    <2>3. enabled' /\ "server" \in fired' =>
            clientSince' = 0 \/ \E i \in DOMAIN toClient' : IsPing(toClient'[i])
      <3> SUFFICES ASSUME enabled', "server" \in fired', clientSince' # 0
                   PROVE  \E i \in DOMAIN toClient' : IsPing(toClient'[i])
        OBVIOUS
      <3>1. PICK i \in DOMAIN toClient : IsPing(toClient[i])
        BY <1>1, <1>6, <1>8, <1>10 DEF InTime, serverVars
      <3>2. i # 1
        BY <1>5, <3>1 DEF IsPing, m
      <3> QED
        BY <1>3, <3>1, <3>2
    <2>4. clientTimer' /\ "client" \in fired' => serverSince' = 0 \/ toServer' # <<>>
      BY <1>1, <1>5, <1>6, <1>8, <1>10 DEF InTime, serverVars
    <2> QED
      BY <1>1, <1>8, <1>10, <2>1, <2>2, <2>3, <2>4 DEF InTime, serverVars
  <1> QED
    BY <1>7, <1>9, <1>10

\* The network is down from now on.
LEMMA BreakInv ==
  ASSUME KeepaliveType, Agreeing, Break
  PROVE  KeepaliveType' /\ Agreeing' /\ (InTime => InTime')
  <1>1. toClient' \in Seq(ToClient) /\ toServer' \in Seq({Ping})
    BY DEF Break
  <1>2. KeepaliveType'
    BY <1>1 DEF Break, KeepaliveType, serverVars, clientVars
  <1>3. ~Alive' /\ wrong' = wrong
    BY DEF Break, Alive
  <1> QED
    BY <1>2, <1>3 DEF Agreeing, InTime

\* Over a second, each end has heard from the other in it: it was pinged, and has
\* read that.
LEMMA SecondInv ==
  ASSUME KeepaliveType, Agreeing, Second
  PROVE  KeepaliveType' /\ Agreeing' /\ (InTime => InTime')
  <1>1. /\ UNCHANGED <<network, enabled, timeout, serverTimer, instance, clientTimer, clientTimeout,
                       socket, toClient, toServer, wrong>>
        /\ serverSince' = Older(serverSince) /\ clientSince' = Older(clientSince) /\ fired' = {}
    BY DEF Second
  <1>2. serverSince' \in Nat /\ clientSince' \in Nat
    BY <1>1 DEF KeepaliveType, Older
  <1>3. KeepaliveType'
    BY <1>1, <1>2 DEF KeepaliveType
  <1>4. Alive' = Alive /\ \A m : Tells(m)' = Tells(m)
    BY <1>1 DEF Alive, Tells
  <1>5. Agreeing'
    BY <1>1, <1>4 DEF Agreeing
  <1>6. ASSUME InTime PROVE InTime'
    <2> SUFFICES ASSUME Alive' PROVE InTime'
      BY <1>1, <1>6 DEF InTime
    <2>1. /\ toServer = <<>> /\ toClient = <<>> /\ DOMAIN toClient = {}
          /\ (serverTimer => "server" \in fired) /\ (clientTimer => "client" \in fired)
      BY <1>4 DEF Second, Alive
    <2>2. clientTimer = enabled /\ (enabled => clientTimeout = timeout /\ serverTimer)
      BY <1>4, <2>1 DEF Agreeing
    <2>3. enabled => clientSince = 0 /\ serverSince = 0
      BY <1>4, <1>6, <2>1, <2>2 DEF InTime
    <2>4. enabled => clientSince' <= 1 /\ serverSince' <= 1
      BY <1>1, <2>3 DEF Older
    <2>5. timeout >= 1 /\ timeout \in Nat
      BY KeepaliveAssumption DEF KeepaliveType
    <2> QED
      BY <1>1, <1>2, <1>6, <2>1, <2>2, <2>4, <2>5 DEF InTime
  <1> QED
    BY <1>3, <1>5, <1>6

LEMMA KeepaliveStep_Inv ==
  ASSUME KeepaliveType, Agreeing, [KeepaliveNext]_keepaliveVars
  PROVE  KeepaliveType' /\ Agreeing' /\ (InTime /\ ~Late => InTime')
  <1>1. CASE UNCHANGED keepaliveVars
    BY <1>1 DEF keepaliveVars, serverVars, clientVars, KeepaliveType, Agreeing, InTime, Alive, Tells
  <1> QED
    BY <1>1, SetPropertyInv, ServerTimerInv, InstanceInv, ClientTimerInv, ClientReadsInv, SecondInv,
       BreakInv DEF KeepaliveNext, EndsStep
-----------------------------------------------------------------------------
(* The theorems.                                                            *)

\* An instance is given the ssl mode and the certificate that were in force
\* together at one moment since its connection came in
\* (ServerProtocolListenerTcp::incomingConnection() and its two setters).
THEOREM ModeAndCertificateTogether == EndpointsSpec => []FutureOnly
  <1>1. EndpointsInit => ListenerInv
    BY ListenerInit_Inv DEF EndpointsInit
  <1>2. ListenerInv /\ [EndpointsNext]_partsVars => ListenerInv'
    BY PartSteps, ListenerStep_Inv
  <1> QED
    BY <1>1, <1>2, ListenerInv_FutureOnly, PTL DEF EndpointsSpec

\* Whoever has the bus of a ClientProtocolThread finds its protocol object
\* handed over, and what copy() of an AuthToken leaves is what the other token
\* held at one moment, however many threads call either.
THEOREM HandedOverInOnePiece == EndpointsSpec => []HandedOverWhole
  <1>1. EndpointsInit => ThreadInv /\ TokenInv
    BY ThreadInit_Inv, TokenInit_Inv DEF EndpointsInit
  <1>2. ThreadInv /\ TokenInv /\ [EndpointsNext]_partsVars => (ThreadInv /\ TokenInv)'
    BY PartSteps, ThreadStep_Inv, TokenStep_Inv
  <1>3. ThreadInv /\ TokenInv => HandedOverWhole
    BY ThreadInv_HandedOver, TokenInv_CopiedWhole DEF HandedOverWhole
  <1> QED
    BY <1>1, <1>2, <1>3, PTL DEF EndpointsSpec

\* However the children of the server exit, crash, are stopped and continued, no
\* more stay zombies than signals merged, and its handler of SIGCHLD waits for
\* a child no more often than one was stopped or continued; and avahi is told of
\* the event its watch was set to when that happened.
THEOREM CallbacksToldTrue == EndpointsSpec => []CallbacksSound
  <1>1. EndpointsInit => ForkInv /\ PollInv
    BY ForkInit_Inv, PollInit_Inv DEF EndpointsInit
  <1>2. ForkInv /\ PollInv /\ [EndpointsNext]_partsVars => (ForkInv /\ PollInv)'
    BY PartSteps, ForkStep_Inv, PollStep_Inv
  <1>3. ForkInv /\ PollInv => CallbacksSound
    BY DEF ForkInv, PollInv, CallbacksSound
  <1> QED
    BY <1>1, <1>2, <1>3, PTL DEF EndpointsSpec

\* Of the servers that come and go under one file, the one that listens beside
\* no other is reached; and listen() fails only where the system forbids it, or
\* where another server was bound between its look at the file and its bind().
THEOREM LastServerReached == EndpointsSpec => []SocketReachable
  <1>1. EndpointsInit => SocketInv
    BY SocketInit_Inv DEF EndpointsInit
  <1>2. SocketInv /\ [EndpointsNext]_partsVars => SocketInv'
    BY PartSteps, SocketStep_Inv
  <1>3. SocketInv => SocketReachable
    BY DEF SocketInv
  <1> QED
    BY <1>1, <1>2, <1>3, PTL DEF EndpointsSpec

\* With nothing under way both ends of a tcp connection know the same time-out,
\* whenever the service enables it.
THEOREM TimeoutKnown == EndpointsSpec => []TimeoutAgreed
  <1>1. EndpointsInit => KeepaliveType /\ Agreeing
    BY KeepaliveInit_Inv DEF EndpointsInit, KeepaliveInv
  <1>2. KeepaliveType /\ Agreeing /\ [EndpointsNext]_partsVars => (KeepaliveType /\ Agreeing)'
    BY PartSteps, KeepaliveStep_Inv
  <1> QED
    BY <1>1, <1>2, Agreeing_Agreed, PTL DEF EndpointsSpec

\* Neither end gives up on one that is there, whatever the time-outs and however
\* often they are set, as long as the service does not enable one that the
\* client's lastPing is too old for already.
THEOREM NobodyGivenUp == ~Late => (EndpointsSpec => []KeptAlive)
  <1> SUFFICES ASSUME ~Late PROVE EndpointsSpec => []KeptAlive
    OBVIOUS
  <1>1. EndpointsInit => KeepaliveInv
    BY KeepaliveInit_Inv DEF EndpointsInit
  <1>2. KeepaliveInv /\ [EndpointsNext]_partsVars => KeepaliveInv'
    BY PartSteps, KeepaliveStep_Inv DEF KeepaliveInv
  <1>3. KeepaliveInv => KeptAlive
    BY Agreeing_Agreed DEF KeepaliveInv, KeptAlive, InTime, OnlyTheDead
  <1> QED
    BY <1>1, <1>2, <1>3, PTL DEF EndpointsSpec
=============================================================================
