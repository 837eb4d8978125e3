----------------------------- MODULE ServerPool -----------------------------
(***************************************************************************)
(* Server and its threads: requestThread() places the instance of every    *)
(* accepted connection (ServerProtocolListenerBase::prepareInstance), its  *)
(* destroyed() signal gives the place back (Server::removeService), under  *)
(* each of the four threading models.  Instances stands for the slots a    *)
(* connection can take: a slot is taken again once its instance is gone.   *)
(***************************************************************************)
EXTENDS Integers, FiniteSets

CONSTANTS
  Instances,   \* the connections that can exist at a time
  ThreadTypes, \* the threading models a Server is made with (Server::ThreadType)
  Threads      \* threadCount: how many threads the pool has

ASSUME InstancesAssumption == IsFiniteSet(Instances)
ASSUME ThreadTypesAssumption ==
  ThreadTypes \subseteq {"SingleThread", "ThreadPool", "ThreadPerInstance", "ProcessPerInstance"}
ASSUME ThreadsAssumption == Threads \in Nat \ {0}

VARIABLES
  threadType,    \* the Server's threading model: never changes
  threadCount,   \* the count of each thread of the pool
  stage,         \* each instance: "free", "placed" (init() is queued), "live", "closing"
                 \* (deleteLater() was called)
  home,          \* the thread it was moved to: of the pool, or Own, or the Server's
  running,       \* instances whose own thread runs
  quitting       \* instances whose own thread has a quit() queued

vars == <<threadType, threadCount, stage, home, running, quitting>>

Pool   == 0 .. Threads - 1
Main   == -1    \* the thread the Server lives in
Own    == -2    \* a thread of the instance's own
Absent == -3    \* no thread: there is no instance
Homes  == Pool \cup {Main, Own, Absent}

Init ==
  /\ threadType \in ThreadTypes
  /\ threadCount = [t \in Pool |-> 0]
  /\ stage = [i \in Instances |-> "free"]
  /\ home = [i \in Instances |-> Absent]
  /\ running = {} /\ quitting = {}

Idle  == {t \in Pool : threadCount[t] = 0}
Below == {t \in Pool : threadCount[t] < threadCount[0]}

\* Mutant: the counts are compared the wrong way round.
Chosen_Above(t) ==
  LET above == {u \in Pool : threadCount[u] > threadCount[0]} IN
  \/ t \in Idle /\ \A u \in Idle : t <= u
  \/ Idle = {} /\ t \in above /\ \A u \in above : u <= t
  \/ Idle = {} /\ above = {} /\ t = 0

\* ThreadPool's choice: the first idle thread; else, lowest staying what it
\* was, the last one below threadCount[0]; else thread 0.
Chosen(t) ==
  \/ t \in Idle /\ \A u \in Idle : t <= u
  \/ Idle = {} /\ t \in Below /\ \A u \in Below : u <= t
  \/ Idle = {} /\ Below = {} /\ t = 0

-----------------------------------------------------------------------------
(* prepareInstance() of an accepted connection, up to the queued init().    *)

Place(i, t) ==
  /\ stage[i] = "free" /\ i \notin running
  /\ stage' = [stage EXCEPT ![i] = "placed"]
  /\ home' = [home EXCEPT ![i] = t]

PrepareSingle(i) ==
  /\ threadType = "SingleThread"
  /\ Place(i, Main)
  /\ UNCHANGED <<threadType, threadCount, running, quitting>>

PreparePooled(i) ==
  /\ threadType = "ThreadPool"
  /\ \E t \in Pool :
       /\ Chosen(t)
       /\ threadCount' = [threadCount EXCEPT ![t] = @ + 1]
       /\ Place(i, t)
  /\ UNCHANGED <<threadType, running, quitting>>

PrepareOwn(i) ==
  /\ threadType = "ThreadPerInstance"
  /\ Place(i, Own)
  /\ running' = running \cup {i}
  /\ UNCHANGED <<threadType, threadCount, quitting>>

\* The connection is another process's from here on, if fork() worked; the
\* instance is only deleted.
PrepareForked(i) ==
  /\ threadType = "ProcessPerInstance"
  /\ stage[i] = "free"
  /\ stage' = [stage EXCEPT ![i] = "closing"]
  /\ home' = [home EXCEPT ![i] = Main]
  /\ UNCHANGED <<threadType, threadCount, running, quitting>>

Prepare(i) == PrepareSingle(i) \/ PreparePooled(i) \/ PrepareOwn(i) \/ PrepareForked(i)

-----------------------------------------------------------------------------
(* The instance, on its thread.                                             *)

InitInstance(i) ==
  /\ stage[i] = "placed"
  /\ stage' = [stage EXCEPT ![i] = "live"]
  /\ UNCHANGED <<threadType, threadCount, home, running, quitting>>

\* Mutant: the thread is told to quit by the disconnection.
Disconnect_Quits(i) ==
  /\ stage[i] = "live"
  /\ stage' = [stage EXCEPT ![i] = "closing"]
  /\ quitting' = IF threadType = "ThreadPerInstance" THEN quitting \cup {i} ELSE quitting
  /\ UNCHANGED <<threadType, threadCount, home, running>>

\* disconnect(): because the client went away or a time-out.
Disconnect(i) ==
  /\ stage[i] = "live"
  /\ stage' = [stage EXCEPT ![i] = "closing"]
  /\ UNCHANGED <<threadType, threadCount, home, running, quitting>>
\* removeService(), called directly on the thread the instance dies on.
RemoveService(t) == threadCount' = [threadCount EXCEPT ![t] = @ - 1]

\* Mutant: destroyed() is not connected to removeService().
Destroyed_Keeps(i) ==
  /\ stage[i] = "closing"
  /\ stage' = [stage EXCEPT ![i] = "free"]
  /\ home' = [home EXCEPT ![i] = Absent]
  /\ quitting' = IF threadType = "ThreadPerInstance" THEN quitting \cup {i} ELSE quitting
  /\ UNCHANGED <<threadType, threadCount, running>>

\* The deferred deletion, and what destroyed() is connected to.
Destroyed(i) ==
  /\ stage[i] = "closing"
  /\ stage' = [stage EXCEPT ![i] = "free"]
  /\ home' = [home EXCEPT ![i] = Absent]
  /\ IF threadType = "ThreadPool" THEN RemoveService(home[i]) ELSE UNCHANGED threadCount
  /\ quitting' = IF threadType = "ThreadPerInstance" THEN quitting \cup {i} ELSE quitting
  /\ UNCHANGED <<threadType, running>>
\* The Server's thread handles quit(); the thread's event loop returns.
ThreadQuits(i) ==
  /\ i \in quitting
  /\ quitting' = quitting \ {i}
  /\ running' = running \ {i}
  /\ UNCHANGED <<threadType, threadCount, stage, home>>

Next == \E i \in Instances :
  Prepare(i) \/ InitInstance(i) \/ Disconnect(i) \/ Destroyed(i) \/ ThreadQuits(i)

Spec == Init /\ [][Next]_vars

\* Every event loop gets round to what is queued in it: deletions and quit().
PoolFairness ==
  \A i \in Instances : WF_vars(Destroyed(i) \/ ThreadQuits(i))

-----------------------------------------------------------------------------
(* Properties.                                                              *)

\* Every variable has its type; no thread's count is ever negative.
TypeOK ==
  /\ threadType \in ThreadTypes
  /\ threadCount \in [Pool -> Nat]
  /\ stage \in [Instances -> {"free", "placed", "live", "closing"}]
  /\ home \in [Instances -> Homes]
  /\ running \in SUBSET Instances
  /\ quitting \in SUBSET Instances

On(t) == {i \in Instances : home[i] = t}

\* The count of a thread is the number of instances that live on it, from the
\* moment one is placed until it is gone.
CountsLive == \A t \in Pool : threadCount[t] = Cardinality(On(t))

\* An instance lives on a thread of the kind the threading model says, and the
\* thread it lives on runs; a quit() is only queued for a thread without one.
HomeRuns ==
  \A i \in Instances :
    /\ home[i] = Absent <=> stage[i] = "free"
    /\ home[i] \in Pool <=> threadType = "ThreadPool" /\ stage[i] # "free"
    /\ home[i] = Own <=> threadType = "ThreadPerInstance" /\ stage[i] # "free"
    /\ home[i] = Own => i \in running /\ i \notin quitting
    /\ i \in running <=> home[i] = Own \/ i \in quitting

\* A new instance goes to an idle thread while there is one.
IdleFirst ==
  [][\A t \in Pool : threadCount'[t] > threadCount[t] /\ threadCount[t] # 0 => Idle = {}]_vars

\* A new instance never goes to a thread that has more instances than some
\* thread and as many as any: the choice is not the least, but never the worst.
NeverBusiest ==
  [][\A t \in Pool : threadCount'[t] > threadCount[t] =>
       \/ \A u \in Pool : threadCount[t] <= threadCount[u]
       \/ \E u \in Pool : threadCount[t] < threadCount[u]]_vars

\* The choice of requestThread(), as far as it can be relied on.
Placed == IdleFirst /\ NeverBusiest

\* The thread of an instance that is gone ends.
ThreadsEnd == \A i \in Instances : stage[i] = "closing" ~> i \notin running
=============================================================================
