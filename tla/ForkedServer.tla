---------------------------- MODULE ForkedServer ----------------------------
(***************************************************************************)
(* ProcessPerInstance: the server forks for each connection and gives the  *)
(* descriptor away; the child, started again as FORK_PROCESS, serves it    *)
(* from ServerProtocolListenerProcess::listen() and exits with it.  The    *)
(* server reaps its children in a handler of SIGCHLD (cleanChildren),      *)
(* which is raised for a child that is stopped or continued, too.          *)
(***************************************************************************)
EXTENDS Naturals, FiniteSets

CONSTANTS
  Peers,      \* connections of clients
  Configs,      \* ssl mode and certificate a child is configured with before listen()
  MaxStops      \* bound: how often children are stopped or continued

ASSUME PeersAssumption == IsFiniteSet(Peers)

VARIABLES
  accepted,    \* connections the listener took
  descriptors, \* who has a connection open: "server", "child" (inherited), "dup" (the child's own)
  child,       \* the process of each connection
  configured,  \* the settings of the child's listener, and those of its instance
  stopped,     \* children that are stopped: they do not run, but can be killed
  sigchld,     \* SIGCHLD is pending; it is not queued
  reaping,     \* the handler is in its waitpid()
  spurious,    \* history: how often it was raised for a child that did not exit
  merged,      \* history: and raised by an exit while it was pending
  unforked     \* fork() failed for these

signalVars == <<stopped, sigchld, reaping, spurious, merged>>
processVars == <<accepted, descriptors, configured, unforked>>
forkVars == <<processVars, child, signalVars>>

ForkInit ==
  /\ accepted = {} /\ unforked = {}
  /\ descriptors = [p \in Peers |-> {}]
  /\ child = [p \in Peers |-> "none"]
  /\ configured \in [Peers -> [listener : Configs, instance : {"none"}]]
  /\ stopped = {} /\ sigchld = FALSE /\ reaping = FALSE
  /\ spurious = 0 /\ merged = 0

Zombies == {p \in Peers : child[p] = "zombie"}
Living == {p \in Peers : child[p] \in {"forked", "serving", "quit"}}
Runs(p) == p \notin stopped
Ended(p) == p \in accepted /\ descriptors[p] = {}

\* fork() fails: the error is written, the descriptor stays open.
ForkFails(p) ==
  /\ p \notin accepted
  /\ accepted' = accepted \cup {p} /\ unforked' = unforked \cup {p}
  /\ descriptors' = [descriptors EXCEPT ![p] = {"server"}]
  /\ UNCHANGED <<child, configured, signalVars>>

\* The child has the descriptor and a dup() of it; the server closes its own.
Fork(p) ==
  /\ p \notin accepted
  /\ accepted' = accepted \cup {p}
  /\ descriptors' = [descriptors EXCEPT ![p] = {"child", "dup"}]
  /\ child' = [child EXCEPT ![p] = "forked"]
  /\ UNCHANGED <<configured, unforked, signalVars>>

\* A process that ends closes all it has open, and raises SIGCHLD.
Exits(p) ==
  /\ child' = [child EXCEPT ![p] = "zombie"]
  /\ descriptors' = [descriptors EXCEPT ![p] = @ \ {"child", "dup"}]
  /\ stopped' = stopped \ {p}
  /\ sigchld' = TRUE
  /\ merged' = IF sigchld THEN merged + 1 ELSE merged
  /\ UNCHANGED <<accepted, configured, unforked, reaping, spurious>>

\* qFatal() when execvp() fails
ExecFails(p) == child[p] = "forked" /\ Runs(p) /\ Exits(p)

\* It crashes or is killed, at any point.
Killed(p) == p \in Living /\ Exits(p)

\* Stopped, by a debugger or SIGSTOP, and continued: sigaction() was not told
\* SA_NOCLDSTOP.
StopOrContinue(p) ==
  /\ p \in Living /\ spurious < MaxStops
  /\ stopped' = IF Runs(p) THEN stopped \cup {p} ELSE stopped \ {p}
  /\ sigchld' = TRUE
  /\ spurious' = spurious + 1
  /\ UNCHANGED <<processVars, child, reaping, merged>>

\* listen() in the child: the instance, its properties, its thread
Listen(p) ==
  /\ child[p] = "forked" /\ Runs(p)
  /\ child' = [child EXCEPT ![p] = "serving"]
  /\ configured' = [configured EXCEPT ![p].instance = configured[p].listener]
  /\ UNCHANGED <<accepted, descriptors, unforked, signalVars>>

\* setSslMode(), setCertificate(): "must be called before" listen()
SetListener(p) ==
  /\ child[p] = "forked" /\ Runs(p)
  /\ \E s \in Configs : configured' = [configured EXCEPT ![p].listener = s]
  /\ UNCHANGED <<accepted, descriptors, child, unforked, signalVars>>

\* The instance is gone: destroyed() quits its thread.
ServingEnds(p) ==
  /\ child[p] = "serving" /\ Runs(p)
  /\ child' = [child EXCEPT ![p] = "quit"]
  /\ descriptors' = [descriptors EXCEPT ![p] = @ \ {"dup"}]
  /\ UNCHANGED <<accepted, configured, unforked, signalVars>>

\* listen() looks every 50 ms whether the thread still runs.
ChildExits(p) == child[p] = "quit" /\ Runs(p) /\ Exits(p)

\* handler(): it runs in whatever thread the signal finds, SIGCHLD held back.
HandlerRuns ==
  /\ sigchld /\ ~reaping
  /\ sigchld' = FALSE /\ reaping' = TRUE
  /\ UNCHANGED <<processVars, child, stopped, spurious, merged>>

\* Mutant: WNOHANG, and the child is left to the next.
HandlerReturns_NoReap ==
  /\ reaping
  /\ reaping' = FALSE
  /\ UNCHANGED <<processVars, child, stopped, sigchld, spurious, merged>>

\* waitpid(-1, NULL, 0) reaps one child.  It waits for one to exit as long as any
\* lives, and fails when there is none.
HandlerReturns ==
  /\ reaping
  /\ reaping' = FALSE
  /\ \/ \E p \in Zombies : child' = [child EXCEPT ![p] = "reaped"]
     \/ Zombies = {} /\ Living = {} /\ UNCHANGED child
  /\ UNCHANGED <<processVars, stopped, sigchld, spurious, merged>>

ChildRuns(p) == ExecFails(p) \/ Listen(p) \/ ChildExits(p)

ForkNext ==
  \/ \E p \in Peers :
       \/ ForkFails(p) \/ Fork(p) \/ ChildRuns(p) \/ SetListener(p) \/ ServingEnds(p)
       \/ Killed(p) \/ StopOrContinue(p)
  \/ HandlerRuns \/ HandlerReturns

ForkFairness == \A p \in Peers : WF_forkVars(ChildRuns(p))

-----------------------------------------------------------------------------
\* The connection of a child that stops serving ends, unless the child is stopped
\* for good: nobody else has it open.
ConnectionEnds == \A p \in Peers : (child[p] = "quit" ~> Ended(p)) \/ <>[](p \in stopped)

\* The deliveries of SIGCHLD that still have their waitpid() to do
Due == (IF sigchld THEN 1 ELSE 0) + (IF reaping THEN 1 ELSE 0)

\* A child that has exited stays a zombie, when the handler is through, only
\* where its signal met one that was pending; and the handler, which runs in
\* whatever thread the signal finds, waits for a child that has not exited only
\* after one was stopped or continued, no more often than that happened.
ReapedInTurn ==
  /\ Cardinality(Zombies) <= Due + merged
  /\ Due <= Cardinality(Zombies) + spurious
=============================================================================
