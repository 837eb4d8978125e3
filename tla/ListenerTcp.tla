---------------------------- MODULE ListenerTcp ----------------------------
(***************************************************************************)
(* ServerProtocolListenerTcp: incomingConnection() reads the ssl mode and  *)
(* the certificate, each behind a QReadWriteLock it locks twice, while     *)
(* setSslMode() and setCertificate() write them.  The locks are Qt's: not  *)
(* recursive, and a writer that waits keeps new readers out.               *)
(***************************************************************************)
EXTENDS Naturals, FiniteSets

CONSTANTS
  Setters,     \* calls of setSslMode() and setCertificate() at a time
  Values,      \* the values a setting can have
  Threadings   \* which cases: do the setters run on threads of their own
               \* (TRUE), or on the listener's (FALSE)?

ASSUME ListenerAssumption == Values # {} /\ Threadings \subseteq BOOLEAN

Settings == {"sslmode", "cert"}

VARIABLES
  threaded,  \* the case at hand: never changes
  setting,   \* the value of each setting
  readers,   \* how often each setting's lock is held for reading
  writer,    \* the setter that holds each lock for writing, or Nobody
  waiting,   \* the setters that wait for each lock
  setter,    \* each setter's call: which setting, which value, or Nothing
  pc,        \* where incomingConnection() is
  given,     \* what the instance it makes has been given
  inForce    \* history: the settings that were in force since it began

listenerVars == <<threaded, setting, readers, writer, waiting, setter, pc, given, inForce>>

Nobody  == "nobody"
Nothing == [of |-> "none"]

\* A thread that sets something is somebody.
ASSUME SettersAssumption == Nobody \notin Setters

ListenerInit ==
  /\ threaded \in Threadings
  /\ setting \in [Settings -> Values]
  /\ readers = [l \in Settings |-> 0]
  /\ writer = [l \in Settings |-> Nobody]
  /\ waiting = [l \in Settings |-> {}]
  /\ setter = [s \in Setters |-> Nothing]
  /\ pc = "idle"
  /\ given = setting
  /\ inForce = {}

-----------------------------------------------------------------------------
(* QReadWriteLock.                                                          *)

LockForRead(l) ==
  /\ writer[l] = Nobody /\ waiting[l] = {}
  /\ readers' = [readers EXCEPT ![l] = @ + 1]

Unlock(l) == readers' = [readers EXCEPT ![l] = @ - 1]

LockForWrite(s, l) ==
  /\ readers[l] = 0 /\ writer[l] = Nobody
  /\ writer' = [writer EXCEPT ![l] = s]
  /\ waiting' = [waiting EXCEPT ![l] = @ \ {s}]

-----------------------------------------------------------------------------
(* incomingConnection(): locker and locker2, then each setting behind a     *)
(* read lock of its own.                                                    *)

At(from, to) == pc = from /\ pc' = to

Enter ==
  /\ At("idle", "locker")
  /\ threaded \/ \A s \in Setters : setter[s] = Nothing
  /\ LockForRead("sslmode")
  /\ inForce' = {setting}
  /\ UNCHANGED <<threaded, setting, writer, waiting, setter, given>>

ReadLock(l, from, to) ==
  /\ At(from, to)
  /\ LockForRead(l)
  /\ UNCHANGED <<threaded, setting, writer, waiting, setter, given, inForce>>

SetProperty(l, from, to) ==
  /\ At(from, to)
  /\ given' = [given EXCEPT ![l] = setting[l]]
  /\ Unlock(l)
  /\ UNCHANGED <<threaded, setting, writer, waiting, setter, inForce>>

\* prepareInstance(), and both lockers go out of scope.
Leave ==
  /\ At("given", "idle")
  /\ readers' = [l \in Settings |-> readers[l] - 1]
  /\ inForce' = {}
  /\ UNCHANGED <<threaded, setting, writer, waiting, setter, given>>
\* Mutant: without locker and locker2.
IncomingConnection_NoLockers ==
  \/ /\ At("idle", "both")
     /\ threaded \/ \A s \in Setters : setter[s] = Nothing
     /\ inForce' = {setting}
     /\ UNCHANGED <<threaded, setting, readers, writer, waiting, setter, given>>
  \/ ReadLock("sslmode", "both", "sslmode")
  \/ SetProperty("sslmode", "sslmode", "between")
  \/ ReadLock("cert", "between", "cert")
  \/ SetProperty("cert", "cert", "given")
  \/ /\ At("given", "idle")
     /\ inForce' = {}
     /\ UNCHANGED <<threaded, setting, readers, writer, waiting, setter, given>>

IncomingConnection ==
  \/ Enter
  \/ ReadLock("cert", "locker", "both")
  \/ ReadLock("sslmode", "both", "sslmode")
  \/ SetProperty("sslmode", "sslmode", "between")
  \/ ReadLock("cert", "between", "cert")
  \/ SetProperty("cert", "cert", "given")
  \/ Leave

-----------------------------------------------------------------------------
(* setSslMode() and setCertificate().                                       *)

SetterCalls(s, l, v) ==
  /\ setter[s] = Nothing
  /\ threaded \/ (pc = "idle" /\ \A t \in Setters : setter[t] = Nothing)
  /\ setter' = [setter EXCEPT ![s] = [of |-> l, value |-> v]]
  /\ waiting' = [waiting EXCEPT ![l] = @ \cup {s}]
  /\ UNCHANGED <<threaded, setting, readers, writer, pc, given, inForce>>

Locked(s) ==
  /\ setter[s] # Nothing /\ s \in waiting[setter[s].of]
  /\ LockForWrite(s, setter[s].of)
  /\ UNCHANGED <<threaded, setting, readers, setter, pc, given, inForce>>

Set(s) ==
  LET l == setter[s].of IN
  /\ setter[s] # Nothing /\ s \notin waiting[l] /\ writer[l] = s
  /\ setting' = [setting EXCEPT ![l] = setter[s].value]
  /\ inForce' = IF pc = "idle" THEN inForce ELSE inForce \cup {setting'}
  /\ writer' = [writer EXCEPT ![l] = Nobody]
  /\ setter' = [setter EXCEPT ![s] = Nothing]
  /\ UNCHANGED <<threaded, readers, waiting, pc, given>>

ListenerNext ==
  \/ IncomingConnection
  \/ \E s \in Setters :
       (\E l \in Settings, v \in Values : SetterCalls(s, l, v)) \/ Locked(s) \/ Set(s)

\* The threads run.
ListenerFairness ==
  /\ WF_listenerVars(IncomingConnection /\ pc # "idle")
  /\ \A s \in Setters : WF_listenerVars(Locked(s) \/ Set(s))

-----------------------------------------------------------------------------
(* Properties.                                                              *)

\* "those connections will not be affected by the change, only future
\* connections will be": an instance gets the mode and the certificate that
\* were in force together at one moment since its connection came in.
FutureOnly == pc = "given" => given \in inForce

\* "You can also arbitrarily enable and disable SSL": a call that sets a
\* setting on the listener's own thread returns, and an incoming connection is
\* taken to the end.  (A setter on another thread that waits between
\* incomingConnection()'s two read locks of a setting stops both for ever.)
InlineReturns ==
  /\ ~threaded /\ (\E s \in Setters : setter[s] # Nothing)
       ~> \A s \in Setters : setter[s] = Nothing
  /\ ~threaded /\ pc # "idle" ~> pc = "idle"
=============================================================================
