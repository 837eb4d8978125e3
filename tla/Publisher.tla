----------------------------- MODULE Publisher -----------------------------
(***************************************************************************)
(* ServicePublisher and the QxtDiscoverableService it works with: one      *)
(* connection to the mDNS daemon at a time, kept in `service', registers   *)
(* a name or resolves one.  The daemon answers on the connection, and the  *)
(* notifier of the connection has the answer read; the notifier of one     *)
(* that failed before has the connection read that is in use by then.      *)
(***************************************************************************)
EXTENDS Naturals, Sequences

CONSTANTS
  Names,    \* names of services
  MaxCalls  \* bound: connections to the daemon, and publish() refused

VARIABLES
  present,   \* names announced on the network
  friendly,  \* friendlyName
  state,     \* QxtDiscoverableService::State; Found and Resolved are never set
  service,   \* the connection in use, its number; 0: none
  conns,     \* the connections made
  watched,   \* connections that have a notifier
  alive,     \* the publisher and its service exist
  loop,      \* "free": in its event loop; "reading": blocked in a read; "broken": used
             \* a connection that was released
  untold,    \* a registration was begun and nobody was told how it ended
  refused    \* publish() calls refused, for the bound

publisherVars == <<friendly, state, service, conns, watched, alive, loop, untold, refused>>
vars == <<present, publisherVars>>

-----------------------------------------------------------------------------
\* A connection: what it asked for, the name the daemon announces for
\* it or "", the answer to be read, whether more can come, whether the daemon is at its
\* other end, and whether it is open.
Conn(op, name) ==
  [op |-> op, asked |-> name, holds |-> "", answer |-> "none", failed |-> FALSE,
   hungUp |-> FALSE, open |-> TRUE]

Open(c) == conns[c].open /\ ~conns[c].failed

\* A read of it comes back: with an answer, or with the error that nobody is there.
Readable(c) == conns[c].answer # "none" \/ conns[c].hungUp

\* The publisher's thread can do something.
Runs == alive /\ loop = "free"

Init ==
  /\ present = {}
  /\ friendly \in Names
  /\ state = "Unknown" /\ service = 0
  /\ conns = <<>> /\ watched = {}
  /\ alive = TRUE /\ loop = "free" /\ untold = FALSE /\ refused = 0

-----------------------------------------------------------------------------
(* QxtDiscoverableService.                                                  *)

\* releaseService(): only a registration that succeeded is given back, or a
\* service that was resolved; the rest is left alone.
Releasing == state \in {"Registered", "Resolved"}

ConnsReleased ==
  IF Releasing THEN [conns EXCEPT ![service].open = FALSE, ![service].holds = ""] ELSE conns
WatchedReleased == IF Releasing THEN watched \ {service} ELSE watched
PresentReleased == IF Releasing THEN present \ {conns[service].holds} ELSE present
StateReleased == IF Releasing THEN "Unknown" ELSE state

\* resolve(): an error of the daemon is overwritten, and then no answer comes
Resolve ==
  /\ Runs /\ Len(conns) < MaxCalls
  /\ state \in {"Unknown", "Found"}
  /\ state' = "Resolving"
  /\ \/ /\ conns' = Append(conns, Conn("resolve", friendly))
        /\ service' = Len(conns')
        /\ watched' = watched \cup {service'}
     \/ service' = 0 /\ UNCHANGED <<conns, watched>>
  /\ UNCHANGED <<present, friendly, alive, loop, untold, refused>>

\* Mutant: nothing watches the new connection.
RegisterService_NoNotifier ==
  /\ StateReleased = "Unknown" /\ Len(conns) < MaxCalls
  /\ conns' = Append(ConnsReleased, Conn("register", friendly))
  /\ service' = Len(conns')
  /\ watched' = WatchedReleased
  /\ state' = "Registering" /\ untold' = TRUE
  /\ UNCHANGED refused

\* registerService(), after publish() released what there was: refused in the
\* middle of something else; a connection that failed before is forgotten as it
\* is, with its notifier.
RegisterService ==
  \/ /\ StateReleased # "Unknown"
     /\ refused < MaxCalls /\ refused' = refused + 1
     /\ UNCHANGED <<state, service, conns, watched, untold>>
  \/ /\ StateReleased = "Unknown" /\ Len(conns) < MaxCalls
     /\ conns' = Append(ConnsReleased, Conn("register", friendly))
     /\ service' = Len(conns')
     /\ watched' = WatchedReleased \cup {service'}
     /\ state' = "Registering" /\ untold' = TRUE
     /\ UNCHANGED refused
  \/ /\ StateReleased = "Unknown"
     /\ state' = "Unknown" /\ service' \in {0, service}
     /\ conns' = ConnsReleased /\ watched' = WatchedReleased
     /\ UNCHANGED <<untold, refused>>

\* Mutant: errors are not looked at.
Callback_NoErrors(c) ==
  /\ state' = IF c.op = "register" THEN "Registered" ELSE state
  /\ untold' = (untold /\ c.op # "register")

\* registerServiceCallback() and resolveServiceCallback(): an error leaves the
\* connection and its notifier as they are; a service that was resolved stays
\* Resolving.
Callback(c) ==
  /\ state' = IF c.answer = "error" THEN "Unknown"
              ELSE IF c.op = "register" THEN "Registered" ELSE state
  /\ untold' = (untold /\ c.op # "register")

\* DNSServiceProcessResult(), which has the callback called for an answer
Process ==
  /\ Callback(conns[service])
  /\ conns' = [conns EXCEPT ![service].answer = "none"]

\* A notifier fires.  Whichever connection it watches, socketData() reads the one in
\* use: that may be none, one that was released, or one with nothing to read, for
\* which it waits.
SocketData ==
  /\ Runs /\ service # 0
  /\ \E c \in watched : Readable(c)
  /\ \/ ~conns[service].open /\ loop' = "broken" /\ UNCHANGED <<state, untold, conns>>
     \/ conns[service].open /\ conns[service].answer # "none" /\ Process /\ UNCHANGED loop
     \/ conns[service].open /\ ~Readable(service) /\ loop' = "reading"
          /\ UNCHANGED <<state, untold, conns>>
  /\ UNCHANGED <<present, friendly, service, watched, alive, refused>>

ReadOn ==
  /\ loop = "reading" /\ Readable(service)
  /\ loop' = "free"
  /\ IF conns[service].answer # "none" THEN Process ELSE UNCHANGED <<state, untold, conns>>
  /\ UNCHANGED <<present, friendly, service, watched, alive, refused>>

-----------------------------------------------------------------------------
(* ServicePublisher.                                                        *)

SetFriendlyName ==
  /\ Runs
  /\ \E name \in Names \ {friendly} : friendly' = name
  /\ UNCHANGED <<present, state, service, conns, watched, alive, loop, untold, refused>>

Publish ==
  /\ Runs
  /\ RegisterService
  /\ present' = PresentReleased
  /\ UNCHANGED <<friendly, alive, loop>>

Unpublish ==
  /\ Runs
  /\ conns' = ConnsReleased /\ watched' = WatchedReleased /\ state' = StateReleased
  /\ present' = PresentReleased
  /\ UNCHANGED <<friendly, service, alive, loop, untold, refused>>

\* ~QxtDiscoverableService(), under ~ServicePublisher(): all notifiers go, and of
\* the connections the one releaseService() gives back.
Destroy ==
  /\ Runs /\ alive' = FALSE
  /\ conns' = ConnsReleased /\ state' = StateReleased /\ present' = PresentReleased
  /\ watched' = {}
  /\ UNCHANGED <<friendly, service, loop, untold, refused>>

-----------------------------------------------------------------------------
(* The daemon.                                                              *)

\* It announces the name a connection asked for, another one if that is taken.
DaemonRegisters(c) ==
  /\ Open(c) /\ conns[c].op = "register" /\ conns[c].holds = ""
  /\ \E name \in Names \ present :
       /\ conns[c].asked \notin present => name = conns[c].asked
       /\ conns' = [conns EXCEPT ![c] = [@ EXCEPT !.holds = name, !.answer = "ok"]]
       /\ present' = present \cup {name}
  /\ UNCHANGED <<friendly, state, service, watched, alive, loop, untold, refused>>

DaemonResolves(c) ==
  /\ Open(c) /\ conns[c].op = "resolve" /\ conns[c].answer = "none"
  /\ conns' = [conns EXCEPT ![c].answer = "ok"]
  /\ UNCHANGED <<present, friendly, state, service, watched, alive, loop, untold, refused>>

\* Refused, or given up later: nothing more comes on the connection; and if the daemon is
\* gone, it stays readable.
DaemonFails(c) ==
  /\ Open(c)
  /\ \E gone \in BOOLEAN :
       conns' = [conns EXCEPT ![c] = [@ EXCEPT !.failed = TRUE, !.answer = "error", !.holds = "",
                                               !.hungUp = gone]]
  /\ present' = present \ {conns[c].holds}
  /\ UNCHANGED <<friendly, state, service, watched, alive, loop, untold, refused>>

PublisherNext ==
  \/ Resolve \/ SocketData \/ ReadOn \/ SetFriendlyName \/ Publish \/ Unpublish \/ Destroy
  \/ \E c \in DOMAIN conns : DaemonRegisters(c) \/ DaemonResolves(c) \/ DaemonFails(c)

\* The first answer to a registration
DaemonAnswers(c) ==
  /\ c \in DOMAIN conns /\ conns[c].holds = ""
  /\ DaemonRegisters(c) \/ DaemonFails(c)

\* The event loop reads what comes, and the daemon answers.
PublisherFairness ==
  /\ WF_vars(SocketData) /\ WF_vars(ReadOn)
  /\ \A c \in 1 .. MaxCalls : WF_vars(DaemonAnswers(c))

Next == PublisherNext
Spec == Init /\ [][Next]_vars
FairSpec == Spec /\ PublisherFairness

-----------------------------------------------------------------------------
(* Properties.                                                              *)

\* The publisher is on the network, or will be, through one connection at most,
\* the one it can release; a publisher that is gone is so only if it went while
\* it was registering, which nothing takes back.
OneRegistration ==
  \A c \in DOMAIN conns :
    conns[c].op = "register" /\ Open(c) =>
      c = service /\ IF alive THEN state \in {"Registering", "Registered"}
                              ELSE state = "Registering"

\* It says Registered only if the daemon announces it, or the loss is about to
\* be read.
RegisteredHolds ==
  state = "Registered" => conns[service].holds # "" \/ conns[service].answer = "error"

\* A registration that was begun ends in registered() or registrationError(),
\* whatever else is called meanwhile.
PublishTold == untold ~> ~untold \/ ~alive
=============================================================================
