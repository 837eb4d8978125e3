------------------------------- MODULE Finder -------------------------------
(***************************************************************************)
(* ServiceFinder with what it is made of: the browser of services and its  *)
(* connection to the mDNS daemon, the resolvers of service names, and the  *)
(* look-ups of host names, over Avahi or over Bonjour.  All of it runs on  *)
(* one thread; only the daemon and the services on the network move by     *)
(* themselves.  A service heard of gets the next currentId, is resolved,   *)
(* its host is looked up, and then it is reported by serviceEvent().       *)
(***************************************************************************)
EXTENDS Naturals, Sequences, FiniteSets, SequencesExt

CONSTANTS
  Names,       \* names of services
  Backends,    \* "avahi", "bonjour": what the library was built with
  MaxScans,    \* bound: calls of scan()
  MaxErrors,   \* bound: failures of browse connections
  MaxAnswers,  \* bound: answers the daemon gives to one query of Bonjour's
  MaxIds       \* bound: services heard of

ASSUME FinderAssumption ==
  /\ Backends \subseteq {"avahi", "bonjour"}
  /\ {MaxScans, MaxErrors, MaxAnswers, MaxIds} \subseteq Nat

VARIABLES
  present,        \* names announced on the network
  backend,        \* never changes
  thread,         \* "loop": in its event loop; "reading": blocked in a read;
                  \* "locked": waits for a mutex it holds; "broken": used freed memory
  refs,           \* the browse connections this browser opened, newest last
  notifier,       \* the browser has a notifier: isBrowsing()
  connected,      \* how often the browser's signals are connected to this finder
  currentId,
  serviceQueue,   \* id -> service
  resolverQueue,  \* ids whose resolver has not answered; the resolver goes by its id
  answerable,     \* ... those the daemon took
  resolveQueue,   \* id of a look-up -> service
  lookupId,       \* QxtDiscoverableServiceNamePrivate::id
  lookups,        \* QxtDiscoverableServiceNamePrivate::lookups, its keys
  mdns,           \* id of a look-up -> its QxtMDNS
  reports,        \* how often the service heard of as id was reported; at 0: services nobody heard of
  withdrawn,      \* ids that scan() forgot
  scans, errors   \* counted for the bounds

queues == <<serviceQueue, resolverQueue, answerable, resolveQueue>>
browser == <<refs, notifier, connected>>
hosts == <<lookupId, lookups, mdns>>
told == <<reports, withdrawn>>
bounds == <<scans, errors>>
finderVars == <<backend, thread, browser, currentId, queues, hosts, told, bounds>>
vars == <<present, finderVars>>

-----------------------------------------------------------------------------
\* ServiceFinder::Service; ev is the id it was heard as, 0 for one made anew.
Service(ev, event, name) ==
  [ev |-> ev, event |-> event, name |-> name, host |-> FALSE]

\* A service nobody heard of: its event is never initialized.
Blank == Service(0, "any", "")

\* A connection of DNSServiceBrowse: the names told on it, whether it failed,
\* whether it is allocated, and whether a notifier watches its socket.
Ref == [known |-> {}, failed |-> FALSE, open |-> TRUE, watched |-> TRUE]

\* The socket of a connection has something to read.
Pending(r) == r.open /\ (r.failed \/ r.known # present)

Without(f, keys) == [k \in DOMAIN f \ keys |-> f[k]]
Put(f, k, v) == [j \in DOMAIN f \cup {k} |-> IF j = k THEN v ELSE f[j]]

\* The thread is past help.
Stopped == thread \in {"locked", "broken"}

Init ==
  /\ present = {}
  /\ backend \in Backends
  /\ thread = "loop"
  /\ refs = <<>> /\ notifier = FALSE /\ connected = 0
  /\ currentId = 0
  /\ serviceQueue = <<>> /\ resolverQueue = {} /\ answerable = {} /\ resolveQueue = <<>>
  /\ lookupId = 0 /\ lookups = {} /\ mdns = <<>>
  /\ reports = [id \in 0 .. MaxIds |-> 0] /\ withdrawn = {}
  /\ scans = 0 /\ errors = 0

-----------------------------------------------------------------------------
(* The browser.                                                             *)

\* Mutant: Avahi's look-ups are not freed either.
Cancelled_None(ids) == mdns

\* abortHostLookup() of every id: Avahi's look-ups are freed, Bonjour's
\* cancelLookup() is empty.
Cancelled(ids) == IF backend = "avahi" THEN Without(mdns, ids \cap lookups) ELSE mdns

\* getError(), once for each of n connections of the signal: reported at once,
\* and an entry is queued that nothing takes out.
Failed(queue, n) ==
  LET new == currentId + 1 .. currentId + n
  IN /\ currentId + n <= MaxIds
     /\ currentId' = currentId + n
     /\ serviceQueue' = [id \in DOMAIN queue \cup new |->
          IF id \in new THEN Service(id, "any", "") ELSE queue[id]]
     /\ reports' = [id \in DOMAIN reports |-> reports[id] + IF id \in new THEN 1 ELSE 0]

\* browse(): a connection that replaces the newest, which nobody closes; refused,
\* there is none in its place, and the error goes to n connected signals.
Browse(queue, n) ==
  \/ /\ refs' = Append(refs, Ref) /\ notifier' = TRUE
     /\ serviceQueue' = queue
     /\ UNCHANGED <<currentId, reports, errors>>
  \/ /\ errors < MaxErrors /\ errors' = errors + 1
     /\ refs' = Append(refs, [Ref EXCEPT !.open = FALSE, !.watched = FALSE])
     /\ Failed(queue, n)
     /\ UNCHANGED notifier

\* scan(): what is under way is forgotten while browsing, the signals are
\* connected once more, and the browser browses once more.
Scan ==
  /\ thread = "loop" /\ scans < MaxScans
  /\ scans' = scans + 1
  /\ connected' = connected + 1
  /\ IF notifier
     THEN /\ resolverQueue' = {} /\ answerable' = {} /\ resolveQueue' = <<>>
          /\ mdns' = Cancelled(DOMAIN resolveQueue)
          /\ lookups' = lookups \ DOMAIN resolveQueue
          /\ withdrawn' = withdrawn \cup resolverQueue
                            \cup {resolveQueue[i].ev : i \in DOMAIN resolveQueue}
     ELSE UNCHANGED <<resolverQueue, answerable, resolveQueue, mdns, lookups, withdrawn>>
  /\ Browse(IF notifier THEN <<>> ELSE serviceQueue, connected')
  /\ UNCHANGED <<present, backend, thread, lookupId>>

\* setService(): another browser, neither connected nor browsing; the old one
\* takes its newest connection and all its notifiers with it.
SetService ==
  /\ thread = "loop" /\ 0 < scans /\ scans < MaxScans
  /\ refs' = <<>> /\ notifier' = FALSE /\ connected' = 0
  /\ UNCHANGED <<present, backend, thread, currentId, queues, hosts, told, bounds>>

NewIds == currentId + 1 .. currentId + connected

\* Mutant: the service is not queued.
Heard_NotQueued(event, name) ==
  /\ currentId + connected <= MaxIds
  /\ currentId' = currentId + connected
  /\ resolverQueue' = resolverQueue \cup NewIds
  /\ \E taken \in SUBSET NewIds : answerable' = answerable \cup taken
  /\ UNCHANGED <<serviceQueue, resolveQueue, hosts, told, errors, notifier>>

\* serviceAdded() or serviceRemoved(), once for each connection of the signal:
\* resolve() starts before the service is queued, but never fails at once.
\* Of the resolvers made, the daemon takes some.
Heard(event, name) ==
  /\ currentId + connected <= MaxIds
  /\ currentId' = currentId + connected
  /\ resolverQueue' = resolverQueue \cup NewIds
  /\ \E taken \in SUBSET NewIds : answerable' = answerable \cup taken
  /\ serviceQueue' = [id \in DOMAIN serviceQueue \cup NewIds |->
       IF id \in NewIds THEN Service(id, event, name) ELSE serviceQueue[id]]
  /\ UNCHANGED <<resolveQueue, hosts, told, errors, notifier>>

StopBrowsing ==
  /\ refs' = [refs EXCEPT ![Len(refs)].open = FALSE, ![Len(refs)].watched = FALSE]
  /\ notifier' = FALSE

\* browseServiceCallback() with the next thing on the newest connection
Deliver ==
  LET n == Len(refs)
      r == refs[n]
  IN IF r.failed
     THEN /\ StopBrowsing
          /\ Failed(serviceQueue, connected)
          /\ UNCHANGED <<resolverQueue, answerable, resolveQueue, hosts, withdrawn, errors>>
     ELSE \E name \in (present \ r.known) \cup (r.known \ present) :
            LET added == name \in present IN
            /\ refs' = [refs EXCEPT ![n].known = IF added THEN @ \cup {name} ELSE @ \ {name}]
            /\ Heard(IF added THEN "added" ELSE "removed", name)

\* A notifier fires.  Whichever connection it watches, socketData() reads the
\* newest one, and waits if there is nothing.
SocketData ==
  /\ thread = "loop"
  /\ \E g \in DOMAIN refs : refs[g].watched /\ Pending(refs[g])
  /\ CASE Pending(Last(refs)) -> Deliver /\ UNCHANGED thread
       [] ~Last(refs).open ->
            thread' = "broken" /\ UNCHANGED <<browser, currentId, queues, hosts, told, errors>>
       [] OTHER ->
            thread' = "reading" /\ UNCHANGED <<browser, currentId, queues, hosts, told, errors>>
  /\ UNCHANGED <<present, backend, connected, scans>>

ReadOn ==
  /\ thread = "reading" /\ Pending(Last(refs))
  /\ thread' = "loop"
  /\ Deliver
  /\ UNCHANGED <<present, backend, connected, scans>>

-----------------------------------------------------------------------------
(* Resolving and looking up.                                                *)

\* What doLookup() leaves: Avahi's client may not come up, come up later, or be
\* up, with its record browser; Bonjour's request is there.
Clients == IF backend = "avahi" THEN {"none", "starting", "running"} ELSE {"running"}

\* lookupHost(), with doLookup() under the lock of the ids: when that is refused
\* at once, the answer comes back here for the lock.
LookUp(service) ==
  LET id == lookupId + 1
      Started(client) ==
        /\ lookupId' = id
        /\ mdns' = Put(mdns, id, [client |-> client, sent |-> FALSE, answers |-> 0])
        /\ lookups' = lookups \cup {id}
        /\ resolveQueue' = Put(resolveQueue, id, service)
        /\ UNCHANGED thread
  IN \/ \E client \in Clients : Started(client)
     \/ /\ thread' = "locked" /\ lookupId' = id
        /\ UNCHANGED <<mdns, lookups, resolveQueue>>

\* Mutant: the resolver stays in the queue.
Answered_Stays(id, host) ==
  /\ LookUp([serviceQueue[id] EXCEPT !.host = host])
  /\ answerable' = answerable \ {id}
  /\ UNCHANGED <<serviceQueue, resolverQueue, present, backend, browser, currentId, told, bounds>>

\* A resolver answers, with a host or without: it is taken from its queue, and
\* the service it was for, if that is known, goes on to the look-up.  Whatever
\* else a resolver says after that finds it gone from the queue.
Answered(id, host) ==
  /\ resolverQueue' = resolverQueue \ {id} /\ answerable' = answerable \ {id}
  /\ IF id \in DOMAIN serviceQueue
     THEN LookUp([serviceQueue[id] EXCEPT !.host = host])
     ELSE UNCHANGED <<resolveQueue, hosts, thread>>
  /\ UNCHANGED <<serviceQueue, present, backend, browser, currentId, told, bounds>>

Resolved == thread = "loop" /\ \E id \in answerable : Answered(id, TRUE)

\* resolveError(): the host stays empty, and is looked up all the same
ResolveError == thread = "loop" /\ \E id \in answerable : Answered(id, FALSE)

\* getAddress(), with any addresses: the look-up is aborted, and whatever resolveQueue has by this
\* id, made up if there is nothing, is reported.
GetAddress(id) ==
  LET service == IF id \in DOMAIN resolveQueue THEN resolveQueue[id] ELSE Blank
  IN /\ lookups' = lookups \ {id}
     /\ resolveQueue' = Without(resolveQueue, {id})
     /\ reports' = [reports EXCEPT ![service.ev] = @ + 1]
     /\ UNCHANGED <<serviceQueue, resolverQueue, answerable, withdrawn>>

\* Mutant: no record browser is made when the client comes up late.
ClientRunning_NoBrowser ==
  /\ thread = "loop"
  /\ \E id \in DOMAIN mdns :
       mdns[id].client = "starting" /\ mdns' = [mdns EXCEPT ![id].client = "up"]
  /\ UNCHANGED <<present, backend, thread, browser, currentId, lookupId, lookups, queues,
                 told, bounds>>

\* avahiClientCallback(): the client runs and the record browser is made, or
\* refused, which answers, cancels, and then cancels again what is freed.
ClientRunning ==
  /\ thread = "loop"
  /\ \E id \in DOMAIN mdns :
       /\ mdns[id].client = "starting"
       /\ \/ /\ mdns' = [mdns EXCEPT ![id].client = "running"]
             /\ UNCHANGED <<thread, lookups, queues, told>>
          \/ /\ GetAddress(id)
             /\ mdns' = Without(mdns, {id})
             /\ thread' = "broken"
  /\ UNCHANGED <<present, backend, browser, currentId, lookupId, bounds>>

Live(id) == thread = "loop" /\ id \in DOMAIN mdns /\ mdns[id].client = "running"

\* avahiRecordBrowserCallback(): the answer, all for now or a failure, with the
\* addresses collected before it.  The look-up cancels itself in it, if it is
\* still one of lookups.
RecordAnswer ==
  /\ backend = "avahi"
  /\ \E id \in DOMAIN mdns :
       /\ Live(id)
       /\ GetAddress(id)
       /\ mdns' = IF id \in lookups THEN Without(mdns, {id})
                  ELSE [mdns EXCEPT ![id].sent = TRUE]
  /\ UNCHANGED <<present, backend, thread, browser, currentId, lookupId, bounds>>

\* DNSServiceQueryRecordCallback() of Bonjour: an answer for every record
QueryAnswer ==
  /\ backend = "bonjour"
  /\ \E id \in DOMAIN mdns :
       /\ Live(id) /\ mdns[id].answers < MaxAnswers
       /\ mdns' = [mdns EXCEPT ![id].answers = @ + 1]
       /\ GetAddress(id)
  /\ UNCHANGED <<present, backend, thread, browser, currentId, lookupId, bounds>>

-----------------------------------------------------------------------------
\* The daemon fails on a connection.
BrowseFails ==
  /\ ~Stopped /\ errors < MaxErrors
  /\ \E g \in DOMAIN refs :
       /\ refs[g].open /\ ~refs[g].failed
       /\ refs' = [refs EXCEPT ![g].failed = TRUE]
  /\ errors' = errors + 1
  /\ UNCHANGED <<present, backend, thread, notifier, connected, currentId, queues, hosts,
                 told, scans>>

\* Services come and go.
Network ==
  /\ ~Stopped
  /\ \E name \in Names :
       \/ name \notin present /\ present' = present \cup {name}
       \/ name \in present /\ present' = present \ {name}
  /\ UNCHANGED finderVars

FinderNext ==
  \/ Scan \/ SetService \/ SocketData \/ ReadOn \/ Resolved \/ ResolveError
  \/ ClientRunning \/ RecordAnswer \/ QueryAnswer \/ BrowseFails

Next == FinderNext \/ Network

Spec == Init /\ [][Next]_vars

\* The event loop reads what comes, and the daemon answers what it took.
Fairness ==
  /\ WF_vars(SocketData) /\ WF_vars(ReadOn)
  /\ WF_vars(Resolved \/ ResolveError)
  /\ WF_vars(ClientRunning) /\ WF_vars(RecordAnswer) /\ WF_vars(QueryAnswer)

FairSpec == Spec /\ Fairness

-----------------------------------------------------------------------------
\* A service that was heard of is in one place: with its resolver, with its
\* look-up, reported once, or forgotten by a scan(); and none is reported that
\* was not heard of, as long as cancelling a look-up means something.
Conserved ==
  /\ ~Stopped =>
       \A id \in 1 .. currentId :
         Cardinality({i \in DOMAIN resolveQueue : resolveQueue[i].ev = id})
           + Cardinality(resolverQueue \cap {id}) + Cardinality(withdrawn \cap {id})
           + reports[id] = 1
  /\ backend = "avahi" => reports[0] = 0

\* Whatever waits for an address waits for a look-up that is still there, and no
\* look-up is there for nobody: getAddress() and scan() keep the three tables of
\* two classes in step.
LookUpsAgree ==
  /\ ~Stopped => DOMAIN resolveQueue = lookups
  /\ lookups \subseteq DOMAIN mdns
  /\ backend = "avahi" => lookups = DOMAIN mdns

\* What the daemon took is reported or forgotten, unless the thread stays in a read,
\* waits for itself or has used what is freed, or the look-up could not begin.
HeardReported ==
  <>[](thread = "reading")
    \/ \A id \in 1 .. MaxIds :
         id \in answerable
           ~> \/ reports[id] = 1 \/ id \in withdrawn \/ Stopped
              \/ \E i \in DOMAIN resolveQueue : resolveQueue[i].ev = id /\ mdns[i].client = "none"
=============================================================================
