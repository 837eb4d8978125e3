----------------------------- MODULE Discovery -----------------------------
(***************************************************************************)
(* A publisher and a finder on one network: the names the daemon announces *)
(* for the one are what it tells the browser of the other.  A case decides *)
(* what is looked at: either of them alone against everything the daemon   *)
(* and the network can do, both together with a daemon that works, or how  *)
(* the two spell their services' types and ports.                          *)
(***************************************************************************)
EXTENDS Finder, ServiceNames

CONSTANTS
  Cases,     \* "publisher", "finder", "both", "names"
  MaxCalls   \* bound: connections of the publisher

ASSUME DiscoveryAssumption ==
  Cases \subseteq {"publisher", "finder", "both", "names"} /\ MaxCalls \in Nat

\* "" is what a connection holds that announces nothing.
ASSUME NamesAssumption == "" \notin Names

\* Texts of services' names: plain, with subtypes, and with dots
SomeServiceTexts ==
  LET my == <<"My">>
      udp == <<"_", "udp">>
      other == <<"Other">> IN
  { <<<<my>>>>, <<<<other>>>>, <<<<my>>, <<other>>>>, <<<<my>>, <<udp>>, <<other, my>>>>,
    <<<<my, udp>>>>, <<<<my, other>>>>, <<<<my, other, udp>>>> }

VARIABLES
  case,      \* never changes
  friendly, state, service, conns, watched, alive, loop, untold, refused   \* Publisher's

P == INSTANCE Publisher

publisherVars == <<friendly, state, service, conns, watched, alive, loop, untold, refused>>
allVars == <<case, vars, publisherVars, namesVars>>

DiscoveryInit ==
  /\ case \in Cases
  /\ Init /\ P!Init /\ NamesInit
  /\ case # "finder" => backend = "avahi"
  /\ case # "names" => /\ order = CHOOSE o \in [publisher : ByteOrders, finder : ByteOrders] : TRUE
                      /\ {offer.text, wanted.text} = {CHOOSE text \in ServiceTexts : TRUE}

PublisherStep ==
  /\ case \in {"publisher", "both"}
  /\ P!PublisherNext
  /\ UNCHANGED <<case, finderVars, namesVars>>

FinderStep ==
  /\ case \in {"finder", "both"}
  /\ FinderNext \/ (case = "finder" /\ Network)
  /\ UNCHANGED <<case, publisherVars, namesVars>>

NamesStep ==
  /\ case = "names"
  /\ NamesNext
  /\ UNCHANGED <<case, vars, publisherVars>>

\* Together they publish twice at most and scan once, with a daemon that does not
\* fail: the name may come, go and come again.
Together ==
  /\ \A c \in DOMAIN conns' : c <= 2 /\ conns'[c].op = "register" /\ ~conns'[c].failed
  /\ refused' = 0 /\ scans' <= 1 /\ errors' = 0

DiscoveryNext ==
  /\ PublisherStep \/ FinderStep \/ NamesStep
  /\ case = "both" => Together

DiscoverySpec ==
  /\ DiscoveryInit /\ [][DiscoveryNext]_allVars
  /\ Fairness /\ P!PublisherFairness

-----------------------------------------------------------------------------
(* Properties of the parts, in every case.                                  *)

\* The publisher's: one connection that can be released, no other on the
\* network, and Registered means announced.
RegisteredOnce == P!OneRegistration /\ P!RegisteredHolds

\* The finder's: each server is in one place at a time, and the daemon is asked
\* for those that wait for an answer and for no others.
FinderKeepsTrack == Conserved /\ LookUpsAgree

\* The publisher's and the finder's: a registration is told of, and what was
\* heard of is reported.
AllTold == P!PublishTold /\ HeardReported

\* What was heard of as id will not be reported: the daemon did not take a request.
Missed(id) ==
  \/ id \in resolverQueue \ answerable
  \/ \E i \in DOMAIN resolveQueue : resolveQueue[i].ev = id /\ mdns[i].client = "none"

\* The two together: a service that is published and stays so, although it may have
\* come and gone before while it was heard of, resolved and looked up, ends as the last
\* thing that a finder that scans has heard, and is reported as added; unless the
\* daemon refused one of the requests for it, or the thread waits for itself in
\* doLookup().
PublishedFound ==
  \A name \in Names :
    case = "both" /\ <>[](name \in present) /\ <>[](refs # <<>>)
      => <>[](\/ Stopped
              \/ /\ currentId \in DOMAIN serviceQueue
                 /\ serviceQueue[currentId] = Service(currentId, "added", name)
                 /\ reports[currentId] = 1 \/ Missed(currentId))
=============================================================================
