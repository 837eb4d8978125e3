---------------------------- MODULE ServiceNames ----------------------------
(* What a service is called on the network: the type a publisher has from  *)
(* its service's name, the one a finder browses for, and the one it then   *)
(* asks of what it heard of; and the port, in the byte orders it goes      *)
(* through.  A text is its parts between commas, a part its words between  *)
(* dots, and a word its pieces, of which "_" is one.                       *)
EXTENDS Sequences, SequencesExt

CONSTANTS
  ServiceTexts,   \* the names services are registered under
  ByteOrders      \* of the machines: "little", "big"

\* Splitting a string gives one string at least, "" being <<>> here.
ASSUME ServiceTextsAssumption ==
  ServiceTexts \subseteq Seq(Seq(Seq(STRING)) \ {<<>>}) \ {<<>>}

VARIABLES
  order,      \* of the publisher's machine, and of the finder's
  offer,      \* the service that is published, and its QxtDiscoverableService
  wanted,     \* the service that is looked for, and its QxtServiceBrowser
  announced,  \* by the daemon: the request to register and the port, or nothing
  browsing,   \* the request to browse, or nothing
  heard       \* the resolver of what was heard of last: event, type, port

namesVars == <<order, offer, wanted, announced, browsing, heard>>

Nothing == <<>>
Port == <<1, 2>>
AnyPort == <<0, 0>>

-----------------------------------------------------------------------------
(* QxtDiscoverableServiceName and its kinds.                                *)

Bare(word) == IF word # <<>> /\ Head(word) = "_" THEN Tail(word) ELSE word
Barred(word) == <<"_">> \o word

\* setServiceType(): a type of two words is one with its protocol.
SetServiceType(text) ==
  LET words == Head(text) IN
  IF Len(words) # 2 THEN [type |-> words, socket |-> "tcp"]
  ELSE [type |-> <<Bare(words[1])>>,
        socket |-> CASE words[2] = <<"_", "tcp">> -> "tcp"
                     [] words[2] = <<"_", "udp">> -> "udp"
                     [] OTHER -> "unknown"]

\* fullServiceType(): what is not tcp is udp.
FullServiceType(d) ==
  <<Barred(Head(d.type))>> \o Tail(d.type) \o <<<<"_", IF d.socket = "tcp" THEN "tcp" ELSE "udp">>>>

\* qxt_zeroconf_parse_subtypes(): one word each, with its dots
SubTypes(text) ==
  {[i \in DOMAIN part |-> IF i = 1 THEN Bare(part[1]) ELSE part[i]] :
     part \in {text[i] : i \in 2 .. Len(text)}}

\* The constructors of QxtDiscoverableService and QxtServiceBrowser
Discoverable(text) == [name |-> SetServiceType(text), subtypes |-> SubTypes(text), port |-> AnyPort]

\* What registerService() and browse() ask of the daemon
Request(d) == [type |-> FullServiceType(d.name), subtypes |-> d.subtypes]

\* "QtRpc_" in front of a service's name
Prefixed(text) == [text EXCEPT ![1][1] = <<"QtRpc_">> \o @]

\* qToBigEndian() and qFromBigEndian(); and what a number is in memory
BigEndian(machine, number) == IF machine = "little" THEN Reverse(number) ELSE number

-----------------------------------------------------------------------------
NamesInit ==
  /\ order \in [publisher : ByteOrders, finder : ByteOrders]
  /\ \E text \in ServiceTexts :
       offer = [text |-> text, service |-> Discoverable(Prefixed(text))]
  /\ \E text \in ServiceTexts :
       wanted = [text |-> text, browser |-> Discoverable(Prefixed(text))]
  /\ announced = Nothing /\ browsing = Nothing /\ heard = Nothing

\* publish(): the type is set again, the subtypes stay.
Publish ==
  LET service == [offer.service EXCEPT !.name = SetServiceType(Prefixed(offer.text)),
                                       !.port = BigEndian(order.publisher, Port)] IN
  /\ offer' = [offer EXCEPT !.service = service]
  /\ announced' = [request |-> Request(service), port |-> BigEndian(order.publisher, service.port)]
  /\ UNCHANGED <<order, wanted, browsing, heard>>

Unpublish ==
  /\ announced # Nothing
  /\ announced' = Nothing
  /\ UNCHANGED <<order, offer, wanted, browsing, heard>>

BrowseNames ==
  /\ browsing' = Request(wanted.browser)
  /\ UNCHANGED <<order, offer, wanted, announced, heard>>

\* A browse finds what is of its type and has its subtypes.
Matches(request) ==
  /\ browsing # Nothing
  /\ browsing.type = request.type /\ browsing.subtypes \subseteq request.subtypes

\* Mutant: the resolver of what is there is made like that of what is gone.
NameAdded_OfService ==
  /\ announced # Nothing /\ Matches(announced.request)
  /\ heard' = [event |-> "added", type |-> FullServiceType(SetServiceType(wanted.text)), port |-> AnyPort]
  /\ UNCHANGED <<order, offer, wanted, announced, browsing>>

\* serviceAdded(): the resolver has the type of the browser, without its protocol.
NameAdded ==
  /\ announced # Nothing /\ Matches(announced.request)
  /\ heard' = [event |-> "added",
               type |-> FullServiceType(SetServiceType(<<wanted.browser.name.type>>)),
               port |-> AnyPort]
  /\ UNCHANGED <<order, offer, wanted, announced, browsing>>

\* serviceRemoved(): the resolver has the name of the service, without "QtRpc_".
NameRemoved ==
  /\ announced = Nothing /\ heard # Nothing /\ heard.event = "added"
  /\ Matches(Request(offer.service))
  /\ heard' = [event |-> "removed", type |-> FullServiceType(SetServiceType(wanted.text)),
               port |-> AnyPort]
  /\ UNCHANGED <<order, offer, wanted, announced, browsing>>

\* resolveServiceCallback(), and port(): the number the daemon gives is the port
\* on the wire as this machine reads it.
NameResolved ==
  LET number == BigEndian(order.finder, announced.port)
      set == BigEndian(order.finder, BigEndian(order.finder, number)) IN
  /\ heard # Nothing /\ announced # Nothing /\ heard.type = announced.request.type
  /\ heard' = [heard EXCEPT !.port = BigEndian(order.finder, set)]
  /\ UNCHANGED <<order, offer, wanted, announced, browsing>>

NamesNext ==
  Publish \/ Unpublish \/ BrowseNames \/ NameAdded \/ NameRemoved \/ NameResolved

-----------------------------------------------------------------------------
\* The name of a service does not look like a type with its protocol.
Plain(text) == Len(Head(text)) # 2

\* A finder hears of the service it looks for; of no other, if their names are
\* plain; and asks then for what was announced, on the port it was published with.
NamedAlike ==
  /\ offer.text = wanted.text /\ announced # Nothing /\ browsing # Nothing
       => Matches(announced.request)
  /\ Plain(offer.text) /\ Plain(wanted.text) /\ heard # Nothing
       => Head(offer.text) = Head(wanted.text)
  /\ heard # Nothing /\ Plain(wanted.text) /\ heard.event = "added"
       => heard.type = FullServiceType(offer.service.name)
  /\ heard # Nothing => heard.port \in {AnyPort, Port}
=============================================================================
