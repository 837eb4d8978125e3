------------------------------ MODULE Framing ------------------------------
(***************************************************************************)
(* How messages cross the device: the stream operators of Message in its   *)
(* three formats, the size in front of each message, and the readyRead()   *)
(* loops that put messages together again from whatever parts arrive.      *)
(* One direction of one connection, with the change of format that the     *)
(* negotiation brings while messages are under way.  A unit of the stream  *)
(* is a 32 bit word; a string, a signature or a value takes one.           *)
(***************************************************************************)
EXTENDS Naturals, Sequences, SequencesExt

CONSTANTS
  Directions,   \* "toServer", "toClient"
  Targets,      \* versions the peers may agree on
  MaxMessages   \* bound: how many messages are written

ASSUME DirectionsAssumption == Directions \subseteq {"toServer", "toClient"}
ASSUME TargetsAssumption == Targets \subseteq 0 .. 2
ASSUME MaxMessagesAssumption == MaxMessages \in Nat

VARIABLES
  dir,      \* which direction this is: never changes
  target,   \* the version the negotiation ends in: never changes
  wver,     \* version in which the writer writes
  rver,     \* version in which the reader reads
  asked,    \* setProtocolVersion has been written
  sent,     \* the messages written, as the format they went in shows them
  net,      \* words under way
  avail,    \* words in the reader's device
  total,    \* totalSize: 0 between two messages
  buffer,   \* buffer; its length is the member read
  looping,  \* readyRead() is running
  got,      \* the messages parsed and handled
  open      \* the connection is up

writerVars == <<wver, asked, sent>>
readerVars == <<rver, avail, total, buffer, looping, got>>
framingVars == <<dir, target, writerVars, net, readerVars, open>>

-----------------------------------------------------------------------------
(* Messages and their formats.                                              *)

\* Message::Type
Function == 0
QtRpc    == 1
Event    == 2
Return   == 3
Invalid  == 4

Magic == 305441741                \* 0x1234abcd

\* A message's data.  The body of a call is its signature, the number of
\* arguments and the arguments; the body of a return is Ret*'s.
Message(type, id, service, body) ==
  [type |-> type, id |-> id, service |-> service, body |-> body]

\* ReturnValueData::type, and what the operators write behind it
RetValue(v)      == <<0, v>>
RetError(num, s) == <<1, num, s>>
RetService(id)   == <<2, id>>

\* The arguments setReturnValue() keeps for version 0: a service is cut down
\* to the empty value of its base class.
RetArgs(ret) ==
  CASE ret[1] = 0 -> <<1, ret[2]>>
    [] ret[1] = 1 -> <<2, ret[2], ret[3]>>
    [] OTHER      -> <<1, 0>>

\* ... and what the constructor of a return makes of arguments.
ArgsRet(args) ==
  CASE args[1] > 1 -> RetError(args[2], args[3])
    [] args[1] = 1 -> RetValue(args[2])
    [] OTHER       -> RetError(100, 0)

PackedBody(m) ==
  <<m.type>> \o (IF m.type \in {Function, Event} THEN <<m.service>> ELSE <<>>)
    \o <<m.id>> \o m.body

\* operator<<
Encode(m, version) ==
  CASE version = 2 -> <<Magic>> \o PackedBody(m)
    [] version = 1 -> PackedBody(m)
    [] OTHER -> <<m.id, m.type>>
                  \o (IF m.type = Return THEN <<0>> \o RetArgs(m.body) ELSE m.body)

Lower(a, b) == IF a < b THEN a ELSE b

\* Past its end a stream reads as zeros.
WordAt(words, i) == IF i <= Len(words) THEN words[i] ELSE 0
From(words, i)   == SubSeq(words, i, Len(words))

NoMessage == Message(Invalid, 0, 0, <<>>)

Unpacked(words) ==
  LET type == WordAt(words, 1)
      id   == IF type \in {Function, Event} THEN 3 ELSE 2 IN
  IF type \in {Function, QtRpc, Event, Return}
    THEN Message(type, WordAt(words, id), IF id = 3 THEN WordAt(words, 2) ELSE 0, From(words, id + 1))
    ELSE NoMessage

\* Mutant of Decode: what follows is read whatever the first word is.
Decode_NoMagic(words, version) ==
  CASE version = 2 -> Unpacked(From(words, 2))
    [] version = 1 -> Unpacked(words)
    [] OTHER -> Message(WordAt(words, 2), WordAt(words, 1), 1,
                        IF WordAt(words, 2) = Return THEN ArgsRet(From(words, 4))
                                                 ELSE From(words, 3))

\* operator>>
Decode(words, version) ==
  CASE version = 2 -> IF WordAt(words, 1) = Magic THEN Unpacked(From(words, 2)) ELSE NoMessage
    [] version = 1 -> Unpacked(words)
    [] OTHER -> Message(WordAt(words, 2), WordAt(words, 1), 1,
                        IF WordAt(words, 2) = Return THEN ArgsRet(From(words, 4))
                                                 ELSE From(words, 3))

\* What a reader is meant to make of m: version 0 knows one service only and
\* no returned services; only calls and events carry a service at all.
Shown(m, version) ==
  IF version > 0 THEN [m EXCEPT !.service = IF m.type \in {Function, Event} THEN @ ELSE 0]
  ELSE [m EXCEPT !.service = 1, !.body = IF m.type = Return THEN ArgsRet(RetArgs(@)) ELSE @]

-----------------------------------------------------------------------------
(* Writing.                                                                 *)

SetVersion == 9        \* the signature of setProtocolVersion(quint32)
Signature  == 8        \* any other signature

Switch(version) == Message(QtRpc, 0, 0, <<SetVersion, 1, version>>)

\* What function() and the protocol functions of the client write.
ClientMessages ==
  {Message(Function, 5, 2, <<Signature, 1, 6>>), Message(QtRpc, 4, 0, <<Signature, 0>>)}

\* What the server writes: events and callbacks (packed alike), returns; a
\* return of a plain value is covered by what version 0 makes of a service.
ServerMessages ==
  {Message(Event, 0, 2, <<Signature, 0>>),
   Message(Return, 5, 0, RetError(1, 7)), Message(Return, 5, 0, RetService(3))}

FramingInit ==
  /\ dir \in Directions /\ target \in Targets
  /\ wver = 0 /\ rver = 0 /\ asked = FALSE
  /\ sent = <<>> /\ net = <<>>
  /\ avail = <<>> /\ total = 0 /\ buffer = <<>> /\ looping = FALSE
  /\ got = <<>>
  /\ open = TRUE

\* The header is a qint64: two words, the high one first.
Frame(words) == <<0, Len(words)>> \o words

\* writeMessage()
Write(m) ==
  /\ open
  /\ Len(sent) < MaxMessages
  /\ sent' = Append(sent, Shown(m, wver))
  /\ net' = net \o Frame(Encode(m, wver))
  /\ UNCHANGED <<dir, target, readerVars, open>>

\* A client goes on in version 0 until it hears of the switch; with version 1
\* it then waits for that before it calls (Session.Early).
ClientWrite ==
  /\ dir = "toServer"
  /\ asked /\ wver = 0 => target # 1
  /\ \E m \in ClientMessages : Write(m)
  /\ UNCHANGED <<wver, asked>>

ServerWrite ==
  /\ dir = "toClient"
  /\ \E m \in ServerMessages : Write(m)
  /\ UNCHANGED <<wver, asked>>

\* Mutant of ServerSwitch: the answer goes out in the new version already.
ServerSwitch_First ==
  /\ dir = "toClient" /\ ~asked /\ open
  /\ Len(sent) < MaxMessages
  /\ wver' = target /\ asked' = TRUE
  /\ sent' = Append(sent, Shown(Switch(target), target))
  /\ net' = net \o Frame(Encode(Switch(target), target))
  /\ UNCHANGED <<dir, target, readerVars, open>>

\* The server's answer to setProtocolVersion: written in the old version, and
\* everything behind it in the new one.
ServerSwitch ==
  /\ dir = "toClient" /\ ~asked
  /\ Write(Switch(target))
  /\ asked' = TRUE
  /\ wver' = target

\* The client's answer to welcome.
ClientAsk ==
  /\ dir = "toServer" /\ ~asked
  /\ Write(Switch(target))
  /\ asked' = TRUE
  /\ UNCHANGED wver

\* The server's answer, sent when the server switched, has arrived.
ClientSwitch ==
  /\ dir = "toServer" /\ asked /\ rver = target
  /\ wver # target
  /\ wver' = target
  /\ UNCHANGED <<dir, target, asked, sent, net, readerVars, open>>

-----------------------------------------------------------------------------
(* Reading.                                                                 *)

\* The device takes a part of what is under way and emits readyRead().
Arrive ==
  /\ open /\ ~looping
  /\ \E n \in 1 .. Len(net) :
       /\ avail' = avail \o SubSeq(net, 1, n)
       /\ net' = From(net, n + 1)
  /\ looping' = TRUE
  /\ UNCHANGED <<dir, target, writerVars, rver, total, buffer, got, open>>

\* Mutant of Loops: half a header is enough to go on.
Loops_HalfHeader == looping /\ avail # <<>>

\* The condition of the loop and the break in it: sizeof(totalSize) is there.
Loops == looping /\ avail # <<>> /\ (total = 0 => Len(avail) >= 2)

EndLoop ==
  /\ looping /\ ~Loops
  /\ looping' = FALSE
  /\ UNCHANGED <<dir, target, writerVars, net, rver, avail, total, buffer, got, open>>

\* Mutant of Handle: readyRead() returns after a message.
Handle_Returns(m) ==
  /\ got' = IF m.type \in {Function, QtRpc, Event, Return} THEN Append(got, m) ELSE got
  /\ rver' = IF m.type = QtRpc /\ WordAt(m.body, 1) = SetVersion THEN WordAt(m.body, 3) ELSE rver
  /\ looping' = FALSE

\* Handling a message; the one that matters here changes the version.  The
\* loop goes on.
Handle(m) ==
  /\ got' = IF m.type \in {Function, QtRpc, Event, Return} THEN Append(got, m) ELSE got
  /\ rver' = IF m.type = QtRpc /\ WordAt(m.body, 1) = SetVersion THEN WordAt(m.body, 3) ELSE rver
  /\ UNCHANGED looping

\* Once around the loop: the size, if it is still to come; as much of the
\* message as there is; and the message, when it is complete.
ReadSome(Sees(_)) ==
  LET fresh == total = 0
      size  == IF fresh THEN WordAt(avail, 2) ELSE total
      have  == IF fresh THEN <<>> ELSE buffer
      rest  == IF fresh THEN From(avail, 3) ELSE avail
      part  == SubSeq(rest, 1, Lower(size - Len(have), Len(rest)))
      all   == have \o part IN
  /\ Loops
  /\ buffer' = all
  /\ avail' = From(rest, Len(part) + 1)
  /\ \/ /\ Len(all) < size
        /\ total' = size
        /\ UNCHANGED <<got, rver, looping>>
     \/ /\ Len(all) >= size
        /\ total' = 0
        /\ Handle(Sees(all))
  /\ UNCHANGED <<dir, target, writerVars, net, open>>

ClientSees(words) == Decode(words, rver)

\* Mutant of ServerSees: no second try.
ServerSees_Once(words) == Decode(words, rver)

\* What cannot be read is read once more as version 0.
ServerSees(words) ==
  LET m == Decode(words, rver) IN
  IF m.type \in {Function, QtRpc, Return} THEN m ELSE Decode(words, 0)

ClientRead == dir = "toClient" /\ ReadSome(ClientSees)
ServerRead == dir = "toServer" /\ ReadSome(ServerSees)

\* The connection goes, with whatever is under way.
Cut ==
  /\ open
  /\ open' = FALSE
  /\ net' = <<>>
  /\ UNCHANGED <<dir, target, writerVars, readerVars>>

FramingNext ==
  \/ ClientWrite \/ ServerWrite
  \/ ServerSwitch \/ ClientAsk \/ ClientSwitch
  \/ Arrive \/ EndLoop \/ ClientRead \/ ServerRead
  \/ Cut

-----------------------------------------------------------------------------
(* Properties.                                                              *)

\* However the stream is cut into parts and wherever the formats change, the
\* messages handled are the messages written: whole, unaltered, in order,
\* none twice (message.cpp, readyRead() of both ends).
Channel == INSTANCE MessageChannel
ChannelSpec == Channel!ChannelSpec

\* Nothing is left in a buffer because the loop ended early: when all has arrived
\* and readyRead() has returned, every message written was handled.
AllHandled == open /\ ~looping /\ net = <<>> => Len(got) = Len(sent)
=============================================================================
