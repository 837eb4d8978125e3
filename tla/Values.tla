------------------------------- MODULE Values -------------------------------
(***************************************************************************)
(* The values calls are made of: Signature, ReturnValue and Message.  Each *)
(* is a handle to data that copies share until one of them is changed, and *)
(* copies are what the threads and queues of both ends pass around.  What  *)
(* the operators of the streams make of a message is Framing's.            *)
(***************************************************************************)
EXTENDS Signatures

CONSTANTS
  Classes,   \* of "signature", "returnValue", "message": those to look at
  Handles,   \* bound: the objects there are
  Texts,     \* texts signatures are made of,
  Names, Types,   \* ... and names and types they are given
  Contents   \* variants, and numbers of errors and services, that are told apart

ASSUME HandlesAssumption == IsFiniteSet(Handles)

\* In a text of a signature there is one word in front of the brackets, and a
\* name or a type has no marks of its own.
ASSUME TextsAssumption ==
  /\ (Names \cup Types) \cap {"(", ")"} = {} /\ "," \notin Types
  /\ \A text \in Texts : text \in Seq(STRING) /\ (Valid(text) => text[2] = "(")

VARIABLES
  class,     \* the class at hand: never changes
  datum,     \* the data each handle points to
  data       \* what is there

valueVars == <<class, datum, data>>

Places == 1 .. Cardinality(Handles)

Free == [free |-> TRUE]

Value(h) == data[datum[h]]

Holds(h, d) == datum[h] = d

\* The data nobody has yet
Fresh == CHOOSE d \in Places : \A h \in Handles : ~Holds(h, d)

\* h points to d, where v is; what no handle points to any more is freed.
Point(h, d, v) ==
  /\ datum' = [datum EXCEPT ![h] = d]
  /\ data' = [e \in Places |-> IF e = d THEN v
                               ELSE IF \E g \in Handles \ {h} : Holds(g, e) THEN data[e]
                               ELSE Free]
  /\ UNCHANGED class

\* The data that is h's alone, or else fresh data, becomes v.
Place(h, v) ==
  Point(h, IF \A g \in Handles \ {h} : ~Holds(g, datum[h]) THEN datum[h] ELSE Fresh, v)

\* The constructors from anything but a copy
Construct(h, v) == Place(h, v)

\* Mutant of Change: what others share is changed in place.
Change_InPlace(h, v) == Point(h, datum[h], v)

\* Access to data that may change it: it is copied first if others share it.
Change(h, v) == Place(h, v)

\* The copy constructors and assignments
Copy(h, g) == h # g /\ Point(h, datum[g], Value(g))

-----------------------------------------------------------------------------
(* Signature.                                                               *)

SetName(sig, n) == [sig EXCEPT !.name = n]

SetArgs(sig, args) == [sig EXCEPT !.args = args]

\* A vector that grows has empty types at its end.
SetNumArgs(sig, num) ==
  [sig EXCEPT !.args = [i \in 1 .. num |-> IF i \in DOMAIN @ THEN @[i] ELSE ""]]

\* Only an argument that exists; they are numbered from 0.
SetArg(sig, num, type) ==
  IF num < Len(sig.args) THEN [sig EXCEPT !.args = [@ EXCEPT ![num + 1] = type]] ELSE sig

ArgLists == UNION {[1 .. n -> Types] : n \in 0 .. 2}

SignatureStep(h) ==
  /\ class = "signature"
  /\ \/ \E text \in Texts : Construct(h, Parse(text)) \/ Change(h, Reparse(Value(h), text))
     \/ \E n \in Names : Change(h, SetName(Value(h), n))
     \/ \E args \in ArgLists : Change(h, SetArgs(Value(h), args))
     \/ \E num \in 0 .. 2 : Change(h, SetNumArgs(Value(h), num))
     \/ \E num \in 0 .. 1, type \in Types : Change(h, SetArg(Value(h), num, type))

-----------------------------------------------------------------------------
(* ReturnValue: the data, and the QVariant it is derived from.              *)

NoReturn == [type |-> "variant", number |-> 0, pointer |-> 0, held |-> FALSE,
             serviceId |-> 0, variant |-> 0]

OfVariant(v) == [NoReturn EXCEPT !.variant = v]

OfError(num) == [NoReturn EXCEPT !.type = "error", !.number = num]

\* From a service's pointer: it is held at once if somebody holds the service.
OfService(s, held) == [NoReturn EXCEPT !.type = "service", !.pointer = s, !.held = held]

Asyncronous == [NoReturn EXCEPT !.type = "asyncronous"]

\* The rest stays as it was.
SetServiceId(ret, id) == [ret EXCEPT !.type = "service", !.serviceId = id]

\* Mutant of Read: the type that was read is forgotten.
Read_Untyped(ret, other) ==
  CASE other.type = "service" -> [ret EXCEPT !.serviceId = other.serviceId]
    [] other.type = "error"   -> [ret EXCEPT !.number = other.number]
    [] OTHER                  -> [ret EXCEPT !.variant = other.variant]

\* operator>> of what operator<< wrote of other, into ret as it is
Read(ret, other) ==
  CASE other.type = "service" -> [ret EXCEPT !.type = other.type, !.serviceId = other.serviceId]
    [] other.type = "error"   -> [ret EXCEPT !.type = other.type, !.number = other.number]
    [] OTHER                  -> [ret EXCEPT !.type = other.type, !.variant = other.variant]

\* What a ReturnValue shows to who asks for its type first
Shows(ret) ==
  CASE ret.type = "service" -> <<ret.type, ret.serviceId>>
    [] ret.type = "error"   -> <<ret.type, ret.number>>
    [] OTHER                -> <<ret.type, ret.variant>>

ReturnStep(h) ==
  /\ class = "returnValue"
  /\ \/ \E c \in Contents :
          \/ Construct(h, OfVariant(c)) \/ Construct(h, OfError(c))
          \/ \E held \in BOOLEAN : Construct(h, OfService(c, held))
          \/ Change(h, SetServiceId(Value(h), c))
     \/ Construct(h, Asyncronous)
     \/ \E g \in Handles \ {h} : Change(h, Read(Value(h), Value(g)))

\* parseReturn() of a server's instance writes past the sharing: every copy of
\* this value holds the service and has its id from now on.
ParseShared(h) ==
  /\ class = "returnValue" /\ Value(h).type = "service" /\ Value(h).pointer # 0
  /\ \E c \in Contents :
       data' = [data EXCEPT ![datum[h]] = [@ EXCEPT !.held = TRUE, !.serviceId = c]]
  /\ UNCHANGED <<class, datum>>

-----------------------------------------------------------------------------
(* Message: the accessors, each under the lock of the handle.               *)

NoMessageData ==
  [id |-> 0, type |-> "Invalid", version |-> 0, service |-> 0, args |-> <<>>, ret |-> NoReturn]

\* What a Return message is given its arguments for: a value, or the number and
\* the text of an error
OfArguments(args) ==
  CASE Len(args) > 1 -> OfError(args[1])
    [] Len(args) = 1 -> OfVariant(args[1])
    [] OTHER         -> OfError(100)

\* Any other constructor but the first
Made(type, args, service) ==
  [NoMessageData EXCEPT !.type = type, !.args = args, !.service = service,
                        !.ret = IF type = "Return" THEN OfArguments(args) ELSE @]

SetField(m, field, v) == [m EXCEPT ![field] = v]

MessageStep(h) ==
  /\ class = "message"
  /\ \/ Construct(h, NoMessageData)
     \/ \E c \in Contents, type \in {"Function", "Return"} :
          \E args \in {<<>>, <<1>>, <<1, 0>>} : Construct(h, Made(type, args, c))
     \/ \E type \in {"Function", "Return"} : Change(h, SetField(Value(h), "type", type))
     \/ \E field \in {"id", "service"}, c \in Contents : Change(h, SetField(Value(h), field, c))

-----------------------------------------------------------------------------
Default ==
  CASE class = "signature"   -> [name |-> "", args |-> <<>>]
    [] class = "returnValue" -> NoReturn
    [] OTHER                 -> NoMessageData

ValuesInit ==
  /\ class \in Classes
  /\ datum = CHOOSE f \in [Handles -> Places] : \A g, h \in Handles : g # h => f[g] # f[h]
  /\ data = [d \in Places |-> Default]

ValuesNext ==
  \/ \E h \in Handles : SignatureStep(h) \/ ReturnStep(h) \/ ParseShared(h) \/ MessageStep(h)
  \/ \E h, g \in Handles : Copy(h, g)

-----------------------------------------------------------------------------
\* No value changes because a copy of it was changed, in whatever order copies
\* are made, shared and changed; only parseReturn() does that, to copies of a
\* service's value (signature.cpp, returnvalue.cpp, message.cpp).
CopiesIndependent ==
  [][\A g, h \in Handles :
       Value(g)' # Value(g) /\ Value(h)' # Value(h) /\ g # h => ParseShared(g)]_valueVars

\* What is read from a stream is what was written: a signature from its text, as
\* version 0 sends it, if it has a name and not just one empty type; and a return
\* value that had another value before.
ReadsBack ==
  IF class = "signature"
  THEN \A h \in Handles :
         Value(h).name # "" /\ Value(h).args # <<"">> => Parse(ToText(Value(h))) = Value(h)
  ELSE class = "returnValue" =>
         \A g, h \in Handles : Shows(Read(Value(g), Value(h))) = Shows(Value(h))

=============================================================================
