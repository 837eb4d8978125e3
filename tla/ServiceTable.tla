---------------------------- MODULE ServiceTable ----------------------------
(***************************************************************************)
(* The service objects of a server: the factories that make them, the      *)
(* tables in which the instances of the connections hold them by number,   *)
(* and what becomes of them when a function returns one, returns it again, *)
(* or returns one that another connection holds, and when an instance goes.*)
(* What is called between, and when, is Session's and Dispatch's.          *)
(***************************************************************************)
EXTENDS Naturals, FiniteSets

CONSTANTS
  Connections,   \* instances of ServerProtocolInstanceBase
  ServiceNames,  \* names services are registered by
  Objects,       \* bound: the ServiceProxy objects there may be
  Keys           \* names of data, see setData()

VARIABLES
  factories,     \* _serviceFactories: the data of the instance of each name
  started,       \* main() has entered the event loop
  live,          \* the instances that exist
  services,      \* services of each: objects by id
  curServiceId,  \* ... and the last id given
  needsAuth,     \* ... and the ids that are not authenticated
  object,        \* the objects: life, instance, data, and how the last holder parts
  late,          \* calls that are to be answered by sendReturn()
  told,          \* history: the ids in replies, with the object each is for
  refused,       \* history: objects whose authentication failed at selection
  passed,        \* history: objects more than one connection has held
  selected,      \* history: the data a selected object was made with
  astray         \* history: objects an answer of which did not come to who called

instanceVars == <<live, services, curServiceId, needsAuth>>
historyVars  == <<told, refused, passed, selected, astray>>
tableVars    == <<factories, started, instanceVars, object, late, historyVars>>

NoInstance == "none"

ASSUME ConnectionsAssumption == NoInstance \notin Connections

\* "later": deleteLater() was called; "loose": made, but nobody's
Unmade == [life |-> "none", instance |-> NoInstance, data |-> {}, gone |-> "later"]

With(f, k, v) == [j \in DOMAIN f \cup {k} |-> IF j = k THEN v ELSE f[j]]

Holders(o) == {c \in live : \E id \in DOMAIN services[c] : services[c][id] = o}

\* service(): number 0 is any of them, the first of the hash.
ServicesOf(c, id) ==
  IF id = 0 THEN {services[c][i] : i \in DOMAIN services[c]}
  ELSE {services[c][i] : i \in DOMAIN services[c] \cap {id}}

\* serviceId(): 0 if the instance does not hold it
ServiceId(c, o) ==
  IF \E id \in DOMAIN services[c] : services[c][id] = o
  THEN CHOOSE id \in DOMAIN services[c] : services[c][id] = o ELSE 0

TableInit ==
  /\ factories = [n \in {} |-> {}]
  /\ started = FALSE
  /\ live = Connections
  /\ services = [c \in Connections |-> [id \in {} |-> NoInstance]]
  /\ curServiceId = [c \in Connections |-> 0]
  /\ needsAuth = [c \in Connections |-> {}]
  /\ object = [o \in Objects |-> Unmade]
  /\ told = [c \in Connections |-> {}]
  /\ late = {}
  /\ refused = {} /\ passed = {} /\ astray = {}
  /\ selected = [o \in Objects |-> {}]

-----------------------------------------------------------------------------
(* The server's factories.                                                  *)

\* registerService<>(): a second time for a name, the first factory stays.
\* Programs register before they enter the event loop; nothing is locked.
RegisterService(n) ==
  /\ ~started
  /\ factories' = IF n \in DOMAIN factories THEN factories ELSE With(factories, n, {})
  /\ UNCHANGED <<started, instanceVars, object, late, historyVars>>

\* setData() on what registerService() returned; what a service keeps there for
\* itself is left out
SetData(n, key) ==
  /\ n \in DOMAIN factories
  /\ factories' = [factories EXCEPT ![n] = @ \cup {key}]
  /\ UNCHANGED <<started, instanceVars, object, late, historyVars>>

Exec ==
  /\ ~started
  /\ started' = TRUE
  /\ UNCHANGED <<factories, instanceVars, object, late, historyVars>>

-----------------------------------------------------------------------------
(* The instances.                                                           *)

\* newInstance() of the factory and initProxy(): what c asked for by name
NewInstance(c, n) ==
  [life |-> "held", instance |-> c, data |-> factories[n], gone |-> "deleted"]

\* Server::requestService(), and what
\* both getServiceObject() do with the new object
Request(c, n, o) ==
  /\ started /\ c \in live
  /\ n \in DOMAIN factories
  /\ object[o].life = "none"
  /\ object' = [object EXCEPT ![o] = NewInstance(c, n)]
  /\ selected' = [selected EXCEPT ![o] = factories[n]]
  /\ curServiceId' = [curServiceId EXCEPT ![c] = @ + 1]
  /\ services' = [services EXCEPT ![c] = With(@, curServiceId[c] + 1, o)]

\* getServiceObject(name): authentication is to come.
GetServiceObject(c, n, o) ==
  /\ Request(c, n, o)
  /\ needsAuth' = [needsAuth EXCEPT ![c] = @ \cup {curServiceId[c] + 1}]
  /\ told' = [told EXCEPT ![c] = @ \cup {<<curServiceId[c] + 1, o>>}]
  /\ UNCHANGED <<factories, started, live, late, refused, passed, astray>>

\* getServiceObject(name, username, pass), of a client of version 0: auth() is
\* called at once.  The object stays in the table either way.
GetServiceObjectAuth(c, n, o) ==
  /\ Request(c, n, o)
  /\ \/ /\ told' = [told EXCEPT ![c] = @ \cup {<<curServiceId[c] + 1, o>>}]
        /\ UNCHANGED refused
     \/ refused' = refused \cup {o} /\ UNCHANGED told
  /\ UNCHANGED <<factories, started, live, needsAuth, late, passed, astray>>

\* callFunction() of an auth() that returned no error
Authenticate(c, id) ==
  /\ c \in live /\ ServicesOf(c, id) # {}
  /\ needsAuth' = [needsAuth EXCEPT ![c] = @ \ {id}]
  /\ UNCHANGED <<factories, started, live, services, curServiceId, object, late, historyVars>>

\* Mutant: what is returned again gets a new number.
Numbered_Again(c, o) ==
  /\ curServiceId' = [curServiceId EXCEPT ![c] = @ + 1]
  /\ services' = [services EXCEPT ![c] = With(@, curServiceId[c] + 1, o)]
  /\ told' = [told EXCEPT ![c] = @ \cup {<<curServiceId[c] + 1, o>>}]

\* The end of parseReturn(): the number it has here, or a new one
Numbered(c, o) ==
  \/ /\ ServiceId(c, o) # 0
     /\ told' = [told EXCEPT ![c] = @ \cup {<<ServiceId(c, o), o>>}]
     /\ UNCHANGED <<services, curServiceId>>
  \/ /\ ServiceId(c, o) = 0
     /\ curServiceId' = [curServiceId EXCEPT ![c] = @ + 1]
     /\ services' = [services EXCEPT ![c] = With(@, curServiceId[c] + 1, o)]
     /\ told' = [told EXCEPT ![c] = @ \cup {<<curServiceId[c] + 1, o>>}]

\* parseReturn(): the object is made ours, whosever it was, and without data.
\* The holders share it by its weakPointer, which is null before the first.
ParseReturn(c, o) ==
  /\ object' = [object EXCEPT ![o] = [@ EXCEPT !.life = "held", !.instance = c, !.data = {}]]
  /\ passed' = IF Holders(o) \subseteq {c} THEN passed ELSE passed \cup {o}
  /\ selected' = [selected EXCEPT ![o] = {}]
  /\ Numbered(c, o)

\* A function returns a new object, or one that some connection holds: its own
\* service, say, or one that several clients are to share.
CallReturnsService(c, id, o) ==
  /\ started /\ c \in live
  /\ ServicesOf(c, id) # {} /\ id \notin needsAuth[c]
  /\ object[o].life = "none" \/ Holders(o) # {}
  /\ ParseReturn(c, o)
  /\ UNCHANGED <<factories, started, live, needsAuth, late, refused, astray>>

\* sendReturn() of service s, with an object: lost if the instance of s is gone
SendReturnService(s, o) ==
  /\ object[s].life \in {"held", "later"} /\ object[o].life = "none"
  /\ \/ /\ object[s].instance # NoInstance
        /\ ParseReturn(object[s].instance, o)
     \/ /\ object[s].instance = NoInstance
        /\ object' = [object EXCEPT ![o].life = "loose"]
        /\ UNCHANGED <<services, curServiceId, told, passed, selected>>
  /\ UNCHANGED <<factories, started, live, needsAuth, late, refused, astray>>

\* A function is to answer later and asks for the id of the call: it is told the
\* id of what the instance it belongs to now is running, which is this call or none.
CallReturnsLater(c, id) ==
  \E o \in ServicesOf(c, id) :
    /\ started /\ c \in live /\ id \notin needsAuth[c]
    /\ \A call \in late : call.of # o
    /\ late' = late \cup {[of |-> o, by |-> c, own |-> object[o].instance = c]}
    /\ UNCHANGED <<factories, started, instanceVars, object, historyVars>>

\* sendReturn() by the id it was told, to the instance it belongs to by then
SendReturnValue(o) ==
  \E call \in late :
    /\ call.of = o /\ object[o].life \in {"held", "later"}
    /\ late' = late \ {call}
    /\ astray' = IF call.by \in live /\ ~(call.own /\ object[o].instance = call.by)
                 THEN astray \cup {o} ELSE astray
    /\ UNCHANGED <<factories, started, instanceVars, object, told, refused, passed, selected>>

\* Mutant: the services are not told.
LetGo_Untold(c) ==
  [o \in Objects |->
     IF Holders(o) = {c} THEN [object[o] EXCEPT !.life = object[o].gone] ELSE object[o]]

\* No service of c knows it any more; the last holder of one deletes it, or has
\* it deleted by the event loop if it came from a function.
LetGo(c) ==
  [o \in Objects |->
     IF Holders(o) = {c} THEN [object[o] EXCEPT !.life = object[o].gone, !.instance = NoInstance]
     ELSE IF c \in Holders(o) THEN [object[o] EXCEPT !.instance = NoInstance]
     ELSE object[o]]

\* ~ServerProtocolInstanceBase(), when the connection is over
DestroyInstance(c) ==
  /\ c \in live
  /\ live' = live \ {c}
  /\ object' = LetGo(c)
  /\ services' = [services EXCEPT ![c] = [id \in {} |-> NoInstance]]
  /\ UNCHANGED <<factories, started, curServiceId, needsAuth, late, historyVars>>

DeleteObject(o) ==
  /\ object[o].life = "later"
  /\ object' = [object EXCEPT ![o] = [@ EXCEPT !.life = "deleted"]]
  /\ UNCHANGED <<factories, started, instanceVars, late, historyVars>>

TableNext ==
  \/ Exec
  \/ \E n \in ServiceNames : RegisterService(n) \/ \E key \in Keys : SetData(n, key)
  \/ \E c \in Connections, n \in ServiceNames, o \in Objects :
       GetServiceObject(c, n, o) \/ GetServiceObjectAuth(c, n, o)
  \/ \E c \in Connections, id \in 0 .. Cardinality(Objects) :
       Authenticate(c, id) \/ CallReturnsLater(c, id)
         \/ \E o \in Objects : CallReturnsService(c, id, o)
  \/ \E s, o \in Objects : SendReturnService(s, o)
  \/ \E c \in Connections : DestroyInstance(c)
  \/ \E o \in Objects : SendReturnValue(o) \/ DeleteObject(o)

TableSpec == TableInit /\ [][TableNext]_tableVars

-----------------------------------------------------------------------------
\* What the tables and the objects say of each other: an object lives as long as
\* a connection holds it, writes to no instance that is gone, is held under one
\* number, and its events carry a number the client was told; and a selected one
\* finds the data of its name, until it is returned by a function.  What one
\* holder calls is answered to it (serverprotocolinstancebase.cpp).
ServicesKept ==
  /\ \A o \in Objects :
       /\ object[o].life = "held" <=> Holders(o) # {}
       /\ object[o].instance # NoInstance => object[o].instance \in Holders(o)
       /\ \A c \in Holders(o) :
            /\ o \notin passed => object[o].instance = c
            /\ object[o].instance = c => <<ServiceId(c, o), o>> \in told[c] \/ o \in refused
       /\ object[o].life = "held" => selected[o] \subseteq object[o].data
  /\ astray \subseteq passed
  /\ \A c \in live : \A i, j \in DOMAIN services[c] : services[c][i] = services[c][j] => i = j

\* "Multiple clients can be passed the same service instance": each is answered
\* what it called (examples/data_server/dataservice.cpp:36).
SharersAnswered == astray = {}
=============================================================================
