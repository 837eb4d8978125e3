------------------------------- MODULE Calls -------------------------------
(***************************************************************************)
(* What a call goes through, part by part: the values it is made of, the   *)
(* tables and slots that dispatch it, the frames that carry it over the    *)
(* device, the service objects of the server it is meant for, and the      *)
(* tokens that select and authenticate them.  The parts share no state;    *)
(* one is looked at in a behaviour, while the others stand still.          *)
(***************************************************************************)
EXTENDS MCDispatch, Framing, ServiceTable, Values, Authentication

CONSTANT Parts   \* the parts to look at

VARIABLE part    \* the one at hand: never changes

callsVars == <<part, vars, framingVars, tableVars, valueVars, authVars>>

\* Texts of a signature, one of them not valid
SomeTexts == {add, <<"ping", "(", "", ")">>, ping, <<"ping", "(">>}

\* A part that is not at hand has one initial state.
Standing ==
  /\ part # "dispatch" => /\ client = CHOOSE c \in ClientClasses : TRUE
                          /\ server = CHOOSE c \in ServerClasses : TRUE
  /\ part # "framing" => /\ dir = CHOOSE d \in Directions : TRUE
                         /\ target = CHOOSE v \in Targets : TRUE
  /\ part # "values" => class = CHOOSE c \in Classes : TRUE

CallsInit ==
  /\ part \in Parts
  /\ Init /\ FramingInit /\ TableInit /\ ValuesInit /\ AuthInit
  /\ Standing

DispatchStep ==
  /\ part = "dispatch" /\ Next
  /\ UNCHANGED <<part, framingVars, tableVars, valueVars, authVars>>

FramingStep ==
  /\ part = "framing" /\ FramingNext
  /\ UNCHANGED <<part, vars, tableVars, valueVars, authVars>>

TableStep ==
  /\ part = "table" /\ TableNext
  /\ UNCHANGED <<part, vars, framingVars, valueVars, authVars>>

ValuesStep ==
  /\ part = "values" /\ ValuesNext
  /\ UNCHANGED <<part, vars, framingVars, tableVars, authVars>>

AuthStep ==
  /\ part = "auth" /\ AuthNext
  /\ UNCHANGED <<part, vars, framingVars, tableVars, valueVars>>

CallsNext == DispatchStep \/ FramingStep \/ TableStep \/ ValuesStep \/ AuthStep

\* The slots that dispatch leads to return, and keep their promises.  A part that
\* stands still has nothing to be fair about: nothing was called in it.
CallsSpec == CallsInit /\ [][CallsNext]_callsVars /\ DispatchFairness

-----------------------------------------------------------------------------
(* A property of several parts.                                             *)

\* What is written is what is read: a message is handled as it was written
\* whatever the cuts and the change of version, and a value reads back as the
\* application made it.
ReadAsWritten == AllHandled /\ ReadsBack
=============================================================================
