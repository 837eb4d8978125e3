---------------------------- MODULE CallContract ----------------------------
(***************************************************************************)
(* What the client message bus promises to its callers, without threads,   *)
(* queues, locks or sockets.  Calls are numbered in the order they are     *)
(* issued.  Each call is completed at most once, and a completion that     *)
(* carries the peer's answer follows an answer of the peer to that very    *)
(* call.  A call may also be completed by an error (the connection went    *)
(* away) or, for a synchronous call, by its timeout.                       *)
(***************************************************************************)
EXTENDS Naturals, Sequences

CONSTANT MaxCalls

VARIABLES
  issued,    \* how many calls were issued; the ids are 1..issued
  replied,   \* the ids the peer (or the protocol object) has answered
  seen       \* seen[id]: what the issuer of id was told, in order

vars == <<issued, replied, seen>>

Ids   == 1 .. MaxCalls
Kinds == {"reply", "error", "timeout"}

Init ==
  /\ issued = 0
  /\ replied = {}
  /\ seen = [id \in Ids |-> <<>>]

Issue ==
  /\ issued < MaxCalls
  /\ issued' = issued + 1
  /\ UNCHANGED <<replied, seen>>

Reply(id) ==
  /\ id <= issued
  /\ replied' = replied \cup {id}
  /\ UNCHANGED <<issued, seen>>

Complete(id, kind) ==
  /\ id <= issued
  /\ seen[id] = <<>>
  /\ kind = "reply" => id \in replied
  /\ seen' = [seen EXCEPT ![id] = <<[of |-> id, kind |-> kind]>>]
  /\ UNCHANGED <<issued, replied>>

Next ==
  \/ Issue
  \/ \E id \in Ids : Reply(id) \/ \E kind \in Kinds : Complete(id, kind)

Spec == Init /\ [][Next]_vars
=============================================================================
