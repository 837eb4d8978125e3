---------------------------- MODULE MCMessageBus ----------------------------
(* An instance of MessageBus for TLC: two caller threads and a receiver.     *)
EXTENDS MessageBus

CONSTANTS c1, c2, o1

TwoCallers == {c1, c2}
OneObject == {o1}
=============================================================================
