----------------------------- MODULE Subsequences -----------------------------
(***************************************************************************)
(* What is left of a list or of a queue of events when some of it is taken *)
(* out (QList::removeAll(), and what Qt does with the events posted to an  *)
(* object that is deleted).  It is SelectSeq of Sequences, which the       *)
(* provers know nothing of, in terms they do.                              *)
(***************************************************************************)
EXTENDS Naturals, FiniteSets, Sequences

\* The n-th of a set of indices, in their order.
Nth(K, n) == CHOOSE i \in K : Cardinality({j \in K : j <= i}) = n

\* The elements of s at the indices K.
At(s, K) == [n \in 1 .. Cardinality(K) |-> s[Nth(K, n)]]

\* The elements of s that pass the test.
Only(s, Test(_)) == At(s, {i \in DOMAIN s : Test(s[i])})
=============================================================================
