------------------------- MODULE Subsequences_proofs -------------------------
(***************************************************************************)
(* A subsequence has the elements of the sequence at its indices, each as  *)
(* often as there.                                                         *)
(***************************************************************************)
EXTENDS Subsequences, SequenceTheorems, FiniteSetTheorems, TLAPS

\* The n-th index of a set is one, with n of them up to it.
LEMMA NthIndex ==
  ASSUME NEW m \in Nat, NEW K \in SUBSET (1 .. m)
  PROVE  /\ Cardinality(K) \in Nat
         /\ \A n \in 1 .. Cardinality(K) :
              Nth(K, n) \in K /\ Cardinality({j \in K : j <= Nth(K, n)}) = n
         /\ \A i \in K : \E n \in 1 .. Cardinality(K) : Nth(K, n) = i
  <1> DEFINE UpTo(i) == {j \in K : j <= i}
             rank == [i \in K |-> Cardinality(UpTo(i))]
  <1>1. IsFiniteSet(K) /\ Cardinality(K) \in Nat
    <2>1. IsFiniteSet(1 .. m)
      BY FS_Interval
    <2> QED
      BY <2>1, FS_Subset, FS_CardinalityType
  <1>2. ASSUME NEW i \in K
        PROVE  /\ IsFiniteSet(UpTo(i)) /\ UpTo(i) \subseteq K /\ i \in UpTo(i)
               /\ Cardinality(UpTo(i)) \in 1 .. Cardinality(K)
    <2>1. UpTo(i) \subseteq K /\ i \in UpTo(i)
      OBVIOUS
    <2>2. IsFiniteSet(UpTo(i)) /\ Cardinality(UpTo(i)) <= Cardinality(K)
      BY <1>1, <2>1, FS_Subset
    <2>3. Cardinality(UpTo(i)) \in Nat /\ Cardinality(UpTo(i)) # 0
      BY <2>1, <2>2, FS_CardinalityType, FS_EmptySet
    <2> QED
      BY <1>1, <2>1, <2>2, <2>3
  <1>3. ASSUME NEW i \in K, NEW j \in K, i < j
        PROVE  Cardinality(UpTo(i)) # Cardinality(UpTo(j))
    <2>1. UpTo(i) \subseteq UpTo(j) /\ j \in UpTo(j) /\ j \notin UpTo(i)
      <3>1. \A k \in K : k \in Int /\ (k <= i => k <= j)
        BY <1>3
      <3>2. ~(j <= i) /\ j <= j
        BY <1>3
      <3> QED
        BY <3>1, <3>2
    <2> QED
      BY <1>2, <2>1, FS_Subset
  <1>4. rank \in [K -> 1 .. Cardinality(K)]
    BY <1>2
  <1>5. \A i, j \in K : rank[i] = rank[j] => i = j
    <2>1. \A i, j \in K : i # j => i < j \/ j < i
      OBVIOUS
    <2> QED
      BY <1>3, <2>1
  <1>6. rank \in Injection(K, 1 .. Cardinality(K))
    BY <1>4, <1>5 DEF Injection, IsInjective
  <1>7. rank \in Surjection(K, 1 .. Cardinality(K))
    <2>1. /\ IsFiniteSet(1 .. Cardinality(K))
          /\ Cardinality(1 .. Cardinality(K)) = Cardinality(K)
      BY <1>1, FS_Interval
    <2> QED
      BY <1>6, <2>1, FS_Injection
  <1>8. ASSUME NEW n \in 1 .. Cardinality(K)
        PROVE  Nth(K, n) \in K /\ Cardinality(UpTo(Nth(K, n))) = n
    <2>1. \E i \in K : Cardinality(UpTo(i)) = n
      BY <1>7 DEF Surjection
    <2> QED
      BY <2>1 DEF Nth
  <1>9. ASSUME NEW i \in K
        PROVE  \E n \in 1 .. Cardinality(K) : Nth(K, n) = i
    <2>1. PICK n \in 1 .. Cardinality(K) : n = Cardinality(UpTo(i))
      BY <1>2
    <2>2. Nth(K, n) = i
      BY <1>5, <1>8, <2>1
    <2> QED
      BY <2>2
  <1> QED
    BY <1>1, <1>8, <1>9

\* A subsequence has the elements at its indices, and no others.
LEMMA AtElements ==
  ASSUME NEW S, NEW s \in Seq(S), NEW K \in SUBSET (DOMAIN s)
  PROVE  /\ At(s, K) \in Seq(S)
         /\ DOMAIN At(s, K) = 1 .. Cardinality(K) /\ Cardinality(K) \in Nat
         /\ \A n \in DOMAIN At(s, K) : Nth(K, n) \in K /\ At(s, K)[n] = s[Nth(K, n)]
         /\ \A i \in K : \E n \in DOMAIN At(s, K) : At(s, K)[n] = s[i]
         /\ \A n, m \in DOMAIN At(s, K) : Nth(K, n) = Nth(K, m) => n = m
  <1>1. Len(s) \in Nat /\ DOMAIN s = 1 .. Len(s)
    OBVIOUS
  <1>2. /\ Cardinality(K) \in Nat
        /\ \A n \in 1 .. Cardinality(K) :
             Nth(K, n) \in K /\ Cardinality({j \in K : j <= Nth(K, n)}) = n
        /\ \A i \in K : \E n \in 1 .. Cardinality(K) : Nth(K, n) = i
    BY <1>1, NthIndex
  <1>3. /\ DOMAIN At(s, K) = 1 .. Cardinality(K)
        /\ \A n \in 1 .. Cardinality(K) : At(s, K)[n] = s[Nth(K, n)]
    BY DEF At
  <1>4. At(s, K) \in Seq(S)
    <2>0. \A i \in K : s[i] \in S
      OBVIOUS
    <2>1. \A n \in 1 .. Cardinality(K) : s[Nth(K, n)] \in S
      BY <1>2, <2>0
    <2>2. At(s, K) \in [1 .. Cardinality(K) -> S]
      BY <2>1 DEF At
    <2> QED
      BY <1>2, <2>2, SeqDef
  <1>5. ASSUME NEW n \in DOMAIN At(s, K), NEW m \in DOMAIN At(s, K), Nth(K, n) = Nth(K, m)
        PROVE  n = m
    <2>1. /\ Cardinality({j \in K : j <= Nth(K, n)}) = n
          /\ Cardinality({j \in K : j <= Nth(K, m)}) = m
      BY <1>2, <1>3
    <2> QED
      BY <1>5, <2>1
  <1>6. \A i \in K : \E n \in DOMAIN At(s, K) : At(s, K)[n] = s[i]
    BY <1>2, <1>3
  <1> QED
    BY <1>2, <1>3, <1>4, <1>5, <1>6
=============================================================================
