---------------------------- MODULE ColdPath_proof ----------------------------
(***************************************************************************)
(* Proofs about ColdPath, for any cells, entities, answers, texts, caps    *)
(* and number of faults.                                                   *)
(***************************************************************************)
EXTENDS ColdPath, FiniteSetTheorems, SequenceTheorems, TLAPS

-----------------------------------------------------------------------------
(* Sequences *)

\* What a sequence holds.
LEMMA Holds ==
  ASSUME NEW S, NEW s \in Seq(S)
  PROVE  /\ ToSet(s) = {s[i] : i \in 1..Len(s)} /\ ToSet(s) \subseteq S
         /\ \A x : Contains(s, x) <=> x \in ToSet(s)
  BY LenProperties, ElementOfSeq DEF ToSet, Contains

\* One more element.
LEMMA HoldsAppend ==
  ASSUME NEW S, NEW s \in Seq(S), NEW x \in S
  PROVE  /\ Append(s, x) \in Seq(S) /\ Len(Append(s, x)) = Len(s) + 1
         /\ \A i \in 1..Len(s) : Append(s, x)[i] = s[i]
         /\ Append(s, x)[Len(s) + 1] = x
         /\ ToSet(Append(s, x)) = ToSet(s) \cup {x}
<1>1. /\ Append(s, x) \in Seq(S) /\ Len(Append(s, x)) = Len(s) + 1
      /\ \A i \in 1..Len(s) : Append(s, x)[i] = s[i]
      /\ Append(s, x)[Len(s) + 1] = x
  BY AppendProperties
<1>2. ToSet(Append(s, x)) = ToSet(s) \cup {x}
  <2>1. Len(s) \in Nat
    BY LenProperties
  <2>2. ToSet(s) = {s[i] : i \in 1..Len(s)}
    BY Holds
  <2>3. ToSet(Append(s, x)) = {Append(s, x)[i] : i \in 1..(Len(s) + 1)}
    BY <1>1, Holds
  <2> QED BY <1>1, <2>1, <2>2, <2>3
<1> QED BY <1>1, <1>2

\* The rank of a place among the places that stay.
Rank(kept, i) == Cardinality({j \in kept : j <= i})

\* The ranks number the places that stay, in their order and without gaps.
LEMMA RankOrder ==
  ASSUME NEW n \in Nat, NEW kept \in SUBSET (1..n)
  PROVE  /\ Cardinality(kept) \in Nat /\ Cardinality(kept) <= n
         /\ Cardinality(kept) = n => kept = 1..n
         /\ \A i \in kept : Rank(kept, i) \in 1..Cardinality(kept)
         /\ \A i, j \in kept : i < j => Rank(kept, i) < Rank(kept, j)
         /\ \A k \in 1..Cardinality(kept) : \E i \in kept : Rank(kept, i) = k
<1>1. IsFiniteSet(1..n) /\ Cardinality(1..n) = n
  BY FS_Interval
<1>2. /\ IsFiniteSet(kept) /\ Cardinality(kept) \in Nat
      /\ Cardinality(kept) <= n /\ (Cardinality(kept) = n => kept = 1..n)
  BY <1>1, FS_Subset, FS_CardinalityType
<1> DEFINE Upto(i) == {j \in kept : j <= i}
<1>3. \A i \in kept : IsFiniteSet(Upto(i)) /\ Cardinality(Upto(i)) \in 1..Cardinality(kept)
  <2> TAKE i \in kept
  <2>1. Upto(i) \in SUBSET kept /\ i \in Upto(i)
    OBVIOUS
  <2> HIDE DEF Upto
  <2>2. IsFiniteSet(Upto(i)) /\ Cardinality(Upto(i)) <= Cardinality(kept)
    BY <1>2, <2>1, FS_Subset
  <2>3. Cardinality(Upto(i)) \in Nat /\ Cardinality(Upto(i)) # 0
    BY <2>1, <2>2, FS_CardinalityType, FS_EmptySet
  <2> QED BY <1>2, <2>2, <2>3
<1>4. \A i, j \in kept : i < j => Cardinality(Upto(i)) < Cardinality(Upto(j))
  <2> SUFFICES ASSUME NEW i \in kept, NEW j \in kept, i < j
               PROVE  Cardinality(Upto(i)) < Cardinality(Upto(j))
    OBVIOUS
  <2>0. kept \subseteq Nat
    OBVIOUS
  <2>1. i \in Nat /\ j \in Nat
    BY <2>0
  <2>2. Upto(i) \in SUBSET Upto(j)
    <3> SUFFICES ASSUME NEW x \in kept, x <= i PROVE x <= j
      OBVIOUS
    <3>1. x \in Nat
      BY <2>0
    <3> QED BY ONLY <3>1, <2>1, x <= i, i < j
  <2>3. j \in Upto(j) /\ j \notin Upto(i)
    BY <2>1
  <2> HIDE DEF Upto
  <2>4. /\ Cardinality(Upto(i)) <= Cardinality(Upto(j))
        /\ Cardinality(Upto(i)) # Cardinality(Upto(j))
    BY <1>3, <2>2, <2>3, FS_Subset
  <2> QED BY <1>2, <1>3, <2>4
<1>5. \A k \in 1..Cardinality(kept) : \E i \in kept : Cardinality(Upto(i)) = k
  <2> DEFINE T == 1..Cardinality(kept)
             f == [i \in kept |-> Cardinality(Upto(i))]
  <2>1. IsFiniteSet(T) /\ Cardinality(T) = Cardinality(kept)
    BY <1>2, FS_Interval
  <2>2. f \in [kept -> T]
    BY <1>3
  <2>3. \A i, j \in kept : f[i] = f[j] => i = j
    <3> HIDE DEF Upto
    <3>1. \A i \in kept : Cardinality(Upto(i)) \in Nat
      BY <1>2, <1>3
    <3> QED BY <1>4, <3>1
  <2> HIDE DEF f, T
  <2>4. f \in Injection(kept, T)
    BY <2>2, <2>3 DEF Injection, IsInjective
  <2>5. f \in Surjection(kept, T)
    BY <2>1, <2>4, FS_Injection
  <2>6. \A k \in T : \E i \in kept : f[i] = k
    BY <2>5 DEF Surjection
  <2> QED BY <2>6 DEF f, T
<1> QED BY <1>2, <1>3, <1>4, <1>5 DEF Rank

\* Where the elements that stay come from.
LEMMA WithoutPlaces ==
  ASSUME NEW S, NEW s \in Seq(S), NEW gone
  PROVE  LET w == Without(s, gone)
         IN  /\ w \in Seq(S)
             /\ Len(w) <= Len(s) /\ (ToSet(s) \cap gone # {} => Len(w) < Len(s))
             /\ \E at \in [1..Len(w) -> 1..Len(s)] :
                  /\ \A k \in 1..Len(w) : w[k] = s[at[k]] /\ w[k] \notin gone
                  /\ \A k, l \in 1..Len(w) : k < l => at[k] < at[l]
                  /\ \A i \in 1..Len(s) : s[i] \notin gone =>
                       \E k \in 1..Len(w) : at[k] = i
<1> DEFINE kept == {i \in 1..Len(s) : s[i] \notin gone}
           m == Cardinality(kept)
           at == [k \in 1..m |-> CHOOSE i \in kept : Rank(kept, i) = k]
           w == Without(s, gone)
<1>1. Len(s) \in Nat /\ kept \in SUBSET (1..Len(s)) /\ \A i \in 1..Len(s) : s[i] \in S
  BY LenProperties, ElementOfSeq
<1>2. w = [k \in 1..m |-> s[CHOOSE i \in kept : Rank(kept, i) = k]]
  BY DEF Without, Rank
<1> HIDE DEF w
<1>3. /\ m \in Nat /\ m <= Len(s) /\ (m = Len(s) => kept = 1..Len(s))
      /\ \A i \in kept : Rank(kept, i) \in 1..m
      /\ \A i, j \in kept : i < j => Rank(kept, i) < Rank(kept, j)
      /\ \A k \in 1..m : \E i \in kept : Rank(kept, i) = k
  <2> HIDE DEF kept, m
  <2>1. Len(s) \in Nat /\ kept \in SUBSET (1..Len(s))
    BY <1>1
  <2>2. m = Cardinality(kept)
    BY DEF m
  <2> QED BY ONLY <2>1, <2>2, RankOrder
<1>4. \A k \in 1..m : at[k] \in kept /\ Rank(kept, at[k]) = k
  <2> HIDE DEF kept
  <2> QED BY <1>3
<1>5. \A k \in 1..m : w[k] = s[at[k]] /\ s[at[k]] \in S
  BY <1>1, <1>2, <1>4
<1> HIDE DEF at
<1>6. \A k, l \in 1..m : k < l => at[k] < at[l]
  <2> SUFFICES ASSUME NEW k \in 1..m, NEW l \in 1..m, k < l, ~(at[k] < at[l])
               PROVE  FALSE
    OBVIOUS
  <2>1. /\ at[k] \in kept /\ at[l] \in kept
        /\ Rank(kept, at[k]) = k /\ Rank(kept, at[l]) = l
    BY <1>4
  <2>2. at[l] = at[k] \/ at[l] < at[k]
    BY <1>1, <2>1
  <2> HIDE DEF kept
  <2>3. k \in Nat /\ l \in Nat
    BY <1>3
  <2> QED BY ONLY <1>3, <2>1, <2>2, <2>3, k < l
<1>7. \A i \in kept : \E k \in 1..m : at[k] = i
  <2> TAKE i \in kept
  <2> DEFINE k == Rank(kept, i)
  <2>1. k \in 1..m
    BY <1>3
  <2>2. at[k] \in kept /\ Rank(kept, at[k]) = k
    BY <1>4, <2>1
  <2>3. kept \subseteq Int
    BY <1>1
  <2> HIDE DEF kept
  <2>4. at[k] = i
    <3>1. ~(at[k] < i) /\ ~(i < at[k])
      BY ONLY <1>3, <2>1, <2>2, i \in kept
    <3>2. at[k] \in Int /\ i \in Int
      BY <2>2, <2>3
    <3> QED BY ONLY <3>1, <3>2
  <2> QED BY <2>1, <2>4
<1>8. w \in Seq(S) /\ Len(w) = m
  <2>1. w \in [1..m -> S]
    BY <1>2, <1>5
  <2> QED BY <1>3, <2>1, SeqDef, IsASeq, LenProperties
<1>9. at \in [1..m -> 1..Len(s)]
  BY <1>4 DEF at
<1>10. ToSet(s) \cap gone # {} => m < Len(s)
  <2>1. ToSet(s) = {s[i] : i \in 1..Len(s)}
    BY Holds
  <2>2. ToSet(s) \cap gone # {} => kept # 1..Len(s)
    BY <2>1
  <2> QED BY <1>1, <1>3, <2>2
<1>11. \A k \in 1..m : s[at[k]] \notin gone
  BY <1>4
<1> HIDE DEF m
<1>12. \A i \in 1..Len(s) : s[i] \notin gone => \E k \in 1..m : at[k] = i
  BY <1>7
<1> HIDE DEF kept
<1>13. /\ w \in Seq(S)
       /\ Len(w) <= Len(s) /\ (ToSet(s) \cap gone # {} => Len(w) < Len(s))
  BY ONLY <1>3, <1>8, <1>10
<1>14. /\ at \in [1..Len(w) -> 1..Len(s)]
       /\ \A k \in 1..Len(w) : w[k] = s[at[k]] /\ w[k] \notin gone
       /\ \A k, l \in 1..Len(w) : k < l => at[k] < at[l]
       /\ \A i \in 1..Len(s) : s[i] \notin gone => \E k \in 1..Len(w) : at[k] = i
  <2>1. /\ at \in [1..m -> 1..Len(s)]
        /\ \A k \in 1..m : w[k] = s[at[k]] /\ w[k] \notin gone
        /\ \A k, l \in 1..m : k < l => at[k] < at[l]
        /\ \A i \in 1..Len(s) : s[i] \notin gone => \E k \in 1..m : at[k] = i
    BY ONLY <1>5, <1>6, <1>9, <1>11, <1>12
  <2>2. Len(w) = m
    BY ONLY <1>8
  <2> QED BY ONLY <2>1, <2>2
<1>15. \E p \in [1..Len(w) -> 1..Len(s)] :
         /\ \A k \in 1..Len(w) : w[k] = s[p[k]] /\ w[k] \notin gone
         /\ \A k, l \in 1..Len(w) : k < l => p[k] < p[l]
         /\ \A i \in 1..Len(s) : s[i] \notin gone => \E k \in 1..Len(w) : p[k] = i
  BY ONLY <1>14, Zenon
<1> QED BY ONLY <1>13, <1>15, Zenon DEF w

\* What stays: the other elements, each as often as before.
LEMMA WithoutHolds ==
  ASSUME NEW S, NEW s \in Seq(S), NEW gone
  PROVE  /\ Without(s, gone) \in Seq(S)
         /\ ToSet(Without(s, gone)) = ToSet(s) \ gone
         /\ IsInjective(s) => IsInjective(Without(s, gone))
         /\ Len(Without(s, gone)) <= Len(s)
         /\ ToSet(s) \cap gone # {} => Len(Without(s, gone)) < Len(s)
<1> DEFINE w == Without(s, gone)
<1>1. PICK at \in [1..Len(w) -> 1..Len(s)] :
        /\ \A k \in 1..Len(w) : w[k] = s[at[k]] /\ w[k] \notin gone
        /\ \A k, l \in 1..Len(w) : k < l => at[k] < at[l]
        /\ \A i \in 1..Len(s) : s[i] \notin gone =>
             \E k \in 1..Len(w) : at[k] = i
  BY WithoutPlaces
<1>2. /\ w \in Seq(S) /\ Len(w) <= Len(s)
      /\ ToSet(s) \cap gone # {} => Len(w) < Len(s)
  BY WithoutPlaces
<1> HIDE DEF w
<1>3. /\ ToSet(s) = {s[i] : i \in 1..Len(s)}
      /\ ToSet(w) = {w[k] : k \in 1..Len(w)}
      /\ DOMAIN s = 1..Len(s) /\ DOMAIN w = 1..Len(w) /\ Len(w) \in Nat /\ Len(s) \in Nat
  BY <1>2, Holds, LenProperties
<1>4. ToSet(w) = ToSet(s) \ gone
  <2>1. ToSet(w) \subseteq ToSet(s) \ gone
    BY ONLY <1>1, <1>3
  <2>2. ToSet(s) \ gone \subseteq ToSet(w)
    BY ONLY <1>1, <1>3
  <2> QED BY <2>1, <2>2
<1>5. IsInjective(s) => IsInjective(w)
  <2> SUFFICES ASSUME IsInjective(s), NEW k \in 1..Len(w), NEW l \in 1..Len(w), w[k] = w[l]
               PROVE  k = l
    BY <1>3 DEF IsInjective
  <2>1. at[k] = at[l]
    BY <1>1, <1>3 DEF IsInjective
  <2>2. at[k] \in Int /\ at[l] \in Int
    BY <1>1, <1>3
  <2>3. ~(k < l) /\ ~(l < k)
    BY <1>1, <2>1, <2>2
  <2> QED BY <1>3, <2>3
<1> QED BY <1>2, <1>4, <1>5 DEF w

\* The elements of W are the newest of an LRU sequence.
Recent(s, W) == \A i, j \in 1..Len(s) : i < j /\ s[i] \in W => s[j] \in W

\* The oldest element gone.
LEMMA TailHolds ==
  ASSUME NEW S, NEW s \in Seq(S), Len(s) # 0
  PROVE  /\ Head(s) \in S /\ Head(s) = s[1] /\ s # <<>>
         /\ Tail(s) \in Seq(S) /\ Len(Tail(s)) = Len(s) - 1
         /\ \A i \in 1..(Len(s) - 1) : Tail(s)[i] = s[i + 1]
         /\ ToSet(s) = {Head(s)} \cup ToSet(Tail(s))
         /\ IsInjective(s) => IsInjective(Tail(s)) /\ Head(s) \notin ToSet(Tail(s))
         /\ \A W : Recent(s, W) => Recent(Tail(s), W)
<1>0. Len(s) \in Nat /\ Len(s) > 0 /\ DOMAIN s = 1..Len(s)
  BY LenProperties
<1>1. /\ Head(s) \in S /\ Head(s) = s[1] /\ s # <<>>
      /\ Tail(s) \in Seq(S) /\ Len(Tail(s)) = Len(s) - 1
      /\ \A i \in 1..(Len(s) - 1) : Tail(s)[i] = s[i + 1]
  <2>1. s # <<>>
    BY <1>0, EmptySeq
  <2>2. Head(s) \in S /\ Tail(s) \in Seq(S) /\ Len(Tail(s)) = Len(s) - 1
    BY <2>1, HeadTailProperties
  <2>3. \A i \in 1..(Len(s) - 1) : Tail(s)[i] = s[i + 1]
    BY <1>0, <2>1, <2>2, HeadTailProperties
  <2>4. Head(s) = s[1]
    BY <2>1
  <2> QED BY <2>1, <2>2, <2>3, <2>4
<1>2. DOMAIN Tail(s) = 1..(Len(s) - 1)
  BY <1>1, LenProperties
<1>3. /\ \A x : x \in ToSet(s) <=> \E i \in 1..Len(s) : x = s[i]
      /\ \A x : x \in ToSet(Tail(s)) <=> \E i \in 1..(Len(s) - 1) : x = s[i + 1]
  <2>1. \A x : x \in ToSet(s) <=> \E i \in 1..Len(s) : x = s[i]
    BY <1>0 DEF ToSet
  <2>2. \A x : x \in ToSet(Tail(s)) <=> \E i \in 1..(Len(s) - 1) : x = Tail(s)[i]
    BY ONLY <1>2 DEF ToSet
  <2> QED BY ONLY <1>1, <2>1, <2>2
<1>4. \A i \in 1..Len(s) : i = 1 \/ (i - 1 \in 1..(Len(s) - 1) /\ i = (i - 1) + 1)
  BY <1>0
<1>5. ToSet(s) = {Head(s)} \cup ToSet(Tail(s))
  <2>1. \A i \in 1..(Len(s) - 1) : i + 1 \in 1..Len(s)
    BY <1>0
  <2>2. 1 \in 1..Len(s)
    BY <1>0
  <2>3. \A x \in ToSet(s) : x = Head(s) \/ x \in ToSet(Tail(s))
    BY ONLY <1>1, <1>3, <1>4
  <2>4. \A x \in ToSet(Tail(s)) : x \in ToSet(s)
    BY ONLY <1>3, <2>1
  <2> QED BY <1>1, <1>3, <2>2, <2>3, <2>4
<1>6. IsInjective(s) => IsInjective(Tail(s)) /\ Head(s) \notin ToSet(Tail(s))
  BY ONLY <1>0, <1>1, <1>2, <1>3 DEF IsInjective
<1>7. \A W : Recent(s, W) => Recent(Tail(s), W)
  BY ONLY <1>0, <1>1 DEF Recent
<1> QED BY <1>1, <1>5, <1>6, <1>7

\* What is touched becomes the newest; nothing else is moved past another.
LEMMA MoveToEndHolds ==
  ASSUME NEW S, NEW s \in Seq(S), IsInjective(s), NEW x \in S
  PROVE  /\ MoveToEnd(s, x) \in Seq(S) /\ IsInjective(MoveToEnd(s, x))
         /\ ToSet(MoveToEnd(s, x)) = ToSet(s) \cup {x}
         /\ Len(MoveToEnd(s, x)) # 0 /\ Len(MoveToEnd(s, x)) <= Len(s) + 1
         /\ x \in ToSet(s) => Len(MoveToEnd(s, x)) <= Len(s)
         /\ \A W : Recent(s, W) => Recent(MoveToEnd(s, x), W \cup {x})
<1> DEFINE r == Without(s, {x})
           w == MoveToEnd(s, x)
<1>1. /\ r \in Seq(S) /\ ToSet(r) = ToSet(s) \ {x} /\ IsInjective(r)
      /\ Len(r) <= Len(s) /\ (ToSet(s) \cap {x} # {} => Len(r) < Len(s))
  BY WithoutHolds
<1>2. PICK at \in [1..Len(r) -> 1..Len(s)] :
        /\ \A k \in 1..Len(r) : r[k] = s[at[k]] /\ r[k] \notin {x}
        /\ \A k, l \in 1..Len(r) : k < l => at[k] < at[l]
  BY WithoutPlaces
<1> HIDE DEF r
<1>3. w = Append(r, x)
  BY DEF MoveToEnd, r
<1> HIDE DEF w
<1>4. /\ w \in Seq(S) /\ Len(w) = Len(r) + 1
      /\ \A i \in 1..Len(r) : w[i] = r[i]
      /\ w[Len(r) + 1] = x /\ ToSet(w) = ToSet(r) \cup {x}
  BY <1>1, <1>3, HoldsAppend
<1>5. /\ Len(r) \in Nat /\ Len(s) \in Nat /\ DOMAIN w = 1..(Len(r) + 1)
      /\ DOMAIN r = 1..Len(r)
  BY <1>1, <1>4, LenProperties
<1>6. IsInjective(w)
  BY ONLY <1>1, <1>2, <1>4, <1>5 DEF IsInjective
<1>7. \A W : Recent(s, W) => Recent(w, W \cup {x})
  <2> SUFFICES ASSUME NEW W, Recent(s, W), NEW i \in 1..Len(w), NEW j \in 1..Len(w),
                      i < j, w[i] \in W \cup {x}
               PROVE  w[j] \in W \cup {x}
    BY DEF Recent
  <2>1. CASE j = Len(r) + 1
    BY <1>4, <2>1
  <2>2. CASE j # Len(r) + 1
    <3>1. i \in 1..Len(r) /\ j \in 1..Len(r)
      BY <1>4, <1>5, <2>2
    <3>2. w[i] = s[at[i]] /\ w[j] = s[at[j]] /\ w[i] \in W /\ at[i] < at[j]
      BY <1>2, <1>4, <3>1
    <3> QED BY <1>2, <3>1, <3>2 DEF Recent
  <2> QED BY <2>1, <2>2
<1>8. /\ ToSet(w) = ToSet(s) \cup {x}
      /\ Len(w) # 0 /\ Len(w) <= Len(s) + 1 /\ (x \in ToSet(s) => Len(w) <= Len(s))
  BY <1>1, <1>4, <1>5
<1> QED BY ONLY <1>4, <1>6, <1>7, <1>8 DEF w

\* A sequence without repetition is no longer than the set it is made of.
LEMMA NoLonger ==
  ASSUME NEW S, NEW s \in Seq(S), IsInjective(s), NEW W, IsFiniteSet(W), ToSet(s) \subseteq W
  PROVE  Len(s) <= Cardinality(W)
<1>1. Len(s) \in Nat /\ DOMAIN s = 1..Len(s) /\ ToSet(s) = {s[i] : i \in 1..Len(s)}
  BY Holds, LenProperties
<1>2. s \in Injection(1..Len(s), W)
  <2>1. s \in [1..Len(s) -> W]
    BY <1>1, LenProperties
  <2> QED BY <2>1 DEF Injection
<1>3. Cardinality(1..Len(s)) = Len(s)
  BY <1>1, FS_Interval
<1> QED BY <1>2, <1>3, FS_Injection

-----------------------------------------------------------------------------
(* The graph *)

Graph == [nodes : Seq(Nodes), edges : Seq(Edges), adj : [Nodes -> SUBSET Edges]]

\* An edge leads from a memory to an entity, which are two nodes.
LEMMA EdgeEnds ==
  \A e \in Edges : e[1] \in Nodes /\ e[2] \in Nodes /\ e[1] # e[2] /\ e = <<e[1], e[2]>>
  BY NodesAssumption DEF Edges, Nodes

\* The empty graph is a graph, and consistent.
LEMMA EmptyHolds == EmptyGraph \in Graph /\ Consistent(EmptyGraph) /\ Dangling(EmptyGraph) = {}
<1>1. ToSet(<<>>) = {} /\ IsInjective(<<>>) /\ Len(<<>>) = 0
  BY EmptySeq DEF ToSet, IsInjective
<1>2. EmptyGraph \in Graph
  BY DEF EmptyGraph, Graph
<1> QED BY <1>1, <1>2, CapsAssumption DEF EmptyGraph, Consistent, Dangling

\* Touching a node keeps the graph consistent, evicting another one with all its
\* edges if it must; the newest nodes stay, as many as there is room for.
LEMMA UpsertNodeHolds ==
  ASSUME NEW g \in Graph, Consistent(g), NEW n \in Nodes
  PROVE  LET h == UpsertNode(g, n)
         IN  /\ h \in Graph /\ Consistent(h)
             /\ ToSet(h.edges) \subseteq ToSet(g.edges)
             /\ Dangling(g) = {} => Dangling(h) = {}
             /\ \A W \in SUBSET ToSet(g.nodes) :
                  /\ Recent(g.nodes, W)
                  /\ IsFiniteSet(W \cup {n}) /\ Cardinality(W \cup {n}) <= MaxNodes
                  => Recent(h.nodes, W \cup {n}) /\ W \cup {n} \subseteq ToSet(h.nodes)
<1> DEFINE nodes == MoveToEnd(g.nodes, n)
           h == UpsertNode(g, n)
<1>0. /\ g.nodes \in Seq(Nodes) /\ g.edges \in Seq(Edges) /\ g.adj \in [Nodes -> SUBSET Edges]
      /\ \A m \in Nodes : g.adj[m] = {e \in ToSet(g.edges) : m \in {e[1], e[2]}}
      /\ IsInjective(g.nodes) /\ IsInjective(g.edges)
      /\ Len(g.nodes) <= MaxNodes /\ Len(g.edges) <= MaxEdges
  BY DEF Graph, Consistent
<1>1. /\ nodes \in Seq(Nodes) /\ IsInjective(nodes)
      /\ ToSet(nodes) = ToSet(g.nodes) \cup {n}
      /\ Len(nodes) # 0 /\ Len(nodes) <= Len(g.nodes) + 1
      /\ \A W : Recent(g.nodes, W) => Recent(nodes, W \cup {n})
  <2> HIDE DEF h
  <2>1. g.nodes \in Seq(Nodes) /\ IsInjective(g.nodes)
    BY <1>0
  <2> QED BY ONLY <2>1, n \in Nodes, MoveToEndHolds, ZenonT(30) DEF nodes
<1>2. MaxNodes \in Nat /\ MaxEdges \in Nat /\ Len(nodes) \in Nat /\ Len(g.nodes) \in Nat
  BY <1>0, <1>1, CapsAssumption, LenProperties
<1> HIDE DEF nodes
<1>3. CASE Len(nodes) <= MaxNodes
  <2>1. h = [g EXCEPT !.nodes = nodes]
    BY <1>3 DEF UpsertNode, nodes
  <2> HIDE DEF h
  <2>2. /\ h \in Graph /\ h.nodes = nodes /\ h.edges = g.edges /\ h.adj = g.adj
    BY <1>1, <2>1 DEF Graph
  <2>3. Consistent(h)
    BY <1>0, <1>1, <1>3, <2>2 DEF Consistent
  <2>4. Dangling(g) = {} => Dangling(h) = {}
    BY <1>1, <2>2 DEF Dangling
  <2> QED BY <1>1, <2>2, <2>3, <2>4 DEF h
<1>4. CASE ~(Len(nodes) <= MaxNodes)
  <2> DEFINE k == Head(nodes)
             rest == Tail(nodes)
             gone == g.adj[k] \cap ToSet(g.edges)
  <2>1. /\ k \in Nodes /\ k = nodes[1] /\ rest \in Seq(Nodes) /\ Len(rest) = Len(nodes) - 1
        /\ ToSet(nodes) = {k} \cup ToSet(rest)
        /\ IsInjective(rest) /\ k \notin ToSet(rest)
        /\ \A W : Recent(nodes, W) => Recent(rest, W)
    BY <1>1, TailHolds
  <2>2. h = EvictNode([g EXCEPT !.nodes = rest], k)
    BY <1>4 DEF UpsertNode, nodes
  <2> HIDE DEF k, rest, h
  <2>3. /\ h = [nodes |-> rest, edges |-> Without(g.edges, gone),
                adj |-> [m \in Nodes |-> IF m = k THEN {} ELSE g.adj[m] \ gone]]
    BY <2>2 DEF EvictNode, Graph
  <2>4. /\ Without(g.edges, gone) \in Seq(Edges)
        /\ ToSet(Without(g.edges, gone)) = ToSet(g.edges) \ gone
        /\ IsInjective(Without(g.edges, gone))
        /\ Len(Without(g.edges, gone)) <= Len(g.edges)
    BY <1>0, WithoutHolds
  <2>5. gone = {e \in ToSet(g.edges) : k \in {e[1], e[2]}}
    BY <1>0, <2>1
  <2> HIDE DEF gone
  <2>6. /\ h.nodes = rest /\ h.edges \in Seq(Edges)
        /\ ToSet(h.edges) = ToSet(g.edges) \ gone /\ IsInjective(h.edges)
        /\ Len(h.edges) <= Len(g.edges)
        /\ h.adj = [m \in Nodes |-> IF m = k THEN {} ELSE g.adj[m] \ gone]
    BY <2>3, <2>4
  <2>7. h \in Graph
    <3>1. h.adj \in [Nodes -> SUBSET Edges]
      BY <1>0, <2>6
    <3> QED BY <2>1, <2>3, <2>4, <3>1 DEF Graph
  <2>8. Consistent(h)
    <3>1. \A m \in Nodes : h.adj[m] = {e \in ToSet(h.edges) : m \in {e[1], e[2]}}
      BY <1>0, <2>5, <2>6
    <3>2. Len(h.nodes) <= MaxNodes /\ Len(h.edges) <= MaxEdges
      <4>1. Len(g.edges) \in Nat /\ Len(h.edges) \in Nat
        BY <1>0, <2>6, LenProperties
      <4> QED BY <1>0, <1>1, <1>2, <2>1, <2>6, <4>1
    <3> QED BY <2>1, <2>6, <3>1, <3>2 DEF Consistent
  <2>9. Dangling(g) = {} => Dangling(h) = {}
    BY <1>1, <2>1, <2>5, <2>6 DEF Dangling
  <2>10. ASSUME NEW W \in SUBSET ToSet(g.nodes), Recent(g.nodes, W),
                IsFiniteSet(W \cup {n}), Cardinality(W \cup {n}) <= MaxNodes
         PROVE  Recent(h.nodes, W \cup {n}) /\ W \cup {n} \subseteq ToSet(h.nodes)
    <3>1. Recent(nodes, W \cup {n}) /\ W \cup {n} \subseteq ToSet(nodes)
      BY <1>1, <2>10
    <3>2. k \notin W \cup {n}
      <4> SUFFICES ASSUME k \in W \cup {n} PROVE FALSE
        OBVIOUS
      <4>1. \A j \in 1..Len(nodes) : nodes[j] \in W \cup {n}
        BY <1>1, <1>2, <2>1, <3>1 DEF Recent
      <4>2. ToSet(nodes) \subseteq W \cup {n}
        BY <1>1, <4>1, Holds
      <4>3. Len(nodes) <= Cardinality(W \cup {n})
        BY <1>1, <2>10, <4>2, NoLonger
      <4>4. Cardinality(W \cup {n}) \in Nat
        BY <2>10, FS_CardinalityType
      <4> QED BY <1>2, <1>4, <2>10, <4>3, <4>4
    <3> QED BY <2>1, <2>6, <3>1, <3>2
  <2> QED BY <2>6, <2>7, <2>8, <2>9, <2>10 DEF h
<1> QED BY <1>3, <1>4

\* An edge that is dropped leaves the adjacency of both its ends.
LEMMA EvictEdgeHolds ==
  ASSUME NEW g \in Graph, Len(g.edges) # 0, IsInjective(g.edges),
         \A n \in Nodes : g.adj[n] = {e \in ToSet(g.edges) : n \in {e[1], e[2]}}
  PROVE  /\ EvictEdge(g) \in Graph
         /\ EvictEdge(g).nodes = g.nodes /\ EvictEdge(g).edges = Tail(g.edges)
         /\ \A n \in Nodes : EvictEdge(g).adj[n] =
              {e \in ToSet(Tail(g.edges)) : n \in {e[1], e[2]}}
<1> DEFINE x == Head(g.edges)
           rest == Tail(g.edges)
           h == EvictEdge(g)
<1>1. /\ x \in Edges /\ rest \in Seq(Edges) /\ ToSet(g.edges) = {x} \cup ToSet(rest)
      /\ x \notin ToSet(rest)
  <2>1. g.edges \in Seq(Edges)
    BY DEF Graph
  <2> QED BY <2>1, TailHolds
<1> HIDE DEF rest
<1>2. /\ x[1] \in Nodes /\ x[2] \in Nodes
      /\ g.nodes \in Seq(Nodes) /\ g.adj \in [Nodes -> SUBSET Edges]
  BY <1>1, EdgeEnds DEF Graph
<1>3. h = [g EXCEPT !.edges = rest, !.adj[x[1]] = @ \ {x}, !.adj[x[2]] = @ \ {x}]
  BY DEF EvictEdge, rest
<1> HIDE DEF h, x
<1>4. /\ h.nodes = g.nodes /\ h.edges = rest
      /\ h.adj = [[g.adj EXCEPT ![x[1]] = @ \ {x}] EXCEPT ![x[2]] = @ \ {x}]
      /\ h = [nodes |-> h.nodes, edges |-> h.edges, adj |-> h.adj]
  BY <1>3 DEF Graph
<1>5. \A n \in Nodes : h.adj[n] = g.adj[n] \ {x}
  <2> TAKE n \in Nodes
  <2>1. n \notin {x[1], x[2]} => x \notin g.adj[n]
    OBVIOUS
  <2> QED BY ONLY <1>2, <1>4, <2>1, n \in Nodes
<1>6. h.adj \in [Nodes -> SUBSET Edges]
  BY ONLY <1>2, <1>4
<1>7. h \in Graph
  BY ONLY <1>1, <1>2, <1>4, <1>6 DEF Graph
<1>8. \A n \in Nodes : h.adj[n] = {e \in ToSet(rest) : n \in {e[1], e[2]}}
  BY <1>1, <1>5
<1> QED BY <1>4, <1>7, <1>8 DEF h, rest

\* Touching an edge keeps the graph consistent and adds no other edge.
LEMMA UpsertEdgeHolds ==
  ASSUME NEW g \in Graph, Consistent(g), NEW x \in Edges
  PROVE  LET h == UpsertEdge(g, x)
         IN  /\ h \in Graph /\ Consistent(h) /\ h.nodes = g.nodes
             /\ ToSet(h.edges) \subseteq ToSet(g.edges) \cup {x}
<1> DEFINE h == UpsertEdge(g, x)
<1>0. /\ g.nodes \in Seq(Nodes) /\ g.edges \in Seq(Edges) /\ g.adj \in [Nodes -> SUBSET Edges]
      /\ \A m \in Nodes : g.adj[m] = {e \in ToSet(g.edges) : m \in {e[1], e[2]}}
      /\ IsInjective(g.nodes) /\ IsInjective(g.edges)
      /\ Len(g.nodes) <= MaxNodes /\ Len(g.edges) <= MaxEdges
  BY DEF Graph, Consistent
<1>1. MaxEdges \in Nat /\ Len(g.edges) \in Nat
  BY <1>0, CapsAssumption, LenProperties
<1>2. x[1] \in Nodes /\ x[2] \in Nodes
  BY EdgeEnds
<1>3. CASE Contains(g.edges, x)
  <2> DEFINE es == MoveToEnd(g.edges, x)
  <2>1. x \in ToSet(g.edges)
    BY <1>0, <1>3, Holds
  <2>2. /\ es \in Seq(Edges) /\ IsInjective(es) /\ ToSet(es) = ToSet(g.edges) \cup {x}
        /\ x \in ToSet(g.edges) => Len(es) <= Len(g.edges)
    <3>1. g.edges \in Seq(Edges) /\ IsInjective(g.edges)
      BY <1>0
    <3> QED BY ONLY <3>1, x \in Edges, MoveToEndHolds, ZenonT(30)
  <2>3. h = [g EXCEPT !.edges = es]
    BY <1>3 DEF UpsertEdge
  <2> HIDE DEF es, h
  <2>4. h \in Graph /\ h.nodes = g.nodes /\ h.edges = es /\ h.adj = g.adj
    BY <2>2, <2>3 DEF Graph
  <2>5. Len(h.edges) <= MaxEdges
    <3>1. Len(es) \in Nat
      BY <2>2, LenProperties
    <3> QED BY <1>0, <1>1, <2>1, <2>2, <2>4, <3>1
  <2>6. ToSet(h.edges) = ToSet(g.edges)
    BY <2>1, <2>2, <2>4
  <2>7. Consistent(h)
    BY <1>0, <2>2, <2>4, <2>5, <2>6 DEF Consistent
  <2> QED BY <2>4, <2>6, <2>7 DEF h
<1>4. CASE ~Contains(g.edges, x)
  <2> DEFINE es == Append(g.edges, x)
             f == [g EXCEPT !.edges = es, !.adj[x[1]] = @ \cup {x}, !.adj[x[2]] = @ \cup {x}]
  <2>1. x \notin ToSet(g.edges)
    BY <1>0, <1>4, Holds
  <2>2. /\ es \in Seq(Edges) /\ Len(es) = Len(g.edges) + 1
        /\ \A i \in 1..Len(g.edges) : es[i] = g.edges[i]
        /\ es[Len(g.edges) + 1] = x /\ ToSet(es) = ToSet(g.edges) \cup {x}
    BY <1>0, HoldsAppend
  <2>3. IsInjective(es)
    <3>1. DOMAIN es = 1..(Len(g.edges) + 1) /\ DOMAIN g.edges = 1..Len(g.edges)
      BY <1>0, <2>2, LenProperties
    <3>2. \A i \in 1..Len(g.edges) : es[i] # x
      BY <2>1, <2>2, <3>1 DEF ToSet
    <3> HIDE DEF es
    <3>3. /\ Len(g.edges) \in Nat
          /\ \A i, j \in 1..Len(g.edges) : g.edges[i] = g.edges[j] => i = j
          /\ \A i \in 1..Len(g.edges) : es[i] = g.edges[i]
          /\ es[Len(g.edges) + 1] = x
      BY ONLY <1>0, <1>1, <2>2, <3>1 DEF IsInjective
    <3>4. \A i, j \in 1..(Len(g.edges) + 1) : es[i] = es[j] => i = j
      <4> SUFFICES ASSUME NEW i \in 1..(Len(g.edges) + 1), NEW j \in 1..(Len(g.edges) + 1),
                          es[i] = es[j]
                   PROVE  i = j
        OBVIOUS
      <4>1. CASE i \in 1..Len(g.edges) /\ j \in 1..Len(g.edges)
        BY ONLY <3>3, <4>1, es[i] = es[j]
      <4>2. CASE ~(i \in 1..Len(g.edges) /\ j \in 1..Len(g.edges))
        BY ONLY <3>2, <3>3, <4>2, es[i] = es[j], i \in 1..(Len(g.edges) + 1),
                j \in 1..(Len(g.edges) + 1)
      <4> QED BY <4>1, <4>2
    <3> QED BY ONLY <3>1, <3>4 DEF IsInjective
  <2>4. h = IF Len(f.edges) <= MaxEdges THEN f ELSE EvictEdge(f)
    BY <1>4 DEF UpsertEdge
  <2>0. f = [g EXCEPT !.edges = es, !.adj[x[1]] = @ \cup {x}, !.adj[x[2]] = @ \cup {x}]
    OBVIOUS
  <2> HIDE DEF h, es, f
  <2>5. /\ f.nodes = g.nodes /\ f.edges = es
        /\ f.adj = [[g.adj EXCEPT ![x[1]] = @ \cup {x}] EXCEPT ![x[2]] = @ \cup {x}]
        /\ f = [nodes |-> f.nodes, edges |-> f.edges, adj |-> f.adj]
    BY ONLY <1>2, <2>0, g \in Graph DEF Graph
  <2>6. \A n \in Nodes : f.adj[n] = g.adj[n] \cup (IF n \in {x[1], x[2]} THEN {x} ELSE {})
    BY ONLY <1>0, <1>2, <2>5
  <2>7. \A n \in Nodes : f.adj[n] = {e \in ToSet(es) : n \in {e[1], e[2]}}
    BY <1>0, <2>2, <2>6
  <2>8. f \in Graph
    <3>1. f.adj \in [Nodes -> SUBSET Edges]
      BY ONLY <1>0, <1>2, <2>5, x \in Edges
    <3> QED BY ONLY <1>0, <2>2, <2>5, <3>1 DEF Graph
  <2>9. CASE Len(es) <= MaxEdges
    <3>1. h = f
      BY <2>4, <2>5, <2>9
    <3>2. Consistent(f)
      BY <1>0, <2>3, <2>5, <2>7, <2>9 DEF Consistent
    <3> QED BY <2>2, <2>5, <2>8, <3>1, <3>2 DEF h
  <2>10. CASE ~(Len(es) <= MaxEdges)
    <3>1. h = EvictEdge(f) /\ Len(es) # 0
      BY <1>1, <2>2, <2>4, <2>5, <2>10
    <3>2. /\ h \in Graph /\ h.nodes = f.nodes /\ h.edges = Tail(es)
          /\ \A n \in Nodes : h.adj[n] = {e \in ToSet(h.edges) : n \in {e[1], e[2]}}
      <4>1. /\ Len(f.edges) # 0 /\ IsInjective(f.edges) /\ f.edges = es
            /\ \A n \in Nodes : f.adj[n] = {e \in ToSet(f.edges) : n \in {e[1], e[2]}}
        BY <2>3, <2>5, <2>7, <3>1
      <4>2. /\ EvictEdge(f) \in Graph
            /\ EvictEdge(f).nodes = f.nodes /\ EvictEdge(f).edges = Tail(f.edges)
            /\ \A n \in Nodes : EvictEdge(f).adj[n] =
                 {e \in ToSet(Tail(f.edges)) : n \in {e[1], e[2]}}
        BY ONLY <2>8, <4>1, EvictEdgeHolds
      <4> QED BY ONLY <3>1, <4>1, <4>2
    <3>3. /\ Len(Tail(es)) = Len(es) - 1 /\ IsInjective(Tail(es))
          /\ ToSet(Tail(es)) \subseteq ToSet(es)
      BY <2>2, <2>3, <3>1, TailHolds
    <3>4. Len(h.edges) <= MaxEdges
      BY <1>0, <1>1, <2>2, <3>2, <3>3
    <3>5. Consistent(h)
      BY <1>0, <2>5, <3>2, <3>3, <3>4 DEF Consistent
    <3> QED BY <2>2, <2>5, <3>2, <3>3, <3>5 DEF h
  <2> QED BY <2>9, <2>10
<1> QED BY <1>3, <1>4

\* Every place of an odd length but the first is that of a pair.
LEMMA Pairs ==
  ASSUME NEW n \in Nat, NEW k \in 1..(2 * n + 1)
  PROVE  k = 1 \/ \E i \in 1..n : k = 2 * i \/ k = 2 * i + 1
<1> DEFINE i == k \div 2
<1>1. k = (2 * i) + (k % 2) /\ k % 2 \in 0..1 /\ i \in Int
  OBVIOUS
<1> HIDE DEF i
<1>2. k = 2 * i \/ k = 2 * i + 1
  BY ONLY <1>1
<1>3. k # 1 => i \in 1..n
  BY <1>2, <1>1
<1> QED BY <1>2, <1>3

\* add_memory_node() touches the memory, then each entity before its edge.
LEMMA CallAt ==
  ASSUME NEW c \in Cells, NEW ents \in Seq(Entities)
  PROVE  /\ CallsFor(c, ents)[1] = [kind |-> "node", node |-> c]
         /\ \A i \in 1..Len(ents) :
              /\ CallsFor(c, ents)[2 * i] = [kind |-> "node", node |-> ents[i]]
              /\ CallsFor(c, ents)[2 * i + 1] = [kind |-> "edge", edge |-> <<c, ents[i]>>]
<1>0. Len(ents) \in Nat
  BY LenProperties
<1>1. CallsFor(c, ents)[1] = [kind |-> "node", node |-> c]
  BY <1>0 DEF CallsFor
<1>2. ASSUME NEW i \in 1..Len(ents)
      PROVE  /\ CallsFor(c, ents)[2 * i] = [kind |-> "node", node |-> ents[i]]
             /\ CallsFor(c, ents)[2 * i + 1] = [kind |-> "edge", edge |-> <<c, ents[i]>>]
  <2>1. ASSUME NEW k \in 1..(2 * Len(ents) + 1)
        PROVE  CallsFor(c, ents)[k] =
                 IF k = 1 THEN [kind |-> "node", node |-> c]
                 ELSE IF k % 2 = 0 THEN [kind |-> "node", node |-> ents[k \div 2]]
                 ELSE [kind |-> "edge", edge |-> <<c, ents[k \div 2]>>]
    BY DEF CallsFor
  <2> DEFINE e == 2 * i
             o == 2 * i + 1
  <2>2. /\ e % 2 = 0 /\ e \div 2 = i /\ o % 2 = 1 /\ o \div 2 = i
        /\ e # 1 /\ o # 1 /\ e \in 1..(2 * Len(ents) + 1) /\ o \in 1..(2 * Len(ents) + 1)
    BY <1>0
  <2> HIDE DEF e, o
  <2>3. CallsFor(c, ents)[e] = [kind |-> "node", node |-> ents[i]]
    BY <2>1, <2>2
  <2>4. CallsFor(c, ents)[o] = [kind |-> "edge", edge |-> <<c, ents[i]>>]
    <3>1. o # 1 /\ o % 2 # 0 /\ o \div 2 = i /\ o \in 1..(2 * Len(ents) + 1)
      BY ONLY <2>2
    <3> QED BY ONLY <2>1, <3>1, Zenon
  <2> QED BY <2>3, <2>4 DEF e, o
<1> QED BY <1>1, <1>2

\* A list holds no more elements than it is long.
LEMMA HoldsFew ==
  ASSUME NEW S, NEW s \in Seq(S)
  PROVE  IsFiniteSet(ToSet(s)) /\ Cardinality(ToSet(s)) <= Len(s)
<1>1. Len(s) \in Nat /\ DOMAIN s = 1..Len(s) /\ ToSet(s) = {s[i] : i \in 1..Len(s)}
  BY Holds, LenProperties
<1>2. s \in Surjection(1..Len(s), ToSet(s))
  <2>1. s \in [1..Len(s) -> ToSet(s)]
    BY <1>1, LenProperties
  <2>2. \A x \in ToSet(s) : \E i \in 1..Len(s) : s[i] = x
    BY <1>1
  <2> QED BY <2>1, <2>2 DEF Surjection
<1>3. IsFiniteSet(1..Len(s)) /\ Cardinality(1..Len(s)) = Len(s)
  BY <1>1, FS_Interval
<1> QED BY <1>2, <1>3, FS_Surjection

-----------------------------------------------------------------------------
(* Type correctness *)

\* What the extractors find is a list of entities, maybe empty.
LEMMA ListsOfEntities ==
  /\ <<>> \in EntityLists
  /\ EpisodeLists \subseteq EntityLists /\ TextLists \subseteq EntityLists
  /\ \A list \in EntityLists :
       /\ list \in Seq(Entities) /\ Len(list) \in Nat
       /\ ToSet(list) = {list[i] : i \in 1..Len(list)} /\ ToSet(list) \subseteq Entities
       /\ \A failed \in SUBSET ToSet(list) :
            /\ Cardinality(failed) \in Nat
            /\ failed # {} => Cardinality(failed) > 0
<1>1. /\ <<>> \in EntityLists /\ EntityLists \subseteq Seq(Entities)
      /\ EpisodeLists \subseteq EntityLists /\ TextLists \subseteq EntityLists
  BY ColdAssumption DEF EntityLists
<1>2. \A list \in Seq(Entities) :
        /\ Len(list) \in Nat /\ ToSet(list) = {list[i] : i \in 1..Len(list)}
        /\ ToSet(list) \subseteq Entities /\ IsFiniteSet(ToSet(list))
  BY Holds, HoldsFew, LenProperties
<1>3. ASSUME NEW S, IsFiniteSet(S), NEW failed \in SUBSET S
      PROVE  Cardinality(failed) \in Nat /\ (failed # {} => Cardinality(failed) > 0)
  <2>1. IsFiniteSet(failed)
    BY <1>3, FS_Subset
  <2>2. Cardinality(failed) \in Nat /\ (Cardinality(failed) = 0 <=> failed = {})
    BY <2>1, FS_CardinalityType, FS_EmptySet
  <2> QED BY <2>2
<1> QED BY <1>1, <1>2, <1>3

\* Every variable keeps its type.
LEMMA TypeStep == TypeOK /\ [Next]_vars => TypeOK'
<1> SUFFICES ASSUME TypeOK, [Next]_vars PROVE TypeOK'
  OBVIOUS
<1> USE ColdAssumption DEF TypeOK, store, Goto, Resume, Edges
<1> HIDE DEF EntityLists
<1>0. /\ <<>> \in EntityLists
      /\ EpisodeLists \subseteq EntityLists /\ TextLists \subseteq EntityLists
      /\ \A c \in Cells : ToSet(found[c]) \subseteq Entities
      /\ \A c \in Cells : \A failed \in SUBSET ToSet(found[c]) : Cardinality(failed) \in Nat
  BY ListsOfEntities
<1>f. ASSUME NEW n \in Nat, Fault(n) PROVE faults' \in 0..MaxFaults
  <2>1. faults \in Nat /\ MaxFaults \in Nat
    OBVIOUS
  <2> QED BY ONLY <1>f, <2>1 DEF Fault
<1>1. ASSUME NEW c \in Cells, Schedule(c) \/ RunNow(c) PROVE TypeOK'
  <2>1. MaxAttempts \in 0..MaxAttempts /\ 1 \in 0..MaxAttempts
    OBVIOUS
  <2>2. CASE Schedule(c)
    BY <2>1, <2>2 DEF Schedule
  <2>3. CASE RunNow(c)
    BY <1>0, <2>1, <2>3 DEF RunNow
  <2> QED BY <1>1, <2>2, <2>3
<1>2. ASSUME NEW c \in Cells, Extract(c) PROVE TypeOK'
  BY <1>0, <1>2 DEF Extract
<1>3. ASSUME NEW c \in Cells, ExtractError(c) PROVE TypeOK'
  <2>1. /\ faults' \in 0..MaxFaults
        /\ UNCHANGED <<found, index, missed, reran>>
    BY <1>f, <1>3 DEF ExtractError
  <2>2. tries' \in [Cells -> 0..MaxAttempts]
    <3>1. tries[c] \in 0..MaxAttempts /\ MaxAttempts \in Nat
      OBVIOUS
    <3>2. tries' = tries \/ (tries[c] < MaxAttempts /\ tries' = [tries EXCEPT ![c] = @ + 1])
      BY <1>3 DEF ExtractError
    <3>3. tries[c] < MaxAttempts => tries[c] + 1 \in 0..MaxAttempts
      BY ONLY <3>1
    <3> QED BY ONLY <3>2, <3>3, tries \in [Cells -> 0..MaxAttempts], c \in Cells
  <2>3. stage' = stage \/ stage' = [stage EXCEPT ![c] = "parked"]
    BY <1>3 DEF ExtractError
  <2> QED BY <2>1, <2>2, <2>3
<1>4. ASSUME NEW c \in Cells, Cluster(c) \/ ClusterError(c) PROVE TypeOK'
  <2>1. faults' \in 0..MaxFaults /\ UNCHANGED <<tries, index, missed, reran>>
    BY <1>f, <1>4 DEF Cluster, ClusterError
  <2>2. /\ found' = found \/ \E list \in EntityLists : found' = [found EXCEPT ![c] = list]
        /\ \E s \in {"store", "done"} : stage' = [stage EXCEPT ![c] = s]
    BY <1>0, <1>4 DEF Cluster, ClusterError, CollectEntities
  <2> QED BY <2>1, <2>2
<1>5. ASSUME NEW c \in Cells, NEW ents, ListUnder(c, ents)
      PROVE  index' \in [Entities -> SUBSET Cells]
  BY <1>5 DEF ListUnder
<1>6. ASSUME NEW c \in Cells, StoreEntities(c) PROVE TypeOK'
  BY <1>5, <1>6 DEF StoreEntities
<1>7. ASSUME NEW c \in Cells, BulkError(c) PROVE TypeOK'
  BY <1>5, <1>7 DEF BulkError, Fault
<1>8. ASSUME NEW c \in Cells, StoreEach(c) PROVE TypeOK'
  <2>1. PICK failed \in SUBSET ToSet(found[c]) :
          /\ Fault(Cardinality(failed))
          /\ \E late \in SUBSET failed : ListUnder(c, (ToSet(found[c]) \ failed) \cup late)
          /\ missed' = (missed \ ({c} \X ToSet(found[c]))) \cup ({c} \X failed)
    BY <1>8 DEF StoreEach
  <2>2. missed' \subseteq Edges
    BY <1>0, <2>1
  <2>3. faults' \in 0..MaxFaults
    BY <1>0, <1>f, <2>1
  <2>4. index' \in [Entities -> SUBSET Cells]
    BY <1>5, <2>1
  <2> QED BY <1>8, <2>2, <2>3, <2>4 DEF StoreEach
<1>9. ASSUME NEW c \in Cells, IndexGraph(c) PROVE TypeOK'
  BY <1>9 DEF IndexGraph
<1>10. ASSUME NEW c \in Cells, Cancel(c) PROVE TypeOK'
  BY <1>10 DEF Cancel, Fault
<1>11. CASE GraphCall
  BY <1>11 DEF GraphCall
<1>12. CASE Crash
  BY <1>12 DEF Crash, Fault
<1>13. CASE UNCHANGED vars
  BY <1>13 DEF vars
<1> QED
  BY <1>1, <1>2, <1>3, <1>4, <1>6, <1>7, <1>8, <1>9, <1>10, <1>11, <1>12, <1>13 DEF Next

\* The initial state is well typed.
LEMMA TypeInit == Init => TypeOK
  BY ColdAssumption DEF Init, TypeOK, store

\* Every reachable state is well typed.
THEOREM TypeCorrect == Spec => []TypeOK
  BY TypeInit, TypeStep, PTL DEF Spec

-----------------------------------------------------------------------------
(* The entity store *)

Listed(c, e) == c \in index[e] \/ <<c, e>> \in missed

\* A finished cell is listed under its entities, and it takes a fault to get to
\* the single updates and another one for one of them to fail.
StoreWork ==
  /\ \A c \in Cells : stage[c] \in {"graph", "done"} =>
       \A e \in ToSet(found[c]) : Listed(c, e)
  /\ \A c \in Cells : stage[c] = "fallback" => faults >= 1
  /\ missed # {} => faults >= 2

\* Writing a cell to the store lists it under each of the entities.
LEMMA ListUnderHolds ==
  ASSUME TypeOK, NEW c \in Cells, NEW ents, ListUnder(c, ents)
  PROVE  \A e \in Entities : /\ index[e] \subseteq index'[e]
                             /\ e \in ents => c \in index'[e]
  BY DEF ListUnder, TypeOK

\* A cell that is listed, or whose update is known to have failed, stays so.
LEMMA ListedKept ==
  ASSUME TypeOK, [Next]_vars, NEW c \in Cells, NEW e \in Entities, Listed(c, e)
  PROVE  Listed(c, e)'
<1> USE DEF Listed
<1>1. ASSUME NEW d \in Cells, StoreEntities(d) PROVE Listed(c, e)'
  <2>1. /\ \A f \in Entities : /\ index[f] \subseteq index'[f]
                               /\ f \in ToSet(found[d]) => d \in index'[f]
        /\ missed' = missed \ ({d} \X ToSet(found[d]))
    BY <1>1, ListUnderHolds DEF StoreEntities
  <2> QED BY <2>1
<1>2. ASSUME NEW d \in Cells, BulkError(d) PROVE Listed(c, e)'
  BY <1>2, ListUnderHolds DEF BulkError
<1>3. ASSUME NEW d \in Cells, StoreEach(d) PROVE Listed(c, e)'
  <2>1. PICK failed \in SUBSET ToSet(found[d]) :
          /\ \E late \in SUBSET failed : ListUnder(d, (ToSet(found[d]) \ failed) \cup late)
          /\ missed' = (missed \ ({d} \X ToSet(found[d]))) \cup ({d} \X failed)
    BY <1>3 DEF StoreEach
  <2>2. \A f \in Entities : /\ index[f] \subseteq index'[f]
                            /\ f \in ToSet(found[d]) \ failed => d \in index'[f]
    BY <2>1, ListUnderHolds
  <2> QED BY <2>1, <2>2
<1>4. CASE UNCHANGED store
  BY <1>4 DEF store
<1> QED
  BY <1>1, <1>2, <1>3, <1>4
  DEF Next, vars, Schedule, RunNow, Extract, ExtractError, Cluster, ClusterError,
      IndexGraph, Cancel, GraphCall, Crash

\* The tasks and the store keep the accounts.
LEMMA StoreStep == TypeOK /\ StoreWork /\ [Next]_vars => StoreWork'
<1> SUFFICES ASSUME TypeOK, StoreWork, [Next]_vars PROVE StoreWork'
  OBVIOUS
<1>0. /\ \A c \in Cells : ToSet(found[c]) \subseteq Entities
      /\ \A c \in Cells : \A failed \in SUBSET ToSet(found[c]) :
           Cardinality(failed) \in Nat /\ (failed # {} => Cardinality(failed) > 0)
      /\ faults \in Nat /\ ToSet(<<>>) = {}
      /\ stage \in [Cells -> {"new", "extract", "cluster", "store",
                              "fallback", "graph", "done", "parked", "dropped"}]
      /\ found \in [Cells -> EntityLists]
  <2>1. ToSet(<<>>) = {}
    BY EmptySeq DEF ToSet
  <2> QED BY <2>1, ListsOfEntities, ColdAssumption DEF TypeOK
\* All but the cell that moves keep their place, and that one goes where
\* nothing is promised of it.
<1>1. ASSUME NEW c \in Cells,
             \A d \in Cells \ {c} : stage'[d] = stage[d] /\ found'[d] = found[d],
             stage'[c] \in {"graph", "done"} =>
               \A e \in ToSet(found'[c]) : e \in Entities /\ Listed(c, e)',
             stage'[c] = "fallback" => faults' >= 1,
             faults' \in Nat, faults' >= faults,
             missed' # {} => missed # {} \/ faults' >= 2
      PROVE  StoreWork'
  <2>1. \A d \in Cells \ {c} : stage'[d] \in {"graph", "done"} =>
          \A e \in ToSet(found'[d]) : Listed(d, e)'
    BY <1>0, <1>1, ListedKept DEF StoreWork
  <2>2. \A d \in Cells : stage'[d] = "fallback" => faults' >= 1
    BY <1>0, <1>1 DEF StoreWork
  <2>3. missed' # {} => faults' >= 2
    BY <1>0, <1>1 DEF StoreWork
  <2> QED BY <1>1, <2>1, <2>2, <2>3 DEF StoreWork
<1>2. ASSUME NEW c \in Cells, Schedule(c) \/ RunNow(c) \/ Extract(c) \/ ExtractError(c) \/ Cancel(c)
      PROVE  StoreWork'
  <2>1. /\ \A d \in Cells \ {c} : stage'[d] = stage[d] /\ found'[d] = found[d]
        /\ stage'[c] \in {"extract", "cluster", "parked", "dropped"}
        /\ missed' = missed /\ faults' \in {faults, faults + 1}
    BY <1>0, <1>2 DEF Schedule, RunNow, Extract, ExtractError, Cancel, Goto, Fault, store, Resume
  <2> QED BY ONLY <1>0, <1>1, <2>1
<1>3. ASSUME NEW c \in Cells, Cluster(c) \/ ClusterError(c) PROVE StoreWork'
  <2>1. /\ \A d \in Cells \ {c} : stage'[d] = stage[d] /\ found'[d] = found[d]
        /\ stage'[c] = "store" \/ (stage'[c] = "done" /\ found'[c] = <<>>)
        /\ missed' = missed /\ faults' \in {faults, faults + 1}
    BY <1>0, <1>3 DEF Cluster, ClusterError, CollectEntities, Goto, Fault, store, Resume
  <2> QED BY ONLY <1>0, <1>1, <2>1
<1>4. ASSUME NEW c \in Cells, StoreEntities(c) PROVE StoreWork'
  <2>1. /\ \A d \in Cells \ {c} : stage'[d] = stage[d] /\ found'[d] = found[d]
        /\ stage'[c] = "graph" /\ found' = found
        /\ missed' \subseteq missed /\ faults' = faults
    BY <1>0, <1>4 DEF StoreEntities, Goto, Resume
  <2>2. \A e \in ToSet(found[c]) : Listed(c, e)'
    BY <1>0, <1>4, ListUnderHolds DEF StoreEntities, Listed
  <2> QED BY ONLY <1>0, <1>1, <2>1, <2>2
<1>5. ASSUME NEW c \in Cells, BulkError(c) PROVE StoreWork'
  <2>1. /\ \A d \in Cells \ {c} : stage'[d] = stage[d] /\ found'[d] = found[d]
        /\ stage'[c] = "fallback"
        /\ missed' = missed /\ faults' = faults + 1
    BY <1>0, <1>5 DEF BulkError, Goto, Resume, Fault
  <2> QED BY ONLY <1>0, <1>1, <2>1
<1>6. ASSUME NEW c \in Cells, StoreEach(c) PROVE StoreWork'
  <2>1. PICK failed \in SUBSET ToSet(found[c]) :
          /\ Fault(Cardinality(failed))
          /\ \E late \in SUBSET failed : ListUnder(c, (ToSet(found[c]) \ failed) \cup late)
          /\ missed' = (missed \ ({c} \X ToSet(found[c]))) \cup ({c} \X failed)
    BY <1>6 DEF StoreEach
  <2>2. /\ \A d \in Cells \ {c} : stage'[d] = stage[d] /\ found'[d] = found[d]
        /\ stage'[c] = "graph" /\ found' = found
        /\ stage[c] = "fallback"
    BY <1>0, <1>6 DEF StoreEach, Goto, Resume
  <2>3. faults' = faults + Cardinality(failed)
    BY <2>1 DEF Fault
  <2>4. \A e \in ToSet(found[c]) : Listed(c, e)'
    <3>1. \A e \in ToSet(found[c]) \ failed : c \in index'[e]
      BY <1>0, <2>1, ListUnderHolds
    <3> QED BY <2>1, <3>1 DEF Listed
  <2>5. missed' # {} => missed # {} \/ faults' >= 2
    <3>1. CASE failed = {}
      BY <2>1, <3>1
    <3>2. CASE failed # {}
      <4>1. faults >= 1
        BY <2>2 DEF StoreWork
      <4> QED BY <1>0, <2>3, <3>2, <4>1
    <3> QED BY <3>1, <3>2
  <2>6. faults' \in Nat /\ faults' >= faults
    BY <1>0, <2>3
  <2> QED BY ONLY <1>0, <1>1, <2>2, <2>4, <2>5, <2>6
<1>7. ASSUME NEW c \in Cells, IndexGraph(c) PROVE StoreWork'
  <2>1. /\ \A d \in Cells \ {c} : stage'[d] = stage[d] /\ found'[d] = found[d]
        /\ stage'[c] = "done" /\ found' = found
        /\ missed' = missed /\ index' = index /\ faults' = faults
    BY <1>0, <1>7 DEF IndexGraph, Goto, Resume, store
  <2>2. \A e \in ToSet(found[c]) : Listed(c, e)'
    BY <1>7, <2>1 DEF IndexGraph, Resume, StoreWork, Listed
  <2> QED BY ONLY <1>0, <1>1, <2>1, <2>2
<1>8. CASE Crash
  <2>1. /\ \A d \in Cells : stage'[d] = stage[d] \/ stage'[d] = "dropped"
        /\ UNCHANGED <<found, index, missed>> /\ faults' = faults + 1
    BY <1>8 DEF Crash, Fault, store
  <2> QED BY <1>0, <2>1 DEF StoreWork, Listed
<1>9. CASE UNCHANGED <<stage, found, store, faults>>
  BY <1>9 DEF store, StoreWork, Listed
<1> QED
  BY <1>2, <1>3, <1>4, <1>5, <1>6, <1>7, <1>8, <1>9 DEF Next, vars, GraphCall

-----------------------------------------------------------------------------
(* The graph while a memory is added *)

Calls == [kind : {"node"}, node : Nodes] \cup [kind : {"edge"}, edge : Edges]

\* The graph has room for a cell and all its entities.
Roomy == \A list \in EntityLists : Len(list) < MaxNodes

\* The nodes that the first p calls for a cell touch.
Touched(c, ents, p) ==
  IF p = 0 THEN {} ELSE {c} \cup {ents[i] : i \in {j \in 1..Len(ents) : 2 * j <= p}}

\* The calls left are those that follow the first p: what these touched is the
\* newest the graph has, and what the others are about is in the store.
Placing(c, ents, p) ==
  /\ Len(todo) = 2 * Len(ents) + 1 - p
  /\ \A k \in 1..Len(todo) : todo[k] = CallsFor(c, ents)[p + k]
  /\ \A i \in 1..Len(ents) : Listed(c, ents[i])
  /\ Roomy => /\ Touched(c, ents, p) \subseteq ToSet(graph.nodes)
              /\ Recent(graph.nodes, Touched(c, ents, p))

GraphWork ==
  /\ graph \in Graph /\ Consistent(graph)
  /\ Roomy => Dangling(graph) = {}
  /\ \A x \in ToSet(graph.edges) : Listed(x[1], x[2])
  /\ todo \in Seq(Calls)
  /\ todo # <<>> => \E c \in Cells, ents \in EntityLists :
                      \E p \in 0..(2 * Len(ents)) : Placing(c, ents, p)

\* The calls for a cell are calls.
LEMMA CallsForHolds ==
  ASSUME NEW c \in Cells, NEW ents \in Seq(Entities)
  PROVE  /\ CallsFor(c, ents) \in Seq(Calls)
         /\ Len(CallsFor(c, ents)) = 2 * Len(ents) + 1
<1>1. Len(ents) \in Nat /\ \A i \in 1..Len(ents) : ents[i] \in Entities
  BY LenProperties, ElementOfSeq
<1> DEFINE n == 2 * Len(ents) + 1
<1>2. n \in Nat
  BY <1>1
<1>3. \A k \in 1..n : CallsFor(c, ents)[k] \in Calls
  <2> TAKE k \in 1..n
  <2>1. [kind |-> "node", node |-> c] \in Calls
    BY DEF Calls, Nodes
  <2>2. \A i \in 1..Len(ents) : [kind |-> "node", node |-> ents[i]] \in Calls
    BY <1>1 DEF Calls, Nodes
  <2>3. \A i \in 1..Len(ents) : [kind |-> "edge", edge |-> <<c, ents[i]>>] \in Calls
    BY <1>1 DEF Calls, Edges
  <2>4. /\ CallsFor(c, ents)[1] = [kind |-> "node", node |-> c]
        /\ \A i \in 1..Len(ents) :
             /\ CallsFor(c, ents)[2 * i] = [kind |-> "node", node |-> ents[i]]
             /\ CallsFor(c, ents)[2 * i + 1] = [kind |-> "edge", edge |-> <<c, ents[i]>>]
    BY CallAt
  <2>5. k = 1 \/ \E i \in 1..Len(ents) : k = 2 * i \/ k = 2 * i + 1
    BY <1>1, Pairs
  <2> QED BY ONLY <2>1, <2>2, <2>3, <2>4, <2>5
<1>4. CallsFor(c, ents) = [k \in 1..n |-> CallsFor(c, ents)[k]]
  BY DEF CallsFor
<1> HIDE DEF n
<1>5. CallsFor(c, ents) \in [1..n -> Calls]
  BY <1>3, <1>4
<1>6. CallsFor(c, ents) \in Seq(Calls) /\ Len(CallsFor(c, ents)) = n
  BY <1>2, <1>5, SeqDef, LenProperties
<1> QED BY <1>6 DEF n

\* The nodes touched for a cell fit into a graph that has room for them.
LEMMA TouchedFits ==
  ASSUME Roomy, NEW c, NEW ents \in EntityLists, NEW T, T \subseteq {c} \cup ToSet(ents)
  PROVE  IsFiniteSet(T) /\ Cardinality(T) <= MaxNodes
<1>1. ents \in Seq(Entities) /\ Len(ents) \in Nat
  BY ListsOfEntities
<1>2. IsFiniteSet(ToSet(ents)) /\ Cardinality(ToSet(ents)) <= Len(ents)
  BY <1>1, HoldsFew
<1>3. Cardinality(ToSet(ents)) \in Nat
  BY <1>2, FS_CardinalityType
<1> DEFINE U == ToSet(ents) \cup {c}
<1>4. IsFiniteSet(U) /\ Cardinality(U) <= Cardinality(ToSet(ents)) + 1
  <2>1. /\ IsFiniteSet(U)
        /\ Cardinality(U) = IF c \in ToSet(ents) THEN Cardinality(ToSet(ents))
                            ELSE Cardinality(ToSet(ents)) + 1
    BY <1>2, FS_AddElement
  <2> HIDE DEF U
  <2> QED BY ONLY <1>3, <2>1
<1>5. IsFiniteSet(U) /\ Cardinality(U) \in Nat
  BY <1>4, FS_CardinalityType
<1>6. T \in SUBSET U
  OBVIOUS
<1> HIDE DEF U
<1>7. IsFiniteSet(T) /\ Cardinality(T) <= Cardinality(U)
  BY <1>5, <1>6, FS_Subset
<1>8. Cardinality(T) \in Nat
  BY <1>7, FS_CardinalityType
<1>9. Len(ents) < MaxNodes /\ MaxNodes \in Nat
  BY CapsAssumption DEF Roomy
<1> QED BY ONLY <1>1, <1>2, <1>3, <1>4, <1>5, <1>7, <1>8, <1>9
\* What each call adds to the nodes that were touched.
LEMMA TouchedGrows ==
  ASSUME NEW c \in Cells, NEW ents \in Seq(Entities)
  PROVE  /\ Touched(c, ents, 0) = {} /\ Touched(c, ents, 1) = {c}
         /\ \A i \in 1..Len(ents) :
              /\ Touched(c, ents, 2 * i) = Touched(c, ents, (2 * i) - 1) \cup {ents[i]}
              /\ Touched(c, ents, (2 * i) + 1) = Touched(c, ents, 2 * i)
              /\ {c, ents[i]} \subseteq Touched(c, ents, 2 * i)
         /\ \A p \in Nat : Touched(c, ents, p) \subseteq {c} \cup ToSet(ents)
<1>0. Len(ents) \in Nat /\ ToSet(ents) = {ents[i] : i \in 1..Len(ents)}
  BY Holds, LenProperties
<1> DEFINE upto(p) == {j \in 1..Len(ents) : 2 * j <= p}
<1>1. Touched(c, ents, 0) = {}
  BY DEF Touched
<1>2. \A p \in Nat \ {0} : Touched(c, ents, p) = {c} \cup {ents[i] : i \in upto(p)}
  BY DEF Touched
<1>3. Touched(c, ents, 1) = {c}
  <2>1. upto(1) = {}
    BY <1>0
  <2> HIDE DEF upto
  <2> QED BY <1>2, <2>1
<1>4. ASSUME NEW i \in 1..Len(ents)
      PROVE  /\ Touched(c, ents, 2 * i) = Touched(c, ents, (2 * i) - 1) \cup {ents[i]}
             /\ Touched(c, ents, (2 * i) + 1) = Touched(c, ents, 2 * i)
             /\ {c, ents[i]} \subseteq Touched(c, ents, 2 * i)
  <2>1. upto(2 * i) = upto((2 * i) - 1) \cup {i} /\ upto((2 * i) + 1) = upto(2 * i)
    BY <1>0
  <2> DEFINE a == (2 * i) - 1
             b == 2 * i
             d == (2 * i) + 1
  <2>2. a \in Nat \ {0} /\ b \in Nat \ {0} /\ d \in Nat \ {0}
    BY <1>0
  <2>3. upto(b) = upto(a) \cup {i} /\ upto(d) = upto(b)
    BY <2>1
  <2> HIDE DEF upto, a, b, d
  <2>4. /\ Touched(c, ents, a) = {c} \cup {ents[j] : j \in upto(a)}
        /\ Touched(c, ents, b) = {c} \cup {ents[j] : j \in upto(b)}
        /\ Touched(c, ents, d) = {c} \cup {ents[j] : j \in upto(d)}
    BY <1>2, <2>2
  <2>5. {ents[j] : j \in upto(b)} = {ents[j] : j \in upto(a)} \cup {ents[i]}
    BY ONLY <2>3
  <2>6. /\ Touched(c, ents, b) = Touched(c, ents, a) \cup {ents[i]}
        /\ Touched(c, ents, d) = Touched(c, ents, b)
        /\ {c, ents[i]} \subseteq Touched(c, ents, b)
    BY ONLY <2>3, <2>4, <2>5
  <2> QED BY <2>6 DEF a, b, d
<1>5. \A p \in Nat : Touched(c, ents, p) \subseteq {c} \cup ToSet(ents)
  BY <1>0, <1>1, <1>2
<1> QED BY <1>1, <1>3, <1>4, <1>5

\* A call on the graph, made while the loop is held for a cell, leaves it
\* consistent and goes on to the next call.
LEMMA GraphCallStep ==
  ASSUME TypeOK, GraphWork, GraphCall PROVE GraphWork'
<1>0. /\ graph \in Graph /\ Consistent(graph) /\ (Roomy => Dangling(graph) = {})
      /\ \A x \in ToSet(graph.edges) : Listed(x[1], x[2])
      /\ todo \in Seq(Calls) /\ todo # <<>>
      /\ graph' = Apply(graph, Head(todo)) /\ todo' = Tail(todo)
      /\ index' = index /\ missed' = missed
  BY DEF GraphCall, GraphWork, store
<1>1. PICK c \in Cells, ents \in EntityLists : \E p \in 0..(2 * Len(ents)) : Placing(c, ents, p)
  BY <1>0 DEF GraphWork
<1>2. PICK p \in 0..(2 * Len(ents)) : Placing(c, ents, p)
  BY <1>1
<1> DEFINE n == Len(ents)
           touched == Touched(c, ents, p)
           next == Touched(c, ents, p + 1)
<1>3. ents \in Seq(Entities) /\ n \in Nat /\ \A i \in 1..n : ents[i] \in Entities
  BY ListsOfEntities, ElementOfSeq
<1>4. /\ Len(todo) = 2 * n + 1 - p
      /\ \A k \in 1..Len(todo) : todo[k] = CallsFor(c, ents)[p + k]
      /\ \A i \in 1..n : Listed(c, ents[i])
      /\ Roomy => touched \subseteq ToSet(graph.nodes) /\ Recent(graph.nodes, touched)
  BY <1>2 DEF Placing
<1> HIDE DEF touched, next
<1>5. p \in Nat /\ p <= 2 * n /\ Len(todo) # 0 /\ 1 \in 1..Len(todo)
  BY <1>3, <1>4
<1>6. /\ Head(todo) = CallsFor(c, ents)[p + 1]
      /\ todo' \in Seq(Calls) /\ Len(todo') = 2 * n + 1 - (p + 1)
      /\ \A k \in 1..Len(todo') : todo'[k] = CallsFor(c, ents)[(p + 1) + k]
  <2>1. /\ Head(todo) = todo[1] /\ Tail(todo) \in Seq(Calls) /\ Len(Tail(todo)) = Len(todo) - 1
        /\ \A i \in 1..(Len(todo) - 1) : Tail(todo)[i] = todo[i + 1]
    BY <1>0, <1>5, TailHolds
  <2>2. Head(todo) = CallsFor(c, ents)[p + 1]
    BY <1>4, <1>5, <2>1
  <2>3. Len(todo') = 2 * n + 1 - (p + 1)
    BY <1>0, <1>3, <1>4, <1>5, <2>1
  <2>4. ASSUME NEW k \in 1..Len(todo') PROVE todo'[k] = CallsFor(c, ents)[(p + 1) + k]
    <3>1. k \in 1..(Len(todo) - 1) /\ k + 1 \in 1..Len(todo) /\ p + (k + 1) = (p + 1) + k
      BY <1>3, <1>4, <1>5, <2>3
    <3> QED BY <1>0, <1>4, <2>1, <3>1
  <2> QED BY <1>0, <2>1, <2>2, <2>3, <2>4
<1>7. \A x, y : Listed(x, y)' <=> Listed(x, y)
  BY <1>0 DEF Listed
<1>8. ASSUME graph' \in Graph, Consistent(graph'), Roomy => Dangling(graph') = {},
             \A x \in ToSet(graph'.edges) : Listed(x[1], x[2]),
             Roomy => next \subseteq ToSet(graph'.nodes) /\ Recent(graph'.nodes, next)
      PROVE  GraphWork'
  <2>1. ASSUME todo' # <<>> PROVE p + 1 \in 0..(2 * n) /\ Placing(c, ents, p + 1)'
    <3>1. Len(todo') # 0 /\ Len(todo') \in Nat
      BY <1>6, <2>1, EmptySeq, LenProperties
    <3>2. p + 1 \in 0..(2 * n)
      BY <1>3, <1>5, <1>6, <3>1
    <3> QED BY <1>4, <1>6, <1>7, <1>8, <3>2 DEF Placing, next
  <2> QED BY <1>6, <1>7, <1>8, <2>1 DEF GraphWork
<1>9. ASSUME NEW m \in Nodes, Head(todo) = [kind |-> "node", node |-> m],
             next = touched \cup {m}
      PROVE  GraphWork'
  <2>1. graph' = UpsertNode(graph, m)
    BY <1>0, <1>9 DEF Apply
  <2>2. /\ graph' \in Graph /\ Consistent(graph')
        /\ ToSet(graph'.edges) \subseteq ToSet(graph.edges)
        /\ Dangling(graph) = {} => Dangling(graph') = {}
        /\ \A W \in SUBSET ToSet(graph.nodes) :
             /\ Recent(graph.nodes, W)
             /\ IsFiniteSet(W \cup {m}) /\ Cardinality(W \cup {m}) <= MaxNodes
             => Recent(graph'.nodes, W \cup {m}) /\ W \cup {m} \subseteq ToSet(graph'.nodes)
    BY ONLY <1>0, <2>1, m \in Nodes, UpsertNodeHolds, ZenonT(30)
  <2>3. Roomy => next \subseteq ToSet(graph'.nodes) /\ Recent(graph'.nodes, next)
    <3> SUFFICES ASSUME Roomy
                 PROVE  next \subseteq ToSet(graph'.nodes) /\ Recent(graph'.nodes, next)
      OBVIOUS
    <3>1. next \subseteq {c} \cup ToSet(ents)
      BY <1>3, <1>5, TouchedGrows DEF next
    <3>2. IsFiniteSet(next) /\ Cardinality(next) <= MaxNodes
      BY <3>1, TouchedFits
    <3> QED BY ONLY Roomy, <1>4, <1>9, <2>2, <3>2
  <2> QED BY ONLY <1>0, <1>8, <2>2, <2>3
<1>10. ASSUME NEW i \in 1..n, Head(todo) = [kind |-> "edge", edge |-> <<c, ents[i]>>],
              next = touched, {c, ents[i]} \subseteq touched
       PROVE  GraphWork'
  <2> DEFINE x == <<c, ents[i]>>
  <2>1. x \in Edges /\ x[1] = c /\ x[2] = ents[i]
    BY <1>3 DEF Edges
  <2> HIDE DEF x
  <2>2. graph' = UpsertEdge(graph, x)
    <3>1. Head(todo).kind # "node" /\ Head(todo).edge = x
      BY <1>10 DEF x
    <3> QED BY ONLY <1>0, <3>1 DEF Apply
  <2>3. /\ graph' \in Graph /\ Consistent(graph') /\ graph'.nodes = graph.nodes
        /\ ToSet(graph'.edges) \subseteq ToSet(graph.edges) \cup {x}
    <3>1. /\ UpsertEdge(graph, x) \in Graph /\ Consistent(UpsertEdge(graph, x))
          /\ UpsertEdge(graph, x).nodes = graph.nodes
          /\ ToSet(UpsertEdge(graph, x).edges) \subseteq ToSet(graph.edges) \cup {x}
      <4>1. graph \in Graph /\ Consistent(graph) /\ x \in Edges
        BY <1>0, <2>1
      <4> QED BY ONLY <4>1, UpsertEdgeHolds
    <3> QED BY ONLY <2>2, <3>1
  <2>4. \A y \in ToSet(graph'.edges) : Listed(y[1], y[2])
    BY <1>0, <1>4, <2>1, <2>3
  <2>5. Roomy => Dangling(graph') = {}
    BY <1>0, <1>4, <1>10, <2>1, <2>3 DEF Dangling
  <2>6. Roomy => next \subseteq ToSet(graph'.nodes) /\ Recent(graph'.nodes, next)
    BY <1>4, <1>10, <2>3
  <2> QED BY ONLY <1>8, <2>3, <2>4, <2>5, <2>6
<1>11. c \in Nodes /\ \A i \in 1..n : ents[i] \in Nodes
  BY <1>3 DEF Nodes
<1>16. /\ CallsFor(c, ents)[1] = [kind |-> "node", node |-> c]
       /\ \A i \in 1..n :
            /\ CallsFor(c, ents)[2 * i] = [kind |-> "node", node |-> ents[i]]
            /\ CallsFor(c, ents)[2 * i + 1] = [kind |-> "edge", edge |-> <<c, ents[i]>>]
  <2>1. ASSUME NEW list \in Seq(Entities), list = ents
        PROVE  /\ CallsFor(c, list)[1] = [kind |-> "node", node |-> c]
               /\ \A i \in 1..Len(list) :
                    /\ CallsFor(c, list)[2 * i] = [kind |-> "node", node |-> list[i]]
                    /\ CallsFor(c, list)[2 * i + 1] = [kind |-> "edge", edge |-> <<c, list[i]>>]
    BY ONLY c \in Cells, list \in Seq(Entities), CallAt, ZenonT(30)
  <2> QED BY <1>3, <2>1
<1>12. p + 1 = 1 \/ \E i \in 1..n : p + 1 = 2 * i \/ p + 1 = 2 * i + 1
  <2>1. p + 1 \in 1..(2 * n + 1)
    BY <1>3, <1>5
  <2> QED BY <1>3, <2>1, Pairs
<1>13. CASE p + 1 = 1
  <2>1. Head(todo) = [kind |-> "node", node |-> c] /\ next = {c} /\ touched = {}
    <3>1. p = 0
      BY <1>5, <1>13
    <3>2. next = {c} /\ touched = {}
      BY <1>3, <3>1, TouchedGrows DEF next, touched
    <3>3. Head(todo) = [kind |-> "node", node |-> c]
      BY ONLY <1>6, <1>13, <1>16
    <3> QED BY <3>2, <3>3
  <2> QED BY <1>9, <1>11, <2>1
<1>14. ASSUME NEW i \in 1..n, p + 1 = 2 * i PROVE GraphWork'
  <2>1. Head(todo) = [kind |-> "node", node |-> ents[i]]
    BY ONLY <1>6, <1>14, <1>16, i \in 1..n
  <2>2. next = touched \cup {ents[i]}
    <3>1. p = (2 * i) - 1
      BY <1>5, <1>14
    <3> QED BY <1>3, <1>14, <3>1, TouchedGrows DEF next, touched
  <2> QED BY <1>9, <1>11, <2>1, <2>2
<1>15. ASSUME NEW i \in 1..n, p + 1 = 2 * i + 1 PROVE GraphWork'
  <2>1. Head(todo) = [kind |-> "edge", edge |-> <<c, ents[i]>>]
    BY ONLY <1>6, <1>15, <1>16, i \in 1..n
  <2>2. next = touched /\ {c, ents[i]} \subseteq touched
    <3>1. p = 2 * i
      BY <1>5, <1>15
    <3> QED BY <1>3, <1>15, <3>1, TouchedGrows DEF next, touched
  <2> QED BY <1>10, <2>1, <2>2
<1> QED BY <1>12, <1>13, <1>14, <1>15

\* The graph keeps pace with the store, however tasks and crashes interleave.
LEMMA GraphStep == TypeOK /\ StoreWork /\ GraphWork /\ [Next]_vars => GraphWork'
<1> SUFFICES ASSUME TypeOK, StoreWork, GraphWork, [Next]_vars PROVE GraphWork'
  OBVIOUS
<1>1. CASE GraphCall
  BY <1>1, GraphCallStep
<1>2. CASE Crash
  <2>1. graph' = EmptyGraph /\ todo' = <<>>
    BY <1>2 DEF Crash
  <2>2. EmptyGraph \in Graph /\ Consistent(EmptyGraph) /\ Dangling(EmptyGraph) = {}
    BY EmptyHolds
  <2>3. ToSet(EmptyGraph.edges) = {}
    BY EmptySeq DEF EmptyGraph, ToSet
  <2> QED BY <2>1, <2>2, <2>3 DEF GraphWork
<1>3. ASSUME NEW c \in Cells, IndexGraph(c) PROVE GraphWork'
  <2>0. found[c] \in EntityLists
    BY DEF TypeOK
  <2> PICK ents \in EntityLists : ents = found[c]
    BY <2>0
  <2>1. /\ stage[c] = "graph" /\ todo' = CallsFor(c, ents)
        /\ graph' = graph /\ index' = index /\ missed' = missed
    BY <1>3 DEF IndexGraph, Resume, store
  <2>2. /\ ents \in EntityLists /\ ents \in Seq(Entities) /\ Len(ents) \in Nat
        /\ ToSet(ents) = {ents[i] : i \in 1..Len(ents)}
    BY ListsOfEntities DEF TypeOK
  <2>3. \A i \in 1..Len(ents) : Listed(c, ents[i])
    BY <2>1, <2>2 DEF StoreWork
  <2>4. CallsFor(c, ents) \in Seq(Calls) /\ Len(CallsFor(c, ents)) = 2 * Len(ents) + 1
    BY <2>2, CallsForHolds
  <2>5. Touched(c, ents, 0) = {}
    BY DEF Touched
  <2>6. \A x, y : Listed(x, y)' <=> Listed(x, y)
    BY <2>1 DEF Listed
  <2>7. Placing(c, ents, 0)'
    <3>1. Len(todo') = 2 * Len(ents) + 1 - 0
      BY <2>1, <2>2, <2>4
    <3>2. \A k \in 1..Len(todo') : todo'[k] = CallsFor(c, ents)[0 + k]
      BY <2>1
    <3>3. Touched(c, ents, 0) \subseteq ToSet(graph'.nodes) /\ Recent(graph'.nodes, {})
      BY <2>5 DEF Recent
    <3>4. \A i \in 1..Len(ents) : Listed(c, ents[i])'
      BY <2>3, <2>6
    <3> QED BY ONLY <2>5, <3>1, <3>2, <3>3, <3>4 DEF Placing
  <2>8. 0 \in 0..(2 * Len(ents))
    BY <2>2
  <2> QED BY <2>1, <2>2, <2>4, <2>6, <2>7, <2>8 DEF GraphWork
<1>4. CASE UNCHANGED <<graph, todo>>
  <2>1. \A c \in Cells, e \in Entities : Listed(c, e) => Listed(c, e)'
    BY ListedKept
  <2>2. \A x \in ToSet(graph.edges) : x[1] \in Cells /\ x[2] \in Entities
    <3>1. graph.edges \in Seq(Edges)
      BY DEF GraphWork, Graph
    <3> QED BY <3>1, Holds DEF Edges
  <2>3. ASSUME NEW c \in Cells, NEW ents \in EntityLists, NEW p, Placing(c, ents, p)
        PROVE  Placing(c, ents, p)'
    <3>1. \A i \in 1..Len(ents) : ents[i] \in Entities
      BY ListsOfEntities
    <3> QED BY <1>4, <2>1, <2>3, <3>1 DEF Placing
  <2> QED BY <1>4, <2>1, <2>2, <2>3 DEF GraphWork
<1> QED
  BY <1>1, <1>2, <1>3, <1>4
  DEF Next, vars, Schedule, RunNow, Extract, ExtractError, Cluster, ClusterError,
      StoreEntities, BulkError, StoreEach, Cancel

\* Initially the graph is empty.
LEMMA WorkInit == Init => StoreWork /\ GraphWork
<1>1. ToSet(EmptyGraph.edges) = {} /\ ToSet(<<>>) = {}
  BY EmptySeq DEF EmptyGraph, ToSet
<1> QED BY <1>1, EmptyHolds DEF Init, store, StoreWork, GraphWork

\* The graph never knows more than the entity store.
LEMMA FollowsStore == GraphWork => GraphFollowsStore
<1> SUFFICES ASSUME GraphWork, NEW e \in Entities, NEW c \in Cells, <<c, e>> \in ToSet(graph.edges)
             PROVE  c \in FindByEntities({e}) \/ <<c, e>> \in missed
  BY DEF GraphFollowsStore, Mentioning
<1>1. Listed(c, e)
  BY DEF GraphWork
<1> QED BY <1>1 DEF Listed, FindByEntities

\* A finished cell is listed under each of its entities, unless two faults kept
\* it out, and the graph is not ahead of the store: upsert_entities() with its
\* fallback, and add_memory_node() after it.
THEOREM EntitiesListedHolds == Spec => []EntitiesListed
<1>1. TypeOK /\ StoreWork /\ GraphWork => EntitiesListed
  BY FollowsStore DEF StoreWork, EntitiesListed, Listed
<1>2. Init => TypeOK /\ StoreWork /\ GraphWork
  BY TypeInit, WorkInit
<1>3. TypeOK /\ StoreWork /\ GraphWork /\ [Next]_vars => (TypeOK /\ StoreWork /\ GraphWork)'
  BY TypeStep, StoreStep, GraphStep
<1> QED BY <1>1, <1>2, <1>3, PTL DEF Spec
-----------------------------------------------------------------------------
(* Traversal *)

\* The nodes an edge away from those of F.
Reached(g, F) ==
  {Other(x[2], x[1]) : x \in {y \in F \X ToSet(g.edges) : y[2] \in g.adj[y[1]]}}

\* The hops of a traversal, one after the other.
LEMMA TraverseHops ==
  ASSUME NEW g, NEW seeds
  PROVE  LET one == seeds \cup Reached(g, seeds)
             two == one \cup Reached(g, Reached(g, seeds) \ seeds)
             three == two \cup Reached(g, Reached(g, Reached(g, seeds) \ seeds) \ one)
         IN  /\ Traverse(g, seeds, 1) = one \cap ToSet(g.nodes)
             /\ Traverse(g, seeds, 2) = two \cap ToSet(g.nodes)
             /\ Traverse(g, seeds, 3) = three \cap ToSet(g.nodes)
             /\ Traverse(g, seeds, 5) = three \cap ToSet(g.nodes)
  BY DEF Traverse, Reached

\* In a consistent graph the adjacency leads along the edges: from entities to
\* the memories that mention them and back.
LEMMA ReachedHolds ==
  ASSUME NEW g \in Graph, Consistent(g)
  PROVE  /\ \A F \in SUBSET Entities : Reached(g, F) = UNION {Mentioning(g, f) : f \in F}
         /\ \A F \in SUBSET Cells :
              Reached(g, F) = {f \in Entities : F \cap Mentioning(g, f) # {}}
<1>1. ToSet(g.edges) \subseteq Edges
  <2>1. g.edges \in Seq(Edges)
    BY DEF Graph
  <2> QED BY <2>1, Holds
<1>2. \A n \in Nodes, x \in ToSet(g.edges) : x \in g.adj[n] <=> n \in {x[1], x[2]}
  BY DEF Consistent
<1>3. \A x \in ToSet(g.edges) :
        x[1] \in Cells /\ x[2] \in Entities /\ x = <<x[1], x[2]>>
        /\ x[1] \notin Entities /\ x[2] \notin Cells
  BY <1>1, NodesAssumption DEF Edges
<1>4. ASSUME NEW F \in SUBSET Nodes, NEW m
      PROVE  m \in Reached(g, F) <=>
               \E n \in F, x \in ToSet(g.edges) : n \in {x[1], x[2]} /\ m = Other(x, n)
  <2>1. m \in Reached(g, F) <=>
          \E y \in F \X ToSet(g.edges) : y[2] \in g.adj[y[1]] /\ m = Other(y[2], y[1])
    BY DEF Reached
  <2>2. (\E y \in F \X ToSet(g.edges) : y[2] \in g.adj[y[1]] /\ m = Other(y[2], y[1]))
        <=> \E n \in F, x \in ToSet(g.edges) : x \in g.adj[n] /\ m = Other(x, n)
    <3>1. ASSUME NEW y \in F \X ToSet(g.edges), y[2] \in g.adj[y[1]], m = Other(y[2], y[1])
          PROVE  \E n \in F, x \in ToSet(g.edges) : x \in g.adj[n] /\ m = Other(x, n)
      BY <3>1
    <3>2. ASSUME NEW n \in F, NEW x \in ToSet(g.edges), x \in g.adj[n], m = Other(x, n)
          PROVE  \E y \in F \X ToSet(g.edges) : y[2] \in g.adj[y[1]] /\ m = Other(y[2], y[1])
      <4>1. <<n, x>> \in F \X ToSet(g.edges) /\ <<n, x>>[1] = n /\ <<n, x>>[2] = x
        OBVIOUS
      <4> QED BY <3>2, <4>1
    <3> QED BY <3>1, <3>2
  <2> QED BY <1>2, <2>1, <2>2
<1>5. ASSUME NEW F \in SUBSET Entities
      PROVE  Reached(g, F) = UNION {Mentioning(g, f) : f \in F}
  <2>1. F \in SUBSET Nodes
    BY DEF Nodes
  <2>2. ASSUME NEW m PROVE m \in Reached(g, F) <=> \E f \in F : m \in Mentioning(g, f)
    <3>1. ASSUME m \in Reached(g, F) PROVE \E f \in F : m \in Mentioning(g, f)
      <4>1. PICK n \in F, x \in ToSet(g.edges) : n \in {x[1], x[2]} /\ m = Other(x, n)
        BY <1>4, <2>1, <3>1
      <4>2. n = x[2] /\ m = x[1] /\ x = <<m, n>> /\ m \in Cells
        BY <1>3, <4>1 DEF Other
      <4> QED BY <4>2 DEF Mentioning
    <3>2. ASSUME NEW f \in F, m \in Mentioning(g, f) PROVE m \in Reached(g, F)
      <4>1. <<m, f>> \in ToSet(g.edges) /\ m \in Cells
        BY <3>2 DEF Mentioning
      <4>2. f \in {<<m, f>>[1], <<m, f>>[2]} /\ m = Other(<<m, f>>, f)
        BY <4>1, NodesAssumption DEF Other
      <4> QED BY <1>4, <2>1, <4>1, <4>2
    <3> QED BY <3>1, <3>2
  <2> QED BY <2>2
<1>6. ASSUME NEW F \in SUBSET Cells
      PROVE  Reached(g, F) = {f \in Entities : F \cap Mentioning(g, f) # {}}
  <2>1. F \in SUBSET Nodes
    BY DEF Nodes
  <2>2. ASSUME NEW m
        PROVE  m \in Reached(g, F) <=> m \in Entities /\ \E n \in F : n \in Mentioning(g, m)
    <3>1. ASSUME m \in Reached(g, F)
          PROVE  m \in Entities /\ \E n \in F : n \in Mentioning(g, m)
      <4>1. PICK n \in F, x \in ToSet(g.edges) : n \in {x[1], x[2]} /\ m = Other(x, n)
        BY <1>4, <2>1, <3>1
      <4>2. n = x[1] /\ m = x[2] /\ x = <<n, m>> /\ m \in Entities
        BY <1>3, <4>1 DEF Other
      <4> QED BY <4>2 DEF Mentioning
    <3>2. ASSUME NEW n \in F, m \in Entities, n \in Mentioning(g, m)
          PROVE  m \in Reached(g, F)
      <4>1. <<n, m>> \in ToSet(g.edges)
        BY <3>2 DEF Mentioning
      <4>2. n \in {<<n, m>>[1], <<n, m>>[2]} /\ m = Other(<<n, m>>, n)
        BY <4>1 DEF Other
      <4> QED BY <1>4, <2>1, <4>1, <4>2
    <3> QED BY <3>1, <3>2
  <2> QED BY <2>2
<1> QED BY <1>5, <1>6

\* find_related_memories() is exact on a consistent graph without dangling edges.
LEMMA TraverseExact == graph \in Graph /\ Consistent(graph) => RelatedExact
<1> SUFFICES ASSUME graph \in Graph, Consistent(graph), Dangling(graph) = {}, NEW e \in Entities
             PROVE  LET near == Mentioning(graph, e)
                        far == UNION {Mentioning(graph, f) : f \in {x \in Entities :
                                                  near \cap Mentioning(graph, x) # {}}}
                    IN /\ Related(graph, e, 1) = near /\ Related(graph, e, 2) = near
                       /\ Related(graph, e, 3) = far /\ Related(graph, e, 5) = far
  BY DEF RelatedExact
<1> DEFINE near == Mentioning(graph, e)
           about == {x \in Entities : near \cap Mentioning(graph, x) # {}}
           far == UNION {Mentioning(graph, f) : f \in about}
           beyond == UNION {Mentioning(graph, f) : f \in about \ {e}}
           nodes == ToSet(graph.nodes)
<1>1. /\ \A F \in SUBSET Entities :
           Reached(graph, F) = UNION {Mentioning(graph, f) : f \in F}
      /\ \A F \in SUBSET Cells :
           Reached(graph, F) = {f \in Entities : F \cap Mentioning(graph, f) # {}}
  BY ReachedHolds
<1>2. /\ near \subseteq Cells /\ about \subseteq Entities
      /\ \A f \in Entities : Mentioning(graph, f) \subseteq nodes \cap Cells
      /\ Cells \cap Entities = {}
  <2>1. ASSUME NEW f \in Entities, NEW c \in Mentioning(graph, f) PROVE c \in nodes
    BY <2>1 DEF Mentioning, Dangling
  <2> QED BY <2>1, NodesAssumption DEF Mentioning
<1>3. Reached(graph, {e}) = near
  <2>1. {e} \in SUBSET Entities
    OBVIOUS
  <2>2. Reached(graph, {e}) = UNION {Mentioning(graph, f) : f \in {e}}
    BY ONLY <1>1, <2>1
  <2> QED BY ONLY <2>2
<1>4. Reached(graph, near \ {e}) = about
  BY <1>1, <1>2
<1>5. Reached(graph, about \ ({e} \cup near)) = beyond
  <2>1. about \ ({e} \cup near) = about \ {e}
    BY <1>2
  <2> QED BY <1>1, <1>2, <2>1
<1>6. far = near \cup beyond
  <2>1. near # {} => e \in about
    OBVIOUS
  <2>2. e \in about => near \subseteq far
    OBVIOUS
  <2> QED BY <2>1, <2>2
<1>7. /\ near \subseteq nodes \cap Cells /\ beyond \subseteq nodes \cap Cells
      /\ e \notin Cells /\ about \cap Cells = {}
  BY <1>2
<1> HIDE DEF near, about, beyond, far, nodes
<1>8. /\ Traverse(graph, {e}, 1) = ({e} \cup near) \cap nodes
      /\ Traverse(graph, {e}, 2) = (({e} \cup near) \cup about) \cap nodes
      /\ Traverse(graph, {e}, 3) = ((({e} \cup near) \cup about) \cup beyond) \cap nodes
      /\ Traverse(graph, {e}, 5) = ((({e} \cup near) \cup about) \cup beyond) \cap nodes
  BY ONLY <1>3, <1>4, <1>5, TraverseHops DEF nodes
<1>9. /\ Related(graph, e, 1) = near /\ Related(graph, e, 2) = near
      /\ Related(graph, e, 3) = far /\ Related(graph, e, 5) = far
  BY ONLY <1>6, <1>7, <1>8 DEF Related
<1> QED BY <1>9 DEF near, about, far

\* At every moment a traversal may take its snapshot the graph is consistent,
\* has no edge to a node that is gone if there is room for a cell's entities,
\* and what find_related_memories() finds is exact.
THEOREM GraphConsistentHolds == Spec => []GraphConsistent
<1>1. TypeOK /\ StoreWork /\ GraphWork => GraphConsistent
  BY TraverseExact DEF GraphWork, GraphConsistent, Roomy
<1>2. Init => TypeOK /\ StoreWork /\ GraphWork
  BY TypeInit, WorkInit
<1>3. TypeOK /\ StoreWork /\ GraphWork /\ [Next]_vars => (TypeOK /\ StoreWork /\ GraphWork)'
  BY TypeStep, StoreStep, GraphStep
<1> QED BY <1>1, <1>2, <1>3, PTL DEF Spec
-----------------------------------------------------------------------------
(* The scenes *)

\* The scenes of the group: chains, no more than there is room for, and no cell
\* has two homes.
Kept(scs) ==
  /\ scs \in Seq(MemScene) /\ Len(scs) <= MaxScenes
  /\ \A i \in 1..Len(scs) : Chain(scs[i])
  /\ \A c \in DOMAIN Time : \A i, j \in Homes(scs, c) : i = j

\* The places of a sequence without one of its elements.
LEMMA RemoveAtHolds ==
  ASSUME NEW S, NEW s \in Seq(S), NEW i \in 1..Len(s)
  PROVE  /\ RemoveAt(s, i) \in Seq(S) /\ Len(RemoveAt(s, i)) = Len(s) - 1
         /\ \A k \in 1..(Len(s) - 1) :
              RemoveAt(s, i)[k] = s[IF k < i THEN k ELSE k + 1]
<1> DEFINE a == SubSeq(s, 1, i - 1)
           b == SubSeq(s, i + 1, Len(s))
<1>0. Len(s) \in Nat /\ i \in Nat /\ 1 <= i /\ i <= Len(s)
  BY LenProperties
<1>1. /\ a \in Seq(S) /\ Len(a) = i - 1 /\ \A k \in 1..(i - 1) : a[k] = s[k]
      /\ b \in Seq(S) /\ Len(b) = Len(s) - i /\ \A k \in 1..(Len(s) - i) : b[k] = s[i + k]
  <2>1. \A k \in 1..Len(s) : s[k] \in S
    BY ElementOfSeq
  <2>2. /\ a \in Seq(S) /\ Len(a) = i - 1 /\ \A k \in 1..(i - 1) : a[k] = s[k]
    <3>1. 1..(i - 1) \subseteq 1..Len(s)
      BY <1>0
    <3> QED BY <1>0, <2>1, <3>1, SubSeqProperties
  <2>3. b \in Seq(S) /\ Len(b) = Len(s) - i /\ \A k \in 1..(Len(s) - i) : b[k] = s[i + k]
    <3>1. (i + 1)..Len(s) \subseteq 1..Len(s)
      BY <1>0
    <3> QED BY <1>0, <2>1, <3>1, SubSeqProperties
  <2> QED BY <2>2, <2>3
<1>2. RemoveAt(s, i) = a \o b
  BY DEF RemoveAt
<1> HIDE DEF a, b
<1>3. /\ a \o b \in Seq(S) /\ Len(a \o b) = Len(a) + Len(b)
      /\ \A k \in 1..(Len(a) + Len(b)) :
           (a \o b)[k] = IF k <= Len(a) THEN a[k] ELSE b[k - Len(a)]
  BY <1>1, ConcatProperties
<1>4. ASSUME NEW k \in 1..(Len(s) - 1)
      PROVE  (a \o b)[k] = s[IF k < i THEN k ELSE k + 1]
  <2>1. CASE k < i
    BY <1>0, <1>1, <1>3, <2>1
  <2>2. CASE ~(k < i)
    <3>1. /\ ~(k <= Len(a)) /\ k - Len(a) \in 1..(Len(s) - i)
          /\ i + (k - Len(a)) = k + 1 /\ k \in 1..(Len(a) + Len(b))
      BY <1>0, <1>1, <2>2
    <3> QED BY <1>1, <1>3, <2>2, <3>1
  <2> QED BY <2>1, <2>2
<1> QED BY <1>0, <1>1, <1>2, <1>3, <1>4

\* Who lives in a scene.
LEMMA HomesOf ==
  ASSUME NEW scs, NEW c, NEW i
  PROVE  i \in Homes(scs, c) <=> i \in 1..Len(scs) /\ Contains(scs[i].members, c)
  BY DEF Homes

\* A scene in the place of one of the others: nobody else lives in it.
LEMMA TouchHolds ==
  ASSUME NEW scs, Kept(scs), NEW i \in 1..Len(scs), NEW scene, Chain(scene),
         \A c \in DOMAIN Time : Contains(scene.members, c) =>
           \A j \in Homes(scs, c) : j = i
  PROVE  Kept(Touch(scs, i, scene))
<1> DEFINE r == RemoveAt(scs, i)
           w == Touch(scs, i, scene)
           n == Len(scs)
           at(k) == IF k < i THEN k ELSE k + 1
<1>0. /\ scs \in Seq(MemScene) /\ n \in Nat /\ n <= MaxScenes /\ scene \in MemScene
      /\ i \in Nat /\ 1 <= i /\ i <= n
  BY LenProperties DEF Kept, Chain
<1>1. /\ r \in Seq(MemScene) /\ Len(r) = n - 1
      /\ \A k \in 1..(n - 1) : r[k] = scs[at(k)]
  BY <1>0, RemoveAtHolds
<1>2. w = Append(r, scene)
  BY DEF Touch
<1> HIDE DEF r, w
<1>3. /\ w \in Seq(MemScene) /\ Len(w) = n /\ w[n] = scene
      /\ \A k \in 1..(n - 1) : w[k] = scs[at(k)]
  BY <1>0, <1>1, <1>2, HoldsAppend
<1>4. /\ \A k \in 1..(n - 1) : at(k) \in 1..n /\ at(k) # i
      /\ \A k, l \in 1..(n - 1) : at(k) = at(l) => k = l
      /\ \A k \in 1..n : k = n \/ k \in 1..(n - 1)
  BY <1>0
<1> HIDE DEF at
<1>5. \A k \in 1..n : Chain(w[k])
  BY <1>3, <1>4 DEF Kept
<1>6. ASSUME NEW c \in DOMAIN Time, NEW k \in Homes(w, c), NEW l \in Homes(w, c)
      PROVE  k = l
  <2>1. \A m \in Homes(w, c) : \/ m = n /\ Contains(scene.members, c)
                               \/ m \in 1..(n - 1) /\ at(m) \in Homes(scs, c)
    BY <1>3, <1>4, HomesOf
  <2>2. \A p, q \in Homes(scs, c) : p = q
    BY DEF Kept
  <2>3. Contains(scene.members, c) => \A j \in Homes(scs, c) : j = i
    OBVIOUS
  <2> QED BY ONLY <1>4, <2>1, <2>2, <2>3, k \in Homes(w, c), l \in Homes(w, c)
<1> QED BY <1>0, <1>3, <1>5, <1>6 DEF Kept, w

\* A scene for a cell that has no home, the oldest scene making room.
LEMMA InsertHolds ==
  ASSUME NEW scs, Kept(scs), NEW scene, Chain(scene),
         \A c \in DOMAIN Time : Contains(scene.members, c) => Homes(scs, c) = {}
  PROVE  Kept(Insert(scs, scene))
<1> DEFINE all == Append(scs, scene)
           n == Len(scs)
<1>0. /\ scs \in Seq(MemScene) /\ n \in Nat /\ n <= MaxScenes /\ scene \in MemScene
      /\ MaxScenes \in Nat
  BY ClusterAssumption, LenProperties DEF Kept, Chain
<1>1. /\ all \in Seq(MemScene) /\ Len(all) = n + 1 /\ all[n + 1] = scene
      /\ \A k \in 1..n : all[k] = scs[k]
  BY <1>0, HoldsAppend
<1>2. Insert(scs, scene) = IF Len(all) <= MaxScenes THEN all ELSE Tail(all)
  BY DEF Insert
<1> HIDE DEF all
<1>3. \A k \in 1..(n + 1) : k = n + 1 \/ k \in 1..n
  BY <1>0
<1>4. \A k \in 1..(n + 1) : Chain(all[k])
  BY <1>1, <1>3 DEF Kept
<1>5. ASSUME NEW c \in DOMAIN Time, NEW k \in Homes(all, c), NEW l \in Homes(all, c)
      PROVE  k = l
  <2>1. \A m \in Homes(all, c) : \/ m = n + 1 /\ Contains(scene.members, c)
                                 \/ m \in Homes(scs, c)
    BY <1>1, <1>3, HomesOf
  <2>2. \A p, q \in Homes(scs, c) : p = q
    BY DEF Kept
  <2> QED BY <2>1, <2>2
<1>6. CASE Len(all) <= MaxScenes
  BY <1>1, <1>2, <1>4, <1>5, <1>6 DEF Kept
<1>7. CASE ~(Len(all) <= MaxScenes)
  <2> DEFINE t == Tail(all)
  <2>1. t \in Seq(MemScene) /\ Len(t) = n /\ \A k \in 1..n : t[k] = all[k + 1]
    BY <1>0, <1>1, TailHolds
  <2> HIDE DEF t
  <2>2. \A k \in 1..n : k + 1 \in 1..(n + 1)
    BY <1>0
  <2>3. \A k \in 1..n : Chain(t[k])
    BY <1>4, <2>1, <2>2
  <2>4. ASSUME NEW c \in DOMAIN Time, NEW k \in Homes(t, c), NEW l \in Homes(t, c)
        PROVE  k = l
    <3>1. ASSUME NEW m \in Homes(t, c) PROVE m \in 1..n /\ m + 1 \in Homes(all, c)
      <4>1. m \in 1..n /\ Contains(t[m].members, c)
        BY <2>1, HomesOf
      <4>2. m + 1 \in 1..Len(all) /\ Contains(all[m + 1].members, c)
        BY <1>1, <2>1, <2>2, <4>1
      <4> QED BY <4>1, <4>2, HomesOf
    <3>2. k + 1 = l + 1
      BY <1>5, <3>1
    <3>3. k \in Int /\ l \in Int
      BY <3>1
    <3> QED BY ONLY <3>2, <3>3
  <2> QED BY <1>0, <1>2, <1>7, <2>1, <2>3, <2>4 DEF Kept, t
<1> QED BY <1>6, <1>7
\* Joining a candidate makes it a longer chain.
LEMMA MergedHolds ==
  ASSUME NEW scs, Kept(scs), NEW c \in DOMAIN Time, Homes(scs, c) = {},
         NEW i \in Candidates(scs, c)
  PROVE  /\ i \in 1..Len(scs) /\ Chain(Merged(scs[i], c))
         /\ \A d : Contains(Merged(scs[i], c).members, d) =>
              d = c \/ Contains(scs[i].members, d)
<1> DEFINE scene == scs[i]
           old == scene.members
           n == Len(old)
           h == Merged(scene, c)
           new == h.members
<1>1. /\ i \in 1..Len(scs) /\ c \in Embedded /\ scene.centroid
      /\ n < MaxSceneSize /\ Distance(scene.last, Time[c]) <= Gap
  BY DEF Candidates, WithinWindow
<1>2. /\ scene \in MemScene /\ n \in 1..MaxSceneSize /\ IsInjective(old)
      /\ \A k \in 2..n :
           /\ Distance(Time[old[k]], Time[old[k - 1]]) <= Gap
           /\ old[k] \in Embedded /\ old[k - 1] \in Embedded
      /\ scene.last = Time[Last(old)] /\ (scene.centroid <=> old[1] \in Embedded)
  BY <1>1 DEF Kept, Chain
<1>3. old \in Seq(DOMAIN Time) /\ n \in Nat /\ n >= 1 /\ MaxSceneSize \in Nat
  BY <1>2, ClusterAssumption, LenProperties DEF MemScene
<1>4. h = [scene EXCEPT !.members = Append(@, c), !.last = Time[c]]
  BY DEF Merged
<1>5. ~Contains(old, c)
  BY <1>1, HomesOf
<1> HIDE DEF scene, h
<1>6. h.members = Append(old, c) /\ h.last = Time[c] /\ h.centroid = scene.centroid
  BY <1>2, <1>4 DEF MemScene
<1>7. \A t \in DOMAIN Time : Time[t] \in Int
  BY ClusterAssumption
<1> HIDE DEF old
<1>8. /\ new \in Seq(DOMAIN Time) /\ Len(new) = n + 1 /\ new[n + 1] = c
      /\ \A k \in 1..n : new[k] = old[k]
  BY <1>3, <1>6, HoldsAppend
<1>9. h \in MemScene
  <2>1. h = [members |-> h.members, last |-> h.last, centroid |-> h.centroid]
    BY <1>2, <1>4 DEF MemScene
  <2>2. h.members \in Seq(DOMAIN Time) /\ h.last \in Int /\ h.centroid \in BOOLEAN
    BY <1>2, <1>6, <1>7, <1>8 DEF MemScene
  <2> QED BY ONLY <2>1, <2>2 DEF MemScene
<1> HIDE DEF new
<1>10. IsInjective(new)
  <2>1. DOMAIN new = 1..(n + 1) /\ DOMAIN old = 1..n
    BY <1>3, <1>8, LenProperties
  <2>2. \A k \in 1..n : new[k] # c
    BY <1>5, <1>8 DEF Contains
  <2>3. \A k \in 1..(n + 1) : k = n + 1 \/ k \in 1..n
    BY <1>3
  <2>4. \A k, l \in 1..n : old[k] = old[l] => k = l
    BY <1>2, <2>1 DEF IsInjective
  <2>5. \A k, l \in 1..(n + 1) : new[k] = new[l] => k = l
    BY ONLY <1>8, <2>2, <2>3, <2>4
  <2> QED BY ONLY <2>1, <2>5 DEF IsInjective
<1>11. ASSUME NEW k \in 2..(n + 1)
       PROVE  /\ Distance(Time[new[k]], Time[new[k - 1]]) <= Gap
              /\ new[k] \in Embedded /\ new[k - 1] \in Embedded
  <2>1. CASE k \in 2..n
    <3>1. k \in 1..n /\ k - 1 \in 1..n
      BY <1>3, <2>1
    <3> QED BY <1>2, <1>8, <2>1, <3>1
  <2>2. CASE k = n + 1
    <3>1. k - 1 = n /\ n \in 1..n
      BY <1>3, <2>2
    <3>2. new[k] = c /\ new[k - 1] = old[n]
      BY <1>8, <2>2, <3>1
    <3>3. old[n] \in Embedded
      <4> HIDE DEF n
      <4>1. n \in 2..n \/ n = 1
        BY ONLY <1>3
      <4> QED BY <1>1, <1>2, <4>1
    <3>4. old[n] \in DOMAIN Time
      BY <1>3, <3>1, ElementOfSeq
    <3>5. Distance(Time[c], Time[old[n]]) = Distance(Time[old[n]], Time[c])
      <4>1. Time[c] \in Int /\ Time[old[n]] \in Int
        BY <1>7, <3>4
      <4> QED BY ONLY <4>1 DEF Distance
    <3>6. scene.last = Time[old[n]]
      BY <1>2 DEF Last
    <3> QED BY <1>1, <3>2, <3>3, <3>5, <3>6
  <2> QED BY <1>3, <2>1, <2>2
<1>12. h.last = Time[Last(new)] /\ (h.centroid <=> new[1] \in Embedded)
  <2>1. Last(new) = c
    BY <1>8 DEF Last
  <2>2. new[1] = old[1]
    BY <1>3, <1>8
  <2> QED BY <1>2, <1>6, <2>1, <2>2
<1>13. Len(new) \in 1..MaxSceneSize
  <2>1. n + 1 \in 1..MaxSceneSize
    BY <1>1, <1>3
  <2> QED BY <1>8, <2>1
<1>14. Chain(h)
  BY <1>8, <1>9, <1>10, <1>11, <1>12, <1>13 DEF Chain, new
<1>15. ASSUME NEW d, Contains(new, d) PROVE d = c \/ Contains(old, d)
  <2>1. PICK k \in 1..(n + 1) : new[k] = d
    BY <1>8, <1>15 DEF Contains
  <2>2. k = n + 1 \/ k \in 1..n
    BY <1>3
  <2> QED BY <1>8, <2>1, <2>2 DEF Contains
<1> QED BY <1>1, <1>14, <1>15 DEF h, scene, old, new

\* cluster() keeps the scenes, whichever candidate it takes.
LEMMA AssignHolds ==
  ASSUME NEW scs, Kept(scs), NEW c \in DOMAIN Time, NEW after \in Assign(scs, c)
  PROVE  Kept(after)
<1>1. CASE Homes(scs, c) # {}
  <2>1. PICK i \in Homes(scs, c) : after = Touch(scs, i, scs[i])
    BY <1>1 DEF Assign
  <2>2. i \in 1..Len(scs) /\ Chain(scs[i])
    BY <2>1, HomesOf DEF Kept
  <2>3. \A d \in DOMAIN Time : Contains(scs[i].members, d) => \A j \in Homes(scs, d) : j = i
    <3>1. \A d : Contains(scs[i].members, d) => i \in Homes(scs, d)
      BY <2>2, HomesOf
    <3> QED BY <3>1 DEF Kept
  <2> QED BY <2>1, <2>2, <2>3, TouchHolds
<1>2. CASE Homes(scs, c) = {} /\ after = Insert(scs, NewScene(c))
  <2> DEFINE s == NewScene(c)
             m == <<c>>
  <2>1. s = [members |-> m, last |-> Time[c], centroid |-> c \in Embedded]
    BY DEF NewScene
  <2>2. /\ m \in Seq(DOMAIN Time) /\ Len(m) = 1 /\ m[1] = c /\ DOMAIN m = 1..1
        /\ Last(m) = c /\ IsInjective(m) /\ \A d : Contains(m, d) => d = c
    BY DEF Last, IsInjective, Contains
  <2> HIDE DEF s, m
  <2>3. s.members = m /\ s.last = Time[c] /\ (s.centroid <=> c \in Embedded)
    BY ONLY <2>1
  <2>4. s \in MemScene
    <3>1. Time[c] \in Int
      BY ClusterAssumption
    <3> QED BY ONLY <2>1, <2>2, <3>1 DEF MemScene
  <2>5. Chain(s)
    <3>1. 1 \in 1..MaxSceneSize /\ \A k \in 2..1 : FALSE
      BY ClusterAssumption
    <3> QED BY ONLY <2>2, <2>3, <2>4, <3>1 DEF Chain
  <2> QED BY <1>2, <2>2, <2>3, <2>5, InsertHolds DEF s
<1>3. ASSUME Homes(scs, c) = {}, NEW i \in Candidates(scs, c),
             after = Touch(scs, i, Merged(scs[i], c))
      PROVE  Kept(after)
  <2> DEFINE s == Merged(scs[i], c)
  <2>1. /\ i \in 1..Len(scs) /\ Chain(s)
        /\ \A d : Contains(s.members, d) => d = c \/ Contains(scs[i].members, d)
    BY <1>3, MergedHolds
  <2> HIDE DEF s
  <2>2. \A d \in DOMAIN Time : Contains(s.members, d) => \A j \in Homes(scs, d) : j = i
    <3>1. \A d : Contains(scs[i].members, d) => i \in Homes(scs, d)
      BY <2>1, HomesOf
    <3> QED BY <1>3, <2>1, <3>1 DEF Kept
  <2> QED BY <1>3, <2>1, <2>2, TouchHolds DEF s
<1> QED BY <1>1, <1>2, <1>3 DEF Assign

\* However tasks interleave, are cancelled, repeated or lost: a cell is in one
\* scene at most, the caps hold, and a scene is a chain of cells near in time,
\* each to the one that joined before it.
THEOREM ScenesAreChainsHolds == Spec => []ScenesAreChains
<1>1. Kept(scenes) => ScenesAreChains
  <2> SUFFICES ASSUME Kept(scenes), NEW c \in Cells
               PROVE  Cardinality(Homes(scenes, c)) <= 1
    BY DEF Kept, ScenesAreChains
  <2>1. \A i, j \in Homes(scenes, c) : i = j
    BY ColdAssumption DEF Kept
  <2>2. Homes(scenes, c) = {} \/ \E i : Homes(scenes, c) = {i}
    BY <2>1
  <2>3. Cardinality({}) = 0 /\ \A i : Cardinality({i}) = 1
    BY FS_EmptySet, FS_Singleton
  <2>4. Cardinality(Homes(scenes, c)) = 0 \/ Cardinality(Homes(scenes, c)) = 1
    BY ONLY <2>2, <2>3, Zenon
  <2> QED BY ONLY <2>4
<1>2. Init => Kept(scenes)
  BY EmptySeq, ClusterAssumption DEF Init, Kept, Homes
<1>3. Kept(scenes) /\ [Next]_vars => Kept(scenes)'
  <2> SUFFICES ASSUME Kept(scenes), [Next]_vars PROVE Kept(scenes')
    BY DEF Kept, Homes, Chain
  <2>1. ASSUME NEW c \in Cells, Cluster(c) PROVE Kept(scenes')
    <3>1. scenes' \in Assign(scenes, c) /\ c \in DOMAIN Time
      BY <2>1, ColdAssumption DEF Cluster
    <3> QED BY <3>1, AssignHolds
  <2>2. CASE Crash
    <3>1. scenes' = <<>>
      BY <2>2 DEF Crash
    <3> QED BY <3>1, EmptySeq, ClusterAssumption DEF Kept, Homes
  <2>3. CASE UNCHANGED scenes
    BY <2>3
  <2> QED
    BY <2>1, <2>2, <2>3
    DEF Next, vars, Schedule, RunNow, Extract, ExtractError, ClusterError, StoreEntities,
        BulkError, StoreEach, IndexGraph, Cancel, GraphCall
<1> QED BY <1>1, <1>2, <1>3, PTL DEF Spec
=============================================================================
