----------------------------- MODULE RowLemmas -----------------------------
(***************************************************************************)
(* Facts about database tables, modelled as sequences of rows, and about   *)
(* the sums and products that reports take over finite sets of rows.       *)
(***************************************************************************)
EXTENDS Sequences, Integers, FiniteSetsExt, SequenceTheorems, FiniteSetTheorems, WellFoundedInduction, TLAPS

(* Updating one row keeps a table a table with the same rows, whether or   *)
(* not the row exists.                                                     *)
LEMMA SeqExcept ==
  ASSUME NEW S, NEW s \in Seq(S), NEW i, NEW v, i \in DOMAIN s => v \in S
  PROVE  /\ [s EXCEPT ![i] = v] \in Seq(S)
         /\ DOMAIN [s EXCEPT ![i] = v] = DOMAIN s
         /\ \A j \in DOMAIN s : [s EXCEPT ![i] = v][j] = IF j = i THEN v ELSE s[j]
<1>1. DOMAIN s = 1..Len(s) /\ s \in [1..Len(s) -> S]
  BY LenProperties
<1>2. CASE i \in DOMAIN s
  BY <1>1, <1>2, ExceptSeq
<1>3. CASE i \notin DOMAIN s
  <2>1. [s EXCEPT ![i] = v] = s
    BY <1>1, <1>3
  <2>2. QED
    BY <1>3, <2>1
<1>4. QED
  BY <1>2, <1>3

(* Appending a row keeps the earlier rows in place.                        *)
LEMMA SeqAppend ==
  ASSUME NEW S, NEW s \in Seq(S), NEW v \in S
  PROVE  /\ Append(s, v) \in Seq(S)
         /\ Len(s) \in Nat
         /\ DOMAIN Append(s, v) = DOMAIN s \cup {Len(s) + 1}
         /\ Len(s) + 1 \notin DOMAIN s
         /\ \A i \in DOMAIN s : Append(s, v)[i] = s[i]
         /\ Append(s, v)[Len(s) + 1] = v
OBVIOUS

LEMMA RowIds ==
  ASSUME NEW S, NEW s \in Seq(S)
  PROVE  /\ DOMAIN s \subseteq Nat \ {0}
         /\ \A i \in DOMAIN s : s[i] \in S
BY LenProperties

(* A status column of one row changes; every other column stays.           *)
LEMMA StatusUpdate ==
  ASSUME NEW S, NEW s \in Seq(S), NEW i, NEW v,
         i \in DOMAIN s => [s[i] EXCEPT !.status = v] \in S
  PROVE  /\ [s EXCEPT ![i].status = v] \in Seq(S)
         /\ DOMAIN [s EXCEPT ![i].status = v] = DOMAIN s
         /\ \A j \in DOMAIN s : [s EXCEPT ![i].status = v][j] =
              IF j = i THEN [s[i] EXCEPT !.status = v] ELSE s[j]
BY SeqExcept

-----------------------------------------------------------------------------
(* Folds over finite sets                                                   *)

(* MapThenFoldSet takes the elements of a set in the order CHOOSE gives. A  *)
(* function of the subsets of S is its fold when it satisfies the recursion *)
(* that defines it; the operation is a function here, so that sums and      *)
(* products are cases of one.                                               *)
Pick(T) == CHOOSE x \in T : TRUE
FoldedAt(g, T, f, op, base) == IF T = {} THEN base ELSE op[<<f[Pick(T)], g[T \ {Pick(T)}]>>]
IsFold(g, S, f, op, base) == \A T \in SUBSET S : g[T] = FoldedAt(g, T, f, op, base)

(* Subsets of a finite set, and what is left without the element taken.     *)
LEMMA PickLeavesLess ==
  ASSUME NEW S, IsFiniteSet(S), NEW T \in SUBSET S
  PROVE  /\ IsFiniteSet(T) /\ Cardinality(T) \in Nat
         /\ T # {} => /\ Pick(T) \in T /\ T \ {Pick(T)} \in SUBSET S
                      /\ Cardinality(T \ {Pick(T)}) = Cardinality(T) - 1
<1>1. IsFiniteSet(T) /\ Cardinality(T) \in Nat
  BY FS_Subset, FS_CardinalityType
<1>2. T # {} => Pick(T) \in T
  BY DEF Pick
<1> QED
  BY <1>1, <1>2, FS_RemoveElement

(* A set of numbers that is not empty has a least one.                      *)
LEMMA LeastNumber ==
  ASSUME NEW A \in SUBSET Nat, A # {}
  PROVE  \E n \in A : \A m \in A : n <= m
<1>1. PICK n \in A : \A m \in A : <<m, n>> \notin OpToRel(<, Nat)
  BY NatLessThanWellFounded, WFMin
<1>2. \A m \in A : ~(m < n)
  BY <1>1 DEF OpToRel
<1> QED
  BY <1>2

(* The recursion has a solution: one for the subsets of n elements yields   *)
(* one for those of n + 1.                                                  *)
LEMMA FoldsExist ==
  ASSUME NEW S, IsFiniteSet(S), NEW V, NEW f, \A x \in S : f[x] \in V,
         NEW op \in [V \X V -> V], NEW base \in V
  PROVE  \E g \in [SUBSET S -> V] : IsFold(g, S, f, op, base)
<1> DEFINE Upto(n) == \E g \in [SUBSET S -> V] : \A T \in SUBSET S :
                         Cardinality(T) < n => g[T] = FoldedAt(g, T, f, op, base)
           Missing == {n \in Nat : ~Upto(n)}
<1>0. \A T \in SUBSET S : Cardinality(T) \in Nat /\ Cardinality(T) <= Cardinality(S)
  BY FS_Subset, FS_CardinalityType
<1>1. Missing = {}
  <2> SUFFICES ASSUME Missing # {} PROVE FALSE
    OBVIOUS
  <2>1. PICK n \in Nat : ~Upto(n) /\ \A m \in Nat : ~Upto(m) => n <= m
    <3> HIDE DEF Upto
    <3>1. PICK n \in Missing : \A m \in Missing : n <= m
      BY LeastNumber
    <3> QED
      BY <3>1
  <2>2. CASE n = 0
    <3> DEFINE g == [T \in SUBSET S |-> base]
    <3>1. g \in [SUBSET S -> V]
      OBVIOUS
    <3>2. \A T \in SUBSET S : Cardinality(T) < n => g[T] = FoldedAt(g, T, f, op, base)
      BY <1>0, <2>2
    <3> HIDE DEF g
    <3>3. Upto(n)
      BY <3>1, <3>2
    <3> QED
      BY <2>1, <3>3
  <2>3. CASE n # 0
    <3>1. n - 1 \in Nat /\ Upto(n - 1)
      <4> HIDE DEF Upto
      <4> QED
        BY <2>1, <2>3
    <3>2. PICK g \in [SUBSET S -> V] : \A T \in SUBSET S :
             Cardinality(T) < n - 1 => g[T] = FoldedAt(g, T, f, op, base)
      BY <3>1
    <3> DEFINE h == [T \in SUBSET S |-> FoldedAt(g, T, f, op, base)]
    <3>3. \A T \in SUBSET S : T # {} => f[Pick(T)] \in V /\ T \ {Pick(T)} \in SUBSET S
      BY PickLeavesLess
    <3>4. h \in [SUBSET S -> V]
      BY <3>2, <3>3 DEF FoldedAt
    <3>5. ASSUME NEW T \in SUBSET S, Cardinality(T) < n PROVE h[T] = FoldedAt(h, T, f, op, base)
      <4>1. CASE T = {}
        BY <4>1 DEF FoldedAt
      <4>2. CASE T # {}
        <5>1. T \ {Pick(T)} \in SUBSET S /\ Cardinality(T \ {Pick(T)}) < n - 1
          BY <2>1, <3>5, <4>2, PickLeavesLess
        <5>2. h[T \ {Pick(T)}] = g[T \ {Pick(T)}]
          BY <3>2, <5>1
        <5> QED
          BY <4>2, <5>2 DEF FoldedAt
      <4> QED
        BY <4>1, <4>2
    <3>6. Upto(n)
      <4> HIDE DEF h
      <4> QED
        BY <3>4, <3>5
    <3> QED
      BY <2>1, <3>6
  <2> QED
    BY <2>2, <2>3
<1>2. Cardinality(S) \in Nat
  BY FS_CardinalityType
<1>3. Upto(Cardinality(S) + 1)
  <2> HIDE DEF Upto
  <2> QED
    BY <1>1, <1>2
<1>4. PICK g \in [SUBSET S -> V] : \A T \in SUBSET S :
         Cardinality(T) < Cardinality(S) + 1 => g[T] = FoldedAt(g, T, f, op, base)
  BY <1>3
<1>5. \A T \in SUBSET S : Cardinality(T) < Cardinality(S) + 1
  BY <1>0, <1>2
<1> QED
  BY <1>4, <1>5 DEF IsFold

(* What holds of a set when it holds of all smaller ones, holds of every    *)
(* subset of a finite set. What holds is the set of those subsets of which  *)
(* it does.                                                                 *)
LEMMA SmallerInduction ==
  ASSUME NEW S, IsFiniteSet(S), NEW Holds,
         \A T \in SUBSET S :
            (\A U \in SUBSET S : Cardinality(U) < Cardinality(T) => U \in Holds) => T \in Holds
  PROVE  \A T \in SUBSET S : T \in Holds
<1> DEFINE Fails == {T \in SUBSET S : T \notin Holds}
           Sizes == {n \in Nat : \E T \in Fails : Cardinality(T) = n}
<1> SUFFICES ASSUME Fails # {} PROVE FALSE
  OBVIOUS
<1>0. \A T \in SUBSET S : Cardinality(T) \in Nat
  BY FS_Subset, FS_CardinalityType
<1>1. Sizes # {}
  BY <1>0
<1>2. PICK n \in Sizes : \A m \in Sizes : n <= m
  BY <1>1, LeastNumber
<1>3. PICK T \in Fails : Cardinality(T) = n
  BY <1>2
<1>4. \A U \in SUBSET S : Cardinality(U) < Cardinality(T) => U \notin Fails
  BY <1>0, <1>2, <1>3
<1> QED
  BY <1>3, <1>4

(* Or when it holds of the empty set, and of a set if it does of what is    *)
(* left without one element.                                                *)
LEMMA PickInduction ==
  ASSUME NEW S, IsFiniteSet(S), NEW Holds, {} \in Holds,
         \A T \in SUBSET S : T # {} /\ T \ {Pick(T)} \in Holds => T \in Holds
  PROVE  \A T \in SUBSET S : T \in Holds
<1>1. ASSUME NEW T \in SUBSET S, \A U \in SUBSET S : Cardinality(U) < Cardinality(T) => U \in Holds
      PROVE  T \in Holds
  <2>1. CASE T = {}
    BY <2>1
  <2>2. CASE T # {}
    <3>1. T \ {Pick(T)} \in SUBSET S /\ Cardinality(T \ {Pick(T)}) < Cardinality(T)
      BY <2>2, PickLeavesLess
    <3> QED
      BY <1>1, <2>2, <3>1
  <2> QED
    BY <2>1, <2>2
<1> QED
  BY <1>1, SmallerInduction

-----------------------------------------------------------------------------
(* Sums and products                                                        *)

Total(f, S) == MapThenSumSet(LAMBDA x : f[x], S)
Plus == [p \in Int \X Int |-> p[1] + p[2]]

(* The sum of nothing is 0; any other is that of an element and the rest.   *)
LEMMA TotalUnfolds ==
  ASSUME NEW S, IsFiniteSet(S), NEW f, \A x \in S : f[x] \in Int
  PROVE  /\ Total(f, S) \in Int
         /\ S = {} => Total(f, S) = 0
         /\ S # {} => Total(f, S) = f[Pick(S)] + Total(f, S \ {Pick(S)})
<1> DEFINE Sums(h, U) == h = [T \in SUBSET U |-> IF T = {} THEN 0 ELSE f[Pick(T)] + h[T \ {Pick(T)}]]
           sum(U) == CHOOSE h : Sums(h, U)
<1>1. PICK g \in [SUBSET S -> Int] : IsFold(g, S, f, Plus, 0)
  <2>1. Plus \in [Int \X Int -> Int] /\ 0 \in Int
    BY DEF Plus
  <2>2. ASSUME NEW op \in [Int \X Int -> Int], NEW base \in Int
        PROVE  \E g \in [SUBSET S -> Int] : IsFold(g, S, f, op, base)
    BY FoldsExist
  <2> QED
    BY <2>1, <2>2
<1>2. \A T \in SUBSET S : g[T] = IF T = {} THEN 0 ELSE f[Pick(T)] + g[T \ {Pick(T)}]
  <2> SUFFICES ASSUME NEW T \in SUBSET S, T # {} PROVE g[T] = f[Pick(T)] + g[T \ {Pick(T)}]
    BY <1>1 DEF IsFold, FoldedAt
  <2>1. f[Pick(T)] \in Int /\ g[T \ {Pick(T)}] \in Int
    BY <1>1, PickLeavesLess
  <2> QED
    BY <1>1, <2>1 DEF IsFold, FoldedAt, Plus
<1>3. ASSUME NEW U \in SUBSET S PROVE Sums(sum(U), U)
  <2> DEFINE h == [T \in SUBSET U |-> g[T]]
  <2>1. Sums(h, U)
    BY <1>2
  <2> HIDE DEF h, Sums
  <2> QED
    BY <2>1
<1>4. ASSUME NEW U \in SUBSET S PROVE Total(f, U) = g[U]
  <2>1. Total(f, U) = sum(U)[U]
    BY DEF Total, MapThenSumSet, MapThenFoldSet, Pick
  <2> DEFINE h == sum(U)
             Same == {T \in SUBSET U : g[T] = h[T]}
  <2>2. \A T \in SUBSET U : h[T] = IF T = {} THEN 0 ELSE f[Pick(T)] + h[T \ {Pick(T)}]
    <3>1. Sums(h, U)
      BY <1>3
    <3> HIDE DEF h
    <3> QED
      BY <3>1
  <2> HIDE DEF h
  <2>3. {} \in Same
    BY <1>2, <2>2
  <2>4. \A T \in SUBSET U : T # {} /\ T \ {Pick(T)} \in Same => T \in Same
    BY <1>2, <2>2
  <2>5. IsFiniteSet(U)
    BY FS_Subset
  <2>6. U \in Same
    <3> HIDE DEF Same
    <3> QED
      BY <2>3, <2>4, <2>5, PickInduction
  <2> QED
    BY <2>1, <2>6 DEF h
<1>5. Total(f, S) = g[S] /\ Total(f, S \ {Pick(S)}) = g[S \ {Pick(S)}]
  BY <1>4
<1> QED
  BY <1>1, <1>2, <1>5

(* Any element may be taken first.                                          *)
LEMMA TotalTakes ==
  ASSUME NEW S, IsFiniteSet(S), NEW f, \A x \in S : f[x] \in Int
  PROVE  \A p \in S : Total(f, S) = f[p] + Total(f, S \ {p})
<1> DEFINE Free == {T \in SUBSET S : \A p \in T : Total(f, T) = f[p] + Total(f, T \ {p})}
<1>1. \A T \in SUBSET S : Total(f, T) \in Int /\ (T # {} => Total(f, T) = f[Pick(T)] + Total(f, T \ {Pick(T)}))
  BY FS_Subset, TotalUnfolds
<1>2. \A T \in SUBSET S : \A p \in T : T \ {p} \in SUBSET S /\ Cardinality(T \ {p}) < Cardinality(T)
  <2> SUFFICES ASSUME NEW T \in SUBSET S, NEW p \in T PROVE Cardinality(T \ {p}) < Cardinality(T)
    OBVIOUS
  <2>1. IsFiniteSet(T)
    BY FS_Subset
  <2>2. Cardinality(T \ {p}) = Cardinality(T) - 1 /\ Cardinality(T) \in Nat
    BY <2>1, FS_RemoveElement, FS_CardinalityType
  <2> QED
    BY <2>2
<1>3. ASSUME NEW T \in SUBSET S, \A U \in SUBSET S : Cardinality(U) < Cardinality(T) => U \in Free, NEW p \in T
      PROVE  Total(f, T) = f[p] + Total(f, T \ {p})
  <2> PICK q : q = Pick(T)
    OBVIOUS
  <2>1. q \in T /\ Total(f, T) = f[q] + Total(f, T \ {q})
    BY <1>1, PickLeavesLess
  <2>2. CASE q = p
    BY <2>1, <2>2
  <2>3. CASE q # p
    <3>1. Total(f, T \ {q}) = f[p] + Total(f, (T \ {q}) \ {p})
      BY <1>2, <1>3, <2>1, <2>3
    <3>2. Total(f, T \ {p}) = f[q] + Total(f, (T \ {p}) \ {q})
      BY <1>2, <1>3, <2>1, <2>3
    <3>3. (T \ {q}) \ {p} = (T \ {p}) \ {q}
      OBVIOUS
    <3>4. f[p] \in Int /\ f[q] \in Int /\ Total(f, (T \ {p}) \ {q}) \in Int
      BY <1>1, <2>1
    <3> PICK rest : rest = Total(f, (T \ {p}) \ {q})
      OBVIOUS
    <3>5. Total(f, T \ {q}) = f[p] + rest /\ Total(f, T \ {p}) = f[q] + rest /\ rest \in Int
      BY <3>1, <3>2, <3>3, <3>4
    <3> HIDE DEF Free
    <3>6. f[q] + (f[p] + rest) = f[p] + (f[q] + rest)
      BY <3>4, <3>5
    <3> QED
      BY <2>1, <3>5, <3>6
  <2> QED
    BY <2>2, <2>3
<1>4. \A T \in SUBSET S : (\A U \in SUBSET S : Cardinality(U) < Cardinality(T) => U \in Free) => T \in Free
  BY <1>3
<1>5. S \in Free
  <2> HIDE DEF Free
  <2> QED
    BY <1>4, SmallerInduction
<1> QED
  BY <1>5

(* Larger summands, larger sum; and equal ones if the sums are.             *)
LEMMA TotalMonotone ==
  ASSUME NEW S, IsFiniteSet(S), NEW f, NEW g,
         \A x \in S : f[x] \in Int /\ g[x] \in Int /\ f[x] <= g[x]
  PROVE  /\ Total(f, S) \in Int /\ Total(g, S) \in Int /\ Total(f, S) <= Total(g, S)
         /\ Total(f, S) = Total(g, S) => \A x \in S : f[x] = g[x]
<1> DEFINE Fits == {T \in SUBSET S : /\ Total(f, T) <= Total(g, T)
                                     /\ Total(f, T) = Total(g, T) => \A x \in T : f[x] = g[x]}
<1>1. \A T \in SUBSET S : /\ Total(f, T) \in Int /\ (T = {} => Total(f, T) = 0)
                          /\ (T # {} => Total(f, T) = f[Pick(T)] + Total(f, T \ {Pick(T)}))
  BY FS_Subset, TotalUnfolds
<1>2. \A T \in SUBSET S : /\ Total(g, T) \in Int /\ (T = {} => Total(g, T) = 0)
                          /\ (T # {} => Total(g, T) = g[Pick(T)] + Total(g, T \ {Pick(T)}))
  BY FS_Subset, TotalUnfolds
<1>3. {} \in Fits
  <2>1. Total(f, {}) = 0 /\ Total(g, {}) = 0
    BY <1>1, <1>2
  <2> QED
    BY <2>1
<1>4. ASSUME NEW T \in SUBSET S, T # {}, T \ {Pick(T)} \in Fits PROVE T \in Fits
  <2> PICK q : q = Pick(T)
    OBVIOUS
  <2>1. q \in T
    BY <1>4, PickLeavesLess
  <2>2. f[q] \in Int /\ g[q] \in Int /\ f[q] <= g[q]
    BY <2>1
  <2>3. Total(f, T) = f[q] + Total(f, T \ {q}) /\ Total(g, T) = g[q] + Total(g, T \ {q})
    BY <1>1, <1>2, <1>4
  <2>4. /\ Total(f, T \ {q}) \in Int /\ Total(g, T \ {q}) \in Int
        /\ Total(f, T \ {q}) <= Total(g, T \ {q})
        /\ Total(f, T \ {q}) = Total(g, T \ {q}) => \A x \in T \ {q} : f[x] = g[x]
    BY <1>1, <1>2, <1>4
  <2>5. Total(f, T) <= Total(g, T)
    BY <2>2, <2>3, <2>4
  <2>6. Total(f, T) = Total(g, T) => f[q] = g[q] /\ Total(f, T \ {q}) = Total(g, T \ {q})
    BY <2>2, <2>3, <2>4
  <2>7. Total(f, T) = Total(g, T) => \A x \in T : f[x] = g[x]
    BY <2>4, <2>6
  <2> QED
    BY <2>5, <2>7
<1>5. S \in Fits
  <2> HIDE DEF Fits
  <2> QED
    BY <1>3, <1>4, PickInduction
<1> QED
  BY <1>1, <1>2, <1>5

(* A sum of natural numbers is one, and is 0 only if they all are.          *)
LEMMA TotalNatural ==
  ASSUME NEW S, IsFiniteSet(S), NEW f, \A x \in S : f[x] \in Nat
  PROVE  /\ Total(f, S) \in Nat
         /\ Total(f, S) = 0 <=> \A x \in S : f[x] = 0
<1> DEFINE zero == [x \in S |-> 0]
           Null == {T \in SUBSET S : Total(zero, T) = 0}
<1>0. \A x \in S : zero[x] = 0
  OBVIOUS
<1> HIDE DEF zero
<1>1. \A T \in SUBSET S : /\ (T = {} => Total(zero, T) = 0)
                          /\ (T # {} => Pick(T) \in T /\ Total(zero, T) = zero[Pick(T)] + Total(zero, T \ {Pick(T)}))
  <2> SUFFICES ASSUME NEW T \in SUBSET S
               PROVE  /\ (T = {} => Total(zero, T) = 0)
                      /\ (T # {} => Pick(T) \in T /\ Total(zero, T) = zero[Pick(T)] + Total(zero, T \ {Pick(T)}))
    OBVIOUS
  <2>1. IsFiniteSet(T) /\ \A x \in T : zero[x] \in Int
    BY <1>0, FS_Subset
  <2> QED
    BY <2>1, TotalUnfolds, PickLeavesLess
<1>2. S \in Null
  <2>1. {} \in Null
    BY <1>1
  <2>2. \A T \in SUBSET S : T # {} /\ T \ {Pick(T)} \in Null => T \in Null
    BY <1>0, <1>1
  <2> HIDE DEF Null
  <2> QED
    BY <2>1, <2>2, PickInduction
<1>3. \A x \in S : zero[x] \in Int /\ f[x] \in Int /\ zero[x] <= f[x]
  BY <1>0
<1>4. /\ Total(f, S) \in Int /\ Total(zero, S) <= Total(f, S)
      /\ Total(zero, S) = Total(f, S) => \A x \in S : zero[x] = f[x]
  BY <1>3, TotalMonotone
<1>5. ASSUME \A x \in S : f[x] = 0 PROVE Total(f, S) = 0
  <2>1. \A x \in S : f[x] \in Int /\ zero[x] \in Int /\ f[x] <= zero[x]
    BY <1>0, <1>5
  <2>2. Total(f, S) <= Total(zero, S)
    BY <2>1, TotalMonotone
  <2> QED
    BY <1>2, <1>4, <2>2
<1> QED
  BY <1>0, <1>2, <1>4, <1>5

(* More elements, larger sum of natural numbers.                            *)
LEMMA TotalOfSubset ==
  ASSUME NEW S, IsFiniteSet(S), NEW f, \A x \in S : f[x] \in Nat, NEW U \in SUBSET S
  PROVE  Total(f, U) <= Total(f, S)
<1> DEFINE Less == {T \in SUBSET S : Total(f, T \cap U) <= Total(f, T)}
<1>1. \A T \in SUBSET S : /\ Total(f, T) \in Nat
                          /\ (T = {} => Total(f, T) = 0)
                          /\ \A p \in T : Total(f, T) = f[p] + Total(f, T \ {p})
  BY FS_Subset, TotalNatural, TotalUnfolds, TotalTakes
<1>2. {} \in Less
  BY <1>1
<1>3. ASSUME NEW T \in SUBSET S, T # {}, T \ {Pick(T)} \in Less PROVE T \in Less
  <2> PICK q : q = Pick(T)
    OBVIOUS
  <2>1. q \in T /\ f[q] \in Nat
    BY <1>3, PickLeavesLess
  <2>2. Total(f, T) = f[q] + Total(f, T \ {q}) /\ Total(f, (T \ {q}) \cap U) <= Total(f, T \ {q})
    BY <1>1, <1>3, <2>1
  <2>3. Total(f, T \ {q}) \in Nat /\ Total(f, (T \ {q}) \cap U) \in Nat /\ Total(f, T \cap U) \in Nat
    BY <1>1
  <2>4. CASE q \in U
    <3>1. (T \cap U) \ {q} = (T \ {q}) \cap U /\ q \in T \cap U /\ T \cap U \in SUBSET S
      BY <2>1, <2>4
    <3>2. Total(f, T \cap U) = f[q] + Total(f, (T \ {q}) \cap U)
      BY <1>1, <3>1
    <3>3. Total(f, T \cap U) <= Total(f, T)
      BY <2>1, <2>2, <2>3, <3>2
    <3> QED
      BY <3>3
  <2>5. CASE q \notin U
    <3>1. T \cap U = (T \ {q}) \cap U
      BY <2>5
    <3>2. Total(f, T \cap U) = Total(f, (T \ {q}) \cap U)
      BY <3>1
    <3>3. Total(f, T \cap U) <= Total(f, T)
      BY <2>1, <2>2, <2>3, <3>2
    <3> QED
      BY <3>3
  <2> QED
    BY <2>4, <2>5
<1>4. S \in Less
  <2> HIDE DEF Less
  <2> QED
    BY <1>2, <1>3, PickInduction
<1>5. S \cap U = U
  OBVIOUS
<1> QED
  BY <1>4, <1>5

(* The total of a set is that of its part and of the rest.                  *)
LEMMA TotalOfParts ==
  ASSUME NEW S, IsFiniteSet(S), NEW f, \A x \in S : f[x] \in Int, NEW U \in SUBSET S
  PROVE  Total(f, S) = Total(f, U) + Total(f, S \ U)
<1> DEFINE Splits == {T \in SUBSET S : Total(f, T) = Total(f, T \cap U) + Total(f, T \ U)}
<1>1. \A T \in SUBSET S : /\ Total(f, T) \in Int
                          /\ (T = {} => Total(f, T) = 0)
                          /\ \A p \in T : Total(f, T) = f[p] + Total(f, T \ {p})
  BY FS_Subset, TotalUnfolds, TotalTakes
<1>2. {} \in Splits
  <2>1. Total(f, {}) = 0 /\ {} \cap U = {} /\ {} \ U = {}
    BY <1>1
  <2> QED
    BY <2>1
<1>3. ASSUME NEW T \in SUBSET S, T # {}, T \ {Pick(T)} \in Splits PROVE T \in Splits
  <2> PICK q : q = Pick(T)
    OBVIOUS
  <2>1. q \in T /\ f[q] \in Int
    BY <1>3, PickLeavesLess
  <2>2. /\ Total(f, T) = f[q] + Total(f, T \ {q})
        /\ Total(f, T \ {q}) = Total(f, (T \ {q}) \cap U) + Total(f, (T \ {q}) \ U)
    BY <1>1, <1>3, <2>1
  <2> PICK a : a = Total(f, (T \ {q}) \cap U)
    OBVIOUS
  <2> PICK b : b = Total(f, (T \ {q}) \ U)
    OBVIOUS
  <2>3. a \in Int /\ b \in Int /\ Total(f, T) = f[q] + (a + b)
    <3>1. a \in Int /\ b \in Int
      BY <1>1
    <3> QED
      BY <2>2, <3>1
  <2>4. CASE q \in U
    <3>1. (T \cap U) \ {q} = (T \ {q}) \cap U /\ (T \ {q}) \ U = T \ U /\ q \in T \cap U /\ T \cap U \in SUBSET S
      BY <2>1, <2>4
    <3>2. Total(f, T \cap U) = f[q] + a /\ Total(f, T \ U) = b
      <4>1. Total(f, T \cap U) = f[q] + Total(f, (T \cap U) \ {q})
        BY <1>1, <3>1
      <4> QED
        BY <3>1, <4>1, Zenon
    <3>3. Total(f, T) = Total(f, T \cap U) + Total(f, T \ U)
      BY <2>1, <2>3, <3>2
    <3> QED
      BY <3>3
  <2>5. CASE q \notin U
    <3>1. T \cap U = (T \ {q}) \cap U /\ (T \ U) \ {q} = (T \ {q}) \ U /\ q \in T \ U /\ T \ U \in SUBSET S
      BY <2>1, <2>5
    <3>2. Total(f, T \ U) = f[q] + b /\ Total(f, T \cap U) = a
      <4>1. Total(f, T \ U) = f[q] + Total(f, (T \ U) \ {q})
        BY <1>1, <3>1
      <4> QED
        BY <3>1, <4>1, Zenon
    <3>3. Total(f, T) = Total(f, T \cap U) + Total(f, T \ U)
      BY <2>1, <2>3, <3>2
    <3> QED
      BY <3>3
  <2> QED
    BY <2>4, <2>5
<1>4. S \in Splits
  <2> HIDE DEF Splits
  <2> QED
    BY <1>2, <1>3, PickInduction
<1>5. S \cap U = U
  OBVIOUS
<1> QED
  BY <1>4, <1>5

Times == [p \in Int \X Int |-> p[1] * p[2]]

(* The product of positive numbers is positive and a multiple of each.      *)
LEMMA ProductIsMultiple ==
  ASSUME NEW S \in SUBSET (Nat \ {0}), IsFiniteSet(S)
  PROVE  ProductSet(S) \in Nat \ {0} /\ \A t \in S : \E k \in Nat \ {0} : ProductSet(S) = t * k
<1> DEFINE Multiplies(h, U) == h = [T \in SUBSET U |-> IF T = {} THEN 1 ELSE Pick(T) * h[T \ {Pick(T)}]]
           h == CHOOSE h : Multiplies(h, S)
           same == [x \in S |-> x]
<1>0. \A x \in S : same[x] = x /\ same[x] \in Int
  OBVIOUS
<1> HIDE DEF same
<1>1. PICK g \in [SUBSET S -> Int] : IsFold(g, S, same, Times, 1)
  <2>1. Times \in [Int \X Int -> Int] /\ 1 \in Int
    BY DEF Times
  <2>2. ASSUME NEW op \in [Int \X Int -> Int], NEW base \in Int
        PROVE  \E g \in [SUBSET S -> Int] : IsFold(g, S, same, op, base)
    BY <1>0, FoldsExist
  <2> QED
    BY <2>1, <2>2
<1>2. \A T \in SUBSET S : g[T] = IF T = {} THEN 1 ELSE Pick(T) * g[T \ {Pick(T)}]
  <2> SUFFICES ASSUME NEW T \in SUBSET S, T # {} PROVE g[T] = Pick(T) * g[T \ {Pick(T)}]
    BY <1>1 DEF IsFold, FoldedAt
  <2>1. Pick(T) \in S /\ T \ {Pick(T)} \in SUBSET S
    BY PickLeavesLess
  <2>2. same[Pick(T)] = Pick(T) /\ Pick(T) \in Int /\ g[T \ {Pick(T)}] \in Int
    BY <1>0, <1>1, <2>1
  <2> QED
    BY <1>1, <2>2 DEF IsFold, FoldedAt, Times
<1>3. \A T \in SUBSET S : h[T] = IF T = {} THEN 1 ELSE Pick(T) * h[T \ {Pick(T)}]
  <2> DEFINE k == [T \in SUBSET S |-> g[T]]
  <2>1. Multiplies(k, S)
    BY <1>2
  <2>2. Multiplies(h, S)
    <3> HIDE DEF k, Multiplies
    <3> QED
      BY <2>1
  <2> HIDE DEF h
  <2> QED
    BY <2>2
<1>4. ProductSet(S) = h[S]
  BY DEF ProductSet, FoldSet, MapThenFoldSet, Pick
<1> HIDE DEF h
<1> DEFINE Fits == {T \in SUBSET S : h[T] \in Nat \ {0} /\ \A t \in T : \E k \in Nat \ {0} : h[T] = t * k}
<1>5. {} \in Fits
  <2>1. h[{}] = 1
    BY <1>3
  <2> QED
    BY <2>1
<1>6. ASSUME NEW T \in SUBSET S, T # {}, T \ {Pick(T)} \in Fits PROVE T \in Fits
  <2> PICK q : q = Pick(T)
    OBVIOUS
  <2> PICK rest : rest = h[T \ {q}]
    OBVIOUS
  <2>1. q \in T /\ q \in Nat \ {0} /\ rest \in Nat \ {0} /\ h[T] = q * rest
    BY <1>3, <1>6, PickLeavesLess
  <2>2. q * rest \in Nat \ {0}
    BY <2>1
  <2>3. ASSUME NEW t \in T PROVE \E k \in Nat \ {0} : h[T] = t * k
    <3>1. CASE t = q
      BY <2>1, <3>1
    <3>2. CASE t # q
      <4>1. PICK k \in Nat \ {0} : rest = t * k
        BY <1>6, <3>2
      <4>2. t \in Nat /\ q * (t * k) = t * (q * k) /\ q * k \in Nat \ {0}
        BY <2>1
      <4> QED
        BY <2>1, <4>1, <4>2
    <3> QED
      BY <3>1, <3>2
  <2> QED
    BY <2>1, <2>2, <2>3
<1>7. S \in Fits
  <2> HIDE DEF Fits
  <2> QED
    BY <1>5, <1>6, PickInduction
<1> QED
  BY <1>4, <1>7

(* The sum of a set of one number or none.                                  *)
LEMMA SumOfFew ==
  ASSUME NEW S, \A x \in S : x \in Int, \A x, y \in S : x = y
  PROVE  /\ S = {} => SumSet(S) = 0
         /\ \A x \in S : SumSet(S) = x
<1> DEFINE Sums(h) == h = [T \in SUBSET S |-> IF T = {} THEN 0 ELSE Pick(T) + h[T \ {Pick(T)}]]
           h == CHOOSE h : Sums(h)
           few == [T \in SUBSET S |-> IF T = {} THEN 0 ELSE Pick(T)]
<1>1. \A T \in SUBSET S : T # {} => Pick(T) \in Int /\ T \ {Pick(T)} = {} /\ \A x \in T : Pick(T) = x
  BY DEF Pick
<1>2. Sums(few)
  BY <1>1
<1>3. Sums(h)
  <2> HIDE DEF Sums, few
  <2> QED
    BY <1>2
<1>4. SumSet(S) = h[S]
  BY DEF SumSet, FoldSet, MapThenFoldSet, Pick
<1> HIDE DEF h
<1>5. h[{}] = 0 /\ (S # {} => h[S] = Pick(S) + h[S \ {Pick(S)}])
  BY <1>3
<1> HIDE DEF Sums
<1>6. S # {} => h[S] = Pick(S)
  <2> SUFFICES ASSUME S # {} PROVE h[S] = Pick(S)
    OBVIOUS
  <2>1. Pick(S) \in Int /\ S \ {Pick(S)} = {}
    BY <1>1
  <2>2. h[S] = Pick(S) + h[{}]
    BY <1>5, <2>1
  <2> HIDE DEF few
  <2> QED
    BY <1>5, <2>1, <2>2
<1> QED
  BY <1>1, <1>4, <1>5, <1>6

============================================================================
