---------------------------- MODULE Sums_proofs ----------------------------
(***************************************************************************)
(* What the proofs about ledgers, levels and queues need to know of the    *)
(* sum of a function over a finite set of indices, and the induction they  *)
(* rest on.                                                                *)
(*                                                                         *)
(* SumFunctionOnSet is a fold, a function defined by recursion over the    *)
(* subsets of the index set.  The lemmas of the library that would unfold  *)
(* it take operators as parameters, so it is unfolded here from its        *)
(* definition: Unfolds says what the recursive function must satisfy, and  *)
(* induction over the size of a subset shows that it exists and that the   *)
(* order in which the indices are taken does not matter.                   *)
(***************************************************************************)
EXTENDS Integers, Sequences, Functions, FiniteSetTheorems, TLAPS

(* Induction over the naturals, with the property given as a set. *)
LEMMA Induction ==
  ASSUME NEW T, 0 \in T, \A n \in Nat : n \in T => n + 1 \in T
  PROVE  Nat \subseteq T
<1> SUFFICES ASSUME Nat \ T # {} PROVE FALSE
  OBVIOUS
<1>1. PICK m \in Nat \ T : \A k \in Nat \ T : <<k, m>> \notin OpToRel(<, Nat)
  BY NatLessThanWellFounded, WFMin
<1>2. m # 0
  OBVIOUS
<1>3. m - 1 \in Nat /\ m = (m - 1) + 1
  BY <1>2
<1>4. m - 1 \notin T
  BY <1>3
<1>5. <<m - 1, m>> \in OpToRel(<, Nat)
  BY <1>3 DEF OpToRel
<1> QED  BY <1>1, <1>3, <1>4, <1>5

(* A set of naturals that is not empty has a least element. *)
LEMMA Least ==
  ASSUME NEW S, S \subseteq Nat, S # {}
  PROVE  \E m \in S : \A k \in S : m <= k
<1>1. PICK m \in S : \A k \in S : <<k, m>> \notin OpToRel(<, Nat)
  BY NatLessThanWellFounded, WFMin
<1>2. \A k \in S : ~(k < m)
  <2> SUFFICES ASSUME NEW k \in S, k < m PROVE FALSE
    OBVIOUS
  <2>1. <<k, m>> \in OpToRel(<, Nat)
    BY DEF OpToRel
  <2> QED  BY <1>1, <2>1
<1> QED  BY <1>2

-----------------------------------------------------------------------------
(* The element a fold takes out of a set first. *)
First(s) == CHOOSE x \in s : TRUE

(* h sums f over every member of the set SS of index sets. *)
Unfolds(f, SS, h) ==
  h = [s \in SS |-> IF s = {} THEN 0 ELSE f[First(s)] + h[s \ {First(s)}]]

Sums(f, S, h) == Unfolds(f, SUBSET S, h)

Small(S, n) == {s \in SUBSET S : Cardinality(s) <= n}

(* A set that is not empty has a first element. *)
LEMMA FirstLemma ==
  ASSUME NEW s, s # {}
  PROVE  First(s) \in s
  BY DEF First

(* The sizes of a finite set's subsets. *)
LEMMA SizeLemma ==
  ASSUME NEW S, IsFiniteSet(S), NEW s \in SUBSET S
  PROVE  /\ IsFiniteSet(s) /\ Cardinality(s) \in Nat
         /\ Cardinality(s) = 0 <=> s = {}
         /\ \A x \in s : /\ Cardinality(s \ {x}) = Cardinality(s) - 1
                         /\ s \ {x} \in SUBSET S
         /\ s \in Small(S, Cardinality(S))
<1>1. IsFiniteSet(s) /\ Cardinality(s) <= Cardinality(S)
  BY FS_Subset
<1>2. Cardinality(s) \in Nat /\ (Cardinality(s) = 0 <=> s = {})
  BY <1>1, FS_CardinalityType, FS_EmptySet
<1>3. \A x \in s : Cardinality(s \ {x}) = Cardinality(s) - 1
  BY <1>1, FS_RemoveElement
<1> QED  BY <1>1, <1>2, <1>3 DEF Small

(* The recursion has a solution, one size of subset at a time. *)
LEMMA SumExists ==
  ASSUME NEW f, NEW S, IsFiniteSet(S)
  PROVE  \E h : Sums(f, S, h)
<1> DEFINE T == {n \in Nat : \E h : Unfolds(f, Small(S, n), h)}
<1>1. 0 \in T
  <2> DEFINE h == [s \in Small(S, 0) |-> 0]
  <2>1. \A s \in Small(S, 0) : s = {}
    BY SizeLemma DEF Small
  <2>2. h = [s \in Small(S, 0) |-> IF s = {} THEN 0
                                    ELSE f[First(s)] + h[s \ {First(s)}]]
    BY <2>1
  <2>3. Unfolds(f, Small(S, 0), h)
    BY <2>2 DEF Unfolds
  <2> QED  BY <2>3
<1>2. ASSUME NEW n \in Nat, n \in T PROVE n + 1 \in T
  <2>1. PICK h : Unfolds(f, Small(S, n), h)
    BY <1>2
  <2> DEFINE g == [s \in Small(S, n + 1) |->
                     IF s = {} THEN 0
                     ELSE f[First(s)] + h[s \ {First(s)}]]
  <2>2. \A s \in Small(S, n + 1) :
          s # {} => s \ {First(s)} \in Small(S, n)
    <3> SUFFICES ASSUME NEW s \in Small(S, n + 1), s # {}
                 PROVE  s \ {First(s)} \in Small(S, n)
      OBVIOUS
    <3>1. First(s) \in s /\ s \in SUBSET S /\ Cardinality(s) <= n + 1
      BY FirstLemma DEF Small
    <3>2. /\ Cardinality(s \ {First(s)}) = Cardinality(s) - 1
          /\ s \ {First(s)} \in SUBSET S /\ Cardinality(s) \in Nat
      BY <3>1, SizeLemma
    <3> QED  BY <3>1, <3>2 DEF Small
  <2>3. Small(S, n) \subseteq Small(S, n + 1)
    BY SizeLemma DEF Small
  <2>4. \A s \in Small(S, n) : g[s] = h[s]
    <3> SUFFICES ASSUME NEW s \in Small(S, n) PROVE g[s] = h[s]
      OBVIOUS
    <3>1. h[s] = IF s = {} THEN 0 ELSE f[First(s)] + h[s \ {First(s)}]
      BY <2>1 DEF Unfolds
    <3> QED  BY <2>3, <3>1
  <2>5. \A s \in Small(S, n + 1) :
          g[s] = IF s = {} THEN 0 ELSE f[First(s)] + g[s \ {First(s)}]
    BY <2>2, <2>4
  <2>6. Unfolds(f, Small(S, n + 1), g)
    <3>1. g = [s \in Small(S, n + 1) |-> g[s]]
      OBVIOUS
    <3> HIDE DEF g
    <3> QED  BY <2>5, <3>1 DEF Unfolds
  <2> QED  BY <2>6
<1>3. Nat \subseteq T
  <2> HIDE DEF T
  <2> QED  BY <1>1, <1>2, Induction
<1>4. Cardinality(S) \in Nat
  BY FS_CardinalityType
<1>5. Small(S, Cardinality(S)) = SUBSET S
  BY SizeLemma DEF Small
<1> QED  BY <1>3, <1>4, <1>5 DEF Sums

(* The sums are integers. *)
LEMMA SumIsInt ==
  ASSUME NEW f, NEW S, IsFiniteSet(S), \A i \in S : f[i] \in Int,
         NEW h, Sums(f, S, h)
  PROVE  \A s \in SUBSET S : h[s] \in Int
<1> DEFINE T == {n \in Nat : \A s \in SUBSET S : Cardinality(s) = n => h[s] \in Int}
<1>1. \A s \in SUBSET S :
        h[s] = IF s = {} THEN 0 ELSE f[First(s)] + h[s \ {First(s)}]
  BY DEF Sums, Unfolds
<1>2. 0 \in T
  <2> SUFFICES ASSUME NEW s \in SUBSET S, Cardinality(s) = 0 PROVE h[s] \in Int
    OBVIOUS
  <2>1. s = {}
    BY SizeLemma
  <2>2. h[s] = 0
    BY <1>1, <2>1
  <2> QED  BY <2>2
<1>3. ASSUME NEW n \in Nat, n \in T PROVE n + 1 \in T
  <2> SUFFICES ASSUME NEW s \in SUBSET S, Cardinality(s) = n + 1 PROVE h[s] \in Int
    OBVIOUS
  <2>1. s # {}
    BY SizeLemma
  <2>2. First(s) \in s
    BY <2>1, FirstLemma
  <2>3. s \ {First(s)} \in SUBSET S /\ Cardinality(s \ {First(s)}) = n
    BY <2>2, SizeLemma
  <2>4. f[First(s)] \in Int /\ h[s \ {First(s)}] \in Int
    BY <1>3, <2>2, <2>3
  <2>5. h[s] = f[First(s)] + h[s \ {First(s)}]
    BY <1>1, <2>1
  <2> QED  BY <2>4, <2>5
<1>4. Nat \subseteq T
  <2> HIDE DEF T
  <2> QED  BY <1>2, <1>3, Induction
<1>5. \A s \in SUBSET S : Cardinality(s) \in Nat
  BY SizeLemma
<1> QED  BY <1>4, <1>5

Commutes(f, S, h) == \A s \in SUBSET S : \A x \in s : h[s] = f[x] + h[s \ {x}]

(* Any index may be taken out first. *)
LEMMA AnyFirst ==
  ASSUME NEW f, NEW S, IsFiniteSet(S), \A i \in S : f[i] \in Int,
         NEW h, Sums(f, S, h)
  PROVE  Commutes(f, S, h)
<1> DEFINE P(s) == \A x \in s : h[s] = f[x] + h[s \ {x}]
           T == {n \in Nat : \A s \in SUBSET S : Cardinality(s) = n => P(s)}
<1>1. \A s \in SUBSET S : s # {} => h[s] = f[First(s)] + h[s \ {First(s)}]
  BY DEF Sums, Unfolds
<1>2. 0 \in T
  <2> SUFFICES ASSUME NEW s \in SUBSET S, Cardinality(s) = 0 PROVE P(s)
    OBVIOUS
  <2>1. s = {}
    BY SizeLemma
  <2> QED  BY <2>1
<1>3. ASSUME NEW n \in Nat, n \in T PROVE n + 1 \in T
  <2> SUFFICES ASSUME NEW s \in SUBSET S, Cardinality(s) = n + 1, NEW x \in s
               PROVE  h[s] = f[x] + h[s \ {x}]
    OBVIOUS
  <2>1. PICK c \in s : h[s] = f[c] + h[s \ {c}]
    BY <1>1, FirstLemma
  <2>2. CASE x = c
    BY <2>1, <2>2
  <2>3. CASE x # c
    <3> DEFINE r == s \ {x, c}
    <3>1. /\ s \ {x} \in SUBSET S /\ Cardinality(s \ {x}) = n
          /\ s \ {c} \in SUBSET S /\ Cardinality(s \ {c}) = n
      BY SizeLemma
    <3>2. P(s \ {x}) /\ P(s \ {c})
      BY <1>3, <3>1
    <3>3. h[s \ {c}] = f[x] + h[r]
      <4>1. (s \ {c}) \ {x} = r /\ x \in s \ {c}
        BY <2>3
      <4> QED  BY <3>2, <4>1
    <3>4. h[s \ {x}] = f[c] + h[r]
      <4>1. (s \ {x}) \ {c} = r /\ c \in s \ {x}
        BY <2>3
      <4> QED  BY <3>2, <4>1
    <3>5. f[x] \in Int /\ f[c] \in Int /\ h[r] \in Int
      <4>1. r \in SUBSET S
        OBVIOUS
      <4> QED  BY <4>1, SumIsInt
    <3> HIDE DEF r
    <3> QED  BY <2>1, <3>3, <3>4, <3>5
  <2> QED  BY <2>2, <2>3
<1>4. Nat \subseteq T
  <2> HIDE DEF T
  <2> QED  BY <1>2, <1>3, Induction
<1>5. ASSUME NEW s \in SUBSET S PROVE P(s)
  <2>1. Cardinality(s) \in T
    BY <1>4, SizeLemma
  <2> QED  BY <2>1
<1> QED  BY <1>5 DEF Commutes

(* Two functions that agree on the indices have the same sums. *)
LEMMA SameSums ==
  ASSUME NEW f, NEW g, NEW S, NEW R, IsFiniteSet(S), R \subseteq S,
         \A i \in R : f[i] = g[i],
         NEW h, Sums(f, S, h), NEW k, Sums(g, R, k)
  PROVE  h[R] = k[R]
<1> DEFINE T == {n \in Nat : \A s \in SUBSET R : Cardinality(s) = n => h[s] = k[s]}
<1>1. \A s \in SUBSET R :
        /\ h[s] = IF s = {} THEN 0 ELSE f[First(s)] + h[s \ {First(s)}]
        /\ k[s] = IF s = {} THEN 0 ELSE g[First(s)] + k[s \ {First(s)}]
  BY DEF Sums, Unfolds
<1>2. IsFiniteSet(R)
  BY FS_Subset
<1>3. 0 \in T
  <2> SUFFICES ASSUME NEW s \in SUBSET R, Cardinality(s) = 0 PROVE h[s] = k[s]
    OBVIOUS
  <2>1. s = {}
    BY <1>2, SizeLemma
  <2> QED  BY <1>1, <2>1
<1>4. ASSUME NEW n \in Nat, n \in T PROVE n + 1 \in T
  <2> SUFFICES ASSUME NEW s \in SUBSET R, Cardinality(s) = n + 1 PROVE h[s] = k[s]
    OBVIOUS
  <2>1. s # {}
    BY <1>2, SizeLemma
  <2>2. First(s) \in s
    BY <2>1, FirstLemma
  <2>3. s \ {First(s)} \in SUBSET R /\ Cardinality(s \ {First(s)}) = n
    BY <1>2, <2>2, SizeLemma
  <2>4. f[First(s)] = g[First(s)] /\ h[s \ {First(s)}] = k[s \ {First(s)}]
    BY <1>4, <2>2, <2>3
  <2>5. /\ h[s] = f[First(s)] + h[s \ {First(s)}]
        /\ k[s] = g[First(s)] + k[s \ {First(s)}]
    BY <1>1, <2>1
  <2> QED  BY <2>4, <2>5
<1>5. Nat \subseteq T
  <2> HIDE DEF T
  <2> QED  BY <1>3, <1>4, Induction
<1>6. Cardinality(R) \in Nat /\ R \in SUBSET R
  BY <1>2, SizeLemma
<1> QED  BY <1>5, <1>6

(* The sum is what the recursion gives for the whole set. *)
LEMMA SumUnfolds ==
  ASSUME NEW f, NEW S, IsFiniteSet(S)
  PROVE  \E h : Sums(f, S, h) /\ SumFunctionOnSet(f, S) = h[S]
<1> DEFINE h == CHOOSE g : Sums(f, S, g)
<1>1. Sums(f, S, h)
  BY SumExists
<1>2. SumFunctionOnSet(f, S) = h[S]
  BY Zenon DEF SumFunctionOnSet, FoldFunctionOnSet, MapThenFoldSet, Sums, Unfolds, First
<1> QED  BY <1>1, <1>2

-----------------------------------------------------------------------------
(* A sum of integers is an integer. *)
LEMMA SumInt ==
  ASSUME NEW S, IsFiniteSet(S), NEW f, \A i \in S : f[i] \in Int
  PROVE  SumFunctionOnSet(f, S) \in Int
<1>1. PICK h : Sums(f, S, h) /\ SumFunctionOnSet(f, S) = h[S]
  BY SumUnfolds
<1>2. \A s \in SUBSET S : h[s] \in Int
  BY <1>1, SumIsInt
<1> QED  BY <1>1, <1>2

(* The sum over no indices. *)
LEMMA SumEmpty ==
  ASSUME NEW f
  PROVE  SumFunctionOnSet(f, {}) = 0
<1>1. IsFiniteSet({})
  BY FS_EmptySet
<1>2. PICK h : Sums(f, {}, h) /\ SumFunctionOnSet(f, {}) = h[{}]
  BY <1>1, SumUnfolds
<1> QED  BY <1>2 DEF Sums, Unfolds

(* Functions that agree on the indices have the same sum. *)
LEMMA SumCong ==
  ASSUME NEW S, IsFiniteSet(S), NEW f, NEW g, \A i \in S : f[i] = g[i]
  PROVE  SumFunctionOnSet(f, S) = SumFunctionOnSet(g, S)
<1>1. PICK h : Sums(f, S, h) /\ SumFunctionOnSet(f, S) = h[S]
  BY SumUnfolds
<1>2. PICK k : Sums(g, S, k) /\ SumFunctionOnSet(g, S) = k[S]
  BY SumUnfolds
<1>3. S \subseteq S
  OBVIOUS
<1>4. h[S] = k[S]
  BY <1>1, <1>2, <1>3, SameSums
<1> QED  BY <1>1, <1>2, <1>4

(* One index taken out of a sum. *)
LEMMA SumSplit ==
  ASSUME NEW S, IsFiniteSet(S), NEW f, \A i \in S : f[i] \in Int, NEW x \in S
  PROVE  SumFunctionOnSet(f, S) = f[x] + SumFunctionOnSet(f, S \ {x})
<1>1. PICK h : Sums(f, S, h) /\ SumFunctionOnSet(f, S) = h[S]
  BY SumUnfolds
<1>2. IsFiniteSet(S \ {x}) /\ S \ {x} \subseteq S
  BY FS_RemoveElement
<1>3. PICK k : /\ Sums(f, S \ {x}, k)
               /\ SumFunctionOnSet(f, S \ {x}) = k[S \ {x}]
  BY <1>2, SumUnfolds
<1>4. h[S \ {x}] = k[S \ {x}]
  <2> DEFINE R == S \ {x}
  <2>1. R \subseteq S /\ Sums(f, R, k)
    BY <1>3
  <2> HIDE DEF R
  <2>2. \A i \in R : f[i] = f[i]
    OBVIOUS
  <2>3. h[R] = k[R]
    BY <1>1, <2>1, <2>2, SameSums
  <2> QED  BY <2>3 DEF R
<1>5. Commutes(f, S, h)
  BY <1>1, AnyFirst
<1>6. h[S] = f[x] + h[S \ {x}]
  BY <1>5 DEF Commutes
<1> QED  BY <1>1, <1>3, <1>4, <1>6

(* One index added to a sum. *)
LEMMA SumAdd ==
  ASSUME NEW S, IsFiniteSet(S), NEW f, NEW x, x \notin S,
         \A i \in S \cup {x} : f[i] \in Int
  PROVE  SumFunctionOnSet(f, S \cup {x}) = f[x] + SumFunctionOnSet(f, S)
<1> DEFINE R == S \cup {x}
<1>1. IsFiniteSet(R) /\ x \in R /\ \A i \in R : f[i] \in Int
  BY FS_AddElement
<1>2. R \ {x} = S
  OBVIOUS
<1> HIDE DEF R
<1>3. SumFunctionOnSet(f, R) = f[x] + SumFunctionOnSet(f, R \ {x})
  BY <1>1, SumSplit
<1> QED  BY <1>2, <1>3 DEF R

(* One term changed. *)
LEMMA SumChange ==
  ASSUME NEW S, IsFiniteSet(S), NEW f, NEW g, NEW x \in S,
         \A i \in S : f[i] \in Int /\ g[i] \in Int,
         \A i \in S \ {x} : f[i] = g[i]
  PROVE  SumFunctionOnSet(g, S) = SumFunctionOnSet(f, S) - f[x] + g[x]
<1> DEFINE R == S \ {x}
<1>1. IsFiniteSet(R)
  BY FS_RemoveElement
<1>2. /\ SumFunctionOnSet(f, S) = f[x] + SumFunctionOnSet(f, R)
      /\ SumFunctionOnSet(g, S) = g[x] + SumFunctionOnSet(g, R)
  BY SumSplit
<1>3. \A i \in R : f[i] = g[i] /\ f[i] \in Int
  OBVIOUS
<1> HIDE DEF R
<1>4. SumFunctionOnSet(f, R) = SumFunctionOnSet(g, R)
  BY <1>1, <1>3, SumCong
<1>5. SumFunctionOnSet(f, R) \in Int
  BY <1>1, <1>3, SumInt
<1> QED  BY <1>2, <1>4, <1>5

(* A sum of naturals is a natural. *)
LEMMA SumNat ==
  ASSUME NEW S, IsFiniteSet(S), NEW f, \A i \in S : f[i] \in Nat
  PROVE  SumFunctionOnSet(f, S) \in Nat
<1> DEFINE T == {n \in Nat : \A R \in SUBSET S :
                   Cardinality(R) = n => SumFunctionOnSet(f, R) \in Nat}
<1>1. 0 \in T
  <2> SUFFICES ASSUME NEW R \in SUBSET S, Cardinality(R) = 0
               PROVE  SumFunctionOnSet(f, R) \in Nat
    OBVIOUS
  <2>1. R = {}
    BY SizeLemma
  <2> QED  BY <2>1, SumEmpty
<1>2. ASSUME NEW n \in Nat, n \in T PROVE n + 1 \in T
  <2> SUFFICES ASSUME NEW R \in SUBSET S, Cardinality(R) = n + 1
               PROVE  SumFunctionOnSet(f, R) \in Nat
    OBVIOUS
  <2>1. IsFiniteSet(R) /\ R # {}
    BY SizeLemma
  <2>2. PICK x \in R : TRUE
    BY <2>1
  <2>3. Cardinality(R \ {x}) = n /\ R \ {x} \in SUBSET S
    BY SizeLemma
  <2>4. SumFunctionOnSet(f, R \ {x}) \in Nat
    BY <1>2, <2>3
  <2>5. \A i \in R : f[i] \in Int
    OBVIOUS
  <2>6. SumFunctionOnSet(f, R) = f[x] + SumFunctionOnSet(f, R \ {x})
    BY <2>1, <2>5, SumSplit
  <2> QED  BY <2>4, <2>6
<1>3. Nat \subseteq T
  <2> HIDE DEF T
  <2> QED  BY <1>1, <1>2, Induction
<1>4. Cardinality(S) \in Nat /\ S \in SUBSET S
  BY FS_CardinalityType
<1> QED  BY <1>3, <1>4

-----------------------------------------------------------------------------
(* Sums of sequences. *)

(* An item appended to a sequence. *)
LEMMA SumAppend ==
  ASSUME NEW s \in Seq(Int), NEW e \in Int
  PROVE  SumFunction(Append(s, e)) = SumFunction(s) + e
<1> DEFINE t == Append(s, e)
           n == Len(s)
<1>1. /\ n \in Nat /\ DOMAIN s = 1 .. n /\ DOMAIN t = (1 .. n) \cup {n + 1}
      /\ t[n + 1] = e /\ \A i \in 1 .. n : t[i] = s[i] /\ s[i] \in Int
  OBVIOUS
<1>2. IsFiniteSet(1 .. n) /\ n + 1 \notin 1 .. n
  BY <1>1, FS_Interval
<1>3. \A i \in (1 .. n) \cup {n + 1} : t[i] \in Int
  BY <1>1
<1> HIDE DEF t, n
<1>4. SumFunctionOnSet(t, (1 .. n) \cup {n + 1}) = t[n + 1] + SumFunctionOnSet(t, 1 .. n)
  BY <1>2, <1>3, SumAdd
<1>5. SumFunctionOnSet(t, 1 .. n) = SumFunctionOnSet(s, 1 .. n)
  BY <1>1, <1>2, SumCong
<1>6. SumFunctionOnSet(s, 1 .. n) \in Int
  BY <1>1, <1>2, SumInt
<1> QED  BY <1>1, <1>4, <1>5, <1>6 DEF SumFunction, t, n

(* A sequence and its first item. *)
LEMMA SumTail ==
  ASSUME NEW s \in Seq(Int), s # <<>>
  PROVE  SumFunction(s) = Head(s) + SumFunction(Tail(s))
<1> DEFINE t == Tail(s)
           m == Len(s) - 1
           T == {n \in Nat : n <= m =>
                   SumFunctionOnSet(s, 1 .. n + 1) = s[1] + SumFunctionOnSet(t, 1 .. n)}
<1>1. /\ m \in Nat /\ DOMAIN s = 1 .. m + 1 /\ DOMAIN t = 1 .. m
      /\ \A i \in 1 .. m + 1 : s[i] \in Int
      /\ \A i \in 1 .. m : t[i] = s[i + 1] /\ t[i] \in Int
      /\ Head(s) = s[1]
  OBVIOUS
<1> HIDE DEF t, m
<1>2. \A n \in Nat : IsFiniteSet(1 .. n)
  BY FS_Interval
<1>3. 0 \in T
  <2>1. 1 .. 0 + 1 = {1} /\ 1 .. 0 = {} /\ {1} \ {1} = {} /\ IsFiniteSet({1})
    <3>1. 1 .. 0 + 1 = {1} /\ 1 .. 0 = {} /\ {1} \ {1} = {}
      OBVIOUS
    <3>2. IsFiniteSet({1})
      BY FS_Singleton, Zenon
    <3> QED  BY <3>1, <3>2
  <2>2. SumFunctionOnSet(s, {1}) = s[1] + SumFunctionOnSet(s, {1} \ {1})
    <3>1. 1 \in {1} /\ \A i \in {1} : s[i] \in Int
      BY <1>1
    <3> QED  BY <2>1, <3>1, SumSplit
  <2>3. SumFunctionOnSet(s, {}) = 0 /\ SumFunctionOnSet(t, {}) = 0
    BY SumEmpty
  <2> QED  BY <1>1, <2>1, <2>2, <2>3
<1>4. ASSUME NEW n \in Nat, n \in T PROVE n + 1 \in T
  <2> SUFFICES ASSUME n + 1 <= m
               PROVE  SumFunctionOnSet(s, 1 .. (n + 1) + 1)
                        = s[1] + SumFunctionOnSet(t, 1 .. n + 1)
    OBVIOUS
  <2>1. /\ 1 .. (n + 1) + 1 = (1 .. n + 1) \cup {n + 2} /\ n + 2 \notin 1 .. n + 1
        /\ 1 .. n + 1 = (1 .. n) \cup {n + 1} /\ n + 1 \notin 1 .. n
    OBVIOUS
  <2>2. /\ \A i \in (1 .. n + 1) \cup {n + 2} : s[i] \in Int
        /\ \A i \in (1 .. n) \cup {n + 1} : t[i] \in Int
        /\ t[n + 1] = s[n + 2] /\ s[n + 2] \in Int /\ s[1] \in Int
    BY <1>1
  <2>3. IsFiniteSet(1 .. n) /\ IsFiniteSet(1 .. n + 1)
    BY <1>2
  <2>4. SumFunctionOnSet(s, (1 .. n + 1) \cup {n + 2})
          = s[n + 2] + SumFunctionOnSet(s, 1 .. n + 1)
    BY <2>1, <2>2, <2>3, SumAdd
  <2>5. SumFunctionOnSet(t, (1 .. n) \cup {n + 1})
          = t[n + 1] + SumFunctionOnSet(t, 1 .. n)
    BY <2>1, <2>2, <2>3, SumAdd
  <2>6. SumFunctionOnSet(s, 1 .. n + 1) = s[1] + SumFunctionOnSet(t, 1 .. n)
    BY <1>1, <1>4
  <2>7. SumFunctionOnSet(t, 1 .. n) \in Int
    BY <2>2, <2>3, SumInt
  <2>8. /\ SumFunctionOnSet(s, 1 .. (n + 1) + 1)
             = s[n + 2] + SumFunctionOnSet(s, 1 .. n + 1)
        /\ SumFunctionOnSet(t, 1 .. n + 1) = t[n + 1] + SumFunctionOnSet(t, 1 .. n)
    BY <2>1, <2>4, <2>5, Zenon
  <2> DEFINE a == SumFunctionOnSet(s, 1 .. (n + 1) + 1)
             b == SumFunctionOnSet(s, 1 .. n + 1)
             c == SumFunctionOnSet(t, 1 .. n + 1)
             d == SumFunctionOnSet(t, 1 .. n)
  <2>9. a = s[n + 2] + b /\ c = s[n + 2] + d /\ b = s[1] + d /\ d \in Int
    BY <2>2, <2>6, <2>7, <2>8
  <2>10. a = s[1] + c
    <3> HIDE DEF a, b, c, d
    <3> QED  BY <2>2, <2>9
  <2> QED  BY <2>10
<1>5. Nat \subseteq T
  <2> HIDE DEF T
  <2> QED  BY <1>3, <1>4, Induction
<1>6. SumFunctionOnSet(s, 1 .. m + 1) = s[1] + SumFunctionOnSet(t, 1 .. m)
  BY <1>1, <1>5
<1> QED  BY <1>1, <1>6 DEF SumFunction, t
=============================================================================
