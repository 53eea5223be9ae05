----------------------------- MODULE SumTheorems ----------------------------
(***************************************************************************)
(* Sums over finite sets (SumFunctionOnSet of the community modules, which is *)
(* a fold and so a recursive function): the laws that proofs about totals of *)
(* amounts need. They rest on induction over the subsets of a finite set, in *)
(* a form that takes the set of the subsets for which a claim holds.       *)
(***************************************************************************)
EXTENDS Integers, FiniteSets, Functions, FiniteSetTheorems, TLAPS

-----------------------------------------------------------------------------
(* Induction *)

\* A set of natural numbers that is not empty has a least element.
LEMMA LeastNatural ==
    ASSUME NEW T \in SUBSET Nat, T # {}
    PROVE  \E n \in T : \A k \in T : n <= k
<1> DEFINE R == {ss \in Nat \X Nat : ss[1] < ss[2]}
<1>1. IsWellFoundedOn(R, Nat)
  BY NatLessThanWellFounded DEF OpToRel
<1>2. \E x \in T : \A y \in T : ~ (<<y, x>> \in R)
  <2> HIDE DEF R
  <2> QED BY <1>1, WFMin
<1>3. \A x, y \in T : y < x => <<y, x>> \in R
  OBVIOUS
<1> HIDE DEF R
<1>4. PICK x \in T : \A y \in T : ~ (<<y, x>> \in R)
  BY <1>2
<1>5. \A y \in T : ~ (y < x)
  BY <1>3, <1>4
<1> QED BY <1>4, <1>5

\* A set with 0 and the successors of its members has all natural numbers.
LEMMA SetInduction ==
    ASSUME NEW S, 0 \in S, \A n \in Nat : n \in S => n + 1 \in S
    PROVE  Nat \subseteq S
<1>1. SUFFICES ASSUME Nat \ S # {} PROVE FALSE
  OBVIOUS
<1>2. PICK n \in Nat \ S : \A k \in Nat \ S : n <= k
  BY <1>1, LeastNatural
<1>3. n # 0 /\ n - 1 \in Nat
  BY <1>2
<1>4. n - 1 \in S
  BY <1>2, <1>3
<1> QED BY <1>2, <1>3, <1>4

\* Induction over the subsets of a finite set, by the removal of an element.
LEMMA SubsetInduction ==
    ASSUME NEW S, IsFiniteSet(S), NEW F,
           \A T \in SUBSET S : (\A x \in T : T \ {x} \in F) => T \in F
    PROVE  SUBSET S \subseteq F
<1> SUFFICES ASSUME (SUBSET S) \ F # {} PROVE FALSE
  OBVIOUS
<1> DEFINE Bad == (SUBSET S) \ F
           N == {Cardinality(T) : T \in Bad}
<1>1. \A T \in SUBSET S : IsFiniteSet(T) /\ Cardinality(T) \in Nat
  BY FS_Subset, FS_CardinalityType
<1>2. N \subseteq Nat /\ N # {}
  BY <1>1
<1>3. PICK n \in N : \A k \in N : n <= k
  BY <1>2, LeastNatural
<1>4. PICK T \in Bad : n = Cardinality(T)
  BY <1>3
<1>5. ASSUME NEW x \in T PROVE T \ {x} \in F
  <2>1. Cardinality(T \ {x}) = n - 1
    BY <1>1, <1>4, FS_RemoveElement
  <2>2. n - 1 \notin N
    <3> HIDE DEF N
    <3> QED BY <1>2, <1>3
  <2> QED BY <2>1, <2>2
<1> QED BY <1>4, <1>5

-----------------------------------------------------------------------------
(* The recursive equation of a sum *)

\* The element that the fold over a set takes first.
Pick(s) == CHOOSE x \in s : TRUE

\* The recursive equation of the sum of f over the subsets that are in D.
SumEq(f, D, h) == h = [s \in D |-> IF s = {} THEN 0 ELSE f[Pick(s)] + h[s \ {Pick(s)}]]

\* SumFunctionOnSet is the value of some function that satisfies its equation.
LEMMA SumUnfold ==
    ASSUME NEW f, NEW S
    PROVE  SumFunctionOnSet(f, S) = (CHOOSE h : SumEq(f, SUBSET S, h))[S]
  BY DEF SumFunctionOnSet, FoldFunctionOnSet, MapThenFoldSet, SumEq, Pick

\* The equation has a solution on the subsets of a finite set.
LEMMA SumEqExists ==
    ASSUME NEW f, NEW S, IsFiniteSet(S)
    PROVE  \E h : SumEq(f, SUBSET S, h)
<1> DEFINE D(n) == {s \in SUBSET S : Cardinality(s) <= n}
           I == {n \in Nat : \E h : SumEq(f, D(n), h)}
<1>0. \A T \in SUBSET S : /\ IsFiniteSet(T) /\ Cardinality(T) \in Nat
                          /\ T # {} => /\ Pick(T) \in T
                                       /\ T \ {Pick(T)} \in SUBSET S
                                       /\ Cardinality(T \ {Pick(T)}) = Cardinality(T) - 1
  BY FS_Subset, FS_CardinalityType, FS_RemoveElement DEF Pick
<1>1. 0 \in I
  <2> DEFINE g == [s \in D(0) |-> 0]
  <2>1. ASSUME NEW s \in D(0) PROVE s = {}
    <3>1. Cardinality(s) \in Nat /\ Cardinality(s) <= 0 /\ IsFiniteSet(s)
      BY <1>0
    <3> QED BY <3>1, FS_EmptySet
  <2>2. SumEq(f, D(0), g)
    BY <2>1 DEF SumEq
  <2> QED BY <2>2
<1>2. ASSUME NEW n \in I PROVE n + 1 \in I
  <2>1. PICK h : SumEq(f, D(n), h)
    OBVIOUS
  <2> DEFINE g == [s \in D(n + 1) |-> IF s = {} THEN 0 ELSE f[Pick(s)] + h[s \ {Pick(s)}]]
  <2>2. \A s \in D(n + 1) : s # {} => s \ {Pick(s)} \in D(n)
    BY <1>0
  <2>3. ASSUME NEW s \in D(n) PROVE s \in D(n + 1)
    <3>1. Cardinality(s) \in Nat /\ Cardinality(s) <= n /\ n \in Nat
      BY <1>0
    <3> QED BY <3>1
  <2> HIDE DEF D
  <2>4. \A s \in D(n) : g[s] = h[s]
    BY <2>1, <2>3 DEF SumEq
  <2>5. SumEq(f, D(n + 1), g)
    BY <2>2, <2>4 DEF SumEq
  <2> QED BY <2>5
<1>3. Cardinality(S) \in I
  <2> HIDE DEF I
  <2> QED BY <1>0, <1>1, <1>2, SetInduction
<1>4. D(Cardinality(S)) = SUBSET S
  BY FS_Subset
<1> QED BY <1>3, <1>4

\* A solution on the subsets of a set.
SumsWithin(f, S, h) == SumEq(f, SUBSET S, h)

\* Two solutions agree on the smaller of their domains.
LEMMA SumEqUnique ==
    ASSUME NEW f, NEW S, IsFiniteSet(S), NEW T, T \subseteq S, NEW g, NEW h,
           SumsWithin(f, S, g), SumsWithin(f, T, h)
    PROVE  g[T] = h[T]
<1> DEFINE F == {s \in SUBSET T : g[s] = h[s]}
<1>1. ASSUME NEW s \in SUBSET T, \A x \in s : s \ {x} \in F PROVE s \in F
  <2>1. s # {} => Pick(s) \in s
    BY DEF Pick
  <2>2. g[s] = IF s = {} THEN 0 ELSE f[Pick(s)] + g[s \ {Pick(s)}]
    BY DEF SumsWithin, SumEq
  <2>3. h[s] = IF s = {} THEN 0 ELSE f[Pick(s)] + h[s \ {Pick(s)}]
    BY DEF SumsWithin, SumEq
  <2> QED BY <1>1, <2>1, <2>2, <2>3
<1>2. SUBSET T \subseteq F
  <2> HIDE DEF F
  <2> QED BY <1>1, FS_Subset, SubsetInduction
<1> QED BY <1>2

\* The sum over a set is the value at one element and the sum over the others.
LEMMA SumPick ==
    ASSUME NEW f, NEW S, IsFiniteSet(S)
    PROVE  SumFunctionOnSet(f, S) =
             IF S = {} THEN 0 ELSE f[Pick(S)] + SumFunctionOnSet(f, S \ {Pick(S)})
<1> DEFINE T == S \ {Pick(S)}
           g == CHOOSE h : SumEq(f, SUBSET S, h)
           k == CHOOSE h : SumEq(f, SUBSET T, h)
<1>1. IsFiniteSet(T) /\ T \in SUBSET S
  BY FS_Subset
<1>2. SumEq(f, SUBSET S, g)
  BY SumEqExists
<1>3. SumEq(f, SUBSET T, k)
  BY <1>1, SumEqExists
<1> HIDE DEF T, g, k
<1>4. g[T] = k[T]
  <2>1. SumsWithin(f, S, g) /\ SumsWithin(f, T, k)
    BY <1>2, <1>3 DEF SumsWithin
  <2> QED BY <1>1, <2>1, SumEqUnique
<1>5. g[S] = IF S = {} THEN 0 ELSE f[Pick(S)] + g[T]
  BY <1>2 DEF SumEq, T
<1>6. SumFunctionOnSet(f, S) = g[S]
  BY SumUnfold DEF g
<1>7. SumFunctionOnSet(f, T) = k[T]
  BY SumUnfold DEF k
<1> QED BY <1>4, <1>5, <1>6, <1>7 DEF T

-----------------------------------------------------------------------------
(* Laws of sums *)

\* The sum over nothing.
LEMMA SumEmpty ==
    ASSUME NEW f
    PROVE  SumFunctionOnSet(f, {}) = 0
  BY SumPick, FS_EmptySet

\* A sum of members of a set that has 0 and is closed under addition is in the set.
LEMMA SumClosed ==
    ASSUME NEW K, 0 \in K, \A a, b \in K : a + b \in K,
           NEW f, NEW S, IsFiniteSet(S), \A x \in S : f[x] \in K
    PROVE  SumFunctionOnSet(f, S) \in K
<1> DEFINE F == {T \in SUBSET S : SumFunctionOnSet(f, T) \in K}
<1>1. ASSUME NEW T \in SUBSET S, \A x \in T : T \ {x} \in F PROVE T \in F
  <2>1. IsFiniteSet(T) /\ (T # {} => Pick(T) \in T)
    BY FS_Subset DEF Pick
  <2>2. CASE T = {}
    BY <2>2, SumEmpty
  <2>3. CASE T # {}
    <3>1. SumFunctionOnSet(f, T \ {Pick(T)}) \in K /\ f[Pick(T)] \in K
      BY <1>1, <2>1, <2>3
    <3>2. SumFunctionOnSet(f, T) = f[Pick(T)] + SumFunctionOnSet(f, T \ {Pick(T)})
      BY <2>1, <2>3, SumPick
    <3> QED BY <3>1, <3>2
  <2> QED BY <2>2, <2>3
<1>2. SUBSET S \subseteq F
  <2> HIDE DEF F
  <2> QED BY <1>1, SubsetInduction
<1> QED BY <1>2

\* A sum of integers is an integer.
LEMMA SumInt ==
    ASSUME NEW f, NEW S, IsFiniteSet(S), \A x \in S : f[x] \in Int
    PROVE  SumFunctionOnSet(f, S) \in Int
<1>1. 0 \in Int /\ \A a, b \in Int : a + b \in Int
  OBVIOUS
<1> QED BY <1>1, SumClosed

\* A sum of natural numbers is a natural number.
LEMMA SumNat ==
    ASSUME NEW f, NEW S, IsFiniteSet(S), \A x \in S : f[x] \in Nat
    PROVE  SumFunctionOnSet(f, S) \in Nat
<1>1. 0 \in Nat /\ \A a, b \in Nat : a + b \in Nat
  OBVIOUS
<1> QED BY <1>1, SumClosed

\* A sum of zeros is zero.
LEMMA SumZero ==
    ASSUME NEW f, NEW S, IsFiniteSet(S), \A x \in S : f[x] = 0
    PROVE  SumFunctionOnSet(f, S) = 0
<1> DEFINE K == {0}
<1>1. 0 \in K /\ \A a, b \in K : a + b \in K
  OBVIOUS
<1>2. \A x \in S : f[x] \in K
  OBVIOUS
<1>3. SumFunctionOnSet(f, S) \in K
  <2> HIDE DEF K
  <2> QED BY <1>1, <1>2, SumClosed
<1> QED BY <1>3

\* Any element of the set can be split off the sum, not just the one picked.
LEMMA SumElement ==
    ASSUME NEW f, NEW S, IsFiniteSet(S), \A x \in S : f[x] \in Int, NEW y \in S
    PROVE  SumFunctionOnSet(f, S) = f[y] + SumFunctionOnSet(f, S \ {y})
<1> DEFINE F == {T \in SUBSET S : \A z \in T :
                   SumFunctionOnSet(f, T) = f[z] + SumFunctionOnSet(f, T \ {z})}
<1>1. ASSUME NEW T \in SUBSET S, \A x \in T : T \ {x} \in F PROVE T \in F
  <2> SUFFICES ASSUME NEW z \in T
               PROVE  SumFunctionOnSet(f, T) = f[z] + SumFunctionOnSet(f, T \ {z})
    OBVIOUS
  <2> DEFINE p == Pick(T)
  <2>1. IsFiniteSet(T) /\ p \in T
    BY FS_Subset DEF Pick
  <2>2. SumFunctionOnSet(f, T) = f[p] + SumFunctionOnSet(f, T \ {p})
    BY <2>1, SumPick
  <2> HIDE DEF p
  <2>3. CASE z = p
    BY <2>2, <2>3
  <2>4. CASE z # p
    <3> DEFINE A == SumFunctionOnSet(f, (T \ {p}) \ {z})
    <3>1. SumFunctionOnSet(f, T \ {p}) = f[z] + A
      BY <1>1, <2>1, <2>4
    <3>2. SumFunctionOnSet(f, T \ {z}) = f[p] + SumFunctionOnSet(f, (T \ {z}) \ {p})
      BY <1>1, <2>1, <2>4
    <3>3. (T \ {z}) \ {p} = (T \ {p}) \ {z}
      OBVIOUS
    <3>4. A \in Int
      BY FS_Subset, SumInt
    <3>5. f[z] \in Int /\ f[p] \in Int
      BY <2>1
    <3> HIDE DEF A
    <3>6. SumFunctionOnSet(f, T \ {z}) = f[p] + A
      BY <3>2, <3>3 DEF A
    <3> QED BY <2>2, <3>1, <3>4, <3>5, <3>6
  <2> QED BY <2>3, <2>4
<1>2. SUBSET S \subseteq F
  <2> HIDE DEF F
  <2> QED BY <1>1, SubsetInduction
<1> QED BY <1>2

\* A new element adds its value.
LEMMA SumAdd ==
    ASSUME NEW f, NEW S, IsFiniteSet(S), NEW y, y \notin S,
           \A x \in S \cup {y} : f[x] \in Int
    PROVE  SumFunctionOnSet(f, S \cup {y}) = SumFunctionOnSet(f, S) + f[y]
<1>1. IsFiniteSet(S \cup {y}) /\ (S \cup {y}) \ {y} = S
  BY FS_AddElement
<1>2. SumFunctionOnSet(f, S \cup {y}) = f[y] + SumFunctionOnSet(f, S)
  BY <1>1, SumElement
<1>3. f[y] \in Int /\ SumFunctionOnSet(f, S) \in Int
  BY SumInt
<1> QED BY <1>2, <1>3

\* The sum over one element.
LEMMA SumSingle ==
    ASSUME NEW f, NEW y, f[y] \in Int
    PROVE  SumFunctionOnSet(f, {y}) = f[y]
<1>1. {y} = {} \cup {y} /\ IsFiniteSet({})
  BY FS_EmptySet
<1>2. SumFunctionOnSet(f, {} \cup {y}) = SumFunctionOnSet(f, {}) + f[y]
  BY <1>1, SumAdd
<1> QED BY <1>1, <1>2, SumEmpty

\* Smaller values have a smaller sum.
LEMMA SumLe ==
    ASSUME NEW f, NEW g, NEW S, IsFiniteSet(S),
           \A x \in S : f[x] \in Int /\ g[x] \in Int /\ f[x] <= g[x]
    PROVE  SumFunctionOnSet(f, S) <= SumFunctionOnSet(g, S)
<1> DEFINE F == {T \in SUBSET S : SumFunctionOnSet(f, T) <= SumFunctionOnSet(g, T)}
<1>1. ASSUME NEW T \in SUBSET S, \A x \in T : T \ {x} \in F PROVE T \in F
  <2>1. CASE T = {}
    BY <2>1, SumEmpty
  <2>2. CASE T # {}
    <3>1. PICK y \in T : TRUE
      BY <2>2
    <3>2. IsFiniteSet(T) /\ IsFiniteSet(T \ {y})
      BY FS_Subset
    <3>3. /\ SumFunctionOnSet(f, T) = f[y] + SumFunctionOnSet(f, T \ {y})
          /\ SumFunctionOnSet(g, T) = g[y] + SumFunctionOnSet(g, T \ {y})
      BY <3>2, SumElement
    <3>4. SumFunctionOnSet(f, T \ {y}) \in Int /\ SumFunctionOnSet(g, T \ {y}) \in Int
      BY <3>2, SumInt
    <3>5. SumFunctionOnSet(f, T \ {y}) <= SumFunctionOnSet(g, T \ {y})
      BY <1>1
    <3>6. f[y] \in Int /\ g[y] \in Int /\ f[y] <= g[y]
      OBVIOUS
    <3> QED BY <3>3, <3>4, <3>5, <3>6
  <2> QED BY <2>1, <2>2
<1>2. SUBSET S \subseteq F
  <2> HIDE DEF F
  <2> QED BY <1>1, SubsetInduction
<1> QED BY <1>2

\* The sum depends on the values alone.
LEMMA SumSame ==
    ASSUME NEW f, NEW g, NEW S, IsFiniteSet(S), \A x \in S : f[x] \in Int /\ f[x] = g[x]
    PROVE  SumFunctionOnSet(f, S) = SumFunctionOnSet(g, S)
<1>1. SumFunctionOnSet(f, S) <= SumFunctionOnSet(g, S)
  BY SumLe
<1>2. SumFunctionOnSet(g, S) <= SumFunctionOnSet(f, S)
  BY SumLe
<1>3. SumFunctionOnSet(f, S) \in Int /\ SumFunctionOnSet(g, S) \in Int
  BY SumInt
<1> QED BY <1>1, <1>2, <1>3

\* A change at one place changes the sum by as much.
LEMMA SumChange ==
    ASSUME NEW f, NEW g, NEW S, IsFiniteSet(S), NEW y \in S,
           \A x \in S : f[x] \in Int /\ g[x] \in Int,
           \A x \in S \ {y} : g[x] = f[x]
    PROVE  SumFunctionOnSet(g, S) = SumFunctionOnSet(f, S) + g[y] - f[y]
<1>1. IsFiniteSet(S \ {y})
  BY FS_Subset
<1>2. SumFunctionOnSet(f, S \ {y}) = SumFunctionOnSet(g, S \ {y})
  BY <1>1, SumSame
<1>3. /\ SumFunctionOnSet(f, S) = f[y] + SumFunctionOnSet(f, S \ {y})
      /\ SumFunctionOnSet(g, S) = g[y] + SumFunctionOnSet(g, S \ {y})
  BY SumElement
<1>4. SumFunctionOnSet(f, S \ {y}) \in Int /\ f[y] \in Int /\ g[y] \in Int
  BY <1>1, SumInt
<1> QED BY <1>2, <1>3, <1>4

\* The sum over two sets that have nothing in common.
LEMMA SumUnion ==
    ASSUME NEW f, NEW S, NEW R, IsFiniteSet(S), IsFiniteSet(R), S \cap R = {},
           \A x \in S \cup R : f[x] \in Int
    PROVE  SumFunctionOnSet(f, S \cup R) = SumFunctionOnSet(f, S) + SumFunctionOnSet(f, R)
<1> DEFINE F == {T \in SUBSET R :
                   SumFunctionOnSet(f, S \cup T) = SumFunctionOnSet(f, S) + SumFunctionOnSet(f, T)}
<1>1. ASSUME NEW T \in SUBSET R, \A x \in T : T \ {x} \in F PROVE T \in F
  <2>1. SumFunctionOnSet(f, S) \in Int
    BY SumInt
  <2>2. CASE T = {}
    <3>1. S \cup T = S /\ SumFunctionOnSet(f, T) = 0
      BY <2>2, SumEmpty
    <3>2. SumFunctionOnSet(f, S \cup T) = SumFunctionOnSet(f, S) + SumFunctionOnSet(f, T)
      BY <2>1, <3>1
    <3> QED BY <3>2
  <2>3. CASE T # {}
    <3>1. PICK y \in T : TRUE
      BY <2>3
    <3> DEFINE T0 == T \ {y}
               U == S \cup T0
    <3>2. IsFiniteSet(T) /\ IsFiniteSet(T0) /\ IsFiniteSet(U) /\ y \notin U /\ U \cup {y} = S \cup T
      BY FS_Subset, FS_Union
    <3>3. \A x \in U \cup {y} : f[x] \in Int
      OBVIOUS
    <3>4. SumFunctionOnSet(f, U) = SumFunctionOnSet(f, S) + SumFunctionOnSet(f, T0)
      BY <1>1
    <3>5. SumFunctionOnSet(f, T) = f[y] + SumFunctionOnSet(f, T0) /\ SumFunctionOnSet(f, T0) \in Int
      BY <3>2, SumElement, SumInt
    <3> HIDE DEF U, T0
    <3>6. SumFunctionOnSet(f, U \cup {y}) = SumFunctionOnSet(f, U) + f[y]
      BY <3>2, <3>3, SumAdd
    <3>7. f[y] \in Int
      BY <3>3
    <3>8. SumFunctionOnSet(f, S \cup T) = SumFunctionOnSet(f, S) + SumFunctionOnSet(f, T)
      <4>1. PICK a \in Int, b \in Int, k \in Int :
              a = SumFunctionOnSet(f, S) /\ b = SumFunctionOnSet(f, T0) /\ k = f[y]
        BY <2>1, <3>5, <3>7
      <4>2. SumFunctionOnSet(f, S \cup T) = (a + b) + k
        BY <3>2, <3>4, <3>6, <4>1
      <4>3. SumFunctionOnSet(f, T) = k + b
        BY <3>5, <4>1
      <4>4. (a + b) + k = a + (k + b)
        OBVIOUS
      <4> QED BY <4>1, <4>2, <4>3, <4>4
    <3> QED BY <3>8
  <2> QED BY <2>2, <2>3
<1>2. SUBSET R \subseteq F
  <2> HIDE DEF F
  <2> QED BY <1>1, SubsetInduction
<1> QED BY <1>2

\* Each value is a part of the sum.
LEMMA SumPart ==
    ASSUME NEW f, NEW S, IsFiniteSet(S), \A x \in S : f[x] \in Nat, NEW y \in S
    PROVE  f[y] <= SumFunctionOnSet(f, S)
<1>1. SumFunctionOnSet(f, S) = f[y] + SumFunctionOnSet(f, S \ {y})
  BY SumElement
<1>2. SumFunctionOnSet(f, S \ {y}) \in Nat /\ f[y] \in Nat
  BY FS_Subset, SumNat
<1> QED BY <1>1, <1>2

\* The sum of sums is the sum of all.
LEMMA SumPlus ==
    ASSUME NEW f, NEW g, NEW h, NEW S, IsFiniteSet(S),
           \A x \in S : f[x] \in Int /\ g[x] \in Int /\ h[x] = f[x] + g[x]
    PROVE  SumFunctionOnSet(h, S) = SumFunctionOnSet(f, S) + SumFunctionOnSet(g, S)
<1> DEFINE F == {T \in SUBSET S :
                   SumFunctionOnSet(h, T) = SumFunctionOnSet(f, T) + SumFunctionOnSet(g, T)}
<1>1. ASSUME NEW T \in SUBSET S, \A x \in T : T \ {x} \in F PROVE T \in F
  <2>1. CASE T = {}
    BY <2>1, SumEmpty
  <2>2. CASE T # {}
    <3>1. PICK y \in T : TRUE
      BY <2>2
    <3> DEFINE R == T \ {y}
    <3>2. IsFiniteSet(T) /\ IsFiniteSet(R)
      BY FS_Subset
    <3>3. \A x \in S : h[x] \in Int
      OBVIOUS
    <3>4. /\ SumFunctionOnSet(f, T) = f[y] + SumFunctionOnSet(f, R)
          /\ SumFunctionOnSet(g, T) = g[y] + SumFunctionOnSet(g, R)
          /\ SumFunctionOnSet(h, T) = h[y] + SumFunctionOnSet(h, R)
      BY <3>2, <3>3, SumElement
    <3>5. SumFunctionOnSet(f, R) \in Int /\ SumFunctionOnSet(g, R) \in Int
      BY <3>2, SumInt
    <3>6. SumFunctionOnSet(h, R) = SumFunctionOnSet(f, R) + SumFunctionOnSet(g, R)
      BY <1>1
    <3>7. f[y] \in Int /\ g[y] \in Int /\ h[y] = f[y] + g[y]
      OBVIOUS
    <3> QED BY <3>4, <3>5, <3>6, <3>7
  <2> QED BY <2>1, <2>2
<1>2. SUBSET S \subseteq F
  <2> HIDE DEF F
  <2> QED BY <1>1, SubsetInduction
<1> QED BY <1>2

\* The sum of one value for each element is a product.
LEMMA SumConstant ==
    ASSUME NEW f, NEW n \in Nat, NEW S, IsFiniteSet(S), \A x \in S : f[x] = n
    PROVE  SumFunctionOnSet(f, S) = n * Cardinality(S)
<1> DEFINE F == {T \in SUBSET S : SumFunctionOnSet(f, T) = n * Cardinality(T)}
<1>1. ASSUME NEW T \in SUBSET S, \A x \in T : T \ {x} \in F PROVE T \in F
  <2>1. CASE T = {}
    BY <2>1, SumEmpty, FS_EmptySet
  <2>2. CASE T # {}
    <3>1. PICK y \in T : TRUE
      BY <2>2
    <3>2. IsFiniteSet(T) /\ Cardinality(T \ {y}) = Cardinality(T) - 1
          /\ Cardinality(T) \in Nat
      BY FS_Subset, FS_RemoveElement, FS_CardinalityType
    <3>3. SumFunctionOnSet(f, T) = f[y] + SumFunctionOnSet(f, T \ {y})
      BY <3>2, SumElement
    <3>4. SumFunctionOnSet(f, T \ {y}) = n * (Cardinality(T) - 1)
      BY <1>1, <3>2
    <3>5. \A k \in Nat : n + n * (k - 1) = n * k
      OBVIOUS
    <3>6. SumFunctionOnSet(f, T) = n * Cardinality(T)
      BY <3>2, <3>3, <3>4, <3>5
    <3> QED BY <3>6
  <2> QED BY <2>1, <2>2
<1>2. SUBSET S \subseteq F
  <2> HIDE DEF F
  <2> QED BY <1>1, SubsetInduction
<1> QED BY <1>2

\* A sum of amounts over more is no less.
LEMMA SumMore ==
    ASSUME NEW f, NEW S, IsFiniteSet(S), \A x \in S : f[x] \in Nat, NEW T, T \subseteq S
    PROVE  SumFunctionOnSet(f, T) <= SumFunctionOnSet(f, S)
<1> DEFINE R == S \ T
<1>1. IsFiniteSet(T) /\ IsFiniteSet(R) /\ T \cap R = {} /\ T \cup R = S
  BY FS_Subset
<1>2. /\ \A x \in T : f[x] \in Nat /\ f[x] \in Int
      /\ \A x \in R : f[x] \in Nat /\ f[x] \in Int
  OBVIOUS
<1> HIDE DEF R
<1>3. SumFunctionOnSet(f, T \cup R) = SumFunctionOnSet(f, T) + SumFunctionOnSet(f, R)
  BY <1>1, <1>2, SumUnion
<1>4. SumFunctionOnSet(f, T) \in Nat
  BY <1>1, <1>2, SumNat
<1>5. SumFunctionOnSet(f, R) \in Nat
  BY <1>1, <1>2, SumNat
<1>6. SumFunctionOnSet(f, S) = SumFunctionOnSet(f, T) + SumFunctionOnSet(f, R)
  BY <1>1, <1>3, Zenon
<1> QED BY <1>4, <1>5, <1>6

\* Values that are bounded in proportion to others.
Bounded(f, g, S, k, m, e) ==
    \A x \in S : f[x] \in Nat /\ g[x] \in Nat /\ f[x] * k <= g[x] * m + e

\* Multiplication distributes over addition.
LEMMA Distribute == \A a, b, c \in Nat : (a + b) * c = a * c + b * c
  OBVIOUS

\* The sums of values that are bounded in proportion to others are, with the slack of each.
LEMMA SumScaled ==
    ASSUME NEW f, NEW g, NEW S, IsFiniteSet(S), NEW k \in Nat, NEW m \in Nat, NEW e \in Nat,
           Bounded(f, g, S, k, m, e)
    PROVE  SumFunctionOnSet(f, S) * k <= SumFunctionOnSet(g, S) * m + Cardinality(S) * e
<1> DEFINE F == {T \in SUBSET S :
               SumFunctionOnSet(f, T) * k <= SumFunctionOnSet(g, T) * m + Cardinality(T) * e}
<1>1. ASSUME NEW T \in SUBSET S, \A x \in T : T \ {x} \in F PROVE T \in F
  <2>1. CASE T = {}
    <3>1. /\ SumFunctionOnSet(f, T) = 0 /\ SumFunctionOnSet(g, T) = 0
          /\ Cardinality(T) = 0
      BY <2>1, SumEmpty, FS_EmptySet
    <3> QED BY <3>1
  <2>2. CASE T # {}
    <3>1. PICK y \in T : TRUE
      BY <2>2
    <3> DEFINE R == T \ {y}
    <3>2. /\ IsFiniteSet(T) /\ IsFiniteSet(R)
          /\ Cardinality(T) \in Nat /\ Cardinality(R) \in Nat
          /\ Cardinality(R) = Cardinality(T) - 1
      BY FS_Subset, FS_RemoveElement, FS_CardinalityType
    <3>3. \A x \in T : f[x] \in Nat /\ g[x] \in Nat
      BY DEF Bounded
    <3>4. /\ SumFunctionOnSet(f, T) = f[y] + SumFunctionOnSet(f, R)
          /\ SumFunctionOnSet(g, T) = g[y] + SumFunctionOnSet(g, R)
      BY <3>2, <3>3, SumElement
    <3>5. SumFunctionOnSet(f, R) \in Nat /\ SumFunctionOnSet(g, R) \in Nat
      BY <3>2, <3>3, SumNat
    <3>6. SumFunctionOnSet(f, R) * k <= SumFunctionOnSet(g, R) * m + Cardinality(R) * e
      BY <1>1
    <3>7. f[y] \in Nat /\ g[y] \in Nat /\ f[y] * k <= g[y] * m + e
      BY DEF Bounded
    <3> HIDE DEF R
    <3>8. PICK a \in Nat, b \in Nat, n \in Nat :
             /\ a = SumFunctionOnSet(f, R) /\ b = SumFunctionOnSet(g, R) /\ n = Cardinality(R)
      BY <3>2, <3>5
    <3>9. /\ (f[y] + a) * k = f[y] * k + a * k
          /\ (g[y] + b) * m = g[y] * m + b * m
          /\ (1 + n) * e = 1 * e + n * e
      BY <3>7, <3>8, Distribute
    <3>10. Cardinality(T) = 1 + n
      BY <3>2, <3>8
    <3>11. (f[y] + a) * k <= (g[y] + b) * m + (1 + n) * e
      <4>1. /\ f[y] * k \in Nat /\ a * k \in Nat /\ g[y] * m \in Nat /\ b * m \in Nat
            /\ n * e \in Nat /\ 1 * e = e
        BY <3>7, <3>8
      <4>2. a * k <= b * m + n * e
        BY <3>6, <3>8
      <4> QED BY <3>7, <3>9, <4>1, <4>2
    <3>12. SumFunctionOnSet(f, T) * k <= SumFunctionOnSet(g, T) * m + Cardinality(T) * e
      BY <3>4, <3>8, <3>10, <3>11, Zenon
    <3> QED BY <3>12
  <2> QED BY <2>1, <2>2
<1>2. SUBSET S \subseteq F
  <2> HIDE DEF F
  <2> QED BY <1>1, SubsetInduction
<1> QED BY <1>2
=============================================================================
