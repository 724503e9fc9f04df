----------------------------- MODULE SumTheorems -----------------------------
(***************************************************************************)
(* What SumFunctionOnSet computes over a finite set of indices: the        *)
(* recursion behind it is well founded, the order in which it takes the    *)
(* indices does not matter, and a change of one entry changes the sum by   *)
(* that much.                                                              *)
(***************************************************************************)
EXTENDS Integers, FiniteSets, Functions, FiniteSetTheorems, WellFoundedInduction, TLAPS

-----------------------------------------------------------------------------
(* The recursion. *)

Pick(s) == CHOOSE x \in s : TRUE

\* s is the table of partial sums that SumFunctionOnSet(f, T) fills.
Sums(f, T, s) ==
  s = [t \in SUBSET T |-> IF t = {} THEN 0 ELSE f[Pick(t)] + s[t \ {Pick(t)}]]

\* A nonempty set of natural numbers has a least element.
LEMMA Least ==
  ASSUME NEW S \in SUBSET Nat, S # {}
  PROVE  \E n \in S : \A m \in S : n <= m
<1> DEFINE R == {ss \in Nat \X Nat : ss[1] < ss[2]}
<1>1. IsWellFoundedOn(R, Nat)
  BY NatLessThanWellFounded DEF OpToRel
<1>2. PICK n \in S : \A m \in S : ~(<<m, n>> \in R)
  BY <1>1, WFMin
<1>3. ASSUME NEW m \in S PROVE n <= m
  <2>1. <<m, n>> \in Nat \X Nat /\ m \in Nat /\ n \in Nat
    OBVIOUS
  <2>2. ~(m < n)
    BY <1>2, <2>1
  <2>3. QED BY <2>1, <2>2
<1>4. QED BY <1>3

\* Induction over the natural numbers and over the subsets of a finite set, with
\* the set B of those for which the claim is known.
LEMMA NatSetInduction ==
  ASSUME NEW B, 0 \in B, \A n \in Nat : n \in B => n + 1 \in B
  PROVE  Nat \subseteq B
<1> DEFINE Bad == {n \in Nat : n \notin B}
<1>1. SUFFICES ASSUME Bad # {} PROVE FALSE
  OBVIOUS
<1>2. PICK n \in Bad : \A m \in Bad : n <= m
  <2>1. Bad \in SUBSET Nat
    OBVIOUS
  <2> HIDE DEF Bad
  <2>2. QED BY <1>1, <2>1, Least
<1>3. n # 0 /\ n \in Nat /\ n \notin B
  OBVIOUS
<1>4. n - 1 \in Nat /\ n - 1 \notin Bad /\ (n - 1) + 1 = n
  <2> HIDE DEF Bad
  <2>1. QED BY <1>2, <1>3
<1>5. QED BY <1>3, <1>4

LEMMA SubsetInduction ==
  ASSUME NEW T, IsFiniteSet(T), NEW B,
         \A t \in SUBSET T : (\A x \in t : t \ {x} \in B) => t \in B
  PROVE  SUBSET T \subseteq B
<1> DEFINE N == {n \in Nat : \A t \in SUBSET T : Cardinality(t) = n => t \in B}
<1>1. \A t \in SUBSET T : IsFiniteSet(t) /\ Cardinality(t) \in Nat
  BY FS_Subset, FS_CardinalityType
<1>2. 0 \in N
  <2>1. \A t \in SUBSET T : Cardinality(t) = 0 => t = {}
    BY <1>1, FS_EmptySet
  <2>2. {} \in B
    OBVIOUS
  <2>3. QED BY <2>1, <2>2
<1>3. ASSUME NEW n \in Nat, n \in N PROVE n + 1 \in N
  <2>1. ASSUME NEW t \in SUBSET T, Cardinality(t) = n + 1 PROVE t \in B
    <3>1. ASSUME NEW x \in t PROVE t \ {x} \in B
      <4>1. t \ {x} \in SUBSET T /\ Cardinality(t \ {x}) = Cardinality(t) - 1
        BY <1>1, FS_RemoveElement
      <4>2. Cardinality(t \ {x}) = n
        BY <2>1, <4>1
      <4>3. QED BY <1>3, <4>1, <4>2
    <3>2. QED BY <3>1
  <2>2. QED BY <2>1
<1>4. Nat \subseteq N
  <2> HIDE DEF N
  <2>1. QED BY <1>2, <1>3, NatSetInduction
<1>5. QED BY <1>1, <1>4

\* The table exists: it can be filled for one, two, ... indices.
LEMMA SumsExist ==
  ASSUME NEW f, NEW T, IsFiniteSet(T), \A x \in T : f[x] \in Int
  PROVE  \E s \in [SUBSET T -> Int] : Sums(f, T, s)
<1> DEFINE Small(n) == {t \in SUBSET T : Cardinality(t) <= n}
           Filled(n, s) == s = [t \in Small(n) |-> IF t = {} THEN 0 ELSE f[Pick(t)] + s[t \ {Pick(t)}]]
           Good(n) == \E s \in [Small(n) -> Int] : Filled(n, s)
<1>1. \A t \in SUBSET T : IsFiniteSet(t) /\ Cardinality(t) \in Nat
  BY FS_Subset, FS_CardinalityType
<1>2. \A t \in SUBSET T : t # {} =>
        /\ Pick(t) \in t /\ t \ {Pick(t)} \in SUBSET T
        /\ Cardinality(t \ {Pick(t)}) = Cardinality(t) - 1
  <2>1. \A t : t # {} => Pick(t) \in t
    BY DEF Pick
  <2>2. QED BY <1>1, <2>1, FS_RemoveElement
<1>3. Good(0)
  <2>1. Small(0) = {{}}
    BY <1>1, FS_EmptySet
  <2> DEFINE s == [t \in Small(0) |-> 0]
  <2>2. s \in [Small(0) -> Int] /\ Filled(0, s)
    BY <2>1
  <2>3. QED BY <2>2
<1>4. ASSUME NEW n \in Nat, Good(n) PROVE Good(n + 1)
  <2>1. PICK s \in [Small(n) -> Int] : Filled(n, s)
    BY <1>4
  <2> DEFINE r == [t \in Small(n + 1) |-> IF t = {} THEN 0 ELSE f[Pick(t)] + s[t \ {Pick(t)}]]
  <2>2. \A t \in Small(n + 1) : t # {} => t \ {Pick(t)} \in Small(n) /\ f[Pick(t)] \in Int
    BY <1>1, <1>2
  <2>3. r \in [Small(n + 1) -> Int]
    BY <2>2
  <2>4. ASSUME NEW t \in Small(n) PROVE t \in Small(n + 1) /\ r[t] = s[t]
    <3>1. t \in Small(n + 1)
      BY <1>1
    <3>2. s[t] = IF t = {} THEN 0 ELSE f[Pick(t)] + s[t \ {Pick(t)}]
      BY <2>1
    <3>3. QED BY <3>1, <3>2
  <2>5. Filled(n + 1, r)
    BY <2>2, <2>4
  <2>6. QED BY <2>3, <2>5
<1>5. \A n \in Nat : Good(n)
  <2> DEFINE B == {n \in Nat : Good(n)}
  <2> HIDE DEF Good
  <2>1. 0 \in B /\ \A n \in Nat : n \in B => n + 1 \in B
    BY <1>3, <1>4
  <2>2. Nat \subseteq B
    <3> HIDE DEF B
    <3>1. QED BY <2>1, NatSetInduction
  <2>3. QED BY <2>2
<1>6. PICK s \in [Small(Cardinality(T)) -> Int] : Filled(Cardinality(T), s)
  BY <1>1, <1>5
<1>7. Small(Cardinality(T)) = SUBSET T
  BY <1>1, FS_Subset
<1>8. QED BY <1>6, <1>7 DEF Sums

\* Only one table fills the smaller sets in the same way.
LEMMA SumsAgree ==
  ASSUME NEW f, NEW g, NEW T, NEW U, NEW V, IsFiniteSet(V), V \subseteq T, V \subseteq U,
         \A x \in V : f[x] = g[x],
         NEW s, Sums(f, T, s), NEW r, Sums(g, U, r)
  PROVE  s[V] = r[V]
<1> DEFINE B == {t \in SUBSET V : s[t] = r[t]}
<1>1. ASSUME NEW t \in SUBSET V, \A x \in t : t \ {x} \in B PROVE t \in B
  <2>1. /\ s[t] = IF t = {} THEN 0 ELSE f[Pick(t)] + s[t \ {Pick(t)}]
        /\ r[t] = IF t = {} THEN 0 ELSE g[Pick(t)] + r[t \ {Pick(t)}]
    <3>1. t \in SUBSET T /\ t \in SUBSET U
      OBVIOUS
    <3>2. QED BY <3>1 DEF Sums
  <2>2. CASE t = {}
    BY <2>1, <2>2
  <2>3. CASE t # {}
    <3>1. Pick(t) \in t
      BY <2>3 DEF Pick
    <3>2. s[t \ {Pick(t)}] = r[t \ {Pick(t)}] /\ f[Pick(t)] = g[Pick(t)]
      BY <1>1, <3>1
    <3>3. QED BY <2>1, <2>3, <3>2
  <2>4. QED BY <2>2, <2>3
<1>2. SUBSET V \subseteq B
  <2> HIDE DEF B
  <2>1. QED BY <1>1, SubsetInduction
<1>3. QED BY <1>2

\* The sum is read off any table of partial sums.
LEMMA SumIsRead ==
  ASSUME NEW f, NEW T, IsFiniteSet(T), \A x \in T : f[x] \in Int,
         NEW s, Sums(f, T, s), NEW V \in SUBSET T
  PROVE  SumFunctionOnSet(f, V) = s[V]
<1> DEFINE r == CHOOSE q : Sums(f, V, q)
<1>1. IsFiniteSet(V) /\ \A x \in V : f[x] \in Int
  BY FS_Subset
<1>2. Sums(f, V, r)
  BY <1>1, SumsExist
<1>3. r[V] = s[V]
  BY <1>1, <1>2, SumsAgree
<1>4. SumFunctionOnSet(f, V) = r[V]
  BY DEF SumFunctionOnSet, FoldFunctionOnSet, MapThenFoldSet, Sums, Pick
<1>5. QED BY <1>3, <1>4

-----------------------------------------------------------------------------
(* The facts that proofs about the books of a component cite. *)

\* The sum over no index is 0.
LEMMA SumOverNone ==
  ASSUME NEW f
  PROVE  SumFunctionOnSet(f, {}) = 0
<1>1. PICK s \in [SUBSET {} -> Int] : Sums(f, {}, s)
  BY SumsExist, FS_EmptySet
<1>2. SumFunctionOnSet(f, {}) = s[{}]
  BY <1>1, SumIsRead, FS_EmptySet
<1>3. QED BY <1>1, <1>2 DEF Sums

\* A sum of integers is an integer.
LEMMA SumIsInt ==
  ASSUME NEW f, NEW T, IsFiniteSet(T), \A x \in T : f[x] \in Int
  PROVE  SumFunctionOnSet(f, T) \in Int
<1>1. PICK s \in [SUBSET T -> Int] : Sums(f, T, s)
  BY SumsExist
<1>2. SumFunctionOnSet(f, T) = s[T]
  BY <1>1, SumIsRead
<1>3. QED BY <1>1, <1>2

\* Functions that agree on the indices have the same sum.
LEMMA SumOfSame ==
  ASSUME NEW f, NEW g, NEW T, IsFiniteSet(T), \A x \in T : f[x] \in Int /\ f[x] = g[x]
  PROVE  SumFunctionOnSet(f, T) = SumFunctionOnSet(g, T)
<1>1. PICK s \in [SUBSET T -> Int] : Sums(f, T, s)
  BY SumsExist
<1>2. PICK r \in [SUBSET T -> Int] : Sums(g, T, r)
  BY SumsExist
<1>3. s[T] = r[T]
  BY <1>1, <1>2, SumsAgree
<1>4. QED BY <1>1, <1>2, <1>3, SumIsRead

\* Any index may be taken out first.
LEMMA SumWithout ==
  ASSUME NEW f, NEW T, IsFiniteSet(T), \A x \in T : f[x] \in Int, NEW i \in T
  PROVE  SumFunctionOnSet(f, T) = f[i] + SumFunctionOnSet(f, T \ {i})
<1>0. ASSUME NEW B, \A t \in SUBSET T : (\A y \in t : t \ {y} \in B) => t \in B
      PROVE  SUBSET T \subseteq B
  BY <1>0, SubsetInduction
<1>1. PICK s \in [SUBSET T -> Int] : Sums(f, T, s)
  BY SumsExist
<1> DEFINE B == {t \in SUBSET T : \A y \in t : s[t] = f[y] + s[t \ {y}]}
<1>2. ASSUME NEW t \in SUBSET T, \A y \in t : t \ {y} \in B PROVE t \in B
  <2>1. ASSUME NEW y \in t PROVE s[t] = f[y] + s[t \ {y}]
    <3> DEFINE z == Pick(t)
    <3>1. z \in t
      BY DEF Pick
    <3>2. s[t] = f[z] + s[t \ {z}]
      BY <1>1, <3>1 DEF Sums
    <3> HIDE DEF z
    <3>3. CASE y # z
      <4>1. s[t \ {z}] = f[y] + s[(t \ {z}) \ {y}]
        BY <1>2, <3>1, <3>3
      <4>2. s[t \ {y}] = f[z] + s[(t \ {y}) \ {z}]
        BY <1>2, <3>1, <3>3
      <4>3. (t \ {z}) \ {y} = (t \ {y}) \ {z}
        OBVIOUS
      <4>4. f[y] \in Int /\ f[z] \in Int /\ s[(t \ {y}) \ {z}] \in Int
        BY <1>1, <3>1
      <4>5. s[t] = f[z] + (f[y] + s[(t \ {y}) \ {z}])
        BY <3>2, <4>1, <4>3
      <4>6. f[y] + s[t \ {y}] = f[y] + (f[z] + s[(t \ {y}) \ {z}])
        BY <4>2
      <4>7. QED BY <4>4, <4>5, <4>6
    <3>4. QED BY <3>2, <3>3
  <2>2. QED BY <2>1
<1>3. SUBSET T \subseteq B
  <2> HIDE DEF B
  <2>1. \A t \in SUBSET T : (\A y \in t : t \ {y} \in B) => t \in B
    BY <1>2
  <2>2. QED BY <2>1, <1>0
<1>4. s[T] = f[i] + s[T \ {i}]
  BY <1>3
<1>5. SumFunctionOnSet(f, T) = s[T] /\ SumFunctionOnSet(f, T \ {i}) = s[T \ {i}]
  BY <1>1, SumIsRead
<1>6. QED BY <1>4, <1>5

\* One entry changes: the sum changes by as much.
LEMMA SumChanges ==
  ASSUME NEW f, NEW g, NEW T, IsFiniteSet(T), NEW x \in T,
         \A y \in T : f[y] \in Int /\ g[y] \in Int, \A y \in T \ {x} : g[y] = f[y]
  PROVE  SumFunctionOnSet(g, T) = SumFunctionOnSet(f, T) - f[x] + g[x]
<1>1. IsFiniteSet(T \ {x})
  BY FS_Subset
<1>2. SumFunctionOnSet(f, T \ {x}) = SumFunctionOnSet(g, T \ {x})
  BY <1>1, SumOfSame
<1>3. SumFunctionOnSet(f, T \ {x}) \in Int
  BY <1>1, SumIsInt
<1>4. /\ SumFunctionOnSet(f, T) = f[x] + SumFunctionOnSet(f, T \ {x})
      /\ SumFunctionOnSet(g, T) = g[x] + SumFunctionOnSet(g, T \ {x})
  BY SumWithout
<1>5. QED BY <1>2, <1>3, <1>4

\* One index more.
LEMMA SumWith ==
  ASSUME NEW f, NEW T, IsFiniteSet(T), NEW x, x \notin T, \A y \in T \cup {x} : f[y] \in Int
  PROVE  SumFunctionOnSet(f, T \cup {x}) = f[x] + SumFunctionOnSet(f, T)
<1>1. IsFiniteSet(T \cup {x}) /\ (T \cup {x}) \ {x} = T
  BY FS_AddElement
<1>2. SumFunctionOnSet(f, T \cup {x}) = f[x] + SumFunctionOnSet(f, (T \cup {x}) \ {x})
  BY <1>1, SumWithout
<1>3. QED BY <1>1, <1>2

\* Indices with the value 0 may be left out.
LEMMA SumOfNonzero ==
  ASSUME NEW f, NEW T, IsFiniteSet(T), \A x \in T : f[x] \in Int,
         NEW V \in SUBSET T, \A x \in T \ V : f[x] = 0
  PROVE  SumFunctionOnSet(f, T) = SumFunctionOnSet(f, V)
<1> DEFINE B == {t \in SUBSET T : V \subseteq t => SumFunctionOnSet(f, t) = SumFunctionOnSet(f, V)}
<1>1. ASSUME NEW t \in SUBSET T, \A x \in t : t \ {x} \in B PROVE t \in B
  <2>1. CASE \E x \in t : x \notin V
    <3>1. PICK x \in t : x \notin V
      BY <2>1
    <3>2. IsFiniteSet(t) /\ f[x] = 0
      BY <3>1, FS_Subset
    <3>3. SumFunctionOnSet(f, t) = f[x] + SumFunctionOnSet(f, t \ {x})
      BY <3>2, SumWithout
    <3>4. SumFunctionOnSet(f, t \ {x}) \in Int
      <4>1. IsFiniteSet(t \ {x}) /\ \A y \in t \ {x} : f[y] \in Int
        BY <3>2, FS_Subset
      <4>2. QED BY <4>1, SumIsInt
    <3>5. QED BY <1>1, <3>1, <3>2, <3>3, <3>4
  <2>2. CASE t \subseteq V
    BY <2>2
  <2>3. QED BY <2>1, <2>2
<1>2. SUBSET T \subseteq B
  <2> HIDE DEF B
  <2>1. QED BY <1>1, SubsetInduction
<1>3. QED BY <1>2

\* Larger entries, larger sum.
LEMMA SumIsMonotonic ==
  ASSUME NEW f, NEW g, NEW T, IsFiniteSet(T),
         \A x \in T : f[x] \in Int /\ g[x] \in Int /\ f[x] <= g[x]
  PROVE  SumFunctionOnSet(f, T) <= SumFunctionOnSet(g, T)
<1> DEFINE B == {t \in SUBSET T : SumFunctionOnSet(f, t) <= SumFunctionOnSet(g, t)}
<1>1. ASSUME NEW t \in SUBSET T, \A x \in t : t \ {x} \in B PROVE t \in B
  <2>1. CASE t = {}
    <3>1. SumFunctionOnSet(f, {}) = 0 /\ SumFunctionOnSet(g, {}) = 0
      BY SumOverNone
    <3>2. QED BY <2>1, <3>1
  <2>2. CASE t # {}
    <3>1. PICK x \in t : TRUE
      BY <2>2
    <3>2. IsFiniteSet(t) /\ IsFiniteSet(t \ {x})
      BY FS_Subset
    <3>3. /\ SumFunctionOnSet(f, t) = f[x] + SumFunctionOnSet(f, t \ {x})
          /\ SumFunctionOnSet(g, t) = g[x] + SumFunctionOnSet(g, t \ {x})
      BY <3>2, SumWithout
    <3>4. SumFunctionOnSet(f, t \ {x}) \in Int /\ SumFunctionOnSet(g, t \ {x}) \in Int
      BY <3>2, SumIsInt
    <3>5. SumFunctionOnSet(f, t \ {x}) <= SumFunctionOnSet(g, t \ {x})
      BY <1>1
    <3>6. QED BY <3>3, <3>4, <3>5
  <2>3. QED BY <2>1, <2>2
<1>2. SUBSET T \subseteq B
  <2> HIDE DEF B
  <2>1. QED BY <1>1, SubsetInduction
<1>3. QED BY <1>2

\* A sum of zeros is 0.
LEMMA SumOfZeros ==
  ASSUME NEW f, NEW T, IsFiniteSet(T), \A x \in T : f[x] = 0
  PROVE  SumFunctionOnSet(f, T) = 0
BY SumOfNonzero, SumOverNone

\* Counting: a set grows by at most one when one thing joins it.
LEMMA OneMore ==
  ASSUME NEW S, IsFiniteSet(S), NEW x
  PROVE  /\ IsFiniteSet(S \cup {x}) /\ Cardinality(S \cup {x}) \in Nat
         /\ Cardinality(S \cup {x}) <= Cardinality(S) + 1
<1>1. Cardinality(S) \in Nat BY FS_CardinalityType
<1>2. CASE x \in S
  <2> DEFINE T == S \cup {x}
  <2>1. T = S BY <1>2
  <2> HIDE DEF T
  <2>2. IsFiniteSet(T) /\ Cardinality(T) \in Nat /\ Cardinality(T) <= Cardinality(S) + 1
    BY <1>1, <2>1
  <2>3. QED BY <2>2 DEF T
<1>3. CASE x \notin S
  <2>1. IsFiniteSet(S \cup {x}) /\ Cardinality(S \cup {x}) = Cardinality(S) + 1
    BY <1>3, FS_AddElement
  <2>2. QED BY <1>1, <2>1
<1>4. QED BY <1>2, <1>3
==============================================================================
