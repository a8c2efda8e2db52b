----------------------------- MODULE SumTheorems -----------------------------
(***************************************************************************)
(* Facts about SumFunctionOnSet of the community modules, for any finite   *)
(* set of indices: what the sum over a larger set is, and what it becomes  *)
(* when the function changes.  The models state conservation with it: a    *)
(* balance is the sum of entries, a counter is the sum of orders.          *)
(*                                                                         *)
(* The library's induction theorems are about formulas; here induction is  *)
(* about sets, which are ordinary values: that the natural numbers are     *)
(* well-founded gives a least element of every set of them (Least), and a  *)
(* finite set that is not among the good ones would have a smallest bad    *)
(* subset (FiniteSetInduction).                                            *)
(***************************************************************************)
EXTENDS Integers, FiniteSets, Functions, WellFoundedInduction, FiniteSetTheorems, TLAPS

LessThan == {ss \in Nat \X Nat : ss[1] < ss[2]}

\* A set of natural numbers has a least element.
LEMMA Least == ASSUME NEW T, T \subseteq Nat, T # {} PROVE \E x \in T : \A y \in T : x <= y
<1>1. IsWellFoundedOn(LessThan, Nat)
  BY NatLessThanWellFounded DEF OpToRel, LessThan
<1>2. PICK x \in T : \A y \in T : ~(<<y, x>> \in LessThan)
  BY <1>1, WFMin
<1>3. ASSUME NEW y \in T PROVE x <= y
  <2>1. x \in Nat /\ y \in Nat /\ ~(<<y, x>> \in LessThan)
    BY <1>2
  <2>2. <<y, x>> \in LessThan <=> y < x
    BY <2>1 DEF LessThan
  <2> QED
    BY <2>1, <2>2
<1> QED
  BY <1>3

\* Induction over the subsets of a finite set: one that is not good although
\* all that are smaller are, would have to exist.
LEMMA FiniteSetInduction ==
    ASSUME NEW S, IsFiniteSet(S), NEW Good,
           \A s \in SUBSET S : (\A t \in SUBSET s : t # s => t \in Good) => s \in Good
    PROVE  \A s \in SUBSET S : s \in Good
<1> SUFFICES ASSUME \E s \in SUBSET S : s \notin Good PROVE FALSE
  OBVIOUS
<1> DEFINE Bad == {n \in Nat : \E s \in SUBSET S : s \notin Good /\ Cardinality(s) = n}
<1>1. \A s \in SUBSET S : IsFiniteSet(s) /\ Cardinality(s) \in Nat
  BY FS_Subset, FS_CardinalityType
<1>2. Bad \subseteq Nat /\ Bad # {}
  BY <1>1
<1>3. PICK n \in Bad : \A m \in Bad : n <= m
  <2> HIDE DEF Bad
  <2> QED
    BY <1>2, Least
<1>4. PICK s \in SUBSET S : s \notin Good /\ Cardinality(s) = n
  BY <1>3
<1>5. PICK t \in SUBSET s : t # s /\ t \notin Good
  BY <1>4
<1>6. t \in SUBSET S /\ Cardinality(t) \in Bad
  BY <1>1, <1>5
<1>7. Cardinality(t) <= Cardinality(s) /\ Cardinality(t) # Cardinality(s)
  BY <1>1, <1>5, FS_Subset
<1>8. n <= Cardinality(t) /\ n \in Nat /\ Cardinality(t) \in Nat
  BY <1>1, <1>3, <1>6
<1> QED
  BY <1>4, <1>7, <1>8

------------------------------------------------------------------------------
(* The sum, by its definition *)

Pick(s) == CHOOSE x \in s : TRUE

\* g is the function that the fold iterates.
Sums(f, S, g) == g = [s \in SUBSET S |-> IF s = {} THEN 0 ELSE f[Pick(s)] + g[s \ {Pick(s)}]]

LEMMA SumUnfolds ==
    ASSUME NEW f, NEW S
    PROVE  SumFunctionOnSet(f, S) = (CHOOSE g : Sums(f, S, g))[S]
  BY DEF SumFunctionOnSet, FoldFunctionOnSet, MapThenFoldSet, Sums, Pick

LEMMA PickedOne == ASSUME NEW s, s # {} PROVE Pick(s) \in s
  BY DEF Pick

LEMMA SumsOf ==
    ASSUME NEW f, NEW S, NEW g, Sums(f, S, g), NEW s \in SUBSET S
    PROVE  g[s] = IF s = {} THEN 0 ELSE f[Pick(s)] + g[s \ {Pick(s)}]
<1> HIDE DEF Pick
<1> QED
  BY DEF Sums

\* There is one such function, as far as it goes.
LEMMA SumsAgree ==
    ASSUME NEW f, NEW S, IsFiniteSet(S), NEW T, NEW g, NEW h, Sums(f, S, g), Sums(f, T, h)
    PROVE  \A s \in SUBSET (S \cap T) : g[s] = h[s]
<1> DEFINE Good == {s \in SUBSET (S \cap T) : g[s] = h[s]}
<1>1. IsFiniteSet(S \cap T)
  <2>1. S \cap T \in SUBSET S
    OBVIOUS
  <2> QED
    BY <2>1, FS_Subset
<1>2. ASSUME NEW s \in SUBSET (S \cap T), \A t \in SUBSET s : t # s => t \in Good PROVE s \in Good
  <2>1. CASE s = {}
    <3>1. g[s] = 0 /\ h[s] = 0
      BY <2>1, SumsOf
    <3> QED
      BY <3>1
  <2>2. CASE s # {}
    <3>1. Pick(s) \in s
      BY <2>2, PickedOne
    <3>2. g[s \ {Pick(s)}] = h[s \ {Pick(s)}]
      BY <1>2, <3>1
    <3>3. s \in SUBSET S /\ s \in SUBSET T
      OBVIOUS
    <3>4. g[s] = f[Pick(s)] + g[s \ {Pick(s)}]
      BY <2>2, <3>3, SumsOf
    <3>5. h[s] = f[Pick(s)] + h[s \ {Pick(s)}]
      BY <2>2, <3>3, SumsOf
    <3> QED
      BY <3>2, <3>4, <3>5
  <2> QED
    BY <2>1, <2>2
<1> HIDE DEF Good
<1>3. \A s \in SUBSET (S \cap T) : s \in Good
  BY <1>1, <1>2, FiniteSetInduction
<1> QED
  BY <1>3 DEF Good

LEMMA SumsExist ==
    ASSUME NEW f, NEW S, IsFiniteSet(S)
    PROVE  \E g : Sums(f, S, g)
<1> DEFINE Good == {s \in SUBSET S : \E g : Sums(f, s, g)}
           sums(s) == CHOOSE g : Sums(f, s, g)
<1>1. \A s \in SUBSET S : IsFiniteSet(s)
  BY FS_Subset
<1>2. \A s \in Good : s \in SUBSET S /\ Sums(f, s, sums(s))
  OBVIOUS
<1>3. ASSUME NEW s \in SUBSET S, \A t \in SUBSET s : t # s => t \in Good PROVE s \in Good
  <2> DEFINE less(u) == u \ {Pick(u)}
             G == [u \in SUBSET s |-> IF u = {} THEN 0 ELSE f[Pick(u)] + sums(less(u))[less(u)]]
  <2>1. ASSUME NEW u \in SUBSET s, u # {} PROVE G[less(u)] = sums(less(u))[less(u)]
    <3> DEFINE v == less(u)
    <3>1. v \in SUBSET s /\ v # s
      BY <2>1, PickedOne
    <3>2. Sums(f, v, sums(v)) /\ v \in SUBSET v
      BY <1>2, <1>3, <3>1
    <3>3. CASE v = {}
      <4>1. sums(v)[v] = 0
        BY <3>2, <3>3, SumsOf
      <4>2. G[v] = 0
        BY <3>1, <3>3
      <4> QED
        BY <4>1, <4>2
    <3>4. CASE v # {}
      <4> DEFINE w == less(v)
      <4>1. w \in SUBSET v /\ w # v /\ w \in SUBSET s /\ w # s
        BY <3>1, <3>4, PickedOne
      <4>2. Sums(f, w, sums(w))
        BY <1>2, <1>3, <4>1
      <4>3. sums(v)[v] = f[Pick(v)] + sums(v)[w]
        <5> PICK g : g = sums(v)
          OBVIOUS
        <5>1. Sums(f, v, g)
          BY <3>2
        <5> HIDE DEF v, sums
        <5>2. g[v] = f[Pick(v)] + g[v \ {Pick(v)}]
          BY <3>4, <5>1, SumsOf
        <5> QED
          BY <5>2
      <4>4. IsFiniteSet(v) /\ w \in SUBSET (v \cap w)
        BY <1>1, <3>1, <4>1
      <4> HIDE DEF v, w, sums
      <4>5. sums(v)[w] = sums(w)[w]
        BY <3>2, <4>2, <4>4, SumsAgree
      <4> USE DEF w
      <4>6. G[v] = f[Pick(v)] + sums(w)[w]
        BY <3>1, <3>4
      <4> QED
        BY <4>3, <4>5, <4>6 DEF v
    <3> QED
      BY <3>3, <3>4
  <2>2. G = [u \in SUBSET s |-> IF u = {} THEN 0 ELSE f[Pick(u)] + G[less(u)]]
    <3> DEFINE H == [u \in SUBSET s |-> IF u = {} THEN 0 ELSE f[Pick(u)] + G[less(u)]]
    <3>1. \A u \in SUBSET s : u # {} => G[less(u)] = sums(less(u))[less(u)]
      BY <2>1
    <3> HIDE DEF sums, less
    <3>2. \A u \in SUBSET s : G[u] = IF u = {} THEN 0 ELSE f[Pick(u)] + sums(less(u))[less(u)]
      OBVIOUS
    <3> HIDE DEF G
    <3>3. \A u \in SUBSET s : H[u] = G[u]
      BY <3>1, <3>2
    <3>4. DOMAIN G = SUBSET s /\ G = [u \in DOMAIN G |-> G[u]]
      BY DEF G
    <3>5. DOMAIN H = SUBSET s /\ H = [u \in DOMAIN H |-> H[u]]
      OBVIOUS
    <3> HIDE DEF H
    <3>6. G = H
      BY <3>3, <3>4, <3>5
    <3> QED
      BY <3>6 DEF H
  <2>3. Sums(f, s, G)
    BY <2>2 DEF Sums
  <2> QED
    BY <2>3
<1> HIDE DEF Good
<1>4. S \in Good
  BY <1>3, FiniteSetInduction
<1> QED
  BY <1>4 DEF Good

LEMMA SumStep ==
    ASSUME NEW f, NEW S, IsFiniteSet(S)
    PROVE  /\ SumFunctionOnSet(f, {}) = 0
           /\ S # {} => SumFunctionOnSet(f, S) = f[Pick(S)] + SumFunctionOnSet(f, S \ {Pick(S)})
<1> DEFINE sums(s) == CHOOSE g : Sums(f, s, g)
<1>1. \A s : SumFunctionOnSet(f, s) = sums(s)[s]
  BY SumUnfolds
<1>2. IsFiniteSet({}) /\ IsFiniteSet(S \ {Pick(S)})
  <2>1. S \ {Pick(S)} \in SUBSET S
    OBVIOUS
  <2> QED
    BY <2>1, FS_EmptySet, FS_Subset
<1>3. \A s : IsFiniteSet(s) => Sums(f, s, sums(s))
  BY SumsExist
<1> HIDE DEF sums
<1>4. SumFunctionOnSet(f, {}) = 0
  <2> PICK g : g = sums({})
    OBVIOUS
  <2>1. Sums(f, {}, g)
    BY <1>2, <1>3
  <2>2. g[{}] = 0
    BY <2>1, SumsOf
  <2> QED
    BY <1>1, <2>2
<1>5. ASSUME S # {} PROVE SumFunctionOnSet(f, S) = f[Pick(S)] + SumFunctionOnSet(f, S \ {Pick(S)})
  <2> PICK T : T = S \ {Pick(S)}
    OBVIOUS
  <2> PICK g : g = sums(S)
    OBVIOUS
  <2> PICK h : h = sums(T)
    OBVIOUS
  <2>1. Sums(f, S, g) /\ Sums(f, T, h)
    BY <1>2, <1>3
  <2>2. g[S] = f[Pick(S)] + g[T]
    BY <1>5, <2>1, SumsOf
  <2>3. g[T] = h[T]
    BY <2>1, SumsAgree
  <2> QED
    BY <1>1, <2>2, <2>3
<1> QED
  BY <1>4, <1>5

------------------------------------------------------------------------------
(* The theorems *)

\* The sum over no index.
THEOREM SumEmpty == \A f : SumFunctionOnSet(f, {}) = 0
  BY SumStep, FS_EmptySet

\* The sum of integers is one.
THEOREM SumType ==
    ASSUME NEW f, NEW S, IsFiniteSet(S), \A x \in S : f[x] \in Int
    PROVE  SumFunctionOnSet(f, S) \in Int
<1> DEFINE Good == {s \in SUBSET S : SumFunctionOnSet(f, s) \in Int}
<1>1. ASSUME NEW s \in SUBSET S, \A t \in SUBSET s : t # s => t \in Good PROVE s \in Good
  <2>1. IsFiniteSet(s)
    BY FS_Subset
  <2>2. CASE s = {}
    BY <2>2, SumEmpty
  <2>3. CASE s # {}
    <3>1. Pick(s) \in s
      BY <2>3, PickedOne
    <3>2. SumFunctionOnSet(f, s) = f[Pick(s)] + SumFunctionOnSet(f, s \ {Pick(s)})
      BY <2>1, <2>3, SumStep
    <3>3. SumFunctionOnSet(f, s \ {Pick(s)}) \in Int
      BY <1>1, <3>1
    <3>4. f[Pick(s)] \in Int
      BY <3>1
    <3> QED
      BY <3>2, <3>3, <3>4
  <2> QED
    BY <2>2, <2>3
<1> HIDE DEF Good
<1>2. S \in Good
  BY <1>1, FiniteSetInduction
<1> QED
  BY <1>2 DEF Good

\* Nor is the sum of natural numbers negative.
THEOREM SumIsNat ==
    ASSUME NEW f, NEW S, IsFiniteSet(S), \A x \in S : f[x] \in Nat
    PROVE  SumFunctionOnSet(f, S) \in Nat
<1> DEFINE Good == {s \in SUBSET S : SumFunctionOnSet(f, s) \in Nat}
<1>1. ASSUME NEW s \in SUBSET S, \A t \in SUBSET s : t # s => t \in Good PROVE s \in Good
  <2>1. IsFiniteSet(s)
    BY FS_Subset
  <2>2. CASE s = {}
    BY <2>2, SumEmpty
  <2>3. CASE s # {}
    <3>1. Pick(s) \in s
      BY <2>3, PickedOne
    <3>2. SumFunctionOnSet(f, s) = f[Pick(s)] + SumFunctionOnSet(f, s \ {Pick(s)})
      BY <2>1, <2>3, SumStep
    <3>3. SumFunctionOnSet(f, s \ {Pick(s)}) \in Nat
      BY <1>1, <3>1
    <3>4. f[Pick(s)] \in Nat
      BY <3>1
    <3> QED
      BY <3>2, <3>3, <3>4
  <2> QED
    BY <2>2, <2>3
<1> HIDE DEF Good
<1>2. S \in Good
  BY <1>1, FiniteSetInduction
<1> QED
  BY <1>2 DEF Good

\* Functions that agree on the indices have the same sum.
THEOREM SumSame ==
    ASSUME NEW f, NEW g, NEW S, IsFiniteSet(S), \A x \in S : f[x] = g[x]
    PROVE  SumFunctionOnSet(f, S) = SumFunctionOnSet(g, S)
<1> DEFINE Good == {s \in SUBSET S : SumFunctionOnSet(f, s) = SumFunctionOnSet(g, s)}
<1>1. ASSUME NEW s \in SUBSET S, \A t \in SUBSET s : t # s => t \in Good PROVE s \in Good
  <2>1. IsFiniteSet(s)
    BY FS_Subset
  <2>2. CASE s = {}
    BY <2>2, SumEmpty
  <2>3. CASE s # {}
    <3>1. Pick(s) \in s
      BY <2>3, PickedOne
    <3>2. /\ SumFunctionOnSet(f, s) = f[Pick(s)] + SumFunctionOnSet(f, s \ {Pick(s)})
          /\ SumFunctionOnSet(g, s) = g[Pick(s)] + SumFunctionOnSet(g, s \ {Pick(s)})
      BY <2>1, <2>3, SumStep
    <3>3. SumFunctionOnSet(f, s \ {Pick(s)}) = SumFunctionOnSet(g, s \ {Pick(s)})
      BY <1>1, <3>1
    <3>4. f[Pick(s)] = g[Pick(s)]
      BY <3>1
    <3> QED
      BY <3>2, <3>3, <3>4
  <2> QED
    BY <2>2, <2>3
<1> HIDE DEF Good
<1>2. S \in Good
  BY <1>1, FiniteSetInduction
<1> QED
  BY <1>2 DEF Good

\* Any index may be taken out of the sum, not only the one the fold picks.
THEOREM SumRemove ==
    ASSUME NEW f, NEW S, IsFiniteSet(S), \A x \in S : f[x] \in Int, NEW x \in S
    PROVE  SumFunctionOnSet(f, S) = f[x] + SumFunctionOnSet(f, S \ {x})
<1> DEFINE sum(s) == SumFunctionOnSet(f, s)
           Good == {s \in SUBSET S : \A y \in s : sum(s) = f[y] + sum(s \ {y})}
<1>1. \A s \in SUBSET S : sum(s) \in Int /\ IsFiniteSet(s)
  BY FS_Subset, SumType
<1>2. ASSUME NEW s \in SUBSET S, \A t \in SUBSET s : t # s => t \in Good PROVE s \in Good
  <2> SUFFICES ASSUME NEW y \in s PROVE sum(s) = f[y] + sum(s \ {y})
    OBVIOUS
  <2> PICK p : p = Pick(s)
    OBVIOUS
  <2>1. p \in s
    BY PickedOne
  <2>2. sum(s) = f[p] + sum(s \ {p})
    BY <1>1, SumStep
  <2>3. CASE y = p
    BY <2>2, <2>3
  <2>4. CASE y # p
    <3> DEFINE a == s \ {p}
               b == s \ {y}
    <3>1. a \in Good /\ b \in Good
      BY <1>2, <2>1
    <3>2. y \in a /\ p \in b /\ a \ {y} = b \ {p}
      BY <2>1, <2>4
    <3> HIDE DEF sum
    <3>3. sum(a) = f[y] + sum(a \ {y}) /\ sum(b) = f[p] + sum(b \ {p})
      BY <3>1, <3>2
    <3>4. f[y] \in Int /\ f[p] \in Int /\ sum(a \ {y}) \in Int
      BY <1>1, <2>1
    <3>5. sum(s) = f[p] + sum(a)
      BY <2>2
    <3>6. sum(b \ {p}) = sum(a \ {y})
      BY <3>2
    <3>7. sum(s) = f[y] + sum(b)
      BY <3>3, <3>4, <3>5, <3>6
    <3> QED
      BY <3>7
  <2> QED
    BY <2>3, <2>4
<1> HIDE DEF Good
<1>3. S \in Good
  BY <1>2, FiniteSetInduction
<1> QED
  BY <1>3 DEF Good

\* One index more.
THEOREM SumAdd ==
    ASSUME NEW f, NEW S, IsFiniteSet(S), NEW x, x \notin S, f[x] \in Int, \A y \in S : f[y] \in Int
    PROVE  SumFunctionOnSet(f, S \cup {x}) = f[x] + SumFunctionOnSet(f, S)
<1>1. IsFiniteSet(S \cup {x})
  BY FS_AddElement
<1>2. (S \cup {x}) \ {x} = S
  OBVIOUS
<1> PICK T : T = S \cup {x}
  OBVIOUS
<1>3. x \in T /\ T \ {x} = S /\ \A y \in T : f[y] \in Int
  BY <1>2
<1>4. SumFunctionOnSet(f, T) = f[x] + SumFunctionOnSet(f, T \ {x})
  BY <1>1, <1>3, SumRemove
<1> QED
  BY <1>3, <1>4

\* Another value at one index.
THEOREM SumChanged ==
    ASSUME NEW f, NEW g, NEW S, IsFiniteSet(S), NEW x \in S,
           \A y \in S : f[y] \in Int /\ g[y] \in Int, \A y \in S \ {x} : f[y] = g[y]
    PROVE  SumFunctionOnSet(g, S) = SumFunctionOnSet(f, S) + g[x] - f[x]
<1> PICK T : T = S \ {x}
  OBVIOUS
<1>1. IsFiniteSet(T) /\ T \subseteq S
  <2>1. T \in SUBSET S
    OBVIOUS
  <2> QED
    BY <2>1, FS_Subset
<1>2. SumFunctionOnSet(f, S) = f[x] + SumFunctionOnSet(f, T)
  BY SumRemove
<1>3. SumFunctionOnSet(g, S) = g[x] + SumFunctionOnSet(g, T)
  BY SumRemove
<1>4. SumFunctionOnSet(f, T) = SumFunctionOnSet(g, T)
  BY <1>1, SumSame
<1>5. SumFunctionOnSet(f, T) \in Int
  BY <1>1, SumType
<1> QED
  BY <1>2, <1>3, <1>4, <1>5

\* The sum of sums.
THEOREM SumOfBoth ==
    ASSUME NEW f, NEW g, NEW h, NEW S, IsFiniteSet(S),
           \A x \in S : f[x] \in Int /\ g[x] \in Int /\ h[x] = f[x] + g[x]
    PROVE  SumFunctionOnSet(h, S) = SumFunctionOnSet(f, S) + SumFunctionOnSet(g, S)
<1> DEFINE Good == {s \in SUBSET S : SumFunctionOnSet(h, s) = SumFunctionOnSet(f, s) + SumFunctionOnSet(g, s)}
<1>1. ASSUME NEW s \in SUBSET S, \A t \in SUBSET s : t # s => t \in Good PROVE s \in Good
  <2>1. IsFiniteSet(s)
    BY FS_Subset
  <2>2. CASE s = {}
    <3>1. SumFunctionOnSet(h, s) = 0 /\ SumFunctionOnSet(f, s) = 0 /\ SumFunctionOnSet(g, s) = 0
      BY <2>2, SumEmpty
    <3> QED
      BY <3>1
  <2>3. CASE s # {}
    <3> PICK p : p = Pick(s)
      OBVIOUS
    <3> PICK r : r = s \ {p}
      OBVIOUS
    <3>1. p \in s /\ r \in SUBSET s /\ r # s
      BY <2>3, PickedOne
    <3>2. /\ SumFunctionOnSet(f, s) = f[p] + SumFunctionOnSet(f, r)
          /\ SumFunctionOnSet(g, s) = g[p] + SumFunctionOnSet(g, r)
          /\ SumFunctionOnSet(h, s) = h[p] + SumFunctionOnSet(h, r)
      BY <2>1, <2>3, SumStep
    <3>3. SumFunctionOnSet(h, r) = SumFunctionOnSet(f, r) + SumFunctionOnSet(g, r)
      BY <1>1, <3>1
    <3>4. IsFiniteSet(r) /\ \A x \in r : f[x] \in Int /\ g[x] \in Int
      BY <2>1, <3>1, FS_Subset
    <3>5. SumFunctionOnSet(f, r) \in Int /\ SumFunctionOnSet(g, r) \in Int
      BY <3>4, SumType
    <3>6. f[p] \in Int /\ g[p] \in Int /\ h[p] = f[p] + g[p]
      BY <3>1
    <3> QED
      BY <3>2, <3>3, <3>5, <3>6
  <2> QED
    BY <2>2, <2>3
<1> HIDE DEF Good
<1>2. S \in Good
  BY <1>1, FiniteSetInduction
<1> QED
  BY <1>2 DEF Good

\* A sum of nothing but zeros.
THEOREM SumZero ==
    ASSUME NEW f, NEW S, IsFiniteSet(S), \A x \in S : f[x] = 0
    PROVE  SumFunctionOnSet(f, S) = 0
<1> DEFINE Good == {s \in SUBSET S : SumFunctionOnSet(f, s) = 0}
<1>1. ASSUME NEW s \in SUBSET S, \A t \in SUBSET s : t # s => t \in Good PROVE s \in Good
  <2>1. CASE s = {}
    BY <2>1, SumEmpty
  <2>2. CASE s # {}
    <3> PICK p : p = Pick(s)
      OBVIOUS
    <3>1. p \in s /\ IsFiniteSet(s)
      BY <2>2, PickedOne, FS_Subset
    <3>2. SumFunctionOnSet(f, s) = f[p] + SumFunctionOnSet(f, s \ {p})
      BY <2>2, <3>1, SumStep
    <3>3. SumFunctionOnSet(f, s \ {p}) = 0 /\ f[p] = 0
      BY <1>1, <3>1
    <3> QED
      BY <3>2, <3>3
  <2> QED
    BY <2>1, <2>2
<1> HIDE DEF Good
<1>2. S \in Good
  BY <1>1, FiniteSetInduction
<1> QED
  BY <1>2 DEF Good

\* A sum with one index that is not zero.
THEOREM SumOnly ==
    ASSUME NEW f, NEW S, IsFiniteSet(S), NEW x \in S, f[x] \in Int, \A y \in S \ {x} : f[y] = 0
    PROVE  SumFunctionOnSet(f, S) = f[x]
<1> PICK T : T = S \ {x}
  OBVIOUS
<1>1. IsFiniteSet(T)
  <2>1. T \in SUBSET S
    OBVIOUS
  <2> QED
    BY <2>1, FS_Subset
<1>2. SumFunctionOnSet(f, T) = 0
  BY <1>1, SumZero
<1>3. \A y \in S : f[y] \in Int
  OBVIOUS
<1>4. SumFunctionOnSet(f, S) = f[x] + SumFunctionOnSet(f, T)
  BY <1>3, SumRemove
<1> QED
  BY <1>2, <1>4

\* The sum over two sets that have no index in common.
THEOREM SumUnion ==
    ASSUME NEW f, NEW S, NEW T, IsFiniteSet(S), IsFiniteSet(T), S \cap T = {},
           \A x \in S \cup T : f[x] \in Int
    PROVE  SumFunctionOnSet(f, S \cup T) = SumFunctionOnSet(f, S) + SumFunctionOnSet(f, T)
<1> DEFINE Good == {s \in SUBSET S :
                      SumFunctionOnSet(f, s \cup T) = SumFunctionOnSet(f, s) + SumFunctionOnSet(f, T)}
<1>0. SumFunctionOnSet(f, T) \in Int
  BY SumType
<1>1. ASSUME NEW s \in SUBSET S, \A t \in SUBSET s : t # s => t \in Good PROVE s \in Good
  <2>1. CASE s = {}
    <3>1. SumFunctionOnSet(f, s) = 0
      BY <2>1, SumEmpty
    <3>2. SumFunctionOnSet(f, s \cup T) = SumFunctionOnSet(f, T)
      <4>1. s \cup T = T
        BY <2>1
      <4> QED
        BY <4>1, Zenon
    <3> QED
      BY <1>0, <3>1, <3>2
  <2>2. CASE s # {}
    <3> PICK p : p \in s
      BY <2>2
    <3> PICK r : r = s \ {p}
      OBVIOUS
    <3>1. r \in SUBSET s /\ r # s /\ r \in SUBSET S
      OBVIOUS
    <3>2. IsFiniteSet(s) /\ IsFiniteSet(r)
      BY <3>1, FS_Subset
    <3>3. SumFunctionOnSet(f, s) = f[p] + SumFunctionOnSet(f, r)
      <4>1. \A x \in s : f[x] \in Int
        OBVIOUS
      <4> QED
        BY <3>2, <4>1, SumRemove
    <3>4. SumFunctionOnSet(f, r \cup T) = SumFunctionOnSet(f, r) + SumFunctionOnSet(f, T)
      BY <1>1, <3>1
    <3>5. SumFunctionOnSet(f, s \cup T) = f[p] + SumFunctionOnSet(f, r \cup T)
      <4> PICK u : u = s \cup T
        OBVIOUS
      <4>1. IsFiniteSet(u)
        BY <3>2, FS_Union
      <4>2. u \ {p} = r \cup T /\ p \in u /\ \A x \in u : f[x] \in Int
        OBVIOUS
      <4>3. SumFunctionOnSet(f, u) = f[p] + SumFunctionOnSet(f, u \ {p})
        BY <4>1, <4>2, SumRemove
      <4> QED
        BY <4>2, <4>3
    <3>6. SumFunctionOnSet(f, r) \in Int
      <4>1. \A x \in r : f[x] \in Int
        BY <3>1
      <4> QED
        BY <3>2, <4>1, SumType
    <3>7. f[p] \in Int
      OBVIOUS
    <3> QED
      BY <1>0, <3>3, <3>4, <3>5, <3>6, <3>7
  <2> QED
    BY <2>1, <2>2
<1> HIDE DEF Good
<1>2. S \in Good
  BY <1>1, FiniteSetInduction
<1> QED
  BY <1>2 DEF Good

\* Indices where the function is zero do not count.
THEOREM SumWithin ==
    ASSUME NEW f, NEW S, NEW T, IsFiniteSet(T), S \subseteq T, \A x \in T : f[x] \in Int,
           \A x \in T \ S : f[x] = 0
    PROVE  SumFunctionOnSet(f, T) = SumFunctionOnSet(f, S)
<1> PICK R : R = T \ S
  OBVIOUS
<1>1. IsFiniteSet(R) /\ IsFiniteSet(S)
  <2>1. R \in SUBSET T /\ S \in SUBSET T
    OBVIOUS
  <2> QED
    BY <2>1, FS_Subset
<1>2. S \cup R = T /\ S \cap R = {} /\ \A x \in S \cup R : f[x] \in Int
  OBVIOUS
<1>3. SumFunctionOnSet(f, S \cup R) = SumFunctionOnSet(f, S) + SumFunctionOnSet(f, R)
  BY <1>1, <1>2, SumUnion
<1>4. SumFunctionOnSet(f, R) = 0
  BY <1>1, SumZero
<1>5. SumFunctionOnSet(f, S) \in Int
  <2>1. \A x \in S : f[x] \in Int
    OBVIOUS
  <2> QED
    BY <1>1, <2>1, SumType
<1>6. SumFunctionOnSet(f, T) = SumFunctionOnSet(f, S) + SumFunctionOnSet(f, R)
  BY <1>2, <1>3, Zenon
<1> QED
  BY <1>4, <1>5, <1>6
=============================================================================
