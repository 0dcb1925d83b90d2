--------------------------------- MODULE Sums ---------------------------------
(***************************************************************************)
(* What SumFunctionOnSet and SumFunction of the community modules return,  *)
(* for any finite set: they are recursive, so every fact about them is an  *)
(* induction.  The induction is the existence of a minimal counterexample  *)
(* among the subsets of a finite set (Minimal).                            *)
(***************************************************************************)
EXTENDS Integers, FiniteSets, Functions, FiniteSetTheorems, TLAPS

Pick(s) == CHOOSE x \in s : TRUE

(* g is the recursive function that SumFunctionOnSet(f, S) is made of.     *)
Adds(g, f, S) == g = [s \in SUBSET S |-> IF s = {} THEN 0 ELSE f[Pick(s)] + g[s \ {Pick(s)}]]

Iter(f, S) == CHOOSE g : Adds(g, f, S)

LEMMA SumIsIter == \A f, S : SumFunctionOnSet(f, S) = Iter(f, S)[S]
  BY DEF SumFunctionOnSet, FoldFunctionOnSet, MapThenFoldSet, Iter, Adds, Pick

LEMMA PickIn == \A s : s # {} => Pick(s) \in s
  BY DEF Pick

LEMMA AddsAt ==
  ASSUME NEW g, NEW f, NEW S, Adds(g, f, S), NEW s \in SUBSET S
  PROVE  g[s] = IF s = {} THEN 0 ELSE f[Pick(s)] + g[s \ {Pick(s)}]
  BY DEF Adds

(* Any set of subsets of a finite set has a least one.                     *)
LEMMA Minimal ==
  ASSUME NEW S, IsFiniteSet(S), NEW T, T \subseteq SUBSET S, T # {}
  PROVE  \E x \in T : \A y \in T : y \subseteq x => y = x
<1>1. IsWellFoundedOn(StrictSubsetOrdering(S), SUBSET S)
  BY FS_StrictSubsetOrderingWellFounded, FS_FiniteSubsetsOfFinite
<1>2. PICK x \in T : \A y \in T : ~(<<y, x>> \in StrictSubsetOrdering(S))
  BY <1>1, WFMin
<1> QED BY <1>2 DEF StrictSubsetOrdering

(* Induction over the subsets of a finite set; G are the subsets for which *)
(* something holds.                                                        *)
LEMMA Induct ==
  ASSUME NEW S, IsFiniteSet(S), NEW G, {} \in G,
         \A t \in SUBSET S : \A x \in t : t \ {x} \in G => t \in G
  PROVE  S \in G
<1> DEFINE T == (SUBSET S) \ G
<1> SUFFICES ASSUME T # {} PROVE FALSE
  OBVIOUS
<1>1. PICK t \in T : \A u \in T : u \subseteq t => u = t
  <2>1. T \subseteq SUBSET S
    OBVIOUS
  <2> HIDE DEF T
  <2> QED BY <2>1, Minimal
<1>2. t \in SUBSET S /\ t \notin G /\ t # {}
  BY <1>1
<1>3. PICK x \in t : TRUE
  BY <1>2
<1>4. t \ {x} \in SUBSET S /\ t \ {x} # t
  BY <1>2, <1>3
<1>5. t \ {x} \notin T
  BY <1>1, <1>4
<1>6. t \ {x} \in G
  BY <1>4, <1>5
<1> HIDE DEF T
<1> QED BY <1>2, <1>3, <1>6

(* There is one such function at most, ...                                 *)
LEMMA AddsAgree ==
  ASSUME NEW s, IsFiniteSet(s), NEW f, NEW h, \A x \in s : f[x] = h[x],
         NEW A, NEW B, s \in SUBSET A, s \in SUBSET B,
         NEW g, NEW k, Adds(g, f, A), Adds(k, h, B)
  PROVE  g[s] = k[s]
<1> DEFINE T == {t \in SUBSET s : g[t] # k[t]}
<1> SUFFICES ASSUME T # {} PROVE FALSE
  OBVIOUS
<1>1. T \subseteq SUBSET s
  OBVIOUS
<1>2. PICK t \in T : \A u \in T : u \subseteq t => u = t
  <2> HIDE DEF T
  <2> QED BY <1>1, Minimal
<1>3. t \in SUBSET A /\ t \in SUBSET B /\ g[t] # k[t]
  BY <1>2
<1>4. t # {}
  BY <1>3, AddsAt
<1>5. Pick(t) \in t
  BY <1>4, PickIn
<1>6. g[t \ {Pick(t)}] = k[t \ {Pick(t)}]
  BY <1>2, <1>5
<1>7. g[t] = f[Pick(t)] + g[t \ {Pick(t)}] /\ k[t] = h[Pick(t)] + k[t \ {Pick(t)}]
  BY <1>3, <1>4, AddsAt
<1> QED BY <1>3, <1>5, <1>6, <1>7

(* ... and there is one: for a least subset without it, it is put together *)
(* from those of the smaller subsets.                                      *)
LEMMA AddsExists ==
  ASSUME NEW f, NEW S, IsFiniteSet(S)
  PROVE  Adds(Iter(f, S), f, S)
<1> DEFINE T == {A \in SUBSET S : ~ \E g : Adds(g, f, A)}
<1> SUFFICES ASSUME T # {} PROVE FALSE
  BY DEF Iter
<1>1. T \subseteq SUBSET S
  OBVIOUS
<1>2. PICK A \in T : \A B \in T : B \subseteq A => B = A
  <2> HIDE DEF T
  <2> QED BY <1>1, Minimal
<1> DEFINE Rest(s) == s \ {Pick(s)}
           r == [s \in SUBSET A |-> IF s = {} THEN 0 ELSE f[Pick(s)] + Iter(f, Rest(s))[Rest(s)]]
<1>3. ASSUME NEW B \in SUBSET A, B # A PROVE Adds(Iter(f, B), f, B)
  BY <1>2, <1>3 DEF Iter
<1>4. ASSUME NEW s \in SUBSET A, s # {} PROVE Rest(s) \in SUBSET A /\ Rest(s) # A /\ Rest(s) \in SUBSET s
  BY <1>4, PickIn
<1>5. ASSUME NEW B \in SUBSET A, B # A PROVE r[B] = Iter(f, B)[B]
  <2>1. Adds(Iter(f, B), f, B) /\ B \in SUBSET B
    BY <1>3, <1>5
  <2>2. CASE B = {}
    BY <2>1, <2>2, AddsAt
  <2>3. CASE B # {}
    <3> DEFINE C == Rest(B)
    <3>1. C \in SUBSET A /\ C # A /\ C \in SUBSET B
      BY <1>4, <2>3
    <3>2. Adds(Iter(f, C), f, C) /\ IsFiniteSet(C)
      BY <1>3, <3>1, FS_Subset
    <3>3. Iter(f, B)[C] = Iter(f, C)[C]
      <4> HIDE DEF C
      <4>1. C \in SUBSET C
        OBVIOUS
      <4> QED BY <2>1, <3>1, <3>2, <4>1, AddsAgree
    <3>4. Iter(f, B)[B] = f[Pick(B)] + Iter(f, B)[C]
      BY <2>1, <2>3, AddsAt
    <3> QED BY <2>3, <3>3, <3>4
  <2> QED BY <2>2, <2>3
<1>6. \A s \in SUBSET A : s # {} => Iter(f, Rest(s))[Rest(s)] = r[Rest(s)]
  <2> HIDE DEF Rest, r
  <2> QED BY <1>4, <1>5
<1>7. Adds(r, f, A)
  <2>1. r = [s \in SUBSET A |-> IF s = {} THEN 0 ELSE f[Pick(s)] + Iter(f, Rest(s))[Rest(s)]]
    OBVIOUS
  <2> HIDE DEF r
  <2> QED BY <1>6, <2>1 DEF Adds
<1> QED BY <1>2, <1>7
-------------------------------------------------------------------------------
LEMMA SumOfPart ==
  ASSUME NEW f, NEW S, IsFiniteSet(S), NEW s \in SUBSET S
  PROVE  SumFunctionOnSet(f, s) = Iter(f, S)[s]
<1>1. IsFiniteSet(s)
  BY FS_Subset
<1>2. Adds(Iter(f, s), f, s) /\ Adds(Iter(f, S), f, S)
  BY <1>1, AddsExists
<1>3. Iter(f, s)[s] = Iter(f, S)[s]
  BY <1>1, <1>2, AddsAgree
<1> QED BY <1>3, SumIsIter

(* Functions that agree on the set have the same sum.                      *)
LEMMA SumAgrees ==
  ASSUME NEW f, NEW h, NEW S, IsFiniteSet(S), \A x \in S : f[x] = h[x]
  PROVE  SumFunctionOnSet(f, S) = SumFunctionOnSet(h, S)
<1>1. Adds(Iter(f, S), f, S) /\ Adds(Iter(h, S), h, S)
  BY AddsExists
<1>2. Iter(f, S)[S] = Iter(h, S)[S]
  BY <1>1, AddsAgree
<1> QED BY <1>2, SumIsIter

LEMMA SumEmpty == \A f : SumFunctionOnSet(f, {}) = 0
<1> TAKE f
<1>1. Adds(Iter(f, {}), f, {})
  BY FS_EmptySet, AddsExists
<1> QED BY <1>1, SumIsIter DEF Adds

LEMMA SumInt ==
  ASSUME NEW f, NEW S, IsFiniteSet(S), \A x \in S : f[x] \in Int
  PROVE  SumFunctionOnSet(f, S) \in Int
<1> DEFINE g == Iter(f, S)
           T == {t \in SUBSET S : g[t] \notin Int}
<1>1. Adds(g, f, S) /\ SumFunctionOnSet(f, S) = g[S]
  BY AddsExists, SumIsIter
<1> SUFFICES ASSUME T # {} PROVE FALSE
  BY <1>1
<1>2. PICK t \in T : \A u \in T : u \subseteq t => u = t
  <2>1. T \subseteq SUBSET S
    OBVIOUS
  <2> HIDE DEF T
  <2> QED BY <2>1, Minimal
<1> HIDE DEF g
<1>3. t # {} /\ g[t] = f[Pick(t)] + g[t \ {Pick(t)}]
  BY <1>1, <1>2, AddsAt
<1>4. Pick(t) \in t
  BY <1>3, PickIn
<1>5. g[t \ {Pick(t)}] \in Int
  BY <1>2, <1>4
<1> QED BY <1>2, <1>3, <1>4, <1>5

(* Any element can be taken out of a sum.                                  *)
LEMMA SumRemove ==
  ASSUME NEW f, NEW S, IsFiniteSet(S), \A x \in S : f[x] \in Int, NEW x \in S
  PROVE  SumFunctionOnSet(f, S) = f[x] + SumFunctionOnSet(f, S \ {x})
<1> DEFINE g == Iter(f, S)
           T == {t \in SUBSET S : \E y \in t : g[t] # f[y] + g[t \ {y}]}
<1>1. Adds(g, f, S)
  BY AddsExists
<1>2. ASSUME NEW s \in SUBSET S PROVE SumFunctionOnSet(f, s) = g[s] /\ g[s] \in Int
  <2>1. IsFiniteSet(s) /\ \A y \in s : f[y] \in Int
    BY FS_Subset
  <2>2. SumFunctionOnSet(f, s) \in Int
    BY <2>1, SumInt
  <2> QED BY <2>2, SumOfPart
<1>3. CASE T = {}
  <2>1. g[S] = f[x] + g[S \ {x}]
    BY <1>3
  <2>2. S \in SUBSET S /\ S \ {x} \in SUBSET S
    OBVIOUS
  <2> HIDE DEF g
  <2> QED BY <1>2, <2>1, <2>2
<1>4. CASE T # {}
  <2>1. T \subseteq SUBSET S
    OBVIOUS
  <2>2. PICK t \in T : \A u \in T : u \subseteq t => u = t
    <3> HIDE DEF T
    <3> QED BY <1>4, <2>1, Minimal
  <2>3. PICK y \in t : g[t] # f[y] + g[t \ {y}]
    BY <2>2
  <2> DEFINE p == Pick(t)
  <2> HIDE DEF g
  <2>4. p \in t /\ g[t] = f[p] + g[t \ {p}]
    BY <1>1, <2>3, AddsAt, PickIn
  <2>5. t \ {p} \notin T /\ t \ {y} \notin T
    BY <2>2, <2>3, <2>4
  <2>6. y # p
    BY <2>3, <2>4
  <2>7. g[t \ {p}] = f[y] + g[(t \ {p}) \ {y}] /\ g[t \ {y}] = f[p] + g[(t \ {y}) \ {p}]
    <3>1. y \in t \ {p} /\ p \in t \ {y} /\ t \ {p} \in SUBSET S /\ t \ {y} \in SUBSET S
      BY <2>3, <2>4, <2>6
    <3> HIDE DEF p
    <3> QED BY <2>5, <3>1
  <2>8. (t \ {p}) \ {y} = (t \ {y}) \ {p} /\ (t \ {p}) \ {y} \in SUBSET S
    OBVIOUS
  <2>9. f[p] \in Int /\ f[y] \in Int /\ g[(t \ {p}) \ {y}] \in Int
    BY <1>2, <2>3, <2>4, <2>8
  <2> DEFINE z == g[(t \ {p}) \ {y}]
  <2>10. g[t] = f[p] + (f[y] + z) /\ g[t \ {y}] = f[p] + z
    BY <2>4, <2>7, <2>8
  <2> HIDE DEF p, z
  <2> QED BY <2>3, <2>9, <2>10 DEF z
<1> QED BY <1>3, <1>4
(* Only one element differs.                                               *)
LEMMA SumChange ==
  ASSUME NEW S, IsFiniteSet(S), NEW x \in S, NEW f, NEW h,
         \A y \in S : f[y] \in Int /\ h[y] \in Int, \A y \in S \ {x} : h[y] = f[y]
  PROVE  SumFunctionOnSet(h, S) = SumFunctionOnSet(f, S) + h[x] - f[x]
<1>1. IsFiniteSet(S \ {x})
  BY FS_RemoveElement
<1>2. SumFunctionOnSet(h, S \ {x}) = SumFunctionOnSet(f, S \ {x})
  BY <1>1, SumAgrees
<1>3. SumFunctionOnSet(f, S \ {x}) \in Int
  BY <1>1, SumInt
<1>4. /\ SumFunctionOnSet(f, S) = f[x] + SumFunctionOnSet(f, S \ {x})
      /\ SumFunctionOnSet(h, S) = h[x] + SumFunctionOnSet(h, S \ {x})
  BY SumRemove
<1> QED BY <1>2, <1>3, <1>4

(* One element more.                                                       *)
LEMMA SumAdd ==
  ASSUME NEW S, IsFiniteSet(S), NEW x, x \notin S, NEW f, \A y \in S \cup {x} : f[y] \in Int
  PROVE  SumFunctionOnSet(f, S \cup {x}) = SumFunctionOnSet(f, S) + f[x]
<1>1. IsFiniteSet(S \cup {x}) /\ (S \cup {x}) \ {x} = S /\ x \in S \cup {x}
  BY FS_AddElement
<1>2. SumFunctionOnSet(f, S \cup {x}) = f[x] + SumFunctionOnSet(f, S)
  <2> DEFINE U == S \cup {x}
  <2>1. SumFunctionOnSet(f, U) = f[x] + SumFunctionOnSet(f, U \ {x})
    <3> HIDE DEF U
    <3> QED BY <1>1, SumRemove DEF U
  <2> QED BY <1>1, <2>1
<1>3. SumFunctionOnSet(f, S) \in Int /\ f[x] \in Int
  BY SumInt
<1> QED BY <1>2, <1>3

(* Sums of sums, element by element.                                       *)
LEMMA SumPlus ==
  ASSUME NEW S, IsFiniteSet(S), NEW f, NEW g, NEW h,
         \A x \in S : f[x] \in Int /\ g[x] \in Int /\ h[x] = f[x] + g[x]
  PROVE  SumFunctionOnSet(h, S) = SumFunctionOnSet(f, S) + SumFunctionOnSet(g, S)
<1> DEFINE G == {t \in SUBSET S : SumFunctionOnSet(h, t) = SumFunctionOnSet(f, t) + SumFunctionOnSet(g, t)}
<1>1. {} \in G
  BY SumEmpty
<1>2. ASSUME NEW t \in SUBSET S, NEW x \in t, t \ {x} \in G PROVE t \in G
  <2>1. IsFiniteSet(t) /\ IsFiniteSet(t \ {x})
    BY FS_Subset, FS_RemoveElement
  <2>2. \A y \in t : f[y] \in Int /\ g[y] \in Int /\ h[y] \in Int /\ h[y] = f[y] + g[y]
    OBVIOUS
  <2>3. SumFunctionOnSet(f, t \ {x}) \in Int /\ SumFunctionOnSet(g, t \ {x}) \in Int
    BY <2>1, <2>2, SumInt
  <2>4. /\ SumFunctionOnSet(f, t) = f[x] + SumFunctionOnSet(f, t \ {x})
        /\ SumFunctionOnSet(g, t) = g[x] + SumFunctionOnSet(g, t \ {x})
        /\ SumFunctionOnSet(h, t) = h[x] + SumFunctionOnSet(h, t \ {x})
    BY <2>1, <2>2, SumRemove
  <2> QED BY <1>2, <2>2, <2>3, <2>4
<1> HIDE DEF G
<1>3. S \in G
  BY <1>1, <1>2, Induct
<1> QED BY <1>3 DEF G

(* Elements that count nothing may be left out.                            *)
LEMMA SumPart ==
  ASSUME NEW S, IsFiniteSet(S), NEW A \in SUBSET S, NEW f, \A x \in S : f[x] \in Int,
         \A x \in S \ A : f[x] = 0
  PROVE  SumFunctionOnSet(f, A) = SumFunctionOnSet(f, S)
<1> DEFINE G == {t \in SUBSET S : SumFunctionOnSet(f, t \cap A) = SumFunctionOnSet(f, t)}
<1>1. {} \in G
  BY SumEmpty
<1>2. ASSUME NEW t \in SUBSET S, NEW x \in t, t \ {x} \in G PROVE t \in G
  <2>1. IsFiniteSet(t) /\ IsFiniteSet(t \cap A) /\ IsFiniteSet(t \ {x})
    BY FS_Subset, FS_RemoveElement
  <2>2. SumFunctionOnSet(f, t) = f[x] + SumFunctionOnSet(f, t \ {x}) /\ SumFunctionOnSet(f, t \ {x}) \in Int
    BY <2>1, SumRemove, SumInt
  <2>3. CASE x \in A
    <3>1. x \in t \cap A /\ (t \cap A) \ {x} = (t \ {x}) \cap A
      BY <2>3
    <3>2. SumFunctionOnSet(f, t \cap A) = f[x] + SumFunctionOnSet(f, (t \cap A) \ {x})
      BY <2>1, <3>1, SumRemove
    <3> QED BY <1>2, <2>2, <3>1, <3>2
  <2>4. CASE x \notin A
    <3>1. t \cap A = (t \ {x}) \cap A /\ f[x] = 0
      BY <2>4
    <3>2. SumFunctionOnSet(f, t \cap A) = SumFunctionOnSet(f, t \ {x})
      BY <1>2, <3>1
    <3>3. SumFunctionOnSet(f, t) = SumFunctionOnSet(f, t \ {x})
      BY <2>2, <3>1
    <3> QED BY <3>2, <3>3
  <2> QED BY <2>3, <2>4
<1> HIDE DEF G
<1>3. S \in G
  BY <1>1, <1>2, Induct
<1>4. S \cap A = A
  OBVIOUS
<1> QED BY <1>3, <1>4 DEF G

(* Naturals add up to a natural.                                           *)
LEMMA SumNat ==
  ASSUME NEW S, IsFiniteSet(S), NEW f, \A x \in S : f[x] \in Nat
  PROVE  SumFunctionOnSet(f, S) \in Nat
<1> DEFINE G == {t \in SUBSET S : SumFunctionOnSet(f, t) \in Nat}
<1>1. {} \in G
  BY SumEmpty
<1>2. ASSUME NEW t \in SUBSET S, NEW x \in t, t \ {x} \in G PROVE t \in G
  <2>1. IsFiniteSet(t) /\ \A y \in t : f[y] \in Int
    BY FS_Subset
  <2>2. SumFunctionOnSet(f, t) = f[x] + SumFunctionOnSet(f, t \ {x})
    BY <2>1, SumRemove
  <2> QED BY <1>2, <2>2
<1> HIDE DEF G
<1>3. S \in G
  BY <1>1, <1>2, Induct
<1> QED BY <1>3 DEF G

(* Disjoint sets.                                                          *)
LEMMA SumUnion ==
  ASSUME NEW A, NEW B, IsFiniteSet(A), IsFiniteSet(B), A \cap B = {}, NEW f,
         \A x \in A \cup B : f[x] \in Int
  PROVE  SumFunctionOnSet(f, A \cup B) = SumFunctionOnSet(f, A) + SumFunctionOnSet(f, B)
<1> DEFINE S == A \cup B
           g == [x \in S |-> IF x \in A THEN f[x] ELSE 0]
           h == [x \in S |-> IF x \in B THEN f[x] ELSE 0]
<1>1. IsFiniteSet(S) /\ A \in SUBSET S /\ B \in SUBSET S
  BY FS_Union
<1>2. \A x \in S : g[x] \in Int /\ h[x] \in Int /\ f[x] = g[x] + h[x]
  OBVIOUS
<1>3. /\ \A x \in S \ A : g[x] = 0
      /\ \A x \in S \ B : h[x] = 0
      /\ \A x \in A : g[x] = f[x]
      /\ \A x \in B : h[x] = f[x]
  OBVIOUS
<1> HIDE DEF S, g, h
<1>4. SumFunctionOnSet(f, S) = SumFunctionOnSet(g, S) + SumFunctionOnSet(h, S)
  BY <1>1, <1>2, SumPlus
<1>5. SumFunctionOnSet(g, S) = SumFunctionOnSet(g, A) /\ SumFunctionOnSet(h, S) = SumFunctionOnSet(h, B)
  BY <1>1, <1>2, <1>3, SumPart
<1>6. SumFunctionOnSet(g, A) = SumFunctionOnSet(f, A) /\ SumFunctionOnSet(h, B) = SumFunctionOnSet(f, B)
  BY <1>3, SumAgrees
<1> QED BY <1>4, <1>5, <1>6 DEF S

(* Terms that are all the same.                                            *)
LEMMA SumConst ==
  ASSUME NEW S, IsFiniteSet(S), NEW q \in Int, NEW f, \A x \in S : f[x] = q
  PROVE  SumFunctionOnSet(f, S) = q * Cardinality(S)
<1> DEFINE G == {t \in SUBSET S : SumFunctionOnSet(f, t) = q * Cardinality(t)}
<1>1. {} \in G
  BY SumEmpty, FS_EmptySet
<1>2. ASSUME NEW t \in SUBSET S, NEW x \in t, t \ {x} \in G PROVE t \in G
  <2>1. IsFiniteSet(t)
    BY FS_Subset
  <2>2. SumFunctionOnSet(f, t) = f[x] + SumFunctionOnSet(f, t \ {x})
    BY <2>1, SumRemove
  <2>3. Cardinality(t) \in Nat /\ Cardinality(t \ {x}) = Cardinality(t) - 1
    BY <2>1, FS_RemoveElement, FS_CardinalityType
  <2>4. SumFunctionOnSet(f, t \ {x}) = q * (Cardinality(t) - 1) /\ f[x] = q
    BY <1>2, <2>3
  <2>5. \A k \in Nat : q + q * (k - 1) = q * k
    OBVIOUS
  <2>6. SumFunctionOnSet(f, t) = q * Cardinality(t)
    BY <2>2, <2>3, <2>4, <2>5
  <2> QED BY <2>6
<1> HIDE DEF G
<1>3. S \in G
  BY <1>1, <1>2, Induct
<1> QED BY <1>3 DEF G

(* The same terms, indexed another way: e takes every index of S to one of *)
(* its own.                                                                *)
LEMMA SumIndexed ==
  ASSUME NEW S, IsFiniteSet(S), NEW e, \A x, y \in S : e[x] = e[y] => x = y,
         NEW f, NEW h, \A x \in S : f[x] \in Int /\ h[e[x]] = f[x]
  PROVE  SumFunctionOnSet(h, {e[x] : x \in S}) = SumFunctionOnSet(f, S)
<1> DEFINE At(t) == {e[x] : x \in t}
           G == {t \in SUBSET S : IsFiniteSet(At(t)) /\ SumFunctionOnSet(h, At(t)) = SumFunctionOnSet(f, t)}
<1>1. {} \in G
  <2>1. At({}) = {}
    OBVIOUS
  <2> QED BY <2>1, SumEmpty, FS_EmptySet
<1>2. ASSUME NEW t \in SUBSET S, NEW x \in t, t \ {x} \in G PROVE t \in G
  <2> DEFINE A == At(t \ {x})
  <2> PICK z : z = e[x]
    OBVIOUS
  <2>1. At(t) = A \cup {z}
    OBVIOUS
  <2>2. z \notin A
    OBVIOUS
  <2>3. IsFiniteSet(A) /\ SumFunctionOnSet(h, A) = SumFunctionOnSet(f, t \ {x})
    BY <1>2
  <2>4. \A y \in A \cup {z} : h[y] \in Int
    OBVIOUS
  <2>5. IsFiniteSet(t) /\ \A y \in t : f[y] \in Int
    BY FS_Subset
  <2> HIDE DEF A
  <2>6. IsFiniteSet(A \cup {z})
    BY <2>3, FS_AddElement
  <2>7. SumFunctionOnSet(h, A \cup {z}) = SumFunctionOnSet(h, A) + h[z]
    BY <2>2, <2>3, <2>4, SumAdd
  <2>8. SumFunctionOnSet(f, t) = f[x] + SumFunctionOnSet(f, t \ {x}) /\ h[z] = f[x] /\ f[x] \in Int
    BY <2>5, SumRemove
  <2>9. SumFunctionOnSet(h, A) \in Int
    BY <2>3, <2>4, SumInt
  <2>10. SumFunctionOnSet(h, A \cup {z}) = SumFunctionOnSet(f, t)
    BY <2>3, <2>7, <2>8, <2>9
  <2> QED BY <2>1, <2>6, <2>10
<1> HIDE DEF G
<1>3. S \in G
  BY <1>1, <1>2, Induct
<1> QED BY <1>3 DEF G
=============================================================================
