----------------------------- MODULE FiniteSums -----------------------------
(***************************************************************************)
(* What SumFunctionOnSet of the community module Functions computes on a   *)
(* finite set: the accounting proofs add and remove one transaction at a   *)
(* time. Every proof takes a smallest set that would be a counterexample.  *)
(***************************************************************************)
EXTENDS Integers, Functions, FiniteSetTheorems, WellFoundedInduction, TLAPS

\* The element a fold takes next.
Pick(s) == CHOOSE x \in s : TRUE

\* g is the function the fold of f over S recurses with.
IsFold(g, f, S) ==
    g = [s \in SUBSET S |-> IF s = {} THEN 0 ELSE f[Pick(s)] + g[s \ {Pick(s)}]]

FoldOf(f, S) == CHOOSE g : IsFold(g, f, S)

LEMMA SumIsFold ==
    ASSUME NEW S, NEW f
    PROVE  SumFunctionOnSet(f, S) = FoldOf(f, S)[S]
BY Zenon DEF SumFunctionOnSet, FoldFunctionOnSet, MapThenFoldSet, FoldOf, IsFold, Pick

LEMMA PickIn == ASSUME NEW s, s # {} PROVE Pick(s) \in s
BY DEF Pick

LEMMA SmallestSet ==
    ASSUME NEW S, IsFiniteSet(S), NEW T \in SUBSET (SUBSET S), T # {}
    PROVE  \E s \in T : \A t \in T : t \subseteq s => t = s
<1>1. IsWellFoundedOn(StrictSubsetOrdering(S), SUBSET S)
  BY FS_StrictSubsetOrderingWellFounded, FS_FiniteSubsetsOfFinite
<1>2. \E s \in T : \A t \in T : ~ (<<t, s>> \in StrictSubsetOrdering(S))
  BY <1>1, WFMin
<1> QED
  BY <1>2 DEF StrictSubsetOrdering

LEMMA FoldValue ==
    ASSUME NEW S, NEW f, NEW g, IsFold(g, f, S), NEW s \in SUBSET S
    PROVE  g[s] = IF s = {} THEN 0 ELSE f[Pick(s)] + g[s \ {Pick(s)}]
<1> DEFINE F == [q \in SUBSET S |-> IF q = {} THEN 0 ELSE f[Pick(q)] + g[q \ {Pick(q)}]]
<1>1. g = F
  BY DEF IsFold
<1>2. F[s] = IF s = {} THEN 0 ELSE f[Pick(s)] + g[s \ {Pick(s)}]
  OBVIOUS
<1> HIDE DEF F
<1> QED
  BY <1>1, <1>2

LEMMA FoldsAgree ==
    ASSUME NEW S, NEW R, IsFiniteSet(S), NEW f, NEW g, NEW h,
           IsFold(g, f, S), IsFold(h, f, R)
    PROVE  \A s \in SUBSET (S \intersect R) : g[s] = h[s]
<1> DEFINE T == {s \in SUBSET (S \intersect R) : g[s] # h[s]}
<1> SUFFICES ASSUME T # {} PROVE FALSE
  OBVIOUS
<1>1. T \in SUBSET (SUBSET S)
  OBVIOUS
<1>2. PICK s \in T : \A t \in T : t \subseteq s => t = s
  <2> HIDE DEF T
  <2> QED
    BY <1>1, SmallestSet
<1>3. s # {}
  BY <1>2, FoldValue
<1>4. Pick(s) \in s
  BY <1>3, PickIn
<1> DEFINE t == s \ {Pick(s)}
<1>5. t \in SUBSET (S \intersect R) /\ t # s /\ t \subseteq s
  BY <1>4
<1>6. g[t] = h[t]
  BY <1>2, <1>5
<1>7. g[s] = f[Pick(s)] + g[t] /\ h[s] = f[Pick(s)] + h[t]
  BY <1>2, <1>3, FoldValue
<1> QED
  BY <1>2, <1>6, <1>7

LEMMA FoldExists ==
    ASSUME NEW S, IsFiniteSet(S), NEW f
    PROVE  IsFold(FoldOf(f, S), f, S)
<1> DEFINE T == {s \in SUBSET S : ~ \E g : IsFold(g, f, s)}
<1>1. ASSUME T # {} PROVE FALSE
  <2>1. PICK s \in T : \A t \in T : t \subseteq s => t = s
    <3>1. T \in SUBSET (SUBSET S)
      OBVIOUS
    <3> HIDE DEF T
    <3> QED
      BY <1>1, <3>1, SmallestSet
  <2> DEFINE G == [q \in SUBSET s |->
                      IF q = {} THEN 0
                      ELSE f[Pick(q)] + FoldOf(f, q \ {Pick(q)})[q \ {Pick(q)}]]
  <2>2. ASSUME NEW r \in SUBSET s, r # s PROVE IsFold(FoldOf(f, r), f, r) /\ IsFiniteSet(r)
    <3>1. r \in SUBSET S /\ r \notin T
      BY <2>1, <2>2
    <3>2. \E g : IsFold(g, f, r)
      BY <3>1
    <3> QED
      BY <3>1, <3>2, FS_Subset DEF FoldOf
  <2>3. ASSUME NEW r \in SUBSET s, r # s PROVE G[r] = FoldOf(f, r)[r]
    <3>1. CASE r = {}
      BY <2>2, <2>3, <3>1, FoldValue
    <3>2. CASE r # {}
      <4> DEFINE t == r \ {Pick(r)}
      <4>1. Pick(r) \in r
        BY <3>2, PickIn
      <4>2. t \in SUBSET s /\ t # s /\ t \in SUBSET (r \intersect t)
        BY <4>1, <2>3
      <4>3. G[r] = f[Pick(r)] + FoldOf(f, t)[t]
        BY <3>2
      <4>4. FoldOf(f, r)[r] = f[Pick(r)] + FoldOf(f, r)[t]
        BY <2>2, <2>3, <3>2, FoldValue
      <4>5. FoldOf(f, r)[t] = FoldOf(f, t)[t]
        <5>1. IsFold(FoldOf(f, t), f, t) /\ IsFold(FoldOf(f, r), f, r) /\ IsFiniteSet(r)
          BY <2>2, <2>3, <4>2
        <5> HIDE DEF t
        <5> QED
          BY <5>1, <4>2, FoldsAgree
      <4> QED
        BY <4>3, <4>4, <4>5
    <3> QED
      BY <3>1, <3>2
  <2>4. \A q \in SUBSET s :
            G[q] = IF q = {} THEN 0 ELSE f[Pick(q)] + G[q \ {Pick(q)}]
    <3> SUFFICES ASSUME NEW q \in SUBSET s, q # {}
                 PROVE  G[q] = f[Pick(q)] + G[q \ {Pick(q)}]
      OBVIOUS
    <3>1. q \ {Pick(q)} \in SUBSET s /\ q \ {Pick(q)} # s
      BY PickIn
    <3>2. G[q \ {Pick(q)}] = FoldOf(f, q \ {Pick(q)})[q \ {Pick(q)}]
      BY <3>1, <2>3
    <3>3. G[q] = f[Pick(q)] + FoldOf(f, q \ {Pick(q)})[q \ {Pick(q)}]
      OBVIOUS
    <3> QED
      BY <3>2, <3>3
  <2>5. IsFold(G, f, s)
    <3>1. G = [q \in SUBSET s |-> G[q]]
      OBVIOUS
    <3> HIDE DEF G
    <3> QED
      BY <2>4, <3>1 DEF IsFold
  <2> QED
    BY <2>1, <2>5
<1>2. \E g : IsFold(g, f, S)
  BY <1>1
<1> QED
  BY <1>2 DEF FoldOf

\* An empty sum is 0.
LEMMA SumEmpty == ASSUME NEW f PROVE SumFunctionOnSet(f, {}) = 0
<1>1. IsFold(FoldOf(f, {}), f, {})
  BY FoldExists, FS_EmptySet
<1>2. FoldOf(f, {})[{}] = 0
  BY <1>1, FoldValue
<1> QED
  BY <1>2, SumIsFold

LEMMA SumPick ==
    ASSUME NEW S, IsFiniteSet(S), S # {}, NEW f
    PROVE  SumFunctionOnSet(f, S) = f[Pick(S)] + SumFunctionOnSet(f, S \ {Pick(S)})
<1> DEFINE R == S \ {Pick(S)}
<1>1. IsFiniteSet(R) /\ R \in SUBSET (S \intersect R)
  BY FS_Subset
<1>2. IsFold(FoldOf(f, S), f, S) /\ IsFold(FoldOf(f, R), f, R)
  BY <1>1, FoldExists
<1>3. FoldOf(f, S)[S] = f[Pick(S)] + FoldOf(f, S)[R]
  BY <1>2, FoldValue
<1>4. FoldOf(f, S)[R] = FoldOf(f, R)[R]
  <2> HIDE DEF R
  <2> QED
    BY <1>1, <1>2, FoldsAgree
<1> QED
  BY <1>3, <1>4, SumIsFold

\* A sum of integers is an integer, and of naturals a natural.
LEMMA SumType ==
    ASSUME NEW S, IsFiniteSet(S), NEW f, \A x \in S : f[x] \in Int
    PROVE  /\ SumFunctionOnSet(f, S) \in Int
           /\ (\A x \in S : f[x] \in Nat) => SumFunctionOnSet(f, S) \in Nat
<1> DEFINE OK(s) == /\ SumFunctionOnSet(f, s) \in Int
                    /\ (\A x \in S : f[x] \in Nat) => SumFunctionOnSet(f, s) \in Nat
           T == {s \in SUBSET S : ~ OK(s)}
<1>1. ASSUME T # {} PROVE FALSE
  <2>1. PICK s \in T : \A t \in T : t \subseteq s => t = s
    <3>1. T \in SUBSET (SUBSET S)
      OBVIOUS
    <3> HIDE DEF T
    <3> QED
      BY <1>1, <3>1, SmallestSet
  <2>2. s # {}
    <3>1. OK({})
      BY SumEmpty
    <3> QED
      BY <2>1, <3>1
  <2>3. Pick(s) \in s /\ IsFiniteSet(s)
    BY <2>1, <2>2, PickIn, FS_Subset
  <2>4. OK(s \ {Pick(s)})
    BY <2>1, <2>3
  <2>5. SumFunctionOnSet(f, s) = f[Pick(s)] + SumFunctionOnSet(f, s \ {Pick(s)})
    BY <2>2, <2>3, SumPick
  <2>6. Pick(s) \in S
    BY <2>1, <2>3
  <2> QED
    BY <2>1, <2>4, <2>5, <2>6
<1>2. S \in SUBSET S /\ S \notin T
  BY <1>1
<1> QED
  BY <1>2

\* Any element can be taken out of a sum first.
LEMMA SumRemove ==
    ASSUME NEW S, IsFiniteSet(S), NEW f, \A x \in S : f[x] \in Int, NEW a \in S
    PROVE  SumFunctionOnSet(f, S) = f[a] + SumFunctionOnSet(f, S \ {a})
<1> DEFINE OK(s) == \A x \in s : SumFunctionOnSet(f, s) = f[x] + SumFunctionOnSet(f, s \ {x})
           T == {s \in SUBSET S : ~ OK(s)}
<1>1. ASSUME T # {} PROVE FALSE
  <2>1. PICK s \in T : \A t \in T : t \subseteq s => t = s
    <3>1. T \in SUBSET (SUBSET S)
      OBVIOUS
    <3> HIDE DEF T
    <3> QED
      BY <1>1, <3>1, SmallestSet
  <2>2. PICK x \in s : SumFunctionOnSet(f, s) # f[x] + SumFunctionOnSet(f, s \ {x})
    BY <2>1
  <2>3. PICK p : p = Pick(s)
    OBVIOUS
  <2>4. p \in s /\ IsFiniteSet(s)
    BY <2>1, <2>2, <2>3, PickIn, FS_Subset
  <2>5. SumFunctionOnSet(f, s) = f[p] + SumFunctionOnSet(f, s \ {p})
    BY <2>2, <2>3, <2>4, SumPick
  <2>6. x # p
    BY <2>2, <2>5
  <2>7. OK(s \ {p}) /\ OK(s \ {x})
    BY <2>1, <2>2, <2>4
  <2>8. SumFunctionOnSet(f, s \ {p}) = f[x] + SumFunctionOnSet(f, (s \ {p}) \ {x})
    BY <2>2, <2>6, <2>7
  <2>9. SumFunctionOnSet(f, s \ {x}) = f[p] + SumFunctionOnSet(f, (s \ {x}) \ {p})
    BY <2>4, <2>6, <2>7
  <2>10. (s \ {x}) \ {p} = (s \ {p}) \ {x}
    OBVIOUS
  <2>11. SumFunctionOnSet(f, (s \ {p}) \ {x}) \in Int
    <3>1. IsFiniteSet((s \ {p}) \ {x}) /\ \A y \in (s \ {p}) \ {x} : f[y] \in Int
      BY <2>1, <2>4, FS_Subset
    <3> QED
      BY <3>1, SumType
  <2>12. f[x] \in Int /\ f[p] \in Int
    BY <2>1, <2>2, <2>4
  <2>13. SumFunctionOnSet(f, s \ {x}) = f[p] + SumFunctionOnSet(f, (s \ {p}) \ {x})
    BY <2>9, <2>10
  <2> QED
    BY <2>2, <2>5, <2>8, <2>11, <2>12, <2>13
<1>2. S \in SUBSET S /\ S \notin T
  BY <1>1
<1> QED
  BY <1>2

\* A sum depends on nothing but the values it adds.
LEMMA SumEqual ==
    ASSUME NEW S, IsFiniteSet(S), NEW f, NEW g, \A x \in S : f[x] = g[x]
    PROVE  SumFunctionOnSet(f, S) = SumFunctionOnSet(g, S)
<1> DEFINE T == {s \in SUBSET S : SumFunctionOnSet(f, s) # SumFunctionOnSet(g, s)}
<1>1. ASSUME T # {} PROVE FALSE
  <2>1. PICK s \in T : \A t \in T : t \subseteq s => t = s
    <3>1. T \in SUBSET (SUBSET S)
      OBVIOUS
    <3> HIDE DEF T
    <3> QED
      BY <1>1, <3>1, SmallestSet
  <2>2. s # {}
    BY <2>1, SumEmpty
  <2>3. Pick(s) \in s /\ IsFiniteSet(s)
    BY <2>1, <2>2, PickIn, FS_Subset
  <2>4. /\ SumFunctionOnSet(f, s) = f[Pick(s)] + SumFunctionOnSet(f, s \ {Pick(s)})
        /\ SumFunctionOnSet(g, s) = g[Pick(s)] + SumFunctionOnSet(g, s \ {Pick(s)})
    BY <2>2, <2>3, SumPick
  <2>5. SumFunctionOnSet(f, s \ {Pick(s)}) = SumFunctionOnSet(g, s \ {Pick(s)})
    BY <2>1, <2>3
  <2>6. f[Pick(s)] = g[Pick(s)]
    BY <2>1, <2>3
  <2> QED
    BY <2>1, <2>4, <2>5, <2>6
<1>2. S \in SUBSET S /\ S \notin T
  BY <1>1
<1> QED
  BY <1>2

\* A sum over one more element.
LEMMA SumAdd ==
    ASSUME NEW S, IsFiniteSet(S), NEW a, a \notin S, NEW f,
           \A x \in S : f[x] \in Int, f[a] \in Int
    PROVE  SumFunctionOnSet(f, S \union {a}) = f[a] + SumFunctionOnSet(f, S)
<1>1. IsFiniteSet(S \union {a}) /\ (S \union {a}) \ {a} = S /\ \A x \in S \union {a} : f[x] \in Int
  BY FS_AddElement
<1>2. SumFunctionOnSet(f, S \union {a}) = f[a] + SumFunctionOnSet(f, (S \union {a}) \ {a})
  BY <1>1, SumRemove
<1> QED
  BY <1>1, <1>2

\* Two sums that differ at one element only, by its presence or by its value.
LEMMA SumChange ==
    ASSUME NEW D, NEW E, NEW a, IsFiniteSet(D), D \ {a} = E \ {a}, NEW f, NEW g,
           \A x \in D : f[x] \in Int, \A x \in E : g[x] \in Int,
           \A x \in D \ {a} : f[x] = g[x]
    PROVE  /\ IsFiniteSet(E)
           /\ SumFunctionOnSet(f, D) \in Int
           /\ SumFunctionOnSet(g, E) =
                 SumFunctionOnSet(f, D) - (IF a \in D THEN f[a] ELSE 0)
                                        + (IF a \in E THEN g[a] ELSE 0)
<1>1. PICK R : R = D \ {a} /\ R = E \ {a}
  OBVIOUS
<1>2. IsFiniteSet(R) /\ \A x \in R : f[x] = g[x] /\ f[x] \in Int /\ g[x] \in Int
  BY <1>1, FS_Subset
<1>3. IsFiniteSet(E)
  <2>1. IsFiniteSet(R \union {a}) /\ E \subseteq R \union {a}
    BY <1>1, <1>2, FS_AddElement
  <2> QED
    BY <2>1, FS_Subset
<1>4. SumFunctionOnSet(f, R) = SumFunctionOnSet(g, R) /\ SumFunctionOnSet(f, R) \in Int
  BY <1>2, SumEqual, SumType
<1>5. SumFunctionOnSet(f, D) = SumFunctionOnSet(f, R) + (IF a \in D THEN f[a] ELSE 0)
  <2>1. CASE a \in D
    <3>1. SumFunctionOnSet(f, D) = f[a] + SumFunctionOnSet(f, D \ {a})
      BY <2>1, SumRemove
    <3>2. SumFunctionOnSet(f, D \ {a}) = SumFunctionOnSet(f, R)
      BY <1>1, Zenon
    <3>3. f[a] \in Int
      BY <2>1
    <3> QED
      BY <1>4, <2>1, <3>1, <3>2, <3>3
  <2>2. CASE a \notin D
    <3>1. D = R
      BY <1>1, <2>2
    <3>2. SumFunctionOnSet(f, D) = SumFunctionOnSet(f, R)
      BY <3>1, Zenon
    <3> QED
      BY <1>4, <2>2, <3>2
  <2> QED
    BY <2>1, <2>2
<1>6. SumFunctionOnSet(g, E) = SumFunctionOnSet(g, R) + (IF a \in E THEN g[a] ELSE 0)
  <2>1. CASE a \in E
    <3>1. SumFunctionOnSet(g, E) = g[a] + SumFunctionOnSet(g, E \ {a})
      BY <1>3, <2>1, SumRemove
    <3>2. SumFunctionOnSet(g, E \ {a}) = SumFunctionOnSet(g, R)
      BY <1>1, Zenon
    <3>3. g[a] \in Int
      BY <2>1
    <3> QED
      BY <1>4, <2>1, <3>1, <3>2, <3>3
  <2>2. CASE a \notin E
    <3>1. E = R
      BY <1>1, <2>2
    <3>2. SumFunctionOnSet(g, E) = SumFunctionOnSet(g, R)
      BY <3>1, Zenon
    <3> QED
      BY <1>4, <2>2, <3>2
  <2> QED
    BY <2>1, <2>2
<1> QED
  BY <1>3, <1>4, <1>5, <1>6

\* The sum of a sequence of at most two numbers.
LEMMA SumOfShort ==
    ASSUME NEW f
    PROVE  /\ DOMAIN f = {} => SumFunction(f) = 0
           /\ DOMAIN f = {1} /\ f[1] \in Int => SumFunction(f) = f[1]
           /\ DOMAIN f = {1, 2} /\ f[1] \in Int /\ f[2] \in Int => SumFunction(f) = f[1] + f[2]
<1>1. SumFunctionOnSet(f, {}) = 0
  BY SumEmpty
<1>2. ASSUME f[1] \in Int PROVE SumFunctionOnSet(f, {1}) = f[1]
  <2>1. SumFunctionOnSet(f, {} \union {1}) = f[1] + SumFunctionOnSet(f, {})
    BY <1>2, SumAdd, FS_EmptySet
  <2>2. {} \union {1} = {1}
    OBVIOUS
  <2> QED
    BY <1>1, <1>2, <2>1, <2>2
<1>3. ASSUME f[1] \in Int, f[2] \in Int PROVE SumFunctionOnSet(f, {1, 2}) = f[1] + f[2]
  <2>1. IsFiniteSet({1}) /\ {1} \union {2} = {1, 2}
    BY FS_Singleton
  <2>2. SumFunctionOnSet(f, {1} \union {2}) = f[2] + SumFunctionOnSet(f, {1})
    BY <1>3, <2>1, SumAdd
  <2>3. SumFunctionOnSet(f, {1} \union {2}) = SumFunctionOnSet(f, {1, 2})
    BY <2>1, Zenon
  <2>4. SumFunctionOnSet(f, {1}) = f[1]
    BY <1>2, <1>3
  <2>5. SumFunctionOnSet(f, {1, 2}) = f[2] + f[1]
    BY <2>2, <2>3, <2>4, Zenon
  <2> QED
    BY <1>3, <2>5
<1> QED
  BY <1>1, <1>2, <1>3 DEF SumFunction

\* A sum of naturals is no smaller than any of them.
LEMMA SumBounds ==
    ASSUME NEW S, IsFiniteSet(S), NEW f, \A x \in S : f[x] \in Nat, NEW a \in S
    PROVE  f[a] <= SumFunctionOnSet(f, S)
<1>1. SumFunctionOnSet(f, S) = f[a] + SumFunctionOnSet(f, S \ {a})
  BY SumRemove
<1>2. IsFiniteSet(S \ {a}) /\ \A x \in S \ {a} : f[x] \in Nat
  BY FS_Subset
<1>3. SumFunctionOnSet(f, S \ {a}) \in Nat
  BY <1>2, SumType
<1> QED
  BY <1>1, <1>3

=============================================================================
