----------------------------- MODULE SumsProofs -----------------------------
(***************************************************************************)
(* What the proofs need to know of a sum over a finite set: it satisfies   *)
(* its recursive equation, the order of the summands does not matter, and  *)
(* it grows with them.                                                     *)
(*                                                                         *)
(* Each fact is about all subsets of a finite set.  It is proved by        *)
(* looking at a smallest subset for which it fails (MinimalSubset): the    *)
(* subset is not empty, and the fact holds when one member is left out.    *)
(***************************************************************************)
EXTENDS Sums, FiniteSetTheorems, TLAPS

\* Among the subsets of a finite set that are in W, one is minimal.
LEMMA MinimalSubset ==
    ASSUME NEW S, IsFiniteSet(S), NEW W \in SUBSET (SUBSET S), W # {}
    PROVE  \E T \in W : \A U \in W : U \subseteq T => U = T
<1> DEFINE R == StrictSubsetOrdering(S)
           F == FiniteSubsetsOf(S)
<1>1. IsWellFoundedOn(R, F)
  BY FS_StrictSubsetOrderingWellFounded
<1>2. F = SUBSET S
  BY FS_FiniteSubsetsOfFinite
<1>3. W \subseteq F
  BY <1>2
<1> HIDE DEF F
<1>4. PICK T \in W : \A U \in W : ~(<<U, T>> \in R)
  <2> HIDE DEF R
  <2> QED BY <1>1, <1>3, WFMin
<1>5. ASSUME NEW U \in W, U \subseteq T PROVE U = T
  <2>1. U \in SUBSET S /\ T \in SUBSET S
    OBVIOUS
  <2> QED BY <1>4, <1>5, <2>1 DEF StrictSubsetOrdering
<1> QED BY <1>4, <1>5

-----------------------------------------------------------------------------
(* The recursive equation.                                                 *)

\* The member a sum begins with.
Pick(s) == CHOOSE x \in s : TRUE

\* g gives the sum of every subset of S, one member after the other.
Folding(f, S, g) ==
    g = [s \in SUBSET S |->
           IF s = {} THEN 0 ELSE f[Pick(s)] + g[s \ {Pick(s)}]]

\* The member picked is one of the set.
LEMMA PickIn ==
    ASSUME NEW s, s # {}
    PROVE  Pick(s) \in s
BY DEF Pick

\* The sums of a set and of a subset of it agree on what they both cover.
LEMMA FoldingAgrees ==
    ASSUME NEW f, NEW S, IsFiniteSet(S), NEW T \in SUBSET S,
           NEW g, Folding(f, S, g), NEW h, Folding(f, T, h)
    PROVE  \A s \in SUBSET T : g[s] = h[s]
<1> DEFINE W == {s \in SUBSET T : g[s] # h[s]}
<1>1. SUFFICES ASSUME W # {} PROVE FALSE
  OBVIOUS
<1>2. PICK s \in W : \A u \in W : u \subseteq s => u = s
  <2>1. IsFiniteSet(T)
    BY FS_Subset
  <2>2. W \in SUBSET (SUBSET T)
    OBVIOUS
  <2> HIDE DEF W
  <2> QED BY <1>1, <2>1, <2>2, MinimalSubset
<1>3. /\ g[s] = IF s = {} THEN 0 ELSE f[Pick(s)] + g[s \ {Pick(s)}]
      /\ h[s] = IF s = {} THEN 0 ELSE f[Pick(s)] + h[s \ {Pick(s)}]
  <2>1. s \in SUBSET S /\ s \in SUBSET T
    OBVIOUS
  <2> HIDE DEF W
  <2> QED BY <2>1 DEF Folding
<1>4. s # {}
  BY <1>3
<1>5. s \ {Pick(s)} \in SUBSET T /\ s \ {Pick(s)} # s
  BY <1>4, PickIn
<1>6. g[s \ {Pick(s)}] = h[s \ {Pick(s)}]
  BY <1>2, <1>5
<1> QED BY <1>3, <1>6

\* The definition of the sum, in these terms.
LEMMA SumIsFolding ==
    ASSUME NEW f, NEW S
    PROVE  SumOver(f, S) = (CHOOSE g : Folding(f, S, g))[S]
BY Zenon DEF SumOver, MapThenSumSet, MapThenFoldSet, Folding, Pick

\* Once a function gives the sums of all subsets of S, it gives SumOver.
LEMMA FoldingSum ==
    ASSUME NEW f, NEW S, IsFiniteSet(S), NEW g, Folding(f, S, g), NEW T \in SUBSET S
    PROVE  SumOver(f, T) = g[T]
<1>1. Folding(f, T, [s \in SUBSET T |-> g[s]])
  <2> DEFINE h == [s \in SUBSET T |-> g[s]]
  <2>1. ASSUME NEW s \in SUBSET T
        PROVE  h[s] = IF s = {} THEN 0 ELSE f[Pick(s)] + h[s \ {Pick(s)}]
    <3>1. g[s] = IF s = {} THEN 0 ELSE f[Pick(s)] + g[s \ {Pick(s)}]
      BY DEF Folding
    <3>2. s \ {Pick(s)} \in SUBSET T
      OBVIOUS
    <3> QED BY <3>1, <3>2
  <2>2. h = [s \in SUBSET T |-> IF s = {} THEN 0 ELSE f[Pick(s)] + h[s \ {Pick(s)}]]
    BY <2>1
  <2> QED BY <2>2 DEF Folding
<1> DEFINE h == CHOOSE k : Folding(f, T, k)
<1>2. Folding(f, T, h)
  BY <1>1, Zenon
<1>3. SumOver(f, T) = h[T]
  BY SumIsFolding
<1> HIDE DEF h
<1>4. g[T] = h[T]
  <2>1. T \in SUBSET T
    OBVIOUS
  <2> QED BY <1>2, <2>1, FoldingAgrees
<1> QED BY <1>3, <1>4

\* There is such a function for every finite set.
LEMMA FoldingExists ==
    ASSUME NEW f, NEW S, IsFiniteSet(S)
    PROVE  \E g : Folding(f, S, g)
<1> DEFINE W == {T \in SUBSET S : ~ \E g : Folding(f, T, g)}
<1>1. SUFFICES ASSUME W # {} PROVE FALSE
  BY Zenon
<1>2. PICK T \in W : \A U \in W : U \subseteq T => U = T
  <2>1. W \in SUBSET (SUBSET S)
    OBVIOUS
  <2> HIDE DEF W
  <2> QED BY <1>1, <2>1, MinimalSubset
<1>3. IsFiniteSet(T)
  BY FS_Subset
<1> DEFINE G == [s \in SUBSET T |->
                   IF s = {} THEN 0 ELSE f[Pick(s)] + SumOver(f, s \ {Pick(s)})]
<1>4. ASSUME NEW U \in SUBSET T, U # T
      PROVE  G[U] = SumOver(f, U)
  <2>1. PICK g : Folding(f, U, g)
    BY <1>2, <1>4, Zenon
  <2>2. IsFiniteSet(U)
    BY <1>3, FS_Subset
  <2>3. g[U] = IF U = {} THEN 0 ELSE f[Pick(U)] + g[U \ {Pick(U)}]
    BY <2>1 DEF Folding
  <2>4. SumOver(f, U) = g[U] /\ SumOver(f, U \ {Pick(U)}) = g[U \ {Pick(U)}]
    <3>1. U \in SUBSET U /\ U \ {Pick(U)} \in SUBSET U
      OBVIOUS
    <3> QED BY <2>1, <2>2, <3>1, FoldingSum
  <2> QED BY <2>3, <2>4
<1>5. Folding(f, T, G)
  <2>1. ASSUME NEW s \in SUBSET T
        PROVE  G[s] = IF s = {} THEN 0 ELSE f[Pick(s)] + G[s \ {Pick(s)}]
    <3>1. CASE s = {}
      BY <3>1
    <3>2. CASE s # {}
      <4>1. s \ {Pick(s)} \in SUBSET T /\ s \ {Pick(s)} # T
        BY <3>2, PickIn
      <4>2. G[s \ {Pick(s)}] = SumOver(f, s \ {Pick(s)})
        BY <1>4, <4>1
      <4>3. G[s] = f[Pick(s)] + SumOver(f, s \ {Pick(s)})
        BY <3>2
      <4> HIDE DEF G
      <4> QED BY <3>2, <4>2, <4>3
    <3> QED BY <3>1, <3>2
  <2>2. G = [s \in SUBSET T |-> IF s = {} THEN 0 ELSE f[Pick(s)] + G[s \ {Pick(s)}]]
    BY <2>1
  <2> HIDE DEF G
  <2> QED BY <2>2 DEF Folding
<1> HIDE DEF G
<1> QED BY <1>5, Zenon

\* Nothing adds up to 0.
LEMMA SumEmpty ==
    ASSUME NEW f
    PROVE  SumOver(f, {}) = 0
<1>1. IsFiniteSet({})
  BY FS_EmptySet
<1>2. PICK g : Folding(f, {}, g)
  BY <1>1, FoldingExists
<1>3. g[{}] = 0
  BY <1>2 DEF Folding
<1>4. SumOver(f, {}) = g[{}]
  BY <1>1, <1>2, FoldingSum
<1> QED BY <1>3, <1>4

\* The equation of the sum.
LEMMA SumPick ==
    ASSUME NEW f, NEW S, IsFiniteSet(S), S # {}
    PROVE  SumOver(f, S) = f[Pick(S)] + SumOver(f, S \ {Pick(S)})
<1>1. PICK g : Folding(f, S, g)
  BY FoldingExists
<1>2. g[S] = f[Pick(S)] + g[S \ {Pick(S)}]
  BY <1>1 DEF Folding
<1>3. SumOver(f, S) = g[S] /\ SumOver(f, S \ {Pick(S)}) = g[S \ {Pick(S)}]
  <2>1. S \in SUBSET S /\ S \ {Pick(S)} \in SUBSET S
    OBVIOUS
  <2> QED BY <1>1, <2>1, FoldingSum
<1> QED BY <1>2, <1>3

-----------------------------------------------------------------------------
(* Consequences.                                                           *)

\* Any member may be taken out first: the order does not matter.
LEMMA SumRemove ==
    ASSUME NEW f, NEW S, IsFiniteSet(S), \A x \in S : f[x] \in Int
    PROVE  /\ SumOver(f, S) \in Int
           /\ \A y \in S : SumOver(f, S) = f[y] + SumOver(f, S \ {y})
<1> DEFINE Good(T) == /\ SumOver(f, T) \in Int
                      /\ \A y \in T : SumOver(f, T) = f[y] + SumOver(f, T \ {y})
           W == {T \in SUBSET S : ~Good(T)}
<1>1. SUFFICES ASSUME W # {} PROVE FALSE
  BY Zenon
<1>2. PICK T \in W : \A U \in W : U \subseteq T => U = T
  <2>1. W \in SUBSET (SUBSET S)
    OBVIOUS
  <2> HIDE DEF W
  <2> QED BY <1>1, <2>1, MinimalSubset
<1>3. IsFiniteSet(T) /\ T \in SUBSET S /\ ~Good(T)
  BY FS_Subset
<1>4. ASSUME NEW U \in SUBSET T, U # T PROVE Good(U)
  BY <1>2, <1>4, Zenon
<1> HIDE DEF W
<1>5. T # {}
  <2>1. SumOver(f, {}) = 0
    BY SumEmpty
  <2>2. Good({})
    BY <2>1
  <2> HIDE DEF Good
  <2> QED BY <1>3, <2>2, Zenon
<1> DEFINE p == Pick(T)
<1>6. p \in T
  BY <1>5, PickIn
<1> HIDE DEF p
<1>7. SumOver(f, T) = f[p] + SumOver(f, T \ {p})
  BY <1>3, <1>5, SumPick DEF p
<1>8. Good(T \ {p})
  BY <1>4, <1>6
<1>9. SumOver(f, T) \in Int
  BY <1>3, <1>6, <1>7, <1>8
<1>10. ASSUME NEW y \in T, y # p
       PROVE  SumOver(f, T) = f[y] + SumOver(f, T \ {y})
  <2>1. SumOver(f, T \ {p}) = f[y] + SumOver(f, (T \ {p}) \ {y})
    BY <1>8, <1>10
  <2>2. Good(T \ {y})
    BY <1>4
  <2>3. SumOver(f, T \ {y}) = f[p] + SumOver(f, (T \ {y}) \ {p})
    BY <1>6, <1>10, <2>2
  <2>4. (T \ {y}) \ {p} = (T \ {p}) \ {y}
    OBVIOUS
  <2>5. SumOver(f, (T \ {p}) \ {y}) \in Int
    <3>1. (T \ {p}) \ {y} \in SUBSET T /\ (T \ {p}) \ {y} # T
      BY <1>6
    <3> QED BY <1>4, <3>1
  <2>6. f[p] \in Int /\ f[y] \in Int
    BY <1>3, <1>6
  <2> DEFINE r == SumOver(f, (T \ {p}) \ {y})
  <2>7. SumOver(f, T) = f[p] + (f[y] + r)
    BY <1>7, <2>1, Zenon
  <2>8. SumOver(f, T \ {y}) = f[p] + r
    BY <2>3, <2>4, Zenon
  <2> HIDE DEF r, Good
  <2>9. f[p] + (f[y] + r) = f[y] + (f[p] + r)
    BY <2>5, <2>6 DEF r
  <2> QED BY <2>7, <2>8, <2>9, Zenon
<1> QED BY <1>3, <1>7, <1>9, <1>10

\* Functions that agree on a set have the same sum.
LEMMA SumSame ==
    ASSUME NEW f, NEW h, NEW S, IsFiniteSet(S), \A x \in S : f[x] = h[x]
    PROVE  SumOver(f, S) = SumOver(h, S)
<1> DEFINE W == {T \in SUBSET S : SumOver(f, T) # SumOver(h, T)}
<1>1. SUFFICES ASSUME W # {} PROVE FALSE
  BY Zenon
<1>2. PICK T \in W : \A U \in W : U \subseteq T => U = T
  <2>1. W \in SUBSET (SUBSET S)
    OBVIOUS
  <2> HIDE DEF W
  <2> QED BY <1>1, <2>1, MinimalSubset
<1>3. IsFiniteSet(T) /\ T \in SUBSET S /\ SumOver(f, T) # SumOver(h, T)
  BY FS_Subset
<1>4. T # {}
  BY <1>3, SumEmpty
<1>5. Pick(T) \in T
  BY <1>4, PickIn
<1>6. SumOver(f, T \ {Pick(T)}) = SumOver(h, T \ {Pick(T)})
  BY <1>2, <1>3, <1>5
<1>7. /\ SumOver(f, T) = f[Pick(T)] + SumOver(f, T \ {Pick(T)})
      /\ SumOver(h, T) = h[Pick(T)] + SumOver(h, T \ {Pick(T)})
  BY <1>3, <1>4, SumPick
<1> QED BY <1>3, <1>5, <1>6, <1>7

\* A sum grows with its summands.
LEMMA SumAtMost ==
    ASSUME NEW f, NEW h, NEW S, IsFiniteSet(S),
           \A x \in S : f[x] \in Int /\ h[x] \in Int /\ f[x] <= h[x]
    PROVE  SumOver(f, S) <= SumOver(h, S)
<1> DEFINE W == {T \in SUBSET S : ~(SumOver(f, T) <= SumOver(h, T))}
<1>1. SUFFICES ASSUME W # {} PROVE FALSE
  BY Zenon
<1>2. PICK T \in W : \A U \in W : U \subseteq T => U = T
  <2>1. W \in SUBSET (SUBSET S)
    OBVIOUS
  <2> HIDE DEF W
  <2> QED BY <1>1, <2>1, MinimalSubset
<1>3. IsFiniteSet(T) /\ T \in SUBSET S /\ ~(SumOver(f, T) <= SumOver(h, T))
  BY FS_Subset
<1>4. T # {}
  BY <1>3, SumEmpty
<1>5. Pick(T) \in T
  BY <1>4, PickIn
<1>6. SumOver(f, T \ {Pick(T)}) <= SumOver(h, T \ {Pick(T)})
  BY <1>2, <1>3, <1>5
<1>7. /\ SumOver(f, T) = f[Pick(T)] + SumOver(f, T \ {Pick(T)})
      /\ SumOver(h, T) = h[Pick(T)] + SumOver(h, T \ {Pick(T)})
  BY <1>3, <1>4, SumPick
<1>8. SumOver(f, T \ {Pick(T)}) \in Int /\ SumOver(h, T \ {Pick(T)}) \in Int
  <2>1. IsFiniteSet(T \ {Pick(T)})
    BY <1>3, FS_RemoveElement
  <2> QED BY <1>3, <2>1, SumRemove
<1>9. f[Pick(T)] \in Int /\ h[Pick(T)] \in Int /\ f[Pick(T)] <= h[Pick(T)]
  BY <1>3, <1>5
<1> QED BY <1>3, <1>6, <1>7, <1>8, <1>9

\* A sum of nothing but zeros.
LEMMA SumZero ==
    ASSUME NEW f, NEW S, IsFiniteSet(S), \A x \in S : f[x] = 0
    PROVE  SumOver(f, S) = 0
<1> DEFINE W == {T \in SUBSET S : SumOver(f, T) # 0}
<1>1. SUFFICES ASSUME W # {} PROVE FALSE
  BY Zenon
<1>2. PICK T \in W : \A U \in W : U \subseteq T => U = T
  <2>1. W \in SUBSET (SUBSET S)
    OBVIOUS
  <2> HIDE DEF W
  <2> QED BY <1>1, <2>1, MinimalSubset
<1>3. IsFiniteSet(T) /\ T \in SUBSET S /\ SumOver(f, T) # 0
  BY FS_Subset
<1>4. T # {}
  BY <1>3, SumEmpty
<1>5. Pick(T) \in T
  BY <1>4, PickIn
<1>6. SumOver(f, T \ {Pick(T)}) = 0
  BY <1>2, <1>3, <1>5
<1>7. SumOver(f, T) = f[Pick(T)] + SumOver(f, T \ {Pick(T)})
  BY <1>3, <1>4, SumPick
<1> QED BY <1>3, <1>5, <1>6, <1>7

\* A sum of naturals is one.
LEMMA SumNat ==
    ASSUME NEW f, NEW S, IsFiniteSet(S), \A x \in S : f[x] \in Nat
    PROVE  SumOver(f, S) \in Nat
<1> DEFINE z == [x \in S |-> 0]
<1>1. \A x \in S : z[x] = 0 /\ f[x] \in Int /\ z[x] <= f[x]
  OBVIOUS
<1> HIDE DEF z
<1>2. SumOver(z, S) = 0
  BY <1>1, SumZero
<1>3. SumOver(z, S) <= SumOver(f, S)
  BY <1>1, SumAtMost
<1>4. SumOver(f, S) \in Int
  BY SumRemove
<1> QED BY <1>2, <1>3, <1>4

\* A set may be summed up in two parts.
LEMMA SumSplit ==
    ASSUME NEW f, NEW S, IsFiniteSet(S), \A x \in S : f[x] \in Int, NEW T \in SUBSET S
    PROVE  SumOver(f, S) = SumOver(f, T) + SumOver(f, S \ T)
<1> DEFINE W == {U \in SUBSET S : SumOver(f, S) # SumOver(f, U) + SumOver(f, S \ U)}
<1>1. SUFFICES ASSUME W # {} PROVE FALSE
  BY Zenon
<1>2. PICK V \in W : \A U \in W : U \subseteq V => U = V
  <2>1. W \in SUBSET (SUBSET S)
    OBVIOUS
  <2> HIDE DEF W
  <2> QED BY <1>1, <2>1, MinimalSubset
<1>3. V \in SUBSET S /\ SumOver(f, S) # SumOver(f, V) + SumOver(f, S \ V)
  OBVIOUS
<1>4. V # {}
  <2>1. SumOver(f, {}) = 0 /\ SumOver(f, S) \in Int
    BY SumEmpty, SumRemove
  <2>2. SumOver(f, S) = 0 + SumOver(f, S)
    BY <2>1
  <2>3. S \ {} = S
    OBVIOUS
  <2> QED BY <1>3, <2>1, <2>2, <2>3, Zenon
<1>5. PICK p \in V : TRUE
  BY <1>4
<1>6. SumOver(f, S) = SumOver(f, V \ {p}) + SumOver(f, S \ (V \ {p}))
  BY <1>2, <1>3
<1> HIDE DEF W
<1>7. IsFiniteSet(V) /\ IsFiniteSet(S \ (V \ {p})) /\ IsFiniteSet(V \ {p}) /\ IsFiniteSet(S \ V)
  BY <1>3, FS_Subset
<1>8. SumOver(f, V) = f[p] + SumOver(f, V \ {p})
  BY <1>3, <1>7, SumRemove
<1>9. SumOver(f, S \ (V \ {p})) = f[p] + SumOver(f, S \ V)
  <2>1. (S \ (V \ {p})) \ {p} = S \ V
    OBVIOUS
  <2>2. p \in S \ (V \ {p})
    BY <1>3
  <2>3. SumOver(f, S \ (V \ {p})) = f[p] + SumOver(f, (S \ (V \ {p})) \ {p})
    BY <1>7, <2>2, SumRemove
  <2> QED BY <2>1, <2>3
<1>10. SumOver(f, V \ {p}) \in Int /\ SumOver(f, S \ V) \in Int /\ f[p] \in Int
  BY <1>3, <1>7, SumRemove
<1> QED BY <1>3, <1>6, <1>8, <1>9, <1>10

\* A member more adds its own summand.
LEMMA SumAdd ==
    ASSUME NEW f, NEW S, IsFiniteSet(S), NEW y, y \notin S,
           \A x \in S \cup {y} : f[x] \in Int
    PROVE  SumOver(f, S \cup {y}) = f[y] + SumOver(f, S)
<1>1. IsFiniteSet(S \cup {y})
  BY FS_AddElement
<1>2. (S \cup {y}) \ {y} = S
  OBVIOUS
<1>3. SumOver(f, S \cup {y}) = f[y] + SumOver(f, (S \cup {y}) \ {y})
  BY <1>1, SumRemove
<1> QED BY <1>2, <1>3

\* One member.
LEMMA SumSingle ==
    ASSUME NEW f, NEW y, f[y] \in Int
    PROVE  SumOver(f, {y}) = f[y]
<1>1. IsFiniteSet({}) /\ {} \cup {y} = {y}
  BY FS_EmptySet
<1>2. SumOver(f, {} \cup {y}) = f[y] + SumOver(f, {})
  BY <1>1, SumAdd
<1> QED BY <1>1, <1>2, SumEmpty

\* What one member hands to another stays in the sum.
LEMMA SumTransfer ==
    ASSUME NEW f, NEW h, NEW S, IsFiniteSet(S), \A x \in S : f[x] \in Int /\ h[x] \in Int,
           NEW a \in S, NEW b \in S, a # b, f[a] + f[b] = h[a] + h[b],
           \A x \in S \ {a, b} : f[x] = h[x]
    PROVE  SumOver(f, S) = SumOver(h, S)
<1> DEFINE R == (S \ {a}) \ {b}
<1>1. IsFiniteSet(S \ {a}) /\ IsFiniteSet(R)
  BY FS_RemoveElement
<1>2. SumOver(f, R) = SumOver(h, R)
  <2>1. \A x \in R : f[x] = h[x]
    OBVIOUS
  <2> HIDE DEF R
  <2> QED BY <1>1, <2>1, SumSame
<1>3. /\ SumOver(f, S) = f[a] + SumOver(f, S \ {a})
      /\ SumOver(h, S) = h[a] + SumOver(h, S \ {a})
  BY SumRemove
<1>4. /\ SumOver(f, S \ {a}) = f[b] + SumOver(f, R)
      /\ SumOver(h, S \ {a}) = h[b] + SumOver(h, R)
  BY <1>1, SumRemove
<1>5. SumOver(f, R) \in Int
  BY <1>1, SumRemove
<1> DEFINE r == SumOver(f, R)
<1>6. SumOver(f, S) = f[a] + (f[b] + r) /\ SumOver(h, S) = h[a] + (h[b] + r)
  BY <1>2, <1>3, <1>4, Zenon
<1>7. f[a] + (f[b] + r) = (f[a] + f[b]) + r /\ h[a] + (h[b] + r) = (h[a] + h[b]) + r
  BY <1>5
<1> HIDE DEF r, R
<1> QED BY <1>6, <1>7, Zenon

=============================================================================
