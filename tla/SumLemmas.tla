------------------------------ MODULE SumLemmas ------------------------------
(***************************************************************************)
(* What SumFunctionOnSet of module Functions computes: the sum of f[x]     *)
(* over the elements x of a finite set.  The operator adds the elements in *)
(* the order in which CHOOSE picks them; these lemmas are what makes that  *)
(* order irrelevant.                                                       *)
(*                                                                         *)
(* The induction over finite sets is done with sets instead of operators:  *)
(* a non-empty set of subsets of a finite set has a minimal element        *)
(* (LeastSubset), which is then taken of the set of counterexamples.       *)
(***************************************************************************)
EXTENDS Integers, Functions, FiniteSetTheorems, WellFoundedInduction, TLAPS

(* The element that is added next.                                         *)
Pick(s) == CHOOSE x \in s : TRUE

(* g is the function the definition of the fold recurs over.               *)
IsSum(f, g, S) ==
    g = [s \in SUBSET S |->
            IF s = {} THEN 0 ELSE f[Pick(s)] + g[s \ {Pick(s)}]]

LEMMA PickIn ==
    ASSUME NEW s, s # {}
    PROVE  Pick(s) \in s
BY DEF Pick

LEMMA SumUnfold ==
    ASSUME NEW f, NEW S
    PROVE  SumFunctionOnSet(f, S) = (CHOOSE g : IsSum(f, g, S))[S]
BY DEF SumFunctionOnSet, FoldFunctionOnSet, MapThenFoldSet, IsSum, Pick

LEMMA LeastSubset ==
    ASSUME NEW S, IsFiniteSet(S), NEW T \in SUBSET (SUBSET S), T # {}
    PROVE  \E s \in T : \A u \in SUBSET s : u # s => u \notin T
<1>1. PICK s \in T : \A u \in T : <<u, s>> \notin StrictSubsetOrdering(S)
  BY FS_FiniteSubsetsOfFinite, FS_StrictSubsetOrderingWellFounded, WFMin
<1> QED  BY <1>1 DEF StrictSubsetOrdering

-----------------------------------------------------------------------------
(* The recursion has a solution, and just one.                             *)

LEMMA SumUnique ==
    ASSUME NEW f, NEW S, IsFiniteSet(S), NEW T, NEW g, NEW h,
           IsSum(f, g, S), IsSum(f, h, T),
           NEW u \in SUBSET S, u \in SUBSET T
    PROVE  g[u] = h[u]
<1> DEFINE Bad == {s \in SUBSET S : s \subseteq T /\ g[s] # h[s]}
<1>1. SUFFICES ASSUME Bad # {} PROVE FALSE
  OBVIOUS
<1>2. PICK s \in Bad : \A v \in SUBSET s : v # s => v \notin Bad
  <2> HIDE DEF Bad
  <2>1. Bad \in SUBSET (SUBSET S)
    BY DEF Bad
  <2> QED  BY <1>1, <2>1, LeastSubset
<1>3. s # {} => g[s \ {Pick(s)}] = h[s \ {Pick(s)}]
  <2>1. ASSUME s # {} PROVE s \ {Pick(s)} \notin Bad
    BY <1>2, <2>1, PickIn
  <2> QED  BY <1>2, <2>1
<1>4. /\ g[s] = IF s = {} THEN 0 ELSE f[Pick(s)] + g[s \ {Pick(s)}]
      /\ h[s] = IF s = {} THEN 0 ELSE f[Pick(s)] + h[s \ {Pick(s)}]
  BY <1>2 DEF IsSum
<1> QED  BY <1>2, <1>3, <1>4

LEMMA SumExists ==
    ASSUME NEW f, NEW S, IsFiniteSet(S)
    PROVE  \E g : IsSum(f, g, S)
<1> DEFINE Bad == {s \in SUBSET S : ~ \E g : IsSum(f, g, s)}
<1>1. SUFFICES ASSUME Bad # {} PROVE FALSE
  OBVIOUS
<1>2. PICK s \in Bad : \A v \in SUBSET s : v # s => v \notin Bad
  <2> HIDE DEF Bad
  <2>1. Bad \in SUBSET (SUBSET S)
    BY DEF Bad
  <2> QED  BY <1>1, <2>1, LeastSubset
<1> DEFINE Part(v) == CHOOSE g : IsSum(f, g, v)
           G == [v \in SUBSET s |->
                    IF v = {} THEN 0
                    ELSE f[Pick(v)] + Part(v \ {Pick(v)})[v \ {Pick(v)}]]
<1>3. ASSUME NEW v \in SUBSET s, v # s PROVE IsSum(f, Part(v), v)
  <2>1. \E g : IsSum(f, g, v)
    BY <1>2, <1>3
  <2> QED  BY <2>1
<1>4. ASSUME NEW v \in SUBSET s, v # s PROVE G[v] = Part(v)[v]
  <2>1. CASE v = {}
    <3>1. IsSum(f, Part(v), v)
      BY <1>3, <1>4
    <3>2. Part(v)[v] = 0
      <4> HIDE DEF Part
      <4> QED  BY <2>1, <3>1 DEF IsSum
    <3>3. G[v] = 0
      BY <2>1
    <3> QED  BY <3>2, <3>3
  <2>2. CASE v # {}
    <3> DEFINE w == v \ {Pick(v)}
    <3>1. Pick(v) \in v
      BY <2>2, PickIn
    <3>2. w \in SUBSET s /\ w # s /\ w \in SUBSET v
      BY <1>4, <3>1
    <3>3. IsFiniteSet(v)
      BY <1>2, FS_Subset
    <3>4. IsSum(f, Part(v), v) /\ IsSum(f, Part(w), w)
      <4> HIDE DEF w, Part
      <4> QED  BY <1>3, <1>4, <3>2
    <3>5. Part(v)[w] = Part(w)[w]
      <4> HIDE DEF Part, w
      <4> QED  BY <3>2, <3>3, <3>4, SumUnique
    <3>6. Part(v)[v] = f[Pick(v)] + Part(v)[w]
      <4> HIDE DEF Part
      <4> QED  BY <2>2, <3>4 DEF IsSum
    <3>7. G[v] = f[Pick(v)] + Part(w)[w]
      <4> HIDE DEF Part
      <4> QED  BY <2>2
    <3> QED  BY <3>5, <3>6, <3>7
  <2> QED  BY <2>1, <2>2
<1>5. ASSUME NEW v \in SUBSET s, v # {}
      PROVE  G[v] = f[Pick(v)] + G[v \ {Pick(v)}]
  <2> DEFINE w == v \ {Pick(v)}
  <2>1. Pick(v) \in v
    BY <1>5, PickIn
  <2>2. w \in SUBSET s /\ w # s
    BY <2>1
  <2>3. G[w] = Part(w)[w]
    <3> HIDE DEF w, G, Part
    <3> QED  BY <2>2, <1>4
  <2>4. G[v] = f[Pick(v)] + Part(w)[w]
    <3> HIDE DEF Part
    <3> QED  BY <1>5
  <2> QED  BY <2>3, <2>4
<1>6. G[{}] = 0
  OBVIOUS
<1>7. G = [v \in SUBSET s |-> IF v = {} THEN 0 ELSE f[Pick(v)] + G[v \ {Pick(v)}]]
  <2>1. G = [v \in SUBSET s |-> G[v]]
    OBVIOUS
  <2> HIDE DEF G
  <2> QED  BY <1>5, <1>6, <2>1
<1>8. IsSum(f, G, s)
  <2> HIDE DEF G
  <2> QED  BY <1>7 DEF IsSum
<1> QED  BY <1>2, <1>8

LEMMA SumDefined ==
    ASSUME NEW f, NEW S, IsFiniteSet(S)
    PROVE  IsSum(f, CHOOSE g : IsSum(f, g, S), S)
BY SumExists

-----------------------------------------------------------------------------
(* The sum, one element at a time.                                         *)

LEMMA SumEmpty ==
    ASSUME NEW f
    PROVE  SumFunctionOnSet(f, {}) = 0
<1>1. IsFiniteSet({})
  BY FS_EmptySet
<1>2. PICK g : IsSum(f, g, {}) /\ SumFunctionOnSet(f, {}) = g[{}]
  BY <1>1, SumDefined, SumUnfold
<1> QED  BY <1>2 DEF IsSum

LEMMA SumPick ==
    ASSUME NEW f, NEW S, IsFiniteSet(S), S # {}
    PROVE  SumFunctionOnSet(f, S)
             = f[Pick(S)] + SumFunctionOnSet(f, S \ {Pick(S)})
<1> DEFINE w == S \ {Pick(S)}
<1>1. PICK g : IsSum(f, g, S) /\ SumFunctionOnSet(f, S) = g[S]
  BY SumDefined, SumUnfold
<1>2. IsFiniteSet(w)
  BY FS_Subset
<1>3. PICK h : IsSum(f, h, w) /\ SumFunctionOnSet(f, w) = h[w]
  <2> HIDE DEF w
  <2> QED  BY <1>2, SumDefined, SumUnfold
<1>4. g[w] = h[w]
  <2>1. w \in SUBSET S
    OBVIOUS
  <2> HIDE DEF w
  <2> QED  BY <1>1, <1>3, <2>1, SumUnique
<1>5. g[S] = f[Pick(S)] + g[w]
  BY <1>1 DEF IsSum
<1> QED  BY <1>1, <1>3, <1>4, <1>5

LEMMA SumInt ==
    ASSUME NEW f, NEW S, IsFiniteSet(S), \A x \in S : f[x] \in Int
    PROVE  SumFunctionOnSet(f, S) \in Int
<1> DEFINE Bad == {s \in SUBSET S : SumFunctionOnSet(f, s) \notin Int}
<1>1. SUFFICES ASSUME Bad # {} PROVE FALSE
  OBVIOUS
<1>2. PICK s \in Bad : \A v \in SUBSET s : v # s => v \notin Bad
  <2> HIDE DEF Bad
  <2>1. Bad \in SUBSET (SUBSET S)
    BY DEF Bad
  <2> QED  BY <1>1, <2>1, LeastSubset
<1>3. s # {}
  <2>1. SumFunctionOnSet(f, {}) \in Int
    BY SumEmpty
  <2>2. SumFunctionOnSet(f, s) \notin Int
    BY <1>2
  <2> QED  BY <2>1, <2>2
<1>4. Pick(s) \in s /\ IsFiniteSet(s)
  BY <1>2, <1>3, PickIn, FS_Subset
<1>5. SumFunctionOnSet(f, s \ {Pick(s)}) \in Int
  BY <1>2, <1>4
<1>6. SumFunctionOnSet(f, s) = f[Pick(s)] + SumFunctionOnSet(f, s \ {Pick(s)})
  BY <1>3, <1>4, SumPick
<1> QED  BY <1>2, <1>4, <1>5, <1>6

(* The order does not matter: any element can be taken out first.          *)
LEMMA SumRemove ==
    ASSUME NEW f, NEW S, IsFiniteSet(S), \A x \in S : f[x] \in Int, NEW a \in S
    PROVE  SumFunctionOnSet(f, S) = f[a] + SumFunctionOnSet(f, S \ {a})
<1> DEFINE Bad == {s \in SUBSET S : \E b \in s :
                      SumFunctionOnSet(f, s) # f[b] + SumFunctionOnSet(f, s \ {b})}
<1>1. SUFFICES ASSUME Bad # {} PROVE FALSE
  OBVIOUS
<1>2. PICK s \in Bad : \A v \in SUBSET s : v # s => v \notin Bad
  <2> HIDE DEF Bad
  <2>1. Bad \in SUBSET (SUBSET S)
    BY DEF Bad
  <2> QED  BY <1>1, <2>1, LeastSubset
<1>3. PICK b \in s : SumFunctionOnSet(f, s) # f[b] + SumFunctionOnSet(f, s \ {b})
  BY <1>2
<1> DEFINE p == Pick(s)
           rest == s \ {b, p}
<1>4. p \in s /\ IsFiniteSet(s) /\ IsFiniteSet(s \ {b})
  BY <1>2, <1>3, PickIn, FS_Subset
<1>5. SumFunctionOnSet(f, s) = f[p] + SumFunctionOnSet(f, s \ {p})
  BY <1>3, <1>4, SumPick
<1>6. b # p
  <2> HIDE DEF p
  <2> QED  BY <1>3, <1>5
<1>7. SumFunctionOnSet(f, s \ {p}) = f[b] + SumFunctionOnSet(f, rest)
  <2>1. s \ {p} \notin Bad /\ s \ {p} \in SUBSET S
    BY <1>2, <1>4
  <2>2. b \in s \ {p} /\ (s \ {p}) \ {b} = rest
    BY <1>3, <1>6
  <2> HIDE DEF p, rest
  <2> QED  BY <2>1, <2>2
<1>8. SumFunctionOnSet(f, s \ {b}) = f[p] + SumFunctionOnSet(f, rest)
  <2>1. s \ {b} \notin Bad /\ s \ {b} \in SUBSET S
    BY <1>2, <1>3
  <2>2. p \in s \ {b} /\ (s \ {b}) \ {p} = rest
    BY <1>4, <1>6
  <2> HIDE DEF p, rest
  <2> QED  BY <2>1, <2>2
<1>9. f[b] \in Int /\ f[p] \in Int /\ SumFunctionOnSet(f, rest) \in Int
  <2>1. rest \in SUBSET S /\ b \in S /\ p \in S
    BY <1>2, <1>3, <1>4
  <2>2. IsFiniteSet(rest)
    BY <2>1, FS_Subset
  <2> HIDE DEF p, rest
  <2> QED  BY <2>1, <2>2, SumInt
<1> HIDE DEF p, rest
<1> QED  BY <1>3, <1>5, <1>7, <1>8, <1>9

LEMMA SumAdd ==
    ASSUME NEW f, NEW S, IsFiniteSet(S), NEW a, a \notin S,
           \A x \in S \cup {a} : f[x] \in Int
    PROVE  SumFunctionOnSet(f, S \cup {a}) = f[a] + SumFunctionOnSet(f, S)
<1>1. IsFiniteSet(S \cup {a}) /\ (S \cup {a}) \ {a} = S
  BY FS_AddElement
<1> QED  BY <1>1, SumRemove

LEMMA SumSingleton ==
    ASSUME NEW f, NEW a, f[a] \in Int
    PROVE  SumFunctionOnSet(f, {a}) = f[a]
<1>1. SumFunctionOnSet(f, {a}) = f[a] + SumFunctionOnSet(f, {a} \ {a})
  BY FS_Singleton, SumRemove
<1>2. {a} \ {a} = {}
  OBVIOUS
<1> QED  BY <1>1, <1>2, SumEmpty

-----------------------------------------------------------------------------
(* Comparing sums.                                                         *)

LEMMA SumMonotone ==
    ASSUME NEW f, NEW g, NEW S, IsFiniteSet(S),
           \A x \in S : f[x] \in Int /\ g[x] \in Int /\ f[x] <= g[x]
    PROVE  SumFunctionOnSet(f, S) <= SumFunctionOnSet(g, S)
<1> DEFINE Bad == {s \in SUBSET S : ~ SumFunctionOnSet(f, s) <= SumFunctionOnSet(g, s)}
<1>1. SUFFICES ASSUME Bad # {} PROVE FALSE
  OBVIOUS
<1>2. PICK s \in Bad : \A v \in SUBSET s : v # s => v \notin Bad
  <2> HIDE DEF Bad
  <2>1. Bad \in SUBSET (SUBSET S)
    BY DEF Bad
  <2> QED  BY <1>1, <2>1, LeastSubset
<1>3. s # {}
  <2>1. SumFunctionOnSet(f, {}) <= SumFunctionOnSet(g, {})
    BY SumEmpty
  <2>2. ~ SumFunctionOnSet(f, s) <= SumFunctionOnSet(g, s)
    BY <1>2
  <2> QED  BY <2>1, <2>2
<1> DEFINE p == Pick(s)
           w == s \ {p}
<1>4. /\ p \in s /\ p \in S /\ IsFiniteSet(s) /\ w \in SUBSET S /\ w \in SUBSET s
      /\ w # s /\ IsFiniteSet(w)
  BY <1>2, <1>3, PickIn, FS_Subset
<1> HIDE DEF p
<1>5. /\ SumFunctionOnSet(f, s) = f[p] + SumFunctionOnSet(f, w)
      /\ SumFunctionOnSet(g, s) = g[p] + SumFunctionOnSet(g, w)
  BY <1>2, <1>4, SumRemove
<1> HIDE DEF w
<1>6. SumFunctionOnSet(f, w) \in Int /\ SumFunctionOnSet(g, w) \in Int
  BY <1>4, SumInt
<1>7. SumFunctionOnSet(f, w) <= SumFunctionOnSet(g, w)
  BY <1>2, <1>4
<1>8. SumFunctionOnSet(f, s) <= SumFunctionOnSet(g, s)
  BY <1>4, <1>5, <1>6, <1>7
<1> QED  BY <1>2, <1>8

LEMMA SumEqual ==
    ASSUME NEW f, NEW g, NEW S, IsFiniteSet(S), \A x \in S : f[x] \in Int,
           \A x \in S : g[x] = f[x]
    PROVE  SumFunctionOnSet(g, S) = SumFunctionOnSet(f, S)
<1>1. SumFunctionOnSet(f, S) \in Int /\ SumFunctionOnSet(g, S) \in Int
  BY SumInt
<1>2. \A x \in S : f[x] <= g[x] /\ g[x] <= f[x] /\ g[x] \in Int
  OBVIOUS
<1>3. SumFunctionOnSet(f, S) <= SumFunctionOnSet(g, S)
  BY <1>2, SumMonotone
<1>4. SumFunctionOnSet(g, S) <= SumFunctionOnSet(f, S)
  BY <1>2, SumMonotone
<1> QED  BY <1>1, <1>3, <1>4

(* One term of the sum changes.                                            *)
LEMMA SumChange ==
    ASSUME NEW f, NEW g, NEW S, IsFiniteSet(S), NEW a \in S,
           \A x \in S : f[x] \in Int, g[a] \in Int,
           \A x \in S \ {a} : g[x] = f[x]
    PROVE  SumFunctionOnSet(g, S) = SumFunctionOnSet(f, S) - f[a] + g[a]
<1>1. IsFiniteSet(S \ {a})
  BY FS_Subset
<1>2. SumFunctionOnSet(f, S \ {a}) = SumFunctionOnSet(g, S \ {a})
  BY <1>1, SumEqual
<1>3. /\ SumFunctionOnSet(f, S) = f[a] + SumFunctionOnSet(f, S \ {a})
      /\ SumFunctionOnSet(g, S) = g[a] + SumFunctionOnSet(g, S \ {a})
  BY SumRemove
<1>4. SumFunctionOnSet(f, S \ {a}) \in Int
  BY <1>1, SumInt
<1> QED  BY <1>2, <1>3, <1>4

LEMMA SumZero ==
    ASSUME NEW f, NEW S, IsFiniteSet(S), \A x \in S : f[x] = 0
    PROVE  SumFunctionOnSet(f, S) = 0
<1> DEFINE Bad == {s \in SUBSET S : SumFunctionOnSet(f, s) # 0}
<1>1. SUFFICES ASSUME Bad # {} PROVE FALSE
  OBVIOUS
<1>2. PICK s \in Bad : \A v \in SUBSET s : v # s => v \notin Bad
  <2> HIDE DEF Bad
  <2>1. Bad \in SUBSET (SUBSET S)
    BY DEF Bad
  <2> QED  BY <1>1, <2>1, LeastSubset
<1>3. s # {}
  <2>1. SumFunctionOnSet(f, s) # 0
    BY <1>2
  <2> QED  BY <2>1, SumEmpty
<1>4. Pick(s) \in s /\ IsFiniteSet(s)
  BY <1>2, <1>3, PickIn, FS_Subset
<1>5. SumFunctionOnSet(f, s \ {Pick(s)}) = 0
  BY <1>2, <1>4
<1>6. SumFunctionOnSet(f, s) = f[Pick(s)] + SumFunctionOnSet(f, s \ {Pick(s)})
  BY <1>3, <1>4, SumPick
<1> QED  BY <1>2, <1>4, <1>5, <1>6

LEMMA SumNat ==
    ASSUME NEW f, NEW S, IsFiniteSet(S), \A x \in S : f[x] \in Nat
    PROVE  SumFunctionOnSet(f, S) \in Nat
<1> DEFINE Zero == [x \in S |-> 0]
<1>1. SumFunctionOnSet(Zero, S) = 0
  <2>1. \A x \in S : Zero[x] = 0
    OBVIOUS
  <2> HIDE DEF Zero
  <2> QED  BY <2>1, SumZero
<1>2. SumFunctionOnSet(Zero, S) <= SumFunctionOnSet(f, S)
  <2>1. \A x \in S : Zero[x] \in Int /\ f[x] \in Int /\ Zero[x] <= f[x]
    OBVIOUS
  <2> HIDE DEF Zero
  <2> QED  BY <2>1, SumMonotone
<1>3. SumFunctionOnSet(f, S) \in Int
  BY SumInt
<1> QED  BY <1>1, <1>2, <1>3

(* A term is at most the sum.                                              *)
LEMMA SumAtLeast ==
    ASSUME NEW f, NEW S, IsFiniteSet(S), \A x \in S : f[x] \in Nat, NEW a \in S
    PROVE  f[a] <= SumFunctionOnSet(f, S)
<1>1. SumFunctionOnSet(f, S) = f[a] + SumFunctionOnSet(f, S \ {a})
  BY SumRemove
<1>2. SumFunctionOnSet(f, S \ {a}) \in Nat
  BY FS_Subset, SumNat
<1> QED  BY <1>1, <1>2

-----------------------------------------------------------------------------
(* Changing the set, and sums of combined functions.                       *)

NatOn(f, S) == \A x \in S : f[x] \in Nat
AgreeBut(f, g, S, a) == \A x \in S \ {a} : g[x] = f[x]

(* Two functions that agree everywhere but at a.                           *)
LEMMA SumGrow ==
    ASSUME NEW f, NEW g, NEW S, IsFiniteSet(S), NEW a,
           \A x \in S \ {a} : f[x] \in Int /\ g[x] = f[x], g[a] \in Int
    PROVE  SumFunctionOnSet(g, S \cup {a}) = g[a] + SumFunctionOnSet(f, S \ {a})
<1>1. IsFiniteSet(S \ {a}) /\ (S \ {a}) \cup {a} = S \cup {a}
  BY FS_RemoveElement
<1>2. SumFunctionOnSet(g, S \cup {a}) = g[a] + SumFunctionOnSet(g, S \ {a})
  <2>1. SumFunctionOnSet(g, (S \ {a}) \cup {a}) = g[a] + SumFunctionOnSet(g, S \ {a})
    BY <1>1, SumAdd
  <2> QED  BY <1>1, <2>1
<1>3. SumFunctionOnSet(g, S \ {a}) = SumFunctionOnSet(f, S \ {a})
  BY <1>1, SumEqual
<1> QED  BY <1>2, <1>3

(* A term is added or replaced; a term is taken out.                       *)
LEMMA SumPut ==
    ASSUME NEW f, NEW g, NEW S, NEW a, AgreeBut(f, g, S, a), NatOn(f, S),
           IsFiniteSet(S), g[a] \in Nat
    PROVE  /\ SumFunctionOnSet(g, S \cup {a}) <= SumFunctionOnSet(f, S) + g[a]
           /\ a \notin S => SumFunctionOnSet(g, S \cup {a})
                              = SumFunctionOnSet(f, S) + g[a]
<1> DEFINE rest == SumFunctionOnSet(f, S \ {a})
<1>1. SumFunctionOnSet(g, S \cup {a}) = g[a] + rest
  BY SumGrow DEF AgreeBut, NatOn
<1>2. rest \in Nat
  BY FS_Subset, SumNat DEF NatOn
<1>3. CASE a \in S
  <2>1. SumFunctionOnSet(f, S) = f[a] + rest
    BY <1>3, SumRemove DEF NatOn
  <2> HIDE DEF rest
  <2> QED  BY <1>1, <1>2, <1>3, <2>1 DEF NatOn
<1>4. CASE a \notin S
  <2>1. S \ {a} = S
    BY <1>4
  <2>2. rest = SumFunctionOnSet(f, S)
    BY <2>1
  <2> HIDE DEF rest
  <2> QED  BY <1>1, <1>2, <2>2
<1> QED  BY <1>3, <1>4

LEMMA SumDrop ==
    ASSUME NEW f, NEW g, NEW S, NEW a, AgreeBut(f, g, S, a), NatOn(f, S),
           IsFiniteSet(S), a \in S
    PROVE  SumFunctionOnSet(g, S \ {a}) = SumFunctionOnSet(f, S) - f[a]
<1>1. IsFiniteSet(S \ {a})
  BY FS_Subset
<1>2. SumFunctionOnSet(g, S \ {a}) = SumFunctionOnSet(f, S \ {a})
  BY <1>1, SumEqual DEF AgreeBut, NatOn
<1>3. SumFunctionOnSet(f, S) = f[a] + SumFunctionOnSet(f, S \ {a})
  BY SumRemove DEF NatOn
<1>4. SumFunctionOnSet(f, S \ {a}) \in Nat
  BY <1>1, SumNat DEF NatOn
<1> QED  BY <1>2, <1>3, <1>4 DEF NatOn

(* Elements outside T add nothing.                                         *)
LEMMA SumSupport ==
    ASSUME NEW f, NEW S, IsFiniteSet(S), NEW T \in SUBSET S,
           \A x \in S : f[x] \in Int, \A x \in S \ T : f[x] = 0
    PROVE  SumFunctionOnSet(f, S) = SumFunctionOnSet(f, T)
<1> DEFINE Bad == {s \in SUBSET S :
                      T \subseteq s /\ SumFunctionOnSet(f, s) # SumFunctionOnSet(f, T)}
<1>1. SUFFICES ASSUME Bad # {} PROVE FALSE
  OBVIOUS
<1>2. PICK s \in Bad : \A v \in SUBSET s : v # s => v \notin Bad
  <2> HIDE DEF Bad
  <2>1. Bad \in SUBSET (SUBSET S)
    BY DEF Bad
  <2> QED  BY <1>1, <2>1, LeastSubset
<1>3. PICK a \in s : a \notin T
  <2>1. s # T /\ T \subseteq s
    BY <1>2
  <2> QED  BY <2>1
<1>4. IsFiniteSet(s) /\ s \ {a} \in SUBSET s /\ s \ {a} # s
  BY <1>2, <1>3, FS_Subset
<1>5. SumFunctionOnSet(f, s \ {a}) = SumFunctionOnSet(f, T)
  BY <1>2, <1>3, <1>4
<1>6. SumFunctionOnSet(f, s) = f[a] + SumFunctionOnSet(f, s \ {a})
  BY <1>2, <1>3, <1>4, SumRemove
<1>7. f[a] = 0 /\ SumFunctionOnSet(f, s \ {a}) \in Int
  <2>1. IsFiniteSet(s \ {a})
    BY <1>4, FS_Subset
  <2>2. \A x \in s \ {a} : f[x] \in Int
    BY <1>2
  <2> QED  BY <1>2, <1>3, <2>1, <2>2, SumInt
<1> QED  BY <1>2, <1>5, <1>6, <1>7

LEMMA SumConstant ==
    ASSUME NEW f, NEW S, IsFiniteSet(S), NEW n \in Int, \A x \in S : f[x] = n
    PROVE  SumFunctionOnSet(f, S) = n * Cardinality(S)
<1> DEFINE Bad == {s \in SUBSET S : SumFunctionOnSet(f, s) # n * Cardinality(s)}
<1>1. SUFFICES ASSUME Bad # {} PROVE FALSE
  OBVIOUS
<1>2. PICK s \in Bad : \A v \in SUBSET s : v # s => v \notin Bad
  <2> HIDE DEF Bad
  <2>1. Bad \in SUBSET (SUBSET S)
    BY DEF Bad
  <2> QED  BY <1>1, <2>1, LeastSubset
<1>3. s # {}
  <2>1. SumFunctionOnSet(f, {}) = n * Cardinality({})
    BY SumEmpty, FS_EmptySet
  <2>2. SumFunctionOnSet(f, s) # n * Cardinality(s)
    BY <1>2
  <2> QED  BY <2>1, <2>2
<1>4. PICK a : a \in s
  BY <1>3
<1>5. IsFiniteSet(s) /\ s \ {a} \in SUBSET s /\ s \ {a} # s
  BY <1>2, <1>4, FS_Subset
<1>6. SumFunctionOnSet(f, s) = n + SumFunctionOnSet(f, s \ {a})
  BY <1>2, <1>4, <1>5, SumRemove
<1>7. SumFunctionOnSet(f, s \ {a}) = n * Cardinality(s \ {a})
  BY <1>2, <1>4, <1>5
<1>8. Cardinality(s \ {a}) = Cardinality(s) - 1 /\ Cardinality(s) \in Nat
  BY <1>4, <1>5, FS_RemoveElement, FS_CardinalityType
<1>9. n * (Cardinality(s) - 1) = n * Cardinality(s) - n
  BY <1>8
<1>10. SumFunctionOnSet(f, s) = n * Cardinality(s)
  BY <1>6, <1>7, <1>8, <1>9
<1> QED  BY <1>2, <1>10

(* The sum of f[x] + n * g[x].                                             *)
LEMMA SumLinear ==
    ASSUME NEW f, NEW g, NEW h, NEW n \in Int, NEW S, IsFiniteSet(S),
           \A x \in S : f[x] \in Int /\ g[x] \in Int /\ h[x] = f[x] + n * g[x]
    PROVE  SumFunctionOnSet(h, S)
             = SumFunctionOnSet(f, S) + n * SumFunctionOnSet(g, S)
<1> DEFINE Bad == {s \in SUBSET S :
              SumFunctionOnSet(h, s)
                # SumFunctionOnSet(f, s) + n * SumFunctionOnSet(g, s)}
<1>1. SUFFICES ASSUME Bad # {} PROVE FALSE
  OBVIOUS
<1>2. PICK s \in Bad : \A v \in SUBSET s : v # s => v \notin Bad
  <2> HIDE DEF Bad
  <2>1. Bad \in SUBSET (SUBSET S)
    BY DEF Bad
  <2> QED  BY <1>1, <2>1, LeastSubset
<1>3. s # {}
  <2>1. SumFunctionOnSet(h, {})
          = SumFunctionOnSet(f, {}) + n * SumFunctionOnSet(g, {})
    BY SumEmpty
  <2>2. SumFunctionOnSet(h, s) # SumFunctionOnSet(f, s) + n * SumFunctionOnSet(g, s)
    BY <1>2
  <2> QED  BY <2>1, <2>2
<1>4. PICK a : a \in s
  BY <1>3
<1> DEFINE w == s \ {a}
           F == SumFunctionOnSet(f, w)
           G == SumFunctionOnSet(g, w)
<1>5. /\ IsFiniteSet(s) /\ IsFiniteSet(w) /\ w \in SUBSET s /\ w # s
      /\ w \in SUBSET S /\ a \in S
  BY <1>2, <1>4, FS_Subset
<1>6. \A x \in S : h[x] \in Int
  OBVIOUS
<1>7. /\ SumFunctionOnSet(f, s) = f[a] + F
      /\ SumFunctionOnSet(g, s) = g[a] + G
      /\ SumFunctionOnSet(h, s) = h[a] + SumFunctionOnSet(h, w)
  BY <1>2, <1>4, <1>5, <1>6, SumRemove
<1> HIDE DEF w
<1>8. F \in Int /\ G \in Int
  BY <1>5, SumInt
<1>9. SumFunctionOnSet(h, w) = F + n * G
  BY <1>2, <1>5
<1> HIDE DEF F, G
<1>10. h[a] = f[a] + n * g[a] /\ f[a] \in Int /\ g[a] \in Int
  BY <1>5
<1>11. n * (g[a] + G) = n * g[a] + n * G
  BY <1>8, <1>10
<1>12. n * g[a] \in Int /\ n * G \in Int
  BY <1>8, <1>10
<1>13. SumFunctionOnSet(h, s) = SumFunctionOnSet(f, s) + n * SumFunctionOnSet(g, s)
  BY <1>7, <1>8, <1>9, <1>10, <1>11, <1>12
<1> QED  BY <1>2, <1>13

(* The sum over a set is the sum over a part and over the rest.            *)
LEMMA SumSplit ==
    ASSUME NEW f, NEW S, IsFiniteSet(S), NEW T \in SUBSET S,
           \A x \in S : f[x] \in Int
    PROVE  SumFunctionOnSet(f, S)
             = SumFunctionOnSet(f, T) + SumFunctionOnSet(f, S \ T)
<1> DEFINE R == S \ T
           in == [x \in S |-> IF x \in T THEN f[x] ELSE 0]
           out == [x \in S |-> IF x \in T THEN 0 ELSE f[x]]
<1>1. \A x \in S : in[x] \in Int /\ out[x] \in Int /\ f[x] = in[x] + 1 * out[x]
  OBVIOUS
<1>2. /\ \A x \in S \ T : in[x] = 0
      /\ \A x \in S \ R : out[x] = 0
      /\ \A x \in T : in[x] = f[x]
      /\ \A x \in R : out[x] = f[x]
  OBVIOUS
<1>3. T \in SUBSET S /\ R \in SUBSET S /\ IsFiniteSet(T) /\ IsFiniteSet(R)
  BY FS_Subset
<1> HIDE DEF in, out, R
<1>4. SumFunctionOnSet(f, S) = SumFunctionOnSet(in, S) + 1 * SumFunctionOnSet(out, S)
  BY <1>1, SumLinear
<1>5. SumFunctionOnSet(in, S) = SumFunctionOnSet(in, T)
  BY <1>1, <1>2, <1>3, SumSupport
<1>6. SumFunctionOnSet(out, S) = SumFunctionOnSet(out, R)
  BY <1>1, <1>2, <1>3, SumSupport
<1>7. \A x \in T : f[x] \in Int
  OBVIOUS
<1>8. \A x \in R : f[x] \in Int
  BY <1>3
<1>9. SumFunctionOnSet(in, T) = SumFunctionOnSet(f, T)
  BY <1>2, <1>3, <1>7, SumEqual
<1>10. SumFunctionOnSet(out, R) = SumFunctionOnSet(f, R)
  BY <1>2, <1>3, <1>8, SumEqual
<1>11. SumFunctionOnSet(f, R) \in Int
  BY <1>3, <1>8, SumInt
<1> QED  BY <1>4, <1>5, <1>6, <1>9, <1>10, <1>11 DEF R

(* The terms may be named differently, each by one name.                   *)
LEMMA SumRename ==
    ASSUME NEW f, NEW g, NEW h, NEW S, IsFiniteSet(S),
           \A x \in S : f[x] \in Int /\ g[h[x]] = f[x],
           \A x, y \in S : h[x] = h[y] => x = y
    PROVE  /\ IsFiniteSet({h[x] : x \in S})
           /\ SumFunctionOnSet(g, {h[x] : x \in S}) = SumFunctionOnSet(f, S)
<1> DEFINE Names(s) == {h[x] : x \in s}
           Bad == {s \in SUBSET S :
              ~(/\ IsFiniteSet(Names(s))
                /\ SumFunctionOnSet(g, Names(s)) = SumFunctionOnSet(f, s))}
<1>1. SUFFICES ASSUME Bad # {} PROVE FALSE
  OBVIOUS
<1>2. PICK s \in Bad : \A v \in SUBSET s : v # s => v \notin Bad
  <2> HIDE DEF Bad
  <2>1. Bad \in SUBSET (SUBSET S)
    BY DEF Bad
  <2> QED  BY <1>1, <2>1, LeastSubset
<1>3. s # {}
  <2>1. Names({}) = {}
    OBVIOUS
  <2>2. IsFiniteSet(Names({})) /\ SumFunctionOnSet(g, Names({})) = SumFunctionOnSet(f, {})
    BY <2>1, SumEmpty, FS_EmptySet
  <2> QED  BY <1>2, <2>2
<1>4. PICK a : a \in s
  BY <1>3
<1> DEFINE w == s \ {a}
<1>5. /\ IsFiniteSet(s) /\ IsFiniteSet(w) /\ w \in SUBSET s /\ w # s
      /\ w \in SUBSET S /\ s \in SUBSET S /\ a \in S
  BY <1>2, <1>4, FS_Subset
<1>6. Names(s) = Names(w) \cup {h[a]} /\ h[a] \notin Names(w)
  BY <1>4, <1>5
<1>7. SumFunctionOnSet(f, s) = f[a] + SumFunctionOnSet(f, w)
  BY <1>4, <1>5, SumRemove
<1>8. IsFiniteSet(Names(w)) /\ SumFunctionOnSet(g, Names(w)) = SumFunctionOnSet(f, w)
  BY <1>2, <1>5
<1>9. \A y \in Names(w) \cup {h[a]} : g[y] \in Int
  BY <1>5
<1> DEFINE N == Names(w)
           b == h[a]
<1>10. /\ SumFunctionOnSet(g, N \cup {b}) = g[b] + SumFunctionOnSet(g, N)
       /\ IsFiniteSet(N \cup {b})
  <2>1. IsFiniteSet(N) /\ b \notin N /\ \A y \in N \cup {b} : g[y] \in Int
    BY <1>6, <1>8, <1>9
  <2> HIDE DEF N, b
  <2> QED  BY <2>1, SumAdd, FS_AddElement
<1>11. g[b] = f[a]
  BY <1>5
<1> QED  BY <1>2, <1>6, <1>7, <1>8, <1>10, <1>11
=============================================================================
