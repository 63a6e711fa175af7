------------------------------ MODULE SumProofs ------------------------------
(***************************************************************************)
(* Laws of the sums that UsageStats and RateLimit take over finite sets    *)
(* with SumFunctionOnSet: adding an element, larger sets, and functions    *)
(* that agree.                                                             *)
(***************************************************************************)
EXTENDS Functions, FiniteSets, FiniteSetTheorems, WellFoundedInduction, TLAPS

\* Among subsets of a finite set there is one that contains no other: the form
\* in which induction on finite sets is used below.
LEMMA SmallestSet ==
  ASSUME NEW D, IsFiniteSet(D), NEW T, T \subseteq SUBSET D, T # {}
  PROVE  \E s \in T : \A t \in T : t \subseteq s => t = s
<1>1. IsWellFoundedOn(StrictSubsetOrdering(D), SUBSET D)
  BY FS_StrictSubsetOrderingWellFounded, FS_FiniteSubsetsOfFinite
<1>2. PICK s \in T : \A t \in T : ~(<<t, s>> \in StrictSubsetOrdering(D))
  BY <1>1, WFMin
<1>3. \A t \in T : t \subseteq s => t = s
  BY <1>2 DEF StrictSubsetOrdering
<1> QED  BY <1>3

\* g gives every subset of D the sum of f over it.
SumTable(g, f, D) ==
  /\ g \in [SUBSET D -> Nat]
  /\ g[{}] = 0
  /\ \A s \in SUBSET D : \A x \in s : g[s] = f[x] + g[s \ {x}]

LEMMA SumsExtend ==
  ASSUME NEW D, NEW f \in [D -> Nat], NEW T \in SUBSET D, NEW y \in T, NEW g, SumTable(g, f, T \ {y})
  PROVE  \E h : SumTable(h, f, T)
<1> DEFINE h == [s \in SUBSET T |-> IF y \in s THEN f[y] + g[s \ {y}] ELSE g[s]]
<1>1. \A s \in SUBSET T : s \ {y} \in SUBSET (T \ {y}) /\ (y \notin s => s \in SUBSET (T \ {y}))
  OBVIOUS
<1>2. f[y] \in Nat /\ \A s \in SUBSET (T \ {y}) : g[s] \in Nat
  BY DEF SumTable
<1>3. h \in [SUBSET T -> Nat] /\ h[{}] = 0
  BY <1>1, <1>2 DEF SumTable
<1>4. ASSUME NEW s \in SUBSET T, NEW x \in s PROVE h[s] = f[x] + h[s \ {x}]
  <2>1. s \ {x} \in SUBSET T /\ f[x] \in Nat
    OBVIOUS
  <2>2. CASE y \notin s
    <3>1. s \in SUBSET (T \ {y}) /\ y \notin s \ {x}
      BY <2>2
    <3>2. g[s] = f[x] + g[s \ {x}]
      BY <3>1 DEF SumTable
    <3> QED  BY <2>1, <2>2, <3>1, <3>2
  <2>3. CASE x = y
    BY <2>1, <2>3
  <2>4. CASE y \in s /\ x # y
    <3> DEFINE r == s \ {y}
    <3>1. r \in SUBSET (T \ {y}) /\ x \in r /\ r \ {x} \in SUBSET (T \ {y})
      BY <2>4
    <3>2. g[r] = f[x] + g[r \ {x}]
      BY <3>1 DEF SumTable
    <3>3. h[s] = f[y] + g[r] /\ h[s \ {x}] = f[y] + g[r \ {x}]
      <4>1. (s \ {x}) \ {y} = r \ {x} /\ y \in s \ {x}
        BY <2>4
      <4> QED  BY <2>1, <2>4, <4>1
    <3>4. f[x] \in Nat /\ f[y] \in Nat /\ g[r \ {x}] \in Nat /\ g[r] \in Nat
      BY <1>2, <2>1, <3>1
    <3> HIDE DEF h, r
    <3> QED  BY <3>2, <3>3, <3>4
  <2> QED  BY <2>2, <2>3, <2>4
<1> HIDE DEF h
<1> QED  BY <1>3, <1>4 DEF SumTable

LEMMA SumsExist ==
  ASSUME NEW D, IsFiniteSet(D), NEW f \in [D -> Nat]
  PROVE  \E g : SumTable(g, f, D)
<1> DEFINE bad == {T \in SUBSET D : ~ \E g : SumTable(g, f, T)}
<1> SUFFICES ASSUME bad # {} PROVE FALSE
  OBVIOUS
<1>1. PICK T \in bad : \A t \in bad : t \subseteq T => t = T
  <2>1. bad \subseteq SUBSET D
    OBVIOUS
  <2> HIDE DEF bad
  <2> QED  BY <2>1, SmallestSet
<1>2. CASE T = {}
  <2>1. SumTable([s \in SUBSET {} |-> 0], f, {})
    BY DEF SumTable
  <2> QED  BY <1>2, <2>1
<1>3. ASSUME NEW y \in T PROVE FALSE
  <2>1. T \ {y} \notin bad /\ T \ {y} \in SUBSET D
    BY <1>1
  <2>2. PICK g : SumTable(g, f, T \ {y})
    BY <2>1
  <2> QED  BY <2>2, SumsExtend
<1> QED  BY <1>2, <1>3

\* The recursion that SumFunctionOnSet is defined by has one solution.
SumStep(f, S, g) ==
  g = [s \in SUBSET S |-> IF s = {} THEN 0 ELSE f[CHOOSE x \in s : TRUE] + g[s \ {CHOOSE x \in s : TRUE}]]

LEMMA SumUnfolded ==
  ASSUME NEW f, NEW S
  PROVE  SumFunctionOnSet(f, S) = (CHOOSE g : SumStep(f, S, g))[S]
BY DEF SumFunctionOnSet, FoldFunctionOnSet, MapThenFoldSet, SumStep

LEMMA StepSums ==
  ASSUME NEW D, IsFiniteSet(D), NEW f \in [D -> Nat], NEW g, SumTable(g, f, D), NEW S \in SUBSET D
  PROVE  /\ \E h : SumStep(f, S, h)
         /\ \A h : SumStep(f, S, h) => h[S] = g[S]
<1> DEFINE some(s) == CHOOSE x \in s : TRUE
<1>1. \A s \in SUBSET S : s # {} => some(s) \in s
  OBVIOUS
<1>2. \E h : SumStep(f, S, h)
  <2> DEFINE h == [s \in SUBSET S |-> g[s]]
  <2>1. ASSUME NEW s \in SUBSET S PROVE h[s] = IF s = {} THEN 0 ELSE f[some(s)] + h[s \ {some(s)}]
    <3>1. CASE s = {}
      BY <3>1 DEF SumTable
    <3>2. CASE s # {}
      <4>1. s \in SUBSET D /\ some(s) \in s /\ s \ {some(s)} \in SUBSET S
        BY <1>1, <3>2
      <4> HIDE DEF some
      <4> QED  BY <3>2, <4>1 DEF SumTable
    <3> QED  BY <3>1, <3>2
  <2>2. SumStep(f, S, h)
    <3>1. h = [s \in SUBSET S |-> IF s = {} THEN 0 ELSE f[some(s)] + h[s \ {some(s)}]]
      <4>1. h = [s \in SUBSET S |-> h[s]]
        OBVIOUS
      <4> HIDE DEF h, some
      <4> QED  BY <2>1, <4>1
    <3> QED  BY <3>1 DEF SumStep
  <2> QED  BY <2>2
<1>3. ASSUME NEW h, SumStep(f, S, h) PROVE h[S] = g[S]
  <2> DEFINE bad == {s \in SUBSET S : h[s] # g[s]}
  <2> SUFFICES ASSUME bad # {} PROVE FALSE
    OBVIOUS
  <2>1. PICK s \in bad : \A t \in bad : t \subseteq s => t = s
    <3>1. bad \subseteq SUBSET D
      OBVIOUS
    <3> HIDE DEF bad
    <3> QED  BY <3>1, SmallestSet
  <2>2. h[s] = IF s = {} THEN 0 ELSE f[some(s)] + h[s \ {some(s)}]
    BY <1>3 DEF SumStep
  <2>3. CASE s = {}
    BY <2>1, <2>2, <2>3 DEF SumTable
  <2>4. CASE s # {}
    <3>1. s \in SUBSET D /\ some(s) \in s /\ s \ {some(s)} \in SUBSET S
      BY <1>1, <2>1, <2>4
    <3> HIDE DEF some
    <3>2. h[s \ {some(s)}] = g[s \ {some(s)}]
      BY <2>1, <3>1
    <3>3. g[s] = f[some(s)] + g[s \ {some(s)}]
      BY <3>1 DEF SumTable
    <3> QED  BY <2>1, <2>2, <2>4, <3>2, <3>3
  <2> QED  BY <2>3, <2>4
<1> QED  BY <1>2, <1>3

LEMMA SumIs ==
  ASSUME NEW D, IsFiniteSet(D), NEW f \in [D -> Nat], NEW g, SumTable(g, f, D), NEW S \in SUBSET D
  PROVE  SumFunctionOnSet(f, S) = g[S]
<1>1. SumStep(f, S, CHOOSE h : SumStep(f, S, h))
  BY StepSums
<1> QED  BY <1>1, StepSums, SumUnfolded

\* The sum of no numbers is zero, and any element's may be taken out of the sum
\* (SumFunctionOnSet takes them out in an order of its own).
THEOREM SumLaws ==
  ASSUME NEW D, IsFiniteSet(D), NEW f \in [D -> Nat]
  PROVE  /\ SumFunctionOnSet(f, {}) = 0
         /\ \A S \in SUBSET D : /\ SumFunctionOnSet(f, S) \in Nat
                                /\ \A x \in S : SumFunctionOnSet(f, S) = f[x] + SumFunctionOnSet(f, S \ {x})
<1>1. PICK g : SumTable(g, f, D)
  BY SumsExist
<1>2. \A S \in SUBSET D : SumFunctionOnSet(f, S) = g[S]
  BY <1>1, SumIs
<1>3. /\ g[{}] = 0
      /\ \A S \in SUBSET D : g[S] \in Nat /\ \A x \in S : S \ {x} \in SUBSET D /\ g[S] = f[x] + g[S \ {x}]
  BY <1>1 DEF SumTable
<1> QED  BY <1>2, <1>3

\* A sum over more elements is no smaller.
THEOREM SumMonotone ==
  ASSUME NEW D, IsFiniteSet(D), NEW f \in [D -> Nat], NEW T \in SUBSET D, NEW S \in SUBSET T
  PROVE  SumFunctionOnSet(f, S) <= SumFunctionOnSet(f, T)
<1> DEFINE Sum(s) == SumFunctionOnSet(f, s)
<1>1. \A s \in SUBSET D : Sum(s) \in Nat /\ \A x \in s : Sum(s) = f[x] + Sum(s \ {x})
  BY SumLaws
<1> HIDE DEF Sum
<1> DEFINE bad == {t \in SUBSET D : S \subseteq t /\ ~(Sum(S) <= Sum(t))}
<1> SUFFICES ASSUME bad # {} PROVE FALSE
  BY DEF Sum
<1>2. PICK t \in bad : \A u \in bad : u \subseteq t => u = t
  <2>1. bad \subseteq SUBSET D
    OBVIOUS
  <2> HIDE DEF bad
  <2> QED  BY <2>1, SmallestSet
<1>3. PICK x \in t : x \notin S
  <2>1. t # S
    BY <1>1, <1>2
  <2> QED  BY <1>2, <2>1
<1>4. t \ {x} \in SUBSET D /\ S \subseteq t \ {x} /\ Sum(S) <= Sum(t \ {x})
  BY <1>2, <1>3
<1>5. Sum(t) = f[x] + Sum(t \ {x}) /\ f[x] \in Nat /\ Sum(t \ {x}) \in Nat /\ Sum(S) \in Nat
  BY <1>1, <1>2, <1>3, <1>4
<1> HIDE DEF bad
<1>6. Sum(S) <= Sum(t)
  BY <1>4, <1>5
<1> QED  BY <1>2, <1>6 DEF bad

\* Functions that agree on a set have the same sum over it.
THEOREM SumsAgree ==
  ASSUME NEW S, IsFiniteSet(S), NEW D, NEW f \in [D -> Nat], NEW E, NEW h \in [E -> Nat],
         IsFiniteSet(D), IsFiniteSet(E), S \subseteq D, S \subseteq E, \A x \in S : f[x] = h[x]
  PROVE  SumFunctionOnSet(f, S) = SumFunctionOnSet(h, S)
<1> DEFINE F(s) == SumFunctionOnSet(f, s)
           H(s) == SumFunctionOnSet(h, s)
<1>1. /\ F({}) = 0 /\ H({}) = 0
      /\ \A s \in SUBSET S : \A x \in s : F(s) = f[x] + F(s \ {x}) /\ H(s) = h[x] + H(s \ {x})
  <2>1. \A s \in SUBSET S : s \in SUBSET D /\ s \in SUBSET E
    OBVIOUS
  <2> QED  BY <2>1, SumLaws
<1> HIDE DEF F, H
<1> DEFINE bad == {s \in SUBSET S : F(s) # H(s)}
<1> SUFFICES ASSUME bad # {} PROVE FALSE
  BY DEF F, H
<1>2. PICK s \in bad : \A t \in bad : t \subseteq s => t = s
  <2>1. bad \subseteq SUBSET S
    OBVIOUS
  <2> HIDE DEF bad
  <2> QED  BY <2>1, SmallestSet
<1>3. PICK x \in s : TRUE
  BY <1>1, <1>2
<1>4. s \ {x} \in SUBSET S /\ F(s \ {x}) = H(s \ {x})
  BY <1>2, <1>3
<1> QED  BY <1>1, <1>2, <1>3, <1>4

\* A sum of zeros is zero.
LEMMA SumOfZeros ==
  ASSUME NEW S, IsFiniteSet(S), NEW f \in [S -> Nat], \A x \in S : f[x] = 0
  PROVE  SumFunctionOnSet(f, S) = 0
<1> DEFINE F(s) == SumFunctionOnSet(f, s)
<1>1. F({}) = 0 /\ \A s \in SUBSET S : F(s) \in Nat /\ \A x \in s : F(s) = f[x] + F(s \ {x})
  BY SumLaws
<1> HIDE DEF F
<1> DEFINE bad == {s \in SUBSET S : F(s) # 0}
<1> SUFFICES ASSUME bad # {} PROVE FALSE
  BY DEF F
<1>2. PICK s \in bad : \A t \in bad : t \subseteq s => t = s
  <2>1. bad \subseteq SUBSET S
    OBVIOUS
  <2> HIDE DEF bad
  <2> QED  BY <2>1, SmallestSet
<1>3. PICK x \in s : TRUE
  BY <1>1, <1>2
<1>4. s \ {x} \in SUBSET S /\ F(s \ {x}) = 0
  BY <1>2, <1>3
<1> QED  BY <1>1, <1>2, <1>3, <1>4

=============================================================================
