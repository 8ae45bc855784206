------------------------------ MODULE SetSums ------------------------------
(***************************************************************************)
(* Lemmas about finite sets of numbers and about the sums MapThenSumSet    *)
(* takes over them.  The library states induction over a finite set with   *)
(* an operator as its parameter; the arguments here are by a least         *)
(* counterexample instead, a set that is found in a set of sets.           *)
(***************************************************************************)
EXTENDS Integers, FiniteSets, FiniteSetsExt, FiniteSetTheorems, TLAPS

----------------------------------------------------------------------------
(* Least counterexamples.                                                  *)

\* A family of subsets of a finite set has a member none of whose proper
\* subsets is in the family.
LEMMA LeastSet ==
    ASSUME NEW S, IsFiniteSet(S), NEW Family, Family # {}, \A A \in Family : A \subseteq S
    PROVE  \E A \in Family : \A B \in Family : B \subseteq A => B = A
<1>1. IsWellFoundedOn(StrictSubsetOrdering(S), SUBSET S)
  BY FS_StrictSubsetOrderingWellFounded, FS_FiniteSubsetsOfFinite
<1>2. Family \subseteq SUBSET S OBVIOUS
<1>3. PICK A \in Family : \A B \in Family : <<B, A>> \notin StrictSubsetOrdering(S)
  BY <1>1, <1>2, WFMin
<1>4. ASSUME NEW B \in Family, B \subseteq A, B # A PROVE FALSE
  <2>1. <<B, A>> \in StrictSubsetOrdering(S)
    BY <1>2, <1>4 DEF StrictSubsetOrdering
  <2> QED BY <2>1, <1>3
<1> QED BY <1>4

\* A finite set of numbers has a least and a greatest.
LEMMA LeastNumber ==
    ASSUME NEW S \in SUBSET Int, IsFiniteSet(S), S # {}
    PROVE  \E m \in S : \A x \in S : m <= x
<1> DEFINE Below(m) == {y \in S : y < m}
           Belows == {Below(m) : m \in S}
<1>1. Belows # {} /\ \A A \in Belows : A \subseteq S OBVIOUS
<1>2. PICK A \in Belows : \A B \in Belows : B \subseteq A => B = A
  <2> HIDE DEF Belows
  <2> QED BY <1>1, LeastSet
<1>3. PICK m \in S : A = Below(m) OBVIOUS
<1>4. ASSUME NEW y \in Below(m) PROVE FALSE
  <2>1. y \in S /\ y < m /\ S \subseteq Int OBVIOUS
  <2>2. \A z \in S : z < y => z < m BY <2>1
  <2>3. Below(y) \subseteq Below(m) BY <2>2
  <2>4. y \notin Below(y) BY <2>1
  <2>5. Below(y) = Below(m) BY <1>2, <1>3, <2>1, <2>3
  <2> QED BY <2>4, <2>5
<1>5. \A x \in S : m <= x
  <2> SUFFICES ASSUME NEW x \in S PROVE m <= x OBVIOUS
  <2>1. x \notin Below(m) BY <1>4
  <2>2. x \in Int /\ m \in Int OBVIOUS
  <2> QED BY <2>1, <2>2
<1> QED BY <1>5

LEMMA GreatestNumber ==
    ASSUME NEW S \in SUBSET Int, IsFiniteSet(S), S # {}
    PROVE  \E m \in S : \A x \in S : x <= m
<1> DEFINE Above(m) == {y \in S : m < y}
           Aboves == {Above(m) : m \in S}
<1>1. Aboves # {} /\ \A A \in Aboves : A \subseteq S OBVIOUS
<1>2. PICK A \in Aboves : \A B \in Aboves : B \subseteq A => B = A
  <2> HIDE DEF Aboves
  <2> QED BY <1>1, LeastSet
<1>3. PICK m \in S : A = Above(m) OBVIOUS
<1>4. ASSUME NEW y \in Above(m) PROVE FALSE
  <2>1. y \in S /\ m < y /\ S \subseteq Int OBVIOUS
  <2>2. \A z \in S : y < z => m < z BY <2>1
  <2>3. Above(y) \subseteq Above(m) BY <2>2
  <2>4. y \notin Above(y) BY <2>1
  <2>5. Above(y) = Above(m) BY <1>2, <1>3, <2>1, <2>3
  <2> QED BY <2>4, <2>5
<1>5. \A x \in S : x <= m
  <2> SUFFICES ASSUME NEW x \in S PROVE x <= m OBVIOUS
  <2>1. x \notin Above(m) BY <1>4
  <2>2. x \in Int /\ m \in Int OBVIOUS
  <2> QED BY <2>1, <2>2
<1> QED BY <1>5

LEMMA MinIsLeast ==
    ASSUME NEW S \in SUBSET Int, IsFiniteSet(S), S # {}
    PROVE  Min(S) \in S /\ \A x \in S : Min(S) <= x
BY LeastNumber DEF Min

LEMMA MaxIsGreatest ==
    ASSUME NEW S \in SUBSET Int, IsFiniteSet(S), S # {}
    PROVE  Max(S) \in S /\ \A x \in S : x <= Max(S)
<1>1. PICK m \in S : \A x \in S : x <= m BY GreatestNumber
<1>2. \A x \in S : m >= x BY <1>1
<1>3. \A x \in S : Max(S) >= x /\ Max(S) \in S BY <1>2 DEF Max
<1> QED BY <1>3

\* Two different elements make more than one, and more than one has two.
LEMMA TwoAreMany ==
    ASSUME NEW S, IsFiniteSet(S), NEW x \in S, NEW y \in S, x # y
    PROVE  Cardinality(S) > 1
<1>1. Cardinality({x}) = 1 /\ IsFiniteSet({x}) BY FS_Singleton
<1>2. {x} \in SUBSET S OBVIOUS
<1>3. Cardinality({x}) <= Cardinality(S) /\ (Cardinality({x}) = Cardinality(S) => {x} = S)
  BY <1>2, FS_Subset
<1>4. Cardinality(S) \in Nat BY FS_CardinalityType
<1> QED BY <1>1, <1>3, <1>4

LEMMA ManyHaveTwo ==
    ASSUME NEW S, Cardinality(S) > 1
    PROVE  \E x, y \in S : x # y
<1>1. CASE S = {} BY <1>1, FS_EmptySet
<1>2. CASE S # {}
  <2>1. PICK x \in S : TRUE BY <1>2
  <2>2. S # {x} BY FS_Singleton
  <2> QED BY <2>1, <2>2
<1> QED BY <1>1, <1>2

----------------------------------------------------------------------------
(***************************************************************************)
(* Sums.  MapThenSumSet adds up a set by a recursive function over its     *)
(* subsets, which takes out one chosen element at a time.                  *)
(***************************************************************************)

SumOver(f, S) == MapThenSumSet(LAMBDA x : f[x], S)

Some(s) == CHOOSE x \in s : TRUE
Leftover(s) == s \ {Some(s)}

\* g adds up every subset of S.
AddsUp(g, f, S) ==
    g = [s \in SUBSET S |-> IF s = {} THEN 0 ELSE f[Some(s)] + g[Leftover(s)]]

LEMMA SomeIsIn == ASSUME NEW s, s # {} PROVE Some(s) \in s BY DEF Some

LEMMA SumIsAdded ==
    ASSUME NEW f, NEW S
    PROVE  SumOver(f, S) = (CHOOSE g : AddsUp(g, f, S))[S]
BY DEF SumOver, MapThenSumSet, MapThenFoldSet, AddsUp, Some, Leftover

LEMMA SumEquation ==
    ASSUME NEW f, NEW S, NEW g, AddsUp(g, f, S), NEW s \in SUBSET S
    PROVE  g[s] = IF s = {} THEN 0 ELSE f[Some(s)] + g[Leftover(s)]
BY DEF AddsUp

\* What adds up two sets agrees on the subsets they share, where the terms do.
LEMMA SumsAgree ==
    ASSUME NEW f, NEW e, NEW S, NEW T, NEW g, NEW h, AddsUp(g, f, S), AddsUp(h, e, T),
           NEW U \in SUBSET (S \cap T), IsFiniteSet(U), \A x \in U : f[x] = e[x]
    PROVE  g[U] = h[U]
<1> DEFINE Differ == {s \in SUBSET U : g[s] # h[s]}
<1> SUFFICES ASSUME Differ # {} PROVE FALSE OBVIOUS
<1>1. PICK s \in Differ : \A B \in Differ : B \subseteq s => B = s
  <2>1. \A A \in Differ : A \subseteq U OBVIOUS
  <2> HIDE DEF Differ
  <2> QED BY <2>1, LeastSet
<1>2. s \in SUBSET S /\ s \in SUBSET T /\ s \subseteq U OBVIOUS
<1>3. /\ g[s] = IF s = {} THEN 0 ELSE f[Some(s)] + g[Leftover(s)]
      /\ h[s] = IF s = {} THEN 0 ELSE e[Some(s)] + h[Leftover(s)]
  BY <1>2, SumEquation
<1>4. s # {} BY <1>3
<1>5. Some(s) \in s BY <1>4, SomeIsIn
<1>6. Leftover(s) \subseteq U /\ Leftover(s) \subseteq s /\ Leftover(s) # s BY <1>2, <1>5 DEF Leftover
<1>7. g[Leftover(s)] = h[Leftover(s)] BY <1>1, <1>6
<1> QED BY <1>2, <1>3, <1>4, <1>5, <1>7

\* There is such a function.
LEMMA SumExists ==
    ASSUME NEW f, NEW S, IsFiniteSet(S)
    PROVE  \E g : AddsUp(g, f, S)
<1> DEFINE Without == {T \in SUBSET S : ~\E g : AddsUp(g, f, T)}
<1> SUFFICES ASSUME Without # {} PROVE FALSE OBVIOUS
<1>1. PICK T \in Without : \A B \in Without : B \subseteq T => B = T
  <2>1. \A A \in Without : A \subseteq S OBVIOUS
  <2> HIDE DEF Without
  <2> QED BY <2>1, LeastSet
<1>2. T \in SUBSET S /\ IsFiniteSet(T) BY FS_Subset
<1> DEFINE One(s) == CHOOSE g : AddsUp(g, f, s)
           G == [s \in SUBSET T |-> IF s = {} THEN 0 ELSE f[Some(s)] + One(Leftover(s))[Leftover(s)]]
<1>3. ASSUME NEW s, s \subseteq T, s # T PROVE AddsUp(One(s), f, s)
  <2>1. \E g : AddsUp(g, f, s) BY <1>1, <1>2, <1>3
  <2> QED BY <2>1
<1> HIDE DEF One
<1>4. ASSUME NEW s, s \subseteq T, s # {} PROVE G[Leftover(s)] = One(Leftover(s))[Leftover(s)]
  <2> DEFINE u == Leftover(s)
  <2>1. u \subseteq T /\ u # T BY <1>4, SomeIsIn DEF Leftover
  <2>2. AddsUp(One(u), f, u) BY <2>1, <1>3
  <2>3. One(u)[u] = IF u = {} THEN 0 ELSE f[Some(u)] + One(u)[Leftover(u)] BY <2>2, SumEquation
  <2>4. ASSUME u # {} PROVE One(u)[Leftover(u)] = One(Leftover(u))[Leftover(u)]
    <3>1. Leftover(u) \subseteq u /\ Leftover(u) # T BY <2>1 DEF Leftover
    <3>2. AddsUp(One(Leftover(u)), f, Leftover(u)) BY <3>1, <2>1, <1>3
    <3>3. IsFiniteSet(Leftover(u)) BY <3>1, <2>1, <1>2, FS_Subset
    <3>4. Leftover(u) \in SUBSET (u \cap Leftover(u)) BY <3>1
    <3> HIDE DEF u
    <3> QED BY <3>2, <3>3, <3>4, <2>2, SumsAgree
  <2>5. G[u] = IF u = {} THEN 0 ELSE f[Some(u)] + One(Leftover(u))[Leftover(u)] BY <2>1
  <2> HIDE DEF u, G
  <2>6. G[u] = One(u)[u] BY <2>3, <2>4, <2>5
  <2> QED BY <2>6 DEF u
<1>5. \A s \in SUBSET T : (IF s = {} THEN 0 ELSE f[Some(s)] + One(Leftover(s))[Leftover(s)])
                        = (IF s = {} THEN 0 ELSE f[Some(s)] + G[Leftover(s)])
  <2> HIDE DEF G
  <2> QED BY <1>4
<1>6. AddsUp(G, f, T)
  <2>1. G = [s \in SUBSET T |-> IF s = {} THEN 0 ELSE f[Some(s)] + One(Leftover(s))[Leftover(s)]] OBVIOUS
  <2> HIDE DEF G
  <2> QED BY <2>1, <1>5 DEF AddsUp
<1> QED BY <1>1, <1>6

LEMMA SumAddsUp ==
    ASSUME NEW f, NEW S, IsFiniteSet(S)
    PROVE  \E g : AddsUp(g, f, S) /\ SumOver(f, S) = g[S]
<1> DEFINE g == CHOOSE h : AddsUp(h, f, S)
<1>1. AddsUp(g, f, S) BY SumExists
<1>2. SumOver(f, S) = g[S] BY SumIsAdded
<1> QED BY <1>1, <1>2

\* The sum over no elements is none; only the terms matter; it is a number.
LEMMA SumOfNone == ASSUME NEW f PROVE SumOver(f, {}) = 0
<1>1. IsFiniteSet({}) BY FS_EmptySet
<1>2. PICK g : AddsUp(g, f, {}) /\ SumOver(f, {}) = g[{}] BY <1>1, SumAddsUp
<1> QED BY <1>2 DEF AddsUp

LEMMA SumOfEqual ==
    ASSUME NEW f, NEW e, NEW S, IsFiniteSet(S), \A x \in S : f[x] = e[x]
    PROVE  SumOver(f, S) = SumOver(e, S)
<1>1. PICK g : AddsUp(g, f, S) /\ SumOver(f, S) = g[S] BY SumAddsUp
<1>2. PICK h : AddsUp(h, e, S) /\ SumOver(e, S) = h[S] BY SumAddsUp
<1>3. S \in SUBSET (S \cap S) OBVIOUS
<1> QED BY <1>1, <1>2, <1>3, SumsAgree

LEMMA SumOfChosen ==
    ASSUME NEW f, NEW S, IsFiniteSet(S), S # {}
    PROVE  SumOver(f, S) = f[Some(S)] + SumOver(f, Leftover(S))
<1>1. PICK g : AddsUp(g, f, S) /\ SumOver(f, S) = g[S] BY SumAddsUp
<1>2. Leftover(S) \subseteq S /\ IsFiniteSet(Leftover(S)) BY FS_Subset DEF Leftover
<1>3. PICK h : AddsUp(h, f, Leftover(S)) /\ SumOver(f, Leftover(S)) = h[Leftover(S)] BY <1>2, SumAddsUp
<1>4. Leftover(S) \in SUBSET (S \cap Leftover(S)) BY <1>2
<1>5. g[Leftover(S)] = h[Leftover(S)] BY <1>1, <1>2, <1>3, <1>4, SumsAgree
<1>6. g[S] = f[Some(S)] + g[Leftover(S)] BY <1>1, SumEquation
<1> QED BY <1>1, <1>3, <1>5, <1>6

LEMMA SumIsInt ==
    ASSUME NEW f, NEW S, IsFiniteSet(S), \A x \in S : f[x] \in Int
    PROVE  SumOver(f, S) \in Int
<1> DEFINE Other == {s \in SUBSET S : SumOver(f, s) \notin Int}
<1> SUFFICES ASSUME Other # {} PROVE FALSE OBVIOUS
<1>1. PICK s \in Other : \A B \in Other : B \subseteq s => B = s
  <2>1. \A A \in Other : A \subseteq S OBVIOUS
  <2> HIDE DEF Other
  <2> QED BY <2>1, LeastSet
<1>2. s \subseteq S /\ IsFiniteSet(s) /\ s # {}
  <2>1. s \subseteq S /\ SumOver(f, s) \notin Int OBVIOUS
  <2>2. s # {} BY <2>1, SumOfNone
  <2> QED BY <2>1, <2>2, FS_Subset
<1>3. Some(s) \in s BY <1>2, SomeIsIn
<1>4. Leftover(s) \subseteq s /\ Leftover(s) # s BY <1>3 DEF Leftover
<1>5. SumOver(f, Leftover(s)) \in Int BY <1>1, <1>2, <1>4
<1>6. SumOver(f, s) = f[Some(s)] + SumOver(f, Leftover(s)) BY <1>2, SumOfChosen
<1> QED BY <1>1, <1>2, <1>3, <1>5, <1>6

\* Any element may be taken out of the sum.
LEMMA SumTakesOut ==
    ASSUME NEW f, NEW S, IsFiniteSet(S), \A x \in S : f[x] \in Int, NEW x \in S
    PROVE  SumOver(f, S) = f[x] + SumOver(f, S \ {x})
<1> DEFINE Held(s) == \A y \in s : SumOver(f, s) = f[y] + SumOver(f, s \ {y})
           Wrong == {s \in SUBSET S : ~Held(s)}
<1> SUFFICES ASSUME Wrong # {} PROVE FALSE OBVIOUS
<1>1. PICK s \in Wrong : \A B \in Wrong : B \subseteq s => B = s
  <2>1. \A A \in Wrong : A \subseteq S OBVIOUS
  <2> HIDE DEF Wrong
  <2> QED BY <2>1, LeastSet
<1>2. s \subseteq S /\ IsFiniteSet(s) BY FS_Subset
<1>3. PICK y \in s : SumOver(f, s) # f[y] + SumOver(f, s \ {y}) OBVIOUS
<1> DEFINE c == Some(s)
           both == (s \ {y}) \ {c}
<1>4. c \in s BY <1>3, SomeIsIn
<1>5. Leftover(s) = s \ {c} BY DEF Leftover
<1>6. SumOver(f, s) = f[c] + SumOver(f, s \ {c}) BY <1>2, <1>3, <1>5, SumOfChosen
<1> HIDE DEF c
<1>7. y # c BY <1>3, <1>6
<1>8. Held(s \ {c}) /\ Held(s \ {y})
  <2>1. s \ {c} # s /\ s \ {y} # s BY <1>3, <1>4
  <2> HIDE DEF Held
  <2> QED BY <2>1, <1>1, <1>2
<1>9. /\ SumOver(f, s \ {c}) = f[y] + SumOver(f, both)
      /\ SumOver(f, s \ {y}) = f[c] + SumOver(f, both)
  <2>1. (s \ {c}) \ {y} = both OBVIOUS
  <2>2. y \in s \ {c} /\ c \in s \ {y} BY <1>3, <1>4, <1>7
  <2> QED BY <2>1, <2>2, <1>8
<1>10. f[c] \in Int /\ f[y] \in Int /\ SumOver(f, both) \in Int
  <2>1. both \subseteq S /\ IsFiniteSet(both) BY <1>2, FS_Subset
  <2> HIDE DEF both
  <2> QED BY <2>1, <1>2, <1>3, <1>4, SumIsInt
<1> HIDE DEF both
<1> QED BY <1>3, <1>6, <1>9, <1>10

LEMMA SumIsNat ==
    ASSUME NEW f, NEW S, IsFiniteSet(S), \A x \in S : f[x] \in Nat
    PROVE  SumOver(f, S) \in Nat
<1> DEFINE Other == {s \in SUBSET S : SumOver(f, s) \notin Nat}
<1> SUFFICES ASSUME Other # {} PROVE FALSE OBVIOUS
<1>1. PICK s \in Other : \A B \in Other : B \subseteq s => B = s
  <2>1. \A A \in Other : A \subseteq S OBVIOUS
  <2> HIDE DEF Other
  <2> QED BY <2>1, LeastSet
<1>2. s \subseteq S /\ IsFiniteSet(s) /\ s # {}
  <2>1. s \subseteq S /\ SumOver(f, s) \notin Nat OBVIOUS
  <2>2. s # {} BY <2>1, SumOfNone
  <2> QED BY <2>1, <2>2, FS_Subset
<1>3. Some(s) \in s BY <1>2, SomeIsIn
<1>4. Leftover(s) \subseteq s /\ Leftover(s) # s BY <1>3 DEF Leftover
<1>5. SumOver(f, Leftover(s)) \in Nat BY <1>1, <1>2, <1>4
<1>6. SumOver(f, s) = f[Some(s)] + SumOver(f, Leftover(s)) BY <1>2, SumOfChosen
<1> QED BY <1>1, <1>2, <1>3, <1>5, <1>6

\* Smaller terms have a smaller sum.
LEMMA SumAtMost ==
    ASSUME NEW f, NEW e, NEW S, IsFiniteSet(S),
           \A x \in S : f[x] \in Int /\ e[x] \in Int /\ f[x] <= e[x]
    PROVE  SumOver(f, S) <= SumOver(e, S)
<1> DEFINE Above == {s \in SUBSET S : ~(SumOver(f, s) <= SumOver(e, s))}
<1> SUFFICES ASSUME Above # {} PROVE FALSE OBVIOUS
<1>1. PICK s \in Above : \A B \in Above : B \subseteq s => B = s
  <2>1. \A A \in Above : A \subseteq S OBVIOUS
  <2> HIDE DEF Above
  <2> QED BY <2>1, LeastSet
<1>2. s \subseteq S /\ IsFiniteSet(s) /\ s # {}
  <2>1. s \subseteq S /\ ~(SumOver(f, s) <= SumOver(e, s)) OBVIOUS
  <2>2. s # {} BY <2>1, SumOfNone
  <2> QED BY <2>1, <2>2, FS_Subset
<1>3. Some(s) \in s BY <1>2, SomeIsIn
<1>4. Leftover(s) \subseteq s /\ Leftover(s) # s BY <1>3 DEF Leftover
<1>5. SumOver(f, Leftover(s)) <= SumOver(e, Leftover(s)) BY <1>1, <1>2, <1>4
<1>6. /\ SumOver(f, s) = f[Some(s)] + SumOver(f, Leftover(s))
      /\ SumOver(e, s) = e[Some(s)] + SumOver(e, Leftover(s))
  BY <1>2, SumOfChosen
<1>7. SumOver(f, Leftover(s)) \in Int /\ SumOver(e, Leftover(s)) \in Int
  <2>1. IsFiniteSet(Leftover(s)) BY <1>2, <1>4, FS_Subset
  <2> QED BY <1>2, <1>4, <2>1, SumIsInt
<1>8. f[Some(s)] \in Int /\ e[Some(s)] \in Int /\ f[Some(s)] <= e[Some(s)] BY <1>2, <1>3
<1>9. ~(SumOver(f, s) <= SumOver(e, s)) BY <1>1
<1> QED BY <1>5, <1>6, <1>7, <1>8, <1>9

LEMMA SumOfZeros ==
    ASSUME NEW f, NEW S, IsFiniteSet(S), \A x \in S : f[x] = 0
    PROVE  SumOver(f, S) = 0
<1> DEFINE Other == {s \in SUBSET S : SumOver(f, s) # 0}
<1> SUFFICES ASSUME Other # {} PROVE FALSE OBVIOUS
<1>1. PICK s \in Other : \A B \in Other : B \subseteq s => B = s
  <2>1. \A A \in Other : A \subseteq S OBVIOUS
  <2> HIDE DEF Other
  <2> QED BY <2>1, LeastSet
<1>2. s \subseteq S /\ IsFiniteSet(s) /\ s # {}
  <2>1. s \subseteq S /\ SumOver(f, s) # 0 OBVIOUS
  <2>2. s # {} BY <2>1, SumOfNone
  <2> QED BY <2>1, <2>2, FS_Subset
<1>3. Some(s) \in s BY <1>2, SomeIsIn
<1>4. Leftover(s) \subseteq s /\ Leftover(s) # s BY <1>3 DEF Leftover
<1>5. SumOver(f, Leftover(s)) = 0 BY <1>1, <1>2, <1>4
<1>6. SumOver(f, s) = f[Some(s)] + SumOver(f, Leftover(s)) BY <1>2, SumOfChosen
<1> QED BY <1>1, <1>2, <1>3, <1>5, <1>6

\* One term changes.
LEMMA SumChanges ==
    ASSUME NEW f, NEW e, NEW S, IsFiniteSet(S), \A x \in S : f[x] \in Int /\ e[x] \in Int,
           NEW x \in S, \A y \in S \ {x} : f[y] = e[y]
    PROVE  SumOver(e, S) = SumOver(f, S) - f[x] + e[x]
<1>1. IsFiniteSet(S \ {x}) BY FS_Subset
<1>2. SumOver(f, S \ {x}) = SumOver(e, S \ {x}) BY <1>1, SumOfEqual
<1>3. SumOver(f, S) = f[x] + SumOver(f, S \ {x}) /\ SumOver(e, S) = e[x] + SumOver(e, S \ {x})
  BY SumTakesOut
<1>4. SumOver(f, S \ {x}) \in Int BY <1>1, SumIsInt
<1> QED BY <1>2, <1>3, <1>4

\* SumFunction adds up a function over its domain.
LEMMA SumFunctionIs == ASSUME NEW f PROVE SumFunction(f) = SumOver(f, DOMAIN f)
BY DEF SumFunction, SumFunctionOnSet, FoldFunctionOnSet, SumOver, MapThenSumSet
=============================================================================
