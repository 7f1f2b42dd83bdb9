----------------------------- MODULE FiniteSums -----------------------------
(***************************************************************************)
(* Sums over finite sets, as the modules of this project write them: the   *)
(* recursion behind MapThenSumSet is well-founded, and its value does not  *)
(* depend on the order in which the elements are chosen.  The induction is *)
(* by a smallest counterexample.                                           *)
(***************************************************************************)
EXTENDS FiniteSetsExt, FiniteSetTheorems, WellFoundedInduction, TLAPS

(* The sum of f over the elements of S.                                    *)
SumOver(f, S) == MapThenSumSet(LAMBDA x : f[x], S)

(* The element that is taken out of a set first.                           *)
First(s) == CHOOSE x \in s : TRUE

Sums(f, B, g) ==
  g = [s \in SUBSET B |-> IF s = {} THEN 0 ELSE f[First(s)] + g[s \ {First(s)}]]

LEMMA SumIsChosen ==
  ASSUME NEW f, NEW S
  PROVE  SumOver(f, S) = (CHOOSE g : Sums(f, S, g))[S]
BY Zenon DEF SumOver, MapThenSumSet, MapThenFoldSet, Sums, First

LEMMA FirstIsIn ==
  ASSUME NEW s, s # {}
  PROVE  First(s) \in s
BY DEF First

LEMMA Smallest ==
  ASSUME NEW B, IsFiniteSet(B), NEW T, T \subseteq SUBSET B, T # {}
  PROVE  \E s \in T : \A t \in T : t \subseteq s => t = s
<1>1. FiniteSubsetsOf(B) = SUBSET B
  BY FS_FiniteSubsetsOfFinite
<1>2. IsWellFoundedOn(StrictSubsetOrdering(B), SUBSET B)
  BY <1>1, FS_StrictSubsetOrderingWellFounded
<1>3. PICK s \in T : \A t \in T : ~(<<t, s>> \in StrictSubsetOrdering(B))
  BY <1>2, WFMin
<1>4. ASSUME NEW t \in T, t \subseteq s, t # s PROVE FALSE
  <2>1. t \in SUBSET B /\ s \in SUBSET B
    OBVIOUS
  <2>2. <<t, s>> \in StrictSubsetOrdering(B)
    BY <1>4, <2>1 DEF StrictSubsetOrdering
  <2> QED BY <1>3, <2>2
<1> QED BY <1>4

(* What every subset of B inherits from its smaller ones, all of them have.*)
LEMMA SetInduction ==
  ASSUME NEW B, IsFiniteSet(B), NEW P,
         \A s \in SUBSET B : (\A t \in SUBSET s : t # s => t \in P) => s \in P
  PROVE  SUBSET B \subseteq P
<1> SUFFICES ASSUME NEW b \in SUBSET B, b \notin P PROVE FALSE
  OBVIOUS
<1> DEFINE T == (SUBSET B) \ P
<1>1. T \subseteq SUBSET B /\ T # {}
  OBVIOUS
<1>2. PICK s \in T : \A t \in T : t \subseteq s => t = s
  <2> HIDE DEF T
  <2> QED BY <1>1, Smallest
<1>3. \A t \in SUBSET s : t # s => t \in P
  BY <1>2
<1> QED BY <1>2, <1>3

LEMMA SumsAgree ==
  ASSUME NEW f, NEW S, NEW T, IsFiniteSet(T), T \subseteq S,
         NEW g, NEW h, Sums(f, S, g), Sums(f, T, h)
  PROVE  g[T] = h[T]
<1> DEFINE P == {s \in SUBSET T : g[s] = h[s]}
<1>1. ASSUME NEW s \in SUBSET T, \A t \in SUBSET s : t # s => t \in P
      PROVE  s \in P
  <2>1. s \in SUBSET S
    OBVIOUS
  <2>2. /\ g[s] = IF s = {} THEN 0 ELSE f[First(s)] + g[s \ {First(s)}]
        /\ h[s] = IF s = {} THEN 0 ELSE f[First(s)] + h[s \ {First(s)}]
    BY <2>1, Zenon DEF Sums
  <2>3. CASE s = {}
    BY <2>2, <2>3
  <2>4. CASE s # {}
    <3>1. First(s) \in s
      BY <2>4, FirstIsIn
    <3>2. s \ {First(s)} \in SUBSET s /\ s \ {First(s)} # s
      BY <3>1
    <3>3. g[s \ {First(s)}] = h[s \ {First(s)}]
      BY <1>1, <3>2
    <3> QED BY <2>2, <2>4, <3>3
  <2> QED BY <2>3, <2>4
<1> HIDE DEF P
<1>2. SUBSET T \subseteq P
  BY <1>1, SetInduction
<1> QED BY <1>2 DEF P

LEMMA SumsExist ==
  ASSUME NEW f, NEW B, IsFiniteSet(B)
  PROVE  \E g : Sums(f, B, g)
<1> DEFINE P == {s \in SUBSET B : \E g : Sums(f, s, g)}
           G(s) == CHOOSE g : Sums(f, s, g)
<1>1. ASSUME NEW b \in SUBSET B, \A t \in SUBSET b : t # b => t \in P
      PROVE  b \in P
  <2> DEFINE top == IF b = {} THEN 0 ELSE f[First(b)] + G(b \ {First(b)})[b \ {First(b)}]
             g == [s \in SUBSET b |-> IF s = b THEN top ELSE G(s)[s]]
  <2>1. ASSUME NEW s \in SUBSET b, s # b PROVE Sums(f, s, G(s))
    BY <1>1, <2>1
  <2>2. ASSUME NEW s \in SUBSET b
        PROVE  g[s] = IF s = {} THEN 0 ELSE f[First(s)] + g[s \ {First(s)}]
    <3> DEFINE r == s \ {First(s)}
    <3>1. g[s] = IF s = b THEN top ELSE G(s)[s]
      OBVIOUS
    <3>2. CASE s = {}
      <4>1. CASE s = b
        BY <3>1, <3>2, <4>1
      <4>2. CASE s # b
        <5>1. Sums(f, s, G(s))
          BY <2>1, <4>2
        <5>2. G(s)[s] = 0
          BY <3>2, <5>1, Zenon DEF Sums
        <5> QED BY <3>1, <3>2, <4>2, <5>2
      <4> QED BY <4>1, <4>2
    <3>3. CASE s # {}
      <4>1. First(s) \in s
        BY <3>3, FirstIsIn
      <4>2. r \in SUBSET s /\ r # s /\ r \in SUBSET b /\ r # b
        BY <4>1
      <4>3. g[r] = G(r)[r]
        BY <4>2
      <4>4. CASE s = b
        BY <3>1, <3>3, <4>3, <4>4
      <4>5. CASE s # b
        <5>1. Sums(f, s, G(s)) /\ Sums(f, r, G(r))
          BY <2>1, <4>2, <4>5
        <5>2. G(s)[s] = f[First(s)] + G(s)[r]
          BY <3>3, <5>1, Zenon DEF Sums
        <5>3. IsFiniteSet(r)
          BY <4>2, FS_Subset
        <5>4. G(s)[r] = G(r)[r]
          <6> HIDE DEF G, r
          <6> QED BY <4>2, <5>1, <5>3, SumsAgree
        <5> QED BY <3>1, <3>3, <4>3, <4>5, <5>2, <5>4
      <4> QED BY <4>4, <4>5
    <3> QED BY <3>2, <3>3
  <2>3. g = [s \in SUBSET b |-> IF s = {} THEN 0 ELSE f[First(s)] + g[s \ {First(s)}]]
    <3>1. g = [s \in SUBSET b |-> g[s]]
      OBVIOUS
    <3> HIDE DEF g
    <3> QED BY <2>2, <3>1
  <2>4. Sums(f, b, g)
    <3> HIDE DEF g
    <3> QED BY <2>3, Zenon DEF Sums
  <2> HIDE DEF g
  <2> QED BY <2>4
<1> HIDE DEF P
<1>2. SUBSET B \subseteq P
  BY <1>1, SetInduction
<1>3. B \in P
  BY <1>2
<1> QED BY <1>3 DEF P

(* The recursion that the sum stands for.                                  *)
LEMMA SumUnfolds ==
  ASSUME NEW f, NEW S, IsFiniteSet(S)
  PROVE  SumOver(f, S) = IF S = {} THEN 0 ELSE f[First(S)] + SumOver(f, S \ {First(S)})
<1> DEFINE G(s) == CHOOSE g : Sums(f, s, g)
           r == S \ {First(S)}
<1>1. IsFiniteSet(r) /\ r \subseteq S
  BY FS_RemoveElement
<1>2. Sums(f, S, G(S)) /\ Sums(f, r, G(r))
  BY <1>1, SumsExist
<1>3. SumOver(f, S) = G(S)[S] /\ SumOver(f, r) = G(r)[r]
  BY SumIsChosen
<1>4. G(S)[r] = G(r)[r]
  <2> HIDE DEF G, r
  <2> QED BY <1>1, <1>2, SumsAgree
<1>5. G(S)[S] = IF S = {} THEN 0 ELSE f[First(S)] + G(S)[r]
  BY <1>2, Zenon DEF Sums
<1> HIDE DEF G, r
<1>6. SumOver(f, S) = IF S = {} THEN 0 ELSE f[First(S)] + SumOver(f, r)
  BY <1>3, <1>4, <1>5
<1> QED BY <1>6 DEF r
-----------------------------------------------------------------------------
(* The sum over no element is 0.                                          *)
THEOREM SumEmpty == ASSUME NEW f PROVE SumOver(f, {}) = 0
BY SumUnfolds, FS_EmptySet

(* Sums of natural numbers and of integers are such.                       *)
THEOREM SumType ==
  ASSUME NEW S, IsFiniteSet(S), NEW f, NEW R \in {Nat, Int}, \A x \in S : f[x] \in R
  PROVE  SumOver(f, S) \in R
<1> DEFINE P == {s \in SUBSET S : SumOver(f, s) \in R}
<1>1. ASSUME NEW s \in SUBSET S, \A t \in SUBSET s : t # s => t \in P
      PROVE  s \in P
  <2>1. IsFiniteSet(s)
    BY FS_Subset
  <2>2. CASE s = {}
    BY <2>2, SumEmpty
  <2>3. CASE s # {}
    <3>1. First(s) \in s
      BY <2>3, FirstIsIn
    <3>2. SumOver(f, s \ {First(s)}) \in R
      BY <1>1, <3>1
    <3>3. SumOver(f, s) = f[First(s)] + SumOver(f, s \ {First(s)})
      BY <2>1, <2>3, SumUnfolds
    <3>4. f[First(s)] \in R
      BY <3>1
    <3>5. SumOver(f, s) \in R
      BY <3>2, <3>3, <3>4
    <3> QED BY <3>5
  <2> QED BY <2>2, <2>3
<1> HIDE DEF P
<1>2. SUBSET S \subseteq P
  BY <1>1, SetInduction
<1> QED BY <1>2 DEF P

(* Any element may be taken out first.                                     *)
THEOREM SumRemove ==
  ASSUME NEW S, IsFiniteSet(S), NEW f, \A x \in S : f[x] \in Int
  PROVE  \A x \in S : SumOver(f, S) = f[x] + SumOver(f, S \ {x})
<1> DEFINE P == {s \in SUBSET S : \A x \in s : SumOver(f, s) = f[x] + SumOver(f, s \ {x})}
<1>1. ASSUME NEW s \in SUBSET S, \A t \in SUBSET s : t # s => t \in P
      PROVE  s \in P
  <2> SUFFICES ASSUME NEW x \in s PROVE SumOver(f, s) = f[x] + SumOver(f, s \ {x})
    OBVIOUS
  <2>1. IsFiniteSet(s)
    BY FS_Subset
  <2> DEFINE y == First(s)
             t == s \ {x, y}
  <2>2. y \in s /\ SumOver(f, s) = f[y] + SumOver(f, s \ {y})
    BY <2>1, FirstIsIn, SumUnfolds
  <2> HIDE DEF y
  <2>3. CASE y = x
    BY <2>2, <2>3
  <2>4. CASE y # x
    <3>1. /\ s \ {y} \in P /\ s \ {x} \in P /\ x \in s \ {y} /\ y \in s \ {x}
      BY <1>1, <2>2, <2>4
    <3>2. (s \ {y}) \ {x} = t /\ (s \ {x}) \ {y} = t
      OBVIOUS
    <3>3. SumOver(f, s \ {y}) = f[x] + SumOver(f, (s \ {y}) \ {x})
      BY <3>1
    <3>4. SumOver(f, s \ {x}) = f[y] + SumOver(f, (s \ {x}) \ {y})
      BY <3>1
    <3>5. f[x] \in Int /\ f[y] \in Int
      BY <2>2
    <3>6. SumOver(f, t) \in Int
      <4>1. IsFiniteSet(t) /\ \A u \in t : f[u] \in Int
        BY <2>1, FS_Subset
      <4> HIDE DEF t
      <4> QED BY <4>1, SumType
    <3> HIDE DEF t
    <3>7. /\ SumOver(f, s \ {y}) = f[x] + SumOver(f, t)
          /\ SumOver(f, s \ {x}) = f[y] + SumOver(f, t)
      BY <3>2, <3>3, <3>4
    <3> QED BY <2>2, <3>5, <3>6, <3>7
  <2> QED BY <2>3, <2>4
<1> HIDE DEF P
<1>2. SUBSET S \subseteq P
  BY <1>1, SetInduction
<1> QED BY <1>2 DEF P

(* A further element adds its own value.                                   *)
THEOREM SumInsert ==
  ASSUME NEW S, IsFiniteSet(S), NEW x, x \notin S, NEW f, \A y \in S \cup {x} : f[y] \in Int
  PROVE  SumOver(f, S \cup {x}) = f[x] + SumOver(f, S)
<1> DEFINE u == S \cup {x}
<1>1. x \in u /\ u \ {x} = S /\ IsFiniteSet(u) /\ \A y \in u : f[y] \in Int
  BY FS_AddElement
<1> HIDE DEF u
<1>2. SumOver(f, u) = f[x] + SumOver(f, u \ {x})
  BY <1>1, SumRemove
<1> QED BY <1>1, <1>2 DEF u

(* The sum depends on the values in S alone.                               *)
THEOREM SumSame ==
  ASSUME NEW S, IsFiniteSet(S), NEW f, NEW g, \A x \in S : f[x] = g[x]
  PROVE  SumOver(f, S) = SumOver(g, S)
<1> DEFINE P == {s \in SUBSET S : SumOver(f, s) = SumOver(g, s)}
<1>1. ASSUME NEW s \in SUBSET S, \A t \in SUBSET s : t # s => t \in P
      PROVE  s \in P
  <2>1. IsFiniteSet(s)
    BY FS_Subset
  <2>2. CASE s = {}
    BY <2>2, SumEmpty
  <2>3. CASE s # {}
    <3>1. First(s) \in s
      BY <2>3, FirstIsIn
    <3>2. SumOver(f, s \ {First(s)}) = SumOver(g, s \ {First(s)})
      BY <1>1, <3>1
    <3>3. /\ SumOver(f, s) = f[First(s)] + SumOver(f, s \ {First(s)})
          /\ SumOver(g, s) = g[First(s)] + SumOver(g, s \ {First(s)})
      BY <2>1, <2>3, SumUnfolds
    <3>4. f[First(s)] = g[First(s)]
      BY <3>1
    <3> QED BY <3>2, <3>3, <3>4
  <2> QED BY <2>2, <2>3
<1> HIDE DEF P
<1>2. SUBSET S \subseteq P
  BY <1>1, SetInduction
<1> QED BY <1>2 DEF P

(* What changes at one element changes the sum by as much.                 *)
THEOREM SumChange ==
  ASSUME NEW S, IsFiniteSet(S), NEW x \in S, NEW f, NEW g,
         \A y \in S : f[y] \in Int /\ g[y] \in Int, \A y \in S \ {x} : g[y] = f[y]
  PROVE  SumOver(g, S) = SumOver(f, S) + (g[x] - f[x])
<1> DEFINE t == S \ {x}
<1>1. IsFiniteSet(t) /\ \A y \in t : f[y] \in Int
  BY FS_RemoveElement
<1>2. SumOver(g, t) = SumOver(f, t)
  <2>1. \A y \in t : g[y] = f[y]
    OBVIOUS
  <2> HIDE DEF t
  <2> QED BY <1>1, <2>1, SumSame
<1>3. SumOver(f, t) \in Int
  <2> HIDE DEF t
  <2> QED BY <1>1, SumType
<1>4. SumOver(f, S) = f[x] + SumOver(f, t) /\ SumOver(g, S) = g[x] + SumOver(g, t)
  BY SumRemove
<1> HIDE DEF t
<1> QED BY <1>2, <1>3, <1>4

(* A sum of zeros is 0.                                                    *)
THEOREM SumZero ==
  ASSUME NEW S, IsFiniteSet(S), NEW f, \A x \in S : f[x] = 0
  PROVE  SumOver(f, S) = 0
<1> DEFINE P == {s \in SUBSET S : SumOver(f, s) = 0}
<1>1. ASSUME NEW s \in SUBSET S, \A t \in SUBSET s : t # s => t \in P
      PROVE  s \in P
  <2>1. IsFiniteSet(s)
    BY FS_Subset
  <2>2. CASE s = {}
    BY <2>2, SumEmpty
  <2>3. CASE s # {}
    <3>1. First(s) \in s
      BY <2>3, FirstIsIn
    <3>2. SumOver(f, s \ {First(s)}) = 0
      BY <1>1, <3>1
    <3>3. SumOver(f, s) = f[First(s)] + SumOver(f, s \ {First(s)})
      BY <2>1, <2>3, SumUnfolds
    <3> QED BY <3>1, <3>2, <3>3
  <2> QED BY <2>2, <2>3
<1> HIDE DEF P
<1>2. SUBSET S \subseteq P
  BY <1>1, SetInduction
<1> QED BY <1>2 DEF P

(* A sum of natural numbers over fewer elements is not greater.            *)
THEOREM SumSubset ==
  ASSUME NEW S, IsFiniteSet(S), NEW T, T \subseteq S, NEW f, \A x \in S : f[x] \in Nat
  PROVE  SumOver(f, T) <= SumOver(f, S)
<1> DEFINE P == {s \in SUBSET S : T \subseteq s => SumOver(f, T) <= SumOver(f, s)}
<1>0. IsFiniteSet(T) /\ SumOver(f, T) \in Nat
  <2>1. IsFiniteSet(T) /\ \A x \in T : f[x] \in Nat
    BY FS_Subset
  <2> QED BY <2>1, SumType
<1>1. ASSUME NEW s \in SUBSET S, \A t \in SUBSET s : t # s => t \in P
      PROVE  s \in P
  <2> SUFFICES ASSUME T \subseteq s PROVE SumOver(f, T) <= SumOver(f, s)
    OBVIOUS
  <2>1. CASE s = T
    BY <1>0, <2>1
  <2>2. CASE s # T
    <3>1. PICK x \in s : x \notin T
      BY <2>2
    <3>2. SumOver(f, T) <= SumOver(f, s \ {x})
      BY <1>1, <3>1
    <3>3. IsFiniteSet(s) /\ IsFiniteSet(s \ {x})
      BY FS_Subset
    <3>4. SumOver(f, s) = f[x] + SumOver(f, s \ {x})
      BY <3>3, SumRemove
    <3>5. SumOver(f, s \ {x}) \in Nat
      <4>1. \A y \in s \ {x} : f[y] \in Nat
        OBVIOUS
      <4> QED BY <3>3, <4>1, SumType
    <3>6. f[x] \in Nat
      BY <3>1
    <3> QED BY <1>0, <3>2, <3>4, <3>5, <3>6
  <2> QED BY <2>1, <2>2
<1> HIDE DEF P
<1>2. SUBSET S \subseteq P
  BY <1>1, SetInduction
<1> QED BY <1>2 DEF P
=============================================================================
