----------------------------- MODULE SumTheorems -----------------------------
(***************************************************************************)
(* What the sums of module Sums compute, for every finite set, and what    *)
(* folds over sequences rest on.  The fold of a sum is a recursive         *)
(* function over the subsets of the summed set.  Induction over those      *)
(* subsets comes from the well-foundedness of strict inclusion (theorems   *)
(* FS_StrictSubsetOrderingWellFounded and WFMin), which unlike the         *)
(* library's induction rules takes no operator parameter.                  *)
(***************************************************************************)
EXTENDS Sums, FiniteSetTheorems, WellFoundedInduction, TLAPS

Pick(T) == CHOOSE x \in T : TRUE
Step(g, f, T) == IF T = {} THEN 0 ELSE f[Pick(T)] + g[T \ {Pick(T)}]
IsPartial(g, f, S) == g = [T \in SUBSET S |-> Step(g, f, T)]
Partial(f, S) == CHOOSE g : IsPartial(g, f, S)

\* The sum is the value at S of the recursive function the fold defines.
LEMMA SumOverIsPartial ==
    ASSUME NEW f, NEW S
    PROVE  SumOver(f, S) = Partial(f, S)[S]
BY DEF SumOver, MapThenSumSet, MapThenFoldSet, Partial, IsPartial, Pick, Step

\* Induction over the subsets of a finite set: a set G that contains T whenever
\* it contains every strict subset of T contains the whole set.
LEMMA SubsetInduction ==
    ASSUME NEW S, IsFiniteSet(S), NEW G,
           \A T \in SUBSET S : (\A U \in SUBSET T : U # T => U \in G) => T \in G
    PROVE  S \in G
<1> DEFINE C == (SUBSET S) \ G
<1> SUFFICES ASSUME C # {} PROVE FALSE
  <2>1. S \in SUBSET S OBVIOUS
  <2> QED BY <2>1
<1>1. IsWellFoundedOn(StrictSubsetOrdering(S), FiniteSubsetsOf(S))
  BY FS_StrictSubsetOrderingWellFounded
<1>2. FiniteSubsetsOf(S) = SUBSET S
  BY FS_FiniteSubsetsOfFinite
<1>3. C \subseteq FiniteSubsetsOf(S)
  BY <1>2
<1>4. PICK T \in C : \A U \in C : ~(<<U, T>> \in StrictSubsetOrdering(S))
  <2> HIDE DEF C
  <2> QED BY <1>1, <1>3, WFMin
<1>5. \A U \in SUBSET T : U # T => <<U, T>> \in StrictSubsetOrdering(S)
  BY <1>4 DEF StrictSubsetOrdering
<1>6. \A U \in SUBSET T : U # T => U \in G
  <2> SUFFICES ASSUME NEW U \in SUBSET T, U # T, U \notin G PROVE FALSE
    OBVIOUS
  <2>1. U \in C BY <1>4
  <2> QED BY <1>4, <1>5, <2>1
<1> QED BY <1>4, <1>6

\* The element the fold takes next is an element.
LEMMA PickIn == ASSUME NEW T, T # {} PROVE Pick(T) \in T
BY DEF Pick

\* Two partial sums agree wherever both are defined.
LEMMA PartialUnique ==
    ASSUME NEW f, NEW S, NEW R, NEW g, NEW h, IsFiniteSet(S), S \subseteq R,
           IsPartial(g, f, S), IsPartial(h, f, R)
    PROVE  g[S] = h[S]
<1> DEFINE G == {T \in SUBSET S : g[T] = h[T]}
<1>1. ASSUME NEW T \in SUBSET S, \A U \in SUBSET T : U # T => U \in G
      PROVE  T \in G
  <2>1. g[T] = Step(g, f, T) /\ h[T] = Step(h, f, T)
    BY DEF IsPartial
  <2>2. CASE T = {}
    BY <2>1, <2>2 DEF Step
  <2>3. CASE T # {}
    <3>1. Pick(T) \in T BY <2>3, PickIn
    <3>2. T \ {Pick(T)} \in G BY <1>1, <3>1
    <3> QED BY <2>1, <2>3, <3>2 DEF Step
  <2> QED BY <2>2, <2>3
<1>2. S \in G
  <2> HIDE DEF G
  <2> QED BY <1>1, SubsetInduction
<1> QED BY <1>2

\* The recursive function exists, so the CHOOSE that defines it is one.
LEMMA PartialExists ==
    ASSUME NEW f, NEW S, IsFiniteSet(S)
    PROVE  IsPartial(Partial(f, S), f, S)
<1> DEFINE G == {T \in SUBSET S : IsPartial(Partial(f, T), f, T)}
<1>1. ASSUME NEW T \in SUBSET S, \A U \in SUBSET T : U # T => U \in G
      PROVE  T \in G
  <2> DEFINE Below(U) == U \ {Pick(U)}
  <2> DEFINE g == [U \in SUBSET T |->
                     IF U = {} THEN 0
                     ELSE f[Pick(U)] + Partial(f, Below(U))[Below(U)]]
  <2>1. ASSUME NEW U \in SUBSET T, U # {}
        PROVE  /\ Below(U) \in SUBSET U /\ Below(U) \in SUBSET T /\ Below(U) # T
               /\ IsFiniteSet(Below(U))
               /\ IsPartial(Partial(f, Below(U)), f, Below(U))
    <3>1. Pick(U) \in U BY <2>1, PickIn
    <3>2. Below(U) \in SUBSET U /\ Below(U) \in SUBSET T /\ Below(U) # T
      BY <3>1
    <3>3. IsFiniteSet(Below(U)) BY <3>2, FS_Subset
    <3> QED BY <1>1, <3>2, <3>3
  <2>2. ASSUME NEW U \in SUBSET T, U # T
        PROVE  g[U] = Partial(f, U)[U]
    <3>1. IsPartial(Partial(f, U), f, U)
      BY <1>1, <2>2
    <3>2. Partial(f, U)[U] = Step(Partial(f, U), f, U)
      BY <3>1 DEF IsPartial
    <3>3. CASE U = {}
      BY <3>2, <3>3 DEF Step
    <3>4. CASE U # {}
      <4>1. Partial(f, U)[U] = f[Pick(U)] + Partial(f, U)[Below(U)]
        BY <3>2, <3>4 DEF Step
      <4>2. Partial(f, Below(U))[Below(U)] = Partial(f, U)[Below(U)]
        <5>1. /\ IsPartial(Partial(f, Below(U)), f, Below(U))
              /\ IsFiniteSet(Below(U)) /\ Below(U) \subseteq U
          BY <2>1, <3>4
        <5> HIDE DEF Below
        <5> QED BY <5>1, <3>1, PartialUnique
      <4> QED BY <4>1, <4>2, <3>4
    <3> QED BY <3>3, <3>4
  <2>3. ASSUME NEW U \in SUBSET T PROVE g[U] = Step(g, f, U)
    <3>1. CASE U = {} BY <3>1 DEF Step
    <3>2. CASE U # {}
      <4>1. g[Below(U)] = Partial(f, Below(U))[Below(U)]
        BY <2>1, <2>2, <3>2
      <4> QED BY <4>1, <3>2 DEF Step
    <3> QED BY <3>1, <3>2
  <2>4. IsPartial(g, f, T)
    BY <2>3 DEF IsPartial
  <2>5. IsPartial(Partial(f, T), f, T)
    <3> HIDE DEF g
    <3> QED BY <2>4 DEF Partial
  <2> QED BY <2>5
<1>2. S \in G
  <2> HIDE DEF G
  <2> QED BY <1>1, SubsetInduction
<1> QED BY <1>2

\* The sum over the empty set is zero.
LEMMA SumEmpty == ASSUME NEW f PROVE SumOver(f, {}) = 0
<1>1. IsFiniteSet({}) BY FS_EmptySet
<1>2. IsPartial(Partial(f, {}), f, {}) BY <1>1, PartialExists
<1> QED BY <1>2, SumOverIsPartial DEF IsPartial, Step

\* One step of the fold.
LEMMA SumUnfold ==
    ASSUME NEW f, NEW S, IsFiniteSet(S), S # {}
    PROVE  SumOver(f, S) = f[Pick(S)] + SumOver(f, S \ {Pick(S)})
<1> DEFINE R == S \ {Pick(S)}
<1>1. IsFiniteSet(R) BY FS_Subset
<1>2. IsPartial(Partial(f, S), f, S) /\ IsPartial(Partial(f, R), f, R)
  BY <1>1, PartialExists
<1>3. Partial(f, S)[S] = f[Pick(S)] + Partial(f, S)[R]
  BY <1>2 DEF IsPartial, Step
<1>4. Partial(f, R)[R] = Partial(f, S)[R]
  <2>1. R \subseteq S OBVIOUS
  <2> HIDE DEF R
  <2> QED BY <2>1, <1>1, <1>2, PartialUnique
<1> QED BY <1>3, <1>4, SumOverIsPartial

\* A sum of integers is an integer.
LEMMA SumInt ==
    ASSUME NEW f, NEW S, IsFiniteSet(S), \A x \in S : f[x] \in Int
    PROVE  SumOver(f, S) \in Int
<1> DEFINE G == {T \in SUBSET S : SumOver(f, T) \in Int}
<1>1. ASSUME NEW T \in SUBSET S, \A U \in SUBSET T : U # T => U \in G
      PROVE  T \in G
  <2>1. CASE T = {}
    <3>1. SumOver(f, {}) = 0 BY SumEmpty
    <3> QED BY <3>1, <2>1
  <2>2. CASE T # {}
    <3>1. Pick(T) \in T BY <2>2, PickIn
    <3>2. SumOver(f, T \ {Pick(T)}) \in Int BY <1>1, <3>1
    <3>3. IsFiniteSet(T) BY FS_Subset
    <3>4. SumOver(f, T) = f[Pick(T)] + SumOver(f, T \ {Pick(T)})
      BY <2>2, <3>3, SumUnfold
    <3> QED BY <3>1, <3>2, <3>4
  <2> QED BY <2>1, <2>2
<1>2. S \in G
  <2> HIDE DEF G
  <2> QED BY <1>1, SubsetInduction
<1> QED BY <1>2

\* A sum of pointwise sums is the sum of the sums.
LEMMA SumAdd ==
    ASSUME NEW f, NEW g, NEW h, NEW S, IsFiniteSet(S),
           \A x \in S : f[x] \in Int /\ g[x] \in Int /\ h[x] = f[x] + g[x]
    PROVE  SumOver(h, S) = SumOver(f, S) + SumOver(g, S)
<1> DEFINE G == {T \in SUBSET S : SumOver(h, T) = SumOver(f, T) + SumOver(g, T)}
<1>1. ASSUME NEW T \in SUBSET S, \A U \in SUBSET T : U # T => U \in G
      PROVE  T \in G
  <2>1. CASE T = {}
    <3>1. SumOver(f, {}) = 0 /\ SumOver(g, {}) = 0 /\ SumOver(h, {}) = 0
      BY SumEmpty
    <3> QED BY <3>1, <2>1
  <2>2. CASE T # {}
    <3> DEFINE c == Pick(T)
    <3> DEFINE R == T \ {c}
    <3>1. c \in T BY <2>2, PickIn
    <3>2. IsFiniteSet(T) BY FS_Subset
    <3>3. /\ SumOver(f, T) = f[c] + SumOver(f, R)
          /\ SumOver(g, T) = g[c] + SumOver(g, R)
          /\ SumOver(h, T) = h[c] + SumOver(h, R)
      BY <2>2, <3>2, SumUnfold
    <3>4. SumOver(h, R) = SumOver(f, R) + SumOver(g, R)
      BY <1>1, <3>1
    <3>5. SumOver(f, R) \in Int /\ SumOver(g, R) \in Int
      <4>1. R \subseteq S OBVIOUS
      <4>2. IsFiniteSet(R) BY <4>1, FS_Subset
      <4>3. \A x \in R : f[x] \in Int /\ g[x] \in Int BY <4>1
      <4> HIDE DEF R
      <4> QED BY <4>2, <4>3, SumInt
    <3>6. f[c] \in Int /\ g[c] \in Int /\ h[c] = f[c] + g[c] BY <3>1
    <3> HIDE DEF c, R
    <3>7. SumOver(h, T) = SumOver(f, T) + SumOver(g, T)
      BY <3>3, <3>4, <3>5, <3>6
    <3> QED BY <3>7
  <2> QED BY <2>1, <2>2
<1>2. S \in G
  <2> HIDE DEF G
  <2> QED BY <1>1, SubsetInduction
<1> QED BY <1>2

\* Any element may be taken out first.
LEMMA SumRemove ==
    ASSUME NEW f, NEW S, IsFiniteSet(S), \A x \in S : f[x] \in Int,
           NEW a \in S
    PROVE  SumOver(f, S) = f[a] + SumOver(f, S \ {a})
<1> DEFINE G == {T \in SUBSET S :
                   \A x \in T : SumOver(f, T) = f[x] + SumOver(f, T \ {x})}
<1>1. ASSUME NEW T \in SUBSET S, \A U \in SUBSET T : U # T => U \in G
      PROVE  T \in G
  <2> SUFFICES ASSUME NEW x \in T
               PROVE  SumOver(f, T) = f[x] + SumOver(f, T \ {x})
    OBVIOUS
  <2> DEFINE c == Pick(T)
  <2>1. c \in T BY PickIn
  <2>2. IsFiniteSet(T) BY FS_Subset
  <2>3. SumOver(f, T) = f[c] + SumOver(f, T \ {c})
    BY <2>2, SumUnfold
  <2>4. CASE x = c BY <2>3, <2>4
  <2>5. CASE x # c
    <3> HIDE DEF c
    <3>1. SumOver(f, T \ {c}) = f[x] + SumOver(f, (T \ {c}) \ {x})
      <4>1. T \ {c} \in G BY <1>1, <2>1
      <4> QED BY <4>1, <2>5
    <3>2. SumOver(f, T \ {x}) = f[c] + SumOver(f, (T \ {x}) \ {c})
      <4>1. T \ {x} \in G BY <1>1
      <4> QED BY <4>1, <2>1, <2>5
    <3>3. (T \ {c}) \ {x} = (T \ {x}) \ {c} OBVIOUS
    <3>4. f[x] \in Int /\ f[c] \in Int BY <2>1
    <3> DEFINE R == (T \ {x}) \ {c}
    <3>5. SumOver(f, R) \in Int
      <4>1. R \subseteq S OBVIOUS
      <4>2. IsFiniteSet(R) BY <4>1, FS_Subset
      <4>3. \A y \in R : f[y] \in Int BY <4>1
      <4> HIDE DEF R
      <4> QED BY <4>2, <4>3, SumInt
    <3>6. SumOver(f, T \ {c}) = f[x] + SumOver(f, R) BY <3>1, <3>3
    <3> HIDE DEF R
    <3> QED BY <2>3, <3>2, <3>4, <3>5, <3>6 DEF R
  <2> QED BY <2>4, <2>5
<1>2. S \in G
  <2> HIDE DEF G
  <2> QED BY <1>1, SubsetInduction
<1> QED BY <1>2

\* Elements outside D, where f is zero, do not count.
LEMMA SumRestrict ==
    ASSUME NEW f, NEW g, NEW S, NEW D, IsFiniteSet(S),
           \A x \in S : f[x] = IF x \in D THEN g[x] ELSE 0,
           \A x \in S \cap D : g[x] \in Int
    PROVE  SumOver(f, S) = SumOver(g, S \cap D)
<1> DEFINE G == {T \in SUBSET S : SumOver(f, T) = SumOver(g, T \cap D)}
<1>1. ASSUME NEW T \in SUBSET S, \A U \in SUBSET T : U # T => U \in G
      PROVE  T \in G
  <2>1. CASE T = {}
    <3>1. SumOver(f, {}) = 0 /\ SumOver(g, {}) = 0 BY SumEmpty
    <3>2. T \cap D = {} BY <2>1
    <3> QED BY <3>1, <3>2, <2>1
  <2>2. CASE T # {}
    <3> DEFINE c == Pick(T)
    <3> DEFINE R == T \ {c}
    <3>1. c \in T BY <2>2, PickIn
    <3>2. IsFiniteSet(T) BY FS_Subset
    <3>3. SumOver(f, T) = f[c] + SumOver(f, R) BY <2>2, <3>2, SumUnfold
    <3>4. SumOver(f, R) = SumOver(g, R \cap D) BY <1>1, <3>1
    <3>5. CASE c \in D
      <4>1. f[c] = g[c] BY <3>1, <3>5
      <4>2. IsFiniteSet(T \cap D) BY <3>2, FS_Subset
      <4>3. \A x \in T \cap D : g[x] \in Int OBVIOUS
      <4>4. c \in T \cap D BY <3>1, <3>5
      <4> HIDE DEF c
      <4>5. SumOver(g, T \cap D) = g[c] + SumOver(g, (T \cap D) \ {c})
        BY <4>2, <4>3, <4>4, SumRemove
      <4>6. (T \cap D) \ {c} = R \cap D OBVIOUS
      <4> QED BY <3>3, <3>4, <4>1, <4>5, <4>6
    <3>6. CASE c \notin D
      <4>1. f[c] = 0 BY <3>1, <3>6
      <4>2. R \cap D = T \cap D BY <3>6
      <4>3. SumOver(g, R \cap D) \in Int
        <5>1. IsFiniteSet(R \cap D) BY <3>2, FS_Subset
        <5>2. \A x \in R \cap D : g[x] \in Int OBVIOUS
        <5> HIDE DEF R
        <5> QED BY <5>1, <5>2, SumInt
      <4> HIDE DEF R, c
      <4>4. SumOver(f, T) = SumOver(g, R \cap D)
        BY <3>3, <3>4, <4>1, <4>3
      <4>5. SumOver(f, T) = SumOver(g, T \cap D)
        BY <4>2, <4>4, Zenon
      <4> QED BY <4>5
    <3> QED BY <3>5, <3>6
  <2> QED BY <2>1, <2>2
<1>2. S \in G
  <2> HIDE DEF G
  <2> QED BY <1>1, SubsetInduction
<1> QED BY <1>2

\* The sum over one element is its value.
LEMMA SumSingle ==
    ASSUME NEW f, NEW a, f[a] \in Int
    PROVE  SumOver(f, {a}) = f[a]
<1>1. IsFiniteSet({a}) BY FS_Singleton
<1>2. SumOver(f, {a}) = f[a] + SumOver(f, {a} \ {a}) BY <1>1, SumRemove
<1>3. {a} \ {a} = {} OBVIOUS
<1> QED BY <1>2, <1>3, SumEmpty

\* The sum of nothing but zeros is zero.
LEMMA SumZero ==
    ASSUME NEW f, NEW S, IsFiniteSet(S), \A x \in S : f[x] = 0
    PROVE  SumOver(f, S) = 0
<1> DEFINE D == {}
<1>1. \A x \in S : f[x] = IF x \in D THEN f[x] ELSE 0  OBVIOUS
<1>2. \A x \in S \cap D : f[x] \in Int  OBVIOUS
<1>3. S \cap D = {}  OBVIOUS
<1> HIDE DEF D
<1>4. SumOver(f, S) = SumOver(f, S \cap D)  BY <1>1, <1>2, SumRestrict
<1> QED BY <1>3, <1>4, SumEmpty

\* Sums of functions that agree on S are equal.
LEMMA SumEqual ==
    ASSUME NEW f, NEW g, NEW S, IsFiniteSet(S),
           \A x \in S : f[x] = g[x] /\ g[x] \in Int
    PROVE  SumOver(f, S) = SumOver(g, S)
<1>1. \A x \in S : f[x] = IF x \in S THEN g[x] ELSE 0 OBVIOUS
<1>2. \A x \in S \cap S : g[x] \in Int OBVIOUS
<1>3. S \cap S = S OBVIOUS
<1> QED BY <1>1, <1>2, <1>3, SumRestrict

\* Outside D the elements of S may as well count nothing.
LEMMA SumIndicator ==
    ASSUME NEW c, NEW S, NEW D, IsFiniteSet(S), D \subseteq S,
           \A x \in D : c[x] \in Int
    PROVE  SumOver([x \in S |-> IF x \in D THEN c[x] ELSE 0], S) = SumOver(c, D)
<1> DEFINE gain == [x \in S |-> IF x \in D THEN c[x] ELSE 0]
<1>1. \A x \in S : gain[x] = IF x \in D THEN c[x] ELSE 0  OBVIOUS
<1>2. \A x \in S \cap D : c[x] \in Int  OBVIOUS
<1>3. S \cap D = D  OBVIOUS
<1> HIDE DEF gain
<1>4. SumOver(gain, S) = SumOver(c, S \cap D)  BY <1>1, <1>2, SumRestrict
<1> QED BY <1>3, <1>4 DEF gain

\* From f to g, a gives the elements of D what c has for them.
Paying(f, g, S, a, c, D, total) ==
    /\ IsFiniteSet(S) /\ D \subseteq S /\ a \in S
    /\ \A x \in S : f[x] \in Int
    /\ \A x \in D : c[x] \in Int
    /\ total = SumOver(c, D)
    /\ \A x \in S : g[x] = f[x] + (IF x \in D THEN c[x] ELSE 0)
                                - (IF x = a THEN total ELSE 0)

\* A sum does not change when one element gives what the elements of D get.
LEMMA SumPaid ==
    ASSUME NEW f, NEW g, NEW S, NEW a, NEW c, NEW D, NEW total,
           Paying(f, g, S, a, c, D, total)
    PROVE  SumOver(g, S) = SumOver(f, S)
<1> /\ IsFiniteSet(S) /\ D \subseteq S /\ a \in S
    /\ \A x \in S : f[x] \in Int
    /\ \A x \in D : c[x] \in Int
    /\ total = SumOver(c, D)
    /\ \A x \in S : g[x] = f[x] + (IF x \in D THEN c[x] ELSE 0)
                                - (IF x = a THEN total ELSE 0)
  BY DEF Paying
<1> DEFINE gain == [x \in S |-> IF x \in D THEN c[x] ELSE 0]
           debit == [x \in {a} |-> 0 - total]
           loss == [x \in S |-> IF x \in {a} THEN debit[x] ELSE 0]
           net == [x \in S |-> gain[x] + loss[x]]
<1>1. total \in Int
  <2>1. IsFiniteSet(D)  BY FS_Subset
  <2> QED BY <2>1, SumInt
<1>2. SumOver(gain, S) = total  BY SumIndicator
<1>3. SumOver(loss, S) = 0 - total
  <2>1. debit[a] = 0 - total  OBVIOUS
  <2>2. debit[a] \in Int /\ \A x \in {a} : debit[x] \in Int  BY <1>1, <2>1
  <2>3. {a} \subseteq S  OBVIOUS
  <2> HIDE DEF debit
  <2>4. SumOver(loss, S) = SumOver(debit, {a})  BY <2>2, <2>3, SumIndicator
  <2>5. SumOver(debit, {a}) = debit[a]  BY <2>2, SumSingle
  <2> QED BY <2>1, <2>4, <2>5
<1>4. \A x \in S : gain[x] \in Int /\ loss[x] \in Int  BY <1>1
<1>5. \A x \in S : g[x] = f[x] + net[x] /\ net[x] \in Int
  <2> SUFFICES ASSUME NEW x \in S PROVE g[x] = f[x] + net[x] /\ net[x] \in Int
    OBVIOUS
  <2>1. f[x] \in Int  OBVIOUS
  <2>2. loss[x] = 0 - (IF x = a THEN total ELSE 0)  BY <1>1
  <2>3. net[x] = gain[x] + loss[x]  OBVIOUS
  <2> QED BY <1>1, <1>4, <2>1, <2>2, <2>3
<1>6. \A x \in S : net[x] = gain[x] + loss[x]  OBVIOUS
<1> HIDE DEF gain, debit, loss, net
<1>7. SumOver(net, S) = SumOver(gain, S) + SumOver(loss, S)
  BY <1>4, <1>6, SumAdd
<1>8. SumOver(g, S) = SumOver(f, S) + SumOver(net, S)
  BY <1>5, SumAdd
<1>9. SumOver(f, S) \in Int  BY SumInt
<1> QED BY <1>1, <1>2, <1>3, <1>7, <1>8, <1>9

\* From f to g, a gives b the amount n; b may be a itself.
Giving(f, g, S, a, b, n) ==
    /\ IsFiniteSet(S) /\ a \in S /\ b \in S /\ n \in Int
    /\ \A x \in S : f[x] \in Int
    /\ \A x \in S : g[x] = f[x] + (IF x = b THEN n ELSE 0) - (IF x = a THEN n ELSE 0)

\* ... in particular when one other element gets it.
LEMMA SumMoved ==
    ASSUME NEW f, NEW g, NEW S, NEW a, NEW b, NEW n, Giving(f, g, S, a, b, n)
    PROVE  SumOver(g, S) = SumOver(f, S)
<1> /\ IsFiniteSet(S) /\ a \in S /\ b \in S /\ n \in Int
    /\ \A x \in S : f[x] \in Int
    /\ \A x \in S : g[x] = f[x] + (IF x = b THEN n ELSE 0) - (IF x = a THEN n ELSE 0)
  BY DEF Giving
<1> DEFINE D == {b}
           c == [x \in D |-> n]
           total == n
<1>1. D \subseteq S /\ \A x \in D : c[x] = n /\ c[x] \in Int  OBVIOUS
<1>2. total = SumOver(c, D)  BY SumSingle
<1>3. \A x \in S : g[x] = f[x] + (IF x \in D THEN c[x] ELSE 0)
                              - (IF x = a THEN total ELSE 0)
  OBVIOUS
<1>4. IsFiniteSet(S) /\ a \in S /\ \A x \in S : f[x] \in Int  OBVIOUS
<1> HIDE DEF D, c, total
<1>5. Paying(f, g, S, a, c, D, total)  BY <1>1, <1>2, <1>3, <1>4 DEF Paying
<1> QED BY <1>5, SumPaid

-----------------------------------------------------------------------------
(* Folds over sequences.  The operator folded cannot be a parameter of a    *)
(* theorem; its steps on a set A can.                                       *)

\* Induction over 0..n, from the one over its subsets.
LEMMA IntervalInduction ==
    ASSUME NEW n \in Nat, NEW G, 0 \in G, \A k \in 0..n - 1 : k \in G => k + 1 \in G
    PROVE  n \in G
<1> DEFINE H == {T \in SUBSET (0..n) : \A k \in 0..n : T = 0..k => k \in G}
<1>1. IsFiniteSet(0..n)  BY FS_Interval
<1>2. ASSUME NEW T \in SUBSET (0..n), \A U \in SUBSET T : U # T => U \in H
      PROVE  T \in H
  <2> SUFFICES ASSUME NEW k \in 0..n, T = 0..k PROVE k \in G  OBVIOUS
  <2>1. CASE k = 0  BY <2>1
  <2>2. CASE k # 0
    <3>1. k - 1 \in 0..n - 1 /\ 0..k - 1 \in SUBSET T /\ 0..k - 1 # T  BY <2>2
    <3>2. 0..k - 1 \in H  BY <1>2, <3>1
    <3>3. k - 1 \in G  BY <3>1, <3>2
    <3> QED BY <3>1, <3>3
  <2> QED BY <2>1, <2>2
<1>3. 0..n \in H
  <2> DEFINE S == 0..n
  <2> HIDE DEF H, S
  <2>1. IsFiniteSet(S)  BY <1>1 DEF S
  <2>2. \A T \in SUBSET S : (\A U \in SUBSET T : U # T => U \in H) => T \in H
    BY <1>2 DEF S
  <2>3. S \in H  BY <2>1, <2>2, SubsetInduction
  <2> QED BY <2>3 DEF S
<1>4. \A k \in 0..n : 0..n = 0..k => k \in G  BY <1>3
<1>5. n \in 0..n  OBVIOUS
<1> QED BY <1>4, <1>5

\* FoldLeft takes the elements from the last one down.
LEMMA MaxIs ==
    ASSUME NEW k \in Nat, NEW T \in SUBSET (1..k), k \in T
    PROVE  Max(T) = k
<1>1. \A y \in T : k >= y  OBVIOUS
<1>2. \A x \in T : (\A y \in T : x >= y) => x = k  OBVIOUS
<1> QED BY <1>1, <1>2 DEF Max

LEMMA MaxIn ==
    ASSUME NEW n \in Nat, NEW T \in SUBSET (1..n), T # {}
    PROVE  Max(T) \in T
<1> DEFINE G == {k \in 0..n : \A U \in SUBSET (1..k) : U # {} => Max(U) \in U}
<1>1. 0 \in G
  <2>1. 0 \in 0..n /\ 1..0 = {}  OBVIOUS
  <2>2. \A U \in SUBSET (1..0) : U = {}  BY <2>1
  <2> QED BY <2>1, <2>2
<1>2. ASSUME NEW k \in 0..n - 1, k \in G PROVE k + 1 \in G
  <2>1. ASSUME NEW U \in SUBSET (1..k + 1), U # {} PROVE Max(U) \in U
    <3>1. CASE k + 1 \in U  BY <3>1, MaxIs
    <3>2. CASE k + 1 \notin U
      <4>1. U \in SUBSET (1..k)  BY <3>2
      <4> QED BY <1>2, <2>1, <4>1
    <3> QED BY <3>1, <3>2
  <2>2. k + 1 \in 0..n  OBVIOUS
  <2> QED BY <2>1, <2>2
<1>3. n \in G
  <2> HIDE DEF G
  <2> QED BY <1>1, <1>2, IntervalInduction
<1> QED BY <1>3

IsFold(g, base, R, n) ==
    \A T \in SUBSET (1..n) :
        g[T] = IF T = {} THEN base ELSE R[Max(T)][g[T \ {Max(T)}]]

\* The recursive function that FoldLeft chooses exists, if each of its steps
\* stays in some set A; R[i] is the step for the i-th element.
LEMMA FoldExists ==
    ASSUME NEW n \in Nat, NEW A, NEW base \in A, NEW R \in [1..n -> [A -> A]]
    PROVE  \E g \in [SUBSET (1..n) -> A] : IsFold(g, base, R, n)
<1> DEFINE Rec(g, k) == IsFold(g, base, R, k)
           G == {k \in 0..n : \E g \in [SUBSET (1..k) -> A] : Rec(g, k)}
<1>1. 0 \in G
  <2> DEFINE g == [T \in SUBSET (1..0) |-> base]
  <2>1. \A T \in SUBSET (1..0) : T = {}  OBVIOUS
  <2>2. g \in [SUBSET (1..0) -> A] /\ Rec(g, 0)  BY <2>1 DEF IsFold
  <2>3. 0 \in 0..n  OBVIOUS
  <2> HIDE DEF g, Rec
  <2> QED BY <2>2, <2>3
<1>2. ASSUME NEW k \in 0..n - 1, k \in G PROVE k + 1 \in G
  <2>1. PICK g \in [SUBSET (1..k) -> A] : Rec(g, k)  BY <1>2
  <2> DEFINE h == [T \in SUBSET (1..k + 1) |->
                     IF k + 1 \in T THEN R[k + 1][g[T \ {k + 1}]] ELSE g[T]]
  <2>2. ASSUME NEW T \in SUBSET (1..k + 1), k + 1 \notin T
        PROVE  T \in SUBSET (1..k)
    BY <2>2
  <2>3. ASSUME NEW T \in SUBSET (1..k + 1)
        PROVE  T \ {k + 1} \in SUBSET (1..k)
    OBVIOUS
  <2>4. R[k + 1] \in [A -> A]  OBVIOUS
  <2>5. h \in [SUBSET (1..k + 1) -> A]  BY <2>2, <2>3, <2>4
  <2>6. ASSUME NEW T \in SUBSET (1..k) PROVE h[T] = g[T]
    <3>1. k + 1 \notin T /\ T \in SUBSET (1..k + 1)  OBVIOUS
    <3> QED BY <3>1
  <2>7. ASSUME NEW T \in SUBSET (1..k + 1)
        PROVE  h[T] = IF T = {} THEN base ELSE R[Max(T)][h[T \ {Max(T)}]]
    <3>1. CASE k + 1 \in T
      <4>1. Max(T) = k + 1 /\ T # {}  BY <3>1, MaxIs
      <4>2. h[T \ {k + 1}] = g[T \ {k + 1}]  BY <2>3, <2>6
      <4>3. h[T] = R[k + 1][g[T \ {k + 1}]]  BY <3>1
      <4> HIDE DEF h
      <4> QED BY <4>1, <4>2, <4>3
    <3>2. CASE k + 1 \notin T
      <4>1. T \in SUBSET (1..k) /\ T \ {Max(T)} \in SUBSET (1..k)  BY <2>2, <3>2
      <4>2. h[T] = g[T] /\ h[T \ {Max(T)}] = g[T \ {Max(T)}]  BY <2>6, <4>1
      <4> HIDE DEF h
      <4> QED BY <2>1, <4>1, <4>2 DEF IsFold
    <3> QED BY <3>1, <3>2
  <2> HIDE DEF h
  <2>8. Rec(h, k + 1) /\ k + 1 \in 0..n  BY <2>7 DEF IsFold
  <2> HIDE DEF Rec
  <2> QED BY <2>5, <2>8
<1>3. n \in G
  <2> HIDE DEF G
  <2> QED BY <1>1, <1>2, IntervalInduction
<1> QED BY <1>3

\* Two functions that agree below T agree on T: then they agree on the whole.
LEMMA FoldUnique ==
    ASSUME NEW n \in Nat, NEW g, NEW h, g[{}] = h[{}],
           \A T \in SUBSET (1..n) :
              T # {} /\ g[T \ {Max(T)}] = h[T \ {Max(T)}] => g[T] = h[T]
    PROVE  g[1..n] = h[1..n]
<1> DEFINE S == 1..n
           G == {T \in SUBSET S : g[T] = h[T]}
<1>1. IsFiniteSet(S)  BY FS_Interval
<1>2. ASSUME NEW T \in SUBSET S, \A U \in SUBSET T : U # T => U \in G
      PROVE  T \in G
  <2>1. CASE T = {}  BY <2>1
  <2>2. CASE T # {}
    <3>1. Max(T) \in T  BY <2>2, MaxIn
    <3>2. T \ {Max(T)} \in G  BY <1>2, <3>1
    <3> QED BY <2>2, <3>2
  <2> QED BY <2>1, <2>2
<1>3. S \in G
  <2> HIDE DEF G, S
  <2> QED BY <1>1, <1>2, SubsetInduction
<1> QED BY <1>3

\* What the fold holds after each of the elements.
IsTrace(h, base, R, n) == h[0] = base /\ \A i \in 1..n : h[i] = R[i][h[i - 1]]

\* The function unfolds like the fold, at least inside A.
Unfolds(it, A, base, R, n) ==
    /\ it[{}] = base
    /\ \A T \in SUBSET (1..n) :
          T # {} /\ it[T \ {Max(T)}] \in A => it[T] = R[Max(T)][it[T \ {Max(T)}]]

\* The function ends where the trace ends.
Traced(h, it, base, R, n) == IsTrace(h, base, R, n) /\ it[1..n] = h[n]

\* A function that unfolds like the fold has a trace, and it stays inside A.
LEMMA Unrolled ==
    ASSUME NEW n \in Nat, NEW A, NEW base \in A, NEW R \in [1..n -> [A -> A]],
           NEW it, Unfolds(it, A, base, R, n)
    PROVE  \E h \in [0..n -> A] : Traced(h, it, base, R, n)
<1>1. PICK g \in [SUBSET (1..n) -> A] : IsFold(g, base, R, n)  BY FoldExists
<1> DEFINE h == [i \in 0..n |-> g[1..i]]
<1>2. h \in [0..n -> A]
  <2>1. \A i \in 0..n : 1..i \in SUBSET (1..n)  OBVIOUS
  <2> QED BY <2>1
<1>3. h[0] = base
  <2>1. 1..0 = {} /\ 0 \in 0..n /\ {} \in SUBSET (1..n)  OBVIOUS
  <2> QED BY <1>1, <2>1 DEF IsFold
<1>4. ASSUME NEW i \in 1..n PROVE h[i] = R[i][h[i - 1]]
  <2>1. /\ 1..i \in SUBSET (1..n) /\ i \in 1..i /\ i \in Nat /\ 1..i # {}
        /\ (1..i) \ {i} = 1..i - 1 /\ i \in 0..n /\ i - 1 \in 0..n
    <3>1. n \in Nat /\ i \in 1..n  OBVIOUS
    <3> QED BY ONLY <3>1
  <2>2. Max(1..i) = i  BY <2>1, MaxIs
  <2>3. g[1..i] = R[i][g[1..i - 1]]  BY <1>1, <2>1, <2>2 DEF IsFold
  <2> QED BY <2>1, <2>3
<1>5. g[1..n] = it[1..n]
  <2>1. g[{}] = it[{}]
    <3>1. {} \in SUBSET (1..n)  OBVIOUS
    <3> QED BY <1>1, <3>1 DEF IsFold, Unfolds
  <2>2. ASSUME NEW T \in SUBSET (1..n), T # {}, g[T \ {Max(T)}] = it[T \ {Max(T)}]
        PROVE  g[T] = it[T]
    <3>1. T \ {Max(T)} \in SUBSET (1..n)  OBVIOUS
    <3>2. it[T \ {Max(T)}] \in A  BY <2>2, <3>1
    <3>3. it[T] = R[Max(T)][it[T \ {Max(T)}]]  BY <2>2, <3>2 DEF Unfolds
    <3>4. g[T] = R[Max(T)][g[T \ {Max(T)}]]  BY <1>1, <2>2 DEF IsFold
    <3> QED BY <2>2, <3>3, <3>4
  <2> QED BY <2>1, <2>2, FoldUnique
<1>6. h[n] = it[1..n]  BY <1>5
<1> HIDE DEF h
<1>7. Traced(h, it, base, R, n)  BY <1>3, <1>4, <1>6 DEF Traced, IsTrace
<1> QED BY <1>2, <1>7

-----------------------------------------------------------------------------
(* Sums compared, and sums over the positions of a sequence. *)

\* g is f, but for element a, which is d more.
Changed(f, g, S, a, d) ==
    \A x \in S : f[x] \in Int /\ g[x] = f[x] + (IF x = a THEN d ELSE 0)

\* A sum in which one element changes by d changes by d.
LEMMA SumChanged ==
    ASSUME NEW f, NEW g, NEW S, IsFiniteSet(S), NEW a \in S, NEW d \in Int,
           Changed(f, g, S, a, d)
    PROVE  SumOver(g, S) = SumOver(f, S) + d
<1> USE DEF Changed
<1> DEFINE R == S \ {a}
<1>1. IsFiniteSet(R)  BY FS_Subset
<1>2. \A x \in S : g[x] \in Int  OBVIOUS
<1>3. SumOver(f, S) = f[a] + SumOver(f, R)  BY SumRemove
<1>4. SumOver(g, S) = g[a] + SumOver(g, R)  BY <1>2, SumRemove
<1>5. SumOver(g, R) = SumOver(f, R) /\ SumOver(f, R) \in Int
  <2>1. \A x \in R : g[x] = f[x] /\ f[x] \in Int  OBVIOUS
  <2> HIDE DEF R
  <2> QED BY <1>1, <2>1, SumEqual, SumInt
<1> HIDE DEF R
<1> QED BY <1>3, <1>4, <1>5

\* A sum of naturals is one.
LEMMA SumNat ==
    ASSUME NEW f, NEW S, IsFiniteSet(S), \A x \in S : f[x] \in Nat
    PROVE  SumOver(f, S) \in Nat
<1> DEFINE G == {T \in SUBSET S : SumOver(f, T) \in Nat}
<1>1. ASSUME NEW T \in SUBSET S, \A U \in SUBSET T : U # T => U \in G
      PROVE  T \in G
  <2>1. CASE T = {}
    <3>1. SumOver(f, {}) = 0 BY SumEmpty
    <3> QED BY <3>1, <2>1
  <2>2. CASE T # {}
    <3>1. Pick(T) \in T BY <2>2, PickIn
    <3>2. SumOver(f, T \ {Pick(T)}) \in Nat BY <1>1, <3>1
    <3>3. IsFiniteSet(T) BY FS_Subset
    <3>4. SumOver(f, T) = f[Pick(T)] + SumOver(f, T \ {Pick(T)})
      BY <2>2, <3>3, SumUnfold
    <3> QED BY <3>1, <3>2, <3>4
  <2> QED BY <2>1, <2>2
<1>2. S \in G
  <2> HIDE DEF G
  <2> QED BY <1>1, SubsetInduction
<1> QED BY <1>2

\* One position more.
LEMMA SumNext ==
    ASSUME NEW n \in Nat, NEW f, \A i \in 1..n + 1 : f[i] \in Int
    PROVE  SumOver(f, 1..n + 1) = SumOver(f, 1..n) + f[n + 1]
<1> DEFINE S == 1..n + 1
<1>1. IsFiniteSet(S) /\ n + 1 \in S /\ S \ {n + 1} = 1..n  BY FS_Interval
<1>2. IsFiniteSet(1..n) /\ \A i \in 1..n : f[i] \in Int  BY FS_Interval
<1>3. SumOver(f, 1..n) \in Int  BY <1>2, SumInt
<1>4. \A i \in S : f[i] \in Int  OBVIOUS
<1>5. SumOver(f, S) = f[n + 1] + SumOver(f, S \ {n + 1})
  <2> HIDE DEF S
  <2> QED BY <1>1, <1>4, SumRemove
<1>6. f[n + 1] \in Int  BY <1>1, <1>4
<1>7. SumOver(f, S) = f[n + 1] + SumOver(f, 1..n)  BY <1>1, <1>5
<1> HIDE DEF S
<1>8. SumOver(f, S) = SumOver(f, 1..n) + f[n + 1]  BY <1>3, <1>6, <1>7
<1> QED BY <1>8 DEF S
=============================================================================
