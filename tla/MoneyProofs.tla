---------------------------- MODULE MoneyProofs ----------------------------
(* Theorems about Money: what sums over finite sets are equal to, and that an *)
(* allocation accounts for every penny. The sums of the model are folds; an   *)
(* induction over the sets they run over is the choice of a least subset for  *)
(* which a statement would fail.                                              *)
EXTENDS Money, FiniteSetTheorems, TLAPS

SumIn(f, S) == SumFunctionOnSet(f, S)

LEMMA SumIsSumIn == ASSUME NEW f PROVE SumFunction(f) = SumIn(f, DOMAIN f)
  BY DEF SumFunction, SumIn

(*---------------------------- least counterexamples ----------------------*)
LEMMA LeastSubset ==
  ASSUME NEW S, IsFiniteSet(S), NEW Bad, Bad \subseteq SUBSET S, Bad # {}
  PROVE  \E U \in Bad : \A V \in Bad : ~(V \subseteq U /\ V # U)
<1> DEFINE R == StrictSubsetOrdering(S)
<1>1. IsWellFoundedOn(R, FiniteSubsetsOf(S))
  BY FS_StrictSubsetOrderingWellFounded
<1>2. Bad \subseteq FiniteSubsetsOf(S)
  BY FS_Subset DEF FiniteSubsetsOf
<1> HIDE DEF R
<1>3. PICK U \in Bad : \A V \in Bad : ~(<<V, U>> \in R)
  BY <1>1, <1>2, WFMin
<1> USE DEF R
<1>4. ASSUME NEW V \in Bad, V \subseteq U, V # U PROVE FALSE
  BY <1>3, <1>4 DEF StrictSubsetOrdering
<1> QED
  BY <1>4

(*------------------------------- the fold --------------------------------*)
Pick(s) == CHOOSE x \in s : TRUE

Adds(g, f, S) ==
  g = [s \in SUBSET S |-> IF s = {} THEN 0 ELSE f[Pick(s)] + g[s \ {Pick(s)}]]

AdderOf(f, S) == CHOOSE g : Adds(g, f, S)

LEMMA SumIsAdded == ASSUME NEW f, NEW S PROVE SumIn(f, S) = AdderOf(f, S)[S]
  BY DEF SumIn, SumFunctionOnSet, FoldFunctionOnSet, MapThenFoldSet, AdderOf, Adds, Pick

LEMMA PickIn == ASSUME NEW s, s # {} PROVE Pick(s) \in s
  BY DEF Pick

LEMMA AddsAgree ==
  ASSUME NEW f, NEW g, NEW h, NEW S, NEW T, IsFiniteSet(S), Adds(g, f, S), Adds(h, f, T),
         NEW U, U \subseteq S, U \subseteq T
  PROVE  g[U] = h[U]
<1> DEFINE Bad == {V \in SUBSET S : V \subseteq T /\ g[V] # h[V]}
<1> SUFFICES ASSUME Bad # {} PROVE FALSE
  OBVIOUS
<1>0. Bad \subseteq SUBSET S
  OBVIOUS
<1> HIDE DEF Bad
<1>1. PICK V \in Bad : \A W \in Bad : ~(W \subseteq V /\ W # V)
  BY <1>0, LeastSubset
<1>2. V \subseteq S /\ V \subseteq T /\ g[V] # h[V]
  BY DEF Bad
<1>3. CASE V = {}
  BY <1>2, <1>3 DEF Adds
<1>4. CASE V # {}
  <2> DEFINE W == V \ {Pick(V)}
  <2>1. W \subseteq V /\ W # V
    BY <1>4, PickIn
  <2>2. g[W] = h[W]
    BY <1>1, <1>2, <2>1 DEF Bad
  <2>3. g[V] = f[Pick(V)] + g[W] /\ h[V] = f[Pick(V)] + h[W]
    BY <1>2, <1>4 DEF Adds
  <2> QED
    BY <1>2, <2>2, <2>3
<1> QED
  BY <1>3, <1>4

LEMMA AdderExists ==
  ASSUME NEW f, NEW S, IsFiniteSet(S)
  PROVE  Adds(AdderOf(f, S), f, S)
<1> DEFINE Bad == {V \in SUBSET S : ~\E g : Adds(g, f, V)}
<1>1. SUFFICES Bad = {}
  BY DEF AdderOf
<1> SUFFICES ASSUME Bad # {} PROVE FALSE
  OBVIOUS
<1>0. Bad \subseteq SUBSET S
  OBVIOUS
<1> HIDE DEF Bad
<1>2. PICK V \in Bad : \A W \in Bad : ~(W \subseteq V /\ W # V)
  BY <1>0, LeastSubset
<1>3. V \subseteq S
  BY DEF Bad
<1> DEFINE A(W) == AdderOf(f, W)
<1>4. ASSUME NEW W, W \subseteq V, W # V PROVE Adds(A(W), f, W)
  BY <1>2, <1>3, <1>4 DEF Bad, AdderOf
<1> DEFINE g == [s \in SUBSET V |-> IF s = {} THEN 0
                                    ELSE f[Pick(s)] + A(s \ {Pick(s)})[s \ {Pick(s)}]]
<1>5. ASSUME NEW s \in SUBSET V, s # V PROVE g[s] = A(s)[s]
  <2>1. Adds(A(s), f, s)
    BY <1>4, <1>5
  <2>2. CASE s = {}
    BY <2>1, <2>2 DEF Adds
  <2>3. CASE s # {}
    <3> DEFINE r == s \ {Pick(s)}
    <3>1. r \subseteq V /\ r # V /\ r \subseteq s
      BY <1>5, <2>3, PickIn
    <3>2. Adds(A(r), f, r)
      BY <1>4, <3>1
    <3>3. IsFiniteSet(s)
      BY <1>3, FS_Subset
    <3>4. A(s)[r] = A(r)[r]
      BY <2>1, <3>1, <3>2, <3>3, AddsAgree
    <3>5. A(s)[s] = f[Pick(s)] + A(s)[r]
      BY <2>1, <2>3 DEF Adds
    <3> QED
      BY <2>3, <3>4, <3>5
  <2> QED
    BY <2>2, <2>3
<1>6. Adds(g, f, V)
  <2> SUFFICES ASSUME NEW s \in SUBSET V
               PROVE  g[s] = IF s = {} THEN 0 ELSE f[Pick(s)] + g[s \ {Pick(s)}]
    BY DEF Adds
  <2>1. CASE s = {}
    BY <2>1
  <2>2. CASE s # {}
    <3>1. s \ {Pick(s)} \in SUBSET V /\ s \ {Pick(s)} # V
      BY <2>2, PickIn
    <3>2. g[s \ {Pick(s)}] = A(s \ {Pick(s)})[s \ {Pick(s)}]
      BY <1>5, <3>1
    <3> HIDE DEF A
    <3> QED
      BY <2>2, <3>2
  <2> QED
    BY <2>1, <2>2
<1> QED
  BY <1>2, <1>6 DEF Bad

(* A sum is the picked element's amount and the sum of the others.            *)
LEMMA SumUnfolds ==
  ASSUME NEW f, NEW S, IsFiniteSet(S)
  PROVE  /\ S = {} => SumIn(f, S) = 0
         /\ S # {} => SumIn(f, S) = f[Pick(S)] + SumIn(f, S \ {Pick(S)})
<1>1. Adds(AdderOf(f, S), f, S)
  BY AdderExists
<1>2. CASE S = {}
  BY <1>1, <1>2, SumIsAdded DEF Adds
<1>3. CASE S # {}
  <2> DEFINE T == S \ {Pick(S)}
  <2>1. IsFiniteSet(T) /\ T \subseteq S
    BY FS_Subset
  <2>2. Adds(AdderOf(f, T), f, T)
    BY <2>1, AdderExists
  <2>3. AdderOf(f, S)[T] = AdderOf(f, T)[T]
    BY <1>1, <2>1, <2>2, AddsAgree
  <2>4. AdderOf(f, S)[S] = f[Pick(S)] + AdderOf(f, S)[T]
    BY <1>1, <1>3 DEF Adds
  <2> QED
    BY <1>3, <2>3, <2>4, SumIsAdded
<1> QED
  BY <1>2, <1>3

(*--------------------------- facts about sums ----------------------------*)
(* A set for which the statement first fails: empty, or one element more than *)
(* a set for which it holds. The facts below are proved by excluding both.    *)
LEMMA SumEmpty == ASSUME NEW f PROVE SumIn(f, {}) = 0
<1>1. IsFiniteSet({})
  BY FS_EmptySet
<1> QED
  BY <1>1, SumUnfolds

LEMMA SumType ==
  ASSUME NEW f, NEW S, IsFiniteSet(S), \A x \in S : f[x] \in Int
  PROVE  SumIn(f, S) \in Int
<1> DEFINE Bad == {V \in SUBSET S : SumIn(f, V) \notin Int}
<1> SUFFICES ASSUME Bad # {} PROVE FALSE
  BY DEF Bad
<1>0. Bad \subseteq SUBSET S
  OBVIOUS
<1> HIDE DEF Bad
<1>1. PICK V \in Bad : \A W \in Bad : ~(W \subseteq V /\ W # V)
  BY <1>0, LeastSubset
<1>2. V \subseteq S /\ IsFiniteSet(V) /\ SumIn(f, V) \notin Int
  BY <1>0, FS_Subset DEF Bad
<1>3. V # {}
  BY <1>2, SumEmpty
<1>4. Pick(V) \in V
  BY <1>3, PickIn
<1>5. SumIn(f, V \ {Pick(V)}) \in Int
  BY <1>1, <1>2, <1>4 DEF Bad
<1>6. SumIn(f, V) = f[Pick(V)] + SumIn(f, V \ {Pick(V)})
  BY <1>2, <1>3, SumUnfolds
<1>7. f[Pick(V)] \in Int
  BY <1>2, <1>4
<1> QED
  BY <1>2, <1>5, <1>6, <1>7

LEMMA PlusSwaps == \A a, b, c \in Int : a + (b + c) = b + (a + c)
  OBVIOUS

(* Any element can be taken out first.                                        *)
LEMMA SumRemove ==
  ASSUME NEW f, NEW S, IsFiniteSet(S), \A x \in S : f[x] \in Int, NEW a \in S
  PROVE  SumIn(f, S) = f[a] + SumIn(f, S \ {a})
<1> DEFINE Bad == {V \in SUBSET S : \E x \in V : SumIn(f, V) # f[x] + SumIn(f, V \ {x})}
<1> SUFFICES ASSUME Bad # {} PROVE FALSE
  BY DEF Bad
<1>0. Bad \subseteq SUBSET S
  OBVIOUS
<1> HIDE DEF Bad
<1>1. PICK V \in Bad : \A W \in Bad : ~(W \subseteq V /\ W # V)
  BY <1>0, LeastSubset
<1>2. PICK x \in V : SumIn(f, V) # f[x] + SumIn(f, V \ {x})
  BY DEF Bad
<1>3. V \subseteq S /\ IsFiniteSet(V)
  BY <1>0, FS_Subset
<1> DEFINE p == Pick(V)
<1> DEFINE Rest == (V \ {p}) \ {x}
<1>4. p \in V /\ SumIn(f, V) = f[p] + SumIn(f, V \ {p})
  BY <1>3, PickIn, SumUnfolds
<1>5. p # x
  BY <1>2, <1>4
<1>6. IsFiniteSet(V \ {p}) /\ IsFiniteSet(V \ {x}) /\ IsFiniteSet(Rest)
  BY <1>3, FS_Subset
<1>7. SumIn(f, V \ {p}) = f[x] + SumIn(f, Rest)
  BY <1>1, <1>3, <1>4, <1>5 DEF Bad
<1>8. V \ {x} \subseteq V /\ V \ {x} # V /\ p \in V \ {x}
  BY <1>4, <1>5
<1>9. SumIn(f, V \ {x}) = f[p] + SumIn(f, (V \ {x}) \ {p})
  BY <1>1, <1>3, <1>8 DEF Bad
<1>10. (V \ {x}) \ {p} = Rest
  OBVIOUS
<1>11. f[x] \in Int /\ f[p] \in Int /\ SumIn(f, Rest) \in Int
  <2>1. \A y \in Rest : f[y] \in Int
    BY <1>3
  <2> HIDE DEF Rest
  <2> QED
    BY <1>3, <1>4, <1>6, <2>1, SumType
<1>12. SumIn(f, V) = f[p] + (f[x] + SumIn(f, Rest))
  BY <1>4, <1>7
<1>13. SumIn(f, V \ {x}) = f[p] + SumIn(f, Rest)
  BY <1>9, <1>10
<1>14. f[p] + (f[x] + SumIn(f, Rest)) = f[x] + (f[p] + SumIn(f, Rest))
  <2> HIDE DEF Rest, p
  <2> QED
    BY <1>11, PlusSwaps
<1> QED
  BY <1>2, <1>12, <1>13, <1>14

(* One more element.                                                          *)
LEMMA SumAdd ==
  ASSUME NEW f, NEW S, IsFiniteSet(S), NEW a, a \notin S, \A x \in S \cup {a} : f[x] \in Int
  PROVE  SumIn(f, S \cup {a}) = f[a] + SumIn(f, S)
<1>1. IsFiniteSet(S \cup {a})
  BY FS_AddElement
<1>2. (S \cup {a}) \ {a} = S /\ a \in S \cup {a}
  OBVIOUS
<1> QED
  BY <1>1, <1>2, SumRemove

LEMMA SumSingleton == ASSUME NEW f, NEW a, f[a] \in Int PROVE SumIn(f, {a}) = f[a]
<1>1. IsFiniteSet({}) /\ {} \cup {a} = {a}
  BY FS_EmptySet
<1>2. SumIn(f, {a}) = f[a] + SumIn(f, {})
  BY <1>1, SumAdd
<1> QED
  BY <1>2, SumEmpty

(* What holds of no element and is kept by one more holds of every set.       *)
LEMMA OneByOne ==
  ASSUME NEW S, IsFiniteSet(S), NEW Holds, {} \in Holds,
         \A V \in SUBSET S : \A x \in S \ V : V \in Holds => V \cup {x} \in Holds
  PROVE  S \in Holds
<1> DEFINE Bad == {V \in SUBSET S : V \notin Holds}
<1> SUFFICES ASSUME Bad # {} PROVE FALSE
  BY DEF Bad
<1>0. Bad \subseteq SUBSET S
  OBVIOUS
<1> HIDE DEF Bad
<1>1. PICK V \in Bad : \A W \in Bad : ~(W \subseteq V /\ W # V)
  BY <1>0, LeastSubset
<1>2. V \subseteq S /\ V \notin Holds
  BY DEF Bad
<1>3. PICK x \in V : TRUE
  BY <1>2
<1>4. V \ {x} \in Holds
  BY <1>1, <1>2 DEF Bad
<1>5. (V \ {x}) \cup {x} = V /\ x \notin V \ {x} /\ V \ {x} \in SUBSET S
  BY <1>2
<1> QED
  BY <1>2, <1>3, <1>4, <1>5

LEMMA SumCongruent ==
  ASSUME NEW f, NEW g, NEW S, IsFiniteSet(S), \A x \in S : f[x] \in Int /\ g[x] = f[x]
  PROVE  SumIn(g, S) = SumIn(f, S)
<1> DEFINE Holds == {V \in SUBSET S : SumIn(g, V) = SumIn(f, V)}
<1>1. {} \in Holds
  BY SumEmpty
<1>2. ASSUME NEW V \in SUBSET S, NEW x \in S \ V, V \in Holds PROVE V \cup {x} \in Holds
  <2>1. IsFiniteSet(V) /\ \A y \in V \cup {x} : f[y] \in Int /\ g[y] \in Int
    BY FS_Subset
  <2>2. SumIn(f, V \cup {x}) = f[x] + SumIn(f, V) /\ SumIn(g, V \cup {x}) = g[x] + SumIn(g, V)
    BY <2>1, SumAdd
  <2> QED
    BY <1>2, <2>2
<1> HIDE DEF Holds
<1>3. S \in Holds
  BY <1>1, <1>2, OneByOne
<1> QED
  BY <1>3 DEF Holds

LEMMA PlusOfPairs == \A a, b, c, d \in Int : (a + b) + (c + d) = (a + c) + (b + d)
  OBVIOUS

LEMMA SumPlus ==
  ASSUME NEW f, NEW g, NEW h, NEW S, IsFiniteSet(S),
         \A x \in S : f[x] \in Int /\ g[x] \in Int /\ h[x] = f[x] + g[x]
  PROVE  SumIn(h, S) = SumIn(f, S) + SumIn(g, S)
<1> DEFINE Holds == {V \in SUBSET S : SumIn(h, V) = SumIn(f, V) + SumIn(g, V)}
<1>1. {} \in Holds
  BY SumEmpty
<1>2. ASSUME NEW V \in SUBSET S, NEW x \in S \ V, V \in Holds PROVE V \cup {x} \in Holds
  <2>1. IsFiniteSet(V) /\ \A y \in V \cup {x} : f[y] \in Int /\ g[y] \in Int /\ h[y] \in Int
    BY FS_Subset
  <2>2. SumIn(f, V) \in Int /\ SumIn(g, V) \in Int
    BY <2>1, SumType
  <2>3. SumIn(f, V \cup {x}) = f[x] + SumIn(f, V)
    BY <2>1, SumAdd
  <2>4. SumIn(g, V \cup {x}) = g[x] + SumIn(g, V)
    BY <2>1, SumAdd
  <2>5. SumIn(h, V \cup {x}) = (f[x] + g[x]) + (SumIn(f, V) + SumIn(g, V))
    BY <1>2, <2>1, SumAdd
  <2>6. SumIn(h, V \cup {x}) = (f[x] + SumIn(f, V)) + (g[x] + SumIn(g, V))
    BY <2>1, <2>2, <2>5, PlusOfPairs
  <2> QED
    BY <2>3, <2>4, <2>6
<1> HIDE DEF Holds
<1>3. S \in Holds
  BY <1>1, <1>2, OneByOne
<1> QED
  BY <1>3 DEF Holds

LEMMA TimesOfPlus == \A c, a, b \in Int : c * a + c * b = c * (a + b) /\ c * 0 = 0
  BY SMT

LEMMA SumScaled ==
  ASSUME NEW f, NEW h, NEW c \in Int, NEW S, IsFiniteSet(S),
         \A x \in S : f[x] \in Int /\ h[x] = c * f[x]
  PROVE  SumIn(h, S) = c * SumIn(f, S)
<1> DEFINE Holds == {V \in SUBSET S : SumIn(h, V) = c * SumIn(f, V)}
<1>1. {} \in Holds
  BY SumEmpty, TimesOfPlus
<1>2. ASSUME NEW V \in SUBSET S, NEW x \in S \ V, V \in Holds PROVE V \cup {x} \in Holds
  <2>1. IsFiniteSet(V) /\ \A y \in V \cup {x} : f[y] \in Int /\ h[y] \in Int
    BY FS_Subset
  <2>2. SumIn(f, V) \in Int
    BY <2>1, SumType
  <2>3. SumIn(f, V \cup {x}) = f[x] + SumIn(f, V)
    BY <2>1, SumAdd
  <2>4. SumIn(h, V \cup {x}) = c * f[x] + c * SumIn(f, V)
    BY <1>2, <2>1, SumAdd
  <2>5. f[x] \in Int
    OBVIOUS
  <2> QED
    BY <2>2, <2>3, <2>4, <2>5, TimesOfPlus
<1> HIDE DEF Holds
<1>3. S \in Holds
  BY <1>1, <1>2, OneByOne
<1> QED
  BY <1>3 DEF Holds

LEMMA PlusAssociates == \A a, b, c \in Int : (a + b) + c = a + (b + c)
  OBVIOUS

LEMMA SumUnion ==
  ASSUME NEW f, NEW S, NEW T, IsFiniteSet(S), IsFiniteSet(T), S \cap T = {},
         \A x \in S \cup T : f[x] \in Int
  PROVE  SumIn(f, S \cup T) = SumIn(f, S) + SumIn(f, T)
<1> DEFINE Holds == {V \in SUBSET S : SumIn(f, V \cup T) = SumIn(f, V) + SumIn(f, T)}
<1>0. SumIn(f, T) \in Int
  BY SumType
<1>1. {} \in Holds
  <2>1. {} \cup T = T
    OBVIOUS
  <2>2. SumIn(f, {} \cup T) = SumIn(f, {}) + SumIn(f, T)
    BY <1>0, <2>1, SumEmpty
  <2> QED
    BY <2>2
<1>2. ASSUME NEW V \in SUBSET S, NEW x \in S \ V, V \in Holds PROVE V \cup {x} \in Holds
  <2>1. IsFiniteSet(V) /\ (\A y \in V \cup {x} : f[y] \in Int) /\ (\A y \in V : f[y] \in Int)
    BY FS_Subset
  <2>2. SumIn(f, V) \in Int
    BY <2>1, SumType
  <2>3. SumIn(f, V \cup {x}) = f[x] + SumIn(f, V)
    BY <2>1, SumAdd
  <2>4. IsFiniteSet(V \cup T) /\ x \notin V \cup T /\ \A y \in (V \cup T) \cup {x} : f[y] \in Int
    BY <2>1, FS_Union
  <2>5. SumIn(f, (V \cup T) \cup {x}) = f[x] + SumIn(f, V \cup T)
    BY <2>4, SumAdd
  <2>6. (V \cup {x}) \cup T = (V \cup T) \cup {x}
    OBVIOUS
  <2>7. SumIn(f, V \cup T) = SumIn(f, V) + SumIn(f, T)
    BY <1>2
  <2>8. SumIn(f, (V \cup {x}) \cup T) = (f[x] + SumIn(f, V)) + SumIn(f, T)
    <3>1. f[x] \in Int
      OBVIOUS
    <3>2. SumIn(f, (V \cup {x}) \cup T) = f[x] + (SumIn(f, V) + SumIn(f, T))
      BY <2>5, <2>6, <2>7
    <3> QED
      BY <1>0, <2>2, <3>1, <3>2, PlusAssociates
  <2>9. SumIn(f, (V \cup {x}) \cup T) = SumIn(f, V \cup {x}) + SumIn(f, T)
    BY <2>3, <2>8
  <2> QED
    BY <2>9
<1> HIDE DEF Holds
<1>3. S \in Holds
  BY <1>1, <1>2, OneByOne
<1> QED
  BY <1>3 DEF Holds

LEMMA ImageIsFinite ==
  ASSUME NEW b, NEW S, IsFiniteSet(S), NEW T, T = {b[x] : x \in S}
  PROVE  IsFiniteSet(T) /\ Cardinality(T) <= Cardinality(S)
<1>1. [x \in S |-> b[x]] \in Surjection(S, T)
  BY DEF Surjection
<1> QED
  BY <1>1, FS_Surjection

(* The same amounts under other names.                                        *)
LEMMA SumRenamed ==
  ASSUME NEW f, NEW g, NEW b, NEW S, IsFiniteSet(S),
         \A x \in S : f[x] \in Int /\ g[b[x]] = f[x],
         \A x, y \in S : b[x] = b[y] => x = y
  PROVE  SumIn(g, {b[x] : x \in S}) = SumIn(f, S)
<1> DEFINE Image(V) == {b[x] : x \in V}
<1> DEFINE Holds == {V \in SUBSET S : SumIn(g, Image(V)) = SumIn(f, V)}
<1>1. {} \in Holds
  <2>1. Image({}) = {}
    OBVIOUS
  <2>2. SumIn(g, Image({})) = SumIn(f, {})
    BY <2>1, SumEmpty
  <2> QED
    BY <2>2
<1>2. ASSUME NEW V \in SUBSET S, NEW x \in S \ V, V \in Holds PROVE V \cup {x} \in Holds
  <2>1. IsFiniteSet(V) /\ \A y \in V \cup {x} : f[y] \in Int
    BY FS_Subset
  <2>2. IsFiniteSet(Image(V))
    <3> DEFINE T == Image(V)
    <3>1. T = {b[y] : y \in V}
      OBVIOUS
    <3> HIDE DEF T
    <3>2. IsFiniteSet(T)
      BY <2>1, <3>1, ImageIsFinite
    <3> QED
      BY <3>2 DEF T
  <2>3. b[x] \notin Image(V) /\ Image(V \cup {x}) = Image(V) \cup {b[x]}
    OBVIOUS
  <2>4. \A y \in Image(V) \cup {b[x]} : g[y] \in Int
    OBVIOUS
  <2>5. SumIn(f, V \cup {x}) = f[x] + SumIn(f, V)
    BY <2>1, SumAdd
  <2> HIDE DEF Image
  <2>6. SumIn(g, Image(V) \cup {b[x]}) = g[b[x]] + SumIn(g, Image(V))
    BY <2>2, <2>3, <2>4, SumAdd
  <2>7. SumIn(g, Image(V)) = SumIn(f, V) /\ g[b[x]] = f[x]
    BY <1>2
  <2>8. SumIn(g, Image(V \cup {x})) = SumIn(f, V \cup {x})
    BY <2>3, <2>5, <2>6, <2>7
  <2> QED
    BY <2>8
<1> HIDE DEF Holds
<1>3. S \in Holds
  BY <1>1, <1>2, OneByOne
<1> QED
  BY <1>3 DEF Holds

LEMMA LessIsAdded == \A a, b, c, d \in Int : a <= b /\ c <= d => a + c <= b + d
  OBVIOUS

LEMMA SumMonotone ==
  ASSUME NEW f, NEW g, NEW S, IsFiniteSet(S),
         \A x \in S : f[x] \in Int /\ g[x] \in Int /\ f[x] <= g[x]
  PROVE  SumIn(f, S) <= SumIn(g, S)
<1> DEFINE Holds == {V \in SUBSET S : SumIn(f, V) <= SumIn(g, V)}
<1>1. {} \in Holds
  BY SumEmpty
<1>2. ASSUME NEW V \in SUBSET S, NEW x \in S \ V, V \in Holds PROVE V \cup {x} \in Holds
  <2>1. IsFiniteSet(V) /\ \A y \in V \cup {x} : f[y] \in Int /\ g[y] \in Int
    BY FS_Subset
  <2>2. SumIn(f, V) \in Int /\ SumIn(g, V) \in Int /\ SumIn(f, V) <= SumIn(g, V)
    BY <1>2, <2>1, SumType
  <2>3. SumIn(f, V \cup {x}) = f[x] + SumIn(f, V)
    BY <2>1, SumAdd
  <2>4. SumIn(g, V \cup {x}) = g[x] + SumIn(g, V)
    BY <2>1, SumAdd
  <2>5. f[x] \in Int /\ g[x] \in Int /\ f[x] <= g[x]
    OBVIOUS
  <2>6. f[x] + SumIn(f, V) <= g[x] + SumIn(g, V)
    BY <2>2, <2>5, LessIsAdded
  <2> QED
    BY <2>3, <2>4, <2>6
<1> HIDE DEF Holds
<1>3. S \in Holds
  BY <1>1, <1>2, OneByOne
<1> QED
  BY <1>3 DEF Holds

LEMMA SumOfConstant ==
  ASSUME NEW f, NEW c \in Int, NEW S, IsFiniteSet(S), \A x \in S : f[x] = c
  PROVE  SumIn(f, S) = c * Cardinality(S)
<1> DEFINE Holds == {V \in SUBSET S : SumIn(f, V) = c * Cardinality(V)}
<1>1. {} \in Holds
  BY SumEmpty, FS_EmptySet, TimesOfPlus
<1>2. ASSUME NEW V \in SUBSET S, NEW x \in S \ V, V \in Holds PROVE V \cup {x} \in Holds
  <2>1. IsFiniteSet(V) /\ (\A y \in V \cup {x} : f[y] \in Int) /\ f[x] = c
    BY FS_Subset
  <2>2. SumIn(f, V \cup {x}) = c + c * Cardinality(V)
    BY <1>2, <2>1, SumAdd
  <2>3. Cardinality(V) \in Int /\ Cardinality(V \cup {x}) = Cardinality(V) + 1
    BY <2>1, FS_CardinalityType, FS_AddElement
  <2>4. c + c * Cardinality(V) = c * (Cardinality(V) + 1)
    BY <2>3, SMT
  <2> QED
    BY <2>2, <2>3, <2>4
<1> HIDE DEF Holds
<1>3. S \in Holds
  BY <1>1, <1>2, OneByOne
<1> QED
  BY <1>3 DEF Holds

(* A sum in groups: by a key of each element, then over the keys.             *)
Grouped(S, f, key, K, g) ==
  /\ IsFiniteSet(S) /\ IsFiniteSet(K)
  /\ \A x \in S : f[x] \in Int /\ key[x] \in K
  /\ \A k \in K : g[k] = SumIn(f, {x \in S : key[x] = k})

LEMMA SumInGroups ==
  ASSUME NEW S, NEW f, NEW key, NEW K, NEW g, Grouped(S, f, key, K, g)
  PROVE  SumIn(g, K) = SumIn(f, S)
<1> USE DEF Grouped
<1> DEFINE Group(k) == {x \in S : key[x] = k}
<1> DEFINE Keyed(V) == {x \in S : key[x] \in V}
<1> DEFINE Holds == {V \in SUBSET K : SumIn(g, V) = SumIn(f, Keyed(V))}
<1>0. \A V : IsFiniteSet(Keyed(V)) /\ \A x \in Keyed(V) : f[x] \in Int
  BY FS_Subset
<1>1. {} \in Holds
  <2>1. Keyed({}) = {}
    OBVIOUS
  <2> QED
    BY <2>1, SumEmpty
<1>2. ASSUME NEW V \in SUBSET K, NEW k \in K \ V, V \in Holds PROVE V \cup {k} \in Holds
  <2>1. Group(k) = Keyed({k}) /\ Keyed(V \cup {k}) = Group(k) \cup Keyed(V) /\ Group(k) \cap Keyed(V) = {}
    OBVIOUS
  <2> HIDE DEF Keyed, Group
  <2>2. \A j \in K : g[j] \in Int
    <3> TAKE j \in K
    <3>1. Group(j) = Keyed({j})
      BY DEF Group, Keyed
    <3>2. g[j] = SumIn(f, Keyed({j}))
      BY <3>1 DEF Group
    <3> QED
      BY <1>0, <3>2, SumType
  <2>3. IsFiniteSet(V)
    BY FS_Subset
  <2>4. \A j \in V \cup {k} : g[j] \in Int
    BY <2>2
  <2>5. SumIn(g, V \cup {k}) = g[k] + SumIn(g, V)
    BY <2>3, <2>4, SumAdd
  <2>6. SumIn(f, Group(k) \cup Keyed(V)) = SumIn(f, Group(k)) + SumIn(f, Keyed(V))
    <3> DEFINE A == Group(k)
    <3> DEFINE B == Keyed(V)
    <3>1. A = Keyed({k}) /\ A \cap B = {}
      BY <2>1
    <3>2. IsFiniteSet(A) /\ IsFiniteSet(B) /\ \A x \in A \cup B : f[x] \in Int
      BY <1>0, <3>1
    <3> HIDE DEF A, B
    <3>3. SumIn(f, A \cup B) = SumIn(f, A) + SumIn(f, B)
      BY <3>1, <3>2, SumUnion
    <3> QED
      BY <3>3 DEF A, B
  <2>7. g[k] = SumIn(f, Group(k)) /\ SumIn(g, V) = SumIn(f, Keyed(V))
    BY <1>2 DEF Group
  <2>8. SumIn(g, V \cup {k}) = SumIn(f, Keyed(V \cup {k}))
    BY <2>1, <2>5, <2>6, <2>7
  <2> QED
    BY <2>8
<1>3. Keyed(K) = S
  OBVIOUS
<1> HIDE DEF Holds
<1>4. K \in Holds
  BY <1>1, <1>2, OneByOne
<1>5. SumIn(g, K) = SumIn(f, Keyed(K))
  BY <1>4 DEF Holds
<1> HIDE DEF Keyed
<1> QED
  BY <1>3, <1>5

(* Row by row or column by column.                                            *)
RowsAndColumns(S, T, F, col, r, c) ==
  /\ IsFiniteSet(S) /\ IsFiniteSet(T)
  /\ \A x \in S, y \in T : F[x][y] \in Int /\ col[y][x] = F[x][y]
  /\ \A x \in S : r[x] = SumIn(F[x], T)
  /\ \A y \in T : c[y] = SumIn(col[y], S)

LEMMA SumsExchange ==
  ASSUME NEW S, NEW T, NEW F, NEW col, NEW r, NEW c, RowsAndColumns(S, T, F, col, r, c)
  PROVE  SumIn(r, S) = SumIn(c, T)
<1> USE DEF RowsAndColumns
<1> DEFINE Cols(V) == [y \in T |-> SumIn(col[y], V)]
<1> DEFINE Holds == {V \in SUBSET S : SumIn(r, V) = SumIn(Cols(V), T)}
<1>1. {} \in Holds
  <2>1. \A y \in T : Cols({})[y] = 0
    BY SumEmpty
  <2> HIDE DEF Cols
  <2>2. SumIn(Cols({}), T) = 0 * Cardinality(T)
    BY <2>1, SumOfConstant
  <2>3. SumIn(r, {}) = 0 /\ Cardinality(T) \in Int
    BY SumEmpty, FS_CardinalityType
  <2>4. SumIn(Cols({}), T) = SumIn(r, {})
    BY <2>2, <2>3
  <2> QED
    BY <2>4
<1>2. ASSUME NEW V \in SUBSET S, NEW x \in S \ V, V \in Holds PROVE V \cup {x} \in Holds
  <2>1. IsFiniteSet(V)
    BY FS_Subset
  <2>2. \A z \in S : r[z] \in Int
    BY SumType
  <2>3. \A y \in T : (\A z \in V \cup {x} : col[y][z] \in Int) /\ col[y][x] = F[x][y]
    OBVIOUS
  <2>4. SumIn(r, V \cup {x}) = r[x] + SumIn(r, V)
    BY <2>1, <2>2, SumAdd
  <2>5. \A y \in T : /\ SumIn(col[y], V \cup {x}) = F[x][y] + SumIn(col[y], V)
                     /\ SumIn(col[y], V) \in Int
    BY <2>1, <2>3, SumAdd, SumType
  <2>6. \A y \in T : F[x][y] \in Int /\ Cols(V)[y] \in Int /\ Cols(V \cup {x})[y] = F[x][y] + Cols(V)[y]
    BY <2>5
  <2>7. r[x] = SumIn(F[x], T) /\ SumIn(r, V) = SumIn(Cols(V), T)
    BY <1>2
  <2> HIDE DEF Cols
  <2>8. SumIn(Cols(V \cup {x}), T) = SumIn(F[x], T) + SumIn(Cols(V), T)
    <3> DEFINE a == F[x]
    <3> DEFINE b == Cols(V)
    <3> DEFINE d == Cols(V \cup {x})
    <3>1. \A y \in T : a[y] \in Int /\ b[y] \in Int /\ d[y] = a[y] + b[y]
      BY <2>6
    <3> HIDE DEF a, b, d
    <3>2. SumIn(d, T) = SumIn(a, T) + SumIn(b, T)
      BY <3>1, SumPlus
    <3> QED
      BY <3>2 DEF a, b, d
  <2>9. SumIn(r, V \cup {x}) = SumIn(Cols(V \cup {x}), T)
    BY <2>4, <2>7, <2>8
  <2> QED
    BY <2>9
<1> HIDE DEF Holds
<1>3. S \in Holds
  BY <1>1, <1>2, OneByOne
<1>4. SumIn(r, S) = SumIn(Cols(S), T)
  BY <1>3 DEF Holds
<1>5. \A y \in T : Cols(S)[y] \in Int /\ c[y] = Cols(S)[y]
  BY SumType
<1> HIDE DEF Cols
<1>6. SumIn(c, T) = SumIn(Cols(S), T)
  BY <1>5, SumCongruent
<1> QED
  BY <1>4, <1>6

(*------------------------------ whole pennies ----------------------------*)
LEMMA TableIs == ASSUME NEW f PROVE Table(f) = f
  BY DEF Table

LEMMA DivBounds ==
  \A m \in Nat, d \in Nat \ {0} : /\ m \div d \in Nat
                                   /\ d * (m \div d) <= m
                                   /\ m < d * (m \div d) + d
  BY SMT

LEMMA TimesSigns == \A a, b \in Int : /\ (-a) * b = -(a * b)
                                      /\ a * (-b) = -(a * b)
                                      /\ (-a) * (-b) = a * b
                                      /\ a * b = b * a
  BY SMT

(* What rounding towards zero leaves is less than the divisor.                *)
LEMMA TruncLeaves ==
  ASSUME NEW a \in Int, NEW b \in Int, b # 0
  PROVE  /\ TruncDiv(a, b) \in Int
         /\ a - TruncDiv(a, b) * b < Magnitude(b)
         /\ -Magnitude(b) < a - TruncDiv(a, b) * b
<1> DEFINE m == Magnitude(a)
<1> DEFINE d == Magnitude(b)
<1> DEFINE q == m \div d
<1>1. m \in Nat /\ d \in Nat \ {0} /\ (a = m \/ a = -m) /\ (b = d \/ b = -d)
  BY DEF Magnitude
<1>2. q \in Nat /\ d * q <= m /\ m < d * q + d
  BY <1>1, DivBounds
<1>3. TruncDiv(a, b) = IF (a < 0) = (b < 0) THEN q ELSE -q
  <2>1. TruncDiv(a, b) = (IF (a < 0) = (b < 0) THEN 1 ELSE -1) * q
    BY DEF TruncDiv
  <2> HIDE DEF q
  <2>2. 1 * q = q /\ (-1) * q = -q
    BY <1>2
  <2> QED
    BY <2>1, <2>2
<1>4. TruncDiv(a, b) \in Int
  <2> HIDE DEF q
  <2> QED
    BY <1>2, <1>3
<1>5. a - TruncDiv(a, b) * b = IF a < 0 THEN -(m - d * q) ELSE m - d * q
  <2>1. (a < 0 => a = -m) /\ (~(a < 0) => a = m) /\ (b < 0 => b = -d) /\ (~(b < 0) => b = d)
    BY DEF Magnitude
  <2> HIDE DEF q, m, d
  <2>2. q * d = d * q /\ (-q) * d = -(d * q) /\ q * (-d) = -(d * q) /\ (-q) * (-d) = d * q
    BY <1>1, <1>2, TimesSigns
  <2>3. d * q \in Int
    BY <1>1, <1>2
  <2>4. TruncDiv(a, b) * b = IF a < 0 THEN -(d * q) ELSE d * q
    BY <1>3, <2>1, <2>2
  <2> QED
    BY <1>1, <2>1, <2>3, <2>4
<1> HIDE DEF q, m
<1>6. d * q \in Int
  BY <1>1, <1>2
<1> QED
  BY <1>1, <1>2, <1>4, <1>5, <1>6

LEMMA PenceAreWhole ==
  ASSUME NEW a \in Int
  PROVE  \E k \in Int : ToPence(a) = Penny * k
<1> DEFINE q == (Magnitude(a) + Penny \div 2) \div Penny
<1>1. Magnitude(a) \in Nat
  BY DEF Magnitude
<1>2. q \in Nat
  BY <1>1 DEF Penny
<1>3. ToPence(a) = (IF a < 0 THEN -Penny ELSE Penny) * q
  BY DEF ToPence
<1> HIDE DEF q
<1>4. ToPence(a) = Penny * (IF a < 0 THEN -q ELSE q)
  BY <1>2, <1>3 DEF Penny
<1> QED
  BY <1>2, <1>4

(*------------------------------- handing out -----------------------------*)
(* Ranks that number the parts from 0.                                        *)
Numbers(rank, S) ==
  /\ \A i \in S : rank[i] \in 0 .. Cardinality(S) - 1
  /\ \A j \in 0 .. Cardinality(S) - 1 : \E i \in S : rank[i] = j
  /\ \A i, j \in S : rank[i] = rank[j] => i = j

(* As many parts get a penny as there are pennies.                            *)
LEMMA RankedBelow ==
  ASSUME NEW S, IsFiniteSet(S), NEW rank, Numbers(rank, S), NEW m \in 0 .. Cardinality(S)
  PROVE  SumIn([i \in S |-> IF rank[i] < m THEN 1 ELSE 0], S) = m
<1> DEFINE n == Cardinality(S)
<1> DEFINE f == [i \in S |-> IF rank[i] < m THEN 1 ELSE 0]
<1> DEFINE g == [j \in 0 .. n - 1 |-> IF j < m THEN 1 ELSE 0]
<1>0. n \in Nat
  BY FS_CardinalityType
<1>1. {rank[i] : i \in S} = 0 .. n - 1
  BY DEF Numbers
<1>2. \A i \in S : f[i] \in Int /\ g[rank[i]] = f[i]
  BY DEF Numbers
<1>3. SumIn(g, 0 .. n - 1) = SumIn(f, S)
  <2> HIDE DEF f, g, n
  <2>1. \A i, j \in S : rank[i] = rank[j] => i = j
    BY DEF Numbers
  <2>2. SumIn(g, {rank[i] : i \in S}) = SumIn(f, S)
    BY <1>2, <2>1, SumRenamed
  <2> QED
    BY <1>1, <2>2
<1> DEFINE A == 0 .. m - 1
<1> DEFINE B == m .. n - 1
<1>4. 0 .. n - 1 = A \cup B /\ A \cap B = {}
  BY <1>0
<1>5. IsFiniteSet(A) /\ IsFiniteSet(B) /\ Cardinality(A) = m /\ Cardinality(B) \in Nat
  <2>1. m \in Int /\ n \in Int /\ 0 \in Int /\ m - 1 \in Int /\ n - 1 \in Int
    BY <1>0
  <2>2. IsFiniteSet(A) /\ Cardinality(A) = IF 0 > m - 1 THEN 0 ELSE m - 1 - 0 + 1
    BY <2>1, FS_Interval
  <2>3. IsFiniteSet(B)
    BY <2>1, FS_Interval
  <2> HIDE DEF A, B
  <2> QED
    BY <1>0, <2>2, <2>3, FS_CardinalityType
<1>6. (\A j \in A : g[j] = 1) /\ (\A j \in B : g[j] = 0)
  BY <1>0
<1> HIDE DEF A, B, f, g, n
<1>7. SumIn(g, A) = 1 * Cardinality(A) /\ SumIn(g, B) = 0 * Cardinality(B)
  <2>1. SumIn(g, A) = 1 * Cardinality(A)
    BY <1>5, <1>6, SumOfConstant
  <2>2. SumIn(g, B) = 0 * Cardinality(B)
    BY <1>5, <1>6, SumOfConstant
  <2> QED
    BY <2>1, <2>2
<1>8. SumIn(g, A) = m /\ SumIn(g, B) = 0
  BY <1>5, <1>7
<1>9. \A j \in A \cup B : g[j] \in Int
  BY <1>6
<1>10. SumIn(g, A \cup B) = SumIn(g, A) + SumIn(g, B)
  BY <1>4, <1>5, <1>9, SumUnion
<1>11. SumIn(f, S) = m
  <2>1. m \in Int
    OBVIOUS
  <2>2. SumIn(g, A \cup B) = SumIn(f, S)
    BY <1>3, <1>4
  <2>3. SumIn(g, A \cup B) = m + 0
    BY <1>8, <1>10
  <2> QED
    BY <2>1, <2>2, <2>3
<1> QED
  BY <1>11 DEF f

(* k pennies, no more than there are parts, to hand out by rank.              *)
ToHandOut(S, parts, rank, k, remainder) ==
  /\ IsFiniteSet(S) /\ DOMAIN parts = S /\ \A i \in S : parts[i] \in Int
  /\ Numbers(rank, S)
  /\ k \in Int /\ Magnitude(k) <= Cardinality(S) /\ remainder = Penny * k

(* Every penny left over is handed out.                                       *)
LEMMA HandedOut ==
  ASSUME NEW S, NEW parts, NEW rank, NEW k, NEW remainder, ToHandOut(S, parts, rank, k, remainder)
  PROVE  /\ DOMAIN HandOut(parts, remainder, rank) = S
         /\ \A i \in S : HandOut(parts, remainder, rank)[i] \in Int
         /\ SumIn(HandOut(parts, remainder, rank), S) = SumIn(parts, S) + remainder
<1> DEFINE m == Magnitude(k)
<1> DEFINE step == IF remainder < 0 THEN -Penny ELSE Penny
<1> DEFINE one == [i \in S |-> IF rank[i] < m THEN 1 ELSE 0]
<1> DEFINE given == [i \in S |-> step * one[i]]
<1> DEFINE out == HandOut(parts, remainder, rank)
<1> USE DEF ToHandOut
<1>0. m \in 0 .. Cardinality(S) /\ Cardinality(S) \in Nat
  BY FS_CardinalityType DEF Magnitude
<1>1. Magnitude(remainder) = Penny * m /\ step * m = remainder /\ step \in Int
  BY DEF Magnitude, Penny
<1>2. \A i \in S : rank[i] \in Int
  BY <1>0 DEF Numbers
<1>3. \A i \in S : rank[i] * Penny < Magnitude(remainder) <=> rank[i] < m
  BY <1>0, <1>1, <1>2 DEF Penny
<1>4. out = [i \in S |-> IF rank[i] * Penny < Magnitude(remainder) THEN parts[i] + step ELSE parts[i]]
  BY TableIs DEF HandOut
<1>5. \A i \in S : one[i] \in Int /\ given[i] = step * one[i] /\ given[i] \in Int
  BY DEF Penny
<1>6. \A i \in S : out[i] \in Int /\ out[i] = parts[i] + given[i]
  <2> TAKE i \in S
  <2>1. CASE rank[i] < m
    BY <1>1, <1>3, <1>4, <2>1
  <2>2. CASE ~(rank[i] < m)
    BY <1>1, <1>3, <1>4, <2>2
  <2> QED
    BY <2>1, <2>2
<1>7. DOMAIN out = S
  BY <1>4
<1> HIDE DEF m
<1>8. SumIn(one, S) = m
  BY <1>0, RankedBelow
<1> HIDE DEF one, step, given, out
<1>9. SumIn(given, S) = step * SumIn(one, S)
  BY <1>1, <1>5, SumScaled
<1>10. SumIn(out, S) = SumIn(parts, S) + SumIn(given, S)
  BY <1>5, <1>6, SumPlus
<1>11. SumIn(out, S) = SumIn(parts, S) + remainder
  BY <1>1, <1>8, <1>9, <1>10
<1> QED
  BY <1>6, <1>7, <1>11 DEF out

(*------------------------------ the allocation ---------------------------*)
(* The sort by remaining fraction, stable, gives every part its own rank.     *)
LEMMA RanksNumber ==
  ASSUME NEW n \in Nat, NEW fraction, DOMAIN fraction = 1 .. n, \A i \in 1 .. n : fraction[i] \in Int
  PROVE  Numbers(RankByFraction(fraction), 1 .. n)
<1> DEFINE S == 1 .. n
<1> DEFINE Before(i) == {j \in S : \/ fraction[j] > fraction[i]
                                   \/ fraction[j] = fraction[i] /\ j < i}
<1> DEFINE rank == RankByFraction(fraction)
<1>1. IsFiniteSet(S) /\ Cardinality(S) = n
  BY FS_Interval
<1>2. DOMAIN rank = S /\ \A i \in S : rank[i] = Cardinality(Before(i))
  BY DEF RankByFraction
<1>3. \A i, j \in S : j \in Before(i) => Before(j) \subseteq Before(i) /\ j \notin Before(j)
  OBVIOUS
<1>4. \A i, j \in S : i # j => i \in Before(j) \/ j \in Before(i)
  OBVIOUS
<1>5. \A i \in S : i \notin Before(i) /\ Before(i) \subseteq S
  OBVIOUS
<1> HIDE DEF Before, rank, S
<1>6. \A i \in S : IsFiniteSet(Before(i)) /\ Cardinality(Before(i)) \in Nat
  BY <1>1, <1>5, FS_Subset, FS_CardinalityType
<1>7. ASSUME NEW i \in S PROVE rank[i] \in 0 .. n - 1
  <2>1. Cardinality(Before(i)) <= n /\ Cardinality(Before(i)) # n
    BY <1>1, <1>5, FS_Subset
  <2> QED
    BY <1>2, <1>6, <2>1
<1>8. ASSUME NEW i \in S, NEW j \in S, j \in Before(i) PROVE rank[j] < rank[i]
  <2>1. Before(j) \subseteq Before(i) /\ Before(j) # Before(i)
    BY <1>3, <1>8
  <2>2. Cardinality(Before(j)) <= Cardinality(Before(i)) /\ Cardinality(Before(j)) # Cardinality(Before(i))
    BY <1>6, <2>1, FS_Subset
  <2> QED
    BY <1>2, <1>6, <2>2
<1>9. ASSUME NEW i \in S, NEW j \in S, rank[i] = rank[j] PROVE i = j
  <2> SUFFICES ASSUME i # j PROVE FALSE
    OBVIOUS
  <2>1. rank[i] \in Int /\ rank[j] \in Int
    BY <1>2, <1>6
  <2>2. rank[i] < rank[j] \/ rank[j] < rank[i]
    BY <1>4, <1>8
  <2> QED
    BY <1>9, <2>1, <2>2
<1>10. ASSUME NEW j \in 0 .. n - 1 PROVE \E i \in S : rank[i] = j
  <2> DEFINE T == 0 .. n - 1
  <2>1. IsFiniteSet(T) /\ Cardinality(T) = n
    BY FS_Interval
  <2> DEFINE r == [i \in S |-> rank[i]]
  <2>2. r \in Injection(S, T)
    BY <1>7, <1>9 DEF Injection, IsInjective
  <2> HIDE DEF T, r
  <2>3. r \in Surjection(S, T)
    BY <1>1, <2>1, <2>2, FS_Injection
  <2> QED
    BY <2>3 DEF Surjection, T, r
<1> QED
  BY <1>1, <1>7, <1>9, <1>10 DEF Numbers, S, rank

LEMMA SumBelow ==
  ASSUME NEW f, NEW c \in Int, NEW S, IsFiniteSet(S), S # {}, \A x \in S : f[x] \in Int /\ f[x] < c
  PROVE  SumIn(f, S) < c * Cardinality(S)
<1> DEFINE g == [x \in S |-> c - 1]
<1> DEFINE n == Cardinality(S)
<1>1. n \in Nat /\ n # 0
  BY FS_CardinalityType, FS_EmptySet
<1>2. \A x \in S : g[x] = c - 1 /\ g[x] \in Int /\ f[x] \in Int /\ f[x] <= g[x]
  OBVIOUS
<1> HIDE DEF g
<1>3. SumIn(f, S) <= SumIn(g, S) /\ SumIn(f, S) \in Int
  BY <1>2, SumMonotone, SumType
<1>4. c - 1 \in Int
  OBVIOUS
<1>5. SumIn(g, S) = (c - 1) * n
  BY <1>2, <1>4, SumOfConstant
<1>6. (c - 1) * n = c * n - n /\ c * n \in Int
  BY <1>1, SMT
<1> HIDE DEF n
<1>7. SumIn(f, S) < c * n
  BY <1>1, <1>3, <1>5, <1>6
<1> QED
  BY <1>7 DEF n

LEMMA SumBetween ==
  ASSUME NEW f, NEW c \in Int, NEW S, IsFiniteSet(S), S # {},
         \A x \in S : f[x] \in Int /\ f[x] < c /\ -c < f[x]
  PROVE  SumIn(f, S) < c * Cardinality(S) /\ -(c * Cardinality(S)) < SumIn(f, S)
<1> DEFINE g == [x \in S |-> (-1) * f[x]]
<1>1. \A x \in S : g[x] = (-1) * f[x] /\ g[x] \in Int /\ g[x] < c
  OBVIOUS
<1> HIDE DEF g
<1>2. SumIn(f, S) < c * Cardinality(S)
  BY SumBelow
<1>3. SumIn(g, S) < c * Cardinality(S)
  BY <1>1, SumBelow
<1>4. SumIn(g, S) = (-1) * SumIn(f, S)
  BY <1>1, SumScaled
<1>5. SumIn(f, S) \in Int /\ c * Cardinality(S) \in Int
  BY SumType, FS_CardinalityType
<1> QED
  BY <1>2, <1>3, <1>4, <1>5

LEMMA FactorOut == \A d \in Nat \ {0}, k, n \in Int : d * k < d * n => k < n
  BY SMT

(* Equal shares add up to the target.                                         *)
LEMMA SharedEvenly ==
  ASSUME NEW n \in Nat \ {0}, NEW k \in Int, NEW target, target = Penny * k
  PROVE  LET shares == DistributeEvenly(target, n)
         IN  /\ DOMAIN shares = 1 .. n
             /\ \A i \in 1 .. n : shares[i] \in Int
             /\ SumIn(shares, 1 .. n) = target
<1> DEFINE S == 1 .. n
<1> DEFINE b == n * Penny
<1> DEFINE q == TruncDiv(target, b)
<1> DEFINE parts == [i \in S |-> Penny * q]
<1> DEFINE rank == [i \in S |-> i - 1]
<1> DEFINE r == k - q * n
<1>0. target \in Int /\ b \in Int /\ b # 0 /\ Magnitude(b) = Penny * n
  BY DEF Penny, Magnitude
<1> HIDE DEF b
<1>1. q \in Int /\ target - q * b < Penny * n /\ -(Penny * n) < target - q * b
  BY <1>0, TruncLeaves
<1> HIDE DEF q
<1>2. q * b = Penny * (q * n) /\ q * n \in Int /\ target - (Penny * q) * n = target - q * b
  BY <1>1 DEF Penny, b
<1>3. r \in Int /\ target - (Penny * q) * n = Penny * r /\ target - q * b = Penny * r
  BY <1>2 DEF Penny
<1>4. r < n /\ -n < r
  BY <1>1, <1>3 DEF Penny
<1>5. IsFiniteSet(S) /\ Cardinality(S) = n
  BY FS_Interval
<1>6. Numbers(rank, S)
  <2>1. \A j \in 0 .. n - 1 : j + 1 \in S /\ rank[j + 1] = j
    OBVIOUS
  <2>2. \A i \in S : rank[i] \in 0 .. n - 1
    OBVIOUS
  <2>3. \A i, j \in S : rank[i] = rank[j] => i = j
    OBVIOUS
  <2> HIDE DEF rank, S
  <2> QED
    BY <1>5, <2>1, <2>2, <2>3 DEF Numbers
<1>7. DOMAIN parts = S /\ \A i \in S : parts[i] = Penny * q /\ parts[i] \in Int
  BY <1>1 DEF Penny
<1>8. Magnitude(r) <= n
  BY <1>3, <1>4 DEF Magnitude
<1>9. DistributeEvenly(target, n) = HandOut(parts, target - (Penny * q) * n, rank)
  BY DEF DistributeEvenly, EqualShares, q, b
<1> HIDE DEF parts, rank, r, S
<1>10. SumIn(parts, S) = (Penny * q) * n
  <2>1. Penny * q \in Int
    BY <1>1 DEF Penny
  <2> QED
    BY <1>5, <1>7, <2>1, SumOfConstant
<1> DEFINE left == target - (Penny * q) * n
<1> DEFINE shares == HandOut(parts, left, rank)
<1>11. left = Penny * r
  BY <1>3
<1> HIDE DEF left
<1>12. /\ DOMAIN shares = S
       /\ \A i \in S : shares[i] \in Int
       /\ SumIn(shares, S) = SumIn(parts, S) + left
  <2>1. ToHandOut(S, parts, rank, r, left)
    BY <1>3, <1>5, <1>6, <1>7, <1>8, <1>11 DEF ToHandOut
  <2> QED
    BY <2>1, HandedOut
<1>13. SumIn(parts, S) + left = target
  BY <1>0, <1>1, <1>10 DEF left, Penny
<1>14. DistributeEvenly(target, n) = shares
  BY <1>9 DEF left
<1> HIDE DEF shares
<1> QED
  BY <1>12, <1>13, <1>14 DEF S

LEMMA TimesMoves ==
  /\ \A t, w, q, p, v \in Int : t * w - q * (v * p) = t * w - (p * q) * v
  /\ \A t, p, v \in Int : t * p - v * p = p * (t - v) /\ t * p = p * t
  /\ \A a, b, c \in Int : (a * b) * c = a * (b * c)
  /\ \A a, b \in Int : a * b \in Int /\ (a # 0 /\ b # 0 => a * b # 0)
  BY SMT

(* Whole shares by weight, and in e what each leaves, W-fold.                 *)
Rounded(S, w, q, floored, e, W, k, target, d) ==
  /\ IsFiniteSet(S) /\ S # {}
  /\ W \in Int /\ W = SumIn(w, S) /\ k \in Int /\ target \in Int /\ target = Penny * k
  /\ d \in Nat \ {0} /\ (W * Penny = d \/ W * Penny = -d)
  /\ \A i \in S : w[i] \in Int /\ q[i] \in Int /\ floored[i] = Penny * q[i]
  /\ \A i \in S : e[i] = target * w[i] + (-W) * floored[i]
  /\ \A i \in S : e[i] < d /\ -d < e[i]

(* Shares rounded towards zero leave less than a penny each, so what they     *)
(* leave in all is fewer pennies than there are shares.                       *)
LEMMA RoundingLeaves ==
  ASSUME NEW S, NEW w, NEW q, NEW floored, NEW e, NEW W, NEW k, NEW target, NEW d,
         Rounded(S, w, q, floored, e, W, k, target, d)
  PROVE  /\ SumIn(q, S) \in Int
         /\ SumIn(floored, S) = Penny * SumIn(q, S)
         /\ Magnitude(k - SumIn(q, S)) <= Cardinality(S)
         /\ SumIn(e, S) = (W * Penny) * (k - SumIn(q, S))
<1> DEFINE F == SumIn(floored, S)
<1> DEFINE Q == SumIn(q, S)
<1> DEFINE n == Cardinality(S)
<1> DEFINE tw == [i \in S |-> target * w[i]]
<1> DEFINE fw == [i \in S |-> (-W) * floored[i]]
<1> USE DEF Rounded
<1>0. Penny \in Int
  BY DEF Penny
<1>1. \A i \in S : floored[i] \in Int
  <2> TAKE i \in S
  <2>1. q[i] \in Int /\ floored[i] = Penny * q[i]
    OBVIOUS
  <2> QED
    BY <1>0, <2>1, TimesMoves
<1>2. Q \in Int /\ F \in Int /\ n \in Int /\ -W \in Int
  BY <1>1, SumType, FS_CardinalityType
<1>3. F = Penny * Q
  <2>1. \A i \in S : q[i] \in Int /\ floored[i] = Penny * q[i]
    OBVIOUS
  <2> QED
    <3> DEFINE c == Penny
    <3>1. c \in Int /\ \A i \in S : q[i] \in Int /\ floored[i] = c * q[i]
      BY <1>0, <2>1
    <3> HIDE DEF c
    <3>2. SumIn(floored, S) = c * SumIn(q, S)
      BY <3>1, SumScaled
    <3> QED
      BY <3>2 DEF c
<1>4. \A i \in S : w[i] \in Int /\ tw[i] = target * w[i]
  OBVIOUS
<1>5. \A i \in S : floored[i] \in Int /\ fw[i] = (-W) * floored[i]
  BY <1>1
<1>6. \A i \in S : tw[i] \in Int /\ fw[i] \in Int
  BY <1>2, <1>4, <1>5, TimesMoves
<1>7. \A i \in S : e[i] = tw[i] + fw[i]
  BY <1>4, <1>5
<1> HIDE DEF tw, fw
<1>8. SumIn(tw, S) = target * SumIn(w, S)
  BY <1>4, SumScaled, SMT
<1>9. SumIn(fw, S) = (-W) * F
  <2> DEFINE c == -W
  <2>1. c \in Int /\ \A i \in S : floored[i] \in Int /\ fw[i] = c * floored[i]
    BY <1>2, <1>5
  <2> HIDE DEF c
  <2>2. SumIn(fw, S) = c * SumIn(floored, S)
    BY <2>1, SumScaled
  <2> QED
    BY <2>2 DEF c
<1>10. SumIn(e, S) = SumIn(tw, S) + SumIn(fw, S)
  BY <1>6, <1>7, SumPlus
<1> DEFINE r == k - Q
<1>11. r \in Int
  BY <1>2
<1>12. SumIn(e, S) = (W * Penny) * r
  <2>1. SumIn(e, S) = target * W + (-W) * F
    BY <1>8, <1>9, <1>10
  <2>2. target - F = Penny * r
    BY <1>2, <1>3 DEF Penny
  <2> HIDE DEF F, Q, r
  <2>3. target * W + (-W) * F = W * (target - F)
    BY <1>2, SMT
  <2>4. W * (Penny * r) = (W * Penny) * r
    BY <1>0, <1>11, TimesMoves
  <2> QED
    BY <2>1, <2>2, <2>3, <2>4
<1>13. SumIn(e, S) < d * n /\ -(d * n) < SumIn(e, S)
  <2>1. \A i \in S : e[i] \in Int /\ e[i] < d /\ -d < e[i]
    BY <1>6, <1>7
  <2> QED
    BY <2>1, SumBetween
<1> HIDE DEF r, n
<1>14. d * (-r) = -(d * r) /\ (-d) * r = -(d * r) /\ d * r \in Int /\ d * n \in Int /\ -r \in Int
  BY <1>2, <1>11, TimesSigns, TimesMoves
<1>15. SumIn(e, S) = d * r \/ SumIn(e, S) = -(d * r)
  BY <1>12, <1>14
<1>16. d * r < d * n /\ d * (-r) < d * n
  BY <1>13, <1>14, <1>15
<1>17. r < n /\ -r < n
  BY <1>2, <1>11, <1>14, <1>16, FactorOut
<1>18. Magnitude(r) <= n
  BY <1>2, <1>11, <1>17 DEF Magnitude
<1> QED
  BY <1>2, <1>3, <1>12, <1>18 DEF r, n

ToShare(n, weights, W, k, target, floored) ==
  /\ n \in Nat \ {0} /\ DOMAIN weights = 1 .. n /\ \A i \in 1 .. n : weights[i] \in Int
  /\ W = SumIn(weights, 1 .. n) /\ W # 0 /\ k \in Int /\ target = Penny * k
  /\ floored = [i \in 1 .. n |-> Penny * TruncDiv(target * weights[i], W * Penny)]

(* The shares in whole pennies, what each leaves, and the order they go in.   *)
WholeShares(n, weights, W, target) == [i \in 1 .. n |-> TruncDiv(target * weights[i], W * Penny)]
LeftByShare(n, weights, W, target, floored) == [i \in 1 .. n |-> target * weights[i] - floored[i] * W]
RankOfShares(n, weights, W, target, floored) ==
  RankByFraction([i \in 1 .. n |-> LeftByShare(n, weights, W, target, floored)[i] * (IF W < 0 THEN -1 ELSE 1)])

LEMMA SharesAreRounded ==
  ASSUME NEW n, NEW weights, NEW W, NEW k, NEW target, NEW floored,
         ToShare(n, weights, W, k, target, floored)
  PROVE  /\ Rounded(1 .. n, weights, WholeShares(n, weights, W, target), floored,
                    LeftByShare(n, weights, W, target, floored), W, k, target, Magnitude(W * Penny))
         /\ \A i \in 1 .. n : /\ floored[i] \in Int
                              /\ LeftByShare(n, weights, W, target, floored)[i] \in Int
         /\ Cardinality(1 .. n) = n
<1> DEFINE S == 1 .. n
<1> DEFINE q == WholeShares(n, weights, W, target)
<1> DEFINE d == Magnitude(W * Penny)
<1> DEFINE e == LeftByShare(n, weights, W, target, floored)
<1> USE DEF ToShare
<1>1. IsFiniteSet(S) /\ Cardinality(S) = n /\ S # {}
  <2>1. n \in Int /\ 1 \in S
    OBVIOUS
  <2>2. IsFiniteSet(S) /\ Cardinality(S) = n
    BY FS_Interval
  <2> QED
    BY <2>1, <2>2
<1>2. W \in Int /\ target \in Int /\ W * Penny \in Int /\ W * Penny # 0 /\ Penny \in Int
  <2>1. W \in Int
    BY <1>1, SumType
  <2> QED
    BY <2>1 DEF Penny
<1>3. d \in Nat \ {0} /\ (W * Penny = d \/ W * Penny = -d)
  BY <1>2 DEF Magnitude
<1> HIDE DEF d
<1>4. ASSUME NEW i \in S
      PROVE  /\ weights[i] \in Int /\ q[i] \in Int /\ floored[i] = Penny * q[i] /\ floored[i] \in Int
             /\ e[i] = target * weights[i] + (-W) * floored[i]
             /\ e[i] \in Int /\ e[i] < d /\ -d < e[i]
  <2>1. target * weights[i] \in Int
    BY <1>2, TimesMoves
  <2>2. q[i] = TruncDiv(target * weights[i], W * Penny)
    BY DEF WholeShares
  <2>3. /\ q[i] \in Int
        /\ target * weights[i] - q[i] * (W * Penny) < d
        /\ -d < target * weights[i] - q[i] * (W * Penny)
    <3> HIDE DEF q
    <3> QED
      BY <1>2, <2>1, <2>2, TruncLeaves DEF d
  <2>4. floored[i] = Penny * q[i]
    BY DEF WholeShares
  <2>5. weights[i] \in Int /\ floored[i] \in Int
    BY <1>2, <2>3, <2>4 DEF Penny
  <2>6. e[i] = target * weights[i] - floored[i] * W
    BY DEF LeftByShare
  <2> HIDE DEF q, e
  <2>7. target * weights[i] - q[i] * (W * Penny) = target * weights[i] - (Penny * q[i]) * W
    BY <1>2, <2>3, <2>5, TimesMoves
  <2>8. e[i] = target * weights[i] - q[i] * (W * Penny)
    BY <2>4, <2>6, <2>7
  <2>9. floored[i] * W \in Int /\ (-W) * floored[i] = -(floored[i] * W)
    BY <1>2, <2>5, TimesMoves, TimesSigns
  <2>10. e[i] \in Int /\ e[i] = target * weights[i] + (-W) * floored[i]
    BY <2>1, <2>6, <2>9
  <2> QED
    BY <2>3, <2>4, <2>5, <2>8, <2>10
<1>5. W = SumIn(weights, S)
  OBVIOUS
<1> HIDE DEF q, e, S
<1>6. Rounded(S, weights, q, floored, e, W, k, target, d)
  BY <1>1, <1>2, <1>3, <1>4, <1>5 DEF Rounded
<1> QED
  BY <1>1, <1>4, <1>6 DEF S, q, e, d

(* The code hands out what the whole shares leave.                            *)
LEMMA RestGoesByRank ==
  ASSUME NEW n, NEW weights, NEW W, NEW k, NEW target, NEW floored,
         ToShare(n, weights, W, k, target, floored)
  PROVE  LET rank == RankOfShares(n, weights, W, target, floored)
             left == target - SumIn(floored, 1 .. n)
         IN  /\ HandOutRest(target, weights, W, floored) = HandOut(floored, left, rank)
             /\ Numbers(rank, 1 .. n) /\ DOMAIN floored = 1 .. n
             /\ left = Penny * (k - SumIn(WholeShares(n, weights, W, target), 1 .. n))
             /\ target \in Int /\ SumIn(floored, 1 .. n) \in Int
<1> DEFINE S == 1 .. n
<1> DEFINE q == WholeShares(n, weights, W, target)
<1> DEFINE e == LeftByShare(n, weights, W, target, floored)
<1> DEFINE sgn == IF W < 0 THEN -1 ELSE 1
<1> DEFINE fraction == [i \in S |-> e[i] * sgn]
<1> DEFINE rank == RankByFraction(fraction)
<1>1. n \in Nat /\ k \in Int /\ target = Penny * k /\ target \in Int /\ DOMAIN floored = S
  BY DEF ToShare, Penny
<1>2. \A i \in S : e[i] \in Int
  BY SharesAreRounded
<1>3. \A i \in S : e[i] = target * weights[i] - floored[i] * W
  BY DEF LeftByShare
<1> HIDE DEF e
<1>4. Numbers(rank, S)
  <2>1. \A i \in S : fraction[i] = e[i] * sgn
    OBVIOUS
  <2>2. DOMAIN fraction = 1 .. n
    OBVIOUS
  <2>3. sgn \in Int
    OBVIOUS
  <2> HIDE DEF fraction, sgn
  <2>4. \A i \in 1 .. n : fraction[i] \in Int
    <3> TAKE i \in 1 .. n
    <3>1. e[i] \in Int /\ fraction[i] = e[i] * sgn
      BY <1>2, <2>1
    <3>2. e[i] * sgn \in Int
      BY <2>3, <3>1, TimesMoves
    <3> QED
      BY <3>1, <3>2
  <2> QED
    BY <1>1, <2>2, <2>4, RanksNumber
<1>5. SumSeq(floored) = SumIn(floored, S)
  BY <1>1, SumIsSumIn DEF SumSeq
<1>6. HandOutRest(target, weights, W, floored) = HandOut(floored, target - SumIn(floored, S), rank)
  <2>1. fraction = [i \in DOMAIN floored |-> (target * weights[i] - floored[i] * W) * sgn]
    BY <1>1, <1>3
  <2> HIDE DEF fraction
  <2> QED
    BY <1>5, <2>1, TableIs DEF HandOutRest
<1>7. SumIn(q, S) \in Int /\ SumIn(floored, S) = Penny * SumIn(q, S)
  BY SharesAreRounded, RoundingLeaves
<1>8. target - SumIn(floored, S) = Penny * (k - SumIn(q, S)) /\ SumIn(floored, S) \in Int
  <2> HIDE DEF q, S
  <2> QED
    BY <1>1, <1>7 DEF Penny
<1>9. RankOfShares(n, weights, W, target, floored) = rank
  BY DEF RankOfShares, e
<1> HIDE DEF rank
<1> QED
  BY <1>1, <1>4, <1>6, <1>8, <1>9 DEF S, q

(* What they leave goes out by rank.                                          *)
LEMMA SharedByWeight ==
  ASSUME NEW n, NEW weights, NEW W, NEW k, NEW target, NEW floored,
         ToShare(n, weights, W, k, target, floored)
  PROVE  LET shares == HandOutRest(target, weights, W, floored)
         IN  /\ DOMAIN shares = 1 .. n
             /\ \A i \in 1 .. n : shares[i] \in Int
             /\ SumIn(shares, 1 .. n) = target
<1> DEFINE S == 1 .. n
<1> DEFINE rank == RankOfShares(n, weights, W, target, floored)
<1> DEFINE left == target - SumIn(floored, S)
<1> DEFINE r == k - SumIn(WholeShares(n, weights, W, target), S)
<1> DEFINE shares == HandOut(floored, left, rank)
<1>1. /\ HandOutRest(target, weights, W, floored) = shares
      /\ Numbers(rank, S) /\ DOMAIN floored = S /\ left = Penny * r
      /\ target \in Int /\ SumIn(floored, S) \in Int
  BY RestGoesByRank
<1>2. k \in Int
  BY DEF ToShare
<1>3. IsFiniteSet(S) /\ \A i \in S : floored[i] \in Int
  BY SharesAreRounded DEF Rounded
<1>4. r \in Int /\ Magnitude(r) <= Cardinality(S)
  BY <1>2, SharesAreRounded, RoundingLeaves
<1>5. SumIn(floored, S) + left = target
  <2> HIDE DEF S, rank, r
  <2> QED
    BY <1>1
<1> HIDE DEF left, S, rank, r
<1>6. /\ DOMAIN shares = S
      /\ \A i \in S : shares[i] \in Int
      /\ SumIn(shares, S) = SumIn(floored, S) + left
  <2>1. ToHandOut(S, floored, rank, r, left)
    BY <1>1, <1>3, <1>4 DEF ToHandOut
  <2> QED
    BY <2>1, HandedOut
<1> HIDE DEF shares
<1> QED
  BY <1>1, <1>5, <1>6 DEF S

LEMMA TruncDown ==
  ASSUME NEW a \in Nat, NEW b \in Nat \ {0}
  PROVE  TruncDiv(a, b) \in Nat /\ b * TruncDiv(a, b) <= a
<1>1. Magnitude(a) = a /\ Magnitude(b) = b
  BY DEF Magnitude
<1> DEFINE q == a \div b
<1>2. q \in Nat /\ b * q <= a
  BY DivBounds
<1>3. TruncDiv(a, b) = 1 * q
  BY <1>1 DEF TruncDiv
<1> HIDE DEF q
<1> QED
  BY <1>2, <1>3

LEMMA NotNegative ==
  /\ \A a, b \in Nat : a * b \in Nat
  /\ \A d \in Nat \ {0}, q \in Nat : d * q <= 0 => q = 0
  /\ \A d \in Nat \ {0}, r \in Int : (d * r >= 0 => r >= 0) /\ (d * r = 0 => r = 0)
  BY SMT

(* A positive total over weights of which none is negative.                   *)
ToShareOut(n, weights, W, k, target, floored) ==
  /\ ToShare(n, weights, W, k, target, floored)
  /\ W > 0 /\ target >= 0 /\ \A i \in 1 .. n : weights[i] >= 0

LEMMA LeftIsPositive ==
  ASSUME NEW n, NEW weights, NEW W, NEW k, NEW target, NEW floored,
         ToShareOut(n, weights, W, k, target, floored)
  PROVE  LET e == LeftByShare(n, weights, W, target, floored)
             d == W * Penny
             r == k - SumIn(WholeShares(n, weights, W, target), 1 .. n)
         IN  /\ d \in Nat \ {0} /\ r \in Int /\ SumIn(e, 1 .. n) = d * r
             /\ \A i \in 1 .. n : /\ e[i] \in Nat /\ e[i] < d
                                  /\ weights[i] = 0 => e[i] = 0 /\ floored[i] = 0
<1> DEFINE S == 1 .. n
<1> DEFINE q == WholeShares(n, weights, W, target)
<1> DEFINE e == LeftByShare(n, weights, W, target, floored)
<1> DEFINE d == W * Penny
<1> DEFINE r == k - SumIn(q, S)
<1> USE DEF ToShareOut
<1>1. Rounded(S, weights, q, floored, e, W, k, target, Magnitude(d)) /\ \A i \in S : e[i] \in Int
  BY SharesAreRounded
<1>2. W \in Nat /\ target \in Nat /\ k \in Int /\ d \in Nat \ {0} /\ Magnitude(d) = d
  BY <1>1 DEF Rounded, Magnitude, Penny
<1>3. r \in Int /\ SumIn(e, S) = d * r
  BY <1>1, <1>2, RoundingLeaves
<1>4. ASSUME NEW i \in S
      PROVE  e[i] \in Nat /\ e[i] < d /\ (weights[i] = 0 => e[i] = 0 /\ floored[i] = 0)
  <2>1. weights[i] \in Nat /\ floored[i] = Penny * q[i] /\ e[i] < d /\ e[i] \in Int
    BY <1>1, <1>2 DEF Rounded
  <2>2. q[i] = TruncDiv(target * weights[i], d) /\ e[i] = target * weights[i] - floored[i] * W
    BY DEF WholeShares, LeftByShare
  <2> HIDE DEF q, e
  <2>3. target * weights[i] \in Nat
    BY <1>2, <2>1, NotNegative
  <2>4. q[i] \in Nat /\ d * q[i] <= target * weights[i]
    BY <1>2, <2>2, <2>3, TruncDown
  <2>5. floored[i] * W = d * q[i]
    <3>1. (Penny * q[i]) * W = (W * Penny) * q[i]
      BY <1>2, <2>4 DEF Penny
    <3> QED
      BY <2>1, <3>1
  <2>6. d * q[i] \in Int
    BY <1>2, <2>4, TimesMoves
  <2>7. e[i] \in Nat
    BY <2>1, <2>2, <2>3, <2>4, <2>5, <2>6
  <2>8. ASSUME weights[i] = 0 PROVE e[i] = 0 /\ floored[i] = 0
    <3>1. target * weights[i] = 0
      BY <1>2, <2>8
    <3>2. q[i] = 0
      BY <1>2, <2>4, <3>1, NotNegative
    <3>3. floored[i] = 0 /\ d * q[i] = 0
      BY <1>2, <2>1, <3>2 DEF Penny
    <3> QED
      BY <2>2, <2>5, <3>1, <3>3
  <2> QED
    BY <2>1, <2>7, <2>8
<1> QED
  BY <1>2, <1>3, <1>4

(* The left-over pennies go where something was rounded away.                 *)
LEMMA LeftOversFollowFractions ==
  ASSUME NEW n, NEW weights, NEW W, NEW k, NEW target, NEW floored,
         ToShareOut(n, weights, W, k, target, floored), NEW i \in 1 .. n,
         LeftByShare(n, weights, W, target, floored)[i] = 0
  PROVE  HandOutRest(target, weights, W, floored)[i] = floored[i]
<1> DEFINE S == 1 .. n
<1> DEFINE e == LeftByShare(n, weights, W, target, floored)
<1> DEFINE d == W * Penny
<1> DEFINE r == k - SumIn(WholeShares(n, weights, W, target), S)
<1> DEFINE rank == RankOfShares(n, weights, W, target, floored)
<1> DEFINE left == target - SumIn(floored, S)
<1> DEFINE P == {j \in S : e[j] > 0}
<1> DEFINE Z == {j \in S : e[j] = 0}
<1> DEFINE Before == {j \in S : e[j] > e[i] \/ (e[j] = e[i] /\ j < i)}
<1>1. /\ d \in Nat \ {0} /\ r \in Int /\ SumIn(e, S) = d * r
      /\ \A j \in S : e[j] \in Nat /\ e[j] < d
      /\ e[i] = 0
  BY LeftIsPositive
<1>2. /\ HandOutRest(target, weights, W, floored) = HandOut(floored, left, rank)
      /\ DOMAIN floored = S /\ left = Penny * r
  BY RestGoesByRank DEF ToShareOut
<1>3. rank[i] = Cardinality(Before)
  <2>1. ~(W < 0) /\ W \in Int
    BY SharesAreRounded DEF ToShareOut, Rounded
  <2>2. rank = RankByFraction([j \in S |-> e[j] * 1])
    BY <2>1 DEF RankOfShares
  <2> HIDE DEF e, rank
  <2>3. [j \in S |-> e[j] * 1] = [j \in S |-> e[j]]
    BY <1>1
  <2> QED
    BY <2>2, <2>3 DEF RankByFraction
<1>4. i \in S /\ IsFiniteSet(S)
  BY SharesAreRounded DEF ToShareOut, Rounded
<1> HIDE DEF e, rank, left, r, d, S
<1>5. S = P \cup Z /\ P \cap Z = {} /\ P \subseteq Before /\ P \subseteq S /\ Z \subseteq S /\ Before \subseteq S
  <2>1. \A j \in S : (e[j] > 0 \/ e[j] = 0) /\ ~(e[j] > 0 /\ e[j] = 0)
    BY <1>1
  <2>2. S = P \cup Z /\ P \cap Z = {}
    BY <2>1
  <2>3. \A j \in P : e[j] > e[i]
    BY <1>1
  <2> QED
    BY <2>2, <2>3
<1>6. /\ IsFiniteSet(P) /\ Cardinality(P) \in Nat /\ IsFiniteSet(Z) /\ Cardinality(Z) \in Nat
      /\ IsFiniteSet(Before) /\ Cardinality(Before) \in Nat /\ Cardinality(P) <= Cardinality(Before)
  <2> HIDE DEF P, Z, Before
  <2>1. IsFiniteSet(P) /\ IsFiniteSet(Z) /\ IsFiniteSet(Before)
    BY <1>4, <1>5, FS_Subset
  <2> QED
    BY <1>5, <2>1, FS_Subset, FS_CardinalityType
<1>7. (\A j \in P : e[j] \in Int /\ e[j] < d /\ e[j] > 0) /\ (\A j \in Z : e[j] = 0)
  BY <1>1
<1> HIDE DEF P, Z, Before
<1>8. SumIn(e, Z) = 0
  <2>1. SumIn(e, Z) = 0 * Cardinality(Z)
    BY <1>6, <1>7, SumOfConstant
  <2> QED
    BY <1>6, <2>1
<1>9. SumIn(e, P) = d * r
  <2>1. \A j \in P \cup Z : e[j] \in Int
    BY <1>7
  <2>2. SumIn(e, P \cup Z) = SumIn(e, P) + SumIn(e, Z)
    BY <1>5, <1>6, <2>1, SumUnion
  <2>3. SumIn(e, P) \in Int
    BY <1>6, <1>7, SumType
  <2> QED
    BY <1>1, <1>5, <1>8, <2>2, <2>3
<1>10. 0 <= r /\ r <= Cardinality(P)
  <2>1. CASE P = {}
    <3>1. SumIn(e, P) = 0 /\ Cardinality(P) = 0
      BY <2>1, SumEmpty, FS_EmptySet
    <3>2. r = 0
      BY <1>1, <1>9, <3>1, NotNegative
    <3> QED
      BY <3>1, <3>2
  <2>2. CASE P # {}
    <3>1. SumIn(e, P) < d * Cardinality(P)
      BY <1>1, <1>6, <1>7, <2>2, SumBelow
    <3>2. r < Cardinality(P)
      BY <1>1, <1>6, <1>9, <3>1, FactorOut
    <3> DEFINE none == [j \in P |-> 0]
    <3>3. \A j \in P : none[j] = 0 /\ none[j] \in Int /\ e[j] \in Int /\ none[j] <= e[j]
      BY <1>7
    <3> HIDE DEF none
    <3>4. SumIn(none, P) <= SumIn(e, P)
      BY <1>6, <3>3, SumMonotone
    <3>5. SumIn(none, P) = 0 * Cardinality(P)
      BY <1>6, <3>3, SumOfConstant
    <3>6. d * r >= 0
      BY <1>6, <1>9, <3>4, <3>5
    <3>7. r >= 0
      BY <1>1, <3>6, NotNegative
    <3> QED
      BY <1>1, <1>6, <3>2, <3>7
  <2> QED
    BY <2>1, <2>2
<1>11. ~(rank[i] * Penny < Magnitude(left))
  <2>1. Magnitude(left) = Penny * r
    BY <1>1, <1>2, <1>10 DEF Magnitude, Penny
  <2>2. rank[i] \in Nat /\ r <= rank[i]
    BY <1>1, <1>3, <1>6, <1>10
  <2> QED
    BY <1>1, <2>1, <2>2 DEF Penny
<1>12. HandOut(floored, left, rank)[i] = floored[i]
  BY <1>2, <1>4, <1>11, TableIs DEF HandOut
<1> QED
  BY <1>2, <1>12

(* Each part gets a penny of what is left, or none.                           *)
LEMMA OnePennyEach ==
  ASSUME NEW n, NEW weights, NEW W, NEW k, NEW target, NEW floored,
         ToShareOut(n, weights, W, k, target, floored), NEW i \in 1 .. n
  PROVE  HandOutRest(target, weights, W, floored)[i] \in {floored[i], floored[i] + Penny}
<1> DEFINE S == 1 .. n
<1> DEFINE e == LeftByShare(n, weights, W, target, floored)
<1> DEFINE d == W * Penny
<1> DEFINE r == k - SumIn(WholeShares(n, weights, W, target), S)
<1> DEFINE rank == RankOfShares(n, weights, W, target, floored)
<1> DEFINE left == target - SumIn(floored, S)
<1> DEFINE none == [j \in S |-> 0]
<1>1. d \in Nat \ {0} /\ r \in Int /\ SumIn(e, S) = d * r /\ \A j \in S : e[j] \in Nat
  BY LeftIsPositive
<1>2. /\ HandOutRest(target, weights, W, floored) = HandOut(floored, left, rank)
      /\ DOMAIN floored = S /\ left = Penny * r
  BY RestGoesByRank DEF ToShareOut
<1>3. i \in S /\ IsFiniteSet(S)
  BY SharesAreRounded DEF ToShareOut, Rounded
<1>4. \A j \in S : none[j] = 0 /\ none[j] \in Int /\ e[j] \in Int /\ none[j] <= e[j]
  BY <1>1
<1> HIDE DEF none, e, d, r, rank, left, S
<1>5. SumIn(none, S) <= SumIn(e, S)
  BY <1>3, <1>4, SumMonotone
<1>6. SumIn(none, S) = 0 * Cardinality(S) /\ Cardinality(S) \in Nat
  BY <1>3, <1>4, SumOfConstant, FS_CardinalityType
<1>7. d * r >= 0
  BY <1>1, <1>5, <1>6
<1>8. r >= 0
  BY <1>1, <1>7, NotNegative
<1>9. ~(left < 0)
  BY <1>1, <1>2, <1>8 DEF Penny
<1>10. HandOut(floored, left, rank)[i]
         = IF rank[i] * Penny < Magnitude(left) THEN floored[i] + Penny ELSE floored[i]
  BY <1>2, <1>3, <1>9, TableIs DEF HandOut
<1> QED
  BY <1>2, <1>10

(* allocateProportionally "allocates exactly": whatever the weights, their    *)
(* signs and the order the left-over pennies go out in, the shares add up to  *)
(* the total rounded to the penny, one share for each weight.                 *)
THEOREM AllocationIsComplete ==
  ASSUME NEW total \in Int, NEW weights \in Seq(Int), weights # <<>>
  PROVE  LET shares == AllocateProportionally(total, weights)
         IN  /\ DOMAIN shares = DOMAIN weights
             /\ \A i \in DOMAIN weights : shares[i] \in Int
             /\ SumSeq(shares) = ToPence(total)
<1> DEFINE n == Len(weights)
<1> DEFINE W == SumSeq(weights)
<1> DEFINE target == ToPence(total)
<1> DEFINE floored == [i \in DOMAIN weights |-> Penny * TruncDiv(target * weights[i], W * Penny)]
<1>1. n \in Nat \ {0} /\ DOMAIN weights = 1 .. n /\ \A i \in 1 .. n : weights[i] \in Int
  OBVIOUS
<1>2. W = SumIn(weights, 1 .. n)
  BY <1>1, SumIsSumIn DEF SumSeq
<1>3. PICK k \in Int : target = Penny * k
  BY PenceAreWhole
<1>4. AllocateProportionally(total, weights)
        = IF W = 0 THEN DistributeEvenly(target, n) ELSE HandOutRest(target, weights, W, floored)
  BY TableIs DEF AllocateProportionally, SharesOf
<1> DEFINE shares == AllocateProportionally(total, weights)
<1>5. DOMAIN shares = 1 .. n /\ (\A i \in 1 .. n : shares[i] \in Int) /\ SumIn(shares, 1 .. n) = target
  <2>1. CASE W = 0
    <3>1. shares = DistributeEvenly(target, n)
      BY <1>4, <2>1
    <3> HIDE DEF shares, target, n
    <3> QED
      BY <1>1, <1>3, <3>1, SharedEvenly
  <2>2. CASE W # 0
    <3>1. shares = HandOutRest(target, weights, W, floored)
      BY <1>4, <2>2
    <3>2. floored = [i \in 1 .. n |-> Penny * TruncDiv(target * weights[i], W * Penny)]
      BY <1>1
    <3> HIDE DEF shares, target, n, W, floored
    <3>3. ToShare(n, weights, W, k, target, floored)
      BY <1>1, <1>2, <1>3, <2>2, <3>2 DEF ToShare
    <3> QED
      BY <3>1, <3>3, SharedByWeight
  <2> QED
    BY <2>1, <2>2
<1> HIDE DEF shares, target, n
<1>6. SumSeq(shares) = target
  BY <1>5, SumIsSumIn DEF SumSeq
<1> QED
  BY <1>1, <1>5, <1>6 DEF shares, target

(* A total that is not negative, shared by weights none of which is.          *)
LEMMA SharedOut ==
  ASSUME NEW total \in Int, total >= 0, NEW weights \in Seq(Int), SumSeq(weights) > 0,
         \A j \in DOMAIN weights : weights[j] >= 0
  PROVE  LET W == SumSeq(weights)
             target == ToPence(total)
             floored == [j \in DOMAIN weights |-> Penny * TruncDiv(target * weights[j], W * Penny)]
         IN  /\ AllocateProportionally(total, weights) = HandOutRest(target, weights, W, floored)
             /\ DOMAIN weights = 1 .. Len(weights)
             /\ \E k \in Int : ToShareOut(Len(weights), weights, W, k, target, floored)
<1> DEFINE n == Len(weights)
<1> DEFINE W == SumSeq(weights)
<1> DEFINE target == ToPence(total)
<1> DEFINE floored == [j \in DOMAIN weights |-> Penny * TruncDiv(target * weights[j], W * Penny)]
<1>0. weights # <<>>
  <2> SUFFICES ASSUME weights = <<>> PROVE FALSE
    OBVIOUS
  <2>1. SumSeq(weights) = SumIn(weights, {})
    BY SumIsSumIn DEF SumSeq
  <2> QED
    BY <2>1, SumEmpty
<1>1. n \in Nat \ {0} /\ DOMAIN weights = 1 .. n /\ (\A j \in 1 .. n : weights[j] \in Int) /\ weights # <<>>
  BY <1>0
<1>2. W = SumIn(weights, 1 .. n)
  BY <1>1, SumIsSumIn DEF SumSeq
<1>3. W \in Int /\ W # 0 /\ W > 0
  <2>1. IsFiniteSet(1 .. n)
    BY <1>1, FS_Interval
  <2> HIDE DEF n
  <2>2. SumIn(weights, 1 .. n) \in Int
    BY <1>1, <2>1, SumType
  <2>3. W > 0
    OBVIOUS
  <2> HIDE DEF W
  <2> QED
    BY <1>2, <2>2, <2>3
<1>4. PICK k \in Int : target = Penny * k
  BY PenceAreWhole
<1>5. target >= 0
  <2>1. Magnitude(total) \in Nat /\ ~(total < 0)
    BY DEF Magnitude
  <2>2. (Magnitude(total) + Penny \div 2) \div Penny \in Nat
    BY <2>1 DEF Penny
  <2> QED
    BY <2>1, <2>2 DEF ToPence, Penny
<1>6. AllocateProportionally(total, weights) = HandOutRest(target, weights, W, floored)
  BY <1>1, <1>3, TableIs DEF AllocateProportionally, SharesOf
<1>7. floored = [j \in 1 .. n |-> Penny * TruncDiv(target * weights[j], W * Penny)]
  BY <1>1
<1>8. \A j \in 1 .. n : weights[j] >= 0
  BY <1>1
<1> HIDE DEF n, W, target, floored
<1>9. ToShareOut(n, weights, W, k, target, floored)
  BY <1>1, <1>2, <1>3, <1>4, <1>5, <1>7, <1>8 DEF ToShareOut, ToShare
<1> QED
  BY <1>1, <1>6, <1>9 DEF n, W, target, floored

(* No part is a penny off: of a total that is not negative, shared by weights *)
(* none of which is, what a part gets differs from its exact share by less    *)
(* than a penny. (Both are multiplied by the sum of the weights.)             *)
THEOREM SharesAreFair ==
  ASSUME NEW total \in Int, total >= 0, NEW weights \in Seq(Int), SumSeq(weights) > 0,
         \A j \in DOMAIN weights : weights[j] >= 0, NEW i \in DOMAIN weights
  PROVE  Magnitude(AllocateProportionally(total, weights)[i] * SumSeq(weights) - ToPence(total) * weights[i])
           < Penny * SumSeq(weights)
<1> DEFINE n == Len(weights)
<1> DEFINE W == SumSeq(weights)
<1> DEFINE target == ToPence(total)
<1> DEFINE floored == [j \in DOMAIN weights |-> Penny * TruncDiv(target * weights[j], W * Penny)]
<1> DEFINE e == LeftByShare(n, weights, W, target, floored)
<1> DEFINE share == AllocateProportionally(total, weights)[i]
<1>1. PICK k \in Int : ToShareOut(n, weights, W, k, target, floored)
  BY SharedOut
<1>2. share = HandOutRest(target, weights, W, floored)[i] /\ i \in 1 .. n
  BY SharedOut
<1>3. weights[i] \in Int
  OBVIOUS
<1> HIDE DEF n, W, target, floored, e, share
<1>4. W * Penny \in Nat \ {0} /\ e[i] \in Nat /\ e[i] < W * Penny
  BY <1>1, <1>2, LeftIsPositive DEF e
<1>5. share \in {floored[i], floored[i] + Penny} /\ (e[i] = 0 => share = floored[i])
  BY <1>1, <1>2, OnePennyEach, LeftOversFollowFractions DEF e
<1>6. e[i] = target * weights[i] - floored[i] * W
  BY <1>2 DEF e, LeftByShare
<1>7. W \in Int /\ target \in Int /\ floored[i] \in Int
  BY <1>1, <1>2, SharesAreRounded DEF ToShareOut, Rounded
<1> DEFINE exact == target * weights[i]
<1> DEFINE cut == floored[i] * W
<1>8. exact \in Int /\ cut \in Int /\ (floored[i] + Penny) * W = cut + W * Penny
  BY <1>3, <1>7 DEF Penny
<1>9. share * W = cut \/ (e[i] > 0 /\ share * W = cut + W * Penny)
  BY <1>4, <1>5, <1>8
<1> DEFINE bound == W * Penny
<1> HIDE DEF exact, cut, bound
<1>10. e[i] = exact - cut /\ bound \in Nat \ {0} /\ e[i] < bound /\ e[i] \in Nat
  BY <1>4, <1>6 DEF exact, cut, bound
<1>11. share * W = cut \/ (e[i] > 0 /\ share * W = cut + bound)
  BY <1>9 DEF bound
<1>12. Magnitude(share * W - exact) < bound
  BY <1>8, <1>10, <1>11 DEF Magnitude
<1>13. bound = Penny * W
  BY <1>7 DEF bound, Penny
<1> QED
  BY <1>12, <1>13 DEF share, W, exact, target

(* A part without weight carries nothing: of a total that is not negative,    *)
(* shared by weights none of which is, no left-over penny goes to a part of   *)
(* weight zero, however the fractions are ordered. It is why an order-level   *)
(* charge stays with the lines it matches.                                    *)
THEOREM NothingWithoutWeight ==
  ASSUME NEW total \in Int, total >= 0, NEW weights \in Seq(Int), SumSeq(weights) > 0,
         \A j \in DOMAIN weights : weights[j] >= 0, NEW i \in DOMAIN weights, weights[i] = 0
  PROVE  AllocateProportionally(total, weights)[i] = 0
<1> DEFINE n == Len(weights)
<1> DEFINE W == SumSeq(weights)
<1> DEFINE target == ToPence(total)
<1> DEFINE floored == [j \in DOMAIN weights |-> Penny * TruncDiv(target * weights[j], W * Penny)]
<1>1. PICK k \in Int : ToShareOut(n, weights, W, k, target, floored)
  BY SharedOut
<1>2. AllocateProportionally(total, weights) = HandOutRest(target, weights, W, floored) /\ i \in 1 .. n
  BY SharedOut
<1> HIDE DEF n, W, target, floored
<1>3. LeftByShare(n, weights, W, target, floored)[i] = 0 /\ floored[i] = 0
  BY <1>1, <1>2, LeftIsPositive
<1> QED
  BY <1>1, <1>2, <1>3, LeftOversFollowFractions
=============================================================================
