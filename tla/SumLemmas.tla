------------------------------- MODULE SumLemmas -------------------------------
(***************************************************************************)
(* What SumFunctionOnSet adds up.  The community modules define a sum over *)
(* a finite set by recursion on its subsets, with CHOOSE for the order.    *)
(* The facts a proof needs (a sum is a number, any element can be taken    *)
(* out first, it depends on nothing outside the set) take an induction;    *)
(* it is done here with WFMin, on a set of would-be counterexamples        *)
(* instead of a predicate.                                                 *)
(***************************************************************************)
EXTENDS Integers, FiniteSets, Functions, Folds, FiniteSetTheorems, WellFoundedInduction, TLAPS

-----------------------------------------------------------------------------
(* The recursion, with the summed function and the set written out.        *)

IterStep(f, g, s) == IF s = {} THEN 0 ELSE f[CHOOSE y \in s : TRUE] + g[s \ {CHOOSE y \in s : TRUE}]
IsSum(f, S, g) == g = [s \in SUBSET S |-> IterStep(f, g, s)]

(* The sum of f over S is the value at S of the recursive function that    *)
(* SumFunctionOnSet defines on the subsets of S.                           *)
LEMMA SumIsIter ==
  ASSUME NEW f, NEW S
  PROVE  SumFunctionOnSet(f, S) = (CHOOSE g : IsSum(f, S, g))[S]
BY Zenon DEF SumFunctionOnSet, FoldFunctionOnSet, MapThenFoldSet, IsSum, IterStep

(* Among some subsets of a finite set, one has no other below it.          *)
LEMMA SmallestSet ==
  ASSUME NEW S, IsFiniteSet(S), NEW Bad \in SUBSET (SUBSET S), Bad # {}
  PROVE  \E T \in Bad : \A U \in Bad : U \subseteq T => U = T
<1>1. IsWellFoundedOn(StrictSubsetOrdering(S), FiniteSubsetsOf(S)) /\ FiniteSubsetsOf(S) = SUBSET S
  BY FS_StrictSubsetOrderingWellFounded, FS_FiniteSubsetsOfFinite
<1>2. PICK T \in Bad : \A U \in Bad : <<U, T>> \notin StrictSubsetOrdering(S)
  BY <1>1, WFMin
<1>3. \A U \in Bad : U \subseteq T => U = T
  BY <1>2 DEF StrictSubsetOrdering
<1> QED BY <1>3

(* A set of naturals that holds the predecessor of each of its elements    *)
(* is empty.                                                               *)
LEMMA NoDescent ==
  ASSUME NEW Bad \in SUBSET Nat, \A n \in Bad : n - 1 \in Bad
  PROVE  Bad = {}
<1> SUFFICES ASSUME NEW m \in Bad PROVE FALSE
  OBVIOUS
<1> DEFINE Below == {0..n : n \in {n \in Bad : n <= m}}
<1>1. IsFiniteSet(0..m)
  BY FS_Interval
<1>2. Below \in SUBSET (SUBSET (0..m)) /\ Below # {}
  OBVIOUS
<1>3. \E T \in Below : \A U \in Below : U \subseteq T => U = T
  <2> DEFINE M == 0..m
  <2>1. IsFiniteSet(M) /\ Below \in SUBSET (SUBSET M) /\ Below # {}
    BY <1>1, <1>2
  <2> HIDE DEF Below, M
  <2> QED BY <2>1, SmallestSet
<1>4. PICK T \in Below : \A U \in Below : U \subseteq T => U = T
  BY <1>3
<1>5. PICK n \in Bad : n <= m /\ T = 0..n
  OBVIOUS
<1>6. 0..(n - 1) \in Below /\ 0..(n - 1) \subseteq T
  BY SMTT(30), <1>5
<1>7. n \in T /\ n \notin 0..(n - 1)
  BY <1>5
<1> QED BY <1>4, <1>6, <1>7

(* The recursive function exists: built for the subsets of at most n       *)
(* elements, for one n after the other.                                    *)
LEMMA IterExists ==
  ASSUME NEW S, IsFiniteSet(S), NEW f, \A x \in S : f[x] \in Int
  PROVE  \E g \in [SUBSET S -> Int] : IsSum(f, S, g)
<1> DEFINE Upto(n) == {g \in [SUBSET S -> Int] : \A s \in SUBSET S : Cardinality(s) <= n => g[s] = IterStep(f, g, s)}
<1> DEFINE Zero == [s \in SUBSET S |-> 0]
<1>1. \A s \in SUBSET S : IsFiniteSet(s) /\ Cardinality(s) \in Nat /\ (Cardinality(s) = 0 <=> s = {})
  BY FS_Subset, FS_CardinalityType, FS_EmptySet
<1>2. Upto(0) # {}
  <2>1. \A s \in SUBSET S : Cardinality(s) <= 0 => s = {}
    BY <1>1
  <2>2. Zero \in Upto(0)
    BY <2>1 DEF IterStep
  <2> QED BY <2>2
<1>3. ASSUME NEW n \in Nat, Upto(n) # {}
      PROVE  Upto(n + 1) # {}
  <2>1. PICK g \in [SUBSET S -> Int] : \A s \in SUBSET S : Cardinality(s) <= n => g[s] = IterStep(f, g, s)
    BY <1>3
  <2> DEFINE h == [s \in SUBSET S |-> IF Cardinality(s) = n + 1 THEN IterStep(f, g, s) ELSE g[s]]
  <2>2. ASSUME NEW s \in SUBSET S, s # {}
        PROVE  /\ (CHOOSE y \in s : TRUE) \in s
               /\ (CHOOSE y \in s : TRUE) \in S
               /\ s \ {CHOOSE y \in s : TRUE} \in SUBSET S
               /\ Cardinality(s \ {CHOOSE y \in s : TRUE}) = Cardinality(s) - 1
    <3>1. (CHOOSE y \in s : TRUE) \in s
      BY <2>2
    <3> QED BY <3>1, <1>1, FS_RemoveElement
  <2>3. \A s \in SUBSET S : IterStep(f, g, s) \in Int
    BY <2>2 DEF IterStep
  <2>4. h \in [SUBSET S -> Int]
    BY <2>3
  <2>5. ASSUME NEW s \in SUBSET S, Cardinality(s) <= n + 1
        PROVE  IterStep(f, h, s) = IterStep(f, g, s)
    <3>1. CASE s = {}
      BY <3>1 DEF IterStep
    <3>2. CASE s # {}
      <4>1. h[s \ {CHOOSE y \in s : TRUE}] = g[s \ {CHOOSE y \in s : TRUE}]
        BY <2>2, <2>5, <3>2, <1>1
      <4> QED BY <4>1, <3>2 DEF IterStep
    <3> QED BY <3>1, <3>2
  <2>6. ASSUME NEW s \in SUBSET S, Cardinality(s) <= n + 1
        PROVE  h[s] = IterStep(f, h, s)
    <3>1. CASE Cardinality(s) = n + 1
      <4>1. h[s] = IterStep(f, g, s)
        BY <3>1
      <4> HIDE DEF h
      <4> QED BY <4>1, <2>5, <2>6
    <3>2. CASE Cardinality(s) # n + 1
      <4>1. Cardinality(s) <= n
        BY <3>2, <2>6, <1>1
      <4>2. h[s] = g[s]
        BY <3>2
      <4>3. g[s] = IterStep(f, g, s)
        BY <4>1, <2>1
      <4> HIDE DEF h
      <4> QED BY <4>2, <4>3, <2>5, <2>6
    <3> QED BY <3>1, <3>2
  <2> HIDE DEF h
  <2>7. h \in Upto(n + 1)
    BY <2>4, <2>6
  <2> QED BY <2>7
<1>4. \A n \in Nat : Upto(n) # {}
  <2> DEFINE Bad == {n \in Nat : Upto(n) = {}}
  <2> HIDE DEF Upto
  <2>1. \A n \in Bad : n - 1 \in Bad
    BY <1>2, <1>3
  <2>2. Bad = {}
    BY <2>1, NoDescent
  <2> QED BY <2>2
<1>5. Upto(Cardinality(S)) # {}
  BY <1>1, <1>4
<1>6. \A s \in SUBSET S : Cardinality(s) <= Cardinality(S)
  BY FS_Subset
<1> QED BY <1>5, <1>6 DEF IsSum

-----------------------------------------------------------------------------
(* The element the recursion takes out of s.                               *)
Picked(s) == CHOOSE y \in s : TRUE

(* One step of the recursion.                                              *)
LEMMA PickedStep ==
  ASSUME NEW S, NEW f, NEW g, IsSum(f, S, g)
  PROVE  /\ g[{}] = 0
         /\ \A s \in SUBSET S : s # {} =>
              /\ Picked(s) \in s /\ s \ {Picked(s)} \in SUBSET S
              /\ g[s] = f[Picked(s)] + g[s \ {Picked(s)}]
<1>1. \A s \in SUBSET S : g[s] = IterStep(f, g, s)
  BY DEF IsSum
<1>2. g[{}] = 0
  BY <1>1 DEF IterStep
<1>3. ASSUME NEW s \in SUBSET S, s # {}
      PROVE  /\ Picked(s) \in s /\ s \ {Picked(s)} \in SUBSET S
             /\ g[s] = f[Picked(s)] + g[s \ {Picked(s)}]
  <2>1. Picked(s) \in s
    BY <1>3 DEF Picked
  <2>2. g[s] = f[Picked(s)] + g[s \ {Picked(s)}]
    BY <1>1, <1>3 DEF IterStep, Picked
  <2> QED BY <2>1, <2>2
<1> QED BY <1>2, <1>3

(* It adds integers up to integers.                                        *)
LEMMA IterType ==
  ASSUME NEW S, IsFiniteSet(S), NEW f, \A x \in S : f[x] \in Int, NEW g, IsSum(f, S, g)
  PROVE  \A s \in SUBSET S : g[s] \in Int
<1> DEFINE Bad == {s \in SUBSET S : g[s] \notin Int}
<1> SUFFICES ASSUME Bad # {} PROVE FALSE
  OBVIOUS
<1>1. \E s \in Bad : \A u \in Bad : u \subseteq s => u = s
  <2>1. Bad \in SUBSET (SUBSET S)
    OBVIOUS
  <2> HIDE DEF Bad
  <2> QED BY <2>1, SmallestSet
<1>2. PICK s \in Bad : \A u \in Bad : u \subseteq s => u = s
  BY <1>1
<1>3. s # {}
  <2>1. g[{}] = 0
    BY PickedStep
  <2> QED BY <2>1
<1>4. /\ Picked(s) \in s /\ s \ {Picked(s)} \in SUBSET S
      /\ g[s] = f[Picked(s)] + g[s \ {Picked(s)}]
  BY <1>3, PickedStep
<1>5. s \ {Picked(s)} \notin Bad
  BY <1>2, <1>4
<1>6. g[s \ {Picked(s)}] \in Int /\ f[Picked(s)] \in Int
  BY <1>4, <1>5
<1> QED BY <1>4, <1>6

Agree(g, h, T) == \A s \in SUBSET T : g[s] = h[s]
SameOn(f, e, T) == \A x \in T : f[x] = e[x]
AnyFirst(f, g, S) == \A s \in SUBSET S : \A x \in s : g[s] = f[x] + g[s \ {x}]

(* Two of them agree where their functions do.                             *)
LEMMA IterUnique ==
  ASSUME NEW S, IsFiniteSet(S), NEW T \in SUBSET S, NEW f, NEW g, NEW e, NEW h,
         SameOn(f, e, T), IsSum(f, S, g), IsSum(e, T, h)
  PROVE  Agree(g, h, T)
<1> USE DEF Agree, SameOn
<1> DEFINE Bad == {s \in SUBSET T : g[s] # h[s]}
<1> SUFFICES ASSUME Bad # {} PROVE FALSE
  OBVIOUS
<1>1. \E s \in Bad : \A u \in Bad : u \subseteq s => u = s
  <2>1. Bad \in SUBSET (SUBSET S)
    OBVIOUS
  <2> HIDE DEF Bad
  <2> QED BY <2>1, SmallestSet
<1>2. PICK s \in Bad : \A u \in Bad : u \subseteq s => u = s
  BY <1>1
<1>3. s # {}
  <2>1. g[{}] = 0 /\ h[{}] = 0
    BY PickedStep
  <2> QED BY <2>1
<1>4. /\ Picked(s) \in s /\ s \ {Picked(s)} \in SUBSET T
      /\ g[s] = f[Picked(s)] + g[s \ {Picked(s)}]
      /\ h[s] = e[Picked(s)] + h[s \ {Picked(s)}]
  <2>1. s \in SUBSET S /\ s \in SUBSET T
    OBVIOUS
  <2> QED BY <2>1, <1>3, PickedStep
<1>5. s \ {Picked(s)} \notin Bad
  BY <1>2, <1>4
<1> QED BY <1>4, <1>5

(* Any element of the set can be the one added last.                       *)
LEMMA IterAny ==
  ASSUME NEW S, IsFiniteSet(S), NEW f, \A x \in S : f[x] \in Int, NEW g, IsSum(f, S, g)
  PROVE  AnyFirst(f, g, S)
<1> USE DEF AnyFirst
<1> DEFINE Bad == {s \in SUBSET S : \E x \in s : g[s] # f[x] + g[s \ {x}]}
<1> SUFFICES ASSUME Bad # {} PROVE FALSE
  OBVIOUS
<1>1. \E s \in Bad : \A u \in Bad : u \subseteq s => u = s
  <2>1. Bad \in SUBSET (SUBSET S)
    OBVIOUS
  <2> HIDE DEF Bad
  <2> QED BY <2>1, SmallestSet
<1>2. PICK s \in Bad : \A u \in Bad : u \subseteq s => u = s
  BY <1>1
<1>3. PICK x \in s : g[s] # f[x] + g[s \ {x}]
  OBVIOUS
<1> DEFINE c == Picked(s)
<1>4. c \in s /\ g[s] = f[c] + g[s \ {c}]
  <2>1. s \in SUBSET S /\ s # {}
    BY <1>3
  <2> QED BY <2>1, PickedStep
<1> HIDE DEF c
<1>5. c # x
  BY <1>3, <1>4
<1>6. s \ {c} \notin Bad /\ s \ {x} \notin Bad
  BY <1>2, <1>3, <1>4
<1>7. g[s \ {c}] = f[x] + g[(s \ {c}) \ {x}] /\ g[s \ {x}] = f[c] + g[(s \ {x}) \ {c}]
  BY <1>3, <1>4, <1>5, <1>6
<1>8. (s \ {c}) \ {x} = (s \ {x}) \ {c}
  OBVIOUS
<1>9. f[x] \in Int /\ f[c] \in Int /\ g[(s \ {x}) \ {c}] \in Int
  <2>1. \A u \in SUBSET S : g[u] \in Int
    BY IterType
  <2> QED BY <2>1, <1>3, <1>4
<1> DEFINE A == g[(s \ {x}) \ {c}]
<1>10. g[s \ {c}] = f[x] + A /\ g[s \ {x}] = f[c] + A /\ A \in Int
  BY <1>7, <1>8, <1>9
<1> HIDE DEF A
<1>11. g[s] = f[c] + (f[x] + A) /\ f[x] + g[s \ {x}] = f[x] + (f[c] + A)
  BY <1>4, <1>10
<1>12. f[c] + (f[x] + A) = f[x] + (f[c] + A)
  BY <1>9, <1>10
<1> QED BY <1>3, <1>11, <1>12

(* The sum over no element.                                                *)
LEMMA SumEmpty == ASSUME NEW f PROVE SumFunctionOnSet(f, {}) = 0
<1> DEFINE g == CHOOSE g : IsSum(f, {}, g)
<1>1. IsFiniteSet({})
  BY FS_EmptySet
<1>2. IsSum(f, {}, g)
  BY <1>1, IterExists
<1>3. SumFunctionOnSet(f, {}) = g[{}]
  BY SumIsIter
<1> QED BY <1>2, <1>3, PickedStep

(* One function gives the sums over every subset of S.                     *)
LEMMA SumIs ==
  ASSUME NEW S, IsFiniteSet(S), NEW f, \A x \in S : f[x] \in Int
  PROVE  \E g : IsSum(f, S, g) /\ \A T \in SUBSET S : SumFunctionOnSet(f, T) = g[T]
<1> DEFINE it(T) == CHOOSE h : IsSum(f, T, h)
<1>1. \A T \in SUBSET S : IsSum(f, T, it(T)) /\ SumFunctionOnSet(f, T) = it(T)[T]
  <2> TAKE T \in SUBSET S
  <2>1. IsFiniteSet(T) /\ \A x \in T : f[x] \in Int
    BY FS_Subset
  <2>2. IsSum(f, T, it(T))
    BY <2>1, IterExists
  <2> QED BY <2>2, SumIsIter
<1> HIDE DEF it
<1>2. IsSum(f, S, it(S))
  BY <1>1
<1>3. ASSUME NEW T \in SUBSET S
      PROVE  it(T)[T] = it(S)[T]
  <2>1. IsSum(f, T, it(T)) /\ SameOn(f, f, T)
    BY <1>1 DEF SameOn
  <2>2. Agree(it(S), it(T), T)
    BY <2>1, <1>2, IterUnique
  <2> QED BY <2>2 DEF Agree
<1> QED BY <1>1, <1>2, <1>3

(* A sum of integers is an integer.                                        *)
THEOREM SumType ==
  ASSUME NEW S, IsFiniteSet(S), NEW f, \A x \in S : f[x] \in Int
  PROVE  SumFunctionOnSet(f, S) \in Int
<1>1. PICK g : IsSum(f, S, g) /\ \A T \in SUBSET S : SumFunctionOnSet(f, T) = g[T]
  BY SumIs
<1>2. \A T \in SUBSET S : g[T] \in Int
  BY <1>1, IterType
<1> QED BY <1>1, <1>2

(* Any element can be taken out of a sum.                                  *)
THEOREM SumWithout ==
  ASSUME NEW S, IsFiniteSet(S), NEW f, \A x \in S : f[x] \in Int, NEW x \in S
  PROVE  SumFunctionOnSet(f, S) = f[x] + SumFunctionOnSet(f, S \ {x})
<1>1. PICK g : IsSum(f, S, g) /\ \A T \in SUBSET S : SumFunctionOnSet(f, T) = g[T]
  BY SumIs
<1>2. AnyFirst(f, g, S)
  BY <1>1, IterAny
<1> QED BY <1>1, <1>2 DEF AnyFirst

(* A sum only depends on the values it adds.                               *)
THEOREM SumSame ==
  ASSUME NEW S, IsFiniteSet(S), NEW f, NEW e, \A x \in S : f[x] \in Int /\ e[x] = f[x]
  PROVE  SumFunctionOnSet(e, S) = SumFunctionOnSet(f, S)
<1>1. PICK g : IsSum(f, S, g) /\ \A T \in SUBSET S : SumFunctionOnSet(f, T) = g[T]
  BY SumIs
<1>2. PICK h : IsSum(e, S, h) /\ \A T \in SUBSET S : SumFunctionOnSet(e, T) = h[T]
  BY SumIs
<1>3. Agree(g, h, S)
  <2>1. SameOn(f, e, S)
    BY DEF SameOn
  <2> QED BY <1>1, <1>2, <2>1, IterUnique
<1>4. g[S] = h[S]
  BY <1>3 DEF Agree
<1> QED BY <1>1, <1>2, <1>4

(* A sum of naturals is a natural.                                         *)
THEOREM SumNat ==
  ASSUME NEW S, IsFiniteSet(S), NEW f, \A x \in S : f[x] \in Nat
  PROVE  SumFunctionOnSet(f, S) \in Nat
<1> DEFINE Bad == {T \in SUBSET S : SumFunctionOnSet(f, T) \notin Nat}
<1> SUFFICES ASSUME Bad # {} PROVE FALSE
  OBVIOUS
<1>1. \E T \in Bad : \A u \in Bad : u \subseteq T => u = T
  <2>1. Bad \in SUBSET (SUBSET S)
    OBVIOUS
  <2> HIDE DEF Bad
  <2> QED BY <2>1, SmallestSet
<1>2. PICK T \in Bad : \A u \in Bad : u \subseteq T => u = T
  BY <1>1
<1>3. PICK x \in T : TRUE
  <2>1. SumFunctionOnSet(f, {}) = 0
    BY SumEmpty
  <2> QED BY <2>1
<1>4. IsFiniteSet(T) /\ \A y \in T : f[y] \in Int
  BY FS_Subset
<1>5. SumFunctionOnSet(f, T) = f[x] + SumFunctionOnSet(f, T \ {x})
  BY <1>4, SumWithout
<1>6. T \ {x} \notin Bad
  BY <1>2
<1> QED BY <1>5, <1>6

(* A change at one element changes the sum by as much.                     *)
THEOREM SumChange ==
  ASSUME NEW S, IsFiniteSet(S), NEW x \in S, NEW f, \A y \in S : f[y] \in Int,
         NEW e, e[x] \in Int, \A y \in S \ {x} : e[y] = f[y]
  PROVE  SumFunctionOnSet(e, S) = SumFunctionOnSet(f, S) + (e[x] - f[x])
<1>1. IsFiniteSet(S \ {x})
  BY FS_Subset
<1>2. SumFunctionOnSet(f, S) = f[x] + SumFunctionOnSet(f, S \ {x})
  BY SumWithout
<1>3. \A y \in S : e[y] \in Int
  OBVIOUS
<1>4. SumFunctionOnSet(e, S) = e[x] + SumFunctionOnSet(e, S \ {x})
  BY <1>3, SumWithout
<1>5. SumFunctionOnSet(e, S \ {x}) = SumFunctionOnSet(f, S \ {x})
  BY <1>1, SumSame
<1>6. SumFunctionOnSet(f, S \ {x}) \in Int
  BY <1>1, SumType
<1> QED BY <1>2, <1>4, <1>5, <1>6

(* The sum over one more element.                                          *)
THEOREM SumWith ==
  ASSUME NEW S, IsFiniteSet(S), NEW x, x \notin S, NEW f, \A y \in S \cup {x} : f[y] \in Int
  PROVE  SumFunctionOnSet(f, S \cup {x}) = SumFunctionOnSet(f, S) + f[x]
<1> DEFINE T == S \cup {x}
<1>1. IsFiniteSet(T) /\ x \in T /\ T \ {x} = S /\ \A y \in T : f[y] \in Int
  BY FS_AddElement
<1> HIDE DEF T
<1>2. SumFunctionOnSet(f, T) = f[x] + SumFunctionOnSet(f, T \ {x})
  BY <1>1, SumWithout
<1>3. SumFunctionOnSet(f, S) \in Int
  BY SumType
<1>4. f[x] \in Int
  OBVIOUS
<1>5. SumFunctionOnSet(f, T) = SumFunctionOnSet(f, S) + f[x]
  <2>1. T \ {x} = S
    BY <1>1
  <2>2. SumFunctionOnSet(f, T) = f[x] + SumFunctionOnSet(f, S)
    BY <2>1, <1>2
  <2> QED BY <2>2, <1>3, <1>4
<1> QED BY <1>5 DEF T

(* A sum of naturals is nowhere below one of them.                         *)
THEOREM SumAtLeast ==
  ASSUME NEW S, IsFiniteSet(S), NEW f, \A y \in S : f[y] \in Nat, NEW x \in S
  PROVE  f[x] <= SumFunctionOnSet(f, S)
<1>1. IsFiniteSet(S \ {x})
  BY FS_Subset
<1>2. SumFunctionOnSet(f, S \ {x}) \in Nat
  BY <1>1, SumNat
<1>3. SumFunctionOnSet(f, S) = f[x] + SumFunctionOnSet(f, S \ {x})
  BY SumWithout
<1> QED BY <1>2, <1>3

-----------------------------------------------------------------------------
(* The image of a finite set under a function is finite.                   *)
LEMMA FiniteImage ==
  ASSUME NEW S, IsFiniteSet(S), NEW f
  PROVE  IsFiniteSet({f[x] : x \in S})
<1> DEFINE T == {f[x] : x \in S}
<1> DEFINE g == [x \in S |-> f[x]]
<1>1. g \in Surjection(S, T)
  BY DEF Surjection
<1> QED BY <1>1, FS_Surjection

(* The sum over two sets that share nothing.                               *)
THEOREM SumUnion ==
  ASSUME NEW S, IsFiniteSet(S), NEW R, IsFiniteSet(R), S \cap R = {},
         NEW f, \A y \in S \cup R : f[y] \in Int
  PROVE  SumFunctionOnSet(f, S \cup R) = SumFunctionOnSet(f, S) + SumFunctionOnSet(f, R)
<1> DEFINE Bad == {T \in SUBSET R : SumFunctionOnSet(f, S \cup T)
                                      # SumFunctionOnSet(f, S) + SumFunctionOnSet(f, T)}
<1> SUFFICES ASSUME Bad # {} PROVE FALSE
  OBVIOUS
<1>1. PICK T \in Bad : \A u \in Bad : u \subseteq T => u = T
  <2>1. Bad \in SUBSET (SUBSET R)
    OBVIOUS
  <2> HIDE DEF Bad
  <2> QED BY <2>1, SmallestSet
<1>2. SumFunctionOnSet(f, S) \in Int
  BY SumType
<1>3. T # {}
  <2>1. SumFunctionOnSet(f, S \cup {}) = SumFunctionOnSet(f, S) + 0
    BY <1>2
  <2>2. SumFunctionOnSet(f, {}) = 0
    BY SumEmpty
  <2>3. {} \notin Bad
    BY <2>1, <2>2
  <2> QED BY <2>3
<1>4. PICK x \in T : TRUE
  BY <1>3
<1> DEFINE U == T \ {x}
<1>5. IsFiniteSet(T) /\ IsFiniteSet(U) /\ IsFiniteSet(S \cup U) /\ IsFiniteSet(S \cup T)
  <2>1. IsFiniteSet(T) /\ IsFiniteSet(U)
    BY FS_Subset
  <2> QED BY <2>1, FS_Union
<1>6. (S \cup T) \ {x} = S \cup U /\ U \in SUBSET R /\ U \notin Bad /\ x \in S \cup T
  BY <1>1
<1>7. \A y \in S \cup T : f[y] \in Int
  OBVIOUS
<1>8. SumFunctionOnSet(f, S \cup U) = SumFunctionOnSet(f, S) + SumFunctionOnSet(f, U)
  BY <1>6
<1>9. SumFunctionOnSet(f, S \cup T) # SumFunctionOnSet(f, S) + SumFunctionOnSet(f, T)
  BY <1>1
<1> HIDE DEF U, Bad
<1>10. SumFunctionOnSet(f, S \cup T) = f[x] + SumFunctionOnSet(f, S \cup U)
  <2>1. SumFunctionOnSet(f, S \cup T) = f[x] + SumFunctionOnSet(f, (S \cup T) \ {x})
    BY <1>5, <1>6, <1>7, SumWithout
  <2> QED BY <1>6, <2>1
<1>11. SumFunctionOnSet(f, T) = f[x] + SumFunctionOnSet(f, U)
  <2>1. SumFunctionOnSet(f, T) = f[x] + SumFunctionOnSet(f, T \ {x})
    BY <1>5, <1>7, SumWithout
  <2> QED BY <2>1 DEF U
<1>12. SumFunctionOnSet(f, U) \in Int /\ f[x] \in Int
  BY <1>5, <1>7, SumType DEF U
<1> QED BY <1>2, <1>8, <1>9, <1>10, <1>11, <1>12

(* A sum does not change when what is summed is renamed one to one.        *)
THEOREM SumRenamed ==
  ASSUME NEW S, IsFiniteSet(S), NEW g, \A x, y \in S : g[x] = g[y] => x = y,
         NEW e, NEW f, \A x \in S : e[x] \in Int /\ f[g[x]] = e[x]
  PROVE  SumFunctionOnSet(f, {g[x] : x \in S}) = SumFunctionOnSet(e, S)
<1> DEFINE Img(T) == {g[x] : x \in T}
           Bad == {T \in SUBSET S : SumFunctionOnSet(f, Img(T)) # SumFunctionOnSet(e, T)}
<1> SUFFICES ASSUME Bad # {} PROVE FALSE
  BY DEF Bad
<1>1. PICK T \in Bad : \A u \in Bad : u \subseteq T => u = T
  <2>1. Bad \in SUBSET (SUBSET S)
    OBVIOUS
  <2> HIDE DEF Bad
  <2> QED BY <2>1, SmallestSet
<1>2. T # {}
  <2>1. SumFunctionOnSet(f, {}) = 0 /\ SumFunctionOnSet(e, {}) = 0
    BY SumEmpty
  <2>2. Img({}) = {}
    OBVIOUS
  <2>3. {} \notin Bad
    BY <2>1, <2>2
  <2> QED BY <2>3
<1>3. PICK x \in T : TRUE
  BY <1>2
<1> DEFINE U == T \ {x}
<1>4. IsFiniteSet(T) /\ T \subseteq S
  BY FS_Subset
<1>5. IsFiniteSet(Img(T))
  BY <1>4, FiniteImage
<1>6. g[x] \in Img(T) /\ Img(T) \ {g[x]} = Img(U)
  BY <1>4
<1>7. \A y \in Img(T) : f[y] \in Int
  BY <1>4
<1>8. SumFunctionOnSet(f, Img(U)) = SumFunctionOnSet(e, U)
  BY <1>1
<1>9. SumFunctionOnSet(f, Img(T)) # SumFunctionOnSet(e, T)
  BY <1>1
<1>10. f[g[x]] = e[x] /\ \A y \in T : e[y] \in Int
  BY <1>4
<1> HIDE DEF Img, Bad
<1>11. SumFunctionOnSet(f, Img(T)) = f[g[x]] + SumFunctionOnSet(f, Img(U))
  <2>1. SumFunctionOnSet(f, Img(T)) = f[g[x]] + SumFunctionOnSet(f, Img(T) \ {g[x]})
    BY <1>5, <1>6, <1>7, SumWithout
  <2> QED BY <1>6, <2>1
<1>12. SumFunctionOnSet(e, T) = e[x] + SumFunctionOnSet(e, U)
  BY <1>4, <1>10, SumWithout
<1> QED BY <1>8, <1>9, <1>10, <1>11, <1>12

(* The sum of zeros.                                                       *)
THEOREM SumZero ==
  ASSUME NEW S, IsFiniteSet(S), NEW f, \A x \in S : f[x] = 0
  PROVE  SumFunctionOnSet(f, S) = 0
<1> DEFINE Bad == {T \in SUBSET S : SumFunctionOnSet(f, T) # 0}
<1> SUFFICES ASSUME Bad # {} PROVE FALSE
  OBVIOUS
<1>1. \E T \in Bad : \A u \in Bad : u \subseteq T => u = T
  <2>1. Bad \in SUBSET (SUBSET S)
    OBVIOUS
  <2> HIDE DEF Bad
  <2> QED BY <2>1, SmallestSet
<1>2. PICK T \in Bad : \A u \in Bad : u \subseteq T => u = T
  BY <1>1
<1>3. PICK x \in T : TRUE
  <2>1. SumFunctionOnSet(f, {}) = 0
    BY SumEmpty
  <2> QED BY <2>1
<1>4. IsFiniteSet(T) /\ f[x] = 0 /\ \A y \in T : f[y] \in Int
  BY FS_Subset
<1>5. SumFunctionOnSet(f, T) = f[x] + SumFunctionOnSet(f, T \ {x})
  BY <1>4, SumWithout
<1>6. T \ {x} \notin Bad
  BY <1>2
<1> QED BY <1>4, <1>5, <1>6

(* Two functions are added up together or one after the other.             *)
THEOREM SumPlus ==
  ASSUME NEW S, IsFiniteSet(S), NEW f, NEW e, NEW h,
         \A x \in S : f[x] \in Int /\ e[x] \in Int /\ h[x] = f[x] + e[x]
  PROVE  SumFunctionOnSet(h, S) = SumFunctionOnSet(f, S) + SumFunctionOnSet(e, S)
<1> DEFINE Bad == {T \in SUBSET S : SumFunctionOnSet(h, T) # SumFunctionOnSet(f, T) + SumFunctionOnSet(e, T)}
<1> SUFFICES ASSUME Bad # {} PROVE FALSE
  OBVIOUS
<1>1. \E T \in Bad : \A u \in Bad : u \subseteq T => u = T
  <2>1. Bad \in SUBSET (SUBSET S)
    OBVIOUS
  <2> HIDE DEF Bad
  <2> QED BY <2>1, SmallestSet
<1>2. PICK T \in Bad : \A u \in Bad : u \subseteq T => u = T
  BY <1>1
<1>3. PICK x \in T : TRUE
  <2>1. SumFunctionOnSet(f, {}) = 0 /\ SumFunctionOnSet(e, {}) = 0 /\ SumFunctionOnSet(h, {}) = 0
    BY SumEmpty
  <2>2. 0 = 0 + 0
    OBVIOUS
  <2>3. {} \notin Bad
    BY <2>1, <2>2
  <2> QED BY <2>3
<1> DEFINE U == T \ {x}
<1>4. /\ IsFiniteSet(T) /\ IsFiniteSet(U)
      /\ \A y \in T : f[y] \in Int
      /\ \A y \in T : e[y] \in Int
      /\ \A y \in T : h[y] \in Int
  BY FS_Subset
<1>5. /\ SumFunctionOnSet(f, T) = f[x] + SumFunctionOnSet(f, U)
      /\ SumFunctionOnSet(e, T) = e[x] + SumFunctionOnSet(e, U)
      /\ SumFunctionOnSet(h, T) = h[x] + SumFunctionOnSet(h, U)
  BY <1>4, SumWithout
<1>6. SumFunctionOnSet(h, U) = SumFunctionOnSet(f, U) + SumFunctionOnSet(e, U)
  BY <1>2
<1>7. SumFunctionOnSet(f, U) \in Int /\ SumFunctionOnSet(e, U) \in Int
  BY <1>4, SumType
<1>8. h[x] = f[x] + e[x] /\ f[x] \in Int /\ e[x] \in Int
  <2>1. x \in S
    BY <1>2, <1>3
  <2> HIDE DEF Bad, U
  <2> QED BY <2>1
<1>9. SumFunctionOnSet(h, T) # SumFunctionOnSet(f, T) + SumFunctionOnSet(e, T)
  BY <1>2
<1> HIDE DEF Bad, U
<1> QED BY <1>5, <1>6, <1>7, <1>8, <1>9

(* A finite set of integers that is not empty has a largest element.       *)
THEOREM LargestExists ==
  ASSUME NEW S, IsFiniteSet(S), \A x \in S : x \in Int, S # {}
  PROVE  \E m \in S : \A x \in S : x <= m
<1> DEFINE Bad == {T \in SUBSET S : T # {} /\ ~\E m \in T : \A x \in T : x <= m}
<1> SUFFICES ASSUME Bad # {} PROVE FALSE
  OBVIOUS
<1>1. PICK T \in Bad : \A u \in Bad : u \subseteq T => u = T
  <2>1. IsFiniteSet(S) /\ Bad \in SUBSET (SUBSET S) /\ Bad # {}
    OBVIOUS
  <2> HIDE DEF Bad
  <2> QED BY <2>1, SmallestSet
<1>2. PICK x \in T : TRUE
  OBVIOUS
<1>3. T \ {x} # {}
  <2> SUFFICES ASSUME T \ {x} = {} PROVE FALSE
    OBVIOUS
  <2>1. \A y \in T : y <= x
    OBVIOUS
  <2> QED BY <2>1
<1>4. T \ {x} \notin Bad
  BY <1>1
<1>5. PICK m \in T \ {x} : \A y \in T \ {x} : y <= m
  BY <1>3, <1>4
<1>6. x \in Int /\ m \in Int
  OBVIOUS
<1>7. CASE x <= m
  <2>1. \A y \in T : y <= m
    BY <1>5, <1>7
  <2> QED BY <2>1
<1>8. CASE m <= x
  <2>1. \A y \in T : y <= x
    BY <1>5, <1>6, <1>8
  <2> QED BY <2>1
<1> QED BY <1>6, <1>7, <1>8

=============================================================================
