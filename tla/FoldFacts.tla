------------------------------- MODULE FoldFacts -------------------------------
(***************************************************************************)
(* Induction, and what the loops written as folds compute.                 *)
(*                                                                         *)
(* A fold is a function chosen by its recursive equation.  That there is   *)
(* such a function, of the expected type, is proved here once; a module    *)
(* that reasons about a loop instantiates this one with the loop's body as *)
(* Step, and does the induction over what the loop maintains itself.       *)
(***************************************************************************)
EXTENDS Integers, SequencesExt, FiniteSetTheorems, WellFoundedInduction, TLAPS

CONSTANTS
    Items,           \* what the loop runs over
    Values,          \* what it accumulates
    Step(_, _)       \* the next value, from the value so far and an item

Closed == \A value \in Values, item \in Items : Step(value, item) \in Values

-----------------------------------------------------------------------------
(* Induction, from the order of the natural numbers being well-founded.    *)

\* A non-empty set of numbers has a least element.
LEMMA LeastElement ==
    ASSUME NEW T \in SUBSET Nat, T # {}
    PROVE  \E n \in T : \A m \in T : ~(m < n)
<1> DEFINE R == {ss \in Nat \X Nat : ss[1] < ss[2]}
<1>1. R = OpToRel(<, Nat)
  BY DEF OpToRel
<1>2. IsWellFoundedOn(R, Nat)
  BY <1>1, NatLessThanWellFounded
<1> HIDE DEF R
<1>3. \E n \in T : \A m \in T : ~(<<m, n>> \in R)
  BY <1>2, WFMin
<1> QED
  BY <1>3 DEF R

\* A set with 0 in it and with every number the next one is all of them.
LEMMA Induction ==
    ASSUME NEW T \in SUBSET Nat, 0 \in T, \A n \in T : n + 1 \in T
    PROVE  T = Nat
<1> DEFINE U == Nat \ T
<1>1. ASSUME U # {} PROVE FALSE
  <2>1. PICK n \in U : \A m \in U : ~(m < n)
    BY <1>1, LeastElement
  <2>2. n # 0 /\ n - 1 \in Nat /\ n - 1 < n /\ n = n - 1 + 1
    BY <2>1
  <2>3. n - 1 \in T
    BY <2>1, <2>2
  <2> QED
    BY <2>2, <2>3
<1> QED
  BY <1>1

\* The same over the subsets of a finite set: one element more at a time.
LEMMA SubsetInduction ==
    ASSUME NEW S, IsFiniteSet(S), NEW Good \in SUBSET (SUBSET S), {} \in Good,
           \A T \in SUBSET S : T # {} /\ (\A x \in T : T \ {x} \in Good) => T \in Good
    PROVE  Good = SUBSET S
<1>1. \A T \in SUBSET S : IsFiniteSet(T) /\ Cardinality(T) \in Nat
  BY FS_Subset, FS_CardinalityType
<1>2. \A T \in SUBSET S, x \in S : x \in T => Cardinality(T \ {x}) = Cardinality(T) - 1
  BY <1>1, FS_RemoveElement
<1>3. SUFFICES ASSUME Good # SUBSET S PROVE FALSE
  OBVIOUS
<1> DEFINE Sizes == {n \in Nat : \E T \in (SUBSET S) \ Good : Cardinality(T) = n}
<1>4. PICK n \in Sizes : \A m \in Sizes : ~(m < n)
  <2>1. PICK T \in (SUBSET S) \ Good : TRUE
    BY <1>3
  <2>2. Sizes \in SUBSET Nat /\ Cardinality(T) \in Sizes
    BY <1>1, <2>1
  <2> HIDE DEF Sizes
  <2> QED
    BY <2>2, LeastElement
<1>5. PICK T \in (SUBSET S) \ Good : Cardinality(T) = n
  BY <1>4
<1>6. ASSUME NEW x \in T PROVE T \ {x} \in Good
  <2>1. T \ {x} \in SUBSET S /\ Cardinality(T \ {x}) = n - 1 /\ n - 1 \in Nat /\ n - 1 < n
    BY <1>1, <1>2, <1>5
  <2> QED
    BY <1>4, <2>1
<1> QED
  BY <1>5, <1>6

\* pick chooses an element of every non-empty subset of S.
Picks(pick, S) == \A T \in SUBSET S : T # {} => pick[T] \in T

\* iter folds each subset of S: it takes an element out and folds the rest first.
IsFold(iter, S, base, step, pick) ==
    iter = [T \in SUBSET S |-> IF T = {} THEN base ELSE step[pick[T]][iter[T \ {pick[T]}]]]

\* The equation of a fold over a finite set has a solution.
LEMMA FoldExists ==
    ASSUME NEW S, IsFiniteSet(S), NEW V, NEW base \in V, NEW step \in [S -> [V -> V]],
           NEW pick, Picks(pick, S)
    PROVE  \E iter \in [SUBSET S -> V] : IsFold(iter, S, base, step, pick)
<1> DEFINE Upto(n) == {T \in SUBSET S : Cardinality(T) <= n}
           Value(h, T) == IF T = {} THEN base ELSE step[pick[T]][h[T \ {pick[T]}]]
           Reached(n) == \E h \in [Upto(n) -> V] : \A T \in Upto(n) : h[T] = Value(h, T)
           Done == {n \in Nat : Reached(n)}
<1>0. \A T \in SUBSET S : T # {} => pick[T] \in T
  BY DEF Picks
<1>1. \A T \in SUBSET S : IsFiniteSet(T) /\ Cardinality(T) \in Nat
  BY FS_Subset, FS_CardinalityType
<1>2. \A T \in SUBSET S : Cardinality(T) = 0 <=> T = {}
  BY <1>1, FS_EmptySet
<1>3. \A T \in SUBSET S, x \in S : x \in T => Cardinality(T \ {x}) = Cardinality(T) - 1
  BY <1>1, FS_RemoveElement
<1>4. 0 \in Done
  <2> DEFINE h == [T \in Upto(0) |-> base]
  <2>1. \A T \in Upto(0) : T = {}
    BY <1>1, <1>2
  <2>2. h \in [Upto(0) -> V] /\ \A T \in Upto(0) : h[T] = Value(h, T)
    BY <2>1
  <2> QED
    BY <2>2
<1>5. ASSUME NEW n \in Done PROVE n + 1 \in Done
  <2>1. PICK g \in [Upto(n) -> V] : \A T \in Upto(n) : g[T] = Value(g, T)
    OBVIOUS
  <2> DEFINE h == [T \in Upto(n + 1) |-> Value(g, T)]
  <2>2. \A T \in Upto(n + 1) : T # {} => pick[T] \in S /\ T \ {pick[T]} \in Upto(n)
    BY <1>0, <1>1, <1>3
  <2>3. h \in [Upto(n + 1) -> V]
    BY <2>2
  <2>4. ASSUME NEW T \in Upto(n) PROVE T \in Upto(n + 1) /\ h[T] = g[T]
    <3>1. T \in Upto(n + 1)
      BY <1>1
    <3>2. h[T] = Value(g, T)
      BY <3>1
    <3> QED
      BY <2>1, <3>1, <3>2
  <2>5. \A T \in Upto(n + 1) : h[T] = Value(h, T)
    BY <2>2, <2>4
  <2>6. Reached(n + 1)
    <3> HIDE DEF h, Upto
    <3> QED
      BY <2>3, <2>5
  <2> HIDE DEF Reached
  <2> QED
    BY <2>6
<1>6. Done = Nat
  <2>1. Done \in SUBSET Nat
    OBVIOUS
  <2> HIDE DEF Done
  <2> QED
    BY <1>4, <1>5, <2>1, Induction
<1>7. Cardinality(S) \in Done /\ Upto(Cardinality(S)) = SUBSET S
  <2>1. \A T \in SUBSET S : Cardinality(T) <= Cardinality(S)
    BY FS_Subset
  <2>2. Cardinality(S) \in Nat
    BY FS_CardinalityType
  <2> QED
    BY <1>6, <2>1, <2>2
<1>8. PICK h \in [SUBSET S -> V] : \A T \in SUBSET S : h[T] = Value(h, T)
  BY <1>7
<1>9. h = [T \in SUBSET S |-> Value(h, T)]
  BY <1>8
<1> QED
  BY <1>9 DEF IsFold

-----------------------------------------------------------------------------
(* A loop over a set, in no particular order.                              *)

\* The loop over S as the modules write it.
Fold(base, S) == FoldSet(LAMBDA x, value : Step(value, x), base, S)

\* The loop over a finite set passes through values acc[T], where T is what it
\* has gone through, from one set to another with one element more.
LEMMA FoldSetSteps ==
    ASSUME Closed, NEW base \in Values, NEW S \in SUBSET Items, IsFiniteSet(S)
    PROVE  \E acc \in [SUBSET S -> Values] :
              /\ acc[{}] = base
              /\ \A T \in SUBSET S :
                    T # {} => \E x \in T : acc[T] = Step(acc[T \ {x}], x)
              /\ acc[S] = Fold(base, S)
<1> DEFINE step == [x \in S |-> [value \in Values |-> Step(value, x)]]
           pick == [T \in SUBSET S |-> CHOOSE x \in T : TRUE]
           Equation(it) == it = [T \in SUBSET S |->
                                   IF T = {} THEN base
                                   ELSE Step(it[T \ {CHOOSE x \in T : TRUE}],
                                             CHOOSE x \in T : TRUE)]
<1>1. \A T \in SUBSET S : T # {} => (CHOOSE x \in T : TRUE) \in T
  OBVIOUS
<1>2. step \in [S -> [Values -> Values]] /\ Picks(pick, S)
  BY <1>1 DEF Picks, Closed
<1>3. PICK it \in [SUBSET S -> Values] : IsFold(it, S, base, step, pick)
  <2> HIDE DEF step, pick
  <2> QED
    BY <1>2, FoldExists
<1>4. Equation(it)
  BY <1>1, <1>3 DEF IsFold
<1> DEFINE acc == CHOOSE f : Equation(f)
<1>5. Equation(acc)
  <2> HIDE DEF Equation
  <2> QED
    BY <1>4
<1>6. acc[S] = Fold(base, S)
  <2> HIDE DEF step, pick
  <2> QED
    BY DEF Fold, FoldSet, MapThenFoldSet
<1> HIDE DEF acc
<1>7. acc[{}] = base
  BY <1>5
<1>8. ASSUME NEW T \in SUBSET S, T # {}
      PROVE  \E x \in T : acc[T] = Step(acc[T \ {x}], x)
  BY <1>1, <1>5, <1>8
<1>9. acc = [T \in SUBSET S |-> acc[T]]
  BY <1>5
<1> HIDE DEF step, pick, Equation
<1> DEFINE Good == {T \in SUBSET S : acc[T] \in Values}
<1>10. Good = SUBSET S
  <2>1. {} \in Good
    BY <1>7
  <2>2. ASSUME NEW T \in SUBSET S, T # {}, \A x \in T : T \ {x} \in Good
        PROVE  T \in Good
    <3>1. PICK x \in T : acc[T] = Step(acc[T \ {x}], x)
      BY <1>8, <2>2
    <3>2. x \in Items /\ acc[T \ {x}] \in Values
      BY <2>2
    <3>3. acc[T] \in Values
      BY <3>1, <3>2 DEF Closed
    <3> QED
      BY <3>3
  <2>3. Good \in SUBSET (SUBSET S)
    OBVIOUS
  <2>4. \A T \in SUBSET S : T # {} /\ (\A x \in T : T \ {x} \in Good) => T \in Good
    BY <2>2
  <2> HIDE DEF Good
  <2> QED
    BY <2>1, <2>3, <2>4, SubsetInduction
<1>11. acc \in [SUBSET S -> Values]
  BY <1>9, <1>10
<1> QED
  BY <1>6, <1>7, <1>8, <1>11

\* It never leaves the values its body does not leave.
LEMMA FoldSetType ==
    ASSUME Closed, NEW base \in Values, NEW S \in SUBSET Items, IsFiniteSet(S)
    PROVE  Fold(base, S) \in Values
<1>1. PICK acc \in [SUBSET S -> Values] : acc[S] = Fold(base, S)
  BY FoldSetSteps
<1> QED
  BY <1>1

-----------------------------------------------------------------------------
(* A loop over a sequence.                                                 *)

\* A non-empty set of indices has a largest one.
LEMMA MaxOfIndices ==
    ASSUME NEW n \in Nat, NEW T \in SUBSET (1 .. n), T # {}
    PROVE  Max(T) \in T /\ \A m \in T : m <= Max(T)
<1> DEFINE Left == {k \in Nat : n - k \in T}
<1>1. Left # {}
  <2>1. PICK m \in T : TRUE
    OBVIOUS
  <2>2. n - m \in Left
    BY <2>1
  <2> QED
    BY <2>2
<1>2. PICK k \in Left : \A j \in Left : ~(j < k)
  <2>1. Left \in SUBSET Nat
    OBVIOUS
  <2> HIDE DEF Left
  <2> QED
    BY <1>1, <2>1, LeastElement
<1>3. ASSUME NEW m \in T PROVE m <= n - k
  <2>1. m \in 1 .. n /\ n - m \in Nat /\ n - (n - m) = m
    OBVIOUS
  <2>2. n - m \in Left
    BY <2>1
  <2> QED
    BY <1>2, <2>1, <2>2
<1>4. n - k \in T /\ \A m \in T : n - k >= m
  BY <1>2, <1>3
<1> QED
  BY <1>4 DEF Max

\* The loop over list as the modules write it.
Loop(base, list) == FoldLeft(Step, base, list)

\* The loop over a sequence passes through the values acc[0], acc[1], ... and
\* ends with the last of them.
LEMMA FoldLeftSteps ==
    ASSUME Closed, NEW base \in Values, NEW list \in Seq(Items)
    PROVE  \E acc \in [0 .. Len(list) -> Values] :
              /\ acc[0] = base
              /\ \A k \in 1 .. Len(list) : acc[k] = Step(acc[k - 1], list[k])
              /\ acc[Len(list)] = Loop(base, list)
<1> DEFINE n == Len(list)
           S == 1 .. n
           step == [i \in S |-> [value \in Values |-> Step(value, list[i])]]
           pick == [T \in SUBSET S |-> Max(T)]
           Equation(it) == it = [T \in SUBSET S |->
                                   IF T = {} THEN base
                                   ELSE Step(it[T \ {Max(T)}], list[Max(T)])]
<1>1. n \in Nat /\ S = DOMAIN list /\ IsFiniteSet(S) /\ \A i \in S : list[i] \in Items
  BY FS_Interval
<1>2. \A T \in SUBSET S : T # {} => Max(T) \in T /\ \A m \in T : m <= Max(T)
  BY <1>1, MaxOfIndices
<1>3. step \in [S -> [Values -> Values]] /\ Picks(pick, S)
  BY <1>1, <1>2 DEF Closed, Picks
<1>4. PICK it \in [SUBSET S -> Values] : IsFold(it, S, base, step, pick)
  <2> HIDE DEF S, step, pick
  <2> QED
    BY <1>1, <1>3, FoldExists
<1>5. Equation(it)
  BY <1>4, <1>1, <1>2 DEF IsFold
<1> DEFINE iter == CHOOSE f : Equation(f)
<1>6. Equation(iter)
  <2> HIDE DEF Equation
  <2> QED
    BY <1>5
<1>7. Loop(base, list) = iter[S]
  <2> HIDE DEF n, step, pick
  <2>1. S = DOMAIN list
    BY <1>1
  <2> QED
    BY <2>1 DEF Loop, FoldLeft, MapThenFoldSet
<1> HIDE DEF iter
<1> DEFINE acc == [k \in 0 .. n |-> iter[1 .. k]]
<1>8. acc[0] = base
  <2>1. 1 .. 0 = {} /\ {} \in SUBSET S /\ 0 \in 0 .. n
    BY <1>1
  <2> QED
    BY <1>6, <2>1
<1>9. ASSUME NEW k \in 1 .. n PROVE acc[k] = Step(acc[k - 1], list[k])
  <2>1. 1 .. k \in SUBSET S /\ k \in 1 .. k /\ (1 .. k) \ {k} = 1 .. (k - 1)
    <3>1. n \in Nat /\ k \in Nat /\ 1 <= k /\ k <= n
      BY <1>1
    <3> HIDE DEF n
    <3>2. (1 .. k) \ {k} = 1 .. (k - 1)
      BY <3>1
    <3> QED
      BY <3>1, <3>2
  <2>2. Max(1 .. k) = k
    <3>1. Max(1 .. k) \in 1 .. k /\ \A m \in 1 .. k : m <= Max(1 .. k)
      BY <1>2, <2>1
    <3>2. k <= Max(1 .. k)
      BY <2>1, <3>1
    <3> QED
      BY <1>1, <3>1, <3>2
  <2>3. iter[1 .. k] = Step(iter[(1 .. k) \ {k}], list[k])
    BY <1>6, <2>1, <2>2
  <2>4. k \in 0 .. n /\ k - 1 \in 0 .. n
    BY <1>1
  <2> QED
    BY <2>1, <2>3, <2>4
<1> HIDE DEF acc
<1>10. \A k \in 0 .. n : acc[k] \in Values
  <2> DEFINE Typed == {k \in Nat : k <= n => acc[k] \in Values}
  <2>1. 0 \in Typed
    BY <1>8
  <2>2. ASSUME NEW k \in Typed PROVE k + 1 \in Typed
    <3>1. CASE k + 1 <= n
      <4>1. k + 1 \in 1 .. n /\ k + 1 - 1 = k /\ acc[k] \in Values /\ list[k + 1] \in Items
        BY <1>1, <3>1
      <4>2. acc[k + 1] = Step(acc[k], list[k + 1])
        BY <1>9, <4>1
      <4> QED
        BY <4>1, <4>2 DEF Closed
    <3>2. CASE ~ (k + 1 <= n)
      BY <3>2
    <3> QED
      BY <3>1, <3>2
  <2>3. Typed = Nat
    <3>1. Typed \in SUBSET Nat
      OBVIOUS
    <3> HIDE DEF Typed
    <3> QED
      BY <2>1, <2>2, <3>1, Induction
  <2> QED
    BY <1>1, <2>3
<1>11. acc \in [0 .. n -> Values] /\ acc[n] = Loop(base, list)
  BY <1>1, <1>7, <1>10 DEF acc
<1> QED
  BY <1>8, <1>9, <1>11

-----------------------------------------------------------------------------
(* Sums.                                                                   *)

\* The sum of f over the subsets of a finite set S, as SumFunctionOnSet defines
\* it: nothing for the empty set, and an element can be taken out of any other.
LEMMA SumExists ==
    ASSUME NEW S, IsFiniteSet(S), NEW f \in [S -> Nat]
    PROVE  \E sum \in [SUBSET S -> Nat] :
              /\ sum[{}] = 0
              /\ \A T \in SUBSET S : \A x \in T : sum[T] = f[x] + sum[T \ {x}]
              /\ sum[S] = SumFunctionOnSet(f, S)
<1> DEFINE step == [x \in S |-> [v \in Nat |-> f[x] + v]]
           pick == [T \in SUBSET S |-> CHOOSE x \in T : TRUE]
           Equation(it) == it = [T \in SUBSET S |->
                                   IF T = {} THEN 0
                                   ELSE f[CHOOSE x \in T : TRUE] + it[T \ {CHOOSE x \in T : TRUE}]]
<1>1. \A T \in SUBSET S : T # {} => (CHOOSE x \in T : TRUE) \in T
  OBVIOUS
<1>2. step \in [S -> [Nat -> Nat]] /\ Picks(pick, S)
  BY <1>1 DEF Picks
<1>3. PICK it \in [SUBSET S -> Nat] : IsFold(it, S, 0, step, pick)
  <2> HIDE DEF step, pick
  <2> QED
    BY <1>2, FoldExists
<1>4. Equation(it)
  BY <1>1, <1>3 DEF IsFold
<1> DEFINE sum == CHOOSE g : Equation(g)
<1>5. Equation(sum)
  <2> HIDE DEF Equation
  <2> QED
    BY <1>4
<1>6. sum[S] = SumFunctionOnSet(f, S)
  <2> HIDE DEF step, pick
  <2> QED
    BY DEF SumFunctionOnSet, FoldFunctionOnSet, MapThenFoldSet
<1> HIDE DEF sum
<1>7. sum[{}] = 0
  BY <1>5
<1>8. ASSUME NEW T \in SUBSET S, T # {} PROVE \E x \in T : sum[T] = f[x] + sum[T \ {x}]
  BY <1>1, <1>5, <1>8
<1>9. sum = [T \in SUBSET S |-> sum[T]]
  BY <1>5
<1> HIDE DEF Equation
<1> DEFINE Good == {T \in SUBSET S :
                      /\ sum[T] \in Nat
                      /\ \A x \in T : sum[T] = f[x] + sum[T \ {x}] /\ sum[T \ {x}] \in Nat}
<1>10. ASSUME NEW T \in SUBSET S, T # {}, \A x \in T : T \ {x} \in Good
       PROVE  T \in Good
  <2>1. PICK y \in T : sum[T] = f[y] + sum[T \ {y}]
    BY <1>8, <1>10
  <2>2. \A x \in T : f[x] \in Nat /\ sum[T \ {x}] \in Nat
    BY <1>10
  <2>3. ASSUME NEW x \in T, x # y PROVE sum[T] = f[x] + sum[T \ {x}]
    <3>1. x \in T \ {y} /\ y \in T \ {x} /\ (T \ {x}) \ {y} = (T \ {y}) \ {x}
      BY <2>3
    <3>2. /\ sum[T \ {y}] = f[x] + sum[(T \ {y}) \ {x}]
          /\ sum[T \ {x}] = f[y] + sum[(T \ {x}) \ {y}]
      BY <1>10, <3>1
    <3>3. /\ f[x] \in Nat /\ f[y] \in Nat
          /\ sum[(T \ {y}) \ {x}] \in Nat
          /\ sum[(T \ {x}) \ {y}] = sum[(T \ {y}) \ {x}]
      <4>1. y \in T /\ T \ {y} \in Good /\ x \in T \ {y}
        BY <1>10, <3>1
      <4>2. sum[(T \ {y}) \ {x}] \in Nat
        BY <4>1
      <4> QED
        BY <2>2, <3>1, <4>1, <4>2
    <3> QED
      BY <2>1, <3>2, <3>3
  <2>4. \A x \in T : sum[T] = f[x] + sum[T \ {x}] /\ sum[T \ {x}] \in Nat
    BY <2>1, <2>2, <2>3
  <2>5. sum[T] \in Nat
    <3>1. f[y] \in Nat /\ sum[T \ {y}] \in Nat
      BY <2>2
    <3> QED
      BY <2>1, <3>1
  <2> QED
    BY <2>4, <2>5
<1>11. Good = SUBSET S
  <2>1. {} \in Good /\ Good \in SUBSET (SUBSET S)
    BY <1>7
  <2> HIDE DEF Good
  <2> QED
    BY <1>10, <2>1, SubsetInduction
<1>12. sum \in [SUBSET S -> Nat]
  BY <1>9, <1>11
<1> QED
  BY <1>6, <1>7, <1>11, <1>12

\* A sum of natural numbers is one, and grows with its terms and with the set.
LEMMA SumMonotone ==
    ASSUME NEW S, IsFiniteSet(S), NEW R \in SUBSET S, NEW f \in [R -> Nat], NEW g \in [S -> Nat],
           \A x \in R : f[x] <= g[x]
    PROVE  /\ SumFunctionOnSet(f, R) \in Nat
           /\ SumFunctionOnSet(g, S) \in Nat
           /\ SumFunctionOnSet(f, R) <= SumFunctionOnSet(g, S)
<1>1. IsFiniteSet(R)
  BY FS_Subset
<1>2. PICK small \in [SUBSET R -> Nat] :
         /\ small[{}] = 0
         /\ \A T \in SUBSET R : \A x \in T : small[T] = f[x] + small[T \ {x}]
         /\ small[R] = SumFunctionOnSet(f, R)
  BY <1>1, SumExists
<1>3. PICK large \in [SUBSET S -> Nat] :
         /\ large[{}] = 0
         /\ \A T \in SUBSET S : \A x \in T : large[T] = g[x] + large[T \ {x}]
         /\ large[S] = SumFunctionOnSet(g, S)
  BY SumExists
<1> DEFINE Good == {T \in SUBSET S : small[T \cap R] <= large[T]}
<1>4. ASSUME NEW T \in SUBSET S, T # {}, \A x \in T : T \ {x} \in Good
      PROVE  T \in Good
  <2>1. PICK x \in T : TRUE
    BY <1>4
  <2>2. large[T] = g[x] + large[T \ {x}] /\ large[T \ {x}] \in Nat /\ g[x] \in Nat
    BY <1>3
  <2>3. small[(T \ {x}) \cap R] <= large[T \ {x}] /\ small[(T \ {x}) \cap R] \in Nat
    BY <1>2, <1>4
  <2>4. CASE x \in R
    <3>1. /\ x \in T \cap R /\ T \cap R \in SUBSET R
          /\ (T \cap R) \ {x} = (T \ {x}) \cap R
      BY <2>4
    <3>2. small[T \cap R] = f[x] + small[(T \ {x}) \cap R]
      BY <1>2, <3>1
    <3>3. f[x] <= g[x] /\ f[x] \in Nat
      BY <2>4
    <3> QED
      BY <2>2, <2>3, <3>2, <3>3
  <2>5. CASE x \notin R
    <3>1. T \cap R = (T \ {x}) \cap R
      BY <2>5
    <3>2. small[T \cap R] = small[(T \ {x}) \cap R]
      BY <3>1
    <3> DEFINE less == small[(T \ {x}) \cap R]
               rest == large[T \ {x}]
    <3>3. less <= rest /\ less \in Nat /\ rest \in Nat /\ g[x] \in Nat
      BY <2>2, <2>3
    <3>4. small[T \cap R] = less /\ large[T] = g[x] + rest
      BY <2>2, <3>2
    <3> HIDE DEF less, rest
    <3> QED
      BY <3>3, <3>4
  <2> QED
    BY <2>4, <2>5
<1>5. Good = SUBSET S
  <2>1. {} \in Good /\ Good \in SUBSET (SUBSET S)
    <3>1. {} \cap R = {}
      OBVIOUS
    <3> QED
      BY <1>2, <1>3, <3>1
  <2> HIDE DEF Good
  <2> QED
    BY <1>4, <2>1, SubsetInduction
<1>6. S \cap R = R
  OBVIOUS
<1>7. small[R] <= large[S]
  BY <1>5, <1>6
<1> QED
  BY <1>2, <1>3, <1>7
=============================================================================
