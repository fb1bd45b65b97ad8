--------------------------- MODULE SumTheorems ----------------------------
(***************************************************************************)
(* Sums over finite sets: what the SumFunction of the community modules    *)
(* comes to, for every finite set.  The module that defines it states no   *)
(* facts about it; these rest on the induction over the subsets of a       *)
(* finite set, which is proved here from the well-foundedness of strict    *)
(* inclusion (FiniteSetTheorems).                                          *)
(***************************************************************************)
EXTENDS Integers, FiniteSets, Functions, TLAPS, FiniteSetTheorems, WellFoundedInduction

(* Induction. *)

\* A family of subsets of a finite set has one that is the least by one element.
LEMMA LeastSubset ==
  ASSUME NEW S, IsFiniteSet(S), NEW B, B \subseteq SUBSET S, B # {}
  PROVE  \E T \in B : \A x \in T : T \ {x} \notin B
<1>1. IsWellFoundedOn(StrictSubsetOrdering(S), FiniteSubsetsOf(S))
  BY FS_StrictSubsetOrderingWellFounded
<1>2. B \subseteq FiniteSubsetsOf(S)
  BY FS_Subset DEF FiniteSubsetsOf
<1>3. PICK T \in B : \A U \in B : ~ (<<U, T>> \in StrictSubsetOrdering(S))
  BY <1>1, <1>2, WFMin
<1>4. ASSUME NEW x \in T PROVE T \ {x} \notin B
  BY <1>3, <1>4 DEF StrictSubsetOrdering
<1> QED
  BY <1>4

\* Induction over a finite set, as a family of its subsets: one that has the empty
\* set and, with a set, that set with one element more, has the whole set.
LEMMA SubsetInduction ==
  ASSUME NEW S, IsFiniteSet(S), NEW F, {} \in F,
         \A T \in SUBSET S : \A x \in S \ T : T \in F => T \cup {x} \in F
  PROVE  S \in F
<1> DEFINE Bad == (SUBSET S) \ F
<1> SUFFICES ASSUME S \notin F PROVE FALSE
  OBVIOUS
<1>1. Bad \subseteq SUBSET S /\ Bad # {}
  OBVIOUS
<1>2. PICK T \in Bad : \A x \in T : T \ {x} \notin Bad
  <2> HIDE DEF Bad
  <2> QED BY <1>1, LeastSubset
<1>3. PICK x \in T : TRUE
  BY T # {}
<1>4. T \ {x} \in F
  BY <1>2
<1>5. T \ {x} \in SUBSET S /\ x \in S \ (T \ {x}) /\ (T \ {x}) \cup {x} = T
  OBVIOUS
<1>6. (T \ {x}) \cup {x} \in F
  BY <1>4, <1>5
<1> QED
  BY <1>5, <1>6

\* What a solution of the recursion of a sum is.
Sums(f, S, g) ==
  g = [T \in SUBSET S |->
         IF T = {} THEN 0 ELSE f[CHOOSE x \in T : TRUE] + g[T \ {CHOOSE x \in T : TRUE}]]

\* A sum is given by what remains of the set.
LEMMA SumsValue ==
  ASSUME NEW f, NEW S, NEW g, Sums(f, S, g), NEW T \in SUBSET S, T # {}
  PROVE  g[T] = f[CHOOSE x \in T : TRUE] + g[T \ {CHOOSE x \in T : TRUE}]
  BY DEF Sums

\* The element that a sum takes first is of the set.
LEMMA SumsChoice ==
  ASSUME NEW f, NEW S, NEW g, Sums(f, S, g), NEW T \in SUBSET S, T # {}
  PROVE  \E y \in T : g[T] = f[y] + g[T \ {y}]
<1> DEFINE y == CHOOSE x \in T : TRUE
<1>1. y \in T
  OBVIOUS
<1>2. g[T] = f[y] + g[T \ {y}]
  BY DEF Sums
<1> HIDE DEF y
<1> QED
  BY <1>1, <1>2

\* The empty set sums to nothing.
LEMMA SumsEmpty ==
  ASSUME NEW f, NEW S, NEW g, Sums(f, S, g)
  PROVE  g[{}] = 0
  BY {} \in SUBSET S DEF Sums

\* Two solutions agree where both are defined.
LEMMA SumsUnique ==
  ASSUME NEW f, NEW S, NEW T, NEW g, NEW h, Sums(f, S, g), Sums(f, T, h),
         NEW U \in SUBSET S, U \in SUBSET T, IsFiniteSet(U)
  PROVE  g[U] = h[U]
<1> DEFINE B == {V \in SUBSET U : g[V] # h[V]}
<1> SUFFICES ASSUME U \in B PROVE FALSE
  OBVIOUS
<1>1. PICK V \in B : \A x \in V : V \ {x} \notin B
  <2> B \subseteq SUBSET U /\ B # {}
    OBVIOUS
  <2> HIDE DEF B
  <2> QED BY LeastSubset
<1>2. V # {}
  BY SumsEmpty
<1> DEFINE y == CHOOSE x \in V : TRUE
<1>3. y \in V
  BY <1>2
<1> V \in SUBSET S /\ V \in SUBSET T
  OBVIOUS
<1>4. g[V] = f[y] + g[V \ {y}]
  BY <1>2, SumsValue
<1>5. h[V] = f[y] + h[V \ {y}]
  <2> HIDE DEF B
  <2> QED BY ONLY <1>2, V \in SUBSET T, Sums(f, T, h), SumsValue
<1>6. V \ {y} \notin B /\ V \ {y} \in SUBSET U
  BY <1>1, <1>3
<1> QED
  BY <1>1, <1>4, <1>5, <1>6

\* A sum over the subsets of a finite set exists.
LEMMA SumsExist ==
  ASSUME NEW f, NEW S, IsFiniteSet(S)
  PROVE  \E g : Sums(f, S, g)
<1> DEFINE B == {T \in SUBSET S : ~ \E g : Sums(f, T, g)}
<1> SUFFICES ASSUME S \in B PROVE FALSE
  OBVIOUS
<1>1. PICK T \in B : \A x \in T : T \ {x} \notin B
  <2> B \subseteq SUBSET S /\ B # {}
    OBVIOUS
  <2> HIDE DEF B
  <2> QED BY LeastSubset
<1>2. \A x \in T : \E g : Sums(f, T \ {x}, g)
  BY <1>1
<1> DEFINE Of(x) == CHOOSE g : Sums(f, T \ {x}, g)
<1>3. \A x \in T : Sums(f, T \ {x}, Of(x))
  BY <1>2
<1> DEFINE Any(U) == CHOOSE x \in U : TRUE
           Left(U) == CHOOSE x \in T : x \notin U
           v == [U \in (SUBSET T) \ {T} |-> Of(Left(U))[U]]
           w == IF T = {} THEN 0 ELSE f[Any(T)] + v[T \ {Any(T)}]
           h == [U \in SUBSET T |-> IF U = T THEN w ELSE v[U]]
<1>4. ASSUME NEW U \in SUBSET T, U # T
      PROVE  /\ Left(U) \in T /\ U \in SUBSET (T \ {Left(U)})
             /\ v[U] = IF U = {} THEN 0 ELSE f[Any(U)] + Of(Left(U))[U \ {Any(U)}]
  <2>1. Left(U) \in T /\ Left(U) \notin U
    BY <1>4
  <2>2. U \in SUBSET (T \ {Left(U)})
    BY <2>1
  <2>3. Sums(f, T \ {Left(U)}, Of(Left(U)))
    BY <1>3, <2>1
  <2>4. v[U] = Of(Left(U))[U]
    BY <1>4
  <2> HIDE DEF Of, Left, v
  <2>5. CASE U = {}
    BY <2>3, <2>4, <2>5, SumsEmpty
  <2>6. CASE U # {}
    <3>1. Of(Left(U))[U] = f[Any(U)] + Of(Left(U))[U \ {Any(U)}]
      BY <2>2, <2>3, <2>6, SumsValue
    <3> HIDE DEF Any
    <3> QED BY <2>1, <2>2, <2>4, <2>6, <3>1
  <2> QED BY <2>1, <2>2, <2>5, <2>6
<1>5. ASSUME NEW U \in SUBSET T, U # T, U # {}
      PROVE  v[U] = f[Any(U)] + v[U \ {Any(U)}]
  <2> DEFINE y == Any(U)
             V == U \ {y}
  <2>1. y \in U
    BY <1>5
  <2>2. V \in SUBSET T /\ V # T
    BY <2>1
  <2>3. v[V] = Of(Left(V))[V]
    BY <2>2
  <2>4. IsFiniteSet(V)
    BY <2>2, FS_Subset
  <2>5. Of(Left(V))[V] = Of(Left(U))[V]
    <3>1. V \in SUBSET (T \ {Left(V)}) /\ Left(V) \in T
      BY <1>4, <2>2
    <3>2. V \in SUBSET (T \ {Left(U)}) /\ Left(U) \in T
      BY <1>4, <1>5
    <3>3. Sums(f, T \ {Left(V)}, Of(Left(V))) /\ Sums(f, T \ {Left(U)}, Of(Left(U)))
      BY <1>3, <3>1, <3>2
    <3> HIDE DEF Of, Left, V
    <3> QED BY <2>4, <3>1, <3>2, <3>3, SumsUnique
  <2> QED BY <1>4, <1>5, <2>3, <2>5
<1>6. ASSUME NEW U \in SUBSET T
      PROVE  h[U] = IF U = {} THEN 0 ELSE f[Any(U)] + h[U \ {Any(U)}]
  <2>1. U # {} => Any(U) \in U /\ U \ {Any(U)} \in SUBSET T /\ U \ {Any(U)} # T
    <3> SUFFICES ASSUME U # {} PROVE Any(U) \in U
      OBVIOUS
    <3> QED OBVIOUS
  <2>2. U # {} => h[U \ {Any(U)}] = v[U \ {Any(U)}]
    BY <2>1
  <2>3. CASE U = T
    BY <2>2, <2>3
  <2>4. CASE U # T
    <3>1. h[U] = v[U]
      BY <2>4
    <3>2. CASE U = {}
      BY <1>4, <2>4, <3>1, <3>2
    <3>3. CASE U # {}
      <4> HIDE DEF v, h, Any
      <4> QED BY <1>5, <2>2, <2>4, <3>1, <3>3
    <3> QED BY <3>2, <3>3
  <2> QED BY <2>3, <2>4
<1>7. Sums(f, T, h)
  <2>1. h = [U \in SUBSET T |-> IF U = {} THEN 0 ELSE f[Any(U)] + h[U \ {Any(U)}]]
    <3>1. h = [U \in SUBSET T |-> h[U]]
      OBVIOUS
    <3> HIDE DEF h, Any
    <3> QED BY <1>6, <3>1
  <2> QED BY <2>1 DEF Sums
<1> QED
  BY <1>1, <1>7

---------------------------------------------------------------------------
(* Sums. *)

\* The sum of the values of f on a set.
Part(f, T) == SumFunction([x \in T |-> f[x]])

\* A sum is what the solutions of its recursion say.
LEMMA PartIsSum ==
  ASSUME NEW f, NEW S, NEW g, Sums(f, S, g), NEW T \in SUBSET S, IsFiniteSet(T)
  PROVE  Part(f, T) = g[T]
<1> DEFINE p == [x \in T |-> f[x]]
           Rec(h) == h = [U \in SUBSET T |->
                            IF U = {} THEN 0
                            ELSE p[CHOOSE x \in U : TRUE] + h[U \ {CHOOSE x \in U : TRUE}]]
           h == CHOOSE k : Rec(k)
<1>1. DOMAIN p = T
  OBVIOUS
<1>2. Part(f, T) = h[T]
  BY <1>1 DEF Part, SumFunction, SumFunctionOnSet, FoldFunctionOnSet, MapThenFoldSet
<1>3. \A k : Rec(k) <=> Sums(f, T, k)
  <2> TAKE k
  <2>1. \A U \in SUBSET T : U # {} => p[CHOOSE x \in U : TRUE] = f[CHOOSE x \in U : TRUE]
    <3> SUFFICES ASSUME NEW U \in SUBSET T, U # {} PROVE (CHOOSE x \in U : TRUE) \in T
      OBVIOUS
    <3> (CHOOSE x \in U : TRUE) \in U
      OBVIOUS
    <3> QED OBVIOUS
  <2>2. [U \in SUBSET T |-> IF U = {} THEN 0
                            ELSE p[CHOOSE x \in U : TRUE] + k[U \ {CHOOSE x \in U : TRUE}]]
        = [U \in SUBSET T |-> IF U = {} THEN 0
                              ELSE f[CHOOSE x \in U : TRUE] + k[U \ {CHOOSE x \in U : TRUE}]]
    <3> HIDE DEF p
    <3> QED BY <2>1
  <2> QED BY <2>2 DEF Sums
<1>4. \E k : Rec(k)
  <2> HIDE DEF Rec
  <2> QED BY <1>3, SumsExist
<1>5. Sums(f, T, h)
  <2> HIDE DEF Rec
  <2> QED BY <1>3, <1>4
<1> HIDE DEF h
<1> QED
  BY <1>2, <1>5, SumsUnique, T \in SUBSET T

\* A sum of integers is an integer.
LEMMA SumsInt ==
  ASSUME NEW S, IsFiniteSet(S), NEW f \in [S -> Int], NEW g, Sums(f, S, g), NEW T \in SUBSET S
  PROVE  g[T] \in Int
<1> DEFINE B == {U \in SUBSET S : g[U] \notin Int}
<1> SUFFICES ASSUME T \in B PROVE FALSE
  OBVIOUS
<1>1. PICK U \in B : \A x \in U : U \ {x} \notin B
  <2> B \subseteq SUBSET S /\ B # {}
    OBVIOUS
  <2> HIDE DEF B
  <2> QED BY LeastSubset
<1>2. U # {}
  BY SumsEmpty
<1>3. U \in SUBSET S
  OBVIOUS
<1> DEFINE y == CHOOSE x \in U : TRUE
<1>4. y \in U
  BY <1>2
<1>5. g[U] = f[y] + g[U \ {y}]
  <2> HIDE DEF B
  <2> QED BY <1>2, <1>3, SumsValue
<1> HIDE DEF y
<1>6. g[U \ {y}] \in Int /\ f[y] \in Int
  BY <1>1, <1>4
<1> QED
  BY <1>5, <1>6

\* One element at a time, whichever.
LEMMA SumsLessOne ==
  ASSUME NEW S, IsFiniteSet(S), NEW f \in [S -> Int], NEW g, Sums(f, S, g),
         NEW T \in SUBSET S, NEW d \in T
  PROVE  g[T] = f[d] + g[T \ {d}]
<1> DEFINE B == {U \in SUBSET S : \E z \in U : g[U] # f[z] + g[U \ {z}]}
<1> SUFFICES ASSUME T \in B PROVE FALSE
  OBVIOUS
<1>1. PICK U \in B : \A z \in U : U \ {z} \notin B
  <2> B \subseteq SUBSET S /\ B # {}
    OBVIOUS
  <2> HIDE DEF B
  <2> QED BY LeastSubset
<1>2. PICK e \in U : g[U] # f[e] + g[U \ {e}]
  OBVIOUS
<1>3. U \in SUBSET S
  OBVIOUS
<1>4. U # {}
  OBVIOUS
<1>6. PICK y \in U : g[U] = f[y] + g[U \ {y}]
  <2> HIDE DEF B
  <2> QED BY <1>3, <1>4, SumsChoice
<1>5. y \in U
  BY <1>6
<1>7. e # y
  BY <1>2, <1>6
<1>8. g[U \ {y}] = f[e] + g[(U \ {y}) \ {e}]
  BY <1>1, <1>5, <1>7
<1>9. g[U \ {e}] = f[y] + g[(U \ {e}) \ {y}]
  BY <1>1, <1>5, <1>7
<1>10. (U \ {e}) \ {y} = (U \ {y}) \ {e}
  OBVIOUS
<1>11. g[(U \ {y}) \ {e}] \in Int
  <2> (U \ {y}) \ {e} \in SUBSET S
    OBVIOUS
  <2> HIDE DEF B
  <2> QED BY SumsInt
<1>12. f[e] \in Int /\ f[y] \in Int
  BY <1>5
<1>13. g[U] = f[y] + (f[e] + g[(U \ {y}) \ {e}])
  BY <1>6, <1>8
<1>14. f[e] + g[U \ {e}] = f[e] + (f[y] + g[(U \ {y}) \ {e}])
  BY <1>9, <1>10
<1> QED
  BY ONLY <1>2, <1>11, <1>12, <1>13, <1>14

\* A part's sum is that of the part without one element, and that element's value.
LEMMA PartLessOne ==
  ASSUME NEW S, IsFiniteSet(S), NEW f \in [S -> Int], NEW T \in SUBSET S
  PROVE  /\ Part(f, T) \in Int
         /\ \A x \in T : Part(f, T) = f[x] + Part(f, T \ {x})
<1>1. PICK g : Sums(f, S, g)
  BY SumsExist
<1>2. \A U \in SUBSET S : Part(f, U) = g[U]
  BY <1>1, PartIsSum, FS_Subset
<1>3. g[T] \in Int
  BY <1>1, SumsInt
<1>4. \A x \in T : g[T] = f[x] + g[T \ {x}] /\ T \ {x} \in SUBSET S
  BY <1>1, SumsLessOne
<1> QED
  BY <1>2, <1>3, <1>4

\* Nothing adds up to nothing.
LEMMA PartEmpty ==
  ASSUME NEW f
  PROVE  Part(f, {}) = 0
<1>1. IsFiniteSet({}) /\ {} \in SUBSET {}
  BY FS_EmptySet
<1>2. PICK g : Sums(f, {}, g)
  BY <1>1, SumsExist
<1> QED
  BY <1>1, <1>2, PartIsSum, SumsEmpty

\* One element more.
LEMMA PartAddOne ==
  ASSUME NEW S, IsFiniteSet(S), NEW f \in [S -> Int], NEW T \in SUBSET S, NEW x \in S \ T
  PROVE  Part(f, T \cup {x}) = Part(f, T) + f[x]
<1>1. T \cup {x} \in SUBSET S /\ x \in T \cup {x} /\ (T \cup {x}) \ {x} = T
  OBVIOUS
<1>2. Part(f, T \cup {x}) = f[x] + Part(f, T)
  BY <1>1, PartLessOne
<1> QED
  BY <1>2, PartLessOne

\* A sum of integers is an integer.
LEMMA TotalInt ==
  ASSUME NEW S, IsFiniteSet(S), NEW f \in [S -> Int]
  PROVE  SumFunction(f) \in Int
<1>1. Part(f, S) \in Int
  BY PartLessOne
<1>2. [x \in S |-> f[x]] = f
  OBVIOUS
<1> QED
  BY <1>1, <1>2 DEF Part

\* A sum is over all of the function's domain.
LEMMA TotalPart ==
  ASSUME NEW S, NEW f, f = [x \in S |-> f[x]]
  PROVE  SumFunction(f) = Part(f, S)
  BY DEF Part

\* Functions that agree on a set add up to the same there.
LEMMA PartSame ==
  ASSUME NEW T, NEW f, NEW g, \A x \in T : f[x] = g[x]
  PROVE  Part(f, T) = Part(g, T)
<1>1. [x \in T |-> f[x]] = [x \in T |-> g[x]]
  OBVIOUS
<1> QED
  BY <1>1 DEF Part

\* Where one value grows, the sum grows by as much.
LEMMA TotalGrown ==
  ASSUME NEW S, IsFiniteSet(S), NEW f \in [S -> Int], NEW g \in [S -> Int], NEW x \in S,
         \A y \in S \ {x} : g[y] = f[y]
  PROVE  SumFunction(g) = SumFunction(f) + (g[x] - f[x])
<1>1. Part(g, S \ {x}) = Part(f, S \ {x})
  BY PartSame
<1>2. SumFunction(g) = g[x] + Part(g, S \ {x})
  BY TotalPart, PartLessOne
<1>3. SumFunction(f) = f[x] + Part(f, S \ {x})
  BY TotalPart, PartLessOne
<1>4. Part(f, S \ {x}) \in Int
  BY PartLessOne
<1> QED
  BY <1>1, <1>2, <1>3, <1>4

\* Values that are no lower add up to no less.
LEMMA TotalMonotone ==
  ASSUME NEW S, IsFiniteSet(S), NEW f \in [S -> Int], NEW g \in [S -> Int],
         \A x \in S : f[x] <= g[x]
  PROVE  SumFunction(f) <= SumFunction(g)
<1> DEFINE F == {T \in SUBSET S : Part(f, T) <= Part(g, T)}
<1>1. {} \in F
  BY PartEmpty
<1>2. ASSUME NEW T \in SUBSET S, NEW x \in S \ T, T \in F
      PROVE  T \cup {x} \in F
  <2>1. Part(f, T \cup {x}) = Part(f, T) + f[x] /\ Part(g, T \cup {x}) = Part(g, T) + g[x]
    BY PartAddOne
  <2>2. Part(f, T) \in Int /\ Part(g, T) \in Int
    BY PartLessOne
  <2>3. f[x] \in Int /\ g[x] \in Int /\ f[x] <= g[x] /\ Part(f, T) <= Part(g, T)
    BY <1>2
  <2>4. T \cup {x} \in SUBSET S
    OBVIOUS
  <2> QED BY <2>1, <2>2, <2>3, <2>4
<1> HIDE DEF F
<1>3. S \in F
  BY <1>1, <1>2, SubsetInduction
<1> QED
  BY <1>3, TotalPart DEF F

\* What is nothing need not be added.
LEMMA TotalOfRest ==
  ASSUME NEW S, IsFiniteSet(S), NEW f \in [S -> Int], NEW U \in SUBSET S,
         \A x \in S \ U : f[x] = 0
  PROVE  SumFunction(f) = Part(f, U)
<1> DEFINE F == {T \in SUBSET S : Part(f, T) = Part(f, T \cap U)}
<1>1. {} \in F
  <2> {} \cap U = {}
    OBVIOUS
  <2> QED OBVIOUS
<1>2. ASSUME NEW T \in SUBSET S, NEW x \in S \ T, T \in F
      PROVE  T \cup {x} \in F
  <2>1. Part(f, T \cup {x}) = Part(f, T) + f[x]
    BY PartAddOne
  <2>2. Part(f, T) \in Int /\ Part(f, T) = Part(f, T \cap U)
    BY <1>2, PartLessOne
  <2>3. CASE x \in U
    <3>1. (T \cup {x}) \cap U = (T \cap U) \cup {x} /\ T \cap U \in SUBSET S /\ x \in S \ (T \cap U)
      BY <2>3
    <3>2. Part(f, (T \cap U) \cup {x}) = Part(f, T \cap U) + f[x]
      BY <3>1, PartAddOne
    <3> QED BY <2>1, <2>2, <3>1, <3>2
  <2>4. CASE x \notin U
    <3>1. (T \cup {x}) \cap U = T \cap U /\ f[x] = 0 /\ T \cup {x} \in SUBSET S
      BY <2>4
    <3>2. Part(f, T \cup {x}) = Part(f, T \cap U)
      BY ONLY <2>1, <2>2, <3>1
    <3> QED BY <3>1, <3>2
  <2> QED BY <2>3, <2>4
<1> HIDE DEF F
<1>3. S \in F
  BY <1>1, <1>2, SubsetInduction
<1>4. S \cap U = U
  OBVIOUS
<1> QED
  BY <1>3, <1>4, TotalPart DEF F

\* A part of what is not negative is no more than all of it.
LEMMA TotalSubset ==
  ASSUME NEW S, IsFiniteSet(S), NEW f \in [S -> Nat], NEW U \in SUBSET S
  PROVE  Part(f, U) <= SumFunction(f)
<1> DEFINE g == [x \in S |-> IF x \in U THEN f[x] ELSE 0]
<1>1. g \in [S -> Int] /\ f \in [S -> Int] /\ \A x \in S : g[x] <= f[x]
  OBVIOUS
<1>2. SumFunction(g) <= SumFunction(f)
  <2> HIDE DEF g
  <2> QED BY <1>1, TotalMonotone
<1>3. \A x \in S \ U : g[x] = 0
  OBVIOUS
<1>4. SumFunction(g) = Part(g, U)
  <2> HIDE DEF g
  <2> QED BY <1>1, <1>3, TotalOfRest
<1>5. \A x \in U : g[x] = f[x]
  OBVIOUS
<1>6. Part(g, U) = Part(f, U)
  <2> HIDE DEF g
  <2> QED BY <1>5, PartSame
<1> QED
  BY <1>2, <1>4, <1>6

\* A sum is that of the sums of its groups.
LEMMA TotalByKey ==
  ASSUME NEW S, IsFiniteSet(S), NEW f \in [S -> Int], NEW K, IsFiniteSet(K),
         NEW key \in [S -> K], NEW g, g = [k \in K |-> g[k]],
         \A k \in K : g[k] = Part(f, {x \in S : key[x] = k})
  PROVE  SumFunction(f) = SumFunction(g)
<1> DEFINE Group(T, k) == {x \in T : key[x] = k}
           Groups(T) == [k \in K |-> Part(f, Group(T, k))]
           F == {T \in SUBSET S : Part(f, T) = SumFunction(Groups(T))}
<1>1. \A T \in SUBSET S : Groups(T) \in [K -> Int]
  <2> SUFFICES ASSUME NEW T \in SUBSET S, NEW k \in K PROVE Part(f, Group(T, k)) \in Int
    OBVIOUS
  <2> Group(T, k) \in SUBSET S
    OBVIOUS
  <2> HIDE DEF Group
  <2> QED BY PartLessOne
<1>2. {} \in F
  <2>1. \A k \in K : Part(f, Group({}, k)) = 0
    <3> TAKE k \in K
    <3> Group({}, k) = {}
      OBVIOUS
    <3> HIDE DEF Group
    <3> QED BY PartEmpty
  <2>2. Groups({}) \in [K -> Int] /\ \A k \in K \ {} : Groups({})[k] = 0
    BY <1>1, <2>1
  <2>3. SumFunction(Groups({})) = Part(Groups({}), {})
    <3> HIDE DEF Groups
    <3> QED BY <2>2, TotalOfRest
  <2> HIDE DEF Groups
  <2> QED BY <2>3, PartEmpty
<1>3. ASSUME NEW T \in SUBSET S, NEW x \in S \ T, T \in F
      PROVE  T \cup {x} \in F
  <2> DEFINE h == Groups(T)
  <2>1. key[x] \in K /\ f[x] \in Int
    OBVIOUS
  <2>2. h \in [K -> Int]
    BY <1>1
  <2>3. ASSUME NEW k \in K PROVE Part(f, Group(T \cup {x}, k))
                                 = IF k = key[x] THEN h[key[x]] + f[x] ELSE h[k]
    <3>1. CASE k = key[x]
      <4>1. Group(T \cup {x}, k) = Group(T, k) \cup {x} /\ Group(T, k) \in SUBSET S /\ x \in S \ Group(T, k)
        BY <3>1
      <4>2. h[k] = Part(f, Group(T, k))
        OBVIOUS
      <4>3. Part(f, Group(T, k) \cup {x}) = Part(f, Group(T, k)) + f[x]
        <5> HIDE DEF Group
        <5> QED BY <4>1, PartAddOne
      <4> HIDE DEF Group, h
      <4> QED BY <3>1, <4>1, <4>2, <4>3
    <3>2. CASE k # key[x]
      <4>1. Group(T \cup {x}, k) = Group(T, k)
        BY <3>2
      <4>2. h[k] = Part(f, Group(T, k))
        OBVIOUS
      <4> HIDE DEF Group, h
      <4> QED BY <3>2, <4>1, <4>2
    <3> QED BY <3>1, <3>2
  <2>4. SumFunction(Groups(T \cup {x})) = SumFunction(h) + f[x]
    <3>1. Groups(T \cup {x}) \in [K -> Int]
      BY <1>1, T \cup {x} \in SUBSET S
    <3>2. \A k \in K : Groups(T \cup {x})[k] = IF k = key[x] THEN h[key[x]] + f[x] ELSE h[k]
      BY <2>3
    <3> HIDE DEF h, Groups
    <3>3. PICK k \in K : k = key[x]
      BY <2>1
    <3>4. Groups(T \cup {x})[k] = h[k] + f[x] /\ \A y \in K \ {k} : Groups(T \cup {x})[y] = h[y]
      BY <3>2, <3>3
    <3>5. SumFunction(Groups(T \cup {x})) = SumFunction(h) + (Groups(T \cup {x})[k] - h[k])
      <4>1. \A p, q \in [K -> Int] : (\A y \in K \ {k} : q[y] = p[y]) => SumFunction(q) = SumFunction(p) + (q[k] - p[k])
        BY TotalGrown
      <4> HIDE DEF F
      <4> QED BY <2>2, <3>1, <3>4, <4>1
    <3>6. h[k] \in Int /\ f[x] \in Int
      BY <2>1, <2>2
    <3> QED BY ONLY <3>4, <3>5, <3>6
  <2>5. Part(f, T \cup {x}) = Part(f, T) + f[x]
    BY PartAddOne
  <2>6. Part(f, T) = SumFunction(h)
    BY <1>3
  <2>7. T \cup {x} \in SUBSET S
    OBVIOUS
  <2> HIDE DEF Groups, h
  <2> QED BY <2>4, <2>5, <2>6, <2>7
<1>4. S \in F
  <2> HIDE DEF F
  <2> QED BY <1>2, <1>3, SubsetInduction
<1>5. g = Groups(S)
  OBVIOUS
<1>6. Part(f, S) = SumFunction(Groups(S))
  BY <1>4
<1> HIDE DEF Groups
<1> QED
  BY <1>5, <1>6, TotalPart

\* The sum over one element.
LEMMA PartOfOne ==
  ASSUME NEW S, IsFiniteSet(S), NEW f \in [S -> Int], NEW x \in S
  PROVE  Part(f, {x}) = f[x]
<1>1. {x} \in SUBSET S /\ x \in {x} /\ {x} \ {x} = {}
  OBVIOUS
<1>2. Part(f, {x}) = f[x] + Part(f, {})
  BY <1>1, PartLessOne
<1> QED
  BY <1>2, PartEmpty, f[x] \in Int

\* So is a part of a sum.
LEMMA PartByKey ==
  ASSUME NEW S, IsFiniteSet(S), NEW f \in [S -> Int], NEW U \in SUBSET S, NEW K, IsFiniteSet(K),
         NEW key, \A x \in U : key[x] \in K, NEW g, g = [k \in K |-> g[k]],
         \A k \in K : g[k] = Part(f, {x \in U : key[x] = k})
  PROVE  Part(f, U) = SumFunction(g)
<1> DEFINE h == [x \in U |-> f[x]]
           by == [x \in U |-> key[x]]
<1>1. IsFiniteSet(U)
  BY FS_Subset
<1>2. h \in [U -> Int] /\ by \in [U -> K]
  OBVIOUS
<1>3. ASSUME NEW k \in K PROVE g[k] = Part(h, {x \in U : by[x] = k})
  <2>1. {x \in U : by[x] = k} = {x \in U : key[x] = k}
    OBVIOUS
  <2>2. \A x \in {y \in U : key[y] = k} : h[x] = f[x]
    OBVIOUS
  <2>3. Part(h, {x \in U : key[x] = k}) = Part(f, {x \in U : key[x] = k})
    <3> HIDE DEF h
    <3> QED BY <2>2, PartSame
  <2> QED BY <2>1, <2>3
<1>4. SumFunction(h) = Part(f, U)
  BY DEF Part
<1> HIDE DEF h, by
<1>5. SumFunction(h) = SumFunction(g)
  BY <1>1, <1>2, <1>3, TotalByKey
<1> QED
  BY <1>4, <1>5

\* Sums of parts that have nothing in common add up.
LEMMA PartOfBoth ==
  ASSUME NEW S, IsFiniteSet(S), NEW f \in [S -> Int], NEW U \in SUBSET S, NEW V \in SUBSET S,
         U \cap V = {}
  PROVE  Part(f, U \cup V) = Part(f, U) + Part(f, V)
<1> DEFINE F == {T \in SUBSET V : Part(f, U \cup T) = Part(f, U) + Part(f, T)}
<1>1. {} \in F
  <2>1. U \cup {} = U /\ Part(f, U) \in Int
    BY PartLessOne
  <2> QED BY <2>1, PartEmpty
<1>2. ASSUME NEW T \in SUBSET V, NEW x \in V \ T, T \in F
      PROVE  T \cup {x} \in F
  <2>1. /\ T \in SUBSET S /\ U \cup T \in SUBSET S /\ x \in S \ T /\ x \in S \ (U \cup T)
        /\ U \cup (T \cup {x}) = (U \cup T) \cup {x}
    OBVIOUS
  <2>2. Part(f, (U \cup T) \cup {x}) = Part(f, U \cup T) + f[x]
    BY <2>1, PartAddOne
  <2>3. Part(f, T \cup {x}) = Part(f, T) + f[x]
    BY <2>1, PartAddOne
  <2>4. Part(f, U) \in Int /\ Part(f, T) \in Int /\ f[x] \in Int
    BY <2>1, PartLessOne
  <2>5. Part(f, U \cup T) = Part(f, U) + Part(f, T) /\ T \cup {x} \in SUBSET V
    BY <1>2
  <2>6. Part(f, (U \cup T) \cup {x}) = Part(f, U) + Part(f, T \cup {x})
    BY ONLY <2>2, <2>3, <2>4, <2>5
  <2>7. Part(f, U \cup (T \cup {x})) = Part(f, U) + Part(f, T \cup {x})
    BY ONLY <2>1, <2>6
  <2> QED BY <2>5, <2>7
<1> HIDE DEF F
<1>3. V \in F
  BY <1>1, <1>2, FS_Subset, SubsetInduction
<1> QED
  BY <1>3 DEF F

\* A part of a part, of what is not negative, is no more.
LEMMA PartSubset ==
  ASSUME NEW S, IsFiniteSet(S), NEW f \in [S -> Nat], NEW U \in SUBSET S, NEW V \in SUBSET U
  PROVE  Part(f, V) <= Part(f, U)
<1> DEFINE h == [x \in U |-> f[x]]
<1>1. IsFiniteSet(U)
  BY FS_Subset
<1>2. h \in [U -> Nat]
  OBVIOUS
<1>3. SumFunction(h) = Part(f, U)
  BY DEF Part
<1>4. \A x \in V : h[x] = f[x]
  OBVIOUS
<1> HIDE DEF h
<1>5. Part(h, V) = Part(f, V)
  BY <1>4, PartSame
<1> QED
  BY <1>1, <1>2, <1>3, <1>5, TotalSubset

\* What is not negative adds up to what is not negative.
LEMMA PartNat ==
  ASSUME NEW S, IsFiniteSet(S), NEW f \in [S -> Nat], NEW U \in SUBSET S
  PROVE  Part(f, U) \in Nat
<1>1. {} \in SUBSET U
  OBVIOUS
<1>2. Part(f, {}) <= Part(f, U)
  BY <1>1, PartSubset
<1>3. f \in [S -> Int]
  OBVIOUS
<1>4. Part(f, U) \in Int
  BY <1>3, PartLessOne
<1> QED
  BY <1>2, <1>4, PartEmpty

\* A sum is that over what its members are mapped to, one to one.
LEMMA TotalImage ==
  ASSUME NEW S, IsFiniteSet(S), NEW f \in [S -> Int], NEW K, NEW key \in Bijection(S, K),
         NEW g \in [K -> Int], \A x \in S : g[key[x]] = f[x]
  PROVE  SumFunction(g) = SumFunction(f)
<1>1. key \in [S -> K] /\ key \in Surjection(S, K)
  BY DEF Bijection, Surjection
<1>2. IsFiniteSet(K)
  BY <1>1, FS_Surjection
<1>3. ASSUME NEW k \in K PROVE g[k] = Part(f, {x \in S : key[x] = k})
  <2>1. PICK x \in S : key[x] = k
    BY DEF Bijection, Surjection
  <2>2. {y \in S : key[y] = k} = {x}
    BY <2>1 DEF Bijection, Injection, IsInjective
  <2>3. Part(f, {x}) = f[x]
    BY PartOfOne
  <2>4. g[k] = f[x]
    BY <2>1
  <2> QED BY ONLY <2>2, <2>3, <2>4
<1> QED
  BY <1>1, <1>2, <1>3, TotalByKey

\* To count is to add ones.
LEMMA CountIsTotal ==
  ASSUME NEW S, IsFiniteSet(S)
  PROVE  \A T \in SUBSET S : Cardinality(T) = Part([x \in S |-> 1], T)
<1> DEFINE one == [x \in S |-> 1]
           F == {T \in SUBSET S : Cardinality(T) = Part(one, T)}
<1>1. one \in [S -> Int]
  OBVIOUS
<1>2. {} \in F
  BY PartEmpty, FS_EmptySet
<1>3. ASSUME NEW T \in SUBSET S, NEW x \in S \ T, T \in F
      PROVE  T \cup {x} \in F
  <2>1. Part(one, T \cup {x}) = Part(one, T) + one[x]
    <3> HIDE DEF one
    <3> QED BY <1>1, PartAddOne
  <2>2. Cardinality(T \cup {x}) = Cardinality(T) + 1
    BY FS_Subset, FS_AddElement
  <2>3. one[x] = 1 /\ T \cup {x} \in SUBSET S /\ Cardinality(T) = Part(one, T)
    BY <1>3
  <2> HIDE DEF one
  <2> QED BY <2>1, <2>2, <2>3
<1>4. ASSUME NEW U \in SUBSET S PROVE U \in F
  <2>1. IsFiniteSet(U)
    BY FS_Subset
  <2>2. \A T \in SUBSET U : \A x \in U \ T : T \in F => T \cup {x} \in F
    BY <1>3
  <2> HIDE DEF F
  <2> QED BY <1>2, <2>1, <2>2, SubsetInduction
<1> QED
  BY <1>4

\* A count is the sum of the counts of its groups.
LEMMA CountByKey ==
  ASSUME NEW S, IsFiniteSet(S), NEW K, IsFiniteSet(K), NEW key \in [S -> K],
         NEW g, g = [k \in K |-> g[k]],
         \A k \in K : g[k] = Cardinality({x \in S : key[x] = k})
  PROVE  Cardinality(S) = SumFunction(g)
<1> DEFINE one == [x \in S |-> 1]
<1>1. one \in [S -> Int]
  OBVIOUS
<1>2. \A T \in SUBSET S : Cardinality(T) = Part(one, T)
  BY CountIsTotal
<1> HIDE DEF one
<1>3. \A k \in K : g[k] = Part(one, {x \in S : key[x] = k})
  BY <1>2
<1>4. SumFunction(one) = SumFunction(g)
  BY <1>1, <1>3, TotalByKey
<1>5. SumFunction(one) = Part(one, S)
  BY <1>1, TotalPart
<1> QED
  BY <1>2, <1>4, <1>5

\* What all are under, times how many, their sum is under.
LEMMA TotalBounded ==
  ASSUME NEW S, IsFiniteSet(S), NEW f \in [S -> Int], NEW n \in Int, \A x \in S : f[x] <= n
  PROVE  SumFunction(f) <= n * Cardinality(S)
<1> DEFINE F == {T \in SUBSET S : Part(f, T) <= n * Cardinality(T)}
<1>1. {} \in F
  BY PartEmpty, FS_EmptySet
<1>2. ASSUME NEW T \in SUBSET S, NEW x \in S \ T, T \in F
      PROVE  T \cup {x} \in F
  <2>1. Part(f, T \cup {x}) = Part(f, T) + f[x]
    BY PartAddOne
  <2>2. Cardinality(T \cup {x}) = Cardinality(T) + 1 /\ Cardinality(T) \in Nat
    BY FS_Subset, FS_AddElement, FS_CardinalityType
  <2>3. Part(f, T) \in Int /\ f[x] \in Int /\ f[x] <= n /\ Part(f, T) <= n * Cardinality(T)
    BY <1>2, PartLessOne
  <2>4. n * (Cardinality(T) + 1) = n * Cardinality(T) + n
    BY <2>2
  <2>5. n * Cardinality(T) \in Int
    BY <2>2
  <2>6. Part(f, T \cup {x}) <= n * Cardinality(T \cup {x})
    BY <2>1, <2>2, <2>3, <2>4, <2>5
  <2> QED BY <2>6
<1> HIDE DEF F
<1>3. S \in F
  BY <1>1, <1>2, SubsetInduction
<1> QED
  BY <1>3, TotalPart DEF F

\* A union counts no more than its members do together.
LEMMA CountOfUnion ==
  ASSUME NEW K, IsFiniteSet(K), NEW F, \A k \in K : IsFiniteSet(F[k]),
         NEW g, g = [k \in K |-> Cardinality(F[k])]
  PROVE  Cardinality(UNION {F[k] : k \in K}) <= SumFunction(g)
<1> DEFINE U(T) == UNION {F[k] : k \in T}
           G == {T \in SUBSET K : IsFiniteSet(U(T)) /\ Cardinality(U(T)) <= Part(g, T)}
<1>1. {} \in G
  <2> U({}) = {}
    OBVIOUS
  <2> HIDE DEF U
  <2> QED BY PartEmpty, FS_EmptySet
<1>2. g \in [K -> Int]
  BY FS_CardinalityType
<1>3. ASSUME NEW T \in SUBSET K, NEW x \in K \ T, T \in G
      PROVE  T \cup {x} \in G
  <2>1. U(T \cup {x}) = U(T) \cup F[x] /\ IsFiniteSet(U(T)) /\ IsFiniteSet(F[x])
    BY <1>3
  <2> HIDE DEF U
  <2>2. /\ IsFiniteSet(U(T) \cup F[x])
        /\ Cardinality(U(T) \cup F[x]) = Cardinality(U(T)) + Cardinality(F[x]) - Cardinality(U(T) \cap F[x])
    BY <2>1, FS_Union
  <2>3. Cardinality(U(T) \cap F[x]) \in Nat /\ Cardinality(U(T)) \in Nat /\ Cardinality(F[x]) \in Nat
    BY <2>1, FS_Intersection, FS_CardinalityType
  <2>4. Part(g, T \cup {x}) = Part(g, T) + g[x] /\ Part(g, T) \in Int
    BY <1>2, PartAddOne, PartLessOne
  <2>5. g[x] = Cardinality(F[x]) /\ Cardinality(U(T)) <= Part(g, T)
    BY <1>3
  <2>6. Cardinality(U(T) \cup F[x]) <= Part(g, T \cup {x})
    BY ONLY <2>2, <2>3, <2>4, <2>5
  <2>7. T \cup {x} \in SUBSET K
    OBVIOUS
  <2> QED BY <2>1, <2>2, <2>6, <2>7
<1> HIDE DEF G
<1>4. K \in G
  BY <1>1, <1>3, SubsetInduction
<1> QED
  BY <1>2, <1>4, TotalPart DEF G

---------------------------------------------------------------------------
(* Ranks. *)

\* Those that fewer than n others outrank are all there are, if they are fewer than n.
LEMMA FewAreAll ==
  ASSUME NEW S, IsFiniteSet(S), NEW rank \in [S -> Int], NEW n \in Int, NEW T,
         T = {r \in S : Cardinality({q \in S : rank[q] > rank[r]}) < n}, Cardinality(T) < n
  PROVE  T = S
<1> DEFINE Ahead(r) == {q \in S : rank[q] > rank[r]}
           B == {Ahead(r) : r \in S \ T}
<1>1. T \subseteq S /\ \A r \in S : r \in T <=> Cardinality(Ahead(r)) < n
  OBVIOUS
<1> SUFFICES ASSUME S \ T # {} PROVE FALSE
  BY <1>1
<1>2. \A r \in S : Ahead(r) \in SUBSET S
  OBVIOUS
<1>3. \A r \in S : \A q \in Ahead(r) : <<Ahead(q), Ahead(r)>> \in StrictSubsetOrdering(S)
  <2> SUFFICES ASSUME NEW r \in S, NEW q \in Ahead(r)
               PROVE  /\ Ahead(q) \in SUBSET S /\ Ahead(r) \in SUBSET S
                      /\ Ahead(q) \subseteq Ahead(r) /\ q \notin Ahead(q) /\ q \in Ahead(r)
    BY DEF StrictSubsetOrdering
  <2> QED OBVIOUS
<1> HIDE DEF Ahead
<1>4. PICK A \in B : \A C \in B : ~ (<<C, A>> \in StrictSubsetOrdering(S))
  <2>1. IsWellFoundedOn(StrictSubsetOrdering(S), FiniteSubsetsOf(S))
    BY FS_StrictSubsetOrderingWellFounded
  <2>2. \A C \in SUBSET S : IsFiniteSet(C)
    BY FS_Subset
  <2>3. \A r \in S \ T : Ahead(r) \in FiniteSubsetsOf(S)
    BY <1>2, <2>2 DEF FiniteSubsetsOf
  <2>4. B \subseteq FiniteSubsetsOf(S)
    BY <2>3
  <2>5. B # {}
    <3>1. PICK r \in S \ T : TRUE
      OBVIOUS
    <3>2. Ahead(r) \in B
      OBVIOUS
    <3> QED BY <3>2
  <2> HIDE DEF B
  <2> QED BY <2>1, <2>4, <2>5, WFMin
<1>5. PICK r \in S \ T : A = Ahead(r)
  OBVIOUS
<1>6. Ahead(r) \subseteq T
  <2> SUFFICES ASSUME NEW q \in Ahead(r), q \notin T PROVE FALSE
    OBVIOUS
  <2>1. q \in S \ T
    BY <1>2, <1>5
  <2> QED BY <1>3, <1>4, <1>5, <2>1
<1>7. Cardinality(Ahead(r)) <= Cardinality(T)
  BY <1>1, <1>6, FS_Subset
<1>8. Cardinality(Ahead(r)) \in Nat /\ Cardinality(T) \in Nat
  BY <1>1, <1>2, FS_Subset, FS_CardinalityType
<1>9. Cardinality(Ahead(r)) < n
  BY <1>7, <1>8
<1> QED
  BY <1>1, <1>5, <1>9
===========================================================================
