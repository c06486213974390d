----------------------------- MODULE SumLemmas -----------------------------
(***************************************************************************)
(* Sums of integers over finite sets: what SumFunctionOnSet of the         *)
(* community modules computes, whatever the order it adds in.  The library *)
(* states induction for operators only; here a property of subsets is the  *)
(* set of the subsets that have it.                                        *)
(***************************************************************************)
EXTENDS Integers, Functions, FiniteSetTheorems, TLAPS

\* What holds of a subset whenever it holds of its proper subsets holds of all.
LEMMA SubsetInduction ==
    ASSUME NEW S, IsFiniteSet(S), NEW P,
           \A T \in SUBSET S : (\A U \in SUBSET T : U # T => U \in P) => T \in P
    PROVE  \A T \in SUBSET S : T \in P
  <1> DEFINE Rest == (SUBSET S) \ P
  <1>1. SUFFICES ASSUME Rest # {} PROVE FALSE
    OBVIOUS
  <1>2. IsWellFoundedOn(StrictSubsetOrdering(S), SUBSET S)
    BY FS_StrictSubsetOrderingWellFounded, FS_FiniteSubsetsOfFinite
  <1>3. PICK T \in Rest : \A U \in Rest : <<U, T>> \notin StrictSubsetOrdering(S)
    <2>1. Rest \subseteq SUBSET S
      OBVIOUS
    <2> HIDE DEF Rest
    <2>2. QED
      BY <1>1, <1>2, <2>1, WFMin
  <1>4. \A U \in SUBSET T : U # T => U \in P
    BY <1>3 DEF StrictSubsetOrdering
  <1>5. QED
    BY <1>3, <1>4

\* The order of summation.
Pick(s) == CHOOSE x \in s : TRUE

\* The partial sums of g over the subsets in D.
IsPartial(f, g, D) ==
    f = [s \in D |-> IF s = {} THEN 0 ELSE g[Pick(s)] + f[s \ {Pick(s)}]]

\* Sets of at most so many elements have partial sums.
LEMMA PartialExists ==
    ASSUME NEW g, NEW S, IsFiniteSet(S)
    PROVE  \E f : IsPartial(f, g, SUBSET S)
  <1> DEFINE Upto(T) == {s \in SUBSET S : Cardinality(s) <= Cardinality(T)}
             P == {T \in SUBSET S : \E f : IsPartial(f, g, Upto(T))}
  <1>1. \A s \in SUBSET S : IsFiniteSet(s) /\ Cardinality(s) \in Nat
    BY FS_Subset, FS_CardinalityType
  <1>2. ASSUME NEW T \in SUBSET S, \A U \in SUBSET T : U # T => U \in P
        PROVE  T \in P
    <2>1. CASE T = {}
      <3>1. Upto(T) = {{}}
        BY <1>1, <2>1, FS_EmptySet
      <3>2. IsPartial([s \in {{}} |-> 0], g, {{}})
        BY DEF IsPartial
      <3>3. QED
        BY <3>1, <3>2
    <2>2. CASE T # {}
      <3> PICK x \in T : TRUE
        BY <2>2
      <3> DEFINE U == T \ {x}
      <3>1. U \in SUBSET T /\ U # T /\ U \in SUBSET S
        OBVIOUS
      <3>2. Cardinality(U) = Cardinality(T) - 1
        BY <1>1, FS_RemoveElement
      <3>3. PICK f : IsPartial(f, g, Upto(U))
        BY <1>2, <3>1
      <3> HIDE DEF U
      <3> DEFINE h == [s \in Upto(T) |-> IF s = {} THEN 0 ELSE g[Pick(s)] + f[s \ {Pick(s)}]]
      <3>4. ASSUME NEW s \in Upto(T), s # {}
            PROVE  s \ {Pick(s)} \in Upto(U)
        <4>1. Pick(s) \in s
          BY <3>4 DEF Pick
        <4>2. Cardinality(s \ {Pick(s)}) = Cardinality(s) - 1
          BY <1>1, <4>1, FS_RemoveElement
        <4>3. QED
          BY <1>1, <3>1, <3>2, <4>2
      <3>5. \A s \in Upto(U) : s \in Upto(T) /\ h[s] = f[s]
        <4>1. \A s \in Upto(U) : s \in Upto(T)
          BY <1>1, <3>1, <3>2
        <4>2. \A s \in Upto(U) : f[s] = IF s = {} THEN 0 ELSE g[Pick(s)] + f[s \ {Pick(s)}]
          BY <3>3 DEF IsPartial
        <4>3. QED
          BY <4>1, <4>2
      <3>6. \A s \in Upto(T) : s # {} => h[s \ {Pick(s)}] = f[s \ {Pick(s)}]
        BY <3>4, <3>5
      <3>7. h = [s \in Upto(T) |-> IF s = {} THEN 0 ELSE g[Pick(s)] + h[s \ {Pick(s)}]]
        BY <3>6
      <3>8. QED
        BY <3>7 DEF IsPartial
    <2>3. QED
      BY <2>1, <2>2
  <1>3. S \in P
    <2> HIDE DEF P
    <2>1. QED
      BY <1>2, SubsetInduction
  <1>4. Upto(S) = SUBSET S
    BY <1>1, FS_Subset
  <1>5. QED
    BY <1>3, <1>4

\* What the sum is, for a given order.
Partial(g, S) == CHOOSE f : IsPartial(f, g, SUBSET S)

LEMMA SumIsPartial ==
    ASSUME NEW g, NEW S
    PROVE  SumFunctionOnSet(g, S) = Partial(g, S)[S]
  BY DEF SumFunctionOnSet, FoldFunctionOnSet, MapThenFoldSet, Partial, IsPartial, Pick

\* The partial sums of a set are those of its subsets.
LEMMA PartialSame ==
    ASSUME NEW g, NEW S, IsFiniteSet(S), NEW T \in SUBSET S
    PROVE  Partial(g, S)[T] = Partial(g, T)[T]
  <1> DEFINE f == Partial(g, S)
             h == Partial(g, T)
             P == {U \in SUBSET T : f[U] = h[U]}
  <1>1. IsFiniteSet(T)
    BY FS_Subset
  <1>2. IsPartial(f, g, SUBSET S) /\ IsPartial(h, g, SUBSET T)
    BY <1>1, PartialExists DEF Partial
  <1> HIDE DEF f, h
  <1>3. ASSUME NEW U \in SUBSET T, \A V \in SUBSET U : V # U => V \in P
        PROVE  U \in P
    <2>1. /\ f[U] = IF U = {} THEN 0 ELSE g[Pick(U)] + f[U \ {Pick(U)}]
          /\ h[U] = IF U = {} THEN 0 ELSE g[Pick(U)] + h[U \ {Pick(U)}]
      BY <1>2 DEF IsPartial
    <2>2. U # {} => U \ {Pick(U)} \in P
      BY <1>3 DEF Pick
    <2>3. QED
      BY <2>1, <2>2
  <1>4. T \in P
    <2> HIDE DEF P
    <2>1. QED
      BY <1>1, <1>3, SubsetInduction
  <1>5. QED
    BY <1>4 DEF f, h

\* Nothing adds up to nothing; else the first element, and the others.
LEMMA SumPick ==
    ASSUME NEW g, NEW S, IsFiniteSet(S)
    PROVE  SumFunctionOnSet(g, S) =
              IF S = {} THEN 0 ELSE g[Pick(S)] + SumFunctionOnSet(g, S \ {Pick(S)})
  <1>1. IsPartial(Partial(g, S), g, SUBSET S)
    BY PartialExists DEF Partial
  <1>2. Partial(g, S)[S] = IF S = {} THEN 0 ELSE g[Pick(S)] + Partial(g, S)[S \ {Pick(S)}]
    BY <1>1 DEF IsPartial
  <1>3. Partial(g, S)[S \ {Pick(S)}] = Partial(g, S \ {Pick(S)})[S \ {Pick(S)}]
    BY PartialSame
  <1>4. QED
    BY <1>2, <1>3, SumIsPartial

-----------------------------------------------------------------------------
(* What the proofs about the models use *)

\* A sum of no numbers is zero, and any element may be taken first.
LEMMA SumEmpty == ASSUME NEW g PROVE SumFunctionOnSet(g, {}) = 0
  BY SumPick, FS_EmptySet

\* A sum of integers is one.
LEMMA SumInt ==
    ASSUME NEW S, IsFiniteSet(S), NEW g, \A s \in S : g[s] \in Int
    PROVE  SumFunctionOnSet(g, S) \in Int
  <1> DEFINE P == {T \in SUBSET S : SumFunctionOnSet(g, T) \in Int}
  <1>1. ASSUME NEW T \in SUBSET S, \A U \in SUBSET T : U # T => U \in P
        PROVE  T \in P
    <2>1. IsFiniteSet(T)
      BY FS_Subset
    <2>2. CASE T = {}
      BY <2>2, SumEmpty
    <2>3. CASE T # {}
      <3>1. Pick(T) \in S /\ T \ {Pick(T)} \in P
        BY <1>1, <2>3 DEF Pick
      <3>2. SumFunctionOnSet(g, T) = g[Pick(T)] + SumFunctionOnSet(g, T \ {Pick(T)})
        BY <2>1, <2>3, SumPick
      <3>3. QED
        BY <3>1, <3>2
    <2>4. QED
      BY <2>2, <2>3
  <1>2. S \in P
    <2> HIDE DEF P
    <2>1. QED
      BY <1>1, SubsetInduction
  <1>3. QED
    BY <1>2

LEMMA SumRemove ==
    ASSUME NEW S, IsFiniteSet(S), NEW g, \A s \in S : g[s] \in Int, NEW x \in S
    PROVE  SumFunctionOnSet(g, S) = g[x] + SumFunctionOnSet(g, S \ {x})
  <1> DEFINE Sum(T) == SumFunctionOnSet(g, T)
             P == {T \in SUBSET S : \A y \in T : Sum(T) = g[y] + Sum(T \ {y})}
  <1>0. \A T \in SUBSET S : IsFiniteSet(T) /\ Sum(T) \in Int
    BY FS_Subset, SumInt
  <1>1. ASSUME NEW T \in SUBSET S, \A U \in SUBSET T : U # T => U \in P
        PROVE  T \in P
    <2> SUFFICES ASSUME NEW y \in T PROVE Sum(T) = g[y] + Sum(T \ {y})
      OBVIOUS
    <2> DEFINE c == Pick(T)
    <2>1. c \in T /\ Sum(T) = g[c] + Sum(T \ {c})
      BY <1>0, SumPick DEF Pick
    <2> HIDE DEF c
    <2>2. CASE y # c
      <3>1. T \ {c} \in P /\ T \ {y} \in P
        BY <1>1, <2>1
      <3>2. Sum(T \ {c}) = g[y] + Sum((T \ {c}) \ {y})
        BY <2>2, <3>1
      <3>3. Sum(T \ {y}) = g[c] + Sum((T \ {y}) \ {c})
        BY <2>1, <2>2, <3>1
      <3>4. (T \ {c}) \ {y} = (T \ {y}) \ {c}
        OBVIOUS
      <3>5. g[y] \in Int /\ g[c] \in Int /\ Sum((T \ {y}) \ {c}) \in Int
        BY <1>0, <2>1
      <3>6. \A i, j, n \in Int : i + (j + n) = j + (i + n)
        OBVIOUS
      <3> HIDE DEF Sum
      <3>7. g[c] + (g[y] + Sum((T \ {y}) \ {c})) = g[y] + (g[c] + Sum((T \ {y}) \ {c}))
        BY <3>5, <3>6
      <3>8. QED
        BY <2>1, <3>2, <3>3, <3>4, <3>7
    <2>3. QED
      BY <2>1, <2>2
  <1>2. S \in P
    <2> HIDE DEF P
    <2>1. QED
      BY <1>1, SubsetInduction
  <1>3. QED
    BY <1>2

\* The sum of two functions is the sum of their sums.
LEMMA SumPlus ==
    ASSUME NEW S, IsFiniteSet(S), NEW g, NEW h, NEW k,
           \A s \in S : g[s] \in Int /\ h[s] \in Int /\ k[s] = g[s] + h[s]
    PROVE  SumFunctionOnSet(k, S) = SumFunctionOnSet(g, S) + SumFunctionOnSet(h, S)
  <1> DEFINE P == {T \in SUBSET S :
                     SumFunctionOnSet(k, T) = SumFunctionOnSet(g, T) + SumFunctionOnSet(h, T)}
  <1>1. ASSUME NEW T \in SUBSET S, \A U \in SUBSET T : U # T => U \in P
        PROVE  T \in P
    <2>1. IsFiniteSet(T) /\ IsFiniteSet(T \ {Pick(T)})
      BY FS_Subset
    <2>2. CASE T = {}
      BY <2>2, SumEmpty
    <2>3. CASE T # {}
      <3> DEFINE c == Pick(T)
                 U == T \ {c}
      <3>1. c \in S /\ U \in P
        BY <1>1, <2>3 DEF Pick
      <3>2. /\ SumFunctionOnSet(g, T) = g[c] + SumFunctionOnSet(g, U)
            /\ SumFunctionOnSet(h, T) = h[c] + SumFunctionOnSet(h, U)
            /\ SumFunctionOnSet(k, T) = k[c] + SumFunctionOnSet(k, U)
        BY <2>1, <2>3, SumPick
      <3>3. SumFunctionOnSet(g, U) \in Int /\ SumFunctionOnSet(h, U) \in Int
        BY <2>1, SumInt
      <3>4. g[c] \in Int /\ h[c] \in Int /\ k[c] = g[c] + h[c]
        BY <3>1
      <3> HIDE DEF c, U
      <3>5. QED
        BY <3>1, <3>2, <3>3, <3>4
    <2>4. QED
      BY <2>2, <2>3
  <1>2. S \in P
    <2> HIDE DEF P
    <2>1. QED
      BY <1>1, SubsetInduction
  <1>3. QED
    BY <1>2

\* Numbers that are not negative add up to no less than any of them.
LEMMA SumNat ==
    ASSUME NEW S, IsFiniteSet(S), NEW g, \A s \in S : g[s] \in Nat
    PROVE  /\ SumFunctionOnSet(g, S) \in Nat
           /\ \A x \in S : g[x] <= SumFunctionOnSet(g, S)
  <1> DEFINE P == {T \in SUBSET S : SumFunctionOnSet(g, T) \in Nat}
  <1>1. ASSUME NEW T \in SUBSET S, \A U \in SUBSET T : U # T => U \in P
        PROVE  T \in P
    <2>1. IsFiniteSet(T)
      BY FS_Subset
    <2>2. CASE T = {}
      BY <2>2, SumEmpty
    <2>3. CASE T # {}
      <3>1. Pick(T) \in S /\ T \ {Pick(T)} \in P
        BY <1>1, <2>3 DEF Pick
      <3>2. SumFunctionOnSet(g, T) = g[Pick(T)] + SumFunctionOnSet(g, T \ {Pick(T)})
        BY <2>1, <2>3, SumPick
      <3>3. QED
        BY <3>1, <3>2
    <2>4. QED
      BY <2>2, <2>3
  <1>2. \A T \in SUBSET S : T \in P
    <2> HIDE DEF P
    <2>1. QED
      BY <1>1, SubsetInduction
  <1>3. ASSUME NEW x \in S PROVE g[x] <= SumFunctionOnSet(g, S)
    <2>1. SumFunctionOnSet(g, S) = g[x] + SumFunctionOnSet(g, S \ {x})
      BY SumRemove
    <2>2. SumFunctionOnSet(g, S \ {x}) \in Nat /\ g[x] \in Nat
      BY <1>2
    <2>3. QED
      BY <2>1, <2>2
  <1>4. QED
    BY <1>2, <1>3

\* Zeros add up to zero.
LEMMA SumZero ==
    ASSUME NEW S, IsFiniteSet(S), NEW g, \A s \in S : g[s] = 0
    PROVE  SumFunctionOnSet(g, S) = 0
  <1>1. SumFunctionOnSet(g, S) = SumFunctionOnSet(g, S) + SumFunctionOnSet(g, S)
    BY SumPlus
  <1>2. SumFunctionOnSet(g, S) \in Int
    BY SumInt
  <1>3. \A n \in Int : n = n + n => n = 0
    OBVIOUS
  <1>4. QED
    BY <1>1, <1>2, <1>3

\* Functions that agree on the set have the same sum.
LEMMA SumSame ==
    ASSUME NEW S, IsFiniteSet(S), NEW g, NEW h,
           \A s \in S : g[s] \in Int /\ h[s] = g[s]
    PROVE  SumFunctionOnSet(h, S) = SumFunctionOnSet(g, S)
  <1> DEFINE z == [s \in S |-> 0]
  <1>1. SumFunctionOnSet(h, S) = SumFunctionOnSet(g, S) + SumFunctionOnSet(z, S)
    BY SumPlus
  <1>2. SumFunctionOnSet(g, S) \in Int /\ SumFunctionOnSet(z, S) = 0
    BY SumInt, SumZero
  <1>3. QED
    BY <1>1, <1>2

\* Where one number changes, the sum changes by as much.
LEMMA SumChange ==
    ASSUME NEW S, IsFiniteSet(S), NEW g, NEW h, NEW x \in S,
           \A s \in S : g[s] \in Int /\ h[s] \in Int /\ (s # x => h[s] = g[s])
    PROVE  SumFunctionOnSet(h, S) = SumFunctionOnSet(g, S) + h[x] - g[x]
  <1>1. /\ SumFunctionOnSet(h, S) = h[x] + SumFunctionOnSet(h, S \ {x})
        /\ SumFunctionOnSet(g, S) = g[x] + SumFunctionOnSet(g, S \ {x})
    BY SumRemove
  <1>2. IsFiniteSet(S \ {x})
    BY FS_RemoveElement
  <1>3. SumFunctionOnSet(h, S \ {x}) = SumFunctionOnSet(g, S \ {x})
    BY <1>2, SumSame
  <1>4. SumFunctionOnSet(g, S \ {x}) \in Int
    BY <1>2, SumInt
  <1>5. QED
    BY <1>1, <1>3, <1>4

\* A sum over a part is one over the whole, the rest counting for nothing.
LEMMA SumPart ==
    ASSUME NEW S, IsFiniteSet(S), NEW T \in SUBSET S, NEW g, NEW h,
           \A s \in S : g[s] \in Int /\ h[s] = IF s \in T THEN g[s] ELSE 0
    PROVE  SumFunctionOnSet(g, T) = SumFunctionOnSet(h, S)
  <1> DEFINE P == {U \in SUBSET S : SumFunctionOnSet(g, U \cap T) = SumFunctionOnSet(h, U)}
  <1>1. ASSUME NEW U \in SUBSET S, \A V \in SUBSET U : V # U => V \in P
        PROVE  U \in P
    <2>1. \A V \in SUBSET S : IsFiniteSet(V)
      BY FS_Subset
    <2>2. CASE U = {}
      BY <2>2, SumEmpty
    <2>3. CASE U # {}
      <3> PICK c \in U : TRUE
        BY <2>3
      <3> DEFINE V == U \ {c}
      <3>1. V \in P
        BY <1>1
      <3>2. SumFunctionOnSet(h, U) = h[c] + SumFunctionOnSet(h, V)
        <4>1. \A s \in U : h[s] \in Int
          OBVIOUS
        <4>2. QED
          BY <2>1, <4>1, SumRemove
      <3>3. CASE c \in T
        <4>1. SumFunctionOnSet(g, U \cap T) = g[c] + SumFunctionOnSet(g, (U \cap T) \ {c})
          BY <2>1, <3>3, SumRemove
        <4>2. (U \cap T) \ {c} = V \cap T
          OBVIOUS
        <4>3. QED
          BY <3>1, <3>2, <3>3, <4>1, <4>2
      <3>4. CASE c \notin T
        <4>1. U \cap T = V \cap T /\ h[c] = 0
          BY <3>4
        <4>2. SumFunctionOnSet(h, V) \in Int
          <5>1. \A s \in V : h[s] \in Int
            OBVIOUS
          <5>2. QED
            BY <2>1, <5>1, SumInt
        <4>3. SumFunctionOnSet(h, U) = SumFunctionOnSet(h, V)
          BY <3>2, <4>1, <4>2
        <4>4. QED
          BY <3>1, <4>1, <4>3
      <3>5. QED
        BY <3>3, <3>4
    <2>4. QED
      BY <2>2, <2>3
  <1>2. S \in P
    <2> HIDE DEF P
    <2>1. QED
      BY <1>1, SubsetInduction
  <1>3. S \cap T = T
    OBVIOUS
  <1>4. QED
    BY <1>2, <1>3

\* Smaller numbers add up to less.
LEMMA SumMonotone ==
    ASSUME NEW S, IsFiniteSet(S), NEW g, NEW h,
           \A s \in S : g[s] \in Int /\ h[s] \in Int /\ g[s] <= h[s]
    PROVE  SumFunctionOnSet(g, S) <= SumFunctionOnSet(h, S)
  <1> DEFINE d == [s \in S |-> h[s] - g[s]]
  <1>1. SumFunctionOnSet(h, S) = SumFunctionOnSet(g, S) + SumFunctionOnSet(d, S)
    BY SumPlus
  <1>2. SumFunctionOnSet(d, S) \in Nat
    BY SumNat
  <1>3. SumFunctionOnSet(g, S) \in Int
    BY SumInt
  <1> HIDE DEF d
  <1>4. QED
    BY <1>1, <1>2, <1>3

\* A common factor may be taken out of a sum.
IsMultiple(h, c, g, S) == \A s \in S : g[s] \in Int /\ h[s] = c * g[s]

LEMMA SumScale ==
    ASSUME NEW S, IsFiniteSet(S), NEW c \in Int, NEW g, NEW h, IsMultiple(h, c, g, S)
    PROVE  SumFunctionOnSet(h, S) = c * SumFunctionOnSet(g, S)
  <1> DEFINE P == {T \in SUBSET S : SumFunctionOnSet(h, T) = c * SumFunctionOnSet(g, T)}
  <1>1. ASSUME NEW T \in SUBSET S, \A U \in SUBSET T : U # T => U \in P
        PROVE  T \in P
    <2>1. IsFiniteSet(T) /\ IsFiniteSet(T \ {Pick(T)})
      BY FS_Subset
    <2>2. CASE T = {}
      <3>1. SumFunctionOnSet(h, T) = 0 /\ SumFunctionOnSet(g, T) = 0
        BY <2>2, SumEmpty
      <3>2. QED
        BY <3>1
    <2>3. CASE T # {}
      <3> DEFINE x == Pick(T)
                 U == T \ {x}
      <3>1. x \in S /\ U \in P
        BY <1>1, <2>3 DEF Pick
      <3>2. /\ SumFunctionOnSet(g, T) = g[x] + SumFunctionOnSet(g, U)
            /\ SumFunctionOnSet(h, T) = h[x] + SumFunctionOnSet(h, U)
        BY <2>1, <2>3, SumPick
      <3>3. SumFunctionOnSet(g, U) \in Int
        <4>1. \A s \in U : g[s] \in Int
          BY DEF IsMultiple
        <4>2. QED
          BY <2>1, <4>1, SumInt
      <3>4. g[x] \in Int /\ h[x] = c * g[x]
        BY <3>1 DEF IsMultiple
      <3>5. \A i, j \in Int : c * i + c * j = c * (i + j)
        OBVIOUS
      <3>6. SumFunctionOnSet(h, U) = c * SumFunctionOnSet(g, U)
        BY <3>1
      <3>7. SumFunctionOnSet(h, T) = c * (g[x] + SumFunctionOnSet(g, U))
        BY <3>2, <3>3, <3>4, <3>5, <3>6
      <3>8. QED
        BY <3>2, <3>7
    <2>4. QED
      BY <2>2, <2>3
  <1>2. S \in P
    <2> HIDE DEF P
    <2>1. QED
      BY <1>1, SubsetInduction
  <1>3. QED
    BY <1>2

\* Ones count.
LEMMA SumOnes ==
    ASSUME NEW S, IsFiniteSet(S), NEW g, \A s \in S : g[s] = 1
    PROVE  SumFunctionOnSet(g, S) = Cardinality(S)
  <1> DEFINE P == {T \in SUBSET S : SumFunctionOnSet(g, T) = Cardinality(T)}
  <1>1. ASSUME NEW T \in SUBSET S, \A U \in SUBSET T : U # T => U \in P
        PROVE  T \in P
    <2>1. IsFiniteSet(T) /\ Cardinality(T) \in Nat
      BY FS_Subset, FS_CardinalityType
    <2>2. CASE T = {}
      BY <2>2, SumEmpty, FS_EmptySet
    <2>3. CASE T # {}
      <3>1. Pick(T) \in T /\ T \ {Pick(T)} \in P
        BY <1>1, <2>3 DEF Pick
      <3>2. SumFunctionOnSet(g, T) = 1 + SumFunctionOnSet(g, T \ {Pick(T)})
        BY <2>1, <2>3, <3>1, SumPick
      <3>3. Cardinality(T \ {Pick(T)}) = Cardinality(T) - 1
        BY <2>1, <3>1, FS_RemoveElement
      <3>4. QED
        BY <2>1, <3>1, <3>2, <3>3
    <2>4. QED
      BY <2>2, <2>3
  <1>2. S \in P
    <2> HIDE DEF P
    <2>1. QED
      BY <1>1, SubsetInduction
  <1>3. QED
    BY <1>2

\* Sums over the parts a set is divided into add up to the sum over the set.
IsFibers(f, Y, g, to, S) ==
    /\ \A s \in S : g[s] \in Int /\ to[s] \in Y
    /\ \A y \in Y : f[y] = SumFunctionOnSet(g, {s \in S : to[s] = y})

LEMMA SumFibers ==
    ASSUME NEW S, IsFiniteSet(S), NEW Y, IsFiniteSet(Y), NEW g, NEW to, NEW f,
           IsFibers(f, Y, g, to, S)
    PROVE  SumFunctionOnSet(f, Y) = SumFunctionOnSet(g, S)
  <1> DEFINE Part(T) == [y \in Y |-> SumFunctionOnSet(g, {s \in T : to[s] = y})]
             P == {T \in SUBSET S : SumFunctionOnSet(Part(T), Y) = SumFunctionOnSet(g, T)}
  <1>0. /\ \A T \in SUBSET S : IsFiniteSet(T)
        /\ \A s \in S : g[s] \in Int /\ to[s] \in Y
        /\ \A y \in Y : f[y] = SumFunctionOnSet(g, {s \in S : to[s] = y})
    BY FS_Subset DEF IsFibers
  <1>i. \A T \in SUBSET S, y \in Y : Part(T)[y] \in Int
    <2> TAKE T \in SUBSET S, y \in Y
    <2>1. {s \in T : to[s] = y} \in SUBSET S
      OBVIOUS
    <2>2. QED
      BY <1>0, <2>1, SumInt
  <1>1. ASSUME NEW T \in SUBSET S, \A U \in SUBSET T : U # T => U \in P
        PROVE  T \in P
    <2>2. CASE T = {}
      <3>1. \A y \in Y : Part(T)[y] = 0
        BY <2>2, SumEmpty
      <3>2. SumFunctionOnSet(Part(T), Y) = 0
        <4> HIDE DEF Part
        <4>1. QED
          BY <3>1, SumZero
      <3>3. QED
        BY <2>2, <3>2, SumEmpty
    <2>3. CASE T # {}
      <3>1. PICK x \in T : TRUE
        BY <2>3
      <3> DEFINE U == T \ {x}
      <3>2. U \in P
        BY <1>1, <3>1
      <3>3. SumFunctionOnSet(g, T) = g[x] + SumFunctionOnSet(g, U)
        BY <1>0, <3>1, SumRemove
      <3>4. \A y \in Y : y # to[x] => Part(T)[y] = Part(U)[y]
        <4> TAKE y \in Y
        <4>1. y # to[x] => {s \in T : to[s] = y} = {s \in U : to[s] = y}
          OBVIOUS
        <4>2. QED
          BY <4>1
      <3>5. Part(T)[to[x]] = g[x] + Part(U)[to[x]]
        <4> DEFINE F == {s \in T : to[s] = to[x]}
        <4>1. F \in SUBSET S /\ x \in F /\ F \ {x} = {s \in U : to[s] = to[x]}
          BY <3>1
        <4> HIDE DEF F
        <4>2. SumFunctionOnSet(g, F) = g[x] + SumFunctionOnSet(g, F \ {x})
          BY <1>0, <4>1, SumRemove
        <4>3. to[x] \in Y
          BY <1>0, <3>1
        <4>4. QED
          BY <4>1, <4>2, <4>3 DEF F
      <3> DEFINE p == Part(T)
                 q == Part(U)
      <3>6. \A y \in Y : p[y] \in Int /\ q[y] \in Int
        BY <1>i
      <3> HIDE DEF p, q
      <3>7. SumFunctionOnSet(p, Y) = SumFunctionOnSet(q, Y) + p[to[x]] - q[to[x]]
        <4>1. to[x] \in Y
          BY <1>0, <3>1
        <4>2. \A y \in Y : q[y] \in Int /\ p[y] \in Int /\ (y # to[x] => p[y] = q[y])
          BY <3>4, <3>6 DEF p, q
        <4> DEFINE z == to[x]
        <4> HIDE DEF z
        <4>3. z \in Y /\ \A y \in Y : q[y] \in Int /\ p[y] \in Int /\ (y # z => p[y] = q[y])
          BY <4>1, <4>2 DEF z
        <4> HIDE DEF U, P, Part
        <4>4. SumFunctionOnSet(p, Y) = SumFunctionOnSet(q, Y) + p[z] - q[z]
          BY <4>3, SumChange
        <4>5. QED
          BY <4>4 DEF z
      <3>8. SumFunctionOnSet(g, U) = SumFunctionOnSet(q, Y)
        BY <3>2 DEF q
      <3>9. SumFunctionOnSet(q, Y) \in Int /\ g[x] \in Int /\ q[to[x]] \in Int
        BY <1>0, <3>1, <3>6, SumInt
      <3>10. p[to[x]] = g[x] + q[to[x]]
        BY <3>5 DEF p, q
      <3> HIDE DEF U
      <3>11. SumFunctionOnSet(p, Y) = SumFunctionOnSet(g, T)
        BY <3>3, <3>7, <3>8, <3>9, <3>10
      <3>12. QED
        BY <3>11 DEF p
    <2>4. QED
      BY <2>2, <2>3
  <1>2. S \in P
    <2> HIDE DEF P
    <2>1. QED
      BY <1>1, SubsetInduction
  <1>3. SumFunctionOnSet(Part(S), Y) = SumFunctionOnSet(f, Y)
    <2> DEFINE p == Part(S)
    <2>1. \A y \in Y : p[y] \in Int /\ f[y] = p[y]
      BY <1>0, <1>i
    <2> HIDE DEF p
    <2>2. SumFunctionOnSet(f, Y) = SumFunctionOnSet(p, Y)
      BY <2>1, SumSame
    <2>3. QED
      BY <2>2 DEF p
  <1>4. QED
    BY <1>2, <1>3
=============================================================================
