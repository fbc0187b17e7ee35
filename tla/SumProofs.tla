----------------------------- MODULE SumProofs -----------------------------
(***************************************************************************)
(* Facts about sums over finite sets, as the papers of a batch and the     *)
(* report pages add up amounts and units: an amount per element, in any    *)
(* order, by parts, and element by element.                                *)
(*                                                                         *)
(* They need induction over the set.  It is stated with a set of subsets   *)
(* instead of a predicate, so that a proof can name the set it is about.   *)
(***************************************************************************)
EXTENDS Integers, Functions, FiniteSetTheorems, WellFoundedInduction, TLAPS

(* What holds of a set as soon as it holds of each set with one element    *)
(* less holds of every finite set.                                         *)
LEMMA ByElements ==
    ASSUME NEW S, IsFiniteSet(S), NEW P,
           {} \in P,
           \A T \in SUBSET S : T # {} /\ (\A x \in T : T \ {x} \in P) => T \in P
    PROVE  S \in P
<1> DEFINE Bad == {T \in SUBSET S : T \notin P}
           Less == StrictSubsetOrdering(S)
<1>1. SUFFICES ASSUME S \notin P PROVE FALSE
    OBVIOUS
<1>2. Bad # {} /\ Bad \subseteq FiniteSubsetsOf(S)
    BY <1>1, FS_FiniteSubsetsOfFinite
<1>3. IsWellFoundedOn(Less, FiniteSubsetsOf(S))
    BY FS_StrictSubsetOrderingWellFounded
<1>4. PICK T \in Bad : \A U \in Bad : <<U, T>> \notin Less
    <2> HIDE DEF Bad, Less
    <2> QED BY <1>2, <1>3, WFMin
<1>5. ASSUME NEW x \in T PROVE T \ {x} \in P
    <2>1. <<T \ {x}, T>> \in Less
        BY DEF StrictSubsetOrdering
    <2> QED BY <1>4, <2>1
<1> QED BY <1>4, <1>5

LEMMA FiniteMax ==
    ASSUME NEW S \in SUBSET Int, IsFiniteSet(S), S # {}
    PROVE  \E m \in S : \A x \in S : x <= m
<1> DEFINE P == {T \in SUBSET S : T # {} => \E m \in T : \A x \in T : x <= m}
<1>1. {} \in P
    OBVIOUS
<1>2. ASSUME NEW T \in SUBSET S, T # {}, \A x \in T : T \ {x} \in P PROVE T \in P
    <2>1. PICK y \in T : TRUE
        BY <1>2
    <2>2. CASE T = {y}
        BY <2>2
    <2>3. CASE T # {y}
        <3>1. PICK m \in T \ {y} : \A x \in T \ {y} : x <= m
            BY <1>2, <2>1, <2>3
        <3>2. CASE y <= m
            BY <3>1, <3>2
        <3>3. CASE ~(y <= m)
            <4>1. \A x \in T : x <= y
                BY <3>1, <3>3
            <4> QED BY <2>1, <4>1
        <3> QED BY <3>2, <3>3
    <2> QED BY <2>2, <2>3
<1>3. S \in P
    <2> HIDE DEF P
    <2> QED BY <1>1, <1>2, ByElements
<1> QED BY <1>3

LEMMA CountOfTwo ==
    ASSUME NEW A, NEW B, IsFiniteSet(A), IsFiniteSet(B), A \cap B = {}
    PROVE  /\ IsFiniteSet(A \cup B)
           /\ Cardinality(A \cup B) = Cardinality(A) + Cardinality(B)
<1>1. Cardinality(A) \in Nat /\ Cardinality(B) \in Nat
    BY FS_CardinalityType
<1>2. Cardinality(A \cap B) = 0
    BY FS_EmptySet
<1>3. /\ IsFiniteSet(A \cup B)
      /\ Cardinality(A \cup B) = Cardinality(A) + Cardinality(B) - Cardinality(A \cap B)
    BY FS_Union
<1> QED BY <1>1, <1>2, <1>3

-----------------------------------------------------------------------------
(* The equation that defines a sum.                                        *)

Pick(s) == CHOOSE x \in s : TRUE
Adds(f, S, g) ==
    g = [s \in SUBSET S |-> IF s = {} THEN 0 ELSE f[Pick(s)] + g[s \ {Pick(s)}]]

LEMMA SumIsChosen ==
    \A f, S : SumFunctionOnSet(f, S) = (CHOOSE g : Adds(f, S, g))[S]
BY DEF SumFunctionOnSet, FoldFunctionOnSet, MapThenFoldSet, Adds, Pick

LEMMA SumOfAll == \A f : SumFunction(f) = SumFunctionOnSet(f, DOMAIN f)
BY DEF SumFunction

LEMMA PickIn == \A s : s # {} => Pick(s) \in s
BY DEF Pick

LEMMA AddsUnique ==
    ASSUME NEW S, IsFiniteSet(S), NEW f, NEW g, NEW h, Adds(f, S, g), Adds(f, S, h)
    PROVE  g = h
<1> DEFINE P == {T \in SUBSET S : g[T] = h[T]}
<1>1. ASSUME NEW T \in SUBSET S
      PROVE  /\ g[T] = IF T = {} THEN 0 ELSE f[Pick(T)] + g[T \ {Pick(T)}]
             /\ h[T] = IF T = {} THEN 0 ELSE f[Pick(T)] + h[T \ {Pick(T)}]
    BY DEF Adds
<1>2. {} \in P
    BY <1>1
<1>3. ASSUME NEW T \in SUBSET S PROVE T \in P
    <2>1. IsFiniteSet(T)
        BY FS_Subset
    <2>2. ASSUME NEW U \in SUBSET T, U # {}, \A x \in U : U \ {x} \in P PROVE U \in P
        <3>1. U \ {Pick(U)} \in P /\ U \in SUBSET S
            BY <2>2, PickIn
        <3> QED BY <1>1, <2>2, <3>1
    <2> HIDE DEF P
    <2> QED BY <1>2, <2>1, <2>2, ByElements
<1>4. /\ g = [T \in SUBSET S |-> g[T]] /\ h = [T \in SUBSET S |-> h[T]]
      /\ \A T \in SUBSET S : g[T] = h[T]
    BY <1>3 DEF Adds
<1> QED BY <1>4

LEMMA AddsPart ==
    ASSUME NEW S, NEW f, NEW g, Adds(f, S, g), NEW T \in SUBSET S
    PROVE  Adds(f, T, [s \in SUBSET T |-> g[s]])
<1> DEFINE h == [s \in SUBSET T |-> g[s]]
<1>1. ASSUME NEW s \in SUBSET T
      PROVE  h[s] = IF s = {} THEN 0 ELSE f[Pick(s)] + h[s \ {Pick(s)}]
    <2>1. s \in SUBSET S /\ s \ {Pick(s)} \in SUBSET T
        OBVIOUS
    <2> QED BY <2>1 DEF Adds
<1>2. h = [s \in SUBSET T |-> IF s = {} THEN 0 ELSE f[Pick(s)] + h[s \ {Pick(s)}]]
    BY <1>1
<1> QED BY <1>2 DEF Adds

LEMMA AddsValue ==
    ASSUME NEW S, IsFiniteSet(S), NEW f, NEW g, Adds(f, S, g), NEW T \in SUBSET S
    PROVE  SumFunctionOnSet(f, T) = g[T]
<1>0. IsFiniteSet(T)
    BY FS_Subset
<1>1. Adds(f, T, [s \in SUBSET T |-> g[s]])
    BY AddsPart
<1>2. Adds(f, T, CHOOSE h : Adds(f, T, h))
    BY <1>1
<1>3. (CHOOSE h : Adds(f, T, h)) = [s \in SUBSET T |-> g[s]]
    BY <1>0, <1>1, <1>2, AddsUnique
<1> QED BY <1>3, SumIsChosen

LEMMA AddsExists ==
    ASSUME NEW S, IsFiniteSet(S), NEW f
    PROVE  \E g : Adds(f, S, g)
<1> DEFINE P == {T \in SUBSET S : \E g : Adds(f, T, g)}
           Sum(s) == SumFunctionOnSet(f, s)
           Value(s) == IF s = {} THEN 0 ELSE f[Pick(s)] + Sum(s \ {Pick(s)})
<1>1. {} \in P
    <2> DEFINE g == [s \in SUBSET {} |-> 0]
    <2>1. g = [s \in SUBSET {} |-> IF s = {} THEN 0 ELSE f[Pick(s)] + g[s \ {Pick(s)}]]
        OBVIOUS
    <2> QED BY <2>1 DEF Adds
<1>2. ASSUME NEW T \in SUBSET S, T # {}, \A x \in T : T \ {x} \in P PROVE T \in P
    <2> DEFINE g == [s \in SUBSET T |-> Value(s)]
    <2>1. ASSUME NEW s \in SUBSET T, s # {} PROVE Sum(s \ {Pick(s)}) = g[s \ {Pick(s)}]
        <3> DEFINE p == Pick(s)
                   r == s \ {p}
        <3>1. p \in T
            BY <2>1, PickIn
        <3>2. PICK h : Adds(f, T \ {p}, h)
            BY <1>2, <3>1
        <3>3. IsFiniteSet(T \ {p})
            BY FS_Subset
        <3>4. /\ r \in SUBSET (T \ {p}) /\ r \ {Pick(r)} \in SUBSET (T \ {p})
              /\ r \in SUBSET T
            OBVIOUS
        <3>5. Sum(r) = h[r] /\ Sum(r \ {Pick(r)}) = h[r \ {Pick(r)}]
            BY <3>2, <3>3, <3>4, AddsValue
        <3>6. h[r] = IF r = {} THEN 0 ELSE f[Pick(r)] + h[r \ {Pick(r)}]
            BY <3>2, <3>4 DEF Adds
        <3> QED BY <3>4, <3>5, <3>6
    <2>2. g = [s \in SUBSET T |-> IF s = {} THEN 0 ELSE f[Pick(s)] + g[s \ {Pick(s)}]]
        BY <2>1
    <2> QED BY <2>2 DEF Adds
<1>3. S \in P
    <2> HIDE DEF P
    <2> QED BY <1>1, <1>2, ByElements
<1> QED BY <1>3

LEMMA SumOfNone == \A f : SumFunctionOnSet(f, {}) = 0
<1> SUFFICES ASSUME NEW f PROVE SumFunctionOnSet(f, {}) = 0
    OBVIOUS
<1>1. PICK g : Adds(f, {}, g)
    BY AddsExists, FS_EmptySet
<1>2. SumFunctionOnSet(f, {}) = g[{}]
    BY <1>1, AddsValue, FS_EmptySet
<1> QED BY <1>1, <1>2 DEF Adds

LEMMA SumPicks ==
    ASSUME NEW S, IsFiniteSet(S), S # {}, NEW f
    PROVE  /\ Pick(S) \in S
           /\ SumFunctionOnSet(f, S) = f[Pick(S)] + SumFunctionOnSet(f, S \ {Pick(S)})
<1>1. PICK g : Adds(f, S, g)
    BY AddsExists
<1>2. S \in SUBSET S /\ S \ {Pick(S)} \in SUBSET S
    OBVIOUS
<1>3. SumFunctionOnSet(f, S) = g[S] /\ SumFunctionOnSet(f, S \ {Pick(S)}) = g[S \ {Pick(S)}]
    BY <1>1, <1>2, AddsValue
<1>4. g[S] = f[Pick(S)] + g[S \ {Pick(S)}]
    BY <1>1, <1>2 DEF Adds
<1> QED BY <1>3, <1>4, PickIn

-----------------------------------------------------------------------------
(* Sums of integers.                                                       *)

LEMMA SumIsInt ==
    ASSUME NEW S, IsFiniteSet(S), NEW f, \A x \in S : f[x] \in Int
    PROVE  SumFunctionOnSet(f, S) \in Int
<1> DEFINE P == {T \in SUBSET S : SumFunctionOnSet(f, T) \in Int}
<1>1. {} \in P
    BY SumOfNone
<1>2. ASSUME NEW T \in SUBSET S, T # {}, \A x \in T : T \ {x} \in P PROVE T \in P
    <2>1. IsFiniteSet(T)
        BY FS_Subset
    <2>2. /\ Pick(T) \in T
          /\ SumFunctionOnSet(f, T) = f[Pick(T)] + SumFunctionOnSet(f, T \ {Pick(T)})
        BY <1>2, <2>1, SumPicks
    <2> QED BY <1>2, <2>2
<1>3. S \in P
    <2> HIDE DEF P
    <2> QED BY <1>1, <1>2, ByElements
<1> QED BY <1>3

(* The order does not matter.                                              *)
LEMMA SumTakesOut ==
    ASSUME NEW S, IsFiniteSet(S), NEW f, \A x \in S : f[x] \in Int, NEW x \in S
    PROVE  SumFunctionOnSet(f, S) = f[x] + SumFunctionOnSet(f, S \ {x})
<1> DEFINE Sum(T) == SumFunctionOnSet(f, T)
           P == {T \in SUBSET S : \A y \in T : Sum(T) = f[y] + Sum(T \ {y})}
<1>1. {} \in P
    OBVIOUS
<1>2. ASSUME NEW T \in SUBSET S, T # {}, \A y \in T : T \ {y} \in P PROVE T \in P
    <2> DEFINE p == Pick(T)
    <2>1. \A U \in SUBSET S : IsFiniteSet(U) /\ Sum(U) \in Int
        BY FS_Subset, SumIsInt
    <2>2. p \in T /\ Sum(T) = f[p] + Sum(T \ {p})
        BY <1>2, <2>1, SumPicks
    <2>3. ASSUME NEW y \in T, y # p PROVE Sum(T) = f[y] + Sum(T \ {y})
        <3> DEFINE r == T \ {p, y}
        <3>1. (T \ {p}) \ {y} = r /\ (T \ {y}) \ {p} = r /\ r \in SUBSET S
            OBVIOUS
        <3>2. Sum(T \ {p}) = f[y] + Sum(r)
            BY <1>2, <2>2, <2>3, <3>1
        <3>3. Sum(T \ {y}) = f[p] + Sum(r)
            BY <1>2, <2>2, <2>3, <3>1
        <3>4. f[y] \in Int /\ f[p] \in Int /\ Sum(r) \in Int
            BY <2>1, <2>2, <3>1
        <3> HIDE DEF Sum, r, p
        <3> QED BY <2>2, <3>2, <3>3, <3>4
    <2> QED BY <2>2, <2>3
<1>3. S \in P
    <2> HIDE DEF P
    <2> QED BY <1>1, <1>2, ByElements
<1> QED BY <1>3

LEMMA SumSame ==
    ASSUME NEW S, IsFiniteSet(S), NEW f, NEW g, \A x \in S : f[x] = g[x]
    PROVE  SumFunctionOnSet(f, S) = SumFunctionOnSet(g, S)
<1> DEFINE P == {T \in SUBSET S : SumFunctionOnSet(f, T) = SumFunctionOnSet(g, T)}
<1>1. {} \in P
    BY SumOfNone
<1>2. ASSUME NEW T \in SUBSET S, T # {}, \A x \in T : T \ {x} \in P PROVE T \in P
    <2>1. IsFiniteSet(T)
        BY FS_Subset
    <2>2. /\ Pick(T) \in T
          /\ SumFunctionOnSet(f, T) = f[Pick(T)] + SumFunctionOnSet(f, T \ {Pick(T)})
          /\ SumFunctionOnSet(g, T) = g[Pick(T)] + SumFunctionOnSet(g, T \ {Pick(T)})
        BY <1>2, <2>1, SumPicks
    <2> QED BY <1>2, <2>2
<1>3. S \in P
    <2> HIDE DEF P
    <2> QED BY <1>1, <1>2, ByElements
<1> QED BY <1>3

LEMMA SumPlus ==
    ASSUME NEW S, IsFiniteSet(S), NEW f, NEW g, NEW h,
           \A x \in S : f[x] \in Int /\ g[x] \in Int /\ h[x] = f[x] + g[x]
    PROVE  SumFunctionOnSet(h, S) = SumFunctionOnSet(f, S) + SumFunctionOnSet(g, S)
<1> DEFINE P == {T \in SUBSET S :
                   SumFunctionOnSet(h, T) = SumFunctionOnSet(f, T) + SumFunctionOnSet(g, T)}
<1>1. {} \in P
    BY SumOfNone
<1>2. ASSUME NEW T \in SUBSET S, T # {}, \A x \in T : T \ {x} \in P PROVE T \in P
    <2> DEFINE p == Pick(T)
               F == SumFunctionOnSet(f, T \ {p})
               G == SumFunctionOnSet(g, T \ {p})
    <2>1. IsFiniteSet(T) /\ IsFiniteSet(T \ {p})
        BY FS_Subset
    <2>2. /\ p \in T
          /\ SumFunctionOnSet(f, T) = f[p] + F
          /\ SumFunctionOnSet(g, T) = g[p] + G
          /\ SumFunctionOnSet(h, T) = h[p] + SumFunctionOnSet(h, T \ {p})
        BY <1>2, <2>1, SumPicks
    <2>3. F \in Int /\ G \in Int
        BY <2>1, SumIsInt
    <2>4. SumFunctionOnSet(h, T \ {p}) = F + G
        BY <1>2, <2>2
    <2>5. f[p] \in Int /\ g[p] \in Int /\ h[p] = f[p] + g[p]
        BY <2>2
    <2>6. SumFunctionOnSet(h, T) = (f[p] + F) + (g[p] + G)
        <3> HIDE DEF F, G, p
        <3> QED BY <2>2, <2>3, <2>4, <2>5
    <2> QED BY <2>2, <2>6
<1>3. S \in P
    <2> HIDE DEF P
    <2> QED BY <1>1, <1>2, ByElements
<1> QED BY <1>3

LEMMA SumTimes ==
    ASSUME NEW S, IsFiniteSet(S), NEW f, NEW g, NEW c \in {1, -1},
           \A x \in S : f[x] \in Int /\ g[x] = c * f[x]
    PROVE  SumFunctionOnSet(g, S) = c * SumFunctionOnSet(f, S)
<1> DEFINE P == {T \in SUBSET S : SumFunctionOnSet(g, T) = c * SumFunctionOnSet(f, T)}
<1>1. {} \in P
    BY SumOfNone
<1>2. ASSUME NEW T \in SUBSET S, T # {}, \A x \in T : T \ {x} \in P PROVE T \in P
    <2> DEFINE p == Pick(T)
               F == SumFunctionOnSet(f, T \ {p})
    <2>1. IsFiniteSet(T) /\ IsFiniteSet(T \ {p})
        BY FS_Subset
    <2>2. /\ p \in T
          /\ SumFunctionOnSet(f, T) = f[p] + F
          /\ SumFunctionOnSet(g, T) = g[p] + SumFunctionOnSet(g, T \ {p})
        BY <1>2, <2>1, SumPicks
    <2>3. F \in Int /\ f[p] \in Int /\ g[p] = c * f[p]
        BY <2>1, <2>2, SumIsInt
    <2>4. SumFunctionOnSet(g, T \ {p}) = c * F
        BY <1>2, <2>2
    <2>5. SumFunctionOnSet(g, T) = c * (f[p] + F)
        <3> HIDE DEF F, p
        <3> QED BY <2>2, <2>3, <2>4
    <2> QED BY <2>2, <2>5
<1>3. S \in P
    <2> HIDE DEF P
    <2> QED BY <1>1, <1>2, ByElements
<1> QED BY <1>3

LEMMA SumAtMost ==
    ASSUME NEW S, IsFiniteSet(S), NEW f, NEW g,
           \A x \in S : f[x] \in Int /\ g[x] \in Int /\ f[x] <= g[x]
    PROVE  SumFunctionOnSet(f, S) <= SumFunctionOnSet(g, S)
<1> DEFINE P == {T \in SUBSET S : SumFunctionOnSet(f, T) <= SumFunctionOnSet(g, T)}
<1>1. {} \in P
    BY SumOfNone
<1>2. ASSUME NEW T \in SUBSET S, T # {}, \A x \in T : T \ {x} \in P PROVE T \in P
    <2> DEFINE p == Pick(T)
               F == SumFunctionOnSet(f, T \ {p})
               G == SumFunctionOnSet(g, T \ {p})
    <2>1. IsFiniteSet(T) /\ IsFiniteSet(T \ {p})
        BY FS_Subset
    <2>2. /\ p \in T
          /\ SumFunctionOnSet(f, T) = f[p] + F
          /\ SumFunctionOnSet(g, T) = g[p] + G
        BY <1>2, <2>1, SumPicks
    <2>3. F \in Int /\ G \in Int
        BY <2>1, SumIsInt
    <2>4. F <= G /\ f[p] \in Int /\ g[p] \in Int /\ f[p] <= g[p]
        BY <1>2, <2>2
    <2>5. f[p] + F <= g[p] + G
        <3> HIDE DEF F, G, p
        <3> QED BY <2>3, <2>4
    <2> QED BY <2>2, <2>5
<1>3. S \in P
    <2> HIDE DEF P
    <2> QED BY <1>1, <1>2, ByElements
<1> QED BY <1>3

LEMMA SumOfZeros ==
    ASSUME NEW S, IsFiniteSet(S), NEW f, \A x \in S : f[x] = 0
    PROVE  SumFunctionOnSet(f, S) = 0
<1> DEFINE P == {T \in SUBSET S : SumFunctionOnSet(f, T) = 0}
<1>1. {} \in P
    BY SumOfNone
<1>2. ASSUME NEW T \in SUBSET S, T # {}, \A x \in T : T \ {x} \in P PROVE T \in P
    <2>1. IsFiniteSet(T)
        BY FS_Subset
    <2>2. /\ Pick(T) \in T
          /\ SumFunctionOnSet(f, T) = f[Pick(T)] + SumFunctionOnSet(f, T \ {Pick(T)})
        BY <1>2, <2>1, SumPicks
    <2> QED BY <1>2, <2>2
<1>3. S \in P
    <2> HIDE DEF P
    <2> QED BY <1>1, <1>2, ByElements
<1> QED BY <1>3

(* A sum of amounts none of which is negative is at least each of them.    *)
LEMMA SumIsNat ==
    ASSUME NEW S, IsFiniteSet(S), NEW f, \A x \in S : f[x] \in Nat
    PROVE  SumFunctionOnSet(f, S) \in Nat /\ \A x \in S : f[x] <= SumFunctionOnSet(f, S)
<1>1. ASSUME NEW T \in SUBSET S PROVE SumFunctionOnSet(f, T) \in Nat
    <2> DEFINE zero == [x \in T |-> 0]
    <2>1. IsFiniteSet(T)
        BY FS_Subset
    <2>2. SumFunctionOnSet(f, T) \in Int
        BY <2>1, SumIsInt
    <2>3. SumFunctionOnSet(zero, T) = 0
        BY <2>1, SumOfZeros
    <2>4. SumFunctionOnSet(zero, T) <= SumFunctionOnSet(f, T)
        <3>1. \A x \in T : zero[x] \in Int /\ f[x] \in Int /\ zero[x] <= f[x]
            OBVIOUS
        <3> HIDE DEF zero
        <3> QED BY <2>1, <3>1, SumAtMost
    <2> QED BY <2>2, <2>3, <2>4
<1>2. ASSUME NEW x \in S PROVE f[x] <= SumFunctionOnSet(f, S)
    <2>1. SumFunctionOnSet(f, S) = f[x] + SumFunctionOnSet(f, S \ {x})
        BY SumTakesOut
    <2>2. SumFunctionOnSet(f, S \ {x}) \in Nat /\ f[x] \in Nat
        BY <1>1
    <2> QED BY <2>1, <2>2
<1> QED BY <1>1, <1>2

-----------------------------------------------------------------------------
(* Sums by parts.                                                          *)

LEMMA SumOfTwo ==
    ASSUME NEW A, NEW B, IsFiniteSet(A), IsFiniteSet(B), A \cap B = {}, NEW f,
           \A x \in A \cup B : f[x] \in Int
    PROVE  SumFunctionOnSet(f, A \cup B) = SumFunctionOnSet(f, A) + SumFunctionOnSet(f, B)
<1> DEFINE Sum(T) == SumFunctionOnSet(f, T)
           P == {T \in SUBSET B : Sum(A \cup T) = Sum(A) + Sum(T)}
<1>0. \A T \in SUBSET B : IsFiniteSet(T) /\ IsFiniteSet(A \cup T) /\ Sum(T) \in Int
                          /\ Sum(A \cup T) \in Int
    BY FS_Subset, FS_Union, SumIsInt
<1>a. Sum(A) \in Int
    BY SumIsInt
<1>1. {} \in P
    <2>1. A \cup {} = A /\ Sum({}) = 0
        BY SumOfNone
    <2> QED BY <1>a, <2>1
<1>2. ASSUME NEW T \in SUBSET B, T # {}, \A x \in T : T \ {x} \in P PROVE T \in P
    <2> DEFINE p == Pick(T)
               r == T \ {p}
    <2>1. p \in T /\ r \in SUBSET B
        BY <1>2, PickIn
    <2>2. Sum(T) = f[p] + Sum(r)
        BY <1>0, <2>1, SumTakesOut
    <2>3. (A \cup T) \ {p} = A \cup r
        BY <2>1
    <2>4. Sum(A \cup T) = f[p] + Sum(A \cup r)
        <3>1. IsFiniteSet(A \cup T) /\ p \in A \cup T /\ \A x \in A \cup T : f[x] \in Int
            BY <1>0, <2>1
        <3>2. SumFunctionOnSet(f, A \cup T) = f[p] + SumFunctionOnSet(f, (A \cup T) \ {p})
            <4> HIDE DEF p, P
            <4> QED BY <3>1, SumTakesOut
        <3> QED BY <2>3, <3>2
    <2>5. Sum(A \cup r) = Sum(A) + Sum(r)
        BY <1>2, <2>1
    <2>6. f[p] \in Int /\ Sum(r) \in Int
        BY <1>0, <2>1
    <2>7. Sum(A \cup T) = Sum(A) + Sum(T)
        <3> HIDE DEF Sum, r, p
        <3> QED BY <1>a, <2>2, <2>4, <2>5, <2>6
    <2> QED BY <2>7
<1>3. B \in P
    <2> HIDE DEF P
    <2> QED BY <1>1, <1>2, ByElements
<1> QED BY <1>3

(* What adds nothing may be left out.                                      *)
LEMMA SumWithoutZeros ==
    ASSUME NEW S, IsFiniteSet(S), NEW f, \A x \in S : f[x] \in Int,
           NEW T \in SUBSET S, \A x \in S \ T : f[x] = 0
    PROVE  SumFunctionOnSet(f, S) = SumFunctionOnSet(f, T)
<1>1. IsFiniteSet(T) /\ IsFiniteSet(S \ T) /\ T \cup (S \ T) = S /\ T \cap (S \ T) = {}
    BY FS_Subset
<1>2. SumFunctionOnSet(f, S) = SumFunctionOnSet(f, T) + SumFunctionOnSet(f, S \ T)
    BY <1>1, SumOfTwo
<1>3. SumFunctionOnSet(f, S \ T) = 0 /\ SumFunctionOnSet(f, T) \in Int
    BY <1>1, SumOfZeros, SumIsInt
<1> QED BY <1>2, <1>3

(* The parts are those elements that have the same key.                    *)
Part(S, key, k) == {x \in S : key[x] = k}

LEMMA SumByParts ==
    ASSUME NEW S, IsFiniteSet(S), NEW f, \A x \in S : f[x] \in Int,
           NEW K, IsFiniteSet(K), NEW key, \A x \in S : key[x] \in K,
           NEW g, \A k \in K : g[k] = SumFunctionOnSet(f, Part(S, key, k))
    PROVE  SumFunctionOnSet(g, K) = SumFunctionOnSet(f, S)
<1> DEFINE In(L) == {x \in S : key[x] \in L}
           P == {L \in SUBSET K : SumFunctionOnSet(g, L) = SumFunctionOnSet(f, In(L))}
<1>0. \A L : IsFiniteSet(In(L)) /\ SumFunctionOnSet(f, In(L)) \in Int
    BY FS_Subset, SumIsInt
<1>1. {} \in P
    <2>1. In({}) = {}
        OBVIOUS
    <2> QED BY <2>1, SumOfNone
<1>2. ASSUME NEW L \in SUBSET K, L # {}, \A k \in L : L \ {k} \in P PROVE L \in P
    <2> DEFINE p == Pick(L)
               r == L \ {p}
    <2>1. p \in L /\ IsFiniteSet(L)
        BY <1>2, PickIn, FS_Subset
    <2>2. SumFunctionOnSet(g, L) = g[p] + SumFunctionOnSet(g, r)
        BY <1>2, <2>1, SumPicks
    <2>3. In({p}) \cup In(r) = In(L) /\ In({p}) \cap In(r) = {}
        BY <2>1
    <2>4. SumFunctionOnSet(f, In(L))
            = SumFunctionOnSet(f, In({p})) + SumFunctionOnSet(f, In(r))
        <3> HIDE DEF r
        <3>1. \A x \in In({p}) \cup In(r) : f[x] \in Int
            OBVIOUS
        <3>2. IsFiniteSet(In({p})) /\ IsFiniteSet(In(r))
            BY <1>0
        <3> HIDE DEF In, P, p
        <3>3. SumFunctionOnSet(f, In({p}) \cup In(r))
                = SumFunctionOnSet(f, In({p})) + SumFunctionOnSet(f, In(r))
            BY <2>3, <3>1, <3>2, SumOfTwo
        <3> QED BY <2>3, <3>3
    <2>5. In({p}) = Part(S, key, p)
        BY DEF Part
    <2>6. g[p] = SumFunctionOnSet(f, In({p}))
        BY <2>1, <2>5
    <2>7. SumFunctionOnSet(g, r) = SumFunctionOnSet(f, In(r))
        BY <1>2, <2>1
    <2> QED BY <2>2, <2>4, <2>6, <2>7
<1>3. K \in P
    <2> HIDE DEF P
    <2> QED BY <1>1, <1>2, ByElements
<1>4. In(K) = S
    OBVIOUS
<1> QED BY <1>3, <1>4

LEMMA SumOfOnes ==
    ASSUME NEW S, IsFiniteSet(S), NEW f, \A x \in S : f[x] = 1
    PROVE  SumFunctionOnSet(f, S) = Cardinality(S)
<1> DEFINE P == {T \in SUBSET S : SumFunctionOnSet(f, T) = Cardinality(T)}
<1>1. {} \in P
    BY SumOfNone, FS_EmptySet
<1>2. ASSUME NEW T \in SUBSET S, T # {}, \A x \in T : T \ {x} \in P PROVE T \in P
    <2>1. IsFiniteSet(T) /\ Cardinality(T) \in Nat
        BY FS_Subset, FS_CardinalityType
    <2>2. /\ Pick(T) \in T
          /\ SumFunctionOnSet(f, T) = f[Pick(T)] + SumFunctionOnSet(f, T \ {Pick(T)})
        BY <1>2, <2>1, SumPicks
    <2>3. Cardinality(T \ {Pick(T)}) = Cardinality(T) - 1
        BY <2>1, <2>2, FS_RemoveElement
    <2> QED BY <1>2, <2>1, <2>2, <2>3
<1>3. S \in P
    <2> HIDE DEF P
    <2> QED BY <1>1, <1>2, ByElements
<1> QED BY <1>3

LEMMA CountByParts ==
    ASSUME NEW S, IsFiniteSet(S), NEW K, IsFiniteSet(K), NEW key, \A x \in S : key[x] \in K,
           NEW g, \A k \in K : g[k] = Cardinality(Part(S, key, k))
    PROVE  SumFunctionOnSet(g, K) = Cardinality(S)
<1> DEFINE one == [x \in S |-> 1]
<1>1. \A x \in S : one[x] = 1 /\ one[x] \in Int
    OBVIOUS
<1> HIDE DEF one
<1>2. ASSUME NEW k \in K PROVE g[k] = SumFunctionOnSet(one, Part(S, key, k))
    <2>1. IsFiniteSet(Part(S, key, k)) /\ Part(S, key, k) \subseteq S
        BY FS_Subset DEF Part
    <2> QED BY <1>1, <2>1, SumOfOnes
<1>3. SumFunctionOnSet(g, K) = SumFunctionOnSet(one, S)
    BY <1>1, <1>2, SumByParts
<1> QED BY <1>1, <1>3, SumOfOnes

-----------------------------------------------------------------------------
(* Sets that are named by the elements of another one.                     *)

LEMMA NamedSet ==
    ASSUME NEW S, IsFiniteSet(S), NEW m
    PROVE  IsFiniteSet({m[x] : x \in S})
<1> DEFINE T == {m[x] : x \in S}
           h == [x \in S |-> m[x]]
<1>1. h \in Surjection(S, T)
    BY DEF Surjection
<1> QED BY <1>1, FS_Surjection

LEMMA CountNamed ==
    ASSUME NEW S, IsFiniteSet(S), NEW m, \A x, y \in S : m[x] = m[y] => x = y
    PROVE  Cardinality({m[x] : x \in S}) = Cardinality(S)
<1> DEFINE T == {m[x] : x \in S}
           h == [x \in S |-> m[x]]
<1>1. h \in Bijection(S, T)
    BY DEF Bijection, Surjection, Injection, IsInjective
<1> QED BY <1>1, FS_Bijection DEF ExistsBijection

LEMMA SumNamed ==
    ASSUME NEW S, IsFiniteSet(S), NEW m, \A x, y \in S : m[x] = m[y] => x = y,
           NEW f, NEW g, \A x \in S : f[x] \in Int /\ g[m[x]] = f[x]
    PROVE  SumFunctionOnSet(g, {m[x] : x \in S}) = SumFunctionOnSet(f, S)
<1> DEFINE Named(U) == {m[x] : x \in U}
           P == {U \in SUBSET S : SumFunctionOnSet(g, Named(U)) = SumFunctionOnSet(f, U)}
<1>1. {} \in P
    <2>1. Named({}) = {}
        OBVIOUS
    <2> QED BY <2>1, SumOfNone
<1>2. ASSUME NEW U \in SUBSET S, U # {}, \A x \in U : U \ {x} \in P PROVE U \in P
    <2> DEFINE p == Pick(U)
               r == U \ {p}
    <2>1. p \in U /\ IsFiniteSet(U)
        BY <1>2, PickIn, FS_Subset
    <2>2. SumFunctionOnSet(f, U) = f[p] + SumFunctionOnSet(f, r)
        BY <1>2, <2>1, SumPicks
    <2>3. Named(U) \ {m[p]} = Named(r) /\ m[p] \in Named(U)
        BY <2>1
    <2>4. IsFiniteSet(Named(U)) /\ \A y \in Named(U) : g[y] \in Int
        BY <2>1, NamedSet
    <2>5. SumFunctionOnSet(g, Named(U)) = g[m[p]] + SumFunctionOnSet(g, Named(r))
        <3> HIDE DEF Named, r, p
        <3> QED BY <2>3, <2>4, SumTakesOut
    <2>6. SumFunctionOnSet(g, Named(r)) = SumFunctionOnSet(f, r)
        BY <1>2, <2>1
    <2>7. g[m[p]] = f[p]
        BY <2>1
    <2> QED BY <2>2, <2>5, <2>6, <2>7
<1>3. S \in P
    <2> HIDE DEF P
    <2> QED BY <1>1, <1>2, ByElements
<1> QED BY <1>3
=============================================================================
