---------------------------- MODULE SolverProofs ----------------------------
(***************************************************************************)
(* What is proved about a governed solve, for every payload, every set of  *)
(* drafted constraints and whatever solution CP-SAT returns.               *)
(*                                                                         *)
(* Sums over finite sets come first; then what the model is built of, from *)
(* the payload's rows up to the solutions; then the five parts of          *)
(* SolveIsSound and the invariant, SolveInv, that carries them.            *)
(***************************************************************************)
EXTENDS PlanningProofs, GovernedSolver

----------------------------------------------------------------------------
(* Finite sums: SumFunctionOnSet adds the values of a function on a set.     *)

\* A set of sets that has the empty set and takes one more element each time
\* has every finite set of such elements.
LEMMA SetClosed ==
    ASSUME NEW S, IsFiniteSet(S), NEW Q, {} \in Q, \A T \in SUBSET S : \A x \in S \ T : T \in Q => T \cup {x} \in Q
    PROVE  S \in Q
<1>. DEFINE N == {n \in Nat : \A T \in SUBSET S : Cardinality(T) = n => T \in Q}
<1>1. 0 \in N
  <2>1. ASSUME NEW T \in SUBSET S, Cardinality(T) = 0 PROVE T \in Q
    BY <2>1, FS_Subset, FS_EmptySet
  <2>. QED BY <2>1
<1>2. ASSUME NEW n \in Nat, n \in N PROVE n + 1 \in N
  <2>1. ASSUME NEW T \in SUBSET S, Cardinality(T) = n + 1 PROVE T \in Q
    <3>1. IsFiniteSet(T)
      BY FS_Subset
    <3>2. PICK x \in T : TRUE
      BY <2>1, FS_EmptySet
    <3>3. Cardinality(T \ {x}) = (n + 1) - 1
      BY <2>1, <3>1, FS_RemoveElement
    <3>4. T \ {x} \in Q
      BY <1>2, <3>3
    <3>5. (T \ {x}) \cup {x} \in Q /\ (T \ {x}) \cup {x} = T
      BY <3>4
    <3>. QED BY <3>5
  <2>. QED BY <2>1
<1>. HIDE DEF N
<1>3. Nat \subseteq N
  BY <1>1, <1>2, NatClosed
<1>4. Cardinality(S) \in N
  BY <1>3, FS_CardinalityType
<1>. QED BY <1>4 DEF N

Piece(s) == CHOOSE x \in s : TRUE
Added(g, f, s) == IF s = {} THEN 0 ELSE f[Piece(s)] + g[s \ {Piece(s)}]
Accumulates(g, f, S) == g = [s \in SUBSET S |-> Added(g, f, s)]
SumOf(f, S) == SumFunctionOnSet(f, S)

\* The fold of the library, unfolded to a function on subsets.
LEMMA SumIs == ASSUME NEW f, NEW S PROVE SumOf(f, S) = (CHOOSE g : Accumulates(g, f, S))[S]
  BY DEF SumOf, SumFunctionOnSet, FoldFunctionOnSet, MapThenFoldSet, Accumulates, Added, Piece

\* Taking the chosen element out of a finite set leaves one less.
LEMMA PieceTaken ==
    ASSUME NEW s, IsFiniteSet(s), s # {}
    PROVE  /\ Piece(s) \in s /\ IsFiniteSet(s \ {Piece(s)})
           /\ Cardinality(s) \in Nat /\ Cardinality(s) # 0 /\ Cardinality(s \ {Piece(s)}) = Cardinality(s) - 1
<1>1. Piece(s) \in s
  BY DEF Piece
<1>. QED BY <1>1, FS_RemoveElement, FS_CardinalityType, FS_EmptySet

\* The recursion on subsets has a solution, built one element at a time.
LEMMA SumsExist == ASSUME NEW f, NEW S, IsFiniteSet(S) PROVE \E g : Accumulates(g, f, S)
<1>. DEFINE Upto(g, n) == \A s \in SUBSET S : Cardinality(s) <= n => g[s] = Added(g, f, s)
            M == {n \in Nat : \E g : Upto(g, n)}
<1>0. \A s \in SUBSET S : IsFiniteSet(s) /\ Cardinality(s) \in Nat
  BY FS_Subset, FS_CardinalityType
<1>1. 0 \in M
  <2>. DEFINE g == [s \in SUBSET S |-> 0]
  <2>1. ASSUME NEW s \in SUBSET S, Cardinality(s) <= 0 PROVE g[s] = Added(g, f, s)
    <3>1. s = {}
      BY <1>0, <2>1, FS_EmptySet
    <3>. QED BY <3>1 DEF Added
  <2>. QED BY <2>1
<1>2. ASSUME NEW n \in Nat, n \in M PROVE n + 1 \in M
  <2>1. PICK g : Upto(g, n)
    BY <1>2
  <2>. DEFINE h == [s \in SUBSET S |-> IF Cardinality(s) <= n THEN g[s] ELSE Added(g, f, s)]
  <2>2. ASSUME NEW s \in SUBSET S, Cardinality(s) <= n + 1 PROVE h[s] = Added(g, f, s)
    BY <2>1
  <2>3. ASSUME NEW s \in SUBSET S, Cardinality(s) <= n + 1 PROVE Added(g, f, s) = Added(h, f, s)
    <3>1. CASE s = {}
      BY <3>1 DEF Added
    <3>2. CASE s # {}
      <4>1. s \ {Piece(s)} \in SUBSET S /\ Cardinality(s \ {Piece(s)}) <= n
        <5>1. IsFiniteSet(s)
          BY <1>0
        <5>2. Cardinality(s) \in Nat /\ Cardinality(s \ {Piece(s)}) = Cardinality(s) - 1
          BY <3>2, <5>1, PieceTaken
        <5>. QED BY <2>3, <5>2
      <4>2. h[s \ {Piece(s)}] = g[s \ {Piece(s)}]
        BY <4>1
      <4>. QED BY <3>2, <4>2 DEF Added
    <3>. QED BY <3>1, <3>2
  <2>4. Upto(h, n + 1)
    BY <2>2, <2>3
  <2>. HIDE DEF h
  <2>. QED BY <2>4
<1>. HIDE DEF M
<1>3. Nat \subseteq M
  BY <1>1, <1>2, NatClosed
<1>4. Cardinality(S) \in M
  BY <1>3, FS_CardinalityType
<1>5. PICK g : Upto(g, Cardinality(S))
  BY <1>4 DEF M
<1>. DEFINE h == [s \in SUBSET S |-> g[s]]
<1>6. ASSUME NEW s \in SUBSET S PROVE g[s] = Added(h, f, s)
  <2>1. g[s] = Added(g, f, s)
    BY <1>5, FS_Subset
  <2>2. s \ {Piece(s)} \in SUBSET S
    OBVIOUS
  <2>. QED BY <2>1, <2>2 DEF Added
<1>7. h = [s \in SUBSET S |-> Added(h, f, s)]
  BY <1>6
<1>. HIDE DEF h
<1>. QED BY <1>7 DEF Accumulates

\* A solution on a set and one on a subset of it agree there, so any may be chosen.
LEMMA SumsAgree ==
    ASSUME NEW f, NEW S, IsFiniteSet(S), NEW T \in SUBSET S, NEW g, NEW h, Accumulates(g, f, S), Accumulates(h, f, T)
    PROVE  g[T] = h[T]
<1>. DEFINE N == {n \in Nat : \A u \in SUBSET T : Cardinality(u) = n => g[u] = h[u]}
<1>0. \A u \in SUBSET T : IsFiniteSet(u) /\ Cardinality(u) \in Nat /\ g[u] = Added(g, f, u) /\ h[u] = Added(h, f, u)
  <2>1. \A u \in SUBSET S : g[u] = Added(g, f, u)
    BY DEF Accumulates
  <2>2. \A u \in SUBSET T : h[u] = Added(h, f, u)
    BY DEF Accumulates
  <2>3. SUBSET T \subseteq SUBSET S
    OBVIOUS
  <2>. QED BY <2>1, <2>2, <2>3, FS_Subset, FS_CardinalityType
<1>1. 0 \in N
  <2>1. ASSUME NEW u \in SUBSET T, Cardinality(u) = 0 PROVE g[u] = h[u]
    <3>1. u = {}
      BY <1>0, <2>1, FS_EmptySet
    <3>. QED BY <1>0, <3>1 DEF Added
  <2>. QED BY <2>1
<1>2. ASSUME NEW n \in Nat, n \in N PROVE n + 1 \in N
  <2>1. ASSUME NEW u \in SUBSET T, Cardinality(u) = n + 1 PROVE g[u] = h[u]
    <3>1. u # {}
      BY <2>1, FS_EmptySet
    <3>2. u \ {Piece(u)} \in SUBSET T /\ Cardinality(u \ {Piece(u)}) = n
      <4>1. IsFiniteSet(u)
        BY <1>0
      <4>2. Cardinality(u \ {Piece(u)}) = (n + 1) - 1
        BY <2>1, <3>1, <4>1, PieceTaken
      <4>. QED BY <4>2
    <3>3. g[u \ {Piece(u)}] = h[u \ {Piece(u)}]
      BY <1>2, <3>2
    <3>. QED BY <1>0, <3>1, <3>3 DEF Added
  <2>. QED BY <2>1
<1>. HIDE DEF N
<1>3. Nat \subseteq N
  BY <1>1, <1>2, NatClosed
<1>4. Cardinality(T) \in N
  BY <1>0, <1>3
<1>. QED BY <1>4 DEF N

\* The empty sum is 0.
LEMMA SumNone == ASSUME NEW f PROVE SumOf(f, {}) = 0
<1>1. PICK g : Accumulates(g, f, {})
  BY SumsExist, FS_EmptySet
<1>2. Accumulates(CHOOSE k : Accumulates(k, f, {}), f, {})
  BY <1>1
<1>. DEFINE k == CHOOSE k : Accumulates(k, f, {})
<1>. HIDE DEF k
<1>3. k[{}] = Added(k, f, {})
  BY <1>2 DEF Accumulates, k
<1>. QED BY <1>3, SumIs DEF Added, k

\* A sum is the value at its chosen element and the sum of the rest.
LEMMA SumStep ==
    ASSUME NEW f, NEW S, IsFiniteSet(S), S # {}
    PROVE  SumOf(f, S) = f[Piece(S)] + SumOf(f, S \ {Piece(S)})
<1>. DEFINE T == S \ {Piece(S)}
            g == CHOOSE g : Accumulates(g, f, S)
            h == CHOOSE h : Accumulates(h, f, T)
<1>1. IsFiniteSet(T) /\ T \in SUBSET S
  BY FS_Subset
<1>2. Accumulates(g, f, S)
  BY SumsExist
<1>3. Accumulates(h, f, T)
  BY <1>1, SumsExist
<1>4. SumOf(f, S) = g[S] /\ SumOf(f, T) = h[T]
  BY SumIs
<1>. HIDE DEF g, h
<1>5. g[T] = h[T]
  BY <1>1, <1>2, <1>3, SumsAgree
<1>6. g[S] = Added(g, f, S)
  BY <1>2 DEF Accumulates
<1>. QED BY <1>4, <1>5, <1>6 DEF Added

\* A sum of integers is an integer.
LEMMA SumType == ASSUME NEW f, NEW S, IsFiniteSet(S), \A x \in S : f[x] \in Int PROVE SumOf(f, S) \in Int
<1>. DEFINE N == {n \in Nat : \A T \in SUBSET S : Cardinality(T) = n => SumOf(f, T) \in Int}
<1>0. \A T \in SUBSET S : IsFiniteSet(T) /\ Cardinality(T) \in Nat
  BY FS_Subset, FS_CardinalityType
<1>1. 0 \in N
  <2>1. ASSUME NEW T \in SUBSET S, Cardinality(T) = 0 PROVE SumOf(f, T) \in Int
    <3>1. T = {}
      BY <1>0, <2>1, FS_EmptySet
    <3>. QED BY <3>1, SumNone
  <2>. QED BY <2>1
<1>2. ASSUME NEW n \in Nat, n \in N PROVE n + 1 \in N
  <2>1. ASSUME NEW T \in SUBSET S, Cardinality(T) = n + 1 PROVE SumOf(f, T) \in Int
    <3>1. T # {}
      BY <2>1, FS_EmptySet
    <3>2. Piece(T) \in T /\ T \ {Piece(T)} \in SUBSET S /\ Cardinality(T \ {Piece(T)}) = n
      <4>1. IsFiniteSet(T)
        BY <1>0
      <4>2. Piece(T) \in T /\ Cardinality(T \ {Piece(T)}) = (n + 1) - 1
        BY <2>1, <3>1, <4>1, PieceTaken
      <4>. QED BY <4>2
    <3>3. SumOf(f, T \ {Piece(T)}) \in Int /\ f[Piece(T)] \in Int
      BY <1>2, <3>2
    <3>. QED BY <1>0, <3>1, <3>3, SumStep
  <2>. QED BY <2>1
<1>. HIDE DEF N
<1>3. Nat \subseteq N
  BY <1>1, <1>2, NatClosed
<1>4. Cardinality(S) \in N
  BY <1>0, <1>3
<1>. QED BY <1>4 DEF N

\* Any element may be taken first.
LEMMA SumSplit ==
    ASSUME NEW f, NEW S, IsFiniteSet(S), \A x \in S : f[x] \in Int, NEW x \in S
    PROVE  SumOf(f, S) = f[x] + SumOf(f, S \ {x})
<1>. DEFINE Splits(T) == \A y \in T : SumOf(f, T) = f[y] + SumOf(f, T \ {y})
            N == {n \in Nat : \A T \in SUBSET S : Cardinality(T) = n => Splits(T)}
<1>0. \A T \in SUBSET S : IsFiniteSet(T) /\ Cardinality(T) \in Nat /\ SumOf(f, T) \in Int
  <2>1. ASSUME NEW T \in SUBSET S PROVE IsFiniteSet(T) /\ \A y \in T : f[y] \in Int
    BY FS_Subset
  <2>. QED BY <2>1, FS_CardinalityType, SumType
<1>1. 0 \in N
  <2>1. ASSUME NEW T \in SUBSET S, Cardinality(T) = 0 PROVE Splits(T)
    <3>1. T = {}
      BY <1>0, <2>1, FS_EmptySet
    <3>. QED BY <3>1
  <2>. QED BY <2>1
<1>2. ASSUME NEW n \in Nat, n \in N PROVE n + 1 \in N
  <2>1. ASSUME NEW T \in SUBSET S, Cardinality(T) = n + 1, NEW y \in T PROVE SumOf(f, T) = f[y] + SumOf(f, T \ {y})
    <3>. DEFINE p == Piece(T)
    <3>1. p \in T /\ T \ {p} \in SUBSET S /\ Cardinality(T \ {p}) = n /\ SumOf(f, T) = f[p] + SumOf(f, T \ {p})
      <4>1. IsFiniteSet(T) /\ T # {}
        BY <1>0, <2>1
      <4>2. Piece(T) \in T /\ Cardinality(T \ {Piece(T)}) = (n + 1) - 1
        BY <2>1, <4>1, PieceTaken
      <4>3. SumOf(f, T) = f[Piece(T)] + SumOf(f, T \ {Piece(T)})
        BY <4>1, SumStep
      <4>. QED BY <4>2, <4>3
    <3>. HIDE DEF p
    <3>2. CASE y = p
      BY <3>1, <3>2
    <3>3. CASE y # p
      <4>1. T \ {y} \in SUBSET S /\ Cardinality(T \ {y}) = n
        <5>1. Cardinality(T \ {y}) = Cardinality(T) - 1
          BY <1>0, FS_RemoveElement
        <5>. QED BY <2>1, <5>1
      <4>2. Splits(T \ {p}) /\ Splits(T \ {y})
        BY <1>2, <3>1, <4>1
      <4>3. SumOf(f, T \ {p}) = f[y] + SumOf(f, (T \ {p}) \ {y})
        BY <3>3, <4>2
      <4>4. SumOf(f, T \ {y}) = f[p] + SumOf(f, (T \ {y}) \ {p})
        BY <3>1, <3>3, <4>2
      <4>5. (T \ {p}) \ {y} = (T \ {y}) \ {p} /\ (T \ {y}) \ {p} \in SUBSET S
        OBVIOUS
      <4>6. f[y] \in Int /\ f[p] \in Int /\ SumOf(f, (T \ {y}) \ {p}) \in Int
        BY <1>0, <3>1, <4>5
      <4>. DEFINE a == SumOf(f, T)  b == SumOf(f, T \ {p})  c == SumOf(f, T \ {y})  d == SumOf(f, (T \ {y}) \ {p})
                  u == f[y]  v == f[p]
      <4>7. a = v + b /\ b = u + d /\ c = v + d /\ u \in Int /\ v \in Int /\ d \in Int
        BY <3>1, <4>3, <4>4, <4>5, <4>6
      <4>. HIDE DEF a, b, c, d, u, v
      <4>8. a = u + c
        BY <4>7
      <4>. QED BY <4>8 DEF a, c, u
    <3>. QED BY <3>2, <3>3
  <2>. QED BY <2>1
<1>. HIDE DEF N
<1>3. Nat \subseteq N
  BY <1>1, <1>2, NatClosed
<1>4. Cardinality(S) \in N
  BY <1>0, <1>3
<1>. QED BY <1>4 DEF N

\* A new element adds its value.
LEMMA SumAdd ==
    ASSUME NEW f, NEW S, IsFiniteSet(S), \A x \in S : f[x] \in Int, NEW T \in SUBSET S, NEW x \in S \ T
    PROVE  /\ SumOf(f, T \cup {x}) = f[x] + SumOf(f, T)
           /\ SumOf(f, T) \in Int /\ f[x] \in Int /\ IsFiniteSet(T) /\ IsFiniteSet(T \cup {x})
<1>1. T \cup {x} \in SUBSET S /\ (T \cup {x}) \ {x} = T
  OBVIOUS
<1>2. IsFiniteSet(T) /\ IsFiniteSet(T \cup {x})
  BY <1>1, FS_Subset
<1>. QED BY <1>1, <1>2, SumSplit, SumType

\* A finite set has a finite image, no larger than itself.
LEMMA ImageFinite ==
    ASSUME NEW S, IsFiniteSet(S), NEW h, DOMAIN h = S
    PROVE  LET T == {h[x] : x \in S} IN IsFiniteSet(T) /\ Cardinality(T) <= Cardinality(S)
<1>. DEFINE T == {h[x] : x \in S}  k == [x \in S |-> h[x]]
<1>1. k \in Surjection(S, T)
  BY DEF Surjection
<1>. HIDE DEF T, k
<1>2. IsFiniteSet(T) /\ Cardinality(T) <= Cardinality(S)
  BY <1>1, FS_Surjection
<1>. QED BY <1>2 DEF T

\* A sum of natural numbers is one.
LEMMA SumNat == ASSUME NEW f, NEW S, IsFiniteSet(S), \A x \in S : f[x] \in Nat PROVE SumOf(f, S) \in Nat
<1>. DEFINE Q == {T \in SUBSET S : SumOf(f, T) \in Nat}
<1>1. {} \in Q
  BY SumNone
<1>2. ASSUME NEW T \in SUBSET S, NEW x \in S \ T, T \in Q PROVE T \cup {x} \in Q
  <2>1. SumOf(f, T \cup {x}) = f[x] + SumOf(f, T)
    BY SumAdd
  <2>2. SumOf(f, T \cup {x}) \in Nat
    BY <1>2, <2>1
  <2>. QED BY <2>2
<1>. HIDE DEF Q
<1>3. S \in Q
  BY <1>1, <1>2, SetClosed
<1>. QED BY <1>3 DEF Q

\* Only the values on the set count.
LEMMA SumSame ==
    ASSUME NEW f, NEW g, NEW S, IsFiniteSet(S), \A x \in S : f[x] \in Int /\ g[x] = f[x] PROVE SumOf(f, S) = SumOf(g, S)
<1>. DEFINE Q == {T \in SUBSET S : SumOf(f, T) = SumOf(g, T)}
<1>1. {} \in Q
  BY SumNone
<1>2. ASSUME NEW T \in SUBSET S, NEW x \in S \ T, T \in Q PROVE T \cup {x} \in Q
  <2>1. SumOf(f, T \cup {x}) = f[x] + SumOf(f, T)
    BY SumAdd
  <2>2. SumOf(g, T \cup {x}) = g[x] + SumOf(g, T)
    BY SumAdd
  <2>3. SumOf(f, T \cup {x}) = SumOf(g, T \cup {x})
    BY <1>2, <2>1, <2>2
  <2>. QED BY <2>3
<1>. HIDE DEF Q
<1>3. S \in Q
  BY <1>1, <1>2, SetClosed
<1>. QED BY <1>3 DEF Q

\* A sum of zeros is 0.
LEMMA SumZero == ASSUME NEW f, NEW S, IsFiniteSet(S), \A x \in S : f[x] = 0 PROVE SumOf(f, S) = 0
<1>. DEFINE Q == {T \in SUBSET S : SumOf(f, T) = 0}
<1>1. {} \in Q
  BY SumNone
<1>2. ASSUME NEW T \in SUBSET S, NEW x \in S \ T, T \in Q PROVE T \cup {x} \in Q
  <2>0. \A y \in S : f[y] \in Int
    OBVIOUS
  <2>1. SumOf(f, T \cup {x}) = f[x] + SumOf(f, T)
    BY <2>0, SumAdd
  <2>2. SumOf(f, T \cup {x}) = 0
    BY <1>2, <2>1
  <2>. QED BY <2>2
<1>. HIDE DEF Q
<1>3. S \in Q
  BY <1>1, <1>2, SetClosed
<1>. QED BY <1>3 DEF Q

\* The sum of two functions is the sum of their sums.
LEMMA SumPlus ==
    ASSUME NEW f, NEW g, NEW h, NEW S, IsFiniteSet(S), \A x \in S : f[x] \in Int /\ g[x] \in Int /\ h[x] = f[x] + g[x]
    PROVE  SumOf(h, S) = SumOf(f, S) + SumOf(g, S)
<1>. DEFINE Q == {T \in SUBSET S : SumOf(h, T) = SumOf(f, T) + SumOf(g, T)}
<1>1. {} \in Q
  BY SumNone
<1>2. ASSUME NEW T \in SUBSET S, NEW x \in S \ T, T \in Q PROVE T \cup {x} \in Q
  <2>1. SumOf(f, T \cup {x}) = f[x] + SumOf(f, T) /\ SumOf(f, T) \in Int /\ f[x] \in Int
    BY SumAdd
  <2>2. SumOf(g, T \cup {x}) = g[x] + SumOf(g, T) /\ SumOf(g, T) \in Int /\ g[x] \in Int
    BY SumAdd
  <2>3. SumOf(h, T \cup {x}) = h[x] + SumOf(h, T)
    <3>1. \A y \in S : h[y] \in Int
      OBVIOUS
    <3>. QED BY <3>1, SumAdd
  <2>4. h[x] = f[x] + g[x] /\ SumOf(h, T) = SumOf(f, T) + SumOf(g, T)
    BY <1>2
  <2>5. SumOf(h, T \cup {x}) = SumOf(f, T \cup {x}) + SumOf(g, T \cup {x})
    BY <2>1, <2>2, <2>3, <2>4
  <2>. QED BY <2>5
<1>. HIDE DEF Q
<1>3. S \in Q
  BY <1>1, <1>2, SetClosed
<1>. QED BY <1>3 DEF Q

\* A sum over other names for the same things.
LEMMA SumRenamed ==
    ASSUME NEW f, NEW g, NEW S, NEW U, NEW h \in [S -> U], IsFiniteSet(S), \A x \in S : f[x] \in Int /\ g[h[x]] = f[x],
           \A x, y \in S : h[x] = h[y] => x = y, \A u \in U : \E x \in S : h[x] = u
    PROVE  SumOf(f, S) = SumOf(g, U)
<1>. DEFINE Of(T) == {h[x] : x \in T}
            Q == {T \in SUBSET S : SumOf(f, T) = SumOf(g, Of(T))}
<1>1. {} \in Q
  <2>1. Of({}) = {}
    OBVIOUS
  <2>. QED BY <2>1, SumNone
<1>2. ASSUME NEW T \in SUBSET S, NEW x \in S \ T, T \in Q PROVE T \cup {x} \in Q
  <2>0. \A y \in S : f[y] \in Int
    OBVIOUS
  <2>1. SumOf(f, T \cup {x}) = f[x] + SumOf(f, T)
    BY <2>0, SumAdd
  <2>2. Of(T \cup {x}) = Of(T) \cup {h[x]} /\ h[x] \notin Of(T) /\ h[x] \in U /\ Of(T) \in SUBSET U
    OBVIOUS
  <2>. DEFINE V == Of(T)  W == Of(S)  z == h[x]
  <2>3. IsFiniteSet(W) /\ V \in SUBSET W /\ h[x] \in W \ V
    <3>1. IsFiniteSet(Of(S))
      BY ImageFinite
    <3>. QED BY <2>2, <3>1
  <2>4. \A u \in W : g[u] \in Int
    OBVIOUS
  <2>. HIDE DEF V, W, z
  <2>5. SumOf(g, V \cup {z}) = g[z] + SumOf(g, V)
    <3>1. z \in W \ V
      BY <2>3 DEF z
    <3>2. IsFiniteSet(W) /\ (\A u \in W : g[u] \in Int) /\ V \in SUBSET W
      BY <2>3, <2>4
    <3>. QED BY ONLY <3>1, <3>2, SumAdd, Zenon
  <2>6. SumOf(f, T) = SumOf(g, V)
    BY <1>2 DEF V
  <2>7. SumOf(f, T \cup {x}) = SumOf(g, Of(T \cup {x}))
    BY <2>1, <2>2, <2>5, <2>6 DEF V, z
  <2>. QED BY <2>7
<1>3. Of(S) = U
  OBVIOUS
<1>. HIDE DEF Q
<1>4. S \in Q
  BY <1>1, <1>2, SetClosed
<1>. QED BY <1>3, <1>4 DEF Q

\* Rows first or columns first.
LEMMA SumSwap ==
    ASSUME NEW I, NEW J, IsFiniteSet(I), IsFiniteSet(J), NEW M \in [I \X J -> Int]
    PROVE  SumOf([i \in I |-> SumOf([j \in J |-> M[<<i, j>>]], J)], I) =
           SumOf([j \in J |-> SumOf([i \in I |-> M[<<i, j>>]], I)], J)
<1>. DEFINE Row(i) == [j \in J |-> M[<<i, j>>]]
            Col(j) == [i \in I |-> M[<<i, j>>]]
            R == [i \in I |-> SumOf(Row(i), J)]
            C(T) == [j \in J |-> SumOf(Col(j), T)]
            Q == {T \in SUBSET I : SumOf(R, T) = SumOf(C(T), J)}
<1>0. (\A i \in I : R[i] \in Int) /\ \A i \in I, j \in J : M[<<i, j>>] \in Int
  <2>1. ASSUME NEW i \in I PROVE SumOf(Row(i), J) \in Int
    <3>1. \A j \in J : Row(i)[j] \in Int
      OBVIOUS
    <3>. HIDE DEF Row
    <3>. QED BY <3>1, SumType
  <2>. QED BY <2>1
<1>1. {} \in Q
  <2>. DEFINE c == C({})
  <2>1. \A j \in J : c[j] = 0
    BY SumNone
  <2>. HIDE DEF c
  <2>2. SumOf(c, J) = 0
    BY <2>1, SumZero
  <2>. QED BY <2>2, SumNone DEF c
<1>2. ASSUME NEW T \in SUBSET I, NEW x \in I \ T, T \in Q PROVE T \cup {x} \in Q
  <2>. DEFINE c == C(T)  d == C(T \cup {x})  r == Row(x)
  <2>1. ASSUME NEW j \in J PROVE c[j] \in Int /\ r[j] \in Int /\ d[j] = c[j] + r[j]
    <3>. DEFINE k == Col(j)
    <3>1. (\A i \in I : k[i] \in Int) /\ k[x] = r[j]
      BY <1>0
    <3>. HIDE DEF k
    <3>2. SumOf(k, T \cup {x}) = k[x] + SumOf(k, T) /\ SumOf(k, T) \in Int /\ k[x] \in Int
      BY <3>1, SumAdd
    <3>3. d[j] = SumOf(k, T \cup {x}) /\ c[j] = SumOf(k, T)
      BY DEF k
    <3>. HIDE DEF c, d, r
    <3>. QED BY <3>1, <3>2, <3>3
  <2>2. R[x] = SumOf(r, J) /\ SumOf(R, T) = SumOf(c, J)
    BY <1>2
  <2>. HIDE DEF c, d, r, R
  <2>3. SumOf(R, T \cup {x}) = R[x] + SumOf(R, T) /\ SumOf(R, T) \in Int /\ R[x] \in Int
    BY <1>0, SumAdd
  <2>4. SumOf(d, J) = SumOf(c, J) + SumOf(r, J)
    BY <2>1, SumPlus
  <2>5. SumOf(R, T \cup {x}) = SumOf(d, J)
    BY <2>2, <2>3, <2>4
  <2>. QED BY <2>5 DEF d
<1>. HIDE DEF Q, R, C
<1>3. I \in Q
  BY <1>1, <1>2, SetClosed
<1>. QED BY <1>3 DEF Q, R, C

\* What steps from one number to the next adds up to the whole way.
LEMMA SumSteps ==
    ASSUME NEW c, NEW d, NEW n \in Nat, \A m \in 0..(n + 1) : c[m] \in Int, \A m \in 0..n : d[m] = c[m + 1] - c[m]
    PROVE  SumOf(d, 0..n) = c[n + 1] - c[0]
<1>. DEFINE N == {m \in Nat : m <= n => SumOf(d, 0..m) = c[m + 1] - c[0]}
<1>0. (\A m \in 0..n : d[m] \in Int) /\ IsFiniteSet(0..n)
  <2>1. 0 \in Int /\ n \in Int
    OBVIOUS
  <2>2. \A m \in 0..n : m \in 0..(n + 1) /\ m + 1 \in 0..(n + 1)
    OBVIOUS
  <2>3. \A m \in 0..n : d[m] \in Int
    <3>1. ASSUME NEW m \in 0..n PROVE d[m] \in Int
      <4>1. c[m] \in Int /\ c[m + 1] \in Int /\ d[m] = c[m + 1] - c[m]
        BY <2>2
      <4>. QED BY <4>1
    <3>. QED BY <3>1
  <2>4. IsFiniteSet(0..n)
    BY <2>1, FS_Interval
  <2>. QED BY <2>3, <2>4
<1>1. 0 \in N
  <2>1. 0..0 = {} \cup {0} /\ 0 \in 0..n
    OBVIOUS
  <2>. DEFINE S == 0..n
  <2>. HIDE DEF S
  <2>2. SumOf(d, {} \cup {0}) = d[0] + SumOf(d, {})
    <3>1. (\A m \in S : d[m] \in Int) /\ IsFiniteSet(S) /\ {} \in SUBSET S /\ 0 \in S \ {}
      BY <1>0, <2>1 DEF S
    <3>. QED BY <3>1, SumAdd
  <2>3. d[0] \in Int /\ d[0] = c[0 + 1] - c[0]
    BY <1>0, <2>1
  <2>. QED BY <2>1, <2>2, <2>3, SumNone
<1>2. ASSUME NEW m \in Nat, m \in N PROVE m + 1 \in N
  <2>1. CASE m + 1 <= n
    <3>1. 0..(m + 1) = (0..m) \cup {m + 1} /\ 0..m \in SUBSET (0..n) /\ m + 1 \in (0..n) \ (0..m)
      BY <2>1
    <3>. DEFINE S == 0..n  T == 0..m  x == m + 1
    <3>. HIDE DEF S, T, x
    <3>2. SumOf(d, T \cup {x}) = d[x] + SumOf(d, T)
      <4>1. (\A k \in S : d[k] \in Int) /\ IsFiniteSet(S) /\ T \in SUBSET S /\ x \in S \ T
        BY <1>0, <3>1 DEF S, T, x
      <4>. QED BY <4>1, SumAdd
    <3>3. d[m + 1] = c[(m + 1) + 1] - c[m + 1] /\ SumOf(d, 0..m) = c[m + 1] - c[0]
      BY <1>2, <2>1, <3>1
    <3>4. c[(m + 1) + 1] \in Int /\ c[m + 1] \in Int /\ c[0] \in Int
      <4>1. (m + 1) + 1 \in 0..(n + 1) /\ m + 1 \in 0..(n + 1) /\ 0 \in 0..(n + 1)
        BY <2>1
      <4>. QED BY <4>1
    <3>5. SumOf(d, 0..(m + 1)) = c[(m + 1) + 1] - c[0]
      <4>1. SumOf(d, 0..(m + 1)) = d[m + 1] + SumOf(d, 0..m)
        BY <3>1, <3>2 DEF T, x
      <4>. QED BY <3>3, <3>4, <4>1
    <3>. QED BY <3>5
  <2>2. CASE ~(m + 1 <= n)
    BY <2>2
  <2>. QED BY <2>1, <2>2
<1>. HIDE DEF N
<1>3. Nat \subseteq N
  BY <1>1, <1>2, NatClosed
<1>. QED BY <1>3 DEF N

----------------------------------------------------------------------------
(* What a payload becomes for the solver.                                    *)

\* The tables of a payload and the types of their columns, by index.
LEMMA PayloadFacts ==
    ASSUME NEW p, SolverPayload(p)
    PROVE  /\ IsPayload(p) /\ p.horizon \in Nat /\ p.weekCap \in Nat
           /\ Len(p.quals) \in Nat /\ Len(p.windows) \in Nat /\ Len(p.workers) \in Nat /\ Len(p.tasks) \in Nat
           /\ DOMAIN p.quals = 1..Len(p.quals) /\ DOMAIN p.windows = 1..Len(p.windows)
           /\ DOMAIN p.workers = 1..Len(p.workers) /\ DOMAIN p.tasks = 1..Len(p.tasks)
           /\ \A i \in 1..Len(p.quals) : p.quals[i].rate \in Nat /\ p.quals[i].override \in Nat \cup {None}
           /\ \A i \in 1..Len(p.windows) : p.windows[i].start \in Int /\ p.windows[i].end \in Int
<1>1. p.quals \in Seq(ToSet(p.quals)) /\ p.windows \in Seq(ToSet(p.windows)) /\ p.workers \in Seq(ToSet(p.workers))
      /\ p.tasks \in Seq(ToSet(p.tasks))
  BY DEF SolverPayload, IsPayload, IsTable
<1>2. /\ Len(p.quals) \in Nat /\ Len(p.windows) \in Nat /\ Len(p.workers) \in Nat /\ Len(p.tasks) \in Nat
      /\ DOMAIN p.quals = 1..Len(p.quals) /\ DOMAIN p.windows = 1..Len(p.windows)
      /\ DOMAIN p.workers = 1..Len(p.workers) /\ DOMAIN p.tasks = 1..Len(p.tasks)
  BY <1>1, LenProperties
<1>3. \A i \in 1..Len(p.quals) : p.quals[i] \in ToSet(p.quals)
  BY <1>2 DEF ToSet
<1>4. \A i \in 1..Len(p.windows) : p.windows[i] \in ToSet(p.windows)
  BY <1>2 DEF ToSet
<1>5. IsPayload(p) /\ p.horizon \in Nat /\ p.weekCap \in Nat
  BY DEF SolverPayload
<1>6. \A i \in 1..Len(p.quals) : p.quals[i].rate \in Nat /\ p.quals[i].override \in Nat \cup {None}
  BY <1>3 DEF SolverPayload
<1>7. \A i \in 1..Len(p.windows) : p.windows[i].start \in Int /\ p.windows[i].end \in Int
  BY <1>4 DEF SolverPayload
<1>. QED BY <1>2, <1>5, <1>6, <1>7

\* The qualifications of a worker are rows of the table, with a natural rate.
LEMMA QualsAre ==
    ASSUME NEW p, SolverPayload(p), NEW w
    PROVE  /\ SolverQuals(p, w) \in Seq([task : TaskIds(p), rate : Nat \ {0}])
           /\ DOMAIN SolverQuals(p, w) = 1..Len(SolverQuals(p, w)) /\ Len(SolverQuals(p, w)) \in Nat
           /\ \A i \in DOMAIN SolverQuals(p, w) : SolverQuals(p, w)[i].task \in TaskIds(p) /\ SolverQuals(p, w)[i].rate \in Nat \ {0}
<1>. DEFINE n == Len(p.quals)
            K == {i \in 1..n : p.quals[i].worker = w /\ p.quals[i].task \in TaskIds(p) /\ SolverRate(p.quals[i]) > 0}
            f == [i \in 1..n |-> [task |-> p.quals[i].task, rate |-> SolverRate(p.quals[i])]]
            X == [task : TaskIds(p), rate : Nat \ {0}]
<1>1. n \in Nat
  BY PayloadFacts
<1>2. K \in SUBSET (1..n) /\ K \in Indices(n)
  BY DEF Indices
<1>3. SolverQuals(p, w) = KeptOf(f, K)
  <2>1. SolverQuals(p, w) = [m \in DOMAIN InOrder(K) |->
             [task |-> p.quals[InOrder(K)[m]].task, rate |-> SolverRate(p.quals[InOrder(K)[m]])]]
    BY DEF SolverQuals, Rows
  <2>. HIDE DEF K
  <2>2. \A m \in DOMAIN InOrder(K) : InOrder(K)[m] \in 1..n
    BY <1>1, <1>2, KeptRows
  <2>. QED BY <2>1, <2>2 DEF KeptOf
<1>4. \A i \in K : f[i] \in X
  <2>1. SUFFICES ASSUME NEW i \in K PROVE f[i] \in X
    OBVIOUS
  <2>2. p.quals[i].rate \in Nat /\ p.quals[i].override \in Nat \cup {None}
    BY PayloadFacts
  <2>3. SolverRate(p.quals[i]) \in Nat \ {0}
    BY <2>2 DEF SolverRate
  <2>. QED BY <2>3
<1>. HIDE DEF n, K, f, X
<1>5. SolverQuals(p, w) \in Seq(X)
  BY <1>1, <1>2, <1>3, <1>4, KeptInto
<1>6. Len(SolverQuals(p, w)) \in Nat /\ DOMAIN SolverQuals(p, w) = 1..Len(SolverQuals(p, w))
  BY <1>5, LenProperties
<1>7. \A i \in DOMAIN SolverQuals(p, w) : SolverQuals(p, w)[i] \in X
  BY <1>5, <1>6, ElementOfSeq
<1>. QED BY <1>5, <1>6, <1>7 DEF X

\* A window the solver sees, of row r.
WindowOf(p, r) == [id |-> r, kind |-> p.windows[r].kind,
                   start |-> Clip(p, p.windows[r].start, p.windows[r].end)[1],
                   end |-> Clip(p, p.windows[r].start, p.windows[r].end)[2]]

\* A clipped interval that survives lies in the horizon and is not empty.
LEMMA ClipIs ==
    ASSUME NEW p, p.horizon \in Nat, NEW s \in Int, NEW e \in Int, Survives(p, s, e)
    PROVE  Clip(p, s, e)[1] \in Nat /\ Clip(p, s, e)[2] \in Nat /\ Clip(p, s, e)[1] < Clip(p, s, e)[2]
           /\ Clip(p, s, e)[2] <= p.horizon
  BY DEF Survives, Clip, Greater, Lesser

\* The windows of a worker are surviving rows, clipped.
LEMMA WindowsAre ==
    ASSUME NEW p, SolverPayload(p), NEW w
    PROVE  /\ Len(SolverWindows(p, w)) \in Nat /\ DOMAIN SolverWindows(p, w) = 1..Len(SolverWindows(p, w))
           /\ \A k \in DOMAIN SolverWindows(p, w) :
                 \E r \in 1..Len(p.windows) :
                    /\ SolverWindows(p, w)[k] = WindowOf(p, r) /\ p.windows[r].worker = w
                    /\ Survives(p, p.windows[r].start, p.windows[r].end)
           /\ \A k, l \in DOMAIN SolverWindows(p, w) : SolverWindows(p, w)[k].id = SolverWindows(p, w)[l].id => k = l
<1>. DEFINE n == Len(p.windows)
            K == {i \in 1..n : p.windows[i].worker = w /\ p.windows[i].ok /\ Survives(p, p.windows[i].start, p.windows[i].end)}
            s == SolverWindows(p, w)
<1>1. n \in Nat
  BY PayloadFacts
<1>2. K \in SUBSET (1..n)
  OBVIOUS
<1>3. s = [m \in DOMAIN InOrder(K) |-> WindowOf(p, InOrder(K)[m])]
  BY DEF SolverWindows, Rows, WindowOf
<1>4. \A i \in K : i \in 1..n /\ p.windows[i].worker = w /\ Survives(p, p.windows[i].start, p.windows[i].end)
  OBVIOUS
<1>. HIDE DEF K, s, n
<1>5. /\ Cardinality(K) \in Nat /\ DOMAIN InOrder(K) = 1..Cardinality(K)
      /\ \A m \in 1..Cardinality(K) : InOrder(K)[m] \in K
      /\ \A l, m \in 1..Cardinality(K) : l < m => InOrder(K)[l] < InOrder(K)[m]
  BY <1>1, <1>2, KeptRows
<1>6. s = [m \in 1..Cardinality(K) |-> s[m]] /\ DOMAIN s = 1..Cardinality(K)
  BY <1>3, <1>5
<1>7. Len(s) = Cardinality(K)
  BY <1>5, <1>6, ListIsSeq
<1>8. \A k \in DOMAIN s : \E r \in 1..n :
          s[k] = WindowOf(p, r) /\ p.windows[r].worker = w /\ Survives(p, p.windows[r].start, p.windows[r].end)
  BY <1>3, <1>4, <1>5, <1>6
<1>9. \A k, l \in DOMAIN s : s[k].id = s[l].id => k = l
  <2>1. SUFFICES ASSUME NEW k \in DOMAIN s, NEW l \in DOMAIN s, s[k].id = s[l].id PROVE k = l
    OBVIOUS
  <2>2. InOrder(K)[k] = InOrder(K)[l] /\ InOrder(K)[k] \in Int /\ InOrder(K)[l] \in Int
    <3>1. s[k].id = InOrder(K)[k] /\ s[l].id = InOrder(K)[l]
      BY <1>3, <2>1 DEF WindowOf
    <3>2. InOrder(K)[k] \in K /\ InOrder(K)[l] \in K
      BY <1>5, <1>6, <2>1
    <3>3. \A i \in K : i \in Int
      BY <1>1, <1>2
    <3>. QED BY <2>1, <3>1, <3>2, <3>3
  <2>3. k \in 1..Cardinality(K) /\ l \in 1..Cardinality(K)
    BY <1>6, <2>1
  <2>4. ~(k < l) /\ ~(l < k)
    BY <1>5, <2>2, <2>3
  <2>. QED BY <1>5, <2>3, <2>4
<1>. QED BY <1>5, <1>6, <1>7, <1>8, <1>9 DEF s, n

DemandRow(b) == /\ {"start", "end", "amount"} \subseteq DOMAIN b
                /\ b.start \in Int /\ b.end \in Int /\ b.amount \in Int

\* The rows of a table by index are its elements.
LEMMA TableOwn ==
    ASSUME NEW t, IsTable(t) PROVE Len(t) \in Nat /\ DOMAIN t = 1..Len(t) /\ \A i \in 1..Len(t) : t[i] \in ToSet(t)
<1>1. Len(t) \in Nat /\ DOMAIN t = 1..Len(t)
  BY LenProperties DEF IsTable
<1>. QED BY <1>1 DEF ToSet

\* An interval with whole minutes and a whole amount is a demand row.
LEMMA IntervalRow ==
    ASSUME NEW record, NEW family, NEW task, NEW s \in Int, NEW e \in Int, NEW amount \in Int
    PROVE  DemandRow(Interval(record, family, task, s, e, amount))
BY DEF DemandRow, Interval

\* What the rows of the three tables become, kept or not.
OutboundFacts(p) == {OutboundFact(p, i) : i \in 1..Len(p.outbound)}
InboundFacts(p) == UNION {{InboundFact(p, i, k) : k \in 1..Len(p.inbound[i].tasks)} : i \in 1..Len(p.inbound)}
IndirectFacts(p) == {IndirectFact(p, i) : i \in 1..Len(p.indirect)}
RowFacts(p) == OutboundFacts(p) \cup InboundFacts(p) \cup IndirectFacts(p)

\* The projection's demand is made of rows of the three tables.
LEMMA DemandRows ==
    ASSUME NEW p, SolverPayload(p)
    PROVE  NormalizeDemand(p) \in Seq({b \in RowFacts(p) : DemandRow(b)})
<1>. DEFINE X == {b \in RowFacts(p) : DemandRow(b)}
<1>1. IsPayload(p)
  BY DEF SolverPayload
<1>2. \A i \in 1..Len(p.outbound) : OutboundFact(p, i) \in X
  <2>1. SUFFICES ASSUME NEW i \in 1..Len(p.outbound) PROVE OutboundFact(p, i) \in X
    OBVIOUS
  <2>2. p.outbound[i] \in ToSet(p.outbound)
    BY <1>1, TableOwn DEF IsPayload
  <2>3. p.outbound[i].start \in Int /\ p.outbound[i].end \in Int /\ p.outbound[i].amount \in Int
    BY <2>2 DEF SolverPayload
  <2>4. DemandRow(OutboundFact(p, i))
    BY <2>3, IntervalRow DEF OutboundFact
  <2>5. OutboundFact(p, i) \in OutboundFacts(p)
    BY DEF OutboundFacts
  <2>. QED BY <2>4, <2>5 DEF RowFacts
<1>3. \A i \in 1..Len(p.inbound) : \A k \in 1..Len(p.inbound[i].tasks) : InboundFact(p, i, k) \in X
  <2>1. SUFFICES ASSUME NEW i \in 1..Len(p.inbound), NEW k \in 1..Len(p.inbound[i].tasks) PROVE InboundFact(p, i, k) \in X
    OBVIOUS
  <2>2. p.inbound[i] \in ToSet(p.inbound) /\ i \in DOMAIN p.inbound
    BY <1>1, TableOwn DEF IsPayload
  <2>3. p.inbound[i].tasks[k] \in ToSet(p.inbound[i].tasks)
    BY <1>1, <2>2, TableOwn DEF IsPayload
  <2>4. p.inbound[i].start \in Int /\ p.inbound[i].end \in Int
    BY <2>2 DEF SolverPayload
  <2>5. p.inbound[i].tasks[k].amount \in Int
    BY <2>2, <2>3 DEF SolverPayload
  <2>6. DemandRow(InboundFact(p, i, k))
    BY <2>4, <2>5, IntervalRow DEF InboundFact
  <2>7. InboundFact(p, i, k) \in InboundFacts(p)
    <3>. DEFINE T(j) == {InboundFact(p, j, l) : l \in 1..Len(p.inbound[j].tasks)}
    <3>1. InboundFact(p, i, k) \in T(i)
      OBVIOUS
    <3>2. InboundFacts(p) = UNION {T(j) : j \in 1..Len(p.inbound)}
      BY DEF InboundFacts
    <3>. HIDE DEF T
    <3>. QED BY <3>1, <3>2
  <2>. QED BY <2>6, <2>7 DEF RowFacts
<1>4. \A i \in 1..Len(p.indirect) : IndirectFact(p, i) \in X
  <2>1. SUFFICES ASSUME NEW i \in 1..Len(p.indirect) PROVE IndirectFact(p, i) \in X
    OBVIOUS
  <2>2. p.indirect[i] \in ToSet(p.indirect)
    BY <1>1, TableOwn DEF IsPayload
  <2>3. p.indirect[i].day \in Int /\ p.indirect[i].from \in Int /\ p.indirect[i].to \in Int /\ p.indirect[i].amount \in Int
    BY <2>2 DEF SolverPayload
  <2>4. Day \in Int /\ Day * p.indirect[i].day \in Int
    BY <2>3, SolverAssumption
  <2>5. DayWindow(p.indirect[i])[1] \in Int /\ DayWindow(p.indirect[i])[2] \in Int
    <3>. DEFINE r == p.indirect[i]  base == Day * r.day
    <3>1. DayWindow(r) = <<base + r.from, base + r.to + (IF r.to <= r.from THEN Day ELSE 0)>>
      BY DEF DayWindow
    <3>2. base \in Int /\ Day \in Int /\ r.from \in Int /\ r.to \in Int
      BY <2>3, <2>4
    <3>. HIDE DEF base, r
    <3>3. base + r.from \in Int /\ base + r.to + (IF r.to <= r.from THEN Day ELSE 0) \in Int
      BY <3>2
    <3>4. DayWindow(r)[1] \in Int /\ DayWindow(r)[2] \in Int
      BY <3>1, <3>3
    <3>. QED BY <3>4 DEF r
  <2>6. DemandRow(IndirectFact(p, i))
    BY <2>3, <2>5, IntervalRow DEF IndirectFact
  <2>7. IndirectFact(p, i) \in IndirectFacts(p)
    BY DEF IndirectFacts
  <2>. QED BY <2>6, <2>7 DEF RowFacts
<1>. HIDE DEF X
<1>5. NormalizeDemand(p) \in Seq(X)
  BY <1>1, <1>2, <1>3, <1>4, DemandFrom
<1>. QED BY <1>5 DEF X

Bounded(p, b) == b.start \in Nat /\ b.end \in Nat /\ b.start < b.end /\ b.end <= p.horizon /\ b.amount \in Nat

\* The solver's demand lies in the horizon, with positive length and natural amounts.
LEMMA DemandIs ==
    ASSUME NEW p, SolverPayload(p)
    PROVE  /\ Len(SolverDemand(p)) \in Nat /\ DOMAIN SolverDemand(p) = 1..Len(SolverDemand(p))
           /\ \A i \in DOMAIN SolverDemand(p) : Bounded(p, SolverDemand(p)[i])
           /\ Len(NormalizeDemand(p)) \in Nat /\ DOMAIN NormalizeDemand(p) = 1..Len(NormalizeDemand(p))
           /\ SolverDemand(p) = [i \in DOMAIN SolverDemand(p) |-> SolverDemand(p)[i]]
           /\ NormalizeDemand(p) = [i \in DOMAIN NormalizeDemand(p) |-> NormalizeDemand(p)[i]]
<1>. DEFINE all == NormalizeDemand(p)
            n == Len(all)
            K == {i \in 1..n : all[i].amount > 0 /\ Survives(p, all[i].start, all[i].end)}
            s == SolverDemand(p)
            Clipped(i) == [all[i] EXCEPT !.start = Clip(p, all[i].start, all[i].end)[1],
                                     !.end = Clip(p, all[i].start, all[i].end)[2]]
            X == {b \in RowFacts(p) : DemandRow(b)}
<1>1. all \in Seq(X)
  BY DemandRows
<1>2. n \in Nat /\ DOMAIN all = 1..n /\ all = [i \in DOMAIN all |-> all[i]]
  <2>. HIDE DEF all, X
  <2>. QED BY <1>1, LenProperties
<1>3. \A i \in 1..n : DemandRow(all[i])
  <2>1. \A i \in 1..n : all[i] \in X
    <3>. HIDE DEF all, X
    <3>. QED BY <1>1, <1>2, ElementOfSeq
  <2>. QED BY <2>1 DEF X
<1>4. K \in SUBSET (1..n)
  OBVIOUS
<1>5. s = [m \in DOMAIN InOrder(K) |-> Clipped(InOrder(K)[m])]
  BY DEF SolverDemand, Rows
<1>6. \A i \in K : Bounded(p, Clipped(i))
  <2>1. SUFFICES ASSUME NEW i \in K PROVE Bounded(p, Clipped(i))
    OBVIOUS
  <2>2. all[i].amount > 0 /\ Survives(p, all[i].start, all[i].end) /\ DemandRow(all[i]) /\ p.horizon \in Nat
    BY <1>3, PayloadFacts
  <2>. DEFINE c == Clip(p, all[i].start, all[i].end)
  <2>3. c[1] \in Nat /\ c[2] \in Nat /\ c[1] < c[2] /\ c[2] <= p.horizon
    BY <2>2, ClipIs DEF DemandRow
  <2>. HIDE DEF c
  <2>4. [all[i] EXCEPT !.start = c[1], !.end = c[2]].start = c[1]
        /\ [all[i] EXCEPT !.start = c[1], !.end = c[2]].end = c[2]
        /\ [all[i] EXCEPT !.start = c[1], !.end = c[2]].amount = all[i].amount
    BY <2>2 DEF DemandRow
  <2>5. all[i].amount \in Nat
    BY <2>2 DEF DemandRow
  <2>6. Clipped(i) = [all[i] EXCEPT !.start = c[1], !.end = c[2]]
    BY DEF c
  <2>. HIDE DEF Clipped
  <2>. QED BY <2>3, <2>4, <2>5, <2>6 DEF Bounded
<1>. HIDE DEF K, s, n, Clipped, all, X
<1>7. /\ Cardinality(K) \in Nat /\ DOMAIN InOrder(K) = 1..Cardinality(K)
      /\ \A m \in 1..Cardinality(K) : InOrder(K)[m] \in K
  BY <1>2, <1>4, KeptRows
<1>8. s = [m \in 1..Cardinality(K) |-> s[m]] /\ DOMAIN s = 1..Cardinality(K)
  BY <1>5, <1>7
<1>9. Len(s) = Cardinality(K)
  BY <1>7, <1>8, ListIsSeq
<1>10. \A i \in DOMAIN s : Bounded(p, s[i])
  BY <1>5, <1>6, <1>7, <1>8
<1>11. s = [i \in DOMAIN s |-> s[i]]
  BY <1>8
<1>. QED BY <1>2, <1>7, <1>8, <1>9, <1>10, <1>11 DEF s, n, all

----------------------------------------------------------------------------
(* Templates, candidate starts, slots and task variables.                    *)

\* A finite union of finite sets is finite.
LEMMA UnionFinite ==
    ASSUME NEW I, IsFiniteSet(I), NEW F, DOMAIN F = I, \A i \in I : IsFiniteSet(F[i])
    PROVE  IsFiniteSet(UNION {F[i] : i \in I})
<1>1. IsFiniteSet({F[i] : i \in I})
  BY ImageFinite
<1>2. \A T \in {F[i] : i \in I} : IsFiniteSet(T)
  OBVIOUS
<1>. QED BY <1>1, <1>2, FS_UNION

\* An interval of integers is finite.
LEMMA BetweenFinite == ASSUME NEW a \in Int, NEW b \in Int PROVE IsFiniteSet(a..b)
BY FS_Interval

GoodTemplate(tpl) ==
    /\ tpl.length \in Nat \ {0} /\ IsFiniteSet(tpl.breaks)
    /\ \A b \in tpl.breaks : b.offset \in Int /\ b.length \in Int

\* The templates of a payload are finitely many and well formed.
LEMMA TemplatesAre ==
    ASSUME NEW p, SolverPayload(p)
    PROVE  IsFiniteSet(p.templates) /\ \A tpl \in p.templates : GoodTemplate(tpl)
BY DEF SolverPayload, GoodTemplate

\* A window and a template have finitely many candidate starts, all natural.
LEMMA StartsAre ==
    ASSUME NEW window, window.start \in Nat, window.end \in Nat, NEW tpl, tpl.length \in Nat
    PROVE  IsFiniteSet(CandidateStarts(window, tpl)) /\ CandidateStarts(window, tpl) \in SUBSET Nat
<1>. DEFINE latest == window.end - tpl.length
            grid == {g \in window.start..latest : g % Hour = 0}
            T == {window.start, latest} \cup grid
            all == InOrder(T)
            m == Lesser(MaxStarts, Len(all))
<1>1. latest \in Int
  OBVIOUS
<1>2. CASE latest < window.start
  <2>1. CandidateStarts(window, tpl) = {}
    BY <1>2 DEF CandidateStarts
  <2>. QED BY <2>1, FS_EmptySet
<1>3. CASE ~(latest < window.start)
  <2>1. CandidateStarts(window, tpl) = {all[i] : i \in 1..m}
    BY <1>3 DEF CandidateStarts
  <2>2. IsFiniteSet(window.start..latest)
    BY <1>1, BetweenFinite
  <2>3. IsFiniteSet(grid)
    BY <2>2, FS_Subset
  <2>4. IsFiniteSet({window.start, latest})
    <3>1. {window.start, latest} = {window.start} \cup {latest}
      OBVIOUS
    <3>2. IsFiniteSet({window.start}) /\ IsFiniteSet({latest})
      BY FS_Singleton
    <3>3. IsFiniteSet({window.start} \cup {latest})
      BY <3>2, FS_Union
    <3>. QED BY <3>1, <3>3, Zenon
  <2>5. IsFiniteSet(T)
    BY <2>3, <2>4, FS_Union
  <2>6. latest \in Nat
    BY <1>1, <1>3
  <2>7. T \in SUBSET Nat
    BY <2>6
  <2>. HIDE DEF T
  <2>8. Len(all) \in Nat /\ all \in [1..Len(all) -> T]
    BY <2>5, <2>7, InOrderLists
  <2>. HIDE DEF all
  <2>9. m \in Nat /\ m <= Len(all)
    BY <2>8, SolverAssumption DEF Lesser
  <2>10. \A i \in 1..m : all[i] \in T
    BY <2>8, <2>9
  <2>. DEFINE h == [i \in 1..m |-> all[i]]
  <2>. HIDE DEF m
  <2>11. IsFiniteSet(1..m)
    BY <2>9, BetweenFinite
  <2>12. IsFiniteSet({h[i] : i \in 1..m})
    BY <2>11, ImageFinite
  <2>13. {h[i] : i \in 1..m} = {all[i] : i \in 1..m}
    OBVIOUS
  <2>. QED BY <2>1, <2>7, <2>10, <2>12, <2>13
<1>. QED BY <1>2, <1>3

SlotsOK(slots, start, tpl) ==
    /\ DOMAIN slots \in {1..1, 1..2}
    /\ \A k \in DOMAIN slots : slots[k] \subseteq start..(start + tpl.length - 1)
    /\ \A k, l \in DOMAIN slots : k # l => (\A m \in slots[k], n \in slots[l] : m < n) \/ (\A m \in slots[k], n \in slots[l] : n < m)

\* The slots of a shift are disjoint in time and made of its minutes, in both splits.
LEMMA SlotsAre ==
    ASSUME NEW start \in Nat, NEW tpl, tpl.length \in Nat
    PROVE  SlotsOK(SlotsOf(start, tpl), start, tpl)
<1>. DEFINE minutes == Working(start, tpl)
            starts == SegmentStarts(minutes)
            half == {s \in starts : 2 * Cardinality({t \in minutes : t < s}) >= Cardinality(minutes)}
            cut == CHOOSE s \in half : \A t \in half : s <= t
            one == <<minutes>>
            two == <<{t \in minutes : t < cut}, {t \in minutes : t >= cut}>>
            plain == tpl.length <= SlotLength \/ Cardinality(starts) <= 1 \/ half = {}
<1>1. SlotsOf(start, tpl) = IF plain THEN one ELSE two
  BY DEF SlotsOf
<1>2. minutes \subseteq start..(start + tpl.length - 1) /\ minutes \subseteq Nat
  BY DEF Working
<1>3. CASE plain
  <2>1. SlotsOf(start, tpl) = one
    BY <1>1, <1>3
  <2>. HIDE DEF minutes
  <2>2. DOMAIN one = 1..1 /\ one[1] = minutes
    OBVIOUS
  <2>3. 1..1 = {1}
    OBVIOUS
  <2>. HIDE DEF one
  <2>4. DOMAIN one \in {1..1, 1..2}
    BY <2>2
  <2>5. \A k \in DOMAIN one : k = 1 /\ one[k] \subseteq start..(start + tpl.length - 1)
    BY <1>2, <2>2, <2>3
  <2>. QED BY <2>1, <2>4, <2>5 DEF SlotsOK
<1>4. CASE ~plain
  <2>1. SlotsOf(start, tpl) = two
    BY <1>1, <1>4
  <2>2. half # {} /\ half \subseteq minutes
    BY <1>4 DEF SegmentStarts
  <2>3. half \in SUBSET Nat
    BY <1>2, <2>2
  <2>. HIDE DEF minutes, half
  <2>4. \E s \in half : \A t \in half : s <= t
    <3>1. PICK s \in half : \A t \in half : ~(t < s)
      BY <2>2, <2>3, NatMin
    <3>. QED BY <2>3, <3>1
  <2>5. cut \in Nat
    BY <2>3, <2>4
  <2>. HIDE DEF cut
  <2>6. DOMAIN two = 1..2 /\ two[1] = {t \in minutes : t < cut} /\ two[2] = {t \in minutes : t >= cut}
    OBVIOUS
  <2>7. \A m \in two[1], n \in two[2] : m < n
    BY <1>2, <2>5, <2>6
  <2>. HIDE DEF two
  <2>a. DOMAIN two = {1, 2}
    <3>1. 1..2 = {1, 2}
      OBVIOUS
    <3>. QED BY <2>6, <3>1
  <2>b. two[1] \subseteq minutes /\ two[2] \subseteq minutes
    BY <2>6
  <2>8. \A k \in DOMAIN two : two[k] \subseteq start..(start + tpl.length - 1)
    BY <1>2, <2>a, <2>b
  <2>9. \A k, l \in DOMAIN two : k # l => (k = 1 /\ l = 2) \/ (k = 2 /\ l = 1)
    BY <2>a
  <2>10. \A k, l \in DOMAIN two : k # l => (\A m \in two[k], n \in two[l] : m < n) \/ (\A m \in two[k], n \in two[l] : n < m)
    BY <2>7, <2>9
  <2>. QED BY <2>1, <2>6, <2>8, <2>10 DEF SlotsOK
<1>. QED BY <1>3, <1>4

ShiftOK(p, s) ==
    /\ s = [row |-> s.row, worker |-> s.worker, window |-> s.window, kind |-> s.kind, tpl |-> s.tpl, start |-> s.start, end |-> s.end]
    /\ s.row \in SolverMembers(p) /\ s.worker = p.workers[s.row] /\ s.tpl \in p.templates
    /\ s.start \in Nat /\ s.end = s.start + s.tpl.length
    /\ s.window \in 1..Len(p.windows) /\ Survives(p, p.windows[s.window].start, p.windows[s.window].end)

WindowShifts(m, w, window, tpl) ==
    {[row |-> m, worker |-> w, window |-> window.id, kind |-> window.kind, tpl |-> tpl, start |-> s, end |-> s + tpl.length] :
        s \in CandidateStarts(window, tpl)}

\* A member's shift candidates are finitely many, in surviving windows, of a template's length.
LEMMA ShiftsAre ==
    ASSUME NEW p, SolverPayload(p), NEW m \in SolverMembers(p)
    PROVE  IsFiniteSet(ShiftsOf(p, m)) /\ \A s \in ShiftsOf(p, m) : ShiftOK(p, s) /\ s.row = m
<1>. DEFINE w == p.workers[m]
            wins == SolverWindows(p, w)
            D == DOMAIN wins
            T == p.templates
            F == [k \in D |-> UNION {WindowShifts(m, w, wins[k], tpl) : tpl \in T}]
<1>1. ShiftsOf(p, m) = UNION {F[k] : k \in D}
  <2>1. ShiftsOf(p, m) = UNION {UNION {WindowShifts(m, w, wins[k], tpl) : tpl \in T} : k \in D}
    BY DEF ShiftsOf, WindowShifts
  <2>. HIDE DEF wins, D, T
  <2>2. {UNION {WindowShifts(m, w, wins[k], tpl) : tpl \in T} : k \in D} = {F[k] : k \in D}
    BY Zenon
  <2>. QED BY <2>1, <2>2
<1>2. IsFiniteSet(T) /\ \A tpl \in T : GoodTemplate(tpl)
  BY TemplatesAre
<1>3. IsFiniteSet(D)
  <2>1. D = 1..Len(wins) /\ Len(wins) \in Nat
    BY WindowsAre
  <2>. QED BY <2>1, BetweenFinite
<1>4. \A k \in D : /\ wins[k].start \in Nat /\ wins[k].end \in Nat /\ wins[k].id \in 1..Len(p.windows)
                   /\ Survives(p, p.windows[wins[k].id].start, p.windows[wins[k].id].end)
  <2>1. SUFFICES ASSUME NEW k \in D
                 PROVE  /\ wins[k].start \in Nat /\ wins[k].end \in Nat /\ wins[k].id \in 1..Len(p.windows)
                        /\ Survives(p, p.windows[wins[k].id].start, p.windows[wins[k].id].end)
    OBVIOUS
  <2>2. PICK r \in 1..Len(p.windows) : wins[k] = WindowOf(p, r) /\ Survives(p, p.windows[r].start, p.windows[r].end)
    BY WindowsAre
  <2>3. p.windows[r].start \in Int /\ p.windows[r].end \in Int /\ p.horizon \in Nat
    BY PayloadFacts
  <2>4. Clip(p, p.windows[r].start, p.windows[r].end)[1] \in Nat /\ Clip(p, p.windows[r].start, p.windows[r].end)[2] \in Nat
    BY <2>2, <2>3, ClipIs
  <2>5. /\ wins[k].id = r /\ wins[k].start = Clip(p, p.windows[r].start, p.windows[r].end)[1]
        /\ wins[k].end = Clip(p, p.windows[r].start, p.windows[r].end)[2]
    BY <2>2 DEF WindowOf
  <2>. QED BY <2>2, <2>4, <2>5
<1>5. \A k \in D, tpl \in T : /\ IsFiniteSet(CandidateStarts(wins[k], tpl)) /\ CandidateStarts(wins[k], tpl) \in SUBSET Nat
  <2>1. SUFFICES ASSUME NEW k \in D, NEW tpl \in T
                 PROVE  IsFiniteSet(CandidateStarts(wins[k], tpl)) /\ CandidateStarts(wins[k], tpl) \in SUBSET Nat
    OBVIOUS
  <2>2. tpl.length \in Nat
    BY <1>2 DEF GoodTemplate
  <2>. HIDE DEF wins, D, T
  <2>. QED BY <1>4, <2>2, StartsAre
<1>6. \A k \in D, tpl \in T : IsFiniteSet(WindowShifts(m, w, wins[k], tpl))
  <2>1. SUFFICES ASSUME NEW k \in D, NEW tpl \in T PROVE IsFiniteSet(WindowShifts(m, w, wins[k], tpl))
    OBVIOUS
  <2>. DEFINE S == CandidateStarts(wins[k], tpl)
              h == [s \in S |-> [row |-> m, worker |-> w, window |-> wins[k].id, kind |-> wins[k].kind, tpl |-> tpl,
                                 start |-> s, end |-> s + tpl.length]]
  <2>2. WindowShifts(m, w, wins[k], tpl) = {h[s] : s \in S}
    <3>. HIDE DEF wins, D, T
    <3>. QED BY Zenon DEF WindowShifts
  <2>3. IsFiniteSet(S)
    BY <1>5
  <2>4. DOMAIN h = S
    OBVIOUS
  <2>. HIDE DEF S, h
  <2>. QED BY <2>2, <2>3, <2>4, ImageFinite
<1>7. \A k \in D : IsFiniteSet(F[k])
  <2>1. SUFFICES ASSUME NEW k \in D PROVE IsFiniteSet(F[k])
    OBVIOUS
  <2>. DEFINE G == [tpl \in T |-> WindowShifts(m, w, wins[k], tpl)]
  <2>. HIDE DEF wins, D, T
  <2>2. IsFiniteSet(UNION {G[tpl] : tpl \in T})
    <3>1. DOMAIN G = T /\ \A tpl \in T : IsFiniteSet(G[tpl])
      BY <1>6
    <3>. HIDE DEF G
    <3>. QED BY <1>2, <3>1, UnionFinite
  <2>3. F[k] = UNION {G[tpl] : tpl \in T}
    <3>1. F[k] = UNION {WindowShifts(m, w, wins[k], tpl) : tpl \in T}
      OBVIOUS
    <3>2. {WindowShifts(m, w, wins[k], tpl) : tpl \in T} = {G[tpl] : tpl \in T}
      BY Zenon
    <3>. QED BY <3>1, <3>2
  <2>. QED BY <2>2, <2>3
<1>8. IsFiniteSet(ShiftsOf(p, m))
  <2>1. DOMAIN F = D
    OBVIOUS
  <2>. HIDE DEF F, D
  <2>. QED BY <1>1, <1>3, <1>7, <2>1, UnionFinite
<1>9. ASSUME NEW s \in ShiftsOf(p, m) PROVE ShiftOK(p, s) /\ s.row = m
  <2>1. PICK k \in D : s \in F[k]
    BY <1>1, <1>9
  <2>2. PICK tpl \in T : s \in WindowShifts(m, w, wins[k], tpl)
    BY <2>1
  <2>3. PICK t \in CandidateStarts(wins[k], tpl) :
            s = [row |-> m, worker |-> w, window |-> wins[k].id, kind |-> wins[k].kind, tpl |-> tpl, start |-> t, end |-> t + tpl.length]
    <3>. HIDE DEF wins, D, T, F
    <3>. QED BY <2>2 DEF WindowShifts
  <2>4. t \in Nat
    BY <1>5
  <2>5. /\ wins[k].id \in 1..Len(p.windows)
        /\ Survives(p, p.windows[wins[k].id].start, p.windows[wins[k].id].end)
    BY <1>4
  <2>. HIDE DEF wins, D, F
  <2>. QED BY <2>3, <2>4, <2>5 DEF ShiftOK
<1>. QED BY <1>8, <1>9

TasksOf(p, w) == {SolverQuals(p, w)[i].task : i \in DOMAIN SolverQuals(p, w)}

VarOK(p, v) ==
    /\ v = [shift |-> v.shift, slot |-> v.slot, task |-> v.task, minutes |-> v.minutes]
    /\ ShiftOK(p, v.shift) /\ v.slot \in DOMAIN SlotsOf(v.shift.start, v.shift.tpl)
    /\ v.minutes = SlotsOf(v.shift.start, v.shift.tpl)[v.slot] /\ v.minutes # {}
    /\ v.task \in TasksOf(p, v.shift.worker)

SlotVars(sv, tasks) ==
    {[shift |-> sv, slot |-> k, task |-> t, minutes |-> SlotsOf(sv.start, sv.tpl)[k]] :
        k \in DOMAIN SlotsOf(sv.start, sv.tpl), t \in tasks}
WithDemand(demanded, V) == {v \in V : \E m \in v.minutes : <<v.task, m \div Hour>> \in demanded}

\* The tasks a worker is qualified for are tasks of the payload, finitely many.
LEMMA TasksOfFinite ==
    ASSUME NEW p, SolverPayload(p), NEW w PROVE IsFiniteSet(TasksOf(p, w)) /\ TasksOf(p, w) \subseteq TaskIds(p)
<1>. DEFINE q == SolverQuals(p, w)  h == [i \in DOMAIN q |-> q[i].task]
<1>1. DOMAIN q = 1..Len(q) /\ Len(q) \in Nat /\ \A i \in DOMAIN q : q[i].task \in TaskIds(p)
  BY QualsAre
<1>. HIDE DEF q
<1>2. IsFiniteSet(DOMAIN q) /\ DOMAIN h = DOMAIN q
  BY <1>1, BetweenFinite
<1>. HIDE DEF h
<1>3. IsFiniteSet({h[i] : i \in DOMAIN q})
  BY <1>2, ImageFinite
<1>4. {h[i] : i \in DOMAIN q} = TasksOf(p, w)
  BY DEF h, q, TasksOf
<1>. QED BY <1>1, <1>3, <1>4 DEF TasksOf, q

\* One shift has finitely many task variables.
LEMMA SlotVarsFinite ==
    ASSUME NEW sv, IsFiniteSet(DOMAIN SlotsOf(sv.start, sv.tpl)), NEW tasks, IsFiniteSet(tasks)
    PROVE  IsFiniteSet(SlotVars(sv, tasks))
<1>. DEFINE D == DOMAIN SlotsOf(sv.start, sv.tpl)
            C == D \X tasks
            h == [x \in C |-> [shift |-> sv, slot |-> x[1], task |-> x[2], minutes |-> SlotsOf(sv.start, sv.tpl)[x[1]]]]
<1>1. IsFiniteSet(C)
  BY FS_Product
<1>2. SlotVars(sv, tasks) \subseteq {h[x] : x \in C}
  <2>. SUFFICES ASSUME NEW v \in SlotVars(sv, tasks) PROVE v \in {h[x] : x \in C}
    OBVIOUS
  <2>1. PICK k \in D, t \in tasks : v = [shift |-> sv, slot |-> k, task |-> t, minutes |-> SlotsOf(sv.start, sv.tpl)[k]]
    BY DEF SlotVars
  <2>2. <<k, t>> \in C /\ h[<<k, t>>] = [shift |-> sv, slot |-> k, task |-> t, minutes |-> SlotsOf(sv.start, sv.tpl)[k]]
    OBVIOUS
  <2>. HIDE DEF C, h
  <2>. QED BY <2>1, <2>2
<1>3. DOMAIN h = C
  OBVIOUS
<1>. HIDE DEF C, h, D
<1>4. IsFiniteSet({h[x] : x \in C})
  BY <1>1, <1>3, ImageFinite
<1>. QED BY <1>2, <1>4, FS_Subset

\* The members are finitely many.
LEMMA MembersFinite ==
    ASSUME NEW p, SolverPayload(p) PROVE IsFiniteSet(SolverMembers(p))
<1>1. IsFiniteSet(DOMAIN p.workers)
  BY PayloadFacts, BetweenFinite
<1>2. SolverMembers(p) \subseteq DOMAIN p.workers
  BY DEF SolverMembers
<1>. QED BY <1>1, <1>2, FS_Subset

\* The builder makes finitely many task variables, each over a non-empty slot of its shift.
LEMMA VarsAre ==
    ASSUME NEW p, SolverPayload(p), NEW demanded
    PROVE  IsFiniteSet(TaskVars(p, demanded)) /\ \A v \in TaskVars(p, demanded) : VarOK(p, v)
<1>. DEFINE M == SolverMembers(p)
            E(m, sv) == WithDemand(demanded, SlotVars(sv, TasksOf(p, p.workers[m])))
            F == [m \in M |-> UNION {E(m, sv) : sv \in ShiftsOf(p, m)}]
<1>1. TaskVars(p, demanded) = UNION {F[m] : m \in M}
  <2>1. TaskVars(p, demanded) = UNION {UNION {E(m, sv) : sv \in ShiftsOf(p, m)} : m \in M}
    BY DEF TaskVars, WithDemand, SlotVars, TasksOf, MemberQuals
  <2>. HIDE DEF M, E
  <2>2. {UNION {E(m, sv) : sv \in ShiftsOf(p, m)} : m \in M} = {F[m] : m \in M}
    BY Zenon
  <2>. QED BY <2>1, <2>2
<1>2. \A m \in M : \A sv \in ShiftsOf(p, m) : ShiftOK(p, sv) /\ sv.row = m
  BY ShiftsAre
<1>3. \A m \in M : \A sv \in ShiftsOf(p, m) : SlotsOK(SlotsOf(sv.start, sv.tpl), sv.start, sv.tpl)
  <2>1. SUFFICES ASSUME NEW m \in M, NEW sv \in ShiftsOf(p, m) PROVE SlotsOK(SlotsOf(sv.start, sv.tpl), sv.start, sv.tpl)
    OBVIOUS
  <2>2. sv.start \in Nat /\ sv.tpl \in p.templates
    BY <1>2 DEF ShiftOK
  <2>3. sv.tpl.length \in Nat
    BY <2>2, TemplatesAre DEF GoodTemplate
  <2>. QED BY <2>2, <2>3, SlotsAre
<1>4. \A m \in M : \A sv \in ShiftsOf(p, m) : IsFiniteSet(E(m, sv))
  <2>1. SUFFICES ASSUME NEW m \in M, NEW sv \in ShiftsOf(p, m) PROVE IsFiniteSet(E(m, sv))
    OBVIOUS
  <2>2. DOMAIN SlotsOf(sv.start, sv.tpl) \in {1..1, 1..2}
    BY <1>3 DEF SlotsOK
  <2>3. IsFiniteSet(DOMAIN SlotsOf(sv.start, sv.tpl))
    <3>1. IsFiniteSet(1..1) /\ IsFiniteSet(1..2)
      <4>1. 1 \in Int /\ 2 \in Int
        OBVIOUS
      <4>. QED BY <4>1, BetweenFinite
    <3>. QED BY <2>2, <3>1
  <2>4. IsFiniteSet(SlotVars(sv, TasksOf(p, p.workers[m])))
    BY <2>3, TasksOfFinite, SlotVarsFinite
  <2>5. E(m, sv) \subseteq SlotVars(sv, TasksOf(p, p.workers[m]))
    BY DEF WithDemand
  <2>. QED BY <2>4, <2>5, FS_Subset
<1>5. \A m \in M : IsFiniteSet(F[m])
  <2>1. SUFFICES ASSUME NEW m \in M PROVE IsFiniteSet(F[m])
    OBVIOUS
  <2>. DEFINE I == ShiftsOf(p, m)  G == [sv \in I |-> E(m, sv)]
  <2>2. IsFiniteSet(I)
    BY ShiftsAre
  <2>3. DOMAIN G = I /\ \A sv \in I : IsFiniteSet(G[sv])
    BY <1>4
  <2>4. F[m] = UNION {G[sv] : sv \in I}
    <3>1. F[m] = UNION {E(m, sv) : sv \in I}
      OBVIOUS
    <3>. HIDE DEF E, I
    <3>2. {E(m, sv) : sv \in I} = {G[sv] : sv \in I}
      BY Zenon
    <3>. QED BY <3>1, <3>2
  <2>. HIDE DEF G, F, I
  <2>. QED BY <2>2, <2>3, <2>4, UnionFinite
<1>6. IsFiniteSet(TaskVars(p, demanded))
  <2>1. DOMAIN F = M /\ IsFiniteSet(M)
    BY MembersFinite
  <2>. HIDE DEF F, M
  <2>. QED BY <1>1, <1>5, <2>1, UnionFinite
<1>7. ASSUME NEW v \in TaskVars(p, demanded) PROVE VarOK(p, v)
  <2>1. PICK m \in M : v \in F[m]
    BY <1>1, <1>7
  <2>2. PICK sv \in ShiftsOf(p, m) : v \in E(m, sv)
    BY <2>1
  <2>3. v \in SlotVars(sv, TasksOf(p, p.workers[m])) /\ v.minutes # {}
    BY <2>2 DEF WithDemand
  <2>4. PICK k \in DOMAIN SlotsOf(sv.start, sv.tpl), t \in TasksOf(p, p.workers[m]) :
            v = [shift |-> sv, slot |-> k, task |-> t, minutes |-> SlotsOf(sv.start, sv.tpl)[k]]
    BY <2>3 DEF SlotVars
  <2>5. v.shift = sv /\ v.slot = k /\ v.task = t /\ v.minutes = SlotsOf(sv.start, sv.tpl)[k]
    BY <2>4
  <2>6. ShiftOK(p, sv) /\ sv.worker = p.workers[m]
    BY <1>2 DEF ShiftOK
  <2>. QED BY <2>3, <2>4, <2>5, <2>6 DEF VarOK
<1>. QED BY <1>6, <1>7

MinutesOK(v) ==
    /\ v.shift.start \in Nat /\ v.shift.end \in Nat /\ v.shift.start < v.shift.end
    /\ FirstMinute(v) \in Nat /\ EndMinute(v) \in Nat
    /\ v.shift.start <= FirstMinute(v) /\ FirstMinute(v) < EndMinute(v) /\ EndMinute(v) <= v.shift.end
    /\ FirstMinute(v) \in v.minutes /\ EndMinute(v) - 1 \in v.minutes
    /\ IsFiniteSet(v.minutes) /\ v.minutes \subseteq Nat

\* The first and the end minute of a variable lie in its shift.
LEMMA MinutesAre ==
    ASSUME NEW p, SolverPayload(p), NEW v, VarOK(p, v)
    PROVE  MinutesOK(v) /\ SlotsOK(SlotsOf(v.shift.start, v.shift.tpl), v.shift.start, v.shift.tpl)
<1>. DEFINE s == v.shift  M == v.minutes  slots == SlotsOf(s.start, s.tpl)
<1>1. ShiftOK(p, s) /\ v.slot \in DOMAIN slots /\ M = slots[v.slot] /\ M # {}
  BY DEF VarOK
<1>2. s.start \in Nat /\ s.end = s.start + s.tpl.length /\ s.tpl \in p.templates
  BY <1>1 DEF ShiftOK
<1>3. s.tpl.length \in Nat \ {0}
  BY <1>2, TemplatesAre DEF GoodTemplate
<1>4. SlotsOK(slots, s.start, s.tpl)
  BY <1>2, <1>3, SlotsAre
<1>5. M \subseteq s.start..(s.start + s.tpl.length - 1)
  BY <1>1, <1>4 DEF SlotsOK
<1>. HIDE DEF s, M, slots
<1>6. s.end \in Nat /\ s.start < s.end
  BY <1>2, <1>3
<1>7. \A m \in M : m \in Nat /\ s.start <= m /\ m < s.end
  BY <1>2, <1>3, <1>5
<1>8. M \in SUBSET Nat /\ IsFiniteSet(M)
  <2>1. s.start + s.tpl.length - 1 \in Int /\ s.start \in Int
    BY <1>2, <1>3
  <2>2. IsFiniteSet(s.start..(s.start + s.tpl.length - 1))
    BY <2>1, BetweenFinite
  <2>. QED BY <1>5, <1>7, <2>2, FS_Subset
<1>9. Min(M) \in M
  <2>1. PICK x \in M : \A y \in M : ~(y < x)
    BY <1>1, <1>8, NatMin
  <2>2. \A y \in M : x <= y
    BY <1>8, <2>1
  <2>. QED BY <2>1, <2>2 DEF Min
<1>10. Max(M) \in M
  <2>1. PICK x \in M : \A y \in M : y <= x
    BY <1>1, <1>8, FiniteMax
  <2>2. \A y \in M : x >= y
    BY <1>8, <2>1
  <2>. QED BY <2>1, <2>2 DEF Max
<1>11. Min(M) <= Max(M)
  <2>1. PICK x \in M : \A y \in M : ~(y < x)
    BY <1>1, <1>8, NatMin
  <2>2. \A y \in M : x <= y
    BY <1>8, <2>1
  <2>3. \A y \in M : Min(M) <= y
    BY <2>1, <2>2 DEF Min
  <2>. QED BY <1>10, <2>3
<1>12. FirstMinute(v) = Min(M) /\ EndMinute(v) = Max(M) + 1
  BY DEF FirstMinute, EndMinute, M
<1>13. Min(M) \in Nat /\ Max(M) \in Nat /\ s.start <= Min(M) /\ Max(M) < s.end
  BY <1>7, <1>9, <1>10
<1>14. /\ Min(M) < Max(M) + 1 /\ Max(M) + 1 <= s.end /\ Max(M) + 1 \in Nat /\ (Max(M) + 1) - 1 = Max(M)
  BY <1>6, <1>11, <1>13
<1>15. MinutesOK(v)
  BY <1>2, <1>6, <1>8, <1>9, <1>10, <1>12, <1>13, <1>14 DEF MinutesOK, s, M
<1>. QED BY <1>4, <1>15 DEF slots, s

Apart(v, u) == EndMinute(v) <= FirstMinute(u) \/ EndMinute(u) <= FirstMinute(v)

\* Two slots of a shift follow each other.
LEMMA SlotsApart ==
    ASSUME NEW p, SolverPayload(p), NEW v, VarOK(p, v), NEW u, VarOK(p, u), v.shift = u.shift, v.slot # u.slot
    PROVE  Apart(v, u)
<1>. DEFINE slots == SlotsOf(v.shift.start, v.shift.tpl)
<1>1. v.slot \in DOMAIN slots /\ u.slot \in DOMAIN slots /\ v.minutes = slots[v.slot] /\ u.minutes = slots[u.slot]
  BY DEF VarOK
<1>2. SlotsOK(slots, v.shift.start, v.shift.tpl) /\ MinutesOK(v) /\ MinutesOK(u)
  BY MinutesAre
<1>3. (\A m \in v.minutes, n \in u.minutes : m < n) \/ (\A m \in v.minutes, n \in u.minutes : n < m)
  BY <1>1, <1>2 DEF SlotsOK
<1>4. /\ FirstMinute(v) \in v.minutes /\ EndMinute(v) - 1 \in v.minutes /\ FirstMinute(u) \in u.minutes /\ EndMinute(u) - 1 \in u.minutes
      /\ FirstMinute(v) \in Nat /\ EndMinute(v) \in Nat /\ FirstMinute(u) \in Nat /\ EndMinute(u) \in Nat
  BY <1>2 DEF MinutesOK
<1>5. CASE \A m \in v.minutes, n \in u.minutes : m < n
  <2>1. EndMinute(v) - 1 < FirstMinute(u)
    BY <1>4, <1>5
  <2>. QED BY <1>4, <2>1 DEF Apart
<1>6. CASE \A m \in v.minutes, n \in u.minutes : n < m
  <2>1. EndMinute(u) - 1 < FirstMinute(v)
    BY <1>4, <1>6
  <2>. QED BY <1>4, <2>1 DEF Apart
<1>. QED BY <1>3, <1>5, <1>6

\* Of two shifts of a worker the later begins MinGap after the earlier ended.
LEMMA GapKept ==
    ASSUME NEW a \in Nat, NEW b \in Nat, NEW c \in Nat, NEW d \in Nat, a < b, c < d, a <= c,
           Greater(a, c) - Lesser(b, d) >= MinGap
    PROVE  c - b >= MinGap /\ b <= c
<1>1. MinGap \in Nat
  BY SolverAssumption
<1>2. CASE b < d
  <2>1. Lesser(b, d) = b /\ Greater(a, c) = c
    BY <1>2 DEF Lesser, Greater
  <2>. QED BY <1>1, <2>1
<1>3. CASE ~(b < d)
  <2>1. Lesser(b, d) = d /\ Greater(a, c) = c
    BY <1>3 DEF Lesser, Greater
  <2>. QED BY <1>1, <2>1
<1>. QED BY <1>2, <1>3

ShiftFact(s) == [id |-> ShiftId(s), worker |-> s.worker, window |-> s.window, start |-> s.start, end |-> s.end,
                 effective |-> Effective(s.tpl)]

\* The effective minutes of a template are a natural number.
LEMMA EffectiveIs ==
    ASSUME NEW tpl, GoodTemplate(tpl) PROVE Effective(tpl) \in Nat
<1>. DEFINE f == [b \in tpl.breaks |-> IF b.paid THEN 0 ELSE b.length]
<1>1. \A b \in tpl.breaks : f[b] \in Int
  BY DEF GoodTemplate
<1>2. IsFiniteSet(tpl.breaks) /\ tpl.length \in Nat
  BY DEF GoodTemplate
<1>3. SumFunction(f) = SumOf(f, tpl.breaks)
  BY DEF SumFunction, SumOf
<1>4. Effective(tpl) = Greater(0, tpl.length - SumFunction(f))
  BY DEF Effective
<1>. HIDE DEF f
<1>5. SumFunction(f) \in Int
  BY <1>1, <1>2, <1>3, SumType
<1>. QED BY <1>2, <1>4, <1>5 DEF Greater

----------------------------------------------------------------------------
(* The re-check: minutes and names against windows and slots.                *)

Selection(p, sel) == IsFiniteSet(sel) /\ \A v \in sel : VarOK(p, v)

\* A selection selects finitely many shifts, all of them candidates.
LEMMA SelectedAre ==
    ASSUME NEW p, SolverPayload(p), NEW sel, Selection(p, sel)
    PROVE  /\ IsFiniteSet(SelectedShifts(sel))
           /\ \A s \in SelectedShifts(sel) : /\ ShiftOK(p, s) /\ Effective(s.tpl) \in Nat
                                             /\ s.start \in Nat /\ s.end \in Nat /\ s.start < s.end
<1>. DEFINE h == [v \in sel |-> v.shift]
<1>1. IsFiniteSet(sel) /\ DOMAIN h = sel
  BY DEF Selection
<1>2. SelectedShifts(sel) = {h[v] : v \in sel}
  BY DEF SelectedShifts
<1>. HIDE DEF h
<1>3. IsFiniteSet(SelectedShifts(sel))
  BY <1>1, <1>2, ImageFinite
<1>4. ASSUME NEW s \in SelectedShifts(sel)
      PROVE ShiftOK(p, s) /\ Effective(s.tpl) \in Nat /\ s.start \in Nat /\ s.end \in Nat /\ s.start < s.end
  <2>1. PICK v \in sel : s = v.shift
    BY <1>4 DEF SelectedShifts
  <2>2. VarOK(p, v)
    BY DEF Selection
  <2>3. ShiftOK(p, s)
    BY <2>1, <2>2 DEF VarOK
  <2>4. MinutesOK(v)
    BY <2>2, MinutesAre
  <2>5. GoodTemplate(s.tpl)
    BY <2>3, TemplatesAre DEF ShiftOK
  <2>. QED BY <2>1, <2>3, <2>4, <2>5, EffectiveIs DEF MinutesOK
<1>. QED BY <1>3, <1>4

\* A shift fact is the fact of a selected shift, field by field.
LEMMA ShiftFactsAre ==
    ASSUME NEW sel
    PROVE  /\ ShiftFacts(sel) = {ShiftFact(s) : s \in SelectedShifts(sel)}
           /\ \A s : /\ ShiftFact(s).id = ShiftId(s) /\ ShiftFact(s).worker = s.worker /\ ShiftFact(s).window = s.window
                     /\ ShiftFact(s).start = s.start /\ ShiftFact(s).end = s.end /\ ShiftFact(s).effective = Effective(s.tpl)
BY DEF ShiftFacts, ShiftFact

\* The parts of validate_hard_constraints, one by one.
LEMMA DayCapHolds ==
    ASSUME NEW p, SolverPayload(p), NEW sel, Selection(p, sel), DayCap(sel)
    PROVE  \A f \in ShiftFacts(sel) :
             Cardinality({g \in ShiftFacts(sel) : g.worker = f.worker /\ g.start \div Day = f.start \div Day}) <= ShiftsPerDay
<1>1. SUFFICES ASSUME NEW s \in SelectedShifts(sel)
               PROVE Cardinality({g \in ShiftFacts(sel) : g.worker = ShiftFact(s).worker
                                     /\ g.start \div Day = ShiftFact(s).start \div Day}) <= ShiftsPerDay
  BY ShiftFactsAre
<1>. DEFINE A == {t \in SelectedShifts(sel) : t.worker = s.worker /\ t.start \div Day = s.start \div Day}
            B == {g \in ShiftFacts(sel) : g.worker = ShiftFact(s).worker /\ g.start \div Day = ShiftFact(s).start \div Day}
            h == [t \in A |-> ShiftFact(t)]
<1>2. IsFiniteSet(SelectedShifts(sel))
  BY SelectedAre
<1>3. IsFiniteSet(A)
  BY <1>2, FS_Subset
<1>4. B = {h[t] : t \in A}
  <2>1. ASSUME NEW g \in B PROVE g \in {h[t] : t \in A}
    <3>1. PICK t \in SelectedShifts(sel) : g = ShiftFact(t)
      BY <2>1, ShiftFactsAre
    <3>2. t \in A
      BY <2>1, <3>1, ShiftFactsAre
    <3>3. h[t] = g
      BY <3>1, <3>2
    <3>. HIDE DEF h, A, B
    <3>. QED BY <3>2, <3>3
  <2>2. ASSUME NEW t \in A PROVE h[t] \in B
    <3>1. h[t] = ShiftFact(t) /\ t \in SelectedShifts(sel)
      OBVIOUS
    <3>2. ShiftFact(t) \in ShiftFacts(sel)
      BY <3>1, ShiftFactsAre
    <3>. QED BY <3>1, <3>2, ShiftFactsAre
  <2>. HIDE DEF h, A, B
  <2>. QED BY <2>1, <2>2
<1>5. DOMAIN h = A
  OBVIOUS
<1>6. Cardinality(A) <= ShiftsPerDay
  BY DEF DayCap
<1>. HIDE DEF A, B, h
<1>7. IsFiniteSet(B) /\ Cardinality(B) <= Cardinality(A)
  BY <1>3, <1>4, <1>5, ImageFinite
<1>8. Cardinality(A) \in Nat /\ Cardinality(B) \in Nat /\ ShiftsPerDay \in Nat
  BY <1>3, <1>7, FS_CardinalityType, SolverAssumption
<1>9. Cardinality(B) <= ShiftsPerDay
  BY <1>6, <1>7, <1>8
<1>. QED BY <1>9 DEF B

\* The week cap of the builder is the one the validator sums up, by facts.
LEMMA WeekCapHolds ==
    ASSUME NEW p, SolverPayload(p), NEW sel, Selection(p, sel), NEW b, b.weekCap = p.weekCap, WeekCap(b, sel), OneShiftPerWindow(sel)
    PROVE  \A f \in ShiftFacts(sel) :
             SumFunction([g \in {g \in ShiftFacts(sel) : g.worker = f.worker} |-> g.effective]) <= p.weekCap
<1>1. SUFFICES ASSUME NEW s \in SelectedShifts(sel)
               PROVE SumFunction([g \in {g \in ShiftFacts(sel) : g.worker = ShiftFact(s).worker} |-> g.effective]) <= p.weekCap
  BY ShiftFactsAre
<1>. DEFINE A == {t \in SelectedShifts(sel) : t.worker = s.worker}
            B == {g \in ShiftFacts(sel) : g.worker = ShiftFact(s).worker}
            h == [t \in A |-> ShiftFact(t)]
            e == [t \in A |-> Effective(t.tpl)]
            k == [g \in B |-> g.effective]
<1>2. IsFiniteSet(SelectedShifts(sel)) /\ \A t \in SelectedShifts(sel) : Effective(t.tpl) \in Nat
  BY SelectedAre
<1>3. IsFiniteSet(A)
  BY <1>2, FS_Subset
<1>4. \A g \in B : \E t \in A : h[t] = g
  <2>1. SUFFICES ASSUME NEW g \in B PROVE \E t \in A : h[t] = g
    OBVIOUS
  <2>2. PICK t \in SelectedShifts(sel) : g = ShiftFact(t)
    BY ShiftFactsAre
  <2>3. t \in A
    BY <2>2, ShiftFactsAre
  <2>. QED BY <2>2, <2>3
<1>5. h \in [A -> B]
  <2>1. SUFFICES ASSUME NEW t \in A PROVE ShiftFact(t) \in B
    OBVIOUS
  <2>2. ShiftFact(t) \in ShiftFacts(sel)
    BY ShiftFactsAre
  <2>. QED BY <2>2, ShiftFactsAre
<1>6. \A t, u \in A : h[t] = h[u] => t = u
  <2>1. SUFFICES ASSUME NEW t \in A, NEW u \in A, h[t] = h[u] PROVE t = u
    OBVIOUS
  <2>2. t.window = u.window
    BY <2>1, ShiftFactsAre
  <2>. QED BY <2>2 DEF OneShiftPerWindow
<1>7. \A t \in A : e[t] \in Int /\ k[h[t]] = e[t]
  <2>1. SUFFICES ASSUME NEW t \in A PROVE e[t] \in Int /\ k[h[t]] = e[t]
    OBVIOUS
  <2>2. h[t] = ShiftFact(t) /\ h[t] \in B
    BY <1>5
  <2>3. k[h[t]] = h[t].effective
    <3>. HIDE DEF h, B
    <3>. QED BY <2>2
  <2>. QED BY <1>2, <2>2, <2>3, ShiftFactsAre
<1>8. SumFunction(e) = SumOf(e, A) /\ SumFunction(k) = SumOf(k, B)
  BY DEF SumFunction, SumOf
<1>9. SumFunction(e) <= p.weekCap
  BY DEF WeekCap, WeekHours
<1>. HIDE DEF A, B, h, e, k
<1>10. SumOf(e, A) = SumOf(k, B)
  BY <1>3, <1>4, <1>5, <1>6, <1>7, SumRenamed
<1>11. SumFunction(k) <= p.weekCap
  BY <1>8, <1>9, <1>10
<1>. QED BY <1>11 DEF k, B

\* The gap between two shifts, whichever starts first, is the one the validator reads in order of start.
LEMMA GapHolds ==
    ASSUME NEW p, SolverPayload(p), NEW sel, Selection(p, sel), Gap(sel)
    PROVE  \A f, g \in ShiftFacts(sel) : (f # g /\ f.worker = g.worker /\ f.start <= g.start) => g.start - f.end >= MinGap
<1>1. SUFFICES ASSUME NEW f \in ShiftFacts(sel), NEW g \in ShiftFacts(sel), f # g, f.worker = g.worker, f.start <= g.start
               PROVE g.start - f.end >= MinGap
  OBVIOUS
<1>2. PICK s \in SelectedShifts(sel) : f = ShiftFact(s)
  BY ShiftFactsAre
<1>3. PICK t \in SelectedShifts(sel) : g = ShiftFact(t)
  BY ShiftFactsAre
<1>4. s # t /\ s.worker = t.worker /\ s.start <= t.start /\ f.end = s.end /\ g.start = t.start
  BY <1>1, <1>2, <1>3, ShiftFactsAre
<1>5. Greater(s.start, t.start) - Lesser(s.end, t.end) >= MinGap
  BY <1>4 DEF Gap
<1>6. s.start \in Nat /\ s.end \in Nat /\ s.start < s.end /\ t.start \in Nat /\ t.end \in Nat /\ t.start < t.end
  BY SelectedAre
<1>. QED BY <1>4, <1>5, <1>6, GapKept

\* Two tasks of one worker never overlap.
LEMMA TasksApart ==
    ASSUME NEW p, SolverPayload(p), NEW sel, Selection(p, sel), OneTaskPerSlot(sel), Gap(sel),
           NEW v \in sel, NEW u \in sel, v # u, v.shift.worker = u.shift.worker
    PROVE  Apart(v, u)
<1>1. VarOK(p, v) /\ VarOK(p, u)
  BY DEF Selection
<1>2. MinutesOK(v) /\ MinutesOK(u)
  BY <1>1, MinutesAre
<1>3. CASE v.shift = u.shift
  <2>1. v.slot # u.slot
    BY <1>3 DEF OneTaskPerSlot
  <2>. QED BY <1>1, <1>3, <2>1, SlotsApart
<1>4. CASE v.shift # u.shift
  <2>. DEFINE s == v.shift  t == u.shift
  <2>1. /\ s.start \in Nat /\ s.end \in Nat /\ s.start < s.end /\ t.start \in Nat /\ t.end \in Nat /\ t.start < t.end
        /\ FirstMinute(v) \in Nat /\ EndMinute(v) \in Nat /\ FirstMinute(u) \in Nat /\ EndMinute(u) \in Nat
        /\ s.start <= FirstMinute(v) /\ EndMinute(v) <= s.end /\ t.start <= FirstMinute(u) /\ EndMinute(u) <= t.end
    BY <1>2 DEF MinutesOK
  <2>2. s \in SelectedShifts(sel) /\ t \in SelectedShifts(sel)
    BY DEF SelectedShifts
  <2>3. Greater(s.start, t.start) - Lesser(s.end, t.end) >= MinGap /\ Greater(t.start, s.start) - Lesser(t.end, s.end) >= MinGap
    BY <1>4, <2>2 DEF Gap
  <2>. HIDE DEF s, t
  <2>4. CASE s.start <= t.start
    <3>1. s.end <= t.start
      BY <2>1, <2>3, <2>4, GapKept
    <3>. QED BY <2>1, <3>1 DEF Apart
  <2>5. CASE t.start <= s.start
    <3>1. t.end <= s.start
      BY <2>1, <2>3, <2>5, GapKept
    <3>. QED BY <2>1, <3>1 DEF Apart
  <2>6. s.start <= t.start \/ t.start <= s.start
    BY <2>1
  <2>. QED BY <2>4, <2>5, <2>6
<1>. QED BY <1>3, <1>4

\* What the solver's own constraints allow, the independent check lets pass.
LEMMA SelectionPasses ==
    ASSUME NEW p, SolverPayload(p), NEW sel, Selection(p, sel), NEW b, b.weekCap = p.weekCap, Base(b, sel)
    PROVE  HardConstraintsHold(p, AssignmentsOf(sel), ShiftFacts(sel))
<1>. DEFINE asgs == AssignmentsOf(sel)  shifts == ShiftFacts(sel)
<1>1. OneTaskPerSlot(sel) /\ OneShiftPerWindow(sel) /\ DayCap(sel) /\ WeekCap(b, sel) /\ Gap(sel)
  BY DEF Base
<1>2. \A v \in sel : VarOK(p, v) /\ MinutesOK(v) /\ v.shift \in SelectedShifts(sel) /\ ShiftFact(v.shift) \in shifts
  BY MinutesAre, ShiftFactsAre DEF Selection, SelectedShifts
<1>3. \A a \in asgs : \E v \in sel : a = AssignmentOf(v)
  BY DEF AssignmentsOf
<1>4. \A v : /\ AssignmentOf(v).worker = v.shift.worker /\ AssignmentOf(v).task = v.task /\ AssignmentOf(v).shift = ShiftId(v.shift)
             /\ AssignmentOf(v).start = FirstMinute(v) /\ AssignmentOf(v).end = EndMinute(v)
  BY DEF AssignmentOf
<1>5. \A f \in shifts : \E v \in sel : f = ShiftFact(v.shift)
  BY ShiftFactsAre DEF SelectedShifts
<1>6. \A a \in asgs : \E s \in shifts : s.id = a.shift /\ s.worker = a.worker /\ s.start <= a.start /\ a.end <= s.end
  <2>1. SUFFICES ASSUME NEW a \in asgs
                 PROVE \E s \in shifts : s.id = a.shift /\ s.worker = a.worker /\ s.start <= a.start /\ a.end <= s.end
    OBVIOUS
  <2>2. PICK v \in sel : a = AssignmentOf(v)
    BY <1>3
  <2>. DEFINE f == ShiftFact(v.shift)
  <2>3. f \in shifts /\ MinutesOK(v)
    BY <1>2
  <2>4. f.id = a.shift /\ f.worker = a.worker /\ f.start = v.shift.start /\ f.end = v.shift.end
        /\ a.start = FirstMinute(v) /\ a.end = EndMinute(v)
    BY <1>4, <2>2, ShiftFactsAre
  <2>. HIDE DEF f
  <2>5. f.start <= a.start /\ a.end <= f.end
    BY <2>3, <2>4 DEF MinutesOK
  <2>. QED BY <2>3, <2>4, <2>5
<1>7. \A a, c \in asgs : (a # c /\ a.worker = c.worker) => (a.end <= c.start \/ c.end <= a.start)
  <2>1. SUFFICES ASSUME NEW a \in asgs, NEW c \in asgs, a # c, a.worker = c.worker PROVE a.end <= c.start \/ c.end <= a.start
    OBVIOUS
  <2>2. PICK v \in sel : a = AssignmentOf(v)
    BY <1>3
  <2>3. PICK u \in sel : c = AssignmentOf(u)
    BY <1>3
  <2>4. v # u /\ v.shift.worker = u.shift.worker
    BY <1>4, <2>1, <2>2, <2>3
  <2>5. Apart(v, u)
    BY <1>1, <2>4, TasksApart
  <2>. QED BY <1>4, <2>2, <2>3, <2>5 DEF Apart
<1>8. \A s \in shifts : \E a \in asgs : a.shift = s.id
  <2>1. SUFFICES ASSUME NEW s \in shifts PROVE \E a \in asgs : a.shift = s.id
    OBVIOUS
  <2>2. PICK v \in sel : s = ShiftFact(v.shift)
    BY <1>5
  <2>3. AssignmentOf(v) \in asgs
    BY DEF AssignmentsOf
  <2>. QED BY <1>4, <2>2, <2>3, ShiftFactsAre
<1>9. \A s, t \in shifts : (s.worker = t.worker /\ s.window = t.window) => s = t
  <2>1. SUFFICES ASSUME NEW s \in shifts, NEW t \in shifts, s.window = t.window PROVE s = t
    OBVIOUS
  <2>2. PICK x \in SelectedShifts(sel) : s = ShiftFact(x)
    BY ShiftFactsAre
  <2>3. PICK y \in SelectedShifts(sel) : t = ShiftFact(y)
    BY ShiftFactsAre
  <2>4. x.window = y.window
    BY <2>1, <2>2, <2>3, ShiftFactsAre
  <2>. QED BY <1>1, <2>2, <2>3, <2>4 DEF OneShiftPerWindow
<1>10. \A a \in asgs : \E i \in DOMAIN SolverQuals(p, a.worker) : SolverQuals(p, a.worker)[i].task = a.task
  <2>1. SUFFICES ASSUME NEW a \in asgs PROVE \E i \in DOMAIN SolverQuals(p, a.worker) : SolverQuals(p, a.worker)[i].task = a.task
    OBVIOUS
  <2>2. PICK v \in sel : a = AssignmentOf(v)
    BY <1>3
  <2>3. v.task \in TasksOf(p, v.shift.worker)
    BY <1>2 DEF VarOK
  <2>4. PICK i \in DOMAIN SolverQuals(p, v.shift.worker) : SolverQuals(p, v.shift.worker)[i].task = v.task
    BY <2>3 DEF TasksOf
  <2>5. a.worker = v.shift.worker /\ a.task = v.task
    BY <1>4, <2>2
  <2>. QED BY <2>4, <2>5
<1>11. \A f \in shifts :
          Cardinality({g \in shifts : g.worker = f.worker /\ g.start \div Day = f.start \div Day}) <= ShiftsPerDay
  BY <1>1, DayCapHolds
<1>12. \A f \in shifts : SumFunction([g \in {g \in shifts : g.worker = f.worker} |-> g.effective]) <= p.weekCap
  BY <1>1, WeekCapHolds
<1>13. \A f, g \in shifts : (f # g /\ f.worker = g.worker /\ f.start <= g.start) => g.start - f.end >= MinGap
  BY <1>1, GapHolds
<1>. HIDE DEF asgs, shifts
<1>14. HardConstraintsHold(p, asgs, shifts)
  BY <1>6, <1>7, <1>8, <1>9, <1>10, <1>11, <1>12, <1>13, Zenon DEF HardConstraintsHold
<1>. QED BY <1>14 DEF asgs, shifts

----------------------------------------------------------------------------
(* The model of the builder: rates, demand by hour, coverage.                *)

\* The library's sum of a function is its sum over its domain.
LEMMA SumFn == ASSUME NEW f PROVE SumFunction(f) = SumOf(f, DOMAIN f)
BY DEF SumFunction, SumOf

Constraints(o) ==
    /\ o \in Seq(ToSet(o))
    /\ \A x \in ToSet(o) : x.tool = "set_max_hours" => x.max \in Nat
    /\ \A x \in ToSet(o) : x.tool = "scale_demand" => x.factor \in Nat

\* The demand factor is natural, and 1 where nobody drafted one.
LEMMA FactorIs ==
    ASSUME NEW o, Constraints(o), NEW task
    PROVE  /\ Factor(o, task) \in Nat
           /\ (\A i \in DOMAIN o : o[i].tool # "scale_demand") => Factor(o, task) = 1
<1>. DEFINE n == Len(o)
            K == {i \in 1..n : o[i].tool = "scale_demand" /\ o[i].task = task}
            mine == Rows(o, LAMBDA i : o[i].tool = "scale_demand" /\ o[i].task = task, LAMBDA i : o[i].factor)
<1>1. n \in Nat /\ DOMAIN o = 1..n
  BY LenProperties DEF Constraints
<1>2. \A i \in K : o[i].factor \in Nat
  <2>1. SUFFICES ASSUME NEW i \in K PROVE o[i].factor \in Nat
    OBVIOUS
  <2>2. o[i] \in ToSet(o) /\ o[i].tool = "scale_demand"
    BY <1>1 DEF ToSet
  <2>. QED BY <2>2 DEF Constraints
<1>3. mine = [m \in DOMAIN InOrder(K) |-> o[InOrder(K)[m]].factor]
  BY DEF Rows
<1>4. Factor(o, task) = IF mine = <<>> THEN 1 ELSE mine[Len(mine)]
  BY DEF Factor
<1>5. K \in SUBSET (1..n) /\ ((\A i \in DOMAIN o : o[i].tool # "scale_demand") => K = {})
  BY <1>1
<1>. HIDE DEF K, mine, n
<1>6. /\ Cardinality(K) \in Nat /\ DOMAIN InOrder(K) = 1..Cardinality(K) /\ \A m \in 1..Cardinality(K) : InOrder(K)[m] \in K
  BY <1>1, <1>5, KeptRows
<1>7. mine = [m \in 1..Cardinality(K) |-> mine[m]] /\ DOMAIN mine = 1..Cardinality(K)
  BY <1>3, <1>6
<1>8. Len(mine) = Cardinality(K)
  BY <1>6, <1>7, ListIsSeq
<1>9. CASE Cardinality(K) = 0
  <2>1. DOMAIN mine = 1..0
    BY <1>7, <1>9
  <2>2. mine = <<>>
    BY <1>7, <1>9
  <2>. QED BY <1>4, <2>2
<1>10. CASE Cardinality(K) # 0
  <2>1. Len(mine) \in 1..Cardinality(K)
    BY <1>6, <1>8, <1>10
  <2>2. mine[Len(mine)] \in Nat
    BY <1>2, <1>3, <1>6, <2>1
  <2>3. K # {}
    BY <1>10, FS_EmptySet
  <2>4. Factor(o, task) \in Nat
    BY <1>4, <2>2
  <2>5. ~(\A i \in DOMAIN o : o[i].tool # "scale_demand")
    BY <1>5, <2>3
  <2>. QED BY <2>4, <2>5
<1>. QED BY <1>9, <1>10

\* An overlap is a natural number.
LEMMA OverlapIs ==
    ASSUME NEW s \in Int, NEW e \in Int, NEW t \in Int, NEW u \in Int PROVE OverlapOf(s, e, t, u) \in Nat
BY DEF OverlapOf, Greater, Lesser

\* The minutes of a band in an hour are a natural number.
LEMMA InHourIs ==
    ASSUME NEW p, NEW b, Bounded(p, b), NEW h \in Nat PROVE InHour(b, h) \in Nat
<1>1. Hour * h \in Int /\ Hour * (h + 1) \in Int
  BY SolverAssumption
<1>2. b.start \in Int /\ b.end \in Int
  BY DEF Bounded
<1>. DEFINE t == Hour * h  u == Hour * (h + 1)
<1>3. InHour(b, h) = OverlapOf(b.start, b.end, t, u)
  BY DEF InHour
<1>. HIDE DEF t, u
<1>. QED BY <1>1, <1>2, <1>3, OverlapIs DEF t, u

\* What one band asks of an hour, and a whole listing of what does.
Volume(b, f, task, h) ==
    IF b.task = task /\ b.family # Indirect THEN b.amount * f * InHour(b, h) * (Scale \div (b.end - b.start)) ELSE 0
Heads(b, f, task, h) == IF b.task = task /\ b.family = Indirect /\ InHour(b, h) > 0 THEN b.amount * f ELSE 0

\* The hourly demand of a task is a sum over the rows of demand.
LEMMA SumSeqs ==
    ASSUME NEW p, NEW o, NEW task, NEW h
    PROVE  LET D == SolverDemand(p) IN
           /\ VolDemand(p, o, task, h) = SumOf([i \in DOMAIN D |-> Volume(D[i], Factor(o, task), task, h)], DOMAIN D)
           /\ HcDemand(p, o, task, h) = SumOf([i \in DOMAIN D |-> Heads(D[i], Factor(o, task), task, h)], DOMAIN D)
<1>. DEFINE D == SolverDemand(p)
            f == [i \in DOMAIN D |-> Volume(D[i], Factor(o, task), task, h)]
            g == [i \in DOMAIN D |-> Heads(D[i], Factor(o, task), task, h)]
<1>1. VolDemand(p, o, task, h) = SumFunction(f)
  BY DEF VolDemand, SumSeq, Volume
<1>2. HcDemand(p, o, task, h) = SumFunction(g)
  BY DEF HcDemand, SumSeq, Heads
<1>3. DOMAIN f = DOMAIN D /\ DOMAIN g = DOMAIN D
  OBVIOUS
<1>. HIDE DEF f, g, D
<1>4. VolDemand(p, o, task, h) = SumOf(f, DOMAIN D) /\ HcDemand(p, o, task, h) = SumOf(g, DOMAIN D)
  BY <1>1, <1>2, <1>3, SumFn
<1>. QED BY <1>4 DEF f, g, D

\* What a band asks of an hour is an integer.
LEMMA BandIs ==
    ASSUME NEW p, NEW b, Bounded(p, b), NEW f \in Nat, NEW task, NEW h \in Nat
    PROVE  Volume(b, f, task, h) \in Int /\ Heads(b, f, task, h) \in Int
<1>1. InHour(b, h) \in Nat /\ b.amount \in Nat
  BY InHourIs DEF Bounded
<1>2. Scale \div (b.end - b.start) \in Int
  <2>1. b.end - b.start \in Nat \ {0} /\ Scale \in Nat
    BY SolverAssumption DEF Bounded
  <2>. QED BY <2>1
<1>3. b.amount * f \in Int
  BY <1>1
<1>4. b.amount * f * InHour(b, h) \in Int
  BY <1>1, <1>3
<1>5. b.amount * f * InHour(b, h) * (Scale \div (b.end - b.start)) \in Int
  BY <1>2, <1>4
<1>. QED BY <1>3, <1>5 DEF Volume, Heads

\* The hourly demand of a task is an integer.
LEMMA DemandTyped ==
    ASSUME NEW p, SolverPayload(p), NEW o, Constraints(o), NEW task, NEW h \in Nat
    PROVE  VolDemand(p, o, task, h) \in Int /\ HcDemand(p, o, task, h) \in Int
<1>. DEFINE D == SolverDemand(p)
            f == [i \in DOMAIN D |-> Volume(D[i], Factor(o, task), task, h)]
            g == [i \in DOMAIN D |-> Heads(D[i], Factor(o, task), task, h)]
<1>1. Len(D) \in Nat /\ DOMAIN D = 1..Len(D) /\ \A i \in DOMAIN D : Bounded(p, D[i])
  BY DemandIs
<1>2. IsFiniteSet(DOMAIN D)
  BY <1>1, BetweenFinite
<1>3. \A i \in DOMAIN D : f[i] \in Int /\ g[i] \in Int
  BY <1>1, FactorIs, BandIs
<1>4. VolDemand(p, o, task, h) = SumOf(f, DOMAIN D) /\ HcDemand(p, o, task, h) = SumOf(g, DOMAIN D)
  BY SumSeqs
<1>. HIDE DEF f, g, D
<1>. QED BY <1>2, <1>3, <1>4, SumType

\* The hours of the horizon are finitely many.
LEMMA HoursAre ==
    ASSUME NEW p, SolverPayload(p) PROVE Hours(p) \subseteq Nat /\ IsFiniteSet(Hours(p)) /\ p.horizon \div Hour \in Nat
<1>1. p.horizon \in Nat /\ Hour \in Nat \ {0}
  BY PayloadFacts, SolverAssumption
<1>2. p.horizon \div Hour \in Nat
  BY <1>1
<1>3. IsFiniteSet(0..(p.horizon \div Hour))
  BY <1>2, BetweenFinite
<1>. QED BY <1>2, <1>3 DEF Hours

\* The tasks of a payload are finitely many.
LEMMA TaskIdsFinite ==
    ASSUME NEW p, SolverPayload(p) PROVE IsFiniteSet(TaskIds(p))
<1>. DEFINE h == [i \in DOMAIN p.tasks |-> p.tasks[i].id]
<1>1. IsFiniteSet(DOMAIN p.tasks) /\ DOMAIN h = DOMAIN p.tasks
  BY PayloadFacts, BetweenFinite
<1>2. TaskIds(p) \subseteq {h[i] : i \in DOMAIN p.tasks}
  BY DEF TaskIds
<1>. HIDE DEF h
<1>3. IsFiniteSet({h[i] : i \in DOMAIN p.tasks})
  BY <1>1, ImageFinite
<1>. QED BY <1>2, <1>3, FS_Subset

RatesAt(p, task, m) == {<<m, i>> : i \in {i \in DOMAIN MemberQuals(p, m) : MemberQuals(p, m)[i].task = task}}

\* The qualified members of a task are finitely many, with natural rates.
LEMMA RatesAre ==
    ASSUME NEW p, SolverPayload(p), NEW task
    PROVE  /\ IsFiniteSet(RatesOf(p, task))
           /\ \A x \in RatesOf(p, task) : x[1] \in SolverMembers(p) /\ x[2] \in DOMAIN MemberQuals(p, x[1]) /\ x = <<x[1], x[2]>>
                                          /\ MemberQuals(p, x[1])[x[2]].task = task
           /\ \A m \in SolverMembers(p) : \A i \in DOMAIN MemberQuals(p, m) :
                 MemberQuals(p, m)[i].task = task => <<m, i>> \in RatesOf(p, task)
<1>. DEFINE M == SolverMembers(p)  F == [m \in M |-> RatesAt(p, task, m)]
<1>1. RatesOf(p, task) = UNION {F[m] : m \in M}
  <2>1. RatesOf(p, task) = UNION {RatesAt(p, task, m) : m \in M}
    BY DEF RatesOf, RatesAt, MemberQuals
  <2>. HIDE DEF M
  <2>2. {RatesAt(p, task, m) : m \in M} = {F[m] : m \in M}
    BY Zenon
  <2>. QED BY <2>1, <2>2
<1>2. \A m \in M : IsFiniteSet(F[m])
  <2>1. SUFFICES ASSUME NEW m \in M PROVE IsFiniteSet(RatesAt(p, task, m))
    OBVIOUS
  <2>. DEFINE K == {i \in DOMAIN MemberQuals(p, m) : MemberQuals(p, m)[i].task = task}  h == [i \in K |-> <<m, i>>]
  <2>2. DOMAIN MemberQuals(p, m) = 1..Len(MemberQuals(p, m)) /\ Len(MemberQuals(p, m)) \in Nat
    BY QualsAre DEF MemberQuals
  <2>3. IsFiniteSet(DOMAIN MemberQuals(p, m))
    BY <2>2, BetweenFinite
  <2>4. IsFiniteSet(K)
    BY <2>3, FS_Subset
  <2>5. RatesAt(p, task, m) = {h[i] : i \in K}
    BY DEF RatesAt
  <2>6. DOMAIN h = K
    OBVIOUS
  <2>. HIDE DEF h, K
  <2>. QED BY <2>4, <2>5, <2>6, ImageFinite
<1>3. IsFiniteSet(RatesOf(p, task))
  <2>1. DOMAIN F = M /\ IsFiniteSet(M)
    BY MembersFinite
  <2>. HIDE DEF F, M
  <2>. QED BY <1>1, <1>2, <2>1, UnionFinite
<1>4. ASSUME NEW x \in RatesOf(p, task)
      PROVE  x[1] \in SolverMembers(p) /\ x[2] \in DOMAIN MemberQuals(p, x[1]) /\ x = <<x[1], x[2]>> /\ MemberQuals(p, x[1])[x[2]].task = task
  <2>1. PICK m \in M : x \in RatesAt(p, task, m)
    BY <1>1, <1>4
  <2>2. PICK i \in DOMAIN MemberQuals(p, m) : x = <<m, i>> /\ MemberQuals(p, m)[i].task = task
    BY <2>1 DEF RatesAt
  <2>. QED BY <2>2
<1>5. ASSUME NEW m \in SolverMembers(p), NEW i \in DOMAIN MemberQuals(p, m), MemberQuals(p, m)[i].task = task
      PROVE  <<m, i>> \in RatesOf(p, task)
  <2>1. <<m, i>> \in RatesAt(p, task, m)
    BY <1>5 DEF RatesAt
  <2>. QED BY <1>1, <2>1
<1>. QED BY <1>3, <1>4, <1>5

\* A reference rate is a pair of natural numbers.
LEMMA RefRateIs ==
    ASSUME NEW p, SolverPayload(p), NEW task
    PROVE  RefRate(p, task)[1] \in Nat /\ RefRate(p, task)[2] \in Nat
<1>. DEFINE S == RatesOf(p, task)
            f == [x \in S |-> MemberQuals(p, x[1])[x[2]].rate]
<1>1. IsFiniteSet(S) /\ Cardinality(S) \in Nat
  BY RatesAre, FS_CardinalityType
<1>2. \A x \in S : f[x] \in Nat
  <2>1. SUFFICES ASSUME NEW x \in S PROVE f[x] \in Nat
    OBVIOUS
  <2>2. x[2] \in DOMAIN MemberQuals(p, x[1])
    BY RatesAre
  <2>3. MemberQuals(p, x[1])[x[2]].rate \in Nat
    BY <2>2, QualsAre DEF MemberQuals
  <2>. QED BY <2>3
<1>3. RefRate(p, task) = <<SumFunction(f), Cardinality(S)>>
  BY DEF RefRate
<1>4. DOMAIN f = S
  OBVIOUS
<1>. HIDE DEF f, S
<1>5. SumFunction(f) \in Nat
  BY <1>1, <1>2, <1>4, SumFn, SumNat
<1>. QED BY <1>1, <1>3, <1>5

\* The hours a volume is worth are an integer, also without any rate.
LEMMA PerVolumeIs ==
    ASSUME NEW p, SolverPayload(p), NEW task PROVE HoursPerVolume(p, task) \in Int
<1>. DEFINE r == RefRate(p, task)
<1>1. r[1] \in Nat /\ r[2] \in Nat
  BY RefRateIs
<1>2. HoursPerVolume(p, task) = IF r[1] = 0 THEN 1 ELSE Greater(1, (HourScale * r[2]) \div (Scale * r[1]))
  BY DEF HoursPerVolume
<1>. HIDE DEF r
<1>3. CASE r[1] = 0
  BY <1>2, <1>3
<1>4. CASE r[1] # 0
  <2>1. Scale \in Nat \ {0} /\ HourScale \in Nat /\ r[1] \in Nat \ {0}
    BY <1>1, <1>4, SolverAssumption
  <2>2. HourScale * r[2] \in Int
    BY <1>1, <2>1
  <2>3. Scale * r[1] \in Int /\ Scale * r[1] > 0
    BY <2>1
  <2>4. (HourScale * r[2]) \div (Scale * r[1]) \in Int
    BY <2>2, <2>3
  <2>. QED BY <1>2, <1>4, <2>4 DEF Greater
<1>. QED BY <1>3, <1>4

\* The rate of a member for a task is an integer, 0 without a qualification.
LEMMA RateForIs ==
    ASSUME NEW p, SolverPayload(p), NEW w, NEW task PROVE RateFor(p, w, task) \in Int
<1>. DEFINE q == SolverQuals(p, w)
            K == {i \in 1..Len(q) : q[i].task = task}
            mine == Rows(q, LAMBDA i : q[i].task = task, LAMBDA i : q[i].rate)
<1>1. Len(q) \in Nat /\ DOMAIN q = 1..Len(q) /\ \A i \in DOMAIN q : q[i].rate \in Nat \ {0}
  BY QualsAre
<1>2. mine = [m \in DOMAIN InOrder(K) |-> q[InOrder(K)[m]].rate]
  BY DEF Rows
<1>3. RateFor(p, w, task) = IF mine = <<>> THEN 0 ELSE mine[1]
  BY DEF RateFor
<1>4. K \in SUBSET (1..Len(q))
  OBVIOUS
<1>. HIDE DEF K, mine, q
<1>5. /\ Cardinality(K) \in Nat /\ DOMAIN InOrder(K) = 1..Cardinality(K) /\ \A m \in 1..Cardinality(K) : InOrder(K)[m] \in K
  BY <1>1, <1>4, KeptRows
<1>6. CASE Cardinality(K) = 0
  <2>1. mine = <<>>
    BY <1>2, <1>5, <1>6
  <2>. QED BY <1>3, <2>1
<1>7. CASE Cardinality(K) # 0
  <2>1. 1 \in 1..Cardinality(K)
    BY <1>5, <1>7
  <2>2. InOrder(K)[1] \in 1..Len(q)
    BY <1>4, <1>5, <2>1
  <2>3. mine[1] \in Nat
    BY <1>1, <1>2, <1>5, <2>1, <2>2
  <2>. QED BY <1>3, <2>3
<1>. QED BY <1>6, <1>7

MemberIds(p) == {p.workers[m] : m \in SolverMembers(p)}

\* What the builder holds, field by field.
LEMMA BuildIs ==
    ASSUME NEW p, SolverPayload(p), NEW o, Constraints(o)
    PROVE  LET b == Build(p, o) IN
           /\ DOMAIN b.vol = TaskIds(p) \X Hours(p) /\ DOMAIN b.hc = TaskIds(p) \X Hours(p)
           /\ \A x \in DOMAIN b.vol : b.vol[x] \in Int /\ b.hc[x] \in Int
           /\ IsFiniteSet(b.vars) /\ \A v \in b.vars : VarOK(p, v)
           /\ b.weekCap = p.weekCap
           /\ \A w \in MemberIds(p) : \A t \in TaskIds(p) : b.rate[<<w, t>>] \in Int
           /\ \A t \in TaskIds(p) : b.perVol[t] \in Int
           /\ IsFiniteSet(b.rosters) /\ \A r \in b.rosters : r[2][1] \in Int /\ r[2][2] \in Int
<1>. DEFINE b == Build(p, o)
            cells == TaskIds(p) \X Hours(p)
            vol == [x \in cells |-> VolDemand(p, o, x[1], x[2])]
            hc == [x \in cells |-> HcDemand(p, o, x[1], x[2])]
            demanded == {x \in cells : vol[x] > 0 \/ hc[x] > 0}
            rosters == {<<v.shift.window, Clip(p, p.windows[v.shift.window].start, p.windows[v.shift.window].end)>> :
                         v \in {u \in b.vars : u.shift.kind = "roster"}}
<1>1. /\ b.vol = vol /\ b.hc = hc /\ b.vars = TaskVars(p, demanded) /\ b.weekCap = p.weekCap
      /\ b.rate = [x \in MemberIds(p) \X TaskIds(p) |-> RateFor(p, x[1], x[2])]
      /\ b.perVol = [t \in TaskIds(p) |-> HoursPerVolume(p, t)]
      /\ b.rosters = rosters
  BY DEF Build, MemberIds
<1>2. \A x \in cells : vol[x] \in Int /\ hc[x] \in Int
  <2>1. SUFFICES ASSUME NEW x \in cells PROVE VolDemand(p, o, x[1], x[2]) \in Int /\ HcDemand(p, o, x[1], x[2]) \in Int
    OBVIOUS
  <2>2. x[2] \in Nat
    BY HoursAre
  <2>. QED BY <2>2, DemandTyped
<1>3. IsFiniteSet(b.vars) /\ \A v \in b.vars : VarOK(p, v)
  <2>. HIDE DEF demanded, b
  <2>. QED BY <1>1, VarsAre
<1>. DEFINE R == {u \in b.vars : u.shift.kind = "roster"}
            h == [v \in R |-> <<v.shift.window, Clip(p, p.windows[v.shift.window].start, p.windows[v.shift.window].end)>>]
<1>4. IsFiniteSet(rosters)
  <2>1. IsFiniteSet(R)
    BY <1>3, FS_Subset
  <2>2. rosters = {h[v] : v \in R} /\ DOMAIN h = R
    OBVIOUS
  <2>. HIDE DEF rosters, h, R
  <2>. QED BY <2>1, <2>2, ImageFinite
<1>5. \A r \in rosters : r[2][1] \in Int /\ r[2][2] \in Int
  <2>1. SUFFICES ASSUME NEW v \in b.vars
                 PROVE LET c == Clip(p, p.windows[v.shift.window].start, p.windows[v.shift.window].end) IN c[1] \in Int /\ c[2] \in Int
    OBVIOUS
  <2>2. v.shift.window \in 1..Len(p.windows) /\ Survives(p, p.windows[v.shift.window].start, p.windows[v.shift.window].end)
    BY <1>3 DEF VarOK, ShiftOK
  <2>3. p.windows[v.shift.window].start \in Int /\ p.windows[v.shift.window].end \in Int /\ p.horizon \in Nat
    BY <2>2, PayloadFacts
  <2>. QED BY <2>2, <2>3, ClipIs
<1>6. \A w \in MemberIds(p) : \A t \in TaskIds(p) : b.rate[<<w, t>>] \in Int
  <2>1. SUFFICES ASSUME NEW w \in MemberIds(p), NEW t \in TaskIds(p) PROVE b.rate[<<w, t>>] \in Int
    OBVIOUS
  <2>. HIDE DEF b
  <2>2. b.rate[<<w, t>>] = RateFor(p, w, t)
    BY <1>1
  <2>. QED BY <2>2, RateForIs
<1>7. \A t \in TaskIds(p) : b.perVol[t] \in Int
  <2>. HIDE DEF b
  <2>. QED BY <1>1, PerVolumeIs
<1>. HIDE DEF vol, hc, rosters, b, demanded
<1>8. DOMAIN vol = cells /\ DOMAIN hc = cells
  BY DEF vol, hc
<1>. QED BY <1>1, <1>2, <1>3, <1>4, <1>5, <1>6, <1>7, <1>8 DEF b

\* The minutes of a variable in an hour are a natural number.
LEMMA InSlotIs ==
    ASSUME NEW p, SolverPayload(p), NEW v, VarOK(p, v), NEW h PROVE InSlot(v, h) \in Nat
<1>1. IsFiniteSet(v.minutes)
  BY MinutesAre DEF MinutesOK
<1>2. IsFiniteSet({m \in v.minutes : m \div Hour = h})
  BY <1>1, FS_Subset
<1>. QED BY <1>2, FS_CardinalityType DEF InSlot

\* What one task variable serves of a volume.
Serves(b, v, h) == (b.rate[<<v.shift.worker, v.task>>] * InSlot(v, h) * Scale * 100) \div (110 * Hour)

\* What a variable serves of a volume is an integer.
LEMMA ServesIs ==
    ASSUME NEW p, SolverPayload(p), NEW o, Constraints(o), NEW v, VarOK(p, v), NEW h
    PROVE  Serves(Build(p, o), v, h) \in Int
<1>. DEFINE b == Build(p, o)
            r == b.rate[<<v.shift.worker, v.task>>]
<1>1. v.shift.worker \in MemberIds(p) /\ v.task \in TaskIds(p)
  BY TasksOfFinite DEF VarOK, ShiftOK, MemberIds
<1>2. r \in Int
  BY <1>1, BuildIs
<1>3. InSlot(v, h) \in Int
  BY InSlotIs
<1>4. Scale \in Int /\ 110 * Hour \in Nat /\ 110 * Hour > 0
  BY SolverAssumption
<1>5. Serves(b, v, h) = (r * InSlot(v, h) * Scale * 100) \div (110 * Hour)
  BY DEF Serves
<1>. HIDE DEF b, r
<1>6. r * InSlot(v, h) * Scale * 100 \in Int
  BY <1>2, <1>3, <1>4
<1>7. Serves(b, v, h) \in Int
  BY <1>4, <1>5, <1>6
<1>. QED BY <1>7 DEF b

\* What a selection leaves unmet in one hour of a task is an integer.
LEMMA UnmetCellIs ==
    ASSUME NEW p, SolverPayload(p), NEW o, Constraints(o), NEW sel, Selection(p, sel), NEW x \in DOMAIN Build(p, o).vol
    PROVE  UnmetVolume(Build(p, o), sel, x) \in Int /\ UnmetHeads(Build(p, o), sel, x) \in Int
<1>. DEFINE b == Build(p, o)
            B == Bodies(sel, x[1], x[2])
            f == [v \in B |-> Serves(b, v, x[2])]
<1>1. IsFiniteSet(B) /\ \A v \in B : VarOK(p, v)
  <2>1. B \subseteq sel /\ IsFiniteSet(sel)
    BY DEF Bodies, Selection
  <2>. QED BY <2>1, FS_Subset DEF Selection
<1>2. b.vol[x] \in Int /\ b.hc[x] \in Int
  BY BuildIs
<1>3. \A v \in B : f[v] \in Int
  BY <1>1, ServesIs
<1>4. UnmetVolume(b, sel, x) = Greater(0, b.vol[x] - SumFunction(f))
  BY DEF UnmetVolume, Serves
<1>5. UnmetHeads(b, sel, x) = Greater(0, b.hc[x] - Cardinality(B))
  BY DEF UnmetHeads
<1>6. DOMAIN f = B
  OBVIOUS
<1>. HIDE DEF f, B, b
<1>7. SumFunction(f) \in Int /\ Cardinality(B) \in Int
  BY <1>1, <1>3, <1>6, SumFn, SumType, FS_CardinalityType
<1>8. UnmetVolume(b, sel, x) \in Int /\ UnmetHeads(b, sel, x) \in Int
  BY <1>2, <1>4, <1>5, <1>7 DEF Greater
<1>. QED BY <1>8 DEF b

\* The round-1 objective of a selection is an integer.
LEMMA UnmetIs ==
    ASSUME NEW p, SolverPayload(p), NEW o, Constraints(o), NEW sel, Selection(p, sel)
    PROVE  Unmet(Build(p, o), sel) \in Int
<1>. DEFINE b == Build(p, o)
            S == {x \in DOMAIN b.vol : b.vol[x] > 0 \/ b.hc[x] > 0}
            f == [x \in S |-> IF x[1] \in b.ind THEN HourScale * UnmetHeads(b, sel, x) ELSE b.perVol[x[1]] * UnmetVolume(b, sel, x)]
            R == {r \in b.rosters : ~\E v \in sel : v.shift.window = r[1]}
            g == [r \in R |-> Greater(1, ((r[2][2] - r[2][1]) * HourScale) \div Hour)]
<1>1. IsFiniteSet(S)
  <2>1. DOMAIN b.vol = TaskIds(p) \X Hours(p)
    BY BuildIs
  <2>2. IsFiniteSet(TaskIds(p) \X Hours(p))
    BY TaskIdsFinite, HoursAre, FS_Product
  <2>. HIDE DEF b
  <2>. QED BY <2>1, <2>2, FS_Subset
<1>2. \A x \in S : f[x] \in Int
  <2>1. SUFFICES ASSUME NEW x \in S
                 PROVE HourScale * UnmetHeads(b, sel, x) \in Int /\ b.perVol[x[1]] * UnmetVolume(b, sel, x) \in Int
    OBVIOUS
  <2>2. x \in DOMAIN b.vol
    OBVIOUS
  <2>3. UnmetVolume(b, sel, x) \in Int /\ UnmetHeads(b, sel, x) \in Int
    BY <2>2, UnmetCellIs
  <2>4. x[1] \in TaskIds(p)
    BY <2>2, BuildIs
  <2>5. b.perVol[x[1]] \in Int /\ HourScale \in Int
    BY <2>4, BuildIs, SolverAssumption
  <2>. HIDE DEF b, S
  <2>. QED BY <2>3, <2>5
<1>3. IsFiniteSet(R) /\ \A r \in b.rosters : r[2][1] \in Int /\ r[2][2] \in Int
  <2>1. IsFiniteSet(b.rosters) /\ \A r \in b.rosters : r[2][1] \in Int /\ r[2][2] \in Int
    BY BuildIs
  <2>. HIDE DEF b
  <2>. QED BY <2>1, FS_Subset
<1>4. \A r \in R : g[r] \in Int
  <2>1. SUFFICES ASSUME NEW r \in R PROVE Greater(1, ((r[2][2] - r[2][1]) * HourScale) \div Hour) \in Int
    OBVIOUS
  <2>2. r[2][1] \in Int /\ r[2][2] \in Int /\ HourScale \in Int /\ Hour \in Nat /\ Hour > 0
    BY <1>3, SolverAssumption
  <2>3. (r[2][2] - r[2][1]) * HourScale \in Int
    BY <2>2
  <2>4. ((r[2][2] - r[2][1]) * HourScale) \div Hour \in Int
    BY <2>2, <2>3
  <2>. QED BY <2>4 DEF Greater
<1>5. Unmet(b, sel) = SumFunction(f) + SumFunction(g)
  BY DEF Unmet
<1>6. DOMAIN f = S /\ DOMAIN g = R
  OBVIOUS
<1>. HIDE DEF f, g, S, R, b
<1>7. SumFunction(f) \in Int /\ SumFunction(g) \in Int
  BY <1>1, <1>2, <1>3, <1>4, <1>6, SumFn, SumType
<1>8. Unmet(b, sel) \in Int
  BY <1>5, <1>7
<1>. QED BY <1>8 DEF b

\* The week of a worker is natural, and 0 without a selected shift.
LEMMA WeekHoursAre ==
    ASSUME NEW p, SolverPayload(p), NEW sel, Selection(p, sel), NEW w
    PROVE  /\ WeekHours(sel, w) \in Nat
           /\ (\A s \in SelectedShifts(sel) : s.worker # w) => WeekHours(sel, w) = 0
<1>. DEFINE A == {s \in SelectedShifts(sel) : s.worker = w}
            f == [s \in A |-> Effective(s.tpl)]
<1>1. IsFiniteSet(A) /\ \A s \in A : Effective(s.tpl) \in Nat
  BY SelectedAre, FS_Subset
<1>2. WeekHours(sel, w) = SumFunction(f)
  BY DEF WeekHours
<1>3. DOMAIN f = A /\ \A s \in A : f[s] \in Nat
  BY <1>1
<1>4. (\A s \in SelectedShifts(sel) : s.worker # w) => A = {}
  OBVIOUS
<1>. HIDE DEF f, A
<1>5. WeekHours(sel, w) = SumOf(f, A)
  BY <1>2, <1>3, SumFn
<1>6. SumOf(f, A) \in Nat
  BY <1>1, <1>3, SumNat
<1>7. A = {} => SumOf(f, A) = 0
  BY SumNone
<1>. QED BY <1>4, <1>5, <1>6, <1>7

\* A soft cap has room for every selection within the hard one.
LEMMA SoftCapHolds ==
    ASSUME NEW p, SolverPayload(p), NEW b, b.weekCap = p.weekCap, NEW o, Constraints(o), NEW i \in DOMAIN o,
           NEW sel, Selection(p, sel), WeekCap(b, sel)
    PROVE  OverrideHolds(b, o[i], sel)
<1>. DEFINE x == o[i]
<1>1. SUFFICES ASSUME x.tool = "set_max_hours" PROVE OverrideSlack(b, x, sel) <= MaxHoursBound(b, x)
  BY DEF OverrideHolds
<1>2. x \in ToSet(o)
  BY DEF ToSet
<1>3. x.max \in Nat
  BY <1>1, <1>2 DEF Constraints
<1>4. OverrideSlack(b, x, sel) = Greater(0, WeekHours(sel, x.worker) - x.max)
  BY <1>1 DEF OverrideSlack
<1>5. WeekHours(sel, x.worker) \in Nat /\ b.weekCap \in Nat
  BY WeekHoursAre, PayloadFacts
<1>6. WeekHours(sel, x.worker) <= b.weekCap
  <2>1. CASE \E s \in SelectedShifts(sel) : s.worker = x.worker
    BY <2>1 DEF WeekCap
  <2>2. CASE ~\E s \in SelectedShifts(sel) : s.worker = x.worker
    <3>1. WeekHours(sel, x.worker) = 0
      BY <2>2, WeekHoursAre
    <3>. QED BY <1>5, <3>1
  <2>. QED BY <2>1, <2>2
<1>. HIDE DEF x
<1>7. Greater(0, WeekHours(sel, x.worker) - x.max) <= Greater(0, b.weekCap - x.max)
  BY <1>3, <1>5, <1>6 DEF Greater
<1>. QED BY <1>4, <1>7 DEF MaxHoursBound

\* The solutions of the built model: selections that keep the solver's constraints.
LEMMA SolutionsAre ==
    ASSUME NEW p, SolverPayload(p), NEW o, Constraints(o)
    PROVE  LET b == Build(p, o) IN
           /\ \A x \in Solutions(b, o) : /\ Selection(p, x.sel) /\ x.sel \subseteq b.vars /\ Base(b, x.sel)
                                         /\ x.unmet = Unmet(b, x.sel) /\ x.unmet \in Int
           /\ \A sel \in SUBSET b.vars : Base(b, sel) => \E x \in Solutions(b, o) : x.sel = sel /\ x.unmet = Unmet(b, sel)
<1>. DEFINE b == Build(p, o)
<1>1. IsFiniteSet(b.vars) /\ (\A v \in b.vars : VarOK(p, v)) /\ b.weekCap = p.weekCap
  BY BuildIs
<1>2. \A sel \in SUBSET b.vars : Selection(p, sel)
  <2>. HIDE DEF b
  <2>. QED BY <1>1, FS_Subset DEF Selection
<1>3. ASSUME NEW x \in Solutions(b, o)
      PROVE  Selection(p, x.sel) /\ x.sel \subseteq b.vars /\ Base(b, x.sel) /\ x.unmet = Unmet(b, x.sel) /\ x.unmet \in Int
  <2>1. PICK sel \in SUBSET b.vars : Base(b, sel) /\ x = [sel |-> sel, unmet |-> Unmet(b, sel), cost |-> Cost(b, o, sel)]
    <3>. HIDE DEF b
    <3>. QED BY <1>3 DEF Solutions
  <2>2. x.sel = sel /\ x.unmet = Unmet(b, sel)
    BY <2>1
  <2>3. Unmet(b, sel) \in Int
    BY <1>2, UnmetIs
  <2>. HIDE DEF b
  <2>. QED BY <1>2, <2>1, <2>2, <2>3
<1>4. ASSUME NEW sel \in SUBSET b.vars, Base(b, sel)
      PROVE  \E x \in Solutions(b, o) : x.sel = sel /\ x.unmet = Unmet(b, sel)
  <2>. DEFINE x == [sel |-> sel, unmet |-> Unmet(b, sel), cost |-> Cost(b, o, sel)]
  <2>. HIDE DEF b
  <2>1. \A i \in DOMAIN o : OverrideHolds(b, o[i], sel)
    BY <1>1, <1>2, <1>4, SoftCapHolds DEF Base
  <2>2. x \in Solutions(b, o)
    BY <1>4, <2>1 DEF Solutions
  <2>. QED BY <2>2
<1>. HIDE DEF b
<1>. QED BY <1>3, <1>4 DEF b

\* Nobody working is a solution.
LEMMA IdleIsSolution ==
    ASSUME NEW p, SolverPayload(p), NEW o, Constraints(o) PROVE Solutions(Build(p, o), o) # {}
<1>. DEFINE b == Build(p, o)
<1>1. SelectedShifts({}) = {}
  BY DEF SelectedShifts
<1>2. Base(b, {})
  BY <1>1 DEF Base, OneTaskPerSlot, OneShiftPerWindow, DayCap, WeekCap, Gap
<1>3. {} \in SUBSET b.vars
  OBVIOUS
<1>. QED BY <1>2, <1>3, SolutionsAre

\* Preferences that scale no demand leave the built model as it is.
LEMMA SameModel ==
    ASSUME NEW p, NEW o, Constraints(o), NEW n, Constraints(n),
           \A i \in DOMAIN o : o[i].tool # "scale_demand", \A i \in DOMAIN n : n[i].tool # "scale_demand"
    PROVE  Build(p, o) = Build(p, n)
<1>1. \A t : Factor(o, t) = 1 /\ Factor(n, t) = 1
  BY FactorIs
<1>2. ASSUME NEW t, NEW h PROVE VolDemand(p, o, t, h) = VolDemand(p, n, t, h) /\ HcDemand(p, o, t, h) = HcDemand(p, n, t, h)
  <2>. DEFINE D == SolverDemand(p)
              V(f) == SumOf([i \in DOMAIN D |-> Volume(D[i], f, t, h)], DOMAIN D)
              H(f) == SumOf([i \in DOMAIN D |-> Heads(D[i], f, t, h)], DOMAIN D)
  <2>1. VolDemand(p, o, t, h) = V(Factor(o, t)) /\ HcDemand(p, o, t, h) = H(Factor(o, t))
    BY SumSeqs
  <2>2. VolDemand(p, n, t, h) = V(Factor(n, t)) /\ HcDemand(p, n, t, h) = H(Factor(n, t))
    BY SumSeqs
  <2>. HIDE DEF V, H
  <2>. QED BY <1>1, <2>1, <2>2
<1>. QED BY <1>2 DEF Build

----------------------------------------------------------------------------
(* Volumes and hours.                                                        *)

\* The minutes of a band before minute x.
Before(b, x) == Greater(0, Lesser(b.end, x) - b.start)

\* A number lies before the end of the hour it falls in.
LEMMA DayEnd ==
    ASSUME NEW a \in Nat, NEW b \in Nat \ {0} PROVE a < b * ((a \div b) + 1)
<1>1. a \div b \in Nat /\ a < (a \div b) * b + b
  OBVIOUS
<1>. DEFINE q == a \div b
<1>2. q \in Nat /\ a < q * b + b
  BY <1>1
<1>. HIDE DEF q
<1>3. b * (q + 1) = q * b + b
  BY <1>2
<1>4. a < b * (q + 1)
  BY <1>2, <1>3
<1>. QED BY <1>4 DEF q

\* The minutes of a band in [x, y) are those before y less those before x.
LEMMA BeforeGrows ==
    ASSUME NEW p, NEW b, Bounded(p, b), NEW x \in Nat, NEW y \in Nat, x <= y
    PROVE  /\ Before(b, x) \in Nat /\ Before(b, y) \in Nat
           /\ OverlapOf(b.start, b.end, x, y) = Before(b, y) - Before(b, x)
<1>1. b.start \in Nat /\ b.end \in Nat /\ b.start < b.end
  BY DEF Bounded
<1>. QED BY <1>1 DEF Before, OverlapOf, Greater, Lesser

\* A product distributes over a difference.
LEMMA Spread ==
    ASSUME NEW k \in Int, NEW x \in Int, NEW y \in Int, NEW q \in Int
    PROVE  k * (x - y) * q = k * x * q - k * y * q
OBVIOUS

\* A product of three, regrouped.
LEMMA Regroup ==
    ASSUME NEW k \in Int, NEW x \in Int, NEW q \in Int PROVE k * x * q = k * (x * q)
OBVIOUS

\* A band's hours add up to its volume.
LEMMA BandConserved ==
    ASSUME NEW p, SolverPayload(p), NEW i \in DOMAIN SolverDemand(p), NEW f \in Nat, NEW task
    PROVE  LET b == SolverDemand(p)[i] IN
           SumOf([h \in Hours(p) |-> Volume(b, f, task, h)], Hours(p)) =
           IF b.task = task /\ b.family # Indirect THEN b.amount * f * Scale ELSE 0
<1>. DEFINE b == SolverDemand(p)[i]
            d == [h \in Hours(p) |-> Volume(b, f, task, h)]
            n == p.horizon \div Hour
            k == b.amount * f
            q == Scale \div (b.end - b.start)
            c == [m \in 0..(n + 1) |-> k * Before(b, Hour * m) * q]
<1>1. Bounded(p, b)
  BY DemandIs
<1>2. n \in Nat /\ Hours(p) = 0..n
  BY HoursAre DEF Hours
<1>3. Hour \in Nat \ {0} /\ p.horizon \in Nat /\ p.horizon < Hour * (n + 1)
  BY SolverAssumption, PayloadFacts, DayEnd
<1>4. b.start \in Nat /\ b.end \in Nat /\ b.start < b.end /\ b.end <= p.horizon /\ b.amount \in Nat
  BY <1>1 DEF Bounded
<1>5. Scale = (b.end - b.start) * q
  <2>1. b \in ToSet(SolverDemand(p))
    BY DEF ToSet
  <2>. QED BY <2>1 DEF SolverPayload
<1>6. k \in Int /\ q \in Int
  <2>1. b.end - b.start \in Nat \ {0} /\ Scale \in Nat
    BY <1>4, SolverAssumption
  <2>. QED BY <1>4, <2>1
<1>7. CASE b.task = task /\ b.family # Indirect
  <2>1. \A h \in 0..n : d[h] = k * InHour(b, h) * q
    BY <1>2, <1>7 DEF Volume
  <2>. HIDE DEF d, k, q, n, b
  <2>2. \A m \in 0..(n + 1) : Hour * m \in Nat /\ Before(b, Hour * m) \in Nat
    <3>1. SUFFICES ASSUME NEW m \in 0..(n + 1) PROVE Hour * m \in Nat /\ Before(b, Hour * m) \in Nat
      OBVIOUS
    <3>2. m \in Nat
      BY <1>2
    <3>3. Hour * m \in Nat
      BY <1>3, <3>2
    <3>. DEFINE x == Hour * m
    <3>. HIDE DEF x
    <3>4. x \in Nat
      BY <3>3 DEF x
    <3>5. x <= x
      BY <3>4
    <3>6. Before(b, x) \in Nat
      BY <1>1, <3>4, <3>5, BeforeGrows
    <3>. QED BY <3>3, <3>6 DEF x
  <2>3. \A m \in 0..(n + 1) : c[m] \in Int
    <3>1. SUFFICES ASSUME NEW m \in 0..(n + 1) PROVE k * Before(b, Hour * m) * q \in Int
      OBVIOUS
    <3>. DEFINE g == Before(b, Hour * m)
    <3>2. g \in Int
      BY <2>2
    <3>. HIDE DEF g
    <3>3. k * g * q \in Int
      BY <1>6, <3>2
    <3>. QED BY <3>3 DEF g
  <2>4. \A h \in 0..n : d[h] = c[h + 1] - c[h]
    <3>1. SUFFICES ASSUME NEW h \in 0..n PROVE d[h] = c[h + 1] - c[h]
      OBVIOUS
    <3>2. h \in 0..(n + 1) /\ h + 1 \in 0..(n + 1) /\ h \in Nat
      BY <1>2
    <3>. DEFINE x == Hour * h  y == Hour * (h + 1)
    <3>3. x \in Nat /\ y \in Nat /\ x <= y
      <4>1. y = x + Hour
        BY <1>3, <3>2
      <4>2. x \in Nat
        BY <2>2, <3>2
      <4>. HIDE DEF x, y
      <4>. QED BY <1>3, <4>1, <4>2
    <3>4. InHour(b, h) = OverlapOf(b.start, b.end, x, y)
      BY DEF InHour
    <3>5. c[h] = k * Before(b, x) * q /\ c[h + 1] = k * Before(b, y) * q
      BY <3>2
    <3>. HIDE DEF x, y, c
    <3>6. InHour(b, h) = Before(b, y) - Before(b, x) /\ Before(b, x) \in Int /\ Before(b, y) \in Int
      BY <1>1, <3>3, <3>4, BeforeGrows
    <3>7. k * (Before(b, y) - Before(b, x)) * q = k * Before(b, y) * q - k * Before(b, x) * q
      BY <1>6, <3>6, Spread
    <3>. QED BY <2>1, <3>5, <3>6, <3>7
  <2>5. SumOf(d, 0..n) = c[n + 1] - c[0]
    <3>. HIDE DEF c
    <3>. QED BY <1>2, <2>3, <2>4, SumSteps
  <2>6. Before(b, 0) = 0 /\ Before(b, Hour * (n + 1)) = b.end - b.start
    <3>. DEFINE x == Hour * (n + 1)
    <3>1. x \in Int /\ p.horizon < x
      BY <1>2, <1>3
    <3>. HIDE DEF x
    <3>2. Before(b, 0) = 0 /\ Before(b, x) = b.end - b.start
      BY <1>3, <1>4, <3>1 DEF Before, Greater, Lesser
    <3>. QED BY <3>2 DEF x
  <2>7. c[0] = 0 /\ c[n + 1] = k * (b.end - b.start) * q
    <3>1. 0 \in 0..(n + 1) /\ n + 1 \in 0..(n + 1) /\ Hour * 0 = 0
      BY <1>2, <1>3
    <3>2. c[0] = k * Before(b, Hour * 0) * q /\ c[n + 1] = k * Before(b, Hour * (n + 1)) * q
      BY <3>1
    <3>. HIDE DEF c
    <3>3. k * 0 * q = 0
      BY <1>6
    <3>4. c[0] = k * 0 * q
      BY <2>6, <3>1, <3>2
    <3>5. c[n + 1] = k * (b.end - b.start) * q
      BY <2>6, <3>2
    <3>. QED BY <3>3, <3>4, <3>5
  <2>8. k * (b.end - b.start) * q = k * Scale
    <3>1. b.end - b.start \in Int
      BY <1>4
    <3>. DEFINE x == b.end - b.start
    <3>2. k * x * q = k * (x * q)
      BY <1>6, <3>1, Regroup
    <3>. HIDE DEF x
    <3>3. Scale = x * q
      BY <1>5 DEF x
    <3>4. k * x * q = k * Scale
      BY <3>2, <3>3
    <3>. QED BY <3>4 DEF x
  <2>9. c[n + 1] - c[0] = k * Scale
    <3>. HIDE DEF c
    <3>1. k * Scale \in Int
      BY <1>6, SolverAssumption
    <3>. QED BY <2>7, <2>8, <3>1
  <2>10. SumOf(d, Hours(p)) = k * Scale
    <3>. HIDE DEF c
    <3>. QED BY <1>2, <2>5, <2>9
  <2>. QED BY <1>7, <2>10 DEF d, k, b
<1>8. CASE ~(b.task = task /\ b.family # Indirect)
  <2>1. \A h \in Hours(p) : d[h] = 0
    BY <1>8 DEF Volume
  <2>2. IsFiniteSet(Hours(p))
    BY HoursAre
  <2>. HIDE DEF d
  <2>3. SumOf(d, Hours(p)) = 0
    BY <2>1, <2>2, SumZero
  <2>. QED BY <1>8, <2>3 DEF d
<1>. QED BY <1>7, <1>8

\* Every hour's demand together is what the bands ask.
LEMMA HoursConserve ==
    ASSUME NEW p, SolverPayload(p), NEW o, Constraints(o), NEW task
    PROVE  SumFunction([h \in Hours(p) |-> VolDemand(p, o, task, h)]) =
           SumSeq(LAMBDA b : IF b.task = task /\ b.family # Indirect THEN b.amount * Factor(o, task) * Scale ELSE 0,
                  SolverDemand(p))
<1>. DEFINE D == SolverDemand(p)
            I == Hours(p)
            J == DOMAIN D
            f == Factor(o, task)
            M == [x \in I \X J |-> Volume(D[x[2]], f, task, x[1])]
            row == [h \in I |-> SumOf([i \in J |-> M[<<h, i>>]], J)]
            col == [i \in J |-> SumOf([h \in I |-> M[<<h, i>>]], I)]
            vol == [h \in I |-> VolDemand(p, o, task, h)]
            band == [i \in J |-> IF D[i].task = task /\ D[i].family # Indirect THEN D[i].amount * f * Scale ELSE 0]
<1>1. IsFiniteSet(I) /\ I \subseteq Nat
  BY HoursAre
<1>2. IsFiniteSet(J) /\ \A i \in J : Bounded(p, D[i])
  <2>1. Len(D) \in Nat /\ J = 1..Len(D) /\ \A i \in J : Bounded(p, D[i])
    BY DemandIs
  <2>. HIDE DEF D, J
  <2>. QED BY <2>1, BetweenFinite
<1>3. f \in Nat
  BY FactorIs
<1>4. M \in [I \X J -> Int]
  <2>1. SUFFICES ASSUME NEW h \in I, NEW i \in J PROVE Volume(D[i], f, task, h) \in Int
    OBVIOUS
  <2>2. h \in Nat /\ Bounded(p, D[i])
    BY <1>1, <1>2
  <2>. HIDE DEF D, f
  <2>. QED BY <1>3, <2>2, BandIs
<1>5. vol = row
  <2>1. SUFFICES ASSUME NEW h \in I PROVE VolDemand(p, o, task, h) = SumOf([i \in J |-> M[<<h, i>>]], J)
    OBVIOUS
  <2>2. VolDemand(p, o, task, h) = SumOf([i \in J |-> Volume(D[i], f, task, h)], J)
    BY SumSeqs
  <2>3. [i \in J |-> M[<<h, i>>]] = [i \in J |-> Volume(D[i], f, task, h)]
    <3>1. \A i \in J : M[<<h, i>>] = Volume(D[i], f, task, h)
      OBVIOUS
    <3>. HIDE DEF M, J, D, f
    <3>. QED BY <3>1
  <2>. HIDE DEF M, J, D, f
  <2>. QED BY <2>2, <2>3
<1>6. col = band
  <2>1. SUFFICES ASSUME NEW i \in J PROVE SumOf([h \in I |-> M[<<h, i>>]], I) = band[i]
    OBVIOUS
  <2>2. SumOf([h \in I |-> Volume(D[i], f, task, h)], I) = band[i]
    <3>1. SumOf([h \in I |-> Volume(D[i], f, task, h)], I)
          = IF D[i].task = task /\ D[i].family # Indirect THEN D[i].amount * f * Scale ELSE 0
      <4>. HIDE DEF f
      <4>. QED BY <1>3, BandConserved
    <3>2. band[i] = IF D[i].task = task /\ D[i].family # Indirect THEN D[i].amount * f * Scale ELSE 0
      OBVIOUS
    <3>. QED BY <3>1, <3>2, Zenon
  <2>3. [h \in I |-> M[<<h, i>>]] = [h \in I |-> Volume(D[i], f, task, h)]
    <3>1. \A h \in I : M[<<h, i>>] = Volume(D[i], f, task, h)
      OBVIOUS
    <3>. HIDE DEF M, I, D, f
    <3>. QED BY <3>1
  <2>. HIDE DEF M, I, J, D, f, band
  <2>. QED BY <2>2, <2>3
<1>7. SumFunction(vol) = SumOf(vol, I) /\ SumFunction(band) = SumOf(band, J)
  <2>1. DOMAIN vol = I /\ DOMAIN band = J
    OBVIOUS
  <2>. HIDE DEF vol, band, I, J
  <2>. QED BY <2>1, SumFn
<1>8. SumOf(row, I) = SumOf(col, J)
  <2>. HIDE DEF M, I, J
  <2>. QED BY <1>1, <1>2, <1>4, SumSwap
<1>9. SumSeq(LAMBDA b : IF b.task = task /\ b.family # Indirect THEN b.amount * Factor(o, task) * Scale ELSE 0, SolverDemand(p))
      = SumFunction(band)
  BY DEF SumSeq
<1>. HIDE DEF row, col, vol, band
<1>10. SumFunction(vol) = SumFunction(band)
  BY <1>5, <1>6, <1>7, <1>8
<1>. QED BY <1>9, <1>10 DEF vol

----------------------------------------------------------------------------
(* The projection's view of the same payload.                                *)

\* The projection's workers: every id once, with the qualifications it has there.
LEMMA ProjectedWorkers ==
    ASSUME NEW p, SolverPayload(p)
    PROVE  LET W == NormalizeWorkers(p) IN
           /\ IsFiniteSet(DOMAIN W)
           /\ \A n \in DOMAIN W : /\ W[n].worker \in {p.workers[i] : i \in DOMAIN p.workers} \ {None}
                                  /\ W[n].quals = Qualifications(p, W[n].worker)
           /\ \A n, m \in DOMAIN W : W[n].worker = W[m].worker => n = m
           /\ \A w \in {p.workers[i] : i \in DOMAIN p.workers} \ {None} : \E n \in DOMAIN W : W[n].worker = w
<1>. DEFINE W == NormalizeWorkers(p)
            t == p.workers
            n == Len(t)
            K == {i \in 1..n : t[i] # None /\ \A j \in 1..(i - 1) : t[j] # t[i]}
            f(i) == [record |-> t[i], worker |-> t[i], quals |-> Qualifications(p, t[i]), windows |-> Windows(p, t[i])]
            All == {t[i] : i \in DOMAIN t} \ {None}
<1>1. n \in Nat /\ DOMAIN t = 1..n
  BY PayloadFacts
<1>2. W = [m \in DOMAIN InOrder(K) |-> f(InOrder(K)[m])]
  BY DEF NormalizeWorkers, Rows
<1>3. K \in SUBSET (1..n) /\ \A i \in K : t[i] \in All
  BY <1>1
<1>4. \A i, j \in K : t[i] = t[j] => i = j
  <2>1. SUFFICES ASSUME NEW i \in K, NEW j \in K, t[i] = t[j] PROVE i = j
    OBVIOUS
  <2>2. i \in 1..n /\ j \in 1..n /\ ~(i < j) /\ ~(j < i)
    BY <1>1, <2>1
  <2>. QED BY <1>1, <2>2
<1>5. \A w \in All : \E i \in K : t[i] = w
  <2>1. SUFFICES ASSUME NEW w \in All PROVE \E i \in K : t[i] = w
    OBVIOUS
  <2>. DEFINE I == {i \in 1..n : t[i] = w}
  <2>2. I # {} /\ I \in SUBSET Nat /\ w # None
    BY <1>1, <2>1
  <2>3. PICK i \in I : \A j \in I : ~(j < i)
    <3>. HIDE DEF I
    <3>. QED BY <2>2, NatMin
  <2>4. \A j \in 1..(i - 1) : t[j] # t[i]
    <3>1. SUFFICES ASSUME NEW j \in 1..(i - 1), t[j] = t[i] PROVE FALSE
      OBVIOUS
    <3>2. i \in 1..n /\ t[i] = w
      BY <2>3
    <3>3. j \in 1..n /\ j < i
      BY <1>1, <3>2
    <3>4. j \in I
      BY <3>1, <3>2, <3>3
    <3>. QED BY <2>3, <3>3, <3>4
  <2>5. i \in K
    BY <2>2, <2>3, <2>4
  <2>. QED BY <2>3, <2>5
<1>6. \A i : f(i).worker = t[i] /\ f(i).quals = Qualifications(p, t[i])
  OBVIOUS
<1>. HIDE DEF K, W, n, f, All, t
<1>7. /\ Cardinality(K) \in Nat /\ DOMAIN InOrder(K) = 1..Cardinality(K)
      /\ \A m \in 1..Cardinality(K) : InOrder(K)[m] \in K
      /\ \A i \in K : \E m \in 1..Cardinality(K) : InOrder(K)[m] = i
      /\ \A l, m \in 1..Cardinality(K) : l < m => InOrder(K)[l] < InOrder(K)[m]
  BY <1>1, <1>3, KeptRows
<1>8. DOMAIN W = 1..Cardinality(K)
  BY <1>2, <1>7
<1>9. \A m \in DOMAIN W : W[m].worker = t[InOrder(K)[m]] /\ InOrder(K)[m] \in K /\ W[m].quals = Qualifications(p, W[m].worker)
  BY <1>2, <1>6, <1>7
<1>10. IsFiniteSet(DOMAIN W)
  BY <1>7, <1>8, BetweenFinite
<1>11. \A l, m \in DOMAIN W : W[l].worker = W[m].worker => l = m
  <2>1. SUFFICES ASSUME NEW l \in DOMAIN W, NEW m \in DOMAIN W, W[l].worker = W[m].worker PROVE l = m
    OBVIOUS
  <2>2. InOrder(K)[l] = InOrder(K)[m]
    BY <1>4, <1>9, <2>1
  <2>0. \A i \in K : i \in Int
    BY <1>1, <1>3
  <2>3. InOrder(K)[l] \in Int /\ InOrder(K)[m] \in Int
    BY <1>9, <2>0
  <2>4. l \in 1..Cardinality(K) /\ m \in 1..Cardinality(K)
    BY <1>8
  <2>5. ~(l < m) /\ ~(m < l)
    BY <1>7, <2>2, <2>3, <2>4
  <2>. QED BY <1>7, <2>4, <2>5
<1>12. \A w \in All : \E m \in DOMAIN W : W[m].worker = w
  BY <1>5, <1>7, <1>8, <1>9
<1>13. \A m \in DOMAIN W : W[m].worker \in All
  BY <1>3, <1>9
<1>. QED BY <1>9, <1>10, <1>11, <1>12, <1>13 DEF W, All, t

\* Without overrides of zero the two readings of a qualification agree.
LEMMA SameQuals ==
    ASSUME NEW p, SolverPayload(p), \A i \in DOMAIN p.quals : p.quals[i].override # 0, NEW w
    PROVE  Qualifications(p, w) = SolverQuals(p, w)
<1>. DEFINE n == Len(p.quals)
            K == {i \in 1..n : p.quals[i].worker = w /\ p.quals[i].task \in TaskIds(p) /\ SolverRate(p.quals[i]) > 0}
            L == {i \in 1..n : p.quals[i].worker = w /\ p.quals[i].task \in TaskIds(p) /\ Rate(p.quals[i]) > 0}
            S(i) == [task |-> p.quals[i].task, rate |-> SolverRate(p.quals[i])]
            R(i) == [task |-> p.quals[i].task, rate |-> Rate(p.quals[i])]
<1>1. n \in Nat /\ DOMAIN p.quals = 1..n
  BY PayloadFacts
<1>2. \A i \in 1..n : Rate(p.quals[i]) = SolverRate(p.quals[i])
  BY <1>1 DEF Rate, SolverRate
<1>3. K = L /\ \A i \in K : S(i) = R(i)
  BY <1>2
<1>4. SolverQuals(p, w) = [m \in DOMAIN InOrder(K) |-> S(InOrder(K)[m])]
  BY DEF SolverQuals, Rows
<1>5. Qualifications(p, w) = [m \in DOMAIN InOrder(L) |-> R(InOrder(L)[m])]
  BY DEF Qualifications, Rows
<1>6. K \in SUBSET (1..n)
  OBVIOUS
<1>. HIDE DEF K, L, S, R, n
<1>7. DOMAIN InOrder(K) = 1..Cardinality(K) /\ \A m \in 1..Cardinality(K) : InOrder(K)[m] \in K
  BY <1>1, <1>6, KeptRows
<1>8. \A m \in DOMAIN InOrder(K) : S(InOrder(K)[m]) = R(InOrder(K)[m])
  BY <1>3, <1>7
<1>9. InOrder(L) = InOrder(K)
  BY <1>3
<1>10. [m \in DOMAIN InOrder(K) |-> S(InOrder(K)[m])] = [m \in DOMAIN InOrder(K) |-> R(InOrder(K)[m])]
  BY <1>8
<1>. QED BY <1>4, <1>5, <1>9, <1>10

\* The qualified rates of a task as the comparison lists them.
ProjectedAt(W, task, n) == {<<n, i>> : i \in {i \in DOMAIN W[n].quals : W[n].quals[i].task = task}}
Projected(W, task) == UNION {ProjectedAt(W, task, n) : n \in DOMAIN W}

\* The projection's qualifications for a task are finitely many pairs of worker and row.
LEMMA ProjectedAre ==
    ASSUME NEW W, IsFiniteSet(DOMAIN W), \A n \in DOMAIN W : IsFiniteSet(DOMAIN W[n].quals), NEW task
    PROVE  /\ IsFiniteSet(Projected(W, task))
           /\ \A x \in Projected(W, task) : x[1] \in DOMAIN W /\ x[2] \in DOMAIN W[x[1]].quals /\ x = <<x[1], x[2]>>
                                            /\ W[x[1]].quals[x[2]].task = task
           /\ \A n \in DOMAIN W : \A i \in DOMAIN W[n].quals : W[n].quals[i].task = task => <<n, i>> \in Projected(W, task)
<1>. DEFINE F == [n \in DOMAIN W |-> ProjectedAt(W, task, n)]
<1>1. Projected(W, task) = UNION {F[n] : n \in DOMAIN W}
  <2>1. {ProjectedAt(W, task, n) : n \in DOMAIN W} = {F[n] : n \in DOMAIN W}
    BY Zenon
  <2>. QED BY <2>1 DEF Projected
<1>2. \A n \in DOMAIN W : IsFiniteSet(F[n])
  <2>1. SUFFICES ASSUME NEW n \in DOMAIN W PROVE IsFiniteSet(ProjectedAt(W, task, n))
    OBVIOUS
  <2>. DEFINE K == {i \in DOMAIN W[n].quals : W[n].quals[i].task = task}  h == [i \in K |-> <<n, i>>]
  <2>2. IsFiniteSet(K)
    BY FS_Subset
  <2>3. ProjectedAt(W, task, n) = {h[i] : i \in K} /\ DOMAIN h = K
    BY DEF ProjectedAt
  <2>. HIDE DEF h, K
  <2>. QED BY <2>2, <2>3, ImageFinite
<1>3. IsFiniteSet(Projected(W, task))
  <2>1. DOMAIN F = DOMAIN W
    OBVIOUS
  <2>. HIDE DEF F
  <2>. QED BY <1>1, <1>2, <2>1, UnionFinite
<1>4. ASSUME NEW x \in Projected(W, task)
      PROVE x[1] \in DOMAIN W /\ x[2] \in DOMAIN W[x[1]].quals /\ x = <<x[1], x[2]>> /\ W[x[1]].quals[x[2]].task = task
  <2>1. PICK n \in DOMAIN W : x \in ProjectedAt(W, task, n)
    BY <1>4 DEF Projected
  <2>2. PICK i \in DOMAIN W[n].quals : x = <<n, i>> /\ W[n].quals[i].task = task
    BY <2>1 DEF ProjectedAt
  <2>. QED BY <2>2
<1>5. ASSUME NEW n \in DOMAIN W, NEW i \in DOMAIN W[n].quals, W[n].quals[i].task = task PROVE <<n, i>> \in Projected(W, task)
  <2>1. <<n, i>> \in ProjectedAt(W, task, n)
    BY <1>5 DEF ProjectedAt
  <2>. QED BY <2>1 DEF Projected
<1>. QED BY <1>3, <1>4, <1>5

\* A worker has finitely many qualifications.
LEMMA QualsFinite ==
    ASSUME NEW p, SolverPayload(p), NEW w PROVE IsFiniteSet(DOMAIN SolverQuals(p, w))
<1>1. DOMAIN SolverQuals(p, w) = 1..Len(SolverQuals(p, w)) /\ Len(SolverQuals(p, w)) \in Nat
  BY QualsAre
<1>. QED BY <1>1, BetweenFinite

\* Rates of a clean payload: the comparison's are the solver's.
LEMMA SameRates ==
    ASSUME NEW p, SolverPayload(p), \A i \in DOMAIN p.quals : p.quals[i].override # 0,
           {m \in DOMAIN p.workers : p.workers[m] # None} = SolverMembers(p),
           \A m, n \in SolverMembers(p) : p.workers[m] = p.workers[n] => m = n, NEW task
    PROVE  LET W == NormalizeWorkers(p)
               S == Projected(W, task)
           IN  RefRate(p, task) = <<SumFunction([x \in S |-> W[x[1]].quals[x[2]].rate]), Cardinality(S)>>
<1>. DEFINE W == NormalizeWorkers(p)
            S == Projected(W, task)
            U == RatesOf(p, task)
            f == [x \in S |-> W[x[1]].quals[x[2]].rate]
            g == [x \in U |-> MemberQuals(p, x[1])[x[2]].rate]
            row == [n \in DOMAIN W |-> CHOOSE m \in SolverMembers(p) : p.workers[m] = W[n].worker]
            h == [x \in S |-> <<row[x[1]], x[2]>>]
<1>a. /\ IsFiniteSet(DOMAIN W)
      /\ \A n \in DOMAIN W : W[n].worker \in {p.workers[i] : i \in DOMAIN p.workers} \ {None}
                             /\ W[n].quals = SolverQuals(p, W[n].worker)
      /\ \A n, m \in DOMAIN W : W[n].worker = W[m].worker => n = m
      /\ \A w \in {p.workers[i] : i \in DOMAIN p.workers} \ {None} : \E n \in DOMAIN W : W[n].worker = w
  BY ProjectedWorkers, SameQuals
<1>. HIDE DEF W
<1>b. \A n \in DOMAIN W : row[n] \in SolverMembers(p) /\ p.workers[row[n]] = W[n].worker
  <2>1. SUFFICES ASSUME NEW n \in DOMAIN W PROVE \E m \in SolverMembers(p) : p.workers[m] = W[n].worker
    OBVIOUS
  <2>. QED BY <1>a
<1>. HIDE DEF row
<1>1. /\ IsFiniteSet(DOMAIN W)
      /\ \A n \in DOMAIN W : row[n] \in SolverMembers(p) /\ W[n].quals = MemberQuals(p, row[n])
      /\ \A n, m \in DOMAIN W : row[n] = row[m] => n = m
      /\ \A m \in SolverMembers(p) : \E n \in DOMAIN W : row[n] = m
  BY <1>a, <1>b DEF MemberQuals
<1>2. \A n \in DOMAIN W : IsFiniteSet(DOMAIN W[n].quals)
  <2>1. SUFFICES ASSUME NEW n \in DOMAIN W PROVE IsFiniteSet(DOMAIN MemberQuals(p, row[n]))
    BY <1>1
  <2>. QED BY QualsFinite DEF MemberQuals
<1>3. /\ IsFiniteSet(S)
      /\ \A x \in S : x[1] \in DOMAIN W /\ x[2] \in DOMAIN W[x[1]].quals /\ x = <<x[1], x[2]>> /\ W[x[1]].quals[x[2]].task = task
      /\ \A n \in DOMAIN W : \A i \in DOMAIN W[n].quals : W[n].quals[i].task = task => <<n, i>> \in S
  BY <1>1, <1>2, ProjectedAre
<1>4. /\ \A x \in U : x[1] \in SolverMembers(p) /\ x[2] \in DOMAIN MemberQuals(p, x[1]) /\ x = <<x[1], x[2]>>
                      /\ MemberQuals(p, x[1])[x[2]].task = task
      /\ \A m \in SolverMembers(p) : \A i \in DOMAIN MemberQuals(p, m) : MemberQuals(p, m)[i].task = task => <<m, i>> \in U
  BY RatesAre
<1>. HIDE DEF S, U
<1>5. \A x \in S : h[x] = <<row[x[1]], x[2]>> /\ h[x] \in U
  <2>1. SUFFICES ASSUME NEW x \in S PROVE <<row[x[1]], x[2]>> \in U
    OBVIOUS
  <2>2. x[1] \in DOMAIN W /\ x[2] \in DOMAIN W[x[1]].quals /\ W[x[1]].quals[x[2]].task = task
    BY <1>3
  <2>. QED BY <1>1, <1>4, <2>2
<1>6. \A x, y \in S : h[x] = h[y] => x = y
  <2>1. SUFFICES ASSUME NEW x \in S, NEW y \in S, h[x] = h[y] PROVE x = y
    OBVIOUS
  <2>2. row[x[1]] = row[y[1]] /\ x[2] = y[2]
    BY <1>5, <2>1
  <2>3. x[1] = y[1]
    BY <1>1, <1>3, <2>2
  <2>. QED BY <1>3, <2>2, <2>3
<1>7. \A u \in U : \E x \in S : h[x] = u
  <2>1. SUFFICES ASSUME NEW u \in U PROVE \E x \in S : h[x] = u
    OBVIOUS
  <2>2. PICK n \in DOMAIN W : row[n] = u[1]
    BY <1>1, <1>4
  <2>3. <<n, u[2]>> \in S
    BY <1>1, <1>3, <1>4, <2>2
  <2>4. h[<<n, u[2]>>] = <<u[1], u[2]>>
    BY <2>2, <2>3
  <2>. QED BY <1>4, <2>3, <2>4
<1>8. \A x \in S : f[x] \in Int /\ g[h[x]] = f[x]
  <2>1. SUFFICES ASSUME NEW x \in S PROVE f[x] \in Int /\ g[h[x]] = f[x]
    OBVIOUS
  <2>2. f[x] = MemberQuals(p, row[x[1]])[x[2]].rate /\ x[2] \in DOMAIN MemberQuals(p, row[x[1]])
    BY <1>1, <1>3
  <2>3. MemberQuals(p, row[x[1]])[x[2]].rate \in Nat
    BY <2>2, QualsAre DEF MemberQuals
  <2>. DEFINE u == <<row[x[1]], x[2]>>
  <2>4. h[x] = u /\ u \in U
    BY <1>5
  <2>5. g[u] = MemberQuals(p, u[1])[u[2]].rate
    BY <2>4
  <2>6. u[1] = row[x[1]] /\ u[2] = x[2]
    OBVIOUS
  <2>. HIDE DEF u, f, g, h
  <2>. QED BY <2>2, <2>3, <2>4, <2>5, <2>6
<1>9. h \in [S -> U] /\ DOMAIN f = S /\ DOMAIN g = U /\ DOMAIN h = S
  BY <1>5
<1>10. RefRate(p, task) = <<SumFunction(g), Cardinality(U)>>
  BY DEF RefRate, U
<1>. HIDE DEF f, g, h
<1>11. SumFunction(f) = SumFunction(g)
  <2>1. SumOf(f, S) = SumOf(g, U)
    BY <1>3, <1>6, <1>7, <1>8, <1>9, SumRenamed
  <2>. QED BY <1>9, <2>1, SumFn
<1>12. Cardinality(S) = Cardinality(U)
  <2>1. h \in Bijection(S, U)
    BY <1>6, <1>7, <1>9 DEF Bijection, Injection, Surjection, IsInjective
  <2>2. ExistsBijection(S, U)
    BY <2>1 DEF ExistsBijection
  <2>. QED BY <1>3, <2>2, FS_Bijection
<1>. QED BY <1>10, <1>11, <1>12 DEF S, W, f

\* The reference rates of a clean payload are the same on both sides.
LEMMA CleanRates ==
    ASSUME SolverPayload(payload), Clean PROVE ProjectionRates = SolverRates
<1>. DEFINE W == NormalizeWorkers(payload)
            P(t) == <<SumFunction([x \in Projected(W, t) |-> W[x[1]].quals[x[2]].rate]), Cardinality(Projected(W, t))>>
<1>1. ProjectionRates = [t \in TaskIds(payload) |-> P(t)]
  BY DEF ProjectionRates, Projected, ProjectedAt
<1>2. \A t : RefRate(payload, t) = P(t)
  <2>1. (\A i \in DOMAIN payload.quals : payload.quals[i].override # 0)
        /\ {m \in DOMAIN payload.workers : payload.workers[m] # None} = SolverMembers(payload)
        /\ \A m, n \in SolverMembers(payload) : payload.workers[m] = payload.workers[n] => m = n
    BY DEF Clean
  <2>. QED BY <2>1, SameRates
<1>. HIDE DEF P, W
<1>. QED BY <1>1, <1>2 DEF SolverRates

\* The demand rows of a clean payload are the same on both sides.
LEMMA CleanRows ==
    ASSUME SolverPayload(payload), Clean PROVE SolverDemand(payload) = NormalizeDemand(payload)
<1>. DEFINE S == SolverDemand(payload)  N == NormalizeDemand(payload)
<1>1. /\ DOMAIN S = 1..Len(S) /\ DOMAIN N = 1..Len(N) /\ S = [i \in DOMAIN S |-> S[i]] /\ N = [i \in DOMAIN N |-> N[i]]
  BY DemandIs
<1>2. Len(S) = Len(N) /\ \A i \in DOMAIN S : S[i] = N[i]
  BY DEF Clean
<1>. HIDE DEF S, N
<1>3. S = N
  BY <1>1, <1>2
<1>. QED BY <1>3 DEF S, N

----------------------------------------------------------------------------
(* The solve.                                                                *)

Stages == {"build", "round1", "round2", "solved", "failed", "candidate", "compared"}
Over == {"solved", "failed", "candidate", "compared"}

\* The schedule of an outcome is one of the model's, and covers what it says.
Covered(o) ==
    /\ o.status # "INFEASIBLE"
    /\ o.sel # None => \E x \in space : x.sel = o.sel /\ x.unmet <= o.r1
    /\ o.status \in {"OPTIMAL", "FEASIBLE"} => \E x \in space : x.sel = o.sel

SolverRows == SolverDemand(payload)
Produced == [kind |-> "candidate", metrics |-> CandidateMetrics(AssignmentsOf(outcome.sel), SolverRates, SolverRows)]

\* What every state of a solve satisfies.
SolveInv ==
    /\ payload \in Payloads /\ ov \in Overrides
    /\ stage \in Stages
    /\ stage # "build" => space = Solutions(Build(payload, ov), ov)
    /\ stage \notin Over => outcome = NoSolve
    /\ stage \in Over => Covered(outcome)
    /\ stage = "round2" =>
          /\ DOMAIN r1 = {"status", "sel", "r1", "r2", "reason"}
          /\ \E x \in space : x.sel = r1.sel /\ x.unmet <= r1.r1
    /\ stage \notin {"failed", "candidate", "compared"} => verdict = None
    /\ verdict # None => verdict.kind # "hard_constraint_violated"
    /\ stage = "candidate" => verdict = Produced /\ ~MetricsRaise(SolverRates, SolverRows)
    /\ stage = "compared" /\ Clean => verdict.kind = "compared"

\* What SolverAssumption says of the inputs of a solve.
LEMMA InputsAre ==
    ASSUME SolveInv PROVE SolverPayload(payload) /\ Constraints(ov)
BY SolverAssumption DEF SolveInv, Constraints

\* The definitions about the payload follow it.
LEMMA SamePayload ==
    ASSUME payload' = payload
    PROVE  (Clean' <=> Clean) /\ SolverRates' = SolverRates /\ SolverRows' = SolverRows
<1>1. Clean' <=> Clean
  BY DEF Clean
<1>2. SolverRates' = SolverRates
  BY DEF SolverRates
<1>3. SolverRows' = SolverRows
  BY DEF SolverRows
<1>. QED BY <1>1, <1>2, <1>3

\* Before the model is built nothing is known but the inputs.
LEMMA SolveInitHolds == SolveInit => SolveInv
BY DEF SolveInit, SolveInv, Stages, Over

\* CpSatBuilder(...).build() fixes the solution space for the rest of the solve.
LEMMA BuildModelKeeps == ASSUME SolveInv, BuildModel PROVE SolveInv'
<1>1. payload' = payload /\ ov' = ov /\ r1' = r1 /\ outcome' = outcome /\ verdict' = verdict
      /\ stage = "build" /\ stage' = "round1" /\ space' = Solutions(Build(payload, ov), ov)
  BY DEF BuildModel, input
<1>2. space' = Solutions(Build(payload', ov'), ov')
  BY <1>1
<1>3. outcome' = NoSolve /\ verdict' = None
  BY <1>1 DEF SolveInv, Over
<1>4. payload' \in Payloads /\ ov' \in Overrides
  BY <1>1 DEF SolveInv
<1>. QED BY <1>1, <1>2, <1>3, <1>4 DEF SolveInv, Stages, Over

\* A round that returns, or fails, leaves an outcome that is covered.
LEMMA ReturnKeeps ==
    ASSUME SolveInv, NEW o, Return(o), UNCHANGED <<input, space, r1, verdict>>,
           stage \in {"round1", "round2"}, Covered(o)
    PROVE  SolveInv'
<1>1. payload' = payload /\ ov' = ov /\ r1' = r1 /\ outcome' = o /\ verdict' = verdict
      /\ stage' = "solved" /\ space' = space
  BY DEF Return, input
<1>2. space' = Solutions(Build(payload', ov'), ov')
  BY <1>1 DEF SolveInv
<1>3. Covered(outcome)'
  BY <1>1 DEF Covered
<1>4. verdict' = None
  BY <1>1 DEF SolveInv
<1>5. payload' \in Payloads /\ ov' \in Overrides
  BY <1>1 DEF SolveInv
<1>. QED BY <1>1, <1>2, <1>3, <1>4, <1>5 DEF SolveInv, Stages, Over

\* A budget used up before round 1 leaves no schedule.
LEMMA Round1ExhaustedKeeps == ASSUME SolveInv, Round1Exhausted PROVE SolveInv'
<1>1. PICK x \in Budget \ {None} :
        /\ stage = "round1" /\ UNCHANGED <<input, space, r1, verdict>>
        /\ Return([NoSolve EXCEPT !.status = "UNKNOWN", !.reason = ReasonOf(x)])
  BY DEF Round1Exhausted
<1>. DEFINE o == [NoSolve EXCEPT !.status = "UNKNOWN", !.reason = ReasonOf(x)]
<1>2. Covered(o)
  BY DEF Covered, NoSolve
<1>. HIDE DEF o
<1>3. Return(o)
  BY <1>1 DEF o
<1>. QED BY <1>1, <1>2, <1>3, ReturnKeeps

\* The first round is never infeasible: the empty selection is a solution.
LEMMA Round1FailsKeeps == ASSUME SolveInv, Round1Fails PROVE SolveInv'
<1>1. PICK s \in {"UNKNOWN", "INFEASIBLE"} :
        /\ stage = "round1" /\ UNCHANGED <<input, space, r1, verdict>>
        /\ s = "INFEASIBLE" => space = {}
        /\ Return([NoSolve EXCEPT !.status = s])
  BY DEF Round1Fails
<1>. DEFINE o == [NoSolve EXCEPT !.status = s]
<1>2. space # {}
  <2>1. space = Solutions(Build(payload, ov), ov)
    BY <1>1 DEF SolveInv
  <2>2. Solutions(Build(payload, ov), ov) # {}
    BY InputsAre, IdleIsSolution
  <2>. QED BY <2>1, <2>2
<1>3. s = "UNKNOWN"
  BY <1>1, <1>2
<1>4. Covered(o)
  BY <1>3 DEF Covered, NoSolve
<1>. HIDE DEF o
<1>5. Return(o)
  BY <1>1 DEF o
<1>. QED BY <1>1, <1>4, <1>5, ReturnKeeps

\* The snapshot of round 1 is a solution with no more unmet demand than it reports.
LEMMA Round1Keeps == ASSUME SolveInv, Round1 PROVE SolveInv'
<1>1. PICK s \in {"OPTIMAL", "FEASIBLE"} :
        \E x \in (IF s = "OPTIMAL" THEN Best(LAMBDA y : y.unmet, space) ELSE space),
           extra \in (IF s = "OPTIMAL" THEN {0} ELSE 0..Slop) :
            /\ stage = "round1"
            /\ r1' = [NoSolve EXCEPT !.status = s, !.sel = x.sel, !.r1 = x.unmet + extra, !.r2 = x.cost]
            /\ stage' = "round2"
            /\ UNCHANGED <<input, space, outcome, verdict>>
  BY DEF Round1
<1>2. Best(LAMBDA y : y.unmet, space) \subseteq space
  BY DEF Best
<1>3. \E x \in space, extra \in Nat :
        /\ stage = "round1" /\ stage' = "round2" /\ UNCHANGED <<input, space, outcome, verdict>>
        /\ r1' = [NoSolve EXCEPT !.status = s, !.sel = x.sel, !.r1 = x.unmet + extra, !.r2 = x.cost]
  <2>1. PICK x \in (IF s = "OPTIMAL" THEN Best(LAMBDA y : y.unmet, space) ELSE space),
               extra \in (IF s = "OPTIMAL" THEN {0} ELSE 0..Slop) :
            /\ stage = "round1"
            /\ r1' = [NoSolve EXCEPT !.status = s, !.sel = x.sel, !.r1 = x.unmet + extra, !.r2 = x.cost]
            /\ stage' = "round2"
            /\ UNCHANGED <<input, space, outcome, verdict>>
    BY <1>1
  <2>2. x \in space
    BY <1>2
  <2>3. extra \in Nat
    BY SolverAssumption
  <2>. QED BY <2>1, <2>2, <2>3
<1>4. PICK x \in space, extra \in Nat :
        /\ stage = "round1" /\ stage' = "round2" /\ UNCHANGED <<input, space, outcome, verdict>>
        /\ r1' = [NoSolve EXCEPT !.status = s, !.sel = x.sel, !.r1 = x.unmet + extra, !.r2 = x.cost]
  BY <1>3
<1>5. payload' = payload /\ ov' = ov /\ space' = space /\ outcome' = outcome /\ verdict' = verdict
  BY <1>4 DEF input
<1>6. space = Solutions(Build(payload, ov), ov)
  BY <1>4 DEF SolveInv
<1>7. x.unmet \in Int
  BY <1>6, InputsAre, SolutionsAre
<1>8. /\ DOMAIN r1' = {"status", "sel", "r1", "r2", "reason"}
      /\ r1'.sel = x.sel /\ r1'.r1 = x.unmet + extra
  BY <1>4 DEF NoSolve
<1>9. \E z \in space' : z.sel = r1'.sel /\ z.unmet <= r1'.r1
  BY <1>5, <1>7, <1>8
<1>10. space' = Solutions(Build(payload', ov'), ov')
  BY <1>5, <1>6
<1>11. outcome' = NoSolve /\ verdict' = None /\ payload' \in Payloads /\ ov' \in Overrides
  BY <1>4, <1>5 DEF SolveInv, Over
<1>. QED BY <1>4, <1>8, <1>9, <1>10, <1>11 DEF SolveInv, Stages, Over

\* A budget used up before round 2 leaves the snapshot of round 1.
LEMMA Round2ExhaustedKeeps == ASSUME SolveInv, Round2Exhausted PROVE SolveInv'
<1>1. PICK x \in Budget \ {None} :
        /\ stage = "round2" /\ UNCHANGED <<input, space, r1, verdict>>
        /\ Return([r1 EXCEPT !.status = "UNKNOWN", !.reason = ReasonOf(x)])
  BY DEF Round2Exhausted
<1>. DEFINE o == [r1 EXCEPT !.status = "UNKNOWN", !.reason = ReasonOf(x)]
<1>2. /\ DOMAIN r1 = {"status", "sel", "r1", "r2", "reason"}
      /\ \E z \in space : z.sel = r1.sel /\ z.unmet <= r1.r1
  BY <1>1 DEF SolveInv
<1>3. o.status = "UNKNOWN" /\ o.sel = r1.sel /\ o.r1 = r1.r1
  BY <1>2
<1>. HIDE DEF o
<1>4. Covered(o)
  BY <1>2, <1>3 DEF Covered
<1>5. Return(o)
  BY <1>1 DEF o
<1>. QED BY <1>1, <1>4, <1>5, ReturnKeeps

\* The second round is not infeasible either: the first one's schedule is locked in.
LEMMA Round2FailsKeeps == ASSUME SolveInv, Round2Fails PROVE SolveInv'
<1>1. PICK s \in {"UNKNOWN", "INFEASIBLE"} :
        /\ stage = "round2" /\ UNCHANGED <<input, space, r1, verdict>>
        /\ s = "INFEASIBLE" => Locked = {}
        /\ Return([r1 EXCEPT !.status = s])
  BY DEF Round2Fails
<1>. DEFINE o == [r1 EXCEPT !.status = s]
<1>2. /\ DOMAIN r1 = {"status", "sel", "r1", "r2", "reason"}
      /\ \E z \in space : z.sel = r1.sel /\ z.unmet <= r1.r1
  BY <1>1 DEF SolveInv
<1>3. s = "UNKNOWN"
  BY <1>1, <1>2 DEF Locked
<1>4. o.status = "UNKNOWN" /\ o.sel = r1.sel /\ o.r1 = r1.r1
  BY <1>2, <1>3
<1>. HIDE DEF o
<1>5. Covered(o)
  BY <1>2, <1>4 DEF Covered
<1>6. Return(o)
  BY <1>1 DEF o
<1>. QED BY <1>1, <1>5, <1>6, ReturnKeeps

\* A solution of round 2 keeps the locked coverage.
LEMMA Round2Keeps == ASSUME SolveInv, Round2 PROVE SolveInv'
<1>1. PICK s \in {"OPTIMAL", "FEASIBLE"} :
        \E x \in (IF s = "OPTIMAL" THEN Best(LAMBDA y : y.cost, Locked) ELSE Locked) :
              Return([status |-> s, sel |-> x.sel, r1 |-> r1.r1, r2 |-> x.cost, reason |-> None])
  BY DEF Round2
<1>2. Best(LAMBDA y : y.cost, Locked) \subseteq Locked
  BY DEF Best
<1>3. PICK x \in (IF s = "OPTIMAL" THEN Best(LAMBDA y : y.cost, Locked) ELSE Locked) :
              Return([status |-> s, sel |-> x.sel, r1 |-> r1.r1, r2 |-> x.cost, reason |-> None])
  BY <1>1
<1>4. x \in Locked
  BY <1>2
<1>. DEFINE o == [status |-> s, sel |-> x.sel, r1 |-> r1.r1, r2 |-> x.cost, reason |-> None]
<1>5. x \in space /\ x.unmet <= o.r1 /\ x.sel = o.sel
  BY <1>4 DEF Locked
<1>6. o.status # "INFEASIBLE"
  OBVIOUS
<1>. HIDE DEF o
<1>7. Covered(o)
  BY <1>5, <1>6 DEF Covered
<1>8. stage = "round2" /\ UNCHANGED <<input, space, r1, verdict>>
  BY DEF Round2
<1>9. Return(o)
  BY <1>3 DEF o
<1>. QED BY <1>7, <1>8, <1>9, ReturnKeeps

\* A schedule of the model passes the re-check.
LEMMA FinalizeKeeps == ASSUME SolveInv, Finalize PROVE SolveInv'
<1>. DEFINE asgs == AssignmentsOf(outcome.sel)
            holds == HardConstraintsHold(payload, asgs, ShiftFacts(outcome.sel))
            raise == MetricsRaise(SolverRates, SolverRows)
<1>1. /\ stage = "solved" /\ outcome.status \in {"OPTIMAL", "FEASIBLE"}
      /\ payload' = payload /\ ov' = ov /\ space' = space /\ r1' = r1 /\ outcome' = outcome
  BY DEF Finalize, input
<1>2. IF ~holds THEN verdict' = [kind |-> "hard_constraint_violated"] /\ stage' = "failed"
      ELSE IF raise THEN verdict' = [kind |-> "raised"] /\ stage' = "failed"
      ELSE verdict' = Produced /\ stage' = "candidate"
  BY DEF Finalize, Produced, SolverRows
<1>3. space = Solutions(Build(payload, ov), ov) /\ Covered(outcome)
  BY <1>1 DEF SolveInv, Over
<1>4. PICK x \in space : x.sel = outcome.sel
  BY <1>1, <1>3 DEF Covered
<1>5. SolverPayload(payload) /\ Constraints(ov)
  BY InputsAre
<1>6. Selection(payload, x.sel) /\ Base(Build(payload, ov), x.sel)
  BY <1>3, <1>5, SolutionsAre
<1>7. Build(payload, ov).weekCap = payload.weekCap
  BY <1>5, BuildIs
<1>8. holds
  BY <1>4, <1>5, <1>6, <1>7, SelectionPasses
<1>. HIDE DEF holds, raise, asgs
<1>9. \/ verdict' = [kind |-> "raised"] /\ stage' = "failed"
      \/ ~raise /\ verdict' = Produced /\ stage' = "candidate"
  BY <1>2, <1>8
<1>10. verdict'.kind # "hard_constraint_violated"
  BY <1>9 DEF Produced
<1>11. /\ payload' \in Payloads /\ ov' \in Overrides /\ space' = Solutions(Build(payload', ov'), ov')
       /\ Covered(outcome)'
  <2>1. Covered(outcome)'
    BY <1>1, <1>3 DEF Covered
  <2>. QED BY <1>1, <1>3, <2>1 DEF SolveInv
<1>12. stage' = "candidate" => verdict' = Produced' /\ ~MetricsRaise(SolverRates', SolverRows')
  <2>1. SolverRates' = SolverRates /\ SolverRows' = SolverRows
    BY <1>1, SamePayload
  <2>2. Produced' = Produced
    BY <1>1, <2>1 DEF Produced
  <2>. QED BY <1>9, <2>1, <2>2 DEF raise
<1>13. stage' \in {"failed", "candidate"}
  BY <1>9
<1>. QED BY <1>10, <1>11, <1>12, <1>13 DEF SolveInv, Stages, Over

\* A clean payload has the same rows and rates in the projection.
LEMMA CompareKeeps == ASSUME SolveInv, Compare PROVE SolveInv'
<1>. DEFINE rows == NormalizeDemand(payload)
            asgs == AssignmentsOf(outcome.sel)
            again == CandidateMetrics(asgs, ProjectionRates, rows)
            k == IF MetricsRaise(ProjectionRates, rows) THEN "raised"
                 ELSE IF again = verdict.metrics THEN "compared" ELSE "integrity_error"
<1>1. /\ stage = "candidate" /\ verdict' = [kind |-> k] /\ stage' = "compared"
      /\ payload' = payload /\ ov' = ov /\ space' = space /\ r1' = r1 /\ outcome' = outcome
  BY DEF Compare, input
<1>2. verdict = Produced /\ ~MetricsRaise(SolverRates, SolverRows)
  BY <1>1 DEF SolveInv
<1>3. verdict.metrics = CandidateMetrics(asgs, SolverRates, SolverRows)
  BY <1>2 DEF Produced
<1>4. Clean => ProjectionRates = SolverRates /\ rows = SolverRows
  <2>1. SUFFICES ASSUME Clean PROVE ProjectionRates = SolverRates /\ rows = SolverRows
    OBVIOUS
  <2>2. SolverPayload(payload)
    BY InputsAre
  <2>3. ProjectionRates = SolverRates
    BY <2>1, <2>2, CleanRates
  <2>4. SolverDemand(payload) = NormalizeDemand(payload)
    BY <2>1, <2>2, CleanRows
  <2>. QED BY <2>3, <2>4 DEF SolverRows
<1>5. Clean => k = "compared"
  <2>. HIDE DEF rows, asgs
  <2>. QED BY <1>2, <1>3, <1>4
<1>6. k # "hard_constraint_violated"
  <2>. HIDE DEF rows, again
  <2>. QED OBVIOUS
<1>. HIDE DEF k, rows, asgs, again
<1>7. (Clean' => verdict'.kind = "compared") /\ verdict'.kind # "hard_constraint_violated"
  BY <1>1, <1>5, <1>6, SamePayload
<1>8. /\ payload' \in Payloads /\ ov' \in Overrides /\ space' = Solutions(Build(payload', ov'), ov')
      /\ Covered(outcome)'
  <2>1. Covered(outcome)
    BY <1>1 DEF SolveInv, Over
  <2>2. Covered(outcome)'
    BY <1>1, <2>1 DEF Covered
  <2>3. space = Solutions(Build(payload, ov), ov)
    BY <1>1 DEF SolveInv
  <2>. QED BY <1>1, <2>2, <2>3 DEF SolveInv
<1>. QED BY <1>1, <1>7, <1>8 DEF SolveInv, Stages, Over

\* The invariant is about the variables of the solve only.
LEMMA SolveStutters == ASSUME SolveInv, UNCHANGED solveVars PROVE SolveInv'
<1>1. /\ payload' = payload /\ ov' = ov /\ space' = space /\ stage' = stage /\ r1' = r1
      /\ outcome' = outcome /\ verdict' = verdict
  BY DEF solveVars
<1>2. (Clean' <=> Clean) /\ SolverRates' = SolverRates /\ SolverRows' = SolverRows
  BY <1>1, SamePayload
<1>3. (Covered(outcome)' <=> Covered(outcome)) /\ Produced' = Produced
  BY <1>1, <1>2 DEF Covered, Produced
<1>. QED BY <1>1, <1>2, <1>3 DEF SolveInv

\* Every step of a solve keeps the invariant.
LEMMA SolveKeeps == ASSUME SolveInv, [Solve]_solveVars PROVE SolveInv'
<1>1. \/ BuildModel \/ Round1Exhausted \/ Round1Fails \/ Round1
      \/ Round2Exhausted \/ Round2Fails \/ Round2 \/ Finalize \/ Compare \/ UNCHANGED solveVars
  BY DEF Solve
<1>. QED BY <1>1, BuildModelKeeps, Round1ExhaustedKeeps, Round1FailsKeeps, Round1Keeps,
            Round2ExhaustedKeeps, Round2FailsKeeps, Round2Keeps, FinalizeKeeps, CompareKeeps, SolveStutters

\* Without a demand preference the model is the one without preferences, and
\* what is selected there can be selected here.
LEMMA NeverBinds ==
    ASSUME SolveInv, stage = "round1", \A i \in DOMAIN ov : ov[i].tool # "scale_demand",
           NEW x \in Solutions(Build(payload, <<>>), <<>>)
    PROVE  \E y \in space : y.unmet <= x.unmet
<1>1. SolverPayload(payload) /\ Constraints(ov) /\ space = Solutions(Build(payload, ov), ov)
  BY InputsAre DEF SolveInv
<1>2. DOMAIN <<>> = {}
  OBVIOUS
<1>3. ToSet(<<>>) = {} /\ <<>> \in Seq({})
  BY <1>2 DEF ToSet
<1>4. Constraints(<<>>)
  BY <1>3 DEF Constraints
<1>5. \A i \in DOMAIN <<>> : <<>>[i].tool # "scale_demand"
  BY <1>2
<1>. DEFINE none == <<>>
<1>. HIDE DEF none
<1>6. Constraints(none) /\ (\A i \in DOMAIN none : none[i].tool # "scale_demand") /\ x \in Solutions(Build(payload, none), none)
  BY <1>4, <1>5 DEF none
<1>7. Build(payload, ov) = Build(payload, none)
  BY <1>1, <1>6, SameModel
<1>. DEFINE b == Build(payload, ov)
<1>8. x.sel \subseteq b.vars /\ Base(b, x.sel) /\ x.unmet = Unmet(b, x.sel) /\ x.unmet \in Int
  BY <1>1, <1>6, <1>7, SolutionsAre
<1>9. \A sel \in SUBSET b.vars : Base(b, sel) => \E y \in Solutions(b, ov) : y.sel = sel /\ y.unmet = Unmet(b, sel)
  BY <1>1, SolutionsAre
<1>. HIDE DEF b
<1>10. PICK y \in Solutions(b, ov) : y.unmet = Unmet(b, x.sel)
  BY <1>8, <1>9
<1>11. y \in space /\ y.unmet <= x.unmet
  BY <1>1, <1>8, <1>10 DEF b
<1>. QED BY <1>11

\* The invariant has the five parts of SolveIsSound.
LEMMA SolveIsSafe == ASSUME SolveInv PROVE SolveIsSound
<1>1. SolutionsValidate
  BY DEF SolveInv, SolutionsValidate
<1>2. outcome.status # "INFEASIBLE"
  <2>1. CASE stage \in Over
    BY <2>1 DEF SolveInv, Covered
  <2>2. CASE stage \notin Over
    BY <2>2, SolverAssumption DEF SolveInv, NoSolve
  <2>. QED BY <2>1, <2>2
<1>3. OverridesNeverBind
  BY <1>2, NeverBinds DEF OverridesNeverBind
<1>4. CoverageIsLocked
  BY DEF SolveInv, Covered, Over, CoverageIsLocked
<1>5. VolumeConserved
  <2>1. SolverPayload(payload) /\ Constraints(ov)
    BY InputsAre
  <2>2. ASSUME NEW t \in TaskIds(payload)
        PROVE  SumFunction([h \in Hours(payload) |-> VolDemand(payload, ov, t, h)]) =
               SumSeq(LAMBDA b : IF b.task = t /\ b.family # Indirect THEN b.amount * Factor(ov, t) * Scale ELSE 0,
                      SolverDemand(payload))
    BY <2>1, HoursConserve DEF SumSeq
  <2>. QED BY <2>2 DEF VolumeConserved
<1>6. CleanCandidatesCompare
  BY DEF SolveInv, CleanCandidatesCompare
<1>. QED BY <1>1, <1>3, <1>4, <1>5, <1>6 DEF SolveIsSound

\* Whatever CP-SAT returns in either round of _solve_lexicographic_governed, and
\* wherever the budget ends, the schedule that finalize_schedule_run reads passes
\* validate_hard_constraints, no drafted constraint has made the model infeasible,
\* round 2 has not given up coverage for cost, the builder's hourly demand adds up
\* to the bands, and calculate_comparison does not refuse a clean candidate.
THEOREM SolvesStaySound == SolveSpec => []SolveIsSound
<1>1. SolveInit => SolveInv
  BY SolveInitHolds
<1>2. SolveInv /\ [Solve]_solveVars => SolveInv'
  BY SolveKeeps
<1>3. SolveInv => SolveIsSound
  BY SolveIsSafe
<1>. QED BY <1>1, <1>2, <1>3, PTL DEF SolveSpec
=============================================================================
