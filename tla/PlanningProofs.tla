--------------------------- MODULE PlanningProofs ---------------------------
(***************************************************************************)
(* What is proved about the parts of a planner's turn that MCPlanning puts *)
(* into one run: the governed tool calls, the scenario data they read, the *)
(* drafts they write, and the gate the answer goes through.                *)
(***************************************************************************)
EXTENDS ScenarioData, Capabilities, Drafting, Grounding, FiniteSetTheorems, SequenceTheorems, WellFoundedInduction, TLAPS

----------------------------------------------------------------------------
(* Numbers in order.  The library's induction rules take an operator, which  *)
(* no prover here can instantiate; NatMin is a rule about sets instead, and  *)
(* every induction below is a least element of a set of counterexamples.     *)

\* Every non-empty set of numbers has a least element.
LEMMA NatMin ==
    ASSUME NEW T \in SUBSET Nat, T # {} PROVE \E x \in T : \A y \in T : ~(y < x)
<1>1. IsWellFoundedOn(OpToRel(<, Nat), Nat)
  BY NatLessThanWellFounded
<1>2. PICK x \in T : \A y \in T : ~(<<y, x>> \in OpToRel(<, Nat))
  BY <1>1, WFMin
<1>. QED BY <1>2 DEF OpToRel

\* A set that has zero and the successor of each of its numbers has them all.
LEMMA NatClosed ==
    ASSUME NEW S, 0 \in S, \A n \in Nat : n \in S => n + 1 \in S PROVE Nat \subseteq S
<1>1. SUFFICES ASSUME Nat \ S # {} PROVE FALSE
  OBVIOUS
<1>2. PICK x \in Nat \ S : \A y \in Nat \ S : ~(y < x)
  BY <1>1, NatMin
<1>3. x - 1 \in Nat /\ x - 1 < x
  BY <1>2
<1>4. x - 1 \in S
  BY <1>2, <1>3
<1>. QED BY <1>3, <1>4

\* A finite, non-empty set of numbers has a greatest element.
LEMMA FiniteMax ==
    ASSUME NEW T \in SUBSET Nat, IsFiniteSet(T), T # {} PROVE \E x \in T : \A y \in T : y <= x
<1>. DEFINE S == {n \in Nat : \A U \in SUBSET Nat :
                     IsFiniteSet(U) /\ U # {} /\ Cardinality(U) = n => \E x \in U : \A y \in U : y <= x}
<1>1. 0 \in S
  BY FS_EmptySet
<1>2. ASSUME NEW n \in Nat, n \in S PROVE n + 1 \in S
  <2>. SUFFICES ASSUME NEW U \in SUBSET Nat, IsFiniteSet(U), U # {}, Cardinality(U) = n + 1
                PROVE  \E x \in U : \A y \in U : y <= x
    OBVIOUS
  <2>1. PICK z \in U : TRUE
    OBVIOUS
  <2>2. IsFiniteSet(U \ {z}) /\ Cardinality(U \ {z}) = n
    <3>1. IsFiniteSet(U \ {z}) /\ Cardinality(U \ {z}) = (n + 1) - 1
      BY <2>1, FS_RemoveElement
    <3>. QED BY <3>1
  <2>3. CASE U \ {z} = {}
    BY <2>3
  <2>4. CASE U \ {z} # {}
    <3>1. PICK x \in U \ {z} : \A y \in U \ {z} : y <= x
      BY <1>2, <2>2, <2>4
    <3>2. x \in Nat /\ z \in Nat
      OBVIOUS
    <3>3. CASE z <= x
      BY <3>1, <3>3
    <3>4. CASE x <= z
      <4>1. \A y \in U : y \in Nat /\ y <= z
        BY <3>1, <3>2, <3>4
      <4>. QED BY <4>1
    <3>. QED BY <3>2, <3>3, <3>4
  <2>. QED BY <2>3, <2>4
<1>. HIDE DEF S
<1>3. Nat \subseteq S
  BY <1>1, <1>2, NatClosed
<1>4. Cardinality(T) \in S
  BY <1>3, FS_CardinalityType
<1>. QED BY <1>4 DEF S

Rank(S, i) == Cardinality({j \in S : j <= i})

\* Some number of a finite set has any rank up to its size.
LEMMA RankExists ==
    ASSUME NEW T \in SUBSET Nat, IsFiniteSet(T), NEW r \in 1..Cardinality(T)
    PROVE  \E i \in T : Rank(T, i) = r
<1>. DEFINE Fine(n) == \A U \in SUBSET Nat : IsFiniteSet(U) /\ Cardinality(U) = n => \A q \in 1..n : \E i \in U : Rank(U, i) = q
            S == {n \in Nat : Fine(n)}
<1>1. 0 \in S
  OBVIOUS
<1>2. ASSUME NEW n \in Nat, n \in S PROVE n + 1 \in S
  <2>. SUFFICES ASSUME NEW U \in SUBSET Nat, IsFiniteSet(U), Cardinality(U) = n + 1, NEW q \in 1..(n + 1)
                PROVE  \E i \in U : Rank(U, i) = q
    OBVIOUS
  <2>1. U # {}
    BY FS_EmptySet
  <2>2. PICK z \in U : \A y \in U : y <= z
    BY <2>1, FiniteMax
  <2>3. IsFiniteSet(U \ {z}) /\ Cardinality(U \ {z}) = n
    <3>1. IsFiniteSet(U \ {z}) /\ Cardinality(U \ {z}) = (n + 1) - 1
      BY FS_RemoveElement
    <3>. QED BY <3>1
  <2>4. CASE q = n + 1
    <3>1. {j \in U : j <= z} = U
      BY <2>2
    <3>. QED BY <2>4, <3>1 DEF Rank
  <2>5. CASE q \in 1..n
    <3>1. PICK i \in U \ {z} : Rank(U \ {z}, i) = q
      BY <1>2, <2>3, <2>5
    <3>2. {j \in U : j <= i} = {j \in U \ {z} : j <= i}
      BY <2>2
    <3>. QED BY <3>1, <3>2 DEF Rank
  <2>. QED BY <2>4, <2>5
<1>. HIDE DEF S
<1>3. Nat \subseteq S
  BY <1>1, <1>2, NatClosed
<1>4. Cardinality(T) \in S
  BY <1>3, FS_CardinalityType
<1>. QED BY <1>4 DEF S

\* A greater number has a greater rank.
LEMMA RankGrows ==
    ASSUME NEW T \in SUBSET Nat, IsFiniteSet(T), NEW i \in T, NEW k \in T, i < k
    PROVE  /\ Rank(T, i) \in 1..Cardinality(T) /\ Rank(T, k) \in 1..Cardinality(T) /\ Rank(T, i) < Rank(T, k)
<1>. DEFINE A == {j \in T : j <= i}  B == {j \in T : j <= k}
<1>1. A \in SUBSET B /\ B \in SUBSET T /\ A # B /\ A # {}
  <2>1. i \in Nat /\ k \in Nat /\ \A j \in T : j \in Nat
    OBVIOUS
  <2>2. A \subseteq B
    <3>1. ASSUME NEW j \in T, j <= i PROVE j <= k
      BY <2>1, <3>1
    <3>. QED BY <3>1
  <2>3. B \subseteq T /\ i \in A
    BY <2>1
  <2>4. k \in B /\ k \notin A
    BY <2>1
  <2>. QED BY <2>2, <2>3, <2>4
<1>. HIDE DEF A, B
<1>2. IsFiniteSet(A) /\ IsFiniteSet(B)
  BY <1>1, FS_Subset
<1>3. Cardinality(A) <= Cardinality(B) /\ Cardinality(A) # Cardinality(B) /\ Cardinality(B) <= Cardinality(T)
  BY <1>1, <1>2, FS_Subset
<1>4. Cardinality(A) \in Nat /\ Cardinality(B) \in Nat /\ Cardinality(T) \in Nat /\ Cardinality(A) # 0
  BY <1>1, <1>2, FS_CardinalityType, FS_EmptySet
<1>. QED BY <1>3, <1>4 DEF Rank, A, B

\* InOrder lists a finite set of numbers, each once, in ascending order.
LEMMA InOrderLists ==
    ASSUME NEW T \in SUBSET Nat, IsFiniteSet(T)
    PROVE  /\ Cardinality(T) \in Nat
           /\ InOrder(T) \in [1..Cardinality(T) -> T]
           /\ InOrder(T) \in Seq(T) /\ Len(InOrder(T)) = Cardinality(T)
           /\ \A m, n \in 1..Cardinality(T) : m < n => InOrder(T)[m] < InOrder(T)[n]
           /\ \A i \in T : \E n \in 1..Cardinality(T) : InOrder(T)[n] = i
<1>0. Cardinality(T) \in Nat
  BY FS_CardinalityType
<1>1. ASSUME NEW n \in 1..Cardinality(T) PROVE InOrder(T)[n] \in T /\ Rank(T, InOrder(T)[n]) = n
  <2>1. \E i \in T : Cardinality({j \in T : j <= i}) = n
    BY <1>1, RankExists DEF Rank
  <2>2. InOrder(T)[n] = CHOOSE i \in T : Cardinality({j \in T : j <= i}) = n
    BY DEF InOrder
  <2>. QED BY <2>1, <2>2 DEF Rank
<1>2. InOrder(T) \in [1..Cardinality(T) -> T]
  BY <1>1 DEF InOrder
<1>3. InOrder(T) \in Seq(T) /\ Len(InOrder(T)) = Cardinality(T)
  BY <1>0, <1>2
<1>4. ASSUME NEW m \in 1..Cardinality(T), NEW n \in 1..Cardinality(T), m < n PROVE InOrder(T)[m] < InOrder(T)[n]
  <2>. DEFINE i == InOrder(T)[m]  k == InOrder(T)[n]
  <2>1. i \in T /\ k \in T /\ Rank(T, i) = m /\ Rank(T, k) = n
    BY <1>1
  <2>. HIDE DEF i, k
  <2>2. i = k \/ i < k \/ k < i
    BY <2>1
  <2>3. ~(k < i)
    BY <1>4, <2>1, RankGrows
  <2>. QED BY <1>4, <2>1, <2>2, <2>3 DEF i, k
<1>5. ASSUME NEW i \in T PROVE \E n \in 1..Cardinality(T) : InOrder(T)[n] = i
  <2>1. Rank(T, i) \in 1..Cardinality(T)
    <3>1. {j \in T : j <= i} \in SUBSET T /\ {j \in T : j <= i} # {}
      OBVIOUS
    <3>2. IsFiniteSet({j \in T : j <= i})
      BY <3>1, FS_Subset
    <3>3. Rank(T, i) <= Cardinality(T) /\ Rank(T, i) \in Nat /\ Rank(T, i) # 0
      BY <3>1, <3>2, FS_Subset, FS_CardinalityType, FS_EmptySet DEF Rank
    <3>. QED BY <1>0, <3>3
  <2>. DEFINE k == InOrder(T)[Rank(T, i)]
  <2>2. k \in T /\ Rank(T, k) = Rank(T, i)
    BY <1>1, <2>1
  <2>. HIDE DEF k
  <2>3. i = k \/ i < k \/ k < i
    BY <2>2
  <2>4. k = i
    BY <2>2, <2>3, RankGrows
  <2>. QED BY <2>1, <2>4 DEF k
<1>. QED BY <1>0, <1>2, <1>3, <1>4, <1>5

----------------------------------------------------------------------------
(* Tables, facts and pages.                                                  *)

\* A sequence is one over its own elements.
LEMMA OwnSeq ==
    ASSUME NEW X, NEW s \in Seq(X) PROVE s \in Seq(ToSet(s)) /\ ToSet(s) \subseteq X
<1>1. Len(s) \in Nat /\ s \in [1..Len(s) -> X] /\ DOMAIN s = 1..Len(s)
  BY LenProperties
<1>2. s \in [1..Len(s) -> ToSet(s)]
  BY <1>1 DEF ToSet
<1>3. s \in Seq(ToSet(s))
  BY <1>1, <1>2
<1>. QED BY <1>1, <1>3 DEF ToSet

LEMMA ListIsSeq ==
    ASSUME NEW s, NEW n \in Nat, s = [i \in 1..n |-> s[i]]
    PROVE  s \in Seq(ToSet(s)) /\ Len(s) = n /\ DOMAIN s = 1..n
<1>1. DOMAIN s = 1..n
  OBVIOUS
<1>2. s \in [1..n -> ToSet(s)]
  BY <1>1 DEF ToSet
<1>. QED BY <1>1, <1>2

\* The rows that are kept, in the order of the table.
LEMMA KeptRows ==
    ASSUME NEW n \in Nat, NEW K \in SUBSET (1..n)
    PROVE  /\ Cardinality(K) \in Nat /\ DOMAIN InOrder(K) = 1..Cardinality(K)
           /\ \A m \in 1..Cardinality(K) : InOrder(K)[m] \in K
           /\ \A i \in K : \E m \in 1..Cardinality(K) : InOrder(K)[m] = i
           /\ \A l, m \in 1..Cardinality(K) : l < m => InOrder(K)[l] < InOrder(K)[m]
           /\ K # {} => 1 \in 1..Cardinality(K)
<1>1. 1 \in Int /\ n \in Int
  OBVIOUS
<1>2. IsFiniteSet(1..n)
  BY <1>1, FS_Interval
<1>3. IsFiniteSet(K) /\ K \in SUBSET Nat
  <2>1. IsFiniteSet(K)
    BY <1>2, FS_Subset
  <2>2. 1..n \subseteq Nat
    OBVIOUS
  <2>. QED BY <2>1, <2>2
<1>4. K # {} => Cardinality(K) # 0
  BY <1>3, FS_EmptySet
<1>5. /\ Cardinality(K) \in Nat /\ InOrder(K) \in [1..Cardinality(K) -> K]
      /\ \A i \in K : \E m \in 1..Cardinality(K) : InOrder(K)[m] = i
      /\ \A l, m \in 1..Cardinality(K) : l < m => InOrder(K)[l] < InOrder(K)[m]
  BY <1>3, InOrderLists
<1>. QED BY <1>4, <1>5

Recursions(V, N, b, step) == {g \in [0..N -> V] : g[0] = b /\ \A i \in 1..N : g[i] = step[i][g[i - 1]]}

\* A recursion over 1..N that stays within a set has a value everywhere.
LEMMA RecursionExists ==
    ASSUME NEW V, NEW N \in Nat, NEW b \in V, NEW step \in [1..N -> [V -> V]]
    PROVE  Recursions(V, N, b, step) # {}
<1>. DEFINE Upto(n) == \E g \in [0..n -> V] : g[0] = b /\ \A i \in 1..n : g[i] = step[i][g[i - 1]]
            S == {n \in Nat : n <= N => Upto(n)}
<1>1. Upto(0)
  <2>. DEFINE g == [i \in 0..0 |-> b]
  <2>1. g \in [0..0 -> V] /\ g[0] = b /\ 1..0 = {}
    OBVIOUS
  <2>. HIDE DEF g
  <2>. QED BY <2>1
<1>2. ASSUME NEW n \in Nat, n + 1 <= N, Upto(n) PROVE Upto(n + 1)
  <2>1. PICK g \in [0..n -> V] : g[0] = b /\ \A i \in 1..n : g[i] = step[i][g[i - 1]]
    BY <1>2
  <2>. DEFINE new == step[n + 1][g[n]]
              h == [i \in 0..(n + 1) |-> IF i = n + 1 THEN new ELSE g[i]]
  <2>2. new \in V
    BY <1>2
  <2>. HIDE DEF new
  <2>3. h \in [0..(n + 1) -> V] /\ h[0] = b /\ h[n + 1] = new /\ \A i \in 0..n : h[i] = g[i]
    BY <2>1, <2>2
  <2>. HIDE DEF h
  <2>4. ASSUME NEW i \in 1..(n + 1) PROVE h[i] = step[i][h[i - 1]]
    <3>1. CASE i = n + 1
      BY <2>3, <3>1 DEF new
    <3>2. CASE i \in 1..n
      <4>1. i - 1 \in 0..n /\ i \in 0..n
        BY <3>2
      <4>. QED BY <2>1, <2>3, <3>2, <4>1
    <3>. QED BY <3>1, <3>2
  <2>. QED BY <2>3, <2>4
<1>. HIDE DEF Upto
<1>3. 0 \in S
  BY <1>1
<1>4. ASSUME NEW n \in Nat, n \in S PROVE n + 1 \in S
  BY <1>2, <1>4
<1>. HIDE DEF S
<1>5. N \in S
  BY <1>3, <1>4, NatClosed
<1>6. Upto(N)
  BY <1>5 DEF S
<1>. QED BY <1>6 DEF Upto, Recursions

LEMMA ConcatSet ==
    ASSUME NEW X, NEW s \in Seq(X), NEW t \in Seq(X)
    PROVE  s \o t \in Seq(X) /\ ToSet(s \o t) = ToSet(s) \cup ToSet(t)
<1>1. \A u : ToSet(u) = Range(u)
  BY DEF ToSet, Range
<1>. QED BY <1>1, RangeConcatenation

\* A flattened sequence of sequences has the elements of all of them.
LEMMA FlattenIs ==
    ASSUME NEW X, NEW seqs \in Seq(Seq(X))
    PROVE  /\ FlattenSeq(seqs) \in Seq(X)
           /\ ToSet(FlattenSeq(seqs)) = UNION {ToSet(seqs[a]) : a \in 1..Len(seqs)}
<1>. DEFINE N == Len(seqs)
            Body(g) == [i \in 1..N |-> IF i = 1 THEN seqs[i] ELSE g[i - 1] \o seqs[i]]
            flat == CHOOSE g : g = Body(g)
<1>0. N \in Nat /\ \A a \in 1..N : seqs[a] \in Seq(X)
  BY LenProperties, ElementOfSeq
<1>00. N = Len(seqs) /\ FlattenSeq(seqs) = IF N = 0 THEN seqs ELSE flat[N]
  BY DEF FlattenSeq
<1>. HIDE DEF N
<1>1. CASE N = 0
  <2>1. FlattenSeq(seqs) = seqs /\ seqs = <<>>
    BY <1>00, <1>1, LenProperties, EmptySeq
  <2>2. ToSet(<<>>) = {} /\ 1..0 = {}
    BY DEF ToSet
  <2>. QED BY <1>00, <1>1, <2>1, <2>2
<1>2. CASE N # 0
  <2>1. \E g : g = Body(g)
    <3>. DEFINE step == [i \in 1..N |-> [s \in Seq(X) |-> s \o seqs[i]]]
                V == Seq(X)
                none == <<>>
    <3>1. step \in [1..N -> [V -> V]]
      BY <1>0
    <3>2. none \in V /\ none = <<>> /\ V = Seq(X)
      OBVIOUS
    <3>3. \A i \in 1..N : \A s \in Seq(X) : step[i][s] = s \o seqs[i]
      OBVIOUS
    <3>. HIDE DEF step, V, none
    <3>30. Recursions(V, N, none, step) # {}
      <4>1. N \in Nat /\ none \in V
        BY <1>0, <3>2
      <4>. QED BY <3>1, <4>1, RecursionExists, Zenon
    <3>4. PICK f \in [0..N -> Seq(X)] : f[0] = <<>> /\ \A i \in 1..N : f[i] = step[i][f[i - 1]]
      BY <3>2, <3>30 DEF Recursions
    <3>5. ASSUME NEW i \in 1..N PROVE f[i] = IF i = 1 THEN seqs[i] ELSE f[i - 1] \o seqs[i]
      <4>1. i - 1 \in 0..N /\ f[i - 1] \in Seq(X)
        BY <1>0
      <4>2. f[i] = f[i - 1] \o seqs[i]
        BY <3>3, <3>4, <4>1
      <4>3. <<>> \o seqs[i] = seqs[i]
        BY <1>0, ConcatEmptySeq
      <4>4. CASE i = 1
        <5>1. f[i - 1] = <<>>
          BY <3>4, <4>4
        <5>. QED BY <4>2, <4>3, <4>4, <5>1
      <4>5. CASE i # 1
        BY <4>2, <4>5
      <4>. QED BY <4>4, <4>5
    <3>. DEFINE g == [i \in 1..N |-> f[i]]
    <3>6. \A i \in 1..N : i # 1 => g[i - 1] = f[i - 1]
      BY <1>0
    <3>7. g = Body(g)
      BY <3>5, <3>6
    <3>. QED BY <3>7
  <2>2. flat = Body(flat)
    BY <2>1
  <2>3. FlattenSeq(seqs) = flat[N]
    BY <1>00, <1>2
  <2>. HIDE DEF flat
  <2>4. \A i \in 1..N : flat[i] = IF i = 1 THEN seqs[i] ELSE flat[i - 1] \o seqs[i]
    BY <2>2
  <2>. DEFINE Good(n) == flat[n] \in Seq(X) /\ ToSet(flat[n]) = UNION {ToSet(seqs[a]) : a \in 1..n}
              S == {n \in Nat : n \in 1..N => Good(n)}
  <2>5. 1 \in 1..N /\ N \in 1..N
    BY <1>0, <1>2
  <2>6. 1 \in 1..1 /\ flat[1] = seqs[1] /\ seqs[1] \in Seq(X)
    BY <1>0, <2>4, <2>5
  <2>7. Good(1)
    <3>1. 1..1 = {1}
      OBVIOUS
    <3>. QED BY <2>6, <3>1
  <2>8. ASSUME NEW n \in Nat, n \in S PROVE n + 1 \in S
    <3>1. CASE n = 0
      BY <2>7, <3>1
    <3>2. CASE n # 0 /\ n + 1 \in 1..N
      <4>1. n \in 1..N /\ Good(n)
        BY <1>0, <2>8, <3>2
      <4>0. (n + 1) - 1 = n /\ n + 1 # 1
        BY <3>2
      <4>2. flat[n + 1] = flat[n] \o seqs[n + 1] /\ seqs[n + 1] \in Seq(X)
        BY <1>0, <2>4, <3>2, <4>0
      <4>21. flat[n + 1] \in Seq(X) /\ ToSet(flat[n + 1]) = ToSet(flat[n]) \cup ToSet(seqs[n + 1])
        BY <4>1, <4>2, ConcatSet
      <4>22. 1..(n + 1) = (1..n) \cup {n + 1}
        OBVIOUS
      <4>23. (UNION {ToSet(seqs[a]) : a \in (1..n) \cup {n + 1}}) = (UNION {ToSet(seqs[a]) : a \in 1..n}) \cup ToSet(seqs[n + 1])
        BY Zenon
      <4>3. Good(n + 1)
        BY <4>1, <4>21, <4>22, <4>23
      <4>. HIDE DEF Good
      <4>. QED BY <4>3
    <3>3. CASE n + 1 \notin 1..N
      BY <3>3
    <3>. QED BY <3>1, <3>2, <3>3
  <2>9. 0 \in S
    BY <1>0
  <2>. HIDE DEF S
  <2>10. N \in S
    BY <1>0, <2>8, <2>9, NatClosed
  <2>11. Good(N)
    BY <2>5, <2>10 DEF S
  <2>. QED BY <1>00, <2>3, <2>11
<1>. QED BY <1>1, <1>2

----------------------------------------------------------------------------
(* Tool calls.  Invariant: a call has worked exactly when it is done or      *)
(* started; who may have called it, and what had to be true when it worked,  *)
(* is recorded in the call; the gate's results hold each done call once.     *)

ToolPcs == {"idle", "called", "retry", "suspended", "failed", "done", "denied", "refused", "started"}
ToolNames == {m.manifest.name : m \in Installed}

ToolCodes == (UNION {m.manifest.errors : m \in Installed}) \cup {"missing_argument", "compute_not_granted", Missing}

CallType ==
    [pc : ToolPcs, name : ToolNames \cup {Missing}, given : BOOLEAN, n : Nat, approved : BOOLEAN,
     code : ToolCodes]

ToolsTypeOK ==
    /\ grant \in Contexts /\ tools = RunTools(grant)
    /\ call \in [CallIds -> CallType]
    /\ captured \in Seq(CallIds)
    /\ acted \in [CallIds -> {0, 1}]

\* Where a call stands decides whether it worked, and a call that worked had
\* the approval it needs.
CallOK(k, a) ==
    /\ a = IF k.pc \in {"done", "started"} THEN 1 ELSE 0
    /\ k.pc = "idle" <=> k.name = Missing
    /\ k.pc \in {"called", "suspended", "denied", "retry", "failed", "done"} =>
         /\ ~grant.explicit
         /\ \E m \in tools : m.manifest.name = k.name
    /\ k.pc \in {"refused", "started"} => grant.explicit /\ k.name = "scheduling_optimize"
    /\ k.pc = "started" => \E m \in tools : m.manifest.name = k.name
    /\ k.pc = "done" => /\ k.name # "scheduling_baseline"
                        /\ k.name = "shiftmind_demonstration" => k.approved \/ k.n = 1
    /\ k.pc = "retry" => k.code \in DeclaredOf(k.name) \cup {"missing_argument"}

CapturedOnce ==
    \A c \in CallIds :
        /\ call[c].pc # "done" => \A i \in DOMAIN captured : captured[i] # c
        /\ call[c].pc = "done" => \E i \in DOMAIN captured :
                                     captured[i] = c /\ \A j \in DOMAIN captured : captured[j] = c => j = i

ToolsInv ==
    /\ ToolsTypeOK
    /\ \A c \in CallIds : CallOK(call[c], acted[c])
    /\ CapturedOnce

LEMMA InstalledAre ==
    Installed = {ComputeModule, DraftModule, DiscardModule, InspectModule, OptimizeModule, BaselineModule, DemonstrationModule}
BY DEF Installed, InstalledModules

\* What the declarations say of one module.
Declares(m, name, approval, errors) ==
    /\ m.manifest.name = name /\ m.manifest.approval = approval /\ m.manifest.errors = errors
    /\ m.retryable \subseteq m.manifest.errors

LEMMA Declarations ==
    /\ Declares(ComputeModule, "scheduling_compute", "none", ComputeErrors)
    /\ Declares(DraftModule, "scheduling_draft", "none", DraftErrors)
    /\ Declares(DiscardModule, "scheduling_draft_discard", "none", DiscardErrors)
    /\ Declares(InspectModule, "scheduling_inspect", "none", InspectErrors)
    /\ Declares(OptimizeModule, "scheduling_optimize", "none", OptimizeErrors)
    /\ Declares(BaselineModule, "scheduling_baseline", "exact_action", BaselineErrors)
    /\ Declares(DemonstrationModule, "shiftmind_demonstration", "exact_action", DemonstrationErrors)
<1>1. Declares(ComputeModule, "scheduling_compute", "none", ComputeErrors)
  BY DEF Declares, ComputeModule, ComputeManifest, ComputeErrors, Module, Manifest
<1>2. Declares(DraftModule, "scheduling_draft", "none", DraftErrors)
  BY DEF Declares, DraftModule, DraftManifest, DraftErrors, Module, Manifest
<1>3. Declares(DiscardModule, "scheduling_draft_discard", "none", DiscardErrors)
  BY DEF Declares, DiscardModule, DiscardManifest, DiscardErrors, Module, Manifest
<1>4. Declares(InspectModule, "scheduling_inspect", "none", InspectErrors)
  BY DEF Declares, InspectModule, InspectManifest, InspectErrors, Module, Manifest
<1>5. Declares(OptimizeModule, "scheduling_optimize", "none", OptimizeErrors)
  BY DEF Declares, OptimizeModule, OptimizeManifest, OptimizeErrors, Module, Manifest
<1>6. Declares(BaselineModule, "scheduling_baseline", "exact_action", BaselineErrors)
  BY DEF Declares, BaselineModule, BaselineManifest, BaselineErrors, Module, Manifest
<1>7. Declares(DemonstrationModule, "shiftmind_demonstration", "exact_action", DemonstrationErrors)
  BY DEF Declares, DemonstrationModule, DemonstrationManifest, DemonstrationErrors, Module, Manifest
<1>. QED BY <1>1, <1>2, <1>3, <1>4, <1>5, <1>6, <1>7

LEMMA InstalledFacts ==
    /\ ToolNames = {"scheduling_compute", "scheduling_draft", "scheduling_draft_discard", "scheduling_inspect",
                    "scheduling_optimize", "scheduling_baseline", "shiftmind_demonstration"}
    /\ \A m \in Installed :
         /\ m.manifest.name \in ToolNames
         /\ m.manifest.approval = "none" <=> m.manifest.name \notin {"scheduling_baseline", "shiftmind_demonstration"}
         /\ m.retryable \subseteq m.manifest.errors
    /\ \A m \in Installed : m.manifest.name = "scheduling_optimize" => m = OptimizeModule
<1>1. ToolNames = {"scheduling_compute", "scheduling_draft", "scheduling_draft_discard", "scheduling_inspect",
                    "scheduling_optimize", "scheduling_baseline", "shiftmind_demonstration"}
  BY InstalledAre, Declarations DEF ToolNames, Declares
<1>2. \A m \in Installed :
             /\ m.manifest.approval = "none" <=> m.manifest.name \notin {"scheduling_baseline", "shiftmind_demonstration"}
             /\ m.retryable \subseteq m.manifest.errors
             /\ m.manifest.name = "scheduling_optimize" => m = OptimizeModule
  BY InstalledAre, Declarations DEF Declares
<1>3. \A m \in Installed : m.manifest.name \in ToolNames
  BY DEF ToolNames
<1>. QED BY <1>1, <1>2, <1>3

LEMMA ToolCodesHave ==
    /\ \A m \in Installed : m.manifest.errors \subseteq ToolCodes
    /\ {"invalid_repeat", "approval_required", "invalid_query", "draft_changed_this_turn", "no_working_draft",
        "budget_exhausted", "baseline_request_failed", "missing_argument", "compute_not_granted", Missing} \subseteq ToolCodes
<1>1. ASSUME NEW m \in Installed PROVE m.manifest.errors \subseteq ToolCodes
  BY Zenon DEF ToolCodes
<1>2. BaselineErrors \subseteq ToolCodes /\ DemonstrationErrors \subseteq ToolCodes /\ DiscardErrors \subseteq ToolCodes
  BY <1>1, InstalledAre, Declarations DEF Declares
<1>3. {"invalid_repeat", "approval_required", "budget_exhausted"} \subseteq DemonstrationErrors
  BY DEF DemonstrationErrors
<1>4. {"invalid_query", "draft_changed_this_turn", "baseline_request_failed"} \subseteq BaselineErrors
  BY DEF BaselineErrors
<1>5. "no_working_draft" \in DiscardErrors
  BY DEF DiscardErrors
<1>6. {"missing_argument", "compute_not_granted", Missing} \subseteq ToolCodes
  BY DEF ToolCodes
<1>. QED BY <1>1, <1>2, <1>3, <1>4, <1>5, <1>6

\* What an outcome of an installed handler can be.
OutcomeOK(m, k, o) ==
    /\ o.kind \in {"result", "approval", "error"}
    /\ o.kind = "result" => o = Gives /\ m.manifest.name # "scheduling_baseline"
    /\ o.kind = "approval" => m.manifest.name \in {"scheduling_baseline", "shiftmind_demonstration"}
    /\ o.kind = "result" /\ m.manifest.name = "shiftmind_demonstration" => k.approved \/ k.n = 1
    /\ o.code \in ToolCodes

LEMMA FailsOK ==
    ASSUME NEW m, NEW k, NEW e \in ToolCodes PROVE OutcomeOK(m, k, Fails(e))
BY DEF OutcomeOK, Fails

LEMMA OutcomeFacts ==
    ASSUME NEW m \in Installed, NEW k, k.n \in Nat, NEW o \in Outcomes(m, k)
    PROVE  OutcomeOK(m, k, o)
<1>. DEFINE name == m.manifest.name
<1>0. name \in ToolNames /\ Gives.kind = "result" /\ Gives.code = Missing /\ Asks.kind = "approval" /\ Asks.code = "approval_required"
  BY InstalledFacts DEF Gives, Asks
<1>1. CASE grant.budget = 0
  <2>1. o \in {Fails("baseline_request_failed"), Fails("budget_exhausted")}
    <3>1. o = Fails(IF m.manifest.name = "scheduling_baseline" THEN "baseline_request_failed" ELSE "budget_exhausted")
      BY <1>1 DEF Outcomes
    <3>. QED BY <3>1
  <2>. QED BY <2>1, FailsOK, ToolCodesHave
<1>2. CASE grant.budget # 0 /\ name = "shiftmind_demonstration"
  <2>1. o \in Demonstrate(k)
    BY <1>2 DEF Outcomes
  <2>2. CASE o = Fails("invalid_repeat")
    BY <2>2, FailsOK, ToolCodesHave
  <2>3. CASE o = Asks
    BY <2>3, <1>0, <1>2, ToolCodesHave DEF OutcomeOK
  <2>4. CASE o = Gives /\ k.n \in 1..MaxRepeat /\ ~(k.n > 1 /\ ~k.approved)
    <3>1. k.n = 1 \/ k.approved
      BY <2>4
    <3>. QED BY <2>4, <3>1, <1>0, <1>2, ToolCodesHave DEF OutcomeOK
  <2>. QED BY <2>1, <2>2, <2>3, <2>4 DEF Demonstrate
<1>3. CASE grant.budget # 0 /\ name = "scheduling_baseline"
  <2>1. o \in RequestBaseline(k)
    BY <1>3 DEF Outcomes
  <2>2. o \in {Fails("invalid_query"), Fails("draft_changed_this_turn"), Asks}
    BY <2>1 DEF RequestBaseline
  <2>3. CASE o = Asks
    BY <2>3, <1>0, <1>3, ToolCodesHave DEF OutcomeOK
  <2>. QED BY <2>2, <2>3, FailsOK, ToolCodesHave
<1>4. CASE grant.budget # 0 /\ name \notin {"shiftmind_demonstration", "scheduling_baseline"}
  <2>1. o = Gives \/ \E e \in ToolCodes : o = Fails(e)
    <3>1. CASE name = "scheduling_optimize"
      BY <1>4, <3>1, ToolCodesHave DEF Outcomes, Optimize
    <3>2. CASE name = "scheduling_draft_discard"
      BY <1>4, <3>2, ToolCodesHave DEF Outcomes, DiscardDraft
    <3>3. CASE name \notin {"scheduling_optimize", "scheduling_draft_discard"}
      BY <1>4, <3>3, ToolCodesHave DEF Outcomes
    <3>. QED BY <3>1, <3>2, <3>3
  <2>2. CASE o = Gives
    BY <2>2, <1>0, <1>4, ToolCodesHave DEF OutcomeOK
  <2>. QED BY <2>1, <2>2, FailsOK
<1>. QED BY <1>1, <1>2, <1>3, <1>4

\* What the run's tools are.
LEMMA ToolFacts ==
    ASSUME tools = RunTools(grant), NEW m \in tools
    PROVE  /\ m \in Installed /\ m.policy \in grant.policy
           /\ m.manifest.risk # "compute" \/ grant.explicit
           /\ grant.resume => m.manifest.name \notin ResumeWithheld
BY DEF RunTools, Compose

LEMMA NoCallType == NoCall \in CallType
BY ToolCodesHave DEF NoCall, CallType, ToolPcs

\* A step that settles one call and captures nothing.
LEMMA CallStep ==
    ASSUME ToolsInv, NEW c \in CallIds, NEW k \in CallType, NEW a \in {0, 1},
           call' = [call EXCEPT ![c] = k], acted' = [acted EXCEPT ![c] = a], CallOK(k, a),
           call[c].pc # "done", k.pc # "done", UNCHANGED <<grant, tools, captured>>
    PROVE  ToolsInv'
<1>1. ToolsTypeOK'
  BY DEF ToolsInv, ToolsTypeOK
<1>2. ASSUME NEW d \in CallIds PROVE CallOK(call[d], acted[d])'
  <2>1. CallOK(call'[d], acted'[d])
    BY <1>2 DEF ToolsInv, ToolsTypeOK
  <2>. QED BY <2>1 DEF CallOK
<1>3. CapturedOnce'
  BY DEF ToolsInv, ToolsTypeOK, CapturedOnce
<1>. QED BY <1>1, <1>2, <1>3 DEF ToolsInv

\* A step that gives one call its result.
LEMMA CallDone ==
    ASSUME ToolsInv, NEW c \in CallIds, NEW k \in CallType,
           call' = [call EXCEPT ![c] = k], acted' = [acted EXCEPT ![c] = 1], CallOK(k, 1),
           captured' = Append(captured, c),
           call[c].pc # "done", k.pc = "done", UNCHANGED <<grant, tools>>
    PROVE  ToolsInv'
<1>0. captured \in Seq(CallIds) /\ call \in [CallIds -> CallType]
  BY DEF ToolsInv, ToolsTypeOK
<1>1. ToolsTypeOK'
  <2>1. captured' \in Seq(CallIds)
    BY <1>0
  <2>. QED BY <2>1 DEF ToolsInv, ToolsTypeOK
<1>2. ASSUME NEW d \in CallIds PROVE CallOK(call[d], acted[d])'
  <2>1. CallOK(call'[d], acted'[d])
    BY <1>2 DEF ToolsInv, ToolsTypeOK
  <2>. QED BY <2>1 DEF CallOK
<1>3. CapturedOnce'
  <2>1. /\ Len(captured) \in Nat /\ DOMAIN captured = 1..Len(captured)
        /\ DOMAIN captured' = 1..(Len(captured) + 1)
        /\ \A i \in 1..Len(captured) : captured'[i] = captured[i]
        /\ captured'[Len(captured) + 1] = c
    BY <1>0, AppendProperties, LenProperties
  <2>2. \A i \in DOMAIN captured : captured[i] # c
    BY DEF ToolsInv, CapturedOnce
  <2>3. ASSUME NEW d \in CallIds, d # c
        PROVE  /\ call'[d] = call[d]
               /\ \A i \in DOMAIN captured' : captured'[i] = d <=> i \in DOMAIN captured /\ captured[i] = d
    BY <2>3, <2>1, <1>0
  <2>4. ASSUME NEW d \in CallIds
        PROVE  /\ call'[d].pc # "done" => \A i \in DOMAIN captured' : captured'[i] # d
               /\ call'[d].pc = "done" => \E i \in DOMAIN captured' :
                     captured'[i] = d /\ \A j \in DOMAIN captured' : captured'[j] = d => j = i
    <3>1. CASE d = c
      <4>1. call'[d].pc = "done"
        BY <3>1, <1>0
      <4>2. /\ Len(captured) + 1 \in DOMAIN captured'
            /\ \A j \in DOMAIN captured' : captured'[j] = c => j = Len(captured) + 1
        BY <2>1, <2>2
      <4>. QED BY <4>1, <4>2, <3>1, <2>1
    <3>2. CASE d # c
      <4>1. /\ call[d].pc # "done" => \A i \in DOMAIN captured : captured[i] # d
            /\ call[d].pc = "done" => \E i \in DOMAIN captured :
                     captured[i] = d /\ \A j \in DOMAIN captured : captured[j] = d => j = i
        BY DEF ToolsInv, CapturedOnce
      <4>2. DOMAIN captured \subseteq DOMAIN captured'
        BY <2>1
      <4>. QED BY <4>1, <4>2, <3>2, <2>3
    <3>. QED BY <3>1, <3>2
  <2>. QED BY <2>4 DEF CapturedOnce
<1>. QED BY <1>1, <1>2, <1>3 DEF ToolsInv

LEMMA ToolsInitInv == ToolsInit => ToolsInv
<1>. SUFFICES ASSUME ToolsInit PROVE ToolsInv
  OBVIOUS
<1>1. ToolsTypeOK
  BY NoCallType DEF ToolsInit, ToolsTypeOK
<1>2. ASSUME NEW c \in CallIds PROVE CallOK(call[c], acted[c])
  BY <1>2 DEF ToolsInit, CallOK, NoCall
<1>3. CapturedOnce
  BY DEF ToolsInit, CapturedOnce, NoCall
<1>. QED BY <1>1, <1>2, <1>3 DEF ToolsInv

\* What is true of a call in the state before a step.
LEMMA CallFacts ==
    ASSUME ToolsInv, NEW c \in CallIds
    PROVE  /\ call[c] \in CallType /\ acted[c] \in {0, 1} /\ CallOK(call[c], acted[c])
           /\ DOMAIN call = CallIds /\ tools = RunTools(grant)
           /\ acted \in [CallIds -> {0, 1}] /\ call \in [CallIds -> CallType]
BY DEF ToolsInv, ToolsTypeOK

LEMMA ModelCallsInv ==
    ASSUME ToolsInv, NEW c \in CallIds, ModelCalls(c) PROVE ToolsInv'
<1>1. PICK m \in tools, given \in BOOLEAN, n \in {0, 1, 2, MaxRepeat + 1} :
        call' = [call EXCEPT ![c] = [NoCall EXCEPT !.pc = "called", !.name = m.manifest.name, !.given = given, !.n = n]]
  BY DEF ModelCalls
<1>. DEFINE k == [NoCall EXCEPT !.pc = "called", !.name = m.manifest.name, !.given = given, !.n = n]
<1>2. m \in Installed /\ m.manifest.name \in ToolNames
  BY CallFacts, ToolFacts, InstalledFacts
<1>3. n \in Nat
  BY MaxRepeatAssumption
<1>4. k \in CallType /\ k.pc = "called" /\ k.name = m.manifest.name
  <2>1. NoCall \in CallType /\ "called" \in ToolPcs
    BY NoCallType DEF ToolPcs
  <2>. QED BY <1>2, <1>3, <2>1 DEF CallType
<1>5. acted[c] = 0 /\ call[c].pc = "idle" /\ ~grant.explicit
  BY CallFacts DEF ModelCalls, CallOK
<1>6. acted' = [acted EXCEPT ![c] = 0] /\ UNCHANGED <<grant, tools, captured>>
  BY <1>5, CallFacts DEF ModelCalls
<1>7. m.manifest.name # Missing
  BY <1>2, MissingAssumption DEF ToolNames
<1>. HIDE DEF k
<1>8. CallOK(k, 0)
  BY <1>4, <1>5, <1>7 DEF CallOK
<1>. QED BY <1>1, <1>4, <1>5, <1>6, <1>8, CallStep DEF k

\* A call that settles keeps all but its position and its code.
LEMMA SettledCall ==
    ASSUME ToolsInv, NEW c \in CallIds, NEW pc \in ToolPcs, NEW code \in ToolCodes, Settled(c, pc, code)
    PROVE  \E k \in CallType :
             /\ call' = [call EXCEPT ![c] = k]
             /\ k.pc = pc /\ k.code = code /\ k.name = call[c].name /\ k.given = call[c].given
             /\ k.n = call[c].n /\ k.approved = call[c].approved
<1>. DEFINE k == [call[c] EXCEPT !.pc = pc, !.code = code]
<1>1. call[c] \in CallType
  BY CallFacts
<1>2. /\ k \in CallType
      /\ k.pc = pc /\ k.code = code /\ k.name = call[c].name /\ k.given = call[c].given
      /\ k.n = call[c].n /\ k.approved = call[c].approved
  BY <1>1 DEF CallType
<1>3. call' = [call EXCEPT ![c] = k]
  BY CallFacts DEF Settled
<1>. QED BY <1>2, <1>3

LEMMA ExecuteInv ==
    ASSUME ToolsInv, NEW c \in CallIds, Execute(c) PROVE ToolsInv'
<1>1. PICK m \in Granted(call[c].name) :
          IF ~call[c].given
          THEN Settled(c, "retry", "missing_argument") /\ UNCHANGED <<captured, acted>>
          ELSE \E o \in Outcomes(m, call[c]) :
                 \/ /\ o.kind = "approval"
                    /\ Settled(c, IF m.manifest.approval = "none" THEN "raised" ELSE "suspended", o.code)
                    /\ UNCHANGED <<captured, acted>>
                 \/ /\ o.kind = "error"
                    /\ Settled(c, IF o.code \in m.retryable THEN "retry" ELSE "failed", o.code)
                    /\ UNCHANGED <<captured, acted>>
                 \/ /\ o.kind = "result"
                    /\ Settled(c, "done", Missing)
                    /\ captured' = Append(captured, c)
                    /\ acted' = [acted EXCEPT ![c] = @ + 1]
  BY DEF Execute
<1>2. m \in tools /\ m \in Installed /\ m.manifest.name = call[c].name
  BY CallFacts, ToolFacts DEF Granted
<1>3. /\ call[c].pc = "called" /\ acted[c] = 0 /\ ~grant.explicit /\ call[c].name # Missing
      /\ call[c].n \in Nat /\ UNCHANGED <<grant, tools>>
  BY CallFacts DEF Execute, CallOK, CallType
<1>4. ASSUME NEW pc \in {"retry", "suspended", "failed"}, NEW code \in ToolCodes, Settled(c, pc, code),
             UNCHANGED <<captured, acted>>,
             pc = "retry" => code \in DeclaredOf(call[c].name) \cup {"missing_argument"}
      PROVE  ToolsInv'
  <2>1. PICK k \in CallType :
             /\ call' = [call EXCEPT ![c] = k]
             /\ k.pc = pc /\ k.code = code /\ k.name = call[c].name /\ k.given = call[c].given
             /\ k.n = call[c].n /\ k.approved = call[c].approved
    BY <1>4, SettledCall DEF ToolPcs
  <2>2. CallOK(k, 0)
    BY <1>2, <1>3, <1>4, <2>1 DEF CallOK
  <2>3. acted' = [acted EXCEPT ![c] = 0]
    BY <1>3, <1>4, CallFacts
  <2>. QED BY <1>3, <1>4, <2>1, <2>2, <2>3, CallStep
<1>5. CASE ~call[c].given
  BY <1>1, <1>4, <1>5, ToolCodesHave
<1>6. CASE call[c].given
  <2>1. PICK o \in Outcomes(m, call[c]) :
                 \/ /\ o.kind = "approval"
                    /\ Settled(c, IF m.manifest.approval = "none" THEN "raised" ELSE "suspended", o.code)
                    /\ UNCHANGED <<captured, acted>>
                 \/ /\ o.kind = "error"
                    /\ Settled(c, IF o.code \in m.retryable THEN "retry" ELSE "failed", o.code)
                    /\ UNCHANGED <<captured, acted>>
                 \/ /\ o.kind = "result"
                    /\ Settled(c, "done", Missing)
                    /\ captured' = Append(captured, c)
                    /\ acted' = [acted EXCEPT ![c] = @ + 1]
    BY <1>1, <1>6
  <2>2. OutcomeOK(m, call[c], o)
    BY <1>2, <1>3, OutcomeFacts
  <2>3. CASE /\ o.kind = "approval"
             /\ Settled(c, IF m.manifest.approval = "none" THEN "raised" ELSE "suspended", o.code)
             /\ UNCHANGED <<captured, acted>>
    <3>1. m.manifest.approval # "none" /\ o.code \in ToolCodes
      BY <1>2, <2>2, <2>3, InstalledFacts DEF OutcomeOK
    <3>2. Settled(c, "suspended", o.code)
      BY <2>3, <3>1
    <3>. QED BY <1>4, <2>3, <3>1, <3>2
  <2>4. CASE /\ o.kind = "error"
             /\ Settled(c, IF o.code \in m.retryable THEN "retry" ELSE "failed", o.code)
             /\ UNCHANGED <<captured, acted>>
    <3>1. o.code \in ToolCodes
      BY <2>2 DEF OutcomeOK
    <3>2. o.code \in m.retryable => o.code \in DeclaredOf(call[c].name)
      BY <1>2, InstalledFacts DEF DeclaredOf
    <3>3. CASE o.code \in m.retryable
      BY <1>4, <2>4, <3>1, <3>2, <3>3
    <3>4. CASE o.code \notin m.retryable
      BY <1>4, <2>4, <3>1, <3>4
    <3>. QED BY <3>3, <3>4
  <2>5. CASE /\ o.kind = "result"
             /\ Settled(c, "done", Missing)
             /\ captured' = Append(captured, c)
             /\ acted' = [acted EXCEPT ![c] = @ + 1]
    <3>1. PICK k \in CallType :
             /\ call' = [call EXCEPT ![c] = k]
             /\ k.pc = "done" /\ k.code = Missing /\ k.name = call[c].name /\ k.given = call[c].given
             /\ k.n = call[c].n /\ k.approved = call[c].approved
      BY <2>5, SettledCall, ToolCodesHave DEF ToolPcs
    <3>2. CallOK(k, 1)
      BY <1>2, <1>3, <2>2, <2>5, <3>1 DEF CallOK, OutcomeOK
    <3>3. acted' = [acted EXCEPT ![c] = 1]
      BY <1>3, <2>5, CallFacts
    <3>. QED BY <1>3, <2>5, <3>1, <3>2, <3>3, CallDone
  <2>. QED BY <2>1, <2>3, <2>4, <2>5
<1>. QED BY <1>5, <1>6

LEMMA PersonDecidesInv ==
    ASSUME ToolsInv, NEW c \in CallIds, PersonDecides(c) PROVE ToolsInv'
<1>1. /\ call[c].pc = "suspended" /\ acted[c] = 0 /\ ~grant.explicit
      /\ \E m \in tools : m.manifest.name = call[c].name
      /\ call[c].name # Missing /\ UNCHANGED <<grant, tools, captured, acted>>
  BY CallFacts DEF PersonDecides, CallOK
<1>2. acted' = [acted EXCEPT ![c] = 0]
  BY <1>1, CallFacts
<1>3. CASE call' = [call EXCEPT ![c].pc = "called", ![c].approved = TRUE]
  <2>. DEFINE k == [call[c] EXCEPT !.pc = "called", !.approved = TRUE]
  <2>1. call[c] \in CallType
    BY CallFacts
  <2>2. k \in CallType /\ k.pc = "called" /\ k.name = call[c].name
    BY <2>1 DEF CallType, ToolPcs
  <2>3. call' = [call EXCEPT ![c] = k]
    BY <1>3, CallFacts
  <2>. HIDE DEF k
  <2>4. CallOK(k, 0)
    BY <1>1, <2>2 DEF CallOK
  <2>. QED BY <1>1, <1>2, <2>2, <2>3, <2>4, CallStep
<1>4. CASE Settled(c, "denied", Missing)
  <2>1. PICK k \in CallType :
             /\ call' = [call EXCEPT ![c] = k]
             /\ k.pc = "denied" /\ k.name = call[c].name
    BY <1>4, SettledCall, ToolCodesHave DEF ToolPcs
  <2>2. CallOK(k, 0)
    BY <1>1, <2>1 DEF CallOK
  <2>. QED BY <1>1, <1>2, <2>1, <2>2, CallStep
<1>. QED BY <1>3, <1>4 DEF PersonDecides

LEMMA StartRouteInv ==
    ASSUME ToolsInv, NEW c \in CallIds, StartRoute(c) PROVE ToolsInv'
<1>. DEFINE asking(n) == [NoCall EXCEPT !.name = "scheduling_optimize", !.given = TRUE, !.n = n]
<1>1. PICK n \in {0, 1, MaxRepeat + 1} :
        IF Granted("scheduling_optimize") = {}
              THEN /\ call' = [call EXCEPT ![c] = [asking(n) EXCEPT !.pc = "refused", !.code = "compute_not_granted"]]
                   /\ UNCHANGED <<captured, acted>>
              ELSE \E o \in Outcomes(OptimizeModule, asking(n)) :
                     /\ call' = [call EXCEPT ![c] = [asking(n) EXCEPT !.pc = IF o = Gives THEN "started" ELSE "refused",
                                                                   !.code = o.code]]
                     /\ acted' = IF o = Gives THEN [acted EXCEPT ![c] = @ + 1] ELSE acted
                     /\ UNCHANGED captured
  BY DEF StartRoute
<1>2. /\ call[c].pc = "idle" /\ grant.explicit /\ acted[c] = 0 /\ UNCHANGED <<grant, tools>>
  BY CallFacts DEF StartRoute, CallOK
<1>3. n \in Nat /\ "scheduling_optimize" \in ToolNames /\ "scheduling_optimize" # Missing
  <2>1. "scheduling_optimize" \in ToolNames
    BY InstalledFacts
  <2>2. "scheduling_optimize" # Missing
    BY <2>1, MissingAssumption DEF ToolNames
  <2>. QED BY <2>1, <2>2, MaxRepeatAssumption
<1>4. asking(n) \in CallType /\ asking(n).name = "scheduling_optimize" /\ asking(n).n = n
  BY <1>3, NoCallType DEF CallType
<1>. HIDE DEF asking
<1>5. ASSUME NEW pc \in {"refused", "started"}, NEW code \in ToolCodes, NEW a \in {0, 1},
             call' = [call EXCEPT ![c] = [asking(n) EXCEPT !.pc = pc, !.code = code]],
             acted' = [acted EXCEPT ![c] = a], UNCHANGED captured,
             IF pc = "started" THEN a = 1 /\ Granted("scheduling_optimize") # {} ELSE a = 0
      PROVE  ToolsInv'
  <2>. DEFINE k == [asking(n) EXCEPT !.pc = pc, !.code = code]
  <2>1. k \in CallType /\ k.pc = pc /\ k.name = "scheduling_optimize"
    BY <1>4 DEF CallType, ToolPcs
  <2>2. call' = [call EXCEPT ![c] = k]
    BY <1>5
  <2>. HIDE DEF k
  <2>3. CallOK(k, a)
    BY <1>2, <1>3, <1>5, <2>1 DEF CallOK, Granted
  <2>4. k.pc # "done" /\ call[c].pc # "done" /\ UNCHANGED <<grant, tools, captured>>
    BY <1>2, <1>5, <2>1
  <2>5. acted' = [acted EXCEPT ![c] = a]
    BY <1>5
  <2>. QED BY <2>1, <2>2, <2>3, <2>4, <2>5, CallStep
<1>6. CASE Granted("scheduling_optimize") = {}
  <2>1. acted' = [acted EXCEPT ![c] = 0]
    BY <1>1, <1>2, <1>6, CallFacts
  <2>. QED BY <1>1, <1>5, <1>6, <2>1, ToolCodesHave
<1>7. CASE Granted("scheduling_optimize") # {}
  <2>1. PICK o \in Outcomes(OptimizeModule, asking(n)) :
                     /\ call' = [call EXCEPT ![c] = [asking(n) EXCEPT !.pc = IF o = Gives THEN "started" ELSE "refused",
                                                                   !.code = o.code]]
                     /\ acted' = IF o = Gives THEN [acted EXCEPT ![c] = @ + 1] ELSE acted
                     /\ UNCHANGED captured
    BY <1>1, <1>7
  <2>2. o.code \in ToolCodes
    BY <1>3, <1>4, InstalledAre, OutcomeFacts DEF OutcomeOK
  <2>3. CASE o = Gives
    <3>1. acted' = [acted EXCEPT ![c] = 1]
      BY <1>2, <2>1, <2>3, CallFacts
    <3>. QED BY <1>5, <1>7, <2>1, <2>2, <2>3, <3>1
  <2>4. CASE o # Gives
    <3>1. acted' = [acted EXCEPT ![c] = 0]
      BY <1>2, <2>1, <2>4, CallFacts
    <3>. QED BY <1>5, <2>1, <2>2, <2>4, <3>1
  <2>. QED BY <2>3, <2>4
<1>. QED BY <1>6, <1>7

LEMMA ToolsStep == ToolsInv /\ [UseTools]_toolVars => ToolsInv'
<1>. SUFFICES ASSUME ToolsInv, [UseTools]_toolVars PROVE ToolsInv'
  OBVIOUS
<1>1. CASE UseTools
  BY <1>1, ModelCallsInv, ExecuteInv, PersonDecidesInv, StartRouteInv DEF UseTools
<1>2. CASE UNCHANGED toolVars
  BY <1>2 DEF toolVars, ToolsInv, ToolsTypeOK, CallOK, CapturedOnce
<1>. QED BY <1>1, <1>2

LEMMA ToolsInvGoverns == ToolsInv => CallsAreGoverned
<1>. SUFFICES ASSUME ToolsInv PROVE CallsAreGoverned
  OBVIOUS
<1>1. ASSUME NEW c \in CallIds
      PROVE  /\ acted[c] <= 1
             /\ call[c].pc \in {"suspended", "denied", "retry", "failed", "refused"} => acted[c] = 0
             /\ acted[c] = 1 => \/ call[c].name \notin {"shiftmind_demonstration", "scheduling_baseline"}
                                \/ call[c].name = "shiftmind_demonstration" /\ (call[c].approved \/ call[c].n = 1)
             /\ call[c].pc = "retry" => call[c].code \in DeclaredOf(call[c].name) \cup {"missing_argument"}
             /\ call[c].pc # "raised"
             /\ call[c].name = "scheduling_optimize" => grant.explicit
             /\ acted[c] = 1 => \E m \in Installed : m.manifest.name = call[c].name /\ m.policy \in grant.policy
             /\ grant.resume => call[c].name \notin ResumeWithheld
  <2>0. call[c] \in CallType /\ acted[c] \in {0, 1} /\ CallOK(call[c], acted[c]) /\ tools = RunTools(grant)
    BY CallFacts
  <2>1. call[c].pc \in ToolPcs
    BY <2>0 DEF CallType
  <2>2. /\ acted[c] <= 1
        /\ call[c].pc \in {"suspended", "denied", "retry", "failed", "refused"} => acted[c] = 0
        /\ call[c].pc # "raised"
        /\ acted[c] = 1 => call[c].pc \in {"done", "started"}
    BY <2>0, <2>1 DEF CallOK, ToolPcs
  <2>3. acted[c] = 1 => \/ call[c].name \notin {"shiftmind_demonstration", "scheduling_baseline"}
                        \/ call[c].name = "shiftmind_demonstration" /\ (call[c].approved \/ call[c].n = 1)
    BY <2>0, <2>2 DEF CallOK
  <2>4. call[c].pc = "retry" => call[c].code \in DeclaredOf(call[c].name) \cup {"missing_argument"}
    BY <2>0 DEF CallOK
  <2>5. OptimizeModule.manifest.risk = "compute"
    BY DEF OptimizeModule, OptimizeManifest, Module, Manifest
  <2>6. ASSUME NEW m \in tools, m.manifest.name = call[c].name
        PROVE  /\ m \in Installed /\ m.policy \in grant.policy
               /\ call[c].name = "scheduling_optimize" => grant.explicit
               /\ grant.resume => call[c].name \notin ResumeWithheld
    BY <2>0, <2>5, <2>6, ToolFacts, InstalledFacts
  <2>7. call[c].name = "scheduling_optimize" => grant.explicit
    <3>1. Missing # "scheduling_optimize"
      BY MissingAssumption, InstalledFacts DEF ToolNames
    <3>2. \/ call[c].name = Missing \/ grant.explicit
          \/ \E m \in tools : m.manifest.name = call[c].name
      BY <2>0, <2>1 DEF CallOK, ToolPcs
    <3>. QED BY <2>6, <3>1, <3>2
  <2>8. acted[c] = 1 => \E m \in Installed : m.manifest.name = call[c].name /\ m.policy \in grant.policy
    BY <2>0, <2>2, <2>6 DEF CallOK
  <2>9. grant.resume => call[c].name \notin ResumeWithheld
    <3>1. Missing \notin ResumeWithheld /\ "scheduling_optimize" \notin ResumeWithheld
      BY MissingAssumption, InstalledFacts DEF ToolNames, ResumeWithheld
    <3>2. \/ call[c].name \in {Missing, "scheduling_optimize"}
          \/ \E m \in tools : m.manifest.name = call[c].name
      BY <2>0, <2>1 DEF CallOK, ToolPcs
    <3>. QED BY <2>6, <3>1, <3>2
  <2>. QED BY <2>2, <2>3, <2>4, <2>7, <2>8, <2>9
<1>2. ASSUME NEW c \in CallIds
      PROVE  Cardinality({i \in DOMAIN captured : captured[i] = c}) = IF call[c].pc = "done" THEN 1 ELSE 0
  <2>. DEFINE at == {i \in DOMAIN captured : captured[i] = c}
  <2>1. CASE call[c].pc # "done"
    <3>1. at = {}
      BY <2>1 DEF ToolsInv, CapturedOnce
    <3>. QED BY <2>1, <3>1, FS_EmptySet
  <2>2. CASE call[c].pc = "done"
    <3>1. \E i : at = {i}
      BY <2>2 DEF ToolsInv, CapturedOnce
    <3>. QED BY <2>2, <3>1, FS_Singleton
  <2>. QED BY <2>1, <2>2
<1>. QED BY <1>1, <1>2 DEF CallsAreGoverned

\* Whatever a model sends and a person decides, for every set of calls, grant
\* context and repeat bound: a tool call works at most once and only with the
\* approval and the policy it needs, a correction is a declared error, and only
\* the start route computes (capability_tools.py, capabilities/registry.py).
THEOREM CallsStayGoverned == ToolsSpec => []CallsAreGoverned
<1>1. ToolsInit => ToolsInv
  BY ToolsInitInv
<1>2. ToolsInv /\ [UseTools]_toolVars => ToolsInv'
  BY ToolsStep
<1>3. ToolsInv => CallsAreGoverned
  BY ToolsInvGoverns
<1>. QED BY <1>1, <1>2, <1>3, PTL DEF ToolsSpec

----------------------------------------------------------------------------
(* Scenario data.  Invariant: a version's row is None, the uncommitted row of *)
(* the import that waits to commit, or committed for good; what a reader was *)
(* shown stands in the facts of a committed version; what a drain has read   *)
(* is the beginning of the matching facts of the version it is pinned to.    *)

VersionRows == [by : Importers, committed : BOOLEAN, digest : DOMAIN Payload]
ImportPcs == {"start", "site", "scenario", "find", "insert", "commit", "created", "replayed", "conflict"}
ImportType == [pc : ImportPcs, found : BOOLEAN, crashes : {0, 1}]
NewRow(i, committed) == [by |-> i, committed |-> committed, digest |-> Offer[i].payload]

ImportsTypeOK ==
    /\ sites \in {0, 1} /\ siteLock \in Importers \cup {None}
    /\ scenarioRow \in Importers \cup {None, "row"}
    /\ imp \in [Importers -> ImportType]
    /\ versionRow \in [Versions -> VersionRows \cup {None}]
    /\ lineage \in [Versions -> {0, 1}]

ImportOK(i) ==
    /\ siteLock = i <=> imp[i].pc = "site"
    /\ imp[i].pc = "site" => (imp[i].found <=> sites > 0)
    /\ imp[i].pc = "commit" => versionRow[Offer[i].version] = NewRow(i, FALSE)
    /\ imp[i].pc = "created" => versionRow[Offer[i].version] = NewRow(i, TRUE)
    /\ imp[i].pc = "replayed" =>
          Committed(Offer[i].version) /\ versionRow[Offer[i].version].digest = Offer[i].payload

ImportsInv ==
    /\ ImportsTypeOK
    /\ \A v \in Versions : lineage[v] = IF versionRow[v] = None THEN 0 ELSE 1
    /\ \A i \in Importers : ImportOK(i)

\* What a page of a group may hold, of a version with this payload.
ShownFrom(group, p, v) ==
    CASE group = "tasks" -> ToSet(NormalizeTasks(p))
      [] group = "workers" -> ToSet(NormalizeWorkers(p))
      [] group = "demand" -> ToSet(NormalizeDemand(p))
      [] group = "assignments" ->
            UNION {ToSet(Schedules[b].assignments) : b \in {d \in DOMAIN Schedules : Schedules[d].version = v}}
      [] group = "constraints" -> ToSet(NormalizeConstraints(p))
      [] OTHER -> {}

PayloadOfVersion(v) == Payload[versionRow[v].digest]

ReaderOK(r) ==
    LET q == reader[r]
    IN  /\ q = [pc |-> q.pc, group |-> q.group, version |-> q.version, item |-> q.item,
                outcome |-> q.outcome, got |-> q.got]
        /\ q.outcome = "resolved" => q.got = q.item
        /\ q.pc = "shown" /\ q.item # None =>
              /\ q.version \in Versions /\ Committed(q.version)
              /\ q.item \in ShownFrom(q.group, PayloadOfVersion(q.version), q.version)

DrainedRows(m, a, p) ==
    Matching(IF GroupOf(m) = "workers" THEN NormalizeWorkers(p) ELSE NormalizeDemand(p), FiltersOf(m, a))

Prefix(items, n, rows) == n <= Len(rows) /\ \A j \in 1..n : items[j] = rows[j]

ComputeOK(c) ==
    LET q == compute[c]
        rows == DrainedRows(q.metric, q.args, PayloadOfVersion(q.pinned))
    IN  /\ DOMAIN q = {"pc", "pinned", "metric", "args", "cursor", "expect", "items", "value", "refs", "error"}
        /\ q.cursor \in Nat /\ q.items \in Seq(ToSet(q.items)) /\ Len(q.items) <= MaxRows
        /\ q.pc \in {"idle", "overview"} => q.cursor = 0 /\ q.items = <<>>
        /\ q.pc \in {"overview", "drain", "done"} => q.pinned \in Versions /\ Committed(q.pinned)
        /\ q.pc = "drain" /\ GroupOf(q.metric) # "assignments" =>
              Len(q.items) = q.cursor /\ Prefix(q.items, q.cursor, rows)
        /\ q.pc = "done" /\ GroupOf(q.metric) # "assignments" =>
              /\ q.value = Calculate(q.metric, q.args, rows).value
              /\ q.refs = Calculate(q.metric, q.args, rows).refs

ReadsInv ==
    /\ reader = [r \in Readers |-> reader[r]] /\ \A r \in Readers : ReaderOK(r)
    /\ compute = [c \in Computes |-> compute[c]] /\ \A c \in Computes : ComputeOK(c)
    /\ baseline \in DOMAIN Schedules \cup {None}

DataInv == ImportsInv /\ ReadsInv

\* A committed version is there for good.
Kept == \A v \in Versions : Committed(v) => versionRow'[v] = versionRow[v]

LEMMA ImportFacts ==
    ASSUME ImportsInv, NEW i \in Importers
    PROVE  /\ imp[i] \in ImportType /\ ImportOK(i)
           /\ Offer[i].version \in Versions /\ Offer[i].payload \in DOMAIN Payload
           /\ NewRow(i, FALSE) \in VersionRows /\ NewRow(i, TRUE) \in VersionRows
           /\ \A v \in Versions : versionRow[v] \in VersionRows \cup {None}
           /\ None \notin VersionRows /\ None \notin Importers /\ None # "row"
<1>1. Offer[i].version \in Versions /\ Offer[i].payload \in DOMAIN Payload
  BY DataAssumption DEF Versions
<1>2. NewRow(i, FALSE) \in VersionRows /\ NewRow(i, TRUE) \in VersionRows
  BY <1>1 DEF NewRow, VersionRows
<1>. QED BY <1>1, <1>2, NullAssumption DEF ImportsInv, ImportsTypeOK, VersionRows

\* A step that leaves the imports alone.
LEMMA ImportsIdle ==
    ASSUME ImportsInv, UNCHANGED <<store, imp>> PROVE ImportsInv' /\ Kept
BY DEF ImportsInv, ImportsTypeOK, ImportOK, Committed, Kept, store

\* A step of an import that leaves the version rows alone: what the others know
\* still holds.
LEMMA OthersOK ==
    ASSUME ImportsInv, NEW i \in Importers, NEW e \in ImportType, imp' = [imp EXCEPT ![i] = e],
           siteLock' \in {siteLock, i, None}, siteLock \notin {i, None} => siteLock' = siteLock,
           imp[i].pc # "site" => sites' = sites,
           sites' \in {0, 1}, scenarioRow' \in Importers \cup {None, "row"},
           UNCHANGED <<versionRow, lineage>>, ImportOK(i)'
    PROVE  ImportsInv' /\ Kept
<1>1. ASSUME NEW j \in Importers PROVE ImportOK(j)'
  <2>1. CASE j = i
    BY <2>1
  <2>2. CASE j # i
    <3>1. imp'[j] = imp[j] /\ ImportOK(j) /\ ImportOK(i) /\ None \notin Importers
      BY <2>2, ImportFacts DEF ImportsInv, ImportsTypeOK
    <3>2. siteLock' = j <=> siteLock = j
      BY <2>2, <3>1
    <3>3. siteLock = j => sites' = sites
      BY <2>2, <3>1 DEF ImportOK
    <3>. QED BY <3>1, <3>2, <3>3 DEF ImportOK, Committed
  <2>. QED BY <2>1, <2>2
<1>2. imp' \in [Importers -> ImportType] /\ siteLock' \in Importers \cup {None}
  BY DEF ImportsInv, ImportsTypeOK
<1>. QED BY <1>1, <1>2 DEF ImportsInv, ImportsTypeOK, Kept

\* The row of an import's version changes while the import owns it.
LEMMA RowStep ==
    ASSUME ImportsInv, NEW i \in Importers, NEW e \in ImportType, imp' = [imp EXCEPT ![i] = e],
           siteLock # i, UNCHANGED <<sites, siteLock>>, scenarioRow' \in Importers \cup {None, "row"},
           versionRow[Offer[i].version] \in {None, NewRow(i, FALSE)},
           NEW row \in {None, NewRow(i, FALSE), NewRow(i, TRUE)},
           versionRow' = [versionRow EXCEPT ![Offer[i].version] = row],
           lineage' = [lineage EXCEPT ![Offer[i].version] = IF row = None THEN 0 ELSE 1],
           ImportOK(i)'
    PROVE  ImportsInv' /\ Kept
<1>. DEFINE v == Offer[i].version
<1>0. /\ v \in Versions /\ NewRow(i, FALSE) \in VersionRows /\ NewRow(i, TRUE) \in VersionRows
      /\ None \notin VersionRows /\ None \notin Importers
  BY ImportFacts
<1>1. ImportsTypeOK
  BY DEF ImportsInv
<1>2. versionRow'[v] = row /\ \A u \in Versions \ {v} : versionRow'[u] = versionRow[u]
  BY <1>0, <1>1 DEF ImportsTypeOK
<1>3. ~Committed(v)
  BY DEF Committed, NewRow
<1>4. ASSUME NEW j \in Importers PROVE ImportOK(j)'
  <2>1. CASE j = i
    BY <2>1
  <2>2. CASE j # i
    <3>1. imp'[j] = imp[j] /\ ImportOK(j) /\ Offer[j].version \in Versions
      BY <2>2, <1>1, ImportFacts DEF ImportsInv, ImportsTypeOK
    <3>2. CASE Offer[j].version = v
      <4>1. NewRow(j, FALSE) # NewRow(i, FALSE) /\ NewRow(j, TRUE) # NewRow(i, FALSE) /\ NewRow(j, FALSE) # None /\ NewRow(j, TRUE) # None
        <5>1. NewRow(j, FALSE) \in VersionRows /\ NewRow(j, TRUE) \in VersionRows
          BY ImportFacts
        <5>2. NewRow(j, FALSE).by = j /\ NewRow(j, TRUE).by = j /\ NewRow(i, FALSE).by = i
          BY DEF NewRow
        <5>. QED BY <1>0, <2>2, <5>1, <5>2
      <4>2. imp[j].pc \notin {"commit", "created", "replayed"}
        BY <1>3, <3>1, <3>2, <4>1 DEF ImportOK
      <4>. QED BY <3>1, <4>2 DEF ImportOK
    <3>3. CASE Offer[j].version # v
      <4>1. versionRow'[Offer[j].version] = versionRow[Offer[j].version]
        BY <1>2, <3>1, <3>3
      <4>. QED BY <3>1, <4>1 DEF ImportOK, Committed
    <3>. QED BY <3>2, <3>3
  <2>. QED BY <2>1, <2>2
<1>5. ASSUME NEW u \in Versions PROVE lineage'[u] = IF versionRow'[u] = None THEN 0 ELSE 1
  BY <1>0, <1>1, <1>2 DEF ImportsInv, ImportsTypeOK
<1>6. ImportsTypeOK'
  BY <1>0, <1>1 DEF ImportsTypeOK
<1>7. Kept
  BY <1>2, <1>3 DEF Kept
<1>. QED BY <1>4, <1>5, <1>6, <1>7 DEF ImportsInv

LEMMA ImportPc ==
    ASSUME NEW e \in ImportType, NEW pc \in ImportPcs
    PROVE  /\ [e EXCEPT !.pc = pc] \in ImportType /\ [e EXCEPT !.pc = pc].pc = pc
           /\ [e EXCEPT !.pc = pc].found = e.found
BY DEF ImportType

LEMMA ImportsStep ==
    ASSUME ImportsInv, NEW i \in Importers,
           \/ LockSeedSite(i) \/ EnsureSeedSite(i) \/ InsertScenario(i) \/ FindVersion(i)
           \/ InsertVersion(i) \/ InsertLost(i) \/ CommitImport(i) \/ CrashImport(i)
    PROVE  ImportsInv' /\ Kept
<1>. DEFINE v == Offer[i].version
<1>0. /\ imp[i] \in ImportType /\ ImportOK(i) /\ v \in Versions /\ Offer[i].payload \in DOMAIN Payload
      /\ NewRow(i, FALSE) \in VersionRows /\ NewRow(i, TRUE) \in VersionRows
      /\ \A u \in Versions : versionRow[u] \in VersionRows \cup {None}
      /\ None \notin VersionRows /\ None \notin Importers /\ None # "row"
  BY ImportFacts
<1>00. imp \in [Importers -> ImportType] /\ ImportsTypeOK
  BY DEF ImportsInv, ImportsTypeOK
<1>000. \A pc \in ImportPcs : LET e == [imp[i] EXCEPT !.pc = pc]
                              IN  e \in ImportType /\ e.pc = pc /\ e.found = imp[i].found
  BY <1>0, ImportPc
<1>1. CASE LockSeedSite(i)
  <2>. DEFINE e == [imp[i] EXCEPT !.pc = "site", !.found = sites > 0]
  <2>1. e \in ImportType /\ e.pc = "site" /\ (e.found <=> sites > 0)
    <3>1. (sites > 0) \in BOOLEAN
      OBVIOUS
    <3>2. e \in [pc : ImportPcs, found : BOOLEAN, crashes : {0, 1}]
      BY <1>0, <3>1 DEF ImportType, ImportPcs
    <3>3. e.pc = "site" /\ e.found = (sites > 0)
      BY <1>0 DEF ImportType
    <3>. QED BY <3>2, <3>3 DEF ImportType
  <2>. HIDE DEF e
  <2>2. imp' = [imp EXCEPT ![i] = e] /\ imp'[i] = e /\ siteLock' = i /\ siteLock = None
    BY <1>1, <1>00 DEF LockSeedSite, e
  <2>3. ImportOK(i)'
    BY <1>1, <2>1, <2>2 DEF LockSeedSite, ImportOK
  <2>. QED BY <1>0, <1>00, <1>1, <2>1, <2>2, <2>3, OthersOK DEF LockSeedSite, ImportsTypeOK
<1>2. CASE EnsureSeedSite(i)
  <2>. DEFINE e == [imp[i] EXCEPT !.pc = "scenario"]
  <2>1. e \in ImportType /\ e.pc = "scenario"
    BY <1>000 DEF ImportPcs
  <2>. HIDE DEF e
  <2>2. imp' = [imp EXCEPT ![i] = e] /\ imp'[i] = e /\ siteLock' = None /\ siteLock = i
    BY <1>0, <1>2, <1>00 DEF EnsureSeedSite, e, ImportOK
  <2>3. ImportOK(i)' /\ sites' \in {0, 1}
    BY <1>0, <1>00, <1>2, <2>1, <2>2 DEF EnsureSeedSite, ImportOK, ImportsTypeOK
  <2>. QED BY <1>0, <1>00, <1>2, <2>1, <2>2, <2>3, OthersOK DEF EnsureSeedSite, ImportsTypeOK
<1>3. CASE InsertScenario(i)
  <2>. DEFINE e == [imp[i] EXCEPT !.pc = "find"]
  <2>1. e \in ImportType /\ e.pc = "find"
    BY <1>000 DEF ImportPcs
  <2>. HIDE DEF e
  <2>2. imp' = [imp EXCEPT ![i] = e] /\ imp'[i] = e /\ siteLock # i
    BY <1>0, <1>3, <1>00 DEF InsertScenario, e, ImportOK
  <2>3. ImportOK(i)'
    BY <1>3, <2>1, <2>2 DEF InsertScenario, ImportOK
  <2>. QED BY <1>0, <1>00, <1>3, <2>1, <2>2, <2>3, OthersOK DEF InsertScenario, ImportsTypeOK
<1>4. CASE FindVersion(i)
  <2>. DEFINE pc == IF ~Committed(v) THEN "insert" ELSE ReplayOrReject(i)
              e == [imp[i] EXCEPT !.pc = pc]
  <2>1. pc \in {"insert", "replayed", "conflict"} /\ (pc = "replayed" => Committed(v) /\ versionRow[v].digest = Offer[i].payload)
    BY DEF ReplayOrReject
  <2>2. imp' = [imp EXCEPT ![i] = e] /\ imp'[i] = e /\ siteLock # i
    BY <1>0, <1>4, <1>00 DEF FindVersion, ImportOK
  <2>. HIDE DEF pc
  <2>3. e \in ImportType /\ e.pc = pc
    BY <1>000, <2>1 DEF ImportPcs
  <2>. HIDE DEF e
  <2>4. UNCHANGED <<sites, siteLock, versionRow, lineage>>
    BY <1>4 DEF FindVersion
  <2>5. scenarioRow' \in Importers \cup {None, "row"}
    BY <1>4, <1>00 DEF FindVersion, ImportsTypeOK
  <2>6. ImportOK(i)'
    BY <2>1, <2>2, <2>3, <2>4 DEF ImportOK, Committed
  <2>. QED BY <1>0, <1>00, <2>2, <2>3, <2>4, <2>5, <2>6, OthersOK DEF ImportsTypeOK
<1>5. CASE InsertLost(i)
  <2>. DEFINE e == [imp[i] EXCEPT !.pc = "find"]
  <2>1. e \in ImportType /\ e.pc = "find"
    BY <1>000 DEF ImportPcs
  <2>. HIDE DEF e
  <2>2. imp' = [imp EXCEPT ![i] = e] /\ imp'[i] = e /\ siteLock # i
    BY <1>0, <1>5, <1>00 DEF InsertLost, e, ImportOK
  <2>3. ImportOK(i)'
    BY <1>5, <2>1, <2>2 DEF InsertLost, ImportOK, store
  <2>. QED BY <1>0, <1>00, <1>5, <2>1, <2>2, <2>3, OthersOK DEF InsertLost, ImportsTypeOK, store
<1>6. CASE InsertVersion(i)
  <2>. DEFINE e == [imp[i] EXCEPT !.pc = "commit"]
              row == NewRow(i, FALSE)
  <2>1. e \in ImportType /\ e.pc = "commit"
    BY <1>000 DEF ImportPcs
  <2>. HIDE DEF e
  <2>2. imp' = [imp EXCEPT ![i] = e] /\ imp'[i] = e /\ siteLock # i
    BY <1>0, <1>6, <1>00 DEF InsertVersion, e, ImportOK
  <2>3. versionRow[v] = None /\ versionRow' = [versionRow EXCEPT ![v] = row] /\ versionRow'[v] = row /\ row # None
    BY <1>0, <1>6, <1>00 DEF InsertVersion, NewRow, ImportsTypeOK
  <2>4. lineage[v] = 0
    BY <1>0, <2>3 DEF ImportsInv
  <2>5. lineage' = [lineage EXCEPT ![v] = IF row = None THEN 0 ELSE 1]
    BY <1>6, <2>3, <2>4 DEF InsertVersion
  <2>6. UNCHANGED <<sites, siteLock, scenarioRow>> /\ scenarioRow \in Importers \cup {None, "row"}
    BY <1>6, <1>00 DEF InsertVersion, ImportsTypeOK
  <2>7. ImportOK(i)'
    BY <2>1, <2>2, <2>3, <2>6 DEF ImportOK
  <2>. HIDE DEF row
  <2>8. row \in {None, NewRow(i, FALSE), NewRow(i, TRUE)}
    BY DEF row
  <2>. QED BY <2>1, <2>2, <2>3, <2>5, <2>6, <2>7, <2>8, RowStep
<1>7. CASE CommitImport(i)
  <2>. DEFINE e == [imp[i] EXCEPT !.pc = "created"]
              row == NewRow(i, TRUE)
  <2>1. e \in ImportType /\ e.pc = "created"
    BY <1>000 DEF ImportPcs
  <2>. HIDE DEF e
  <2>2. imp' = [imp EXCEPT ![i] = e] /\ imp'[i] = e /\ siteLock # i /\ versionRow[v] = NewRow(i, FALSE)
    BY <1>0, <1>7, <1>00 DEF CommitImport, e, ImportOK
  <2>3. [NewRow(i, FALSE) EXCEPT !.committed = TRUE] = row
    <3>. DEFINE z == [NewRow(i, FALSE) EXCEPT !.committed = TRUE]
    <3>1. z \in [by : Importers, committed : BOOLEAN, digest : DOMAIN Payload]
      BY <1>0 DEF VersionRows
    <3>2. z.by = i /\ z.committed = TRUE /\ z.digest = Offer[i].payload
      BY <1>0 DEF VersionRows, NewRow
    <3>. HIDE DEF z
    <3>3. z = [by |-> z.by, committed |-> z.committed, digest |-> z.digest]
      BY <3>1
    <3>. QED BY <3>2, <3>3 DEF NewRow, z
  <2>4. versionRow' = [versionRow EXCEPT ![v] = row] /\ versionRow'[v] = row /\ row # None
    BY <1>0, <1>7, <1>00, <2>2, <2>3 DEF CommitImport, ImportsTypeOK
  <2>5. lineage' = lineage /\ lineage[v] = 1
    BY <1>0, <1>7, <2>2 DEF ImportsInv, CommitImport
  <2>6. lineage' = [lineage EXCEPT ![v] = IF row = None THEN 0 ELSE 1]
    BY <1>0, <1>00, <2>4, <2>5 DEF ImportsTypeOK
  <2>7. UNCHANGED <<sites, siteLock>> /\ scenarioRow' \in Importers \cup {None, "row"}
    BY <1>7, <1>00 DEF CommitImport, ImportsTypeOK
  <2>8. ImportOK(i)'
    BY <2>1, <2>2, <2>4, <2>7 DEF ImportOK
  <2>. HIDE DEF row
  <2>9. row \in {None, NewRow(i, FALSE), NewRow(i, TRUE)}
    BY DEF row
  <2>. QED BY <2>1, <2>2, <2>4, <2>6, <2>7, <2>8, <2>9, RowStep
<1>8. CASE CrashImport(i)
  <2>. DEFINE e == [pc |-> "start", found |-> FALSE, crashes |-> 1]
  <2>1. e \in ImportType /\ e.pc = "start"
    BY DEF ImportType, ImportPcs
  <2>. HIDE DEF e
  <2>2. imp' = [imp EXCEPT ![i] = e] /\ imp'[i] = e /\ UNCHANGED sites
    BY <1>8, <1>00 DEF CrashImport, e
  <2>3. siteLock' = (IF siteLock = i THEN None ELSE siteLock) /\ scenarioRow' \in Importers \cup {None, "row"}
    BY <1>8, <1>00 DEF CrashImport, ImportsTypeOK
  <2>4. ImportOK(i)'
    BY <1>0, <2>1, <2>2, <2>3 DEF ImportOK
  <2>5. CASE imp[i].pc # "commit"
    <3>1. UNCHANGED <<versionRow, lineage>>
      BY <1>8, <2>5 DEF CrashImport
    <3>. QED BY <1>0, <1>00, <2>1, <2>2, <2>3, <2>4, <3>1, OthersOK DEF ImportsTypeOK
  <2>6. CASE imp[i].pc = "commit"
    <3>1. versionRow[v] = NewRow(i, FALSE) /\ siteLock # i
      BY <1>0, <2>6 DEF ImportOK
    <3>2. lineage[v] = 1 /\ 1 - 1 = 0
      <4>1. versionRow[v] # None
        BY <1>0, <3>1
      <4>2. lineage[v] = 1
        BY <1>0, <4>1 DEF ImportsInv
      <4>. QED BY <4>2
    <3>3. versionRow' = [versionRow EXCEPT ![v] = None] /\ lineage' = [lineage EXCEPT ![v] = 0]
      BY <1>8, <2>6, <3>2 DEF CrashImport
    <3>. QED BY <2>1, <2>2, <2>3, <2>4, <3>1, <3>3, RowStep
  <2>. QED BY <2>5, <2>6
<1>. QED BY <1>1, <1>2, <1>3, <1>4, <1>5, <1>6, <1>7, <1>8

\* Imports are the only steps that touch what they keep.
LEMMA DataStep ==
    ASSUME ImportsInv, UseData PROVE ImportsInv' /\ Kept
<1>1. CASE PromoteBaseline
  BY <1>1, ImportsIdle DEF PromoteBaseline, store
<1>2. CASE \E i \in Importers :
              \/ LockSeedSite(i) \/ EnsureSeedSite(i) \/ InsertScenario(i) \/ FindVersion(i)
              \/ InsertVersion(i) \/ InsertLost(i) \/ CommitImport(i) \/ CrashImport(i)
  BY <1>2, ImportsStep
<1>3. ASSUME NEW r \in Readers,
              \/ ShowTasks(r) \/ ShowWorkers(r) \/ ShowDemand(r) \/ ShowAssignments(r) \/ ShowLocks(r)
              \/ ShowConstraints(r)
              \/ ResolveTask(r) \/ ResolveWorker(r) \/ ResolveDemandInterval(r) \/ ResolveAssignment(r)
              \/ ResolveConstraint(r)
      PROVE  ImportsInv' /\ Kept
  <2>1. UNCHANGED <<store, imp>>
    BY <1>3 DEF ShowTasks, ShowWorkers, ShowDemand, ShowAssignments, ShowLocks, ShowConstraints, Show, ResolveTask,
                ResolveWorker, ResolveDemandInterval, ResolveAssignment, ResolveConstraint, Cite
  <2>. QED BY <2>1, ImportsIdle
<1>4. ASSUME NEW c \in Computes, StartCompute(c) \/ ComputeOverview(c) \/ DrainPage(c) \/ DrainTooSlow(c)
      PROVE  ImportsInv' /\ Kept
  <2>1. UNCHANGED <<store, imp>>
    BY <1>4 DEF StartCompute, ComputeOverview, DrainPage, DrainTooSlow
  <2>. QED BY <2>1, ImportsIdle
<1>. QED BY <1>1, <1>2, <1>3, <1>4 DEF UseData

----------------------------------------------------------------------------
(* What is read.                                                             *)

Indices(n) == SUBSET (1..n)
KeptOf(items, K) == [m \in DOMAIN InOrder(K) |-> items[InOrder(K)[m]]]

\* The items of a listing that are kept, in order: a listing of some of them.
LEMMA KeptItems ==
    ASSUME NEW items, NEW size \in Nat, NEW K \in Indices(size)
    PROVE  LET s == KeptOf(items, K)
           IN  /\ s \in Seq(ToSet(s)) /\ Len(s) \in Nat /\ DOMAIN s = 1..Len(s)
               /\ \A m \in 1..Len(s) : \E i \in K : s[m] = items[i]
               /\ s = <<>> \/ 1 \in 1..Len(s)
<1>. DEFINE n == Cardinality(K)
            s == KeptOf(items, K)
<1>1. n \in Nat /\ DOMAIN InOrder(K) = 1..n /\ \A m \in 1..n : InOrder(K)[m] \in K
  <2>1. K \in SUBSET (1..size)
    BY DEF Indices
  <2>. QED BY <2>1, KeptRows
<1>. HIDE DEF n
<1>2. s = [m \in 1..n |-> s[m]] /\ \A m \in 1..n : s[m] = items[InOrder(K)[m]]
  BY <1>1 DEF KeptOf
<1>. HIDE DEF s
<1>3. s \in Seq(ToSet(s)) /\ Len(s) = n /\ DOMAIN s = 1..n
  BY <1>1, <1>2, ListIsSeq
<1>4. s = <<>> \/ 1 \in 1..Len(s)
  <2>1. CASE n = 0
    BY <1>3, <2>1, EmptySeq
  <2>2. CASE n # 0
    BY <1>1, <1>3, <2>2
  <2>. QED BY <2>1, <2>2
<1>. QED BY <1>1, <1>2, <1>3, <1>4 DEF s

LEMMA MatchingIs ==
    ASSUME NEW items, Len(items) \in Nat, NEW F
    PROVE  LET s == Matching(items, F)
           IN  /\ s \in Seq(ToSet(s)) /\ Len(s) \in Nat /\ DOMAIN s = 1..Len(s)
               /\ \A m \in 1..Len(s) : \E i \in 1..Len(items) : s[m] = items[i]
<1>. DEFINE K == {i \in 1..Len(items) : \A f \in F : Matches(items[i], f)}
            s == Matching(items, F)
<1>1. s = KeptOf(items, K)
  BY DEF Matching, Rows, KeptOf
<1>2. K \in SUBSET (1..Len(items)) /\ K \in Indices(Len(items))
  BY DEF Indices
<1>. HIDE DEF K, s
<1>3. /\ s \in Seq(ToSet(s)) /\ Len(s) \in Nat /\ DOMAIN s = 1..Len(s)
      /\ \A m \in 1..Len(s) : \E i \in K : s[m] = items[i]
  <2>. DEFINE z == KeptOf(items, K)
  <2>1. /\ z \in Seq(ToSet(z)) /\ Len(z) \in Nat /\ DOMAIN z = 1..Len(z)
        /\ \A m \in 1..Len(z) : \E i \in K : z[m] = items[i]
    <3>. DEFINE n == Len(items)
    <3>1. n \in Nat /\ K \in Indices(n)
      BY <1>2
    <3>. HIDE DEF n
    <3>. QED BY <3>1, KeptItems
  <2>. HIDE DEF z
  <2>. QED BY <1>1, <2>1 DEF z
<1>. QED BY <1>2, <1>3 DEF s

\* A citation that resolves does so in the version it names, to one of the
\* facts with the record it names.
LEMMA ResolvedIs ==
    ASSUME NEW items, Len(items) \in Nat, NEW v, NEW actual, NEW record,
           ResolveItems(items, v, actual, record).outcome = "resolved"
    PROVE  /\ v = actual
           /\ \E i \in 1..Len(items) : /\ ResolveItems(items, v, actual, record).item = items[i]
                                       /\ items[i].record = record
<1>. DEFINE K == {i \in 1..Len(items) : items[i].record = record}
            found == KeptOf(items, K)
            res == IF v # actual THEN [outcome |-> "version_mismatch", item |-> None]
                   ELSE IF found = <<>> THEN [outcome |-> "not_found", item |-> None]
                   ELSE [outcome |-> "resolved", item |-> found[1]]
<1>1. ResolveItems(items, v, actual, record) = res
  BY DEF ResolveItems, Rows, KeptOf
<1>2. /\ K \in SUBSET (1..Len(items)) /\ K \in Indices(Len(items))
      /\ \A i \in K : items[i].record = record
  BY DEF Indices
<1>3. v = actual /\ found # <<>> /\ res.item = found[1]
  BY <1>1
<1>. HIDE DEF K, res
<1>4. 1 \in 1..Len(found) /\ \A m \in 1..Len(found) : \E i \in K : found[m] = items[i]
  BY <1>2, <1>3, KeptItems, SMTT(30)
<1>. QED BY <1>1, <1>2, <1>3, <1>4

Page(cursor, limit, F) == [cursor |-> cursor, limit |-> limit, sort |-> None, order |-> "asc", filters |-> F]

\* A page is the stretch of the matching facts behind its cursor; it says how
\* many match, and where to go on while some are left.
LEMMA PageIs ==
    ASSUME NEW items, Len(items) \in Nat, NEW F, NEW cursor \in Nat, NEW limit \in Nat
    PROVE  LET page == ApplyQuery(items, Page(cursor, limit, F))
               rows == Matching(items, F)
           IN  /\ page.items \in Seq(ToSet(rows)) /\ Len(page.items) \in Nat /\ Len(page.items) <= limit
               /\ \A n \in 1..Len(page.items) : cursor + n \in 1..Len(rows) /\ page.items[n] = rows[cursor + n]
               /\ page.matching = Len(rows)
               /\ page.next # None => page.next = cursor + Len(page.items) /\ page.next < Len(rows)
<1>. DEFINE rows == Matching(items, F)
            last == IF cursor + limit < Len(rows) THEN cursor + limit ELSE Len(rows)
            part == SubSeq(rows, cursor + 1, last)
            next == IF cursor + Len(part) < Len(rows) THEN cursor + Len(part) ELSE None
            page == ApplyQuery(items, Page(cursor, limit, F))
<1>1. rows \in Seq(ToSet(rows)) /\ Len(rows) \in Nat /\ DOMAIN rows = 1..Len(rows)
  BY MatchingIs
<1>2. page.items = part /\ page.next = next /\ page.matching = Len(rows)
  <2>1. Ordered(rows, None, "asc") = rows
    BY Zenon DEF Ordered
  <2>2. page = [items |-> part, next |-> next, total |-> Len(items), matching |-> Len(rows)]
    BY <2>1 DEF ApplyQuery, SliceWindow, Page
  <2>. QED BY <2>2
<1>. HIDE DEF rows, page
<1>3. last \in Int /\ cursor + 1 \in Int /\ last <= Len(rows) /\ last <= cursor + limit /\ 0 <= last
  BY <1>1
<1>. HIDE DEF last
<1>4. \A i \in (cursor + 1)..last : i \in 1..Len(rows) /\ rows[i] \in ToSet(rows)
  BY <1>1, <1>3 DEF ToSet
<1>5. /\ part \in Seq(ToSet(rows)) /\ Len(part) = IF cursor + 1 <= last THEN last - (cursor + 1) + 1 ELSE 0
      /\ \A i \in 1..(last - (cursor + 1) + 1) : part[i] = rows[(cursor + 1) + i - 1]
  BY <1>3, <1>4, SubSeqProperties, SMTT(30)
<1>. HIDE DEF part
<1>6. Len(part) \in Nat /\ Len(part) <= limit
  BY <1>3, <1>5
<1>7. ASSUME NEW n \in 1..Len(part) PROVE cursor + n \in 1..Len(rows) /\ part[n] = rows[cursor + n]
  <2>1. n \in 1..(last - (cursor + 1) + 1) /\ (cursor + 1) + n - 1 = cursor + n
    BY <1>3, <1>5, <1>7
  <2>. QED BY <1>1, <1>3, <1>5, <2>1
<1>8. next # None => next = cursor + Len(part) /\ next < Len(rows)
  OBVIOUS
<1>. QED BY <1>2, <1>5, <1>6, <1>7, <1>8 DEF rows, page

\* Facts are listed, and a record id names one of them.
GoodFacts(s) ==
    /\ s \in Seq(ToSet(s)) /\ Len(s) \in Nat /\ DOMAIN s = 1..Len(s)
    /\ \A x, y \in ToSet(s) : x.record = y.record => x = y

LEMMA TasksGood ==
    ASSUME NEW p, IsPayload(p) PROVE GoodFacts(NormalizeTasks(p))
<1>. DEFINE t == p.tasks
            n == Len(t)
            K == {i \in 1..n : t[i].id # None /\ \A j \in 1..(i - 1) : t[j].id # t[i].id}
            f == [i \in 1..n |-> [record |-> t[i].id, task |-> t[i].id,
                                  area |-> IF t[i].area \in p.areas THEN t[i].area ELSE "Unknown"]]
            s == NormalizeTasks(p)
<1>1. n \in Nat
  BY LenProperties DEF IsPayload, IsTable
<1>2. K \in SUBSET (1..n) /\ K \in Indices(n)
  BY DEF Indices
<1>3. s = KeptOf(f, K)
  <2>1. s = [m \in DOMAIN InOrder(K) |-> LET i == InOrder(K)[m]
                                         IN  [record |-> t[i].id, task |-> t[i].id,
                                              area |-> IF t[i].area \in p.areas THEN t[i].area ELSE "Unknown"]]
    BY DEF NormalizeTasks, Rows
  <2>. HIDE DEF K
  <2>2. \A m \in DOMAIN InOrder(K) : InOrder(K)[m] \in 1..n
    BY <1>1, <1>2, KeptRows
  <2>. QED BY <2>1, <2>2 DEF KeptOf
<1>4. ASSUME NEW i \in K, NEW j \in K, f[i].record = f[j].record PROVE i = j
  <2>1. t[i].id = t[j].id /\ i \in 1..n /\ j \in 1..n
    BY <1>4
  <2>2. ~(i < j) /\ ~(j < i)
    BY <1>1, <2>1
  <2>. QED BY <1>1, <2>1, <2>2
<1>. HIDE DEF n, K, f, s
<1>5. s \in Seq(ToSet(s)) /\ Len(s) \in Nat /\ DOMAIN s = 1..Len(s) /\ \A m \in 1..Len(s) : \E i \in K : s[m] = f[i]
  <2>. DEFINE z == KeptOf(f, K)
  <2>1. z \in Seq(ToSet(z)) /\ Len(z) \in Nat /\ DOMAIN z = 1..Len(z) /\ \A m \in 1..Len(z) : \E i \in K : z[m] = f[i]
    BY <1>1, <1>2, KeptItems, SMTT(30)
  <2>. HIDE DEF z
  <2>. QED BY <1>3, <2>1 DEF z
<1>. QED BY <1>4, <1>5 DEF GoodFacts, ToSet, s

LEMMA WorkersGood ==
    ASSUME NEW p, IsPayload(p) PROVE GoodFacts(NormalizeWorkers(p))
<1>. DEFINE t == p.workers
            n == Len(t)
            K == {i \in 1..n : t[i] # None /\ \A j \in 1..(i - 1) : t[j] # t[i]}
            f == [i \in 1..n |-> [record |-> t[i], worker |-> t[i], quals |-> Qualifications(p, t[i]),
                                  windows |-> Windows(p, t[i])]]
            s == NormalizeWorkers(p)
<1>1. n \in Nat
  BY LenProperties DEF IsPayload, IsTable
<1>2. K \in SUBSET (1..n) /\ K \in Indices(n)
  BY DEF Indices
<1>3. s = KeptOf(f, K)
  <2>1. s = [m \in DOMAIN InOrder(K) |-> LET i == InOrder(K)[m]
                                         IN  [record |-> t[i], worker |-> t[i], quals |-> Qualifications(p, t[i]),
                                              windows |-> Windows(p, t[i])]]
    BY DEF NormalizeWorkers, Rows
  <2>. HIDE DEF K
  <2>2. \A m \in DOMAIN InOrder(K) : InOrder(K)[m] \in 1..n
    BY <1>1, <1>2, KeptRows
  <2>. QED BY <2>1, <2>2 DEF KeptOf
<1>4. ASSUME NEW i \in K, NEW j \in K, f[i].record = f[j].record PROVE i = j
  <2>1. t[i] = t[j] /\ i \in 1..n /\ j \in 1..n
    BY <1>4
  <2>2. ~(i < j) /\ ~(j < i)
    BY <1>1, <2>1
  <2>. QED BY <1>1, <2>1, <2>2
<1>. HIDE DEF n, K, f, s
<1>5. s \in Seq(ToSet(s)) /\ Len(s) \in Nat /\ DOMAIN s = 1..Len(s) /\ \A m \in 1..Len(s) : \E i \in K : s[m] = f[i]
  <2>. DEFINE z == KeptOf(f, K)
  <2>1. z \in Seq(ToSet(z)) /\ Len(z) \in Nat /\ DOMAIN z = 1..Len(z) /\ \A m \in 1..Len(z) : \E i \in K : z[m] = f[i]
    BY <1>1, <1>2, KeptItems, SMTT(30)
  <2>. HIDE DEF z
  <2>. QED BY <1>3, <2>1 DEF z
<1>. QED BY <1>4, <1>5 DEF GoodFacts, ToSet, s

LEMMA ConstraintsGood ==
    ASSUME NEW p, IsPayload(p) PROVE GoodFacts(NormalizeConstraints(p))
<1>. DEFINE n == Len(p.constraints)
            s == NormalizeConstraints(p)
<1>1. n \in Nat /\ DOMAIN p.constraints = 1..n
  BY LenProperties DEF IsPayload, IsTable
<1>2. s = [i \in 1..n |-> [record |-> i, kind |-> p.constraints[i]]]
  BY <1>1 DEF NormalizeConstraints
<1>3. s = [i \in 1..n |-> s[i]] /\ \A i \in 1..n : s[i].record = i
  BY <1>2
<1>. HIDE DEF n, s
<1>4. s \in Seq(ToSet(s)) /\ Len(s) = n /\ DOMAIN s = 1..n
  BY <1>1, <1>3, ListIsSeq
<1>. QED BY <1>1, <1>3, <1>4 DEF GoodFacts, ToSet, s

OutboundFact(p, i) ==
    LET r == p.outbound[i] IN Interval(RecordId(Outbound, i, 0), Outbound, r.task, r.start, r.end, r.amount)
InboundFact(p, i, k) ==
    LET r == p.inbound[i]
    IN  Interval(RecordId(Inbound, i, k), Inbound, r.tasks[k].task, r.start, r.end, r.tasks[k].amount)
IndirectFact(p, i) ==
    LET r == p.indirect[i]
    IN  Interval(RecordId(Indirect, i, 0), Indirect, r.task, DayWindow(r)[1], DayWindow(r)[2], r.amount)

DemandFacts(p) ==
    {OutboundFact(p, i) : i \in 1..MaxTable} \cup {InboundFact(p, i, k) : i, k \in 1..MaxTable}
    \cup {IndirectFact(p, i) : i \in 1..MaxTable}

LEMMA KeptInto ==
    ASSUME NEW items, NEW size \in Nat, NEW K \in Indices(size), NEW X, \A i \in K : items[i] \in X
    PROVE  KeptOf(items, K) \in Seq(X)
<1>. DEFINE s == KeptOf(items, K)
<1>1. s \in Seq(ToSet(s)) /\ Len(s) \in Nat /\ DOMAIN s = 1..Len(s) /\ \A m \in 1..Len(s) : \E i \in K : s[m] = items[i]
  BY KeptItems
<1>. HIDE DEF s
<1>2. \A m \in 1..Len(s) : s[m] \in X
  BY <1>1
<1>3. s \in [1..Len(s) -> ToSet(s)]
  BY <1>1, LenProperties
<1>4. s \in [1..Len(s) -> X]
  BY <1>2, <1>3
<1>5. s \in Seq(X)
  BY <1>1, <1>4
<1>. QED BY <1>5 DEF s

LEMMA OutboundGood ==
    ASSUME NEW p, IsPayload(p), NEW X, \A i \in 1..Len(p.outbound) : OutboundFact(p, i) \in X
    PROVE  OutboundDemand(p) \in Seq(X)
<1>. DEFINE t == p.outbound
            n == Len(t)
            K == {i \in 1..n : t[i].task \in TaskIds(p) /\ t[i].ok}
            f == [i \in 1..n |-> OutboundFact(p, i)]
<1>1. n \in Nat
  BY LenProperties DEF IsPayload, IsTable
<1>2. K \in SUBSET (1..n) /\ K \in Indices(n)
  BY DEF Indices
<1>3. OutboundDemand(p) = KeptOf(f, K)
  <2>1. OutboundDemand(p) = [m \in DOMAIN InOrder(K) |-> OutboundFact(p, InOrder(K)[m])]
    BY DEF OutboundDemand, Rows, OutboundFact
  <2>. HIDE DEF K
  <2>2. \A m \in DOMAIN InOrder(K) : InOrder(K)[m] \in 1..n
    BY <1>1, <1>2, KeptRows
  <2>. QED BY <2>1, <2>2 DEF KeptOf
<1>4. \A i \in K : f[i] \in X
  BY <1>2
<1>. HIDE DEF n, K, f
<1>. QED BY <1>1, <1>2, <1>3, <1>4, KeptInto

LEMMA IndirectGood ==
    ASSUME NEW p, IsPayload(p), NEW X, \A i \in 1..Len(p.indirect) : IndirectFact(p, i) \in X
    PROVE  IndirectDemand(p) \in Seq(X)
<1>. DEFINE t == p.indirect
            n == Len(t)
            K == {i \in 1..n : t[i].task \in TaskIds(p) /\ t[i].ok}
            f == [i \in 1..n |-> IndirectFact(p, i)]
<1>1. n \in Nat
  BY LenProperties DEF IsPayload, IsTable
<1>2. K \in SUBSET (1..n) /\ K \in Indices(n)
  BY DEF Indices
<1>3. IndirectDemand(p) = KeptOf(f, K)
  <2>1. IndirectDemand(p) = [m \in DOMAIN InOrder(K) |-> IndirectFact(p, InOrder(K)[m])]
    BY DEF IndirectDemand, Rows, IndirectFact
  <2>. HIDE DEF K
  <2>2. \A m \in DOMAIN InOrder(K) : InOrder(K)[m] \in 1..n
    BY <1>1, <1>2, KeptRows
  <2>. QED BY <2>1, <2>2 DEF KeptOf
<1>4. \A i \in K : f[i] \in X
  BY <1>2
<1>. HIDE DEF n, K, f
<1>. QED BY <1>1, <1>2, <1>3, <1>4, KeptInto

InboundTasks(p, i) ==
    LET K == {k \in 1..Len(p.inbound[i].tasks) : p.inbound[i].tasks[k].task \in TaskIds(p)}
    IN  [m \in DOMAIN InOrder(K) |-> InboundFact(p, i, InOrder(K)[m])]

LEMMA InboundTasksGood ==
    ASSUME NEW p, IsPayload(p), NEW i \in DOMAIN p.inbound, NEW X,
           \A k \in 1..Len(p.inbound[i].tasks) : InboundFact(p, i, k) \in X
    PROVE  InboundTasks(p, i) \in Seq(X)
<1>. DEFINE t == p.inbound[i].tasks
            n == Len(t)
            K == {k \in 1..n : t[k].task \in TaskIds(p)}
            f == [k \in 1..n |-> InboundFact(p, i, k)]
<1>1. n \in Nat
  BY LenProperties DEF IsPayload, IsTable
<1>2. K \in SUBSET (1..n) /\ K \in Indices(n)
  BY DEF Indices
<1>3. InboundTasks(p, i) = KeptOf(f, K)
  <2>1. InboundTasks(p, i) = [m \in DOMAIN InOrder(K) |-> InboundFact(p, i, InOrder(K)[m])]
    BY DEF InboundTasks
  <2>. HIDE DEF K
  <2>2. \A m \in DOMAIN InOrder(K) : InOrder(K)[m] \in 1..n
    BY <1>1, <1>2, KeptRows
  <2>. QED BY <2>1, <2>2 DEF KeptOf
<1>4. \A k \in K : f[k] \in X
  BY <1>2
<1>. HIDE DEF n, K, f
<1>. QED BY <1>1, <1>2, <1>3, <1>4, KeptInto

LEMMA InboundGood ==
    ASSUME NEW p, IsPayload(p), NEW Y,
           \A i \in 1..Len(p.inbound) : \A k \in 1..Len(p.inbound[i].tasks) : InboundFact(p, i, k) \in Y
    PROVE  InboundDemand(p) \in Seq(Y)
<1>. DEFINE t == p.inbound
            n == Len(t)
            K == {i \in 1..n : t[i].ok}
            f == [i \in 1..n |-> InboundTasks(p, i)]
            X == Seq(Y)
<1>1. n \in Nat /\ DOMAIN t = 1..n
  BY LenProperties DEF IsPayload, IsTable
<1>2. K \in SUBSET (1..n) /\ K \in Indices(n)
  BY DEF Indices
<1>3. InboundDemand(p) = FlattenSeq(KeptOf(f, K))
  <2>1. InboundDemand(p) = FlattenSeq([m \in DOMAIN InOrder(K) |-> InboundTasks(p, InOrder(K)[m])])
    BY DEF InboundDemand, Rows, InboundTasks, InboundFact
  <2>. HIDE DEF K
  <2>2. \A m \in DOMAIN InOrder(K) : InOrder(K)[m] \in 1..n
    BY <1>1, <1>2, KeptRows
  <2>. QED BY <2>1, <2>2 DEF KeptOf
<1>4. \A i \in K : f[i] \in X
  BY <1>1, <1>2, InboundTasksGood
<1>. HIDE DEF n, K, f
<1>5. KeptOf(f, K) \in Seq(X)
  <2>. HIDE DEF X
  <2>. QED BY <1>1, <1>2, <1>4, KeptInto
<1>. QED BY <1>3, <1>5, FlattenIs

\* The demand group has a fact of every kept row of the three tables.
LEMMA DemandFrom ==
    ASSUME NEW p, IsPayload(p), NEW X, \A i \in 1..Len(p.outbound) : OutboundFact(p, i) \in X,
           \A i \in 1..Len(p.inbound) : \A k \in 1..Len(p.inbound[i].tasks) : InboundFact(p, i, k) \in X,
           \A i \in 1..Len(p.indirect) : IndirectFact(p, i) \in X
    PROVE  NormalizeDemand(p) \in Seq(X)
<1>1. OutboundDemand(p) \in Seq(X) /\ InboundDemand(p) \in Seq(X) /\ IndirectDemand(p) \in Seq(X)
  BY OutboundGood, InboundGood, IndirectGood
<1>. QED BY <1>1, ConcatProperties DEF NormalizeDemand

\* The tables are short enough for the numbers of the bounded set of facts.
LEMMA TablesShort ==
    ASSUME NEW p, IsPayload(p), ShortTables(p)
    PROVE  /\ \A i \in 1..Len(p.outbound) : OutboundFact(p, i) \in DemandFacts(p)
           /\ \A i \in 1..Len(p.inbound) : \A k \in 1..Len(p.inbound[i].tasks) : InboundFact(p, i, k) \in DemandFacts(p)
           /\ \A i \in 1..Len(p.indirect) : IndirectFact(p, i) \in DemandFacts(p)
<1>1. ASSUME NEW t, IsTable(t), Len(t) <= MaxTable, NEW i \in 1..Len(t) PROVE i \in 1..MaxTable /\ i \in DOMAIN t
  <2>1. Len(t) \in Nat /\ DOMAIN t = 1..Len(t)
    BY <1>1, LenProperties DEF IsTable
  <2>. QED BY <1>1, <2>1 DEF MaxTable
<1>2. \A i \in 1..Len(p.outbound) : i \in 1..MaxTable
  BY <1>1 DEF IsPayload, ShortTables
<1>3. \A i \in 1..Len(p.inbound) : i \in 1..MaxTable /\ \A k \in 1..Len(p.inbound[i].tasks) : k \in 1..MaxTable
  BY <1>1 DEF IsPayload, ShortTables
<1>4. \A i \in 1..Len(p.indirect) : i \in 1..MaxTable
  BY <1>1 DEF IsPayload, ShortTables
<1>. QED BY <1>2, <1>3, <1>4 DEF DemandFacts

LEMMA DemandGood ==
    ASSUME NEW p, IsPayload(p), ShortTables(p) PROVE GoodFacts(NormalizeDemand(p))
<1>. DEFINE X == DemandFacts(p)
            s == NormalizeDemand(p)
<1>2. s \in Seq(X)
  BY TablesShort, DemandFrom
<1>3. \A x, y \in X : x.record = y.record => x = y
  <2>1. /\ \A i, k \in 1..MaxTable : InboundFact(p, i, k).record = 100 + 10 * i + k
        /\ \A i \in 1..MaxTable : OutboundFact(p, i).record = 300 + 10 * i
        /\ \A i \in 1..MaxTable : IndirectFact(p, i).record = 200 + 10 * i
    BY DEF InboundFact, OutboundFact, IndirectFact, Interval, RecordId, Inbound, Outbound, Indirect, MaxTable
  <2>. SUFFICES ASSUME NEW x \in X, NEW y \in X, x.record = y.record PROVE x = y
    OBVIOUS
  <2>2. \A z \in X : \/ \E i, k \in 1..MaxTable : z = InboundFact(p, i, k)
                     \/ \E i \in 1..MaxTable : z = OutboundFact(p, i)
                     \/ \E i \in 1..MaxTable : z = IndirectFact(p, i)
    BY DEF DemandFacts
  <2>. HIDE DEF X
  <2>3. CASE \E i, k \in 1..MaxTable : x = InboundFact(p, i, k)
    <3>1. PICK i \in 1..MaxTable, k \in 1..MaxTable : x = InboundFact(p, i, k)
      BY <2>3
    <3>2. x.record = 100 + 10 * i + k /\ i \in 1..9 /\ k \in 1..9
      BY <2>1, <3>1 DEF MaxTable
    <3>3. ASSUME NEW j \in 1..MaxTable, y = OutboundFact(p, j) \/ y = IndirectFact(p, j) PROVE FALSE
      <4>1. y.record \in {300 + 10 * j, 200 + 10 * j} /\ j \in 1..9
        BY <2>1, <3>3 DEF MaxTable
      <4>. QED BY <3>2, <4>1
    <3>4. ASSUME NEW j \in 1..MaxTable, NEW l \in 1..MaxTable, y = InboundFact(p, j, l) PROVE x = y
      <4>1. y.record = 100 + 10 * j + l /\ j \in 1..9 /\ l \in 1..9
        BY <2>1, <3>4 DEF MaxTable
      <4>2. 100 + 10 * i + k = 100 + 10 * j + l
        BY <3>2, <4>1
      <4>3. i = j /\ k = l
        BY <3>2, <4>1, <4>2
      <4>. QED BY <3>1, <3>4, <4>3
    <3>. QED BY <2>2, <3>3, <3>4
  <2>4. CASE \E i \in 1..MaxTable : x = OutboundFact(p, i)
    <3>1. PICK i \in 1..MaxTable : x = OutboundFact(p, i)
      BY <2>4
    <3>2. x.record = 300 + 10 * i /\ i \in 1..9
      BY <2>1, <3>1 DEF MaxTable
    <3>3. ASSUME NEW j \in 1..MaxTable, y = IndirectFact(p, j) PROVE FALSE
      <4>1. y.record = 200 + 10 * j /\ j \in 1..9
        BY <2>1, <3>3 DEF MaxTable
      <4>2. 300 + 10 * i = 200 + 10 * j
        BY <3>2, <4>1
      <4>. QED BY <3>2, <4>1, <4>2
    <3>4. ASSUME NEW j \in 1..MaxTable, NEW l \in 1..MaxTable, y = InboundFact(p, j, l) PROVE FALSE
      <4>1. y.record = 100 + 10 * j + l /\ j \in 1..9 /\ l \in 1..9
        BY <2>1, <3>4 DEF MaxTable
      <4>2. 300 + 10 * i = 100 + 10 * j + l
        BY <3>2, <4>1
      <4>. QED BY <3>2, <4>1, <4>2
    <3>5. ASSUME NEW j \in 1..MaxTable, y = OutboundFact(p, j) PROVE x = y
      <4>1. y.record = 300 + 10 * j /\ j \in 1..9
        BY <2>1, <3>5 DEF MaxTable
      <4>2. 300 + 10 * i = 300 + 10 * j
        BY <3>2, <4>1
      <4>3. i = j
        BY <3>2, <4>1, <4>2
      <4>. QED BY <3>1, <3>5, <4>3
    <3>. QED BY <2>2, <3>3, <3>4, <3>5
  <2>5. CASE \E i \in 1..MaxTable : x = IndirectFact(p, i)
    <3>1. PICK i \in 1..MaxTable : x = IndirectFact(p, i)
      BY <2>5
    <3>2. x.record = 200 + 10 * i /\ i \in 1..9
      BY <2>1, <3>1 DEF MaxTable
    <3>3. ASSUME NEW j \in 1..MaxTable, y = OutboundFact(p, j) PROVE FALSE
      <4>1. y.record = 300 + 10 * j /\ j \in 1..9
        BY <2>1, <3>3 DEF MaxTable
      <4>2. 200 + 10 * i = 300 + 10 * j
        BY <3>2, <4>1
      <4>. QED BY <3>2, <4>1, <4>2
    <3>4. ASSUME NEW j \in 1..MaxTable, NEW l \in 1..MaxTable, y = InboundFact(p, j, l) PROVE FALSE
      <4>1. y.record = 100 + 10 * j + l /\ j \in 1..9 /\ l \in 1..9
        BY <2>1, <3>4 DEF MaxTable
      <4>2. 200 + 10 * i = 100 + 10 * j + l
        BY <3>2, <4>1
      <4>. QED BY <3>2, <4>1, <4>2
    <3>5. ASSUME NEW j \in 1..MaxTable, y = IndirectFact(p, j) PROVE x = y
      <4>1. y.record = 200 + 10 * j /\ j \in 1..9
        BY <2>1, <3>5 DEF MaxTable
      <4>2. 200 + 10 * i = 200 + 10 * j
        BY <3>2, <4>1
      <4>3. i = j
        BY <3>2, <4>1, <4>2
      <4>. QED BY <3>1, <3>5, <4>3
    <3>. QED BY <2>2, <3>3, <3>4, <3>5
  <2>. QED BY <2>2, <2>3, <2>4, <2>5
<1>4. Len(s) \in Nat /\ DOMAIN s = 1..Len(s)
  BY <1>2, LenProperties
<1>5. s \in Seq(ToSet(s)) /\ ToSet(s) \subseteq X
  BY <1>2, OwnSeq
<1>. QED BY <1>3, <1>4, <1>5 DEF GoodFacts

\* A record id names one fact of a version, whichever schedule of the version
\* an assignment is read from.
LEMMA ShownUnique ==
    ASSUME NEW p, IsPayload(p), ShortTables(p), NEW v, NEW group,
           NEW x \in ShownFrom(group, p, v), NEW y \in ShownFrom(group, p, v), x.record = y.record
    PROVE  x = y
<1>1. CASE group = "tasks"
  BY <1>1, TasksGood DEF ShownFrom, GoodFacts
<1>2. CASE group = "workers"
  BY <1>2, WorkersGood DEF ShownFrom, GoodFacts
<1>3. CASE group = "demand"
  BY <1>3, DemandGood DEF ShownFrom, GoodFacts
<1>4. CASE group = "assignments"
  <2>1. PICK b \in DOMAIN Schedules : Schedules[b].version = v /\ x \in ToSet(Schedules[b].assignments)
    BY <1>4 DEF ShownFrom
  <2>2. PICK d \in DOMAIN Schedules : Schedules[d].version = v /\ y \in ToSet(Schedules[d].assignments)
    BY <1>4 DEF ShownFrom
  <2>. QED BY <2>1, <2>2, SchedulesAssumption
<1>5. CASE group = "constraints"
  BY <1>5, ConstraintsGood DEF ShownFrom, GoodFacts
<1>6. CASE group \notin {"tasks", "workers", "demand", "assignments", "constraints"}
  BY <1>6 DEF ShownFrom
<1>. QED BY <1>1, <1>2, <1>3, <1>4, <1>5, <1>6

LEMMA LatestIs ==
    ASSUME ImportsInv, Known PROVE Latest \in Versions /\ Committed(Latest)
<1>. DEFINE T == {u \in Versions : Committed(u)}
<1>1. IsFiniteSet(Versions) /\ Versions \in SUBSET Nat
  <2>1. IsFiniteSet(Importers) /\ Versions \in SUBSET Nat
    BY DataAssumption
  <2>. DEFINE f == [i \in Importers |-> Offer[i].version]
  <2>2. f \in Surjection(Importers, Versions)
    BY DEF Versions, Surjection
  <2>. HIDE DEF f
  <2>. QED BY <2>1, <2>2, FS_Surjection
<1>2. IsFiniteSet(T) /\ T \in SUBSET Nat
  <2>1. T \in SUBSET Versions
    OBVIOUS
  <2>. QED BY <1>1, <2>1, FS_Subset
<1>3. T # {}
  BY DEF Known
<1>4. \E v \in T : \A u \in T : u <= v
  <2>. HIDE DEF T
  <2>. QED BY <1>2, <1>3, FiniteMax
<1>5. \E v \in T : \A u \in Versions : Committed(u) => u <= v
  BY <1>4
<1>. QED BY <1>5 DEF Latest

LEMMA PayloadGood ==
    ASSUME ImportsInv, NEW v \in Versions, Committed(v)
    PROVE  IsPayload(PayloadOfVersion(v)) /\ ShortTables(PayloadOfVersion(v))
<1>1. versionRow[v] \in VersionRows
  BY DEF ImportsInv, ImportsTypeOK, Committed
<1>. QED BY <1>1, DataAssumption DEF VersionRows, PayloadOfVersion

FactGroups == {"tasks", "workers", "demand", "assignments", "locks", "constraints"}

\* What a group is read from now.
FactsNow(group) ==
    CASE group = "tasks" -> NormalizeTasks(LatestPayload)
      [] group = "workers" -> NormalizeWorkers(LatestPayload)
      [] group = "demand" -> NormalizeDemand(LatestPayload)
      [] group = "assignments" -> BaselineAssignments
      [] group = "locks" -> <<>>
      [] group = "constraints" -> NormalizeConstraints(LatestPayload)

LEMMA ReadIs ==
    ASSUME NEW group \in FactGroups, NEW q PROVE ReadFacts(group, q) = ApplyQuery(FactsNow(group), q)
<1>1. CASE group = "tasks"
  BY <1>1 DEF ReadFacts, FactsNow, GetTasks
<1>2. CASE group = "workers"
  BY <1>2 DEF ReadFacts, FactsNow, GetWorkers
<1>3. CASE group = "demand"
  BY <1>3 DEF ReadFacts, FactsNow, GetDemand
<1>4. CASE group = "assignments"
  BY <1>4 DEF ReadFacts, FactsNow, GetBaselineAssignments
<1>5. CASE group = "locks"
  BY <1>5 DEF ReadFacts, FactsNow, GetLocks
<1>6. CASE group = "constraints"
  BY <1>6 DEF ReadFacts, FactsNow, GetConstraints
<1>. QED BY <1>1, <1>2, <1>3, <1>4, <1>5, <1>6 DEF FactGroups

LEMMA FactsNowGood ==
    ASSUME ImportsInv, baseline \in DOMAIN Schedules \cup {None}, Latest \in Versions, Committed(Latest), NEW group \in FactGroups
    PROVE  /\ Len(FactsNow(group)) \in Nat
           /\ \A i \in 1..Len(FactsNow(group)) :
                 FactsNow(group)[i] \in ShownFrom(group, PayloadOfVersion(Latest), Latest)
<1>. DEFINE p == PayloadOfVersion(Latest)
<1>1. IsPayload(p) /\ ShortTables(p) /\ p = LatestPayload
  BY PayloadGood DEF PayloadOfVersion, LatestPayload
<1>. HIDE DEF p
<1>2. \A s : GoodFacts(s) => Len(s) \in Nat /\ \A i \in 1..Len(s) : s[i] \in ToSet(s)
  BY DEF GoodFacts, ToSet
<1>3. CASE group = "tasks"
  BY <1>1, <1>2, <1>3, TasksGood DEF FactsNow, ShownFrom, p
<1>4. CASE group = "workers"
  BY <1>1, <1>2, <1>4, WorkersGood DEF FactsNow, ShownFrom, p
<1>5. CASE group = "demand"
  BY <1>1, <1>2, <1>5, DemandGood DEF FactsNow, ShownFrom, p
<1>6. CASE group = "assignments"
  <2>1. FactsNow(group) = BaselineAssignments
    BY <1>6 DEF FactsNow
  <2>2. CASE baseline = None \/ Schedules[baseline].version # Latest
    <3>1. FactsNow(group) = <<>>
      BY <2>1, <2>2 DEF BaselineAssignments
    <3>. QED BY <3>1
  <2>3. CASE baseline # None /\ Schedules[baseline].version = Latest
    <3>. DEFINE s == Schedules[baseline].assignments
    <3>1. FactsNow(group) = s /\ baseline \in DOMAIN Schedules
      BY <2>1, <2>3 DEF BaselineAssignments
    <3>2. s \in Seq(ToSet(s))
      BY <3>1, SchedulesAssumption
    <3>3. Len(s) \in Nat /\ \A i \in 1..Len(s) : s[i] \in ToSet(s)
      BY <3>2, LenProperties DEF ToSet
    <3>4. ToSet(s) \subseteq ShownFrom("assignments", p, Latest)
      BY <2>3, <3>1 DEF ShownFrom
    <3>. QED BY <1>6, <3>1, <3>3, <3>4 DEF p
  <2>. QED BY <2>2, <2>3
<1>7. CASE group = "locks"
  <2>1. FactsNow(group) = <<>>
    BY <1>7 DEF FactsNow
  <2>. QED BY <2>1
<1>8. CASE group = "constraints"
  BY <1>1, <1>2, <1>8, ConstraintsGood DEF FactsNow, ShownFrom, p
<1>. QED BY <1>3, <1>4, <1>5, <1>6, <1>7, <1>8 DEF FactGroups

\* What was shown, and what was drained, stays true of its version.
LEMMA ReaderKeeps ==
    ASSUME NEW r \in Readers, ReaderOK(r), Kept, reader'[r] = reader[r] PROVE ReaderOK(r)'
<1>. DEFINE q == reader[r]
<1>1. CASE q.pc = "shown" /\ q.item # None
  <2>1. q.version \in Versions /\ Committed(q.version) /\ versionRow'[q.version] = versionRow[q.version]
    BY <1>1 DEF ReaderOK, Kept
  <2>. QED BY <2>1 DEF ReaderOK, Committed, PayloadOfVersion
<1>2. CASE ~(q.pc = "shown" /\ q.item # None)
  BY <1>2 DEF ReaderOK
<1>. QED BY <1>1, <1>2

LEMMA ComputeKeeps ==
    ASSUME NEW c \in Computes, ComputeOK(c), Kept, compute'[c] = compute[c] PROVE ComputeOK(c)'
<1>. DEFINE q == compute[c]
<1>1. CASE q.pc \in {"overview", "drain", "done"}
  <2>1. q.pinned \in Versions /\ Committed(q.pinned) /\ versionRow'[q.pinned] = versionRow[q.pinned]
    BY <1>1 DEF ComputeOK, Kept
  <2>. QED BY <2>1 DEF ComputeOK, Committed, PayloadOfVersion
<1>2. CASE q.pc \notin {"overview", "drain", "done"}
  BY <1>2 DEF ComputeOK
<1>. QED BY <1>1, <1>2

LEMMA ShowOK ==
    ASSUME DataInv, NEW r \in Readers, NEW group \in FactGroups, Show(r, group)
    PROVE  ReaderOK(r)'
<1>. DEFINE v == Latest
            F == {}
<1>1. v \in Versions /\ Committed(v)
  BY LatestIs DEF Show, DataInv
<1>2. PICK c \in {0, 1} :
         LET page == ReadFacts(group, Page(c, 1, F))
         IN  reader' = [reader EXCEPT ![r] =
                 [pc |-> "shown", group |-> group, version |-> v,
                  item |-> IF page.items = <<>> THEN None ELSE page.items[1], outcome |-> None, got |-> None]]
  BY DEF Show, Page
<1>. DEFINE page == ApplyQuery(FactsNow(group), Page(c, 1, F))
            item == IF page.items = <<>> THEN None ELSE page.items[1]
            q == [pc |-> "shown", group |-> group, version |-> v, item |-> item, outcome |-> None, got |-> None]
<1>3. reader'[r] = q
  <2>1. reader' = [reader EXCEPT ![r] = q]
    BY <1>2, ReadIs
  <2>. QED BY <2>1 DEF DataInv, ReadsInv
<1>4. item # None => item \in ShownFrom(group, PayloadOfVersion(v), v)
  <2>. DEFINE its == FactsNow(group)
              rows == Matching(its, F)
  <2>1. Len(its) \in Nat /\ \A i \in 1..Len(its) : its[i] \in ShownFrom(group, PayloadOfVersion(v), v)
    BY <1>1, FactsNowGood DEF DataInv, ReadsInv
  <2>. HIDE DEF its, v, F
  <2>2. \A m \in 1..Len(rows) : \E i \in 1..Len(its) : rows[m] = its[i]
    BY <2>1, MatchingIs
  <2>3. c \in Nat /\ 1 \in Nat
    OBVIOUS
  <2>4. /\ page.items \in Seq(ToSet(rows)) /\ Len(page.items) \in Nat
        /\ \A n \in 1..Len(page.items) : c + n \in 1..Len(rows) /\ page.items[n] = rows[c + n]
    BY <2>1, <2>3, PageIs DEF its
  <2>. HIDE DEF page, rows
  <2>5. CASE page.items = <<>>
    BY <2>5
  <2>6. CASE page.items # <<>>
    <3>1. Len(page.items) # 0
      BY <2>4, <2>6, EmptySeq
    <3>2. 1 \in 1..Len(page.items)
      BY <2>4, <3>1
    <3>3. c + 1 \in 1..Len(rows) /\ item = rows[c + 1]
      BY <2>4, <2>6, <3>2
    <3>. QED BY <2>1, <2>2, <3>3
  <2>. QED BY <2>5, <2>6
<1>. HIDE DEF item, v
<1>5. q.pc = "shown" /\ q.group = group /\ q.version = v /\ q.item = item /\ q.outcome = None /\ q.got = None
  OBVIOUS
<1>6. UNCHANGED versionRow
  BY DEF Show, store
<1>7. None # "resolved"
  BY NullAssumption
<1>8. q = [pc |-> q.pc, group |-> q.group, version |-> q.version, item |-> q.item, outcome |-> q.outcome, got |-> q.got]
  BY <1>5
<1>. HIDE DEF q
<1>. QED BY <1>1, <1>3, <1>4, <1>5, <1>6, <1>7, <1>8 DEF ReaderOK, Committed, PayloadOfVersion

LEMMA CiteOK ==
    ASSUME DataInv, NEW r \in Readers, NEW group \in FactGroups, Cite(r, group, FactsNow(group))
    PROVE  ReaderOK(r)'
<1>. DEFINE q == reader[r]
            its == FactsNow(group)
            res == ResolveItems(its, q.version, Latest, q.item.record)
            n == [q EXCEPT !.pc = "cited", !.outcome = res.outcome, !.got = res.item]
<1>1. q.pc = "shown" /\ q.group = group /\ q.item # None /\ ReaderOK(r)
  BY DEF Cite, DataInv, ReadsInv
<1>2. reader'[r] = n
  BY DEF Cite, DataInv, ReadsInv
<1>3. q = [pc |-> q.pc, group |-> q.group, version |-> q.version, item |-> q.item, outcome |-> q.outcome, got |-> q.got]
  BY <1>1 DEF ReaderOK
<1>4. /\ n = [pc |-> n.pc, group |-> n.group, version |-> n.version, item |-> n.item, outcome |-> n.outcome, got |-> n.got]
      /\ n.pc = "cited" /\ n.item = q.item /\ n.outcome = res.outcome /\ n.got = res.item
  <2>. DEFINE T == [pc : {q.pc, "cited"}, group : {q.group}, version : {q.version}, item : {q.item},
                    outcome : {q.outcome, res.outcome}, got : {q.got, res.item}]
  <2>. HIDE DEF q, res
  <2>1. q \in T
    BY <1>3
  <2>2. n \in T /\ n.pc = "cited" /\ n.item = q.item /\ n.outcome = res.outcome /\ n.got = res.item
    BY <2>1
  <2>. HIDE DEF n
  <2>. QED BY <2>2
<1>5. ASSUME res.outcome = "resolved" PROVE res.item = q.item
  <2>1. q.version \in Versions /\ Committed(q.version) /\ q.item \in ShownFrom(group, PayloadOfVersion(q.version), q.version)
    BY <1>1 DEF ReaderOK
  <2>2. q.version = Latest
    BY <1>5 DEF ResolveItems
  <2>3. /\ Len(its) \in Nat
        /\ \A i \in 1..Len(its) : its[i] \in ShownFrom(group, PayloadOfVersion(Latest), Latest)
    BY <2>1, <2>2, FactsNowGood DEF DataInv, ReadsInv
  <2>. HIDE DEF its
  <2>4. PICK i \in 1..Len(its) : res.item = its[i] /\ its[i].record = q.item.record
    BY <1>5, <2>3, ResolvedIs
  <2>5. IsPayload(PayloadOfVersion(Latest)) /\ ShortTables(PayloadOfVersion(Latest))
    BY <2>1, <2>2, PayloadGood DEF DataInv
  <2>. QED BY <2>1, <2>2, <2>3, <2>4, <2>5, ShownUnique
<1>. HIDE DEF n
<1>. QED BY <1>2, <1>4, <1>5 DEF ReaderOK

LEMMA ReadersStep ==
    ASSUME DataInv, UseData
    PROVE  reader' = [r \in Readers |-> reader'[r]] /\ \A r \in Readers : ReaderOK(r)'
<1>0. /\ ImportsInv /\ Kept /\ reader = [r \in Readers |-> reader[r]] /\ \A r \in Readers : ReaderOK(r)
  BY DataStep DEF DataInv, ReadsInv
<1>1. CASE UNCHANGED reader
  <2>1. \A r \in Readers : reader'[r] = reader[r]
    BY <1>1
  <2>2. \A r \in Readers : ReaderOK(r)'
    BY <1>0, <2>1, ReaderKeeps
  <2>. QED BY <1>0, <1>1, <2>2
<1>2. ASSUME NEW r \in Readers, NEW group \in FactGroups, Show(r, group) \/ Cite(r, group, FactsNow(group))
      PROVE  reader' = [s \in Readers |-> reader'[s]] /\ \A s \in Readers : ReaderOK(s)'
  <2>1. ReaderOK(r)'
    BY <1>2, ShowOK, CiteOK
  <2>2. PICK n : reader' = [reader EXCEPT ![r] = n]
    BY <1>2 DEF Show, Cite
  <2>3. reader' = [s \in Readers |-> reader'[s]] /\ \A s \in Readers \ {r} : reader'[s] = reader[s]
    BY <1>0, <2>2
  <2>4. \A s \in Readers \ {r} : ReaderOK(s)'
    BY <1>0, <2>3, ReaderKeeps
  <2>. QED BY <2>1, <2>3, <2>4
<1>3. CASE PromoteBaseline
  BY <1>1, <1>3 DEF PromoteBaseline
<1>4. ASSUME NEW i \in Importers,
             \/ LockSeedSite(i) \/ EnsureSeedSite(i) \/ InsertScenario(i) \/ FindVersion(i)
             \/ InsertVersion(i) \/ InsertLost(i) \/ CommitImport(i) \/ CrashImport(i)
      PROVE  UNCHANGED reader
  BY <1>4 DEF LockSeedSite, EnsureSeedSite, InsertScenario, FindVersion, InsertVersion, InsertLost, CommitImport, CrashImport
<1>5. ASSUME NEW c \in Computes, StartCompute(c) \/ ComputeOverview(c) \/ DrainPage(c) \/ DrainTooSlow(c)
      PROVE  UNCHANGED reader
  BY <1>5 DEF StartCompute, ComputeOverview, DrainPage, DrainTooSlow
<1>6. ASSUME NEW r \in Readers,
             \/ ShowTasks(r) \/ ShowWorkers(r) \/ ShowDemand(r) \/ ShowAssignments(r) \/ ShowLocks(r)
             \/ ShowConstraints(r)
      PROVE  \E group \in FactGroups : Show(r, group)
  BY <1>6 DEF ShowTasks, ShowWorkers, ShowDemand, ShowAssignments, ShowLocks, ShowConstraints, FactGroups
<1>7. ASSUME NEW r \in Readers,
             \/ ResolveTask(r) \/ ResolveWorker(r) \/ ResolveDemandInterval(r) \/ ResolveAssignment(r)
             \/ ResolveConstraint(r)
      PROVE  \E group \in FactGroups : Cite(r, group, FactsNow(group))
  <2>1. /\ FactsNow("tasks") = NormalizeTasks(LatestPayload) /\ FactsNow("workers") = NormalizeWorkers(LatestPayload)
        /\ FactsNow("demand") = NormalizeDemand(LatestPayload) /\ FactsNow("assignments") = BaselineAssignments
        /\ FactsNow("constraints") = NormalizeConstraints(LatestPayload)
    BY DEF FactsNow
  <2>. QED BY <1>7, <2>1 DEF ResolveTask, ResolveWorker, ResolveDemandInterval, ResolveAssignment, ResolveConstraint, FactGroups
<1>. QED BY <1>1, <1>2, <1>3, <1>4, <1>5, <1>6, <1>7 DEF UseData

LEMMA GroupOfMetric ==
    ASSUME NEW m PROVE GroupOf(m) \in {"workers", "demand", "assignments"}
BY DEF GroupOf, DemandMetrics

\* A call that fails, or that has nothing drained, is fine.
LEMMA FailOK ==
    ASSUME DataInv, NEW c \in Computes, NEW code, Fail(c, code) PROVE ComputeOK(c)'
<1>. DEFINE q == compute[c]
            n == [q EXCEPT !.pc = "failed", !.error = code]
<1>1. ComputeOK(c) /\ compute'[c] = n
  BY DEF Fail, DataInv, ReadsInv
<1>2. DOMAIN n = DOMAIN q /\ n.pc = "failed" /\ n.cursor = q.cursor /\ n.items = q.items
  BY <1>1 DEF ComputeOK
<1>. HIDE DEF n
<1>. QED BY <1>1, <1>2 DEF ComputeOK

LEMMA StartOK ==
    ASSUME DataInv, NEW c \in Computes, StartCompute(c) PROVE ComputeOK(c)'
<1>. DEFINE q == compute[c]
<1>1. ComputeOK(c) /\ q.pc = "idle" /\ Latest \in Versions /\ Committed(Latest)
  BY LatestIs DEF StartCompute, DataInv, ReadsInv
<1>2. PICK r \in MetricRequests : compute' = [compute EXCEPT ![c] = [q EXCEPT
              !.pc = "overview", !.pinned = Latest, !.metric = r.metric, !.args = r.args]]
  BY DEF StartCompute
<1>20. PICK v : v = Latest
  OBVIOUS
<1>. DEFINE n == [q EXCEPT !.pc = "overview", !.pinned = v, !.metric = r.metric, !.args = r.args]
<1>3. compute'[c] = n /\ UNCHANGED versionRow
  BY <1>2, <1>20 DEF DataInv, ReadsInv, StartCompute, store
<1>4. DOMAIN n = DOMAIN q /\ n.pc = "overview" /\ n.pinned = v /\ n.cursor = q.cursor /\ n.items = q.items
  BY <1>1 DEF ComputeOK
<1>5. Committed(v)' /\ v \in Versions
  BY <1>1, <1>20, <1>3 DEF Committed
<1>. HIDE DEF n
<1>. QED BY <1>1, <1>3, <1>4, <1>5 DEF ComputeOK

LEMMA OverviewOK ==
    ASSUME DataInv, NEW c \in Computes, ComputeOverview(c) PROVE ComputeOK(c)'
<1>. DEFINE q == compute[c]
            n == [q EXCEPT !.pc = "drain"]
<1>1. CASE \E code : Fail(c, code)
  BY <1>1, FailOK
<1>2. CASE compute' = [compute EXCEPT ![c].pc = "drain"]
  <2>1. ComputeOK(c) /\ q.pc = "overview" /\ compute'[c] = n /\ UNCHANGED versionRow
    BY <1>2 DEF DataInv, ReadsInv, ComputeOverview, store
  <2>2. /\ DOMAIN n = DOMAIN q /\ n.pc = "drain" /\ n.pinned = q.pinned /\ n.cursor = 0 /\ n.items = <<>> /\ n.metric = q.metric
        /\ n.args = q.args /\ n.items = q.items /\ n.cursor = q.cursor
    BY <2>1 DEF ComputeOK
  <2>3. q.pinned \in Versions /\ Committed(q.pinned)' /\ PayloadOfVersion(q.pinned)' = PayloadOfVersion(q.pinned)
    BY <2>1 DEF ComputeOK, Committed, PayloadOfVersion
  <2>4. GroupOf(n.metric) # "assignments" => Len(DrainedRows(n.metric, n.args, PayloadOfVersion(q.pinned))) \in Nat
    <3>. DEFINE p == PayloadOfVersion(q.pinned)
    <3>1. IsPayload(p) /\ ShortTables(p)
      BY <2>1, PayloadGood DEF DataInv, ComputeOK
    <3>2. Len(NormalizeWorkers(p)) \in Nat /\ Len(NormalizeDemand(p)) \in Nat
      BY <3>1, WorkersGood, DemandGood DEF GoodFacts
    <3>. HIDE DEF p
    <3>. QED BY <3>2, MatchingIs DEF DrainedRows, p
  <2>. HIDE DEF n
  <2>5. Len(<<>>) = 0 /\ 1..0 = {}
    OBVIOUS
  <2>. QED BY <2>1, <2>2, <2>3, <2>4, <2>5 DEF ComputeOK, Prefix
<1>. QED BY <1>1, <1>2 DEF ComputeOverview

\* What was read, with a page behind it, is a longer beginning of the same rows.
LEMMA PrefixGrows ==
    ASSUME NEW X, NEW s \in Seq(X), NEW t \in Seq(X), NEW rows, Len(rows) \in Nat, Prefix(s, Len(s), rows),
           \A n \in 1..Len(t) : Len(s) + n \in 1..Len(rows) /\ t[n] = rows[Len(s) + n]
    PROVE  Prefix(s \o t, Len(s) + Len(t), rows)
<1>1. Len(s) \in Nat /\ Len(t) \in Nat
  OBVIOUS
<1>2. ASSUME NEW j \in 1..(Len(s) + Len(t)) PROVE (s \o t)[j] = rows[j]
  <2>1. (s \o t)[j] = IF j <= Len(s) THEN s[j] ELSE t[j - Len(s)]
    BY ConcatProperties
  <2>2. CASE j <= Len(s)
    <3>1. j \in 1..Len(s)
      BY <1>1, <2>2
    <3>. QED BY <2>1, <2>2, <3>1 DEF Prefix
  <2>3. CASE ~(j <= Len(s))
    <3>1. j - Len(s) \in 1..Len(t) /\ Len(s) + (j - Len(s)) = j
      BY <1>1, <2>3
    <3>. QED BY <2>1, <2>3, <3>1
  <2>. QED BY <2>2, <2>3
<1>3. Len(s) + Len(t) <= Len(rows)
  <2>1. CASE Len(t) = 0
    BY <1>1, <2>1 DEF Prefix
  <2>2. CASE Len(t) # 0
    <3>1. Len(t) \in 1..Len(t)
      BY <1>1, <2>2
    <3>. QED BY <1>1, <3>1
  <2>. QED BY <2>1, <2>2
<1>. QED BY <1>2, <1>3 DEF Prefix

LEMMA WholePrefix ==
    ASSUME NEW X, NEW s \in Seq(X), NEW Y, NEW rows \in Seq(Y), Len(s) = Len(rows), Prefix(s, Len(s), rows)
    PROVE  s = rows
BY SeqEqual DEF Prefix

LEMMA DrainOK ==
    ASSUME DataInv, NEW c \in Computes, DrainPage(c) PROVE ComputeOK(c)'
<1>. DEFINE q == compute[c]
            g == GroupOf(q.metric)
            F == FiltersOf(q.metric, q.args)
            limit == Min2(PageSize, MaxRows - Len(q.items))
            page == ReadFacts(g, Page(q.cursor, limit, F))
            items == q.items \o page.items
            fault == DrainFault(q, page, items)
            result == Calculate(q.metric, q.args, items)
            rows == Matching(FactsNow(g), F)
            more == [q EXCEPT !.cursor = page.next, !.expect = page.matching, !.items = items]
            done == [q EXCEPT !.pc = "done", !.items = items, !.value = result.value, !.refs = result.refs]
<1>0. ComputeOK(c) /\ ImportsInv /\ q.pc = "drain" /\ UNCHANGED versionRow /\ compute = [d \in Computes |-> compute[d]]
  BY DEF DataInv, ReadsInv, DrainPage, store
<1>1. CASE \E code : Fail(c, code)
  BY <1>1, FailOK
<1>2. CASE /\ ~(Len(q.items) >= MaxRows) /\ fault = None
           /\ \/ page.next # None /\ compute' = [compute EXCEPT ![c] = more]
              \/ page.next = None /\ compute' = [compute EXCEPT ![c] = done]
  <2>1. /\ q.cursor \in Nat /\ q.items \in Seq(ToSet(q.items)) /\ Len(q.items) \in Nat
        /\ q.pinned \in Versions /\ Committed(q.pinned) /\ g \in FactGroups
    BY <1>0, GroupOfMetric DEF ComputeOK, FactGroups
  <2>2. limit \in Nat /\ limit <= MaxRows - Len(q.items) /\ MaxRows \in Nat
    BY <1>2, <2>1, DataAssumption DEF Min2
  <2>3. q.pinned = Latest /\ (page.next = None => Len(items) = page.matching)
    BY <1>2, NullAssumption DEF DrainFault
  <2>4. Len(FactsNow(g)) \in Nat
    BY <1>0, <2>1, <2>3, FactsNowGood DEF DataInv, ReadsInv
  <2>5. page = ApplyQuery(FactsNow(g), Page(q.cursor, limit, F))
    BY <2>1, ReadIs
  <2>6. rows \in Seq(ToSet(rows)) /\ Len(rows) \in Nat
    BY <2>4, MatchingIs
  <2>7. /\ page.items \in Seq(ToSet(rows)) /\ Len(page.items) \in Nat /\ Len(page.items) <= limit
        /\ \A n \in 1..Len(page.items) : q.cursor + n \in 1..Len(rows) /\ page.items[n] = rows[q.cursor + n]
        /\ page.matching = Len(rows)
        /\ page.next # None => page.next = q.cursor + Len(page.items) /\ page.next < Len(rows)
    <3>. DEFINE its == FactsNow(g)
                cur == q.cursor
                pg == ApplyQuery(its, Page(cur, limit, F))
                rs == Matching(its, F)
    <3>1. Len(its) \in Nat /\ cur \in Nat /\ limit \in Nat /\ page = pg /\ rows = rs /\ cur = q.cursor
      BY <2>1, <2>2, <2>4, <2>5
    <3>10. Len(its) \in Nat /\ cur \in Nat /\ limit \in Nat
      BY <3>1
    <3>. HIDE DEF F, limit, its, cur
    <3>2. /\ pg.items \in Seq(ToSet(rs)) /\ Len(pg.items) \in Nat /\ Len(pg.items) <= limit
          /\ \A n \in 1..Len(pg.items) : cur + n \in 1..Len(rs) /\ pg.items[n] = rs[cur + n]
          /\ pg.matching = Len(rs)
          /\ pg.next # None => pg.next = cur + Len(pg.items) /\ pg.next < Len(rs)
      BY <3>10, PageIs
    <3>. HIDE DEF q, g, page, rows, pg, rs
    <3>. QED BY <3>1, <3>2
  <2>8. items \in Seq(ToSet(items)) /\ Len(items) = Len(q.items) + Len(page.items) /\ Len(items) <= MaxRows
    <3>. HIDE DEF q, page, limit, rows
    <3>1. q.items \in Seq(ToSet(q.items) \cup ToSet(rows)) /\ page.items \in Seq(ToSet(q.items) \cup ToSet(rows))
      BY <2>1, <2>7
    <3>2. items \in Seq(ToSet(q.items) \cup ToSet(rows)) /\ Len(items) = Len(q.items) + Len(page.items)
      BY <3>1, ConcatProperties
    <3>. HIDE DEF items
    <3>3. Len(items) <= MaxRows
      <4>. DEFINE a == Len(q.items)  b == Len(page.items)
      <4>1. a \in Nat /\ b \in Nat /\ limit \in Nat /\ MaxRows \in Nat /\ b <= limit /\ limit <= MaxRows - a /\ Len(items) = a + b
        BY <2>1, <2>2, <2>7, <3>2
      <4>. HIDE DEF a, b
      <4>. QED BY <4>1
    <3>. QED BY <3>2, <3>3, OwnSeq
  <2>9. PICK drained : drained = DrainedRows(q.metric, q.args, PayloadOfVersion(q.pinned))
    OBVIOUS
  <2>10. g # "assignments" =>
             /\ drained = rows /\ Len(q.items) = q.cursor
             /\ Prefix(items, Len(items), rows) /\ Len(items) = q.cursor + Len(page.items)
    <3>. SUFFICES ASSUME g # "assignments" PROVE drained = rows /\ Len(q.items) = q.cursor /\ Prefix(items, Len(items), rows) /\ Len(items) = q.cursor + Len(page.items)
      OBVIOUS
    <3>1. FactsNow(g) = IF g = "workers" THEN NormalizeWorkers(PayloadOfVersion(q.pinned)) ELSE NormalizeDemand(PayloadOfVersion(q.pinned))
      <4>1. PayloadOfVersion(q.pinned) = LatestPayload /\ g \in {"workers", "demand"}
        BY <2>3, GroupOfMetric DEF PayloadOfVersion, LatestPayload
      <4>. HIDE DEF g
      <4>. QED BY <4>1 DEF FactsNow
    <3>2. drained = rows
      BY <2>9, <3>1 DEF DrainedRows
    <3>3. Len(q.items) = q.cursor /\ Prefix(q.items, Len(q.items), rows)
      <4>1. Len(q.items) = q.cursor /\ Prefix(q.items, q.cursor, drained)
        BY <1>0, <2>9 DEF ComputeOK
      <4>. QED BY <3>2, <4>1
    <3>. HIDE DEF q, page, rows, g
    <3>4. q.items \in Seq(ToSet(q.items) \cup ToSet(rows)) /\ page.items \in Seq(ToSet(q.items) \cup ToSet(rows))
      BY <2>1, <2>7
    <3>5. \A n \in 1..Len(page.items) : Len(q.items) + n \in 1..Len(rows) /\ page.items[n] = rows[Len(q.items) + n]
      BY <2>7, <3>3
    <3>6. Prefix(items, Len(q.items) + Len(page.items), rows)
      BY <2>6, <3>3, <3>4, <3>5, PrefixGrows
    <3>. QED BY <2>8, <3>2, <3>3, <3>6
  <2>11. ASSUME NEW n, DOMAIN n = DOMAIN q, n.pinned = q.pinned, n.metric = q.metric, n.args = q.args, n.items = items,
                compute'[c] = n, n.cursor \in Nat, n.pc \in {"drain", "done"},
                n.pc = "drain" /\ g # "assignments" => n.cursor = Len(items),
                n.pc = "done" /\ g # "assignments" =>
                    n.value = Calculate(q.metric, q.args, rows).value /\ n.refs = Calculate(q.metric, q.args, rows).refs
         PROVE  ComputeOK(c)'
    <3>1. DrainedRows(n.metric, n.args, PayloadOfVersion(n.pinned))' = drained
      BY <1>0, <2>9, <2>11 DEF PayloadOfVersion
    <3>2. n.pinned \in Versions /\ Committed(n.pinned)'
      BY <1>0, <2>1, <2>11 DEF Committed
    <3>3. n.items \in Seq(ToSet(n.items)) /\ Len(n.items) <= MaxRows
      BY <2>8, <2>11
    <3>4. GroupOf(n.metric) # "assignments" =>
             /\ n.pc = "drain" => Len(n.items) = n.cursor /\ Prefix(n.items, n.cursor, drained)
             /\ n.pc = "done" => /\ n.value = Calculate(n.metric, n.args, drained).value
                                /\ n.refs = Calculate(n.metric, n.args, drained).refs
      <4>. HIDE DEF items, rows
      <4>. QED BY <2>10, <2>11
    <3>5. DOMAIN n = {"pc", "pinned", "metric", "args", "cursor", "expect", "items", "value", "refs", "error"}
      BY <1>0, <2>11 DEF ComputeOK
    <3>. HIDE DEF items, rows, q, g
    <3>. QED BY <2>11, <3>1, <3>2, <3>3, <3>4, <3>5 DEF ComputeOK
  <2>12. CASE page.next # None /\ compute' = [compute EXCEPT ![c] = more]
    <3>1. PICK n : n = more
      OBVIOUS
    <3>2. compute'[c] = n
      BY <1>0, <2>12, <3>1
    <3>3. /\ DOMAIN n = DOMAIN q /\ n.pinned = q.pinned /\ n.metric = q.metric /\ n.args = q.args /\ n.items = items
          /\ n.cursor = page.next /\ n.pc = "drain"
      <4>. HIDE DEF items, page
      <4>. QED BY <1>0, <3>1 DEF ComputeOK
    <3>4. n.cursor = q.cursor + Len(page.items) /\ n.cursor \in Nat
      <4>. HIDE DEF items, page, rows
      <4>. QED BY <2>1, <2>7, <2>12, <3>3
    <3>5. g # "assignments" => n.cursor = Len(items)
      <4>. HIDE DEF items, page
      <4>. QED BY <2>10, <3>4
    <3>. HIDE DEF items, page, q, g, rows
    <3>. QED BY <2>11, <3>2, <3>3, <3>4, <3>5
  <2>13. CASE page.next = None /\ compute' = [compute EXCEPT ![c] = done]
    <3>1. PICK n : n = done
      OBVIOUS
    <3>2. compute'[c] = n
      BY <1>0, <2>13, <3>1
    <3>3. /\ DOMAIN n = DOMAIN q /\ n.pinned = q.pinned /\ n.metric = q.metric /\ n.args = q.args /\ n.items = items
          /\ n.cursor = q.cursor /\ n.pc = "done" /\ n.value = result.value /\ n.refs = result.refs
      <4>. HIDE DEF items, page, result
      <4>. QED BY <1>0, <3>1 DEF ComputeOK
    <3>4. g # "assignments" => items = rows
      <4>. HIDE DEF items, page, rows
      <4>. QED BY <2>3, <2>6, <2>7, <2>8, <2>10, <2>13, WholePrefix, ZenonT(30)
    <3>5. g # "assignments" => n.value = Calculate(q.metric, q.args, rows).value /\ n.refs = Calculate(q.metric, q.args, rows).refs
      <4>1. result = Calculate(q.metric, q.args, items)
        OBVIOUS
      <4>. HIDE DEF items, rows, result, q, g
      <4>. QED BY <3>3, <3>4, <4>1
    <3>. HIDE DEF items, page, q, g, rows, result
    <3>. QED BY <2>1, <2>11, <3>2, <3>3, <3>5
  <2>. QED BY <1>2, <2>12, <2>13
<1>. QED BY <1>1, <1>2 DEF DrainPage, Page

LEMMA ComputesStep ==
    ASSUME DataInv, UseData
    PROVE  compute' = [c \in Computes |-> compute'[c]] /\ \A c \in Computes : ComputeOK(c)'
<1>0. /\ Kept /\ compute = [c \in Computes |-> compute[c]] /\ \A c \in Computes : ComputeOK(c)
  BY DataStep DEF DataInv, ReadsInv
<1>1. CASE UNCHANGED compute
  <2>1. \A c \in Computes : compute'[c] = compute[c]
    BY <1>1
  <2>2. \A c \in Computes : ComputeOK(c)'
    BY <1>0, <2>1, ComputeKeeps
  <2>. QED BY <1>0, <1>1, <2>2
<1>2. ASSUME NEW c \in Computes, StartCompute(c) \/ ComputeOverview(c) \/ DrainPage(c) \/ DrainTooSlow(c)
      PROVE  compute' = [d \in Computes |-> compute'[d]] /\ \A d \in Computes : ComputeOK(d)'
  <2>1. ComputeOK(c)'
    BY <1>2, StartOK, OverviewOK, DrainOK, FailOK DEF DrainTooSlow
  <2>2. \E n : compute' = [compute EXCEPT ![c] = n]
    <3>1. CASE StartCompute(c)
      BY <3>1 DEF StartCompute
    <3>2. CASE ComputeOverview(c)
      BY <3>2 DEF ComputeOverview, Fail
    <3>3. CASE DrainPage(c)
      BY <3>3, Zenon DEF DrainPage, Fail
    <3>4. CASE DrainTooSlow(c)
      BY <3>4 DEF DrainTooSlow, Fail
    <3>. QED BY <1>2, <3>1, <3>2, <3>3, <3>4
  <2>3. PICK n : compute' = [compute EXCEPT ![c] = n]
    BY <2>2
  <2>4. compute' = [d \in Computes |-> compute'[d]] /\ \A d \in Computes \ {c} : compute'[d] = compute[d]
    BY <1>0, <2>3
  <2>5. \A d \in Computes \ {c} : ComputeOK(d)'
    BY <1>0, <2>4, ComputeKeeps
  <2>. QED BY <2>1, <2>4, <2>5
<1>3. CASE PromoteBaseline
  BY <1>1, <1>3 DEF PromoteBaseline
<1>4. ASSUME NEW i \in Importers,
             \/ LockSeedSite(i) \/ EnsureSeedSite(i) \/ InsertScenario(i) \/ FindVersion(i)
             \/ InsertVersion(i) \/ InsertLost(i) \/ CommitImport(i) \/ CrashImport(i)
      PROVE  UNCHANGED compute
  BY <1>4 DEF LockSeedSite, EnsureSeedSite, InsertScenario, FindVersion, InsertVersion, InsertLost, CommitImport, CrashImport
<1>5. ASSUME NEW r \in Readers,
             \/ ShowTasks(r) \/ ShowWorkers(r) \/ ShowDemand(r) \/ ShowAssignments(r) \/ ShowLocks(r)
             \/ ShowConstraints(r)
             \/ ResolveTask(r) \/ ResolveWorker(r) \/ ResolveDemandInterval(r) \/ ResolveAssignment(r)
             \/ ResolveConstraint(r)
      PROVE  UNCHANGED compute
  BY <1>5 DEF ShowTasks, ShowWorkers, ShowDemand, ShowAssignments, ShowLocks, ShowConstraints, Show, ResolveTask,
              ResolveWorker, ResolveDemandInterval, ResolveAssignment, ResolveConstraint, Cite
<1>. QED BY <1>1, <1>2, <1>3, <1>4, <1>5 DEF UseData

LEMMA DataInitOK ==
    ASSUME DataInit PROVE DataInv
<1>1. ImportsTypeOK
  BY DEF DataInit, ImportsTypeOK, ImportType, ImportPcs
<1>2. \A i \in Importers : ImportOK(i)
  BY NullAssumption DEF DataInit, ImportOK
<1>3. \A v \in Versions : lineage[v] = IF versionRow[v] = None THEN 0 ELSE 1
  BY DEF DataInit
<1>4. reader = [r \in Readers |-> reader[r]] /\ compute = [c \in Computes |-> compute[c]] /\ baseline \in DOMAIN Schedules \cup {None}
  BY DEF DataInit
<1>5. ASSUME NEW r \in Readers PROVE ReaderOK(r)
  BY NullAssumption DEF DataInit, ReaderOK
<1>6. ASSUME NEW c \in Computes PROVE ComputeOK(c)
  <2>1. compute[c] = [pc |-> "idle", pinned |-> None, metric |-> None, args |-> None, cursor |-> 0, expect |-> None,
                      items |-> <<>>, value |-> 0, refs |-> {}, error |-> None]
    BY DEF DataInit
  <2>2. compute[c].pc = "idle" /\ compute[c].items = <<>> /\ compute[c].cursor = 0
    BY <2>1
  <2>3. DOMAIN compute[c] = {"pc", "pinned", "metric", "args", "cursor", "expect", "items", "value", "refs", "error"}
    BY <2>1
  <2>4. <<>> \in Seq(ToSet(<<>>)) /\ Len(<<>>) <= MaxRows
    BY DataAssumption
  <2>. QED BY <2>2, <2>3, <2>4 DEF ComputeOK
<1>. QED BY <1>1, <1>2, <1>3, <1>4, <1>5, <1>6 DEF DataInv, ImportsInv, ReadsInv

\* Imports, promotions, readers and computations keep the invariant.
LEMMA DataStays == DataSpec => []DataInv
<1>1. DataInit => DataInv
  BY DataInitOK
<1>2. ASSUME DataInv, UseData PROVE DataInv'
  <2>1. ImportsInv'
    BY <1>2, DataStep DEF DataInv
  <2>2. baseline' \in DOMAIN Schedules \cup {None}
    BY <1>2 DEF DataInv, ReadsInv, UseData, PromoteBaseline, LockSeedSite, EnsureSeedSite, InsertScenario, FindVersion,
                InsertVersion, InsertLost, CommitImport, CrashImport, ShowTasks, ShowWorkers, ShowDemand, ShowAssignments,
                ShowLocks, ShowConstraints, Show, ResolveTask, ResolveWorker, ResolveDemandInterval, ResolveAssignment,
                ResolveConstraint, Cite, StartCompute, ComputeOverview, DrainPage, DrainTooSlow
  <2>. QED BY <1>2, <2>1, <2>2, ReadersStep, ComputesStep DEF DataInv, ReadsInv
<1>3. ASSUME DataInv, UNCHANGED dataVars PROVE DataInv'
  <2>1. UNCHANGED <<store, imp, baseline, reader, compute>>
    BY <1>3 DEF dataVars, store
  <2>2. ImportsInv' /\ Kept
    BY <1>3, <2>1, ImportsIdle DEF DataInv
  <2>3. \A r \in Readers : ReaderOK(r)'
    BY <1>3, <2>1, <2>2, ReaderKeeps DEF DataInv, ReadsInv
  <2>4. \A c \in Computes : ComputeOK(c)'
    BY <1>3, <2>1, <2>2, ComputeKeeps DEF DataInv, ReadsInv
  <2>. QED BY <1>3, <2>1, <2>2, <2>3, <2>4 DEF DataInv, ReadsInv
<1>. QED BY <1>1, <1>2, <1>3, PTL DEF DataSpec

\* ImportsAreExact, whatever the importers race for and wherever one dies
\* (ensure_seed_site, import_fixture_version): one seed site; an import told it
\* created or replayed a version finds its own payload there, and one created it;
\* one lineage row for each version row; a drain within its row limit.
THEOREM ImportsStayExact == DataSpec => []ImportsAreExact
<1>1. ASSUME DataInv PROVE ImportsAreExact
  <2>1. OneSeedSite
    BY <1>1 DEF DataInv, ImportsInv, ImportsTypeOK, OneSeedSite
  <2>2. ASSUME NEW i \in Importers, imp[i].pc \in {"created", "replayed"}
        PROVE  Committed(Offer[i].version) /\ versionRow[Offer[i].version].digest = Offer[i].payload
    <3>1. NewRow(i, TRUE) # None /\ ImportOK(i)
      BY <1>1, ImportFacts DEF DataInv
    <3>. QED BY <2>2, <3>1 DEF ImportOK, Committed, NewRow
  <2>3. ASSUME NEW i \in Importers, NEW j \in Importers, imp[i].pc = "created", imp[j].pc = "created",
               Offer[i].version = Offer[j].version
        PROVE  i = j
    <3>1. NewRow(i, TRUE) = NewRow(j, TRUE)
      BY <1>1, <2>3, ZenonT(30) DEF DataInv, ImportsInv, ImportOK
    <3>2. NewRow(i, TRUE).by = i /\ NewRow(j, TRUE).by = j
      BY DEF NewRow
    <3>. QED BY <3>1, <3>2
  <2>4. DataTypeOK
    BY <1>1 DEF DataInv, ImportsInv, ImportsTypeOK, ReadsInv, ComputeOK, DataTypeOK
  <2>. QED BY <2>1, <2>2, <2>3, <2>4 DEF ImportsAreExact, ImportKeepsItsWord
<1>. QED BY <1>1, DataStays, PTL

\* ReadsAreHonest, however imports and promotions fall between two reads
\* (ShortTransactionScenarioProjectionReader, _resolve_items,
\* drain_projection_group): a citation resolves to what was shown under it or not
\* at all; a metric is that of every matching row of the version it is pinned to.
THEOREM ReadsStayHonest == DataSpec => []ReadsAreHonest
<1>1. ASSUME DataInv PROVE ReadsAreHonest
  <2>1. CitationIsHonest
    BY <1>1 DEF DataInv, ReadsInv, ReaderOK, CitationIsHonest
  <2>2. MetricOfPinnedVersion
    BY <1>1, Zenon DEF DataInv, ReadsInv, ComputeOK, MetricOfPinnedVersion, DrainedRows, PayloadOfVersion
  <2>. QED BY <2>1, <2>2 DEF ReadsAreHonest
<1>. QED BY <1>1, DataStays, PTL

----------------------------------------------------------------------------
(* Drafts.                                                                   *)

\* A kept listing has the kept items, and with items that differ its length is
\* the number of them.
LEMMA KeptAll ==
    ASSUME NEW items, NEW size \in Nat, NEW K \in Indices(size)
    PROVE  LET s == KeptOf(items, K)
           IN  /\ ToSet(s) = {items[i] : i \in K} /\ Len(s) = Cardinality(K) /\ IsFiniteSet(K)
               /\ (\A i, j \in K : items[i] = items[j] => i = j) => Len(s) = Cardinality(ToSet(s))
<1>. DEFINE n == Cardinality(K)
            s == KeptOf(items, K)
            T == {items[i] : i \in K}
<1>0. K \in SUBSET (1..size) /\ IsFiniteSet(K)
  <2>1. K \in SUBSET (1..size)
    BY DEF Indices
  <2>2. 1 \in Int /\ size \in Int
    OBVIOUS
  <2>3. IsFiniteSet(1..size)
    BY <2>2, FS_Interval
  <2>. QED BY <2>1, <2>3, FS_Subset
<1>1. /\ n \in Nat /\ DOMAIN InOrder(K) = 1..n /\ \A m \in 1..n : InOrder(K)[m] \in K
      /\ \A i \in K : \E m \in 1..n : InOrder(K)[m] = i
  BY <1>0, KeptRows
<1>. HIDE DEF n
<1>2. s = [m \in 1..n |-> s[m]] /\ \A m \in 1..n : s[m] = items[InOrder(K)[m]]
  BY <1>1 DEF KeptOf
<1>. HIDE DEF s
<1>3. s \in Seq(ToSet(s)) /\ Len(s) = n /\ DOMAIN s = 1..n
  BY <1>1, <1>2, ListIsSeq
<1>4. ToSet(s) = T
  <2>1. ASSUME NEW x \in ToSet(s) PROVE x \in T
    BY <1>1, <1>2, <1>3, SMTT(30) DEF ToSet
  <2>2. ASSUME NEW i \in K PROVE items[i] \in ToSet(s)
    <3>1. PICK m \in 1..n : InOrder(K)[m] = i
      BY <1>1
    <3>. QED BY <1>2, <1>3, <3>1 DEF ToSet
  <2>. QED BY <2>1, <2>2
<1>5. ASSUME \A i, j \in K : items[i] = items[j] => i = j PROVE Cardinality(T) = Cardinality(K)
  <2>. DEFINE f == [i \in K |-> items[i]]
  <2>1. f \in Bijection(K, T)
    BY <1>5 DEF Bijection, Injection, Surjection, IsInjective
  <2>. HIDE DEF f, T
  <2>2. ExistsBijection(K, T)
    BY <2>1 DEF ExistsBijection
  <2>. QED BY <1>0, <2>2, FS_Bijection
<1>. HIDE DEF T
<1>6. ToSet(s) = {items[i] : i \in K}
  BY <1>4 DEF T
<1>. QED BY <1>0, <1>3, <1>4, <1>5, <1>6 DEF s, n

\* The first mentions of a listing: every element, once.
LEMMA FirstMentions ==
    ASSUME NEW X, NEW all \in Seq(X)
    PROVE  LET s == Rows(all, LAMBDA i : \A j \in 1..(i - 1) : all[j] # all[i], LAMBDA i : all[i])
           IN  ToSet(s) = ToSet(all) /\ Len(s) = Cardinality(ToSet(s))
<1>. DEFINE n == Len(all)
            K == {i \in 1..n : \A j \in 1..(i - 1) : all[j] # all[i]}
            s == KeptOf(all, K)
<1>1. n \in Nat /\ DOMAIN all = 1..n
  BY LenProperties
<1>2. K \in SUBSET (1..n) /\ K \in Indices(n)
  BY DEF Indices
<1>3. ASSUME NEW i \in K, NEW j \in K, all[i] = all[j] PROVE i = j
  <2>1. i \in 1..n /\ j \in 1..n
    OBVIOUS
  <2>2. ~(i < j) /\ ~(j < i)
    BY <1>1, <1>3, <2>1
  <2>. QED BY <1>1, <2>1, <2>2
<1>4. ASSUME NEW i \in 1..n PROVE \E k \in K : all[k] = all[i]
  <2>. DEFINE T == {k \in 1..n : all[k] = all[i]}
  <2>1. T \in SUBSET Nat /\ T # {}
    BY <1>1
  <2>2. PICK k \in T : \A y \in T : ~(y < k)
    <3>. HIDE DEF T
    <3>. QED BY <2>1, NatMin
  <2>3. ASSUME NEW j \in 1..(k - 1) PROVE all[j] # all[k]
    <3>1. j \in 1..n /\ j < k
      BY <1>1, <2>2
    <3>. QED BY <2>2, <3>1
  <2>. QED BY <2>2, <2>3
<1>5. Rows(all, LAMBDA i : \A j \in 1..(i - 1) : all[j] # all[i], LAMBDA i : all[i]) = s
  BY DEF Rows, KeptOf
<1>. HIDE DEF K
<1>6. /\ ToSet(s) = {all[i] : i \in K}
      /\ (\A i, j \in K : all[i] = all[j] => i = j) => Len(s) = Cardinality(ToSet(s))
  <2>. HIDE DEF n
  <2>. QED BY <1>1, <1>2, KeptAll
<1>. HIDE DEF s
<1>7. ToSet(s) = ToSet(all)
  BY <1>1, <1>2, <1>4, <1>6 DEF ToSet
<1>8. Len(s) = Cardinality(ToSet(s))
  BY <1>3, <1>6
<1>. QED BY <1>5, <1>7, <1>8

\* unique_entities names every record the constraints name, once.
LEMMA UniqueEntitiesIs ==
    ASSUME NEW C, NEW cs \in Seq(C), \A i \in DOMAIN cs : cs[i].entities \in Seq(ToSet(cs[i].entities))
    PROVE  /\ ToSet(UniqueEntities(cs)) = UNION {ToSet(cs[i].entities) : i \in DOMAIN cs}
           /\ Len(UniqueEntities(cs)) = Cardinality(ToSet(UniqueEntities(cs)))
<1>. DEFINE n == Len(cs)
            seqs == [i \in DOMAIN cs |-> cs[i].entities]
            X == UNION {ToSet(cs[i].entities) : i \in DOMAIN cs}
            all == FlattenSeq(seqs)
<1>1. n \in Nat /\ DOMAIN cs = 1..n
  BY LenProperties
<1>2. \A i \in 1..n : seqs[i] \in Seq(X)
  <2>1. ASSUME NEW i \in 1..n PROVE cs[i].entities \in Seq(X)
    <3>1. ToSet(cs[i].entities) \subseteq X
      BY <1>1
    <3>2. cs[i].entities \in Seq(ToSet(cs[i].entities))
      BY <1>1
    <3>. HIDE DEF X
    <3>. QED BY <3>1, <3>2
  <2>. QED BY <1>1, <2>1
<1>3. seqs \in Seq(Seq(X)) /\ Len(seqs) = n
  <2>. HIDE DEF X
  <2>1. seqs \in [1..n -> Seq(X)]
    BY <1>1, <1>2
  <2>. HIDE DEF seqs
  <2>. QED BY <1>1, <2>1
<1>4. all \in Seq(X) /\ ToSet(all) = UNION {ToSet(seqs[a]) : a \in 1..n}
  <2>. HIDE DEF X, seqs
  <2>. QED BY <1>3, FlattenIs
<1>5. (UNION {ToSet(seqs[a]) : a \in 1..n}) = X
  BY <1>1
<1>. HIDE DEF X, all
<1>6. LET s == Rows(all, LAMBDA i : \A j \in 1..(i - 1) : all[j] # all[i], LAMBDA i : all[i])
      IN  ToSet(s) = ToSet(all) /\ Len(s) = Cardinality(ToSet(s))
  BY <1>4, FirstMentions
<1>7. UniqueEntities(cs) = Rows(all, LAMBDA i : \A j \in 1..(i - 1) : all[j] # all[i], LAMBDA i : all[i])
  BY DEF UniqueEntities, all
<1>. QED BY <1>4, <1>5, <1>6, <1>7 DEF X

\* What ConstraintResolves leaves for the solver.
GoodConstraint(c, v) ==
    /\ ~ArgsRaise(c)
    /\ c.entities \in Seq(ToSet(c.entities)) /\ ToSet(c.entities) \subseteq Records[v]
    /\ c.kind = "lock_worker_shift" => Override(c).day * DayMinutes < Horizon[v]
    /\ c.kind = "set_max_hours" => c.nums.max_hours <= HardMaxHours

GoodResult(r) ==
    /\ r.constraints # <<>>
    /\ \A i \in DOMAIN r.constraints : GoodConstraint(r.constraints[i], r.version)
    /\ r.locks = Locks[r.version]
    /\ ToSet(r.entities) = UNION {ToSet(r.constraints[i].entities) : i \in DOMAIN r.constraints}
    /\ Len(r.entities) = Cardinality(ToSet(r.entities))

ParsedProposal(p) == p.kind \in Kinds /\ \A x \in DOMAIN p.nums : p.nums[x] \in Int

DraftFields == {"pc", "pin", "todo", "horizon", "done", "cursor", "locks", "result", "code"}

\* Invariant: what is resolved was resolved against the pinned version, and the
\* locks read are the beginning of that version's.
DraftOK(d) ==
    /\ DOMAIN d = DraftFields
    /\ d.pc # "idle" => d.pin \in DOMAIN Records
    /\ d.todo \in Seq(ToSet(d.todo)) /\ \A p \in ToSet(d.todo) : ParsedProposal(p)
    /\ d.done \in Seq(ToSet(d.done)) /\ \A c \in ToSet(d.done) : GoodConstraint(c, d.pin)
    /\ d.pc \in {"overview", "resolve"} => d.todo # <<>> \/ d.done # <<>>
    /\ d.pc \in {"locks", "return"} => d.done # <<>>
    /\ d.pc = "resolve" => d.horizon = Horizon[d.pin]
    /\ d.pc \in {"overview", "resolve"} => d.cursor = 0 /\ d.locks = <<>>
    /\ d.pc = "locks" => /\ d.locks \in Seq(ToSet(d.locks)) /\ Len(d.locks) = d.cursor
                         /\ Prefix(d.locks, d.cursor, Locks[d.pin])
    /\ d.pc = "return" => d.locks = Locks[d.pin]
    /\ d.pc = "returned" => GoodResult(d.result)

ClarificationOK(cands, a) ==
    /\ Len(a.kept) + a.dropped = Len(cands)
    /\ Len(a.kept) <= MaxCandidates
    /\ Len(a.kept) = Cardinality(ToSet(a.kept))
    /\ ToSet(a.kept) \subseteq Records[1] \cap ToSet(cands)

DraftInv ==
    /\ current \in DOMAIN Records /\ DraftOK(draft)
    /\ asked.kind = "clarify" => asked.cands \in Candidates
    /\ Answered("clarify") => ClarificationOK(asked.cands, answer)

\* A day rounds a minute down.
LEMMA DayStart ==
    ASSUME NEW a \in Nat, NEW b \in Nat \ {0} PROVE (a \div b) * b <= a
OBVIOUS

\* resolve_constraint accepts only what the solver adapter can read.
LEMMA ResolvedIsGood ==
    ASSUME NEW p, ParsedProposal(p), NEW v \in DOMAIN Records, ConstraintResolves(v, p, Horizon[v])
    PROVE  GoodConstraint(Trusted(p), v)
<1>. DEFINE c == Trusted(p)
<1>1. c.kind = p.kind /\ c.nums = p.nums
  BY DEF Trusted
<1>2. c.entities = IF p.kind = "exclude_worker_from_task" THEN <<p.rec, p.related>> ELSE <<p.rec>>
  BY DEF Trusted
<1>. HIDE DEF c
<1>3. p.rec[1] = PrimaryGroup(p.kind) /\ p.rec \in Records[v] /\ TaskGroup # WorkerGroup
  BY DEF ConstraintResolves, Resolves, TaskGroup, WorkerGroup
<1>4. c.kind = "set_max_hours" => c.nums.max_hours <= HardMaxHours
  BY <1>1 DEF ConstraintResolves, NumbersInRange
<1>5. c.kind = "lock_worker_shift" => "start" \in DOMAIN c.nums /\ Override(c).day * DayMinutes < Horizon[v]
  <2>. SUFFICES ASSUME c.kind = "lock_worker_shift"
                PROVE  "start" \in DOMAIN c.nums /\ Override(c).day * DayMinutes < Horizon[v]
    OBVIOUS
  <2>. DEFINE s == p.nums.start  e == p.nums.end
  <2>1. {"start", "end"} \subseteq DOMAIN p.nums /\ s >= 0 /\ e > s /\ e <= Horizon[v]
    BY <1>1 DEF ConstraintResolves, NumbersInRange, WindowInHorizon
  <2>2. s \in Int /\ e \in Int /\ Horizon[v] \in Nat /\ DayMinutes \in Nat \ {0}
    BY <2>1, DraftingAssumption DEF ParsedProposal
  <2>3. Override(c).day = s \div DayMinutes
    BY <1>1 DEF Override
  <2>. HIDE DEF s, e
  <2>4. s \in Nat
    BY <2>1, <2>2
  <2>5. (s \div DayMinutes) * DayMinutes <= s /\ s \div DayMinutes \in Int
    BY <2>2, <2>4, DayStart
  <2>6. (s \div DayMinutes) * DayMinutes \in Int
    BY <2>2, <2>5
  <2>. QED BY <1>1, <2>1, <2>2, <2>3, <2>5, <2>6
<1>6. CASE p.kind = "exclude_worker_from_task"
  <2>1. p.related[1] = TaskGroup /\ p.related \in Records[v] /\ p.rec[1] = WorkerGroup
    BY <1>3, <1>6 DEF ConstraintResolves, RelatedResolves, Resolves, PrimaryGroup
  <2>2. c.entities = <<p.rec, p.related>> /\ DOMAIN c.entities = {1, 2}
    BY <1>2, <1>6
  <2>3. RecordOf(c, TaskGroup) = {2} /\ RecordOf(c, WorkerGroup) = {1}
    BY <1>3, <2>1, <2>2 DEF RecordOf
  <2>4. Names(c, {TaskGroup, WorkerGroup})
    BY <2>3, FS_Singleton DEF Names
  <2>5. ~ArgsRaise(c)
    BY <1>1, <1>6, <2>4 DEF ArgsRaise, Wanted
  <2>6. ToSet(c.entities) = {p.rec, p.related}
    BY <2>2 DEF ToSet
  <2>7. c.entities \in Seq(ToSet(c.entities)) /\ ToSet(c.entities) \subseteq Records[v]
    BY <1>3, <2>1, <2>2, <2>6
  <2>. QED BY <1>4, <1>5, <2>5, <2>7 DEF GoodConstraint, c
<1>7. CASE p.kind # "exclude_worker_from_task"
  <2>2. c.entities = <<p.rec>> /\ DOMAIN c.entities = {1}
    BY <1>2, <1>7
  <2>3. RecordOf(c, PrimaryGroup(p.kind)) = {1}
    BY <1>3, <2>2 DEF RecordOf
  <2>4. Names(c, {PrimaryGroup(p.kind)})
    BY <2>3, FS_Singleton DEF Names
  <2>40. Wanted(c.kind) = {PrimaryGroup(p.kind)}
    BY <1>1, <1>7 DEF Wanted, PrimaryGroup, ParsedProposal, Kinds
  <2>5. ~ArgsRaise(c)
    BY <1>5, <2>4, <2>40 DEF ArgsRaise
  <2>6. ToSet(c.entities) = {p.rec}
    BY <2>2 DEF ToSet
  <2>7. c.entities \in Seq(ToSet(c.entities)) /\ ToSet(c.entities) \subseteq Records[v]
    BY <1>3, <2>2, <2>6
  <2>. QED BY <1>4, <1>5, <2>5, <2>7 DEF GoodConstraint, c
<1>. QED BY <1>6, <1>7

LEMMA DraftFailsOK ==
    ASSUME DraftOK(draft), NEW code, DraftFails(code), draft.pc # "idle" PROVE DraftOK(draft')
<1>. DEFINE n == [draft EXCEPT !.pc = "failed", !.code = code]
<1>1. /\ DOMAIN n = DOMAIN draft /\ n.pc = "failed" /\ n.pin = draft.pin /\ n.todo = draft.todo /\ n.done = draft.done
  BY DEF DraftOK, DraftFields
<1>2. draft' = n
  BY DEF DraftFails
<1>. HIDE DEF n
<1>. QED BY <1>1, <1>2 DEF DraftOK

LEMMA CallDraftOK ==
    ASSUME DraftInv, CallDraft PROVE DraftOK(draft')
<1>1. PICK todo \in Proposals, stale \in BOOLEAN :
          draft' = IF todo = <<>> \/ Len(todo) > MaxConstraints \/ stale
                   THEN [NoDraft EXCEPT !.pc = "failed", !.pin = current, !.code = "invalid_query"]
                   ELSE [NoDraft EXCEPT !.pc = "overview", !.pin = current, !.todo = todo]
  BY DEF CallDraft
<1>2. todo \in Seq(ToSet(todo)) /\ \A p \in ToSet(todo) : ParsedProposal(p)
  BY DraftingAssumption DEF ParsedProposal
<1>3. <<>> \in Seq(ToSet(<<>>)) /\ ToSet(<<>>) = {}
  BY DEF ToSet
<1>4. CASE todo = <<>> \/ Len(todo) > MaxConstraints \/ stale
  <2>. DEFINE n == [NoDraft EXCEPT !.pc = "failed", !.pin = current, !.code = "invalid_query"]
  <2>1. DOMAIN n = DraftFields /\ n.pc = "failed" /\ n.pin = current /\ n.todo = <<>> /\ n.done = <<>>
    BY DEF NoDraft, DraftFields
  <2>2. draft' = n
    BY <1>1, <1>4
  <2>. HIDE DEF n
  <2>. QED BY <1>3, <2>1, <2>2 DEF DraftOK, DraftInv
<1>5. CASE ~(todo = <<>> \/ Len(todo) > MaxConstraints \/ stale)
  <2>. DEFINE n == [NoDraft EXCEPT !.pc = "overview", !.pin = current, !.todo = todo]
  <2>1. /\ DOMAIN n = DraftFields /\ n.pc = "overview" /\ n.pin = current /\ n.todo = todo /\ n.done = <<>> /\ n.cursor = 0
        /\ n.locks = <<>>
    BY DEF NoDraft, DraftFields
  <2>2. draft' = n /\ todo # <<>>
    BY <1>1, <1>5
  <2>. HIDE DEF n
  <2>. QED BY <1>2, <1>3, <2>1, <2>2 DEF DraftOK, DraftInv
<1>. QED BY <1>4, <1>5

LEMMA OverviewDraftOK ==
    ASSUME DraftInv, ReadOverview PROVE DraftOK(draft')
<1>1. DraftOK(draft) /\ draft.pc = "overview"
  BY DEF DraftInv, ReadOverview
<1>2. CASE current # draft.pin
  BY <1>1, <1>2, DraftFailsOK DEF ReadOverview
<1>3. CASE current = draft.pin
  <2>. DEFINE n == [draft EXCEPT !.pc = "resolve", !.horizon = Horizon[current]]
  <2>1. /\ DOMAIN n = DOMAIN draft /\ n.pc = "resolve" /\ n.pin = draft.pin /\ n.todo = draft.todo /\ n.done = draft.done
        /\ n.cursor = draft.cursor /\ n.locks = draft.locks /\ n.horizon = Horizon[draft.pin]
    BY <1>1, <1>3 DEF DraftOK, DraftFields
  <2>2. draft' = n
    BY <1>3 DEF ReadOverview
  <2>. HIDE DEF n
  <2>. QED BY <1>1, <2>1, <2>2 DEF DraftOK
<1>. QED BY <1>2, <1>3

LEMMA ResolveNextOK ==
    ASSUME DraftInv, ResolveNext PROVE DraftOK(draft')
<1>. DEFINE p == Head(draft.todo)
            c == Trusted(p)
            n == [draft EXCEPT !.todo = Tail(@), !.done = Append(@, c)]
<1>1. DraftOK(draft) /\ draft.pc = "resolve" /\ draft.todo # <<>>
  BY DEF DraftInv, ResolveNext
<1>2. CASE \E code : DraftFails(code)
  BY <1>1, <1>2, DraftFailsOK
<1>3. CASE ConstraintResolves(draft.pin, p, draft.horizon) /\ draft' = n
  <2>1. /\ p \in ToSet(draft.todo) /\ Tail(draft.todo) \in Seq(ToSet(draft.todo))
    BY <1>1, HeadTailProperties DEF DraftOK
  <2>2. GoodConstraint(c, draft.pin)
    <3>1. ParsedProposal(p) /\ draft.pin \in DOMAIN Records /\ ConstraintResolves(draft.pin, p, Horizon[draft.pin])
      BY <1>1, <1>3, <2>1 DEF DraftOK
    <3>. HIDE DEF p
    <3>. QED BY <3>1, ResolvedIsGood
  <2>. HIDE DEF p, c
  <2>3. /\ DOMAIN n = DOMAIN draft /\ n.pc = "resolve" /\ n.pin = draft.pin /\ n.todo = Tail(draft.todo)
        /\ n.done = Append(draft.done, c) /\ n.cursor = draft.cursor /\ n.locks = draft.locks /\ n.horizon = draft.horizon
    BY <1>1 DEF DraftOK, DraftFields
  <2>. DEFINE d == Append(draft.done, c)
              t == Tail(draft.todo)
              X == ToSet(draft.done) \cup {c}
  <2>4. d \in Seq(X) /\ d # <<>>
    BY <1>1, AppendProperties, SMTT(30) DEF DraftOK
  <2>. HIDE DEF n, d, t
  <2>5. d \in Seq(ToSet(d)) /\ ToSet(d) \subseteq X
    <3>. HIDE DEF X
    <3>. QED BY <2>4, OwnSeq
  <2>6. t \in Seq(ToSet(t)) /\ ToSet(t) \subseteq ToSet(draft.todo)
    BY <2>1, OwnSeq DEF t
  <2>7. (\A x \in ToSet(d) : GoodConstraint(x, draft.pin)) /\ \A x \in ToSet(t) : ParsedProposal(x)
    BY <1>1, <2>2, <2>5, <2>6 DEF DraftOK
  <2>8. n.done = d /\ n.todo = t
    BY <2>3 DEF d, t
  <2>. QED BY <1>1, <1>3, <2>3, <2>4, <2>5, <2>6, <2>7, <2>8 DEF DraftOK
<1>. QED BY <1>2, <1>3 DEF ResolveNext

LEMMA AllResolvedOK ==
    ASSUME DraftInv, AllResolved PROVE DraftOK(draft')
<1>. DEFINE n == [draft EXCEPT !.pc = "locks"]
<1>1. DraftOK(draft) /\ draft.pc = "resolve" /\ draft.todo = <<>> /\ draft' = n
  BY DEF DraftInv, AllResolved
<1>2. /\ DOMAIN n = DOMAIN draft /\ n.pc = "locks" /\ n.pin = draft.pin /\ n.todo = draft.todo /\ n.done = draft.done
      /\ n.cursor = 0 /\ n.locks = <<>>
  BY <1>1 DEF DraftOK, DraftFields
<1>3. <<>> \in Seq(ToSet(<<>>)) /\ Len(<<>>) = 0 /\ 1..0 = {} /\ draft.done # <<>>
  BY <1>1 DEF DraftOK
<1>4. Len(Locks[draft.pin]) \in Nat
  BY <1>1, DraftingAssumption, LenProperties DEF DraftOK
<1>. HIDE DEF n
<1>. QED BY <1>1, <1>2, <1>3, <1>4 DEF DraftOK, Prefix

LEMMA DrainLocksOK ==
    ASSUME DraftInv, DrainLocks PROVE DraftOK(draft')
<1>1. DraftOK(draft) /\ draft.pc = "locks"
  BY DEF DraftInv, DrainLocks
<1>2. CASE \E code : DraftFails(code)
  BY <1>1, <1>2, DraftFailsOK
<1>. DEFINE all == Locks[draft.pin]
            k == draft.cursor
            to == IF k + LockLimit > Len(all) THEN Len(all) ELSE k + LockLimit
            part == SubSeq(all, k + 1, to)
            more == draft.locks \o part
            pc == IF to < Len(all) THEN "locks" ELSE "return"
            n == [draft EXCEPT !.locks = more, !.cursor = to, !.pc = pc]
<1>3. CASE ~(Len(draft.locks) >= MaxLocks) /\ draft' = n
  <2>1. /\ draft.pin \in DOMAIN Records /\ draft.locks \in Seq(ToSet(draft.locks)) /\ Len(draft.locks) = k
        /\ k \in Nat /\ Prefix(draft.locks, k, all)
    BY <1>1 DEF DraftOK
  <2>2. all \in Seq(ToSet(all)) /\ Len(all) \in Nat /\ MaxLocks \in Nat /\ LockPage \in Nat
    BY <2>1, DraftingAssumption, LenProperties
  <2>3. LockLimit \in Nat
    BY <1>3, <2>1, <2>2 DEF LockLimit
  <2>4. k <= Len(all)
    BY <2>1 DEF Prefix
  <2>. HIDE DEF all, k
  <2>5. to \in Nat /\ to <= Len(all) /\ k <= to
    BY <2>1, <2>2, <2>3, <2>4
  <2>. HIDE DEF to
  <2>6. \A i \in (k + 1)..to : i \in 1..Len(all) /\ all[i] \in ToSet(all)
    <3>1. DOMAIN all = 1..Len(all)
      BY <2>2, LenProperties
    <3>. QED BY <2>1, <2>2, <2>5, <3>1 DEF ToSet
  <2>7. /\ part \in Seq(ToSet(all)) /\ Len(part) = IF k + 1 <= to THEN to - (k + 1) + 1 ELSE 0
        /\ \A i \in 1..(to - (k + 1) + 1) : part[i] = all[(k + 1) + i - 1]
    <3>1. k + 1 \in Int /\ to \in Int
      BY <2>1, <2>5
    <3>. QED BY <2>6, <3>1, SubSeqProperties
  <2>. HIDE DEF part
  <2>8. Len(part) \in Nat /\ k + Len(part) = to
    BY <2>1, <2>5, <2>7
  <2>9. ASSUME NEW i \in 1..Len(part) PROVE k + i \in 1..Len(all) /\ part[i] = all[k + i]
    <3>1. i \in 1..(to - (k + 1) + 1) /\ (k + 1) + i - 1 = k + i /\ k + i \in (k + 1)..to
      BY <2>1, <2>5, <2>7, <2>8
    <3>. QED BY <2>6, <2>7, <3>1
  <2>. DEFINE X == ToSet(draft.locks) \cup ToSet(all)
  <2>10. draft.locks \in Seq(X) /\ part \in Seq(X)
    BY <2>1, <2>7
  <2>. HIDE DEF X
  <2>11. more \in Seq(X) /\ Len(more) = to
    BY <2>1, <2>8, <2>10, ConcatProperties
  <2>12. Prefix(more, to, all)
    <3>1. Prefix(draft.locks, Len(draft.locks), all)
      BY <2>1
    <3>2. \A i \in 1..Len(part) : Len(draft.locks) + i \in 1..Len(all) /\ part[i] = all[Len(draft.locks) + i]
      BY <2>1, <2>9
    <3>3. Prefix(draft.locks \o part, Len(draft.locks) + Len(part), all)
      BY <2>2, <2>10, <3>1, <3>2, PrefixGrows
    <3>. QED BY <2>1, <2>8, <3>3
  <2>. HIDE DEF more
  <2>13. more \in Seq(ToSet(more))
    BY <2>11, OwnSeq
  <2>14. to = Len(all) => more = all
    BY <2>2, <2>11, <2>12, WholePrefix
  <2>15. pc \in {"locks", "return"} /\ (pc = "return" => to = Len(all))
    BY <2>2, <2>5
  <2>. HIDE DEF pc
  <2>16. /\ DOMAIN n = DOMAIN draft /\ n.pc = pc /\ n.pin = draft.pin /\ n.todo = draft.todo /\ n.done = draft.done
         /\ n.cursor = to /\ n.locks = more
    BY <1>1 DEF DraftOK, DraftFields
  <2>17. Locks[n.pin] = all
    BY <2>16 DEF all
  <2>. HIDE DEF n
  <2>. QED BY <1>1, <1>3, <2>11, <2>12, <2>13, <2>14, <2>15, <2>16, <2>17 DEF DraftOK
<1>. QED BY <1>2, <1>3 DEF DrainLocks

LEMMA ReturnDraftOK ==
    ASSUME DraftInv, ReturnDraft PROVE DraftOK(draft')
<1>1. DraftOK(draft) /\ draft.pc = "return"
  BY DEF DraftInv, ReturnDraft
<1>2. CASE \E code : DraftFails(code)
  BY <1>1, <1>2, DraftFailsOK
<1>. DEFINE cs == draft.done
            r == [id |-> DraftId(draft.pin, cs, draft.locks), version |-> draft.pin, entities |-> UniqueEntities(cs),
                  constraints |-> cs, locks |-> draft.locks]
            n == [draft EXCEPT !.pc = "returned", !.result = r]
<1>3. CASE draft' = n
  <2>1. cs \in Seq(ToSet(cs)) /\ cs # <<>> /\ draft.locks = Locks[draft.pin] /\ \A i \in DOMAIN cs : GoodConstraint(cs[i], draft.pin)
    BY <1>1 DEF DraftOK, ToSet
  <2>2. /\ ToSet(UniqueEntities(cs)) = UNION {ToSet(cs[i].entities) : i \in DOMAIN cs}
        /\ Len(UniqueEntities(cs)) = Cardinality(ToSet(UniqueEntities(cs)))
    <3>. HIDE DEF cs
    <3>. QED BY <2>1, UniqueEntitiesIs DEF GoodConstraint
  <2>3. r.constraints = cs /\ r.version = draft.pin /\ r.entities = UniqueEntities(cs) /\ r.locks = draft.locks
    OBVIOUS
  <2>. HIDE DEF r, cs
  <2>4. GoodResult(r)
    BY <2>1, <2>2, <2>3 DEF GoodResult
  <2>5. /\ DOMAIN n = DOMAIN draft /\ n.pc = "returned" /\ n.pin = draft.pin /\ n.todo = draft.todo /\ n.done = draft.done
        /\ n.result = r
    BY <1>1 DEF DraftOK, DraftFields
  <2>. HIDE DEF n
  <2>. QED BY <1>1, <1>3, <2>4, <2>5 DEF DraftOK
<1>. QED BY <1>2, <1>3 DEF ReturnDraft

\* resolve_clarification: each candidate is shown once, or counted as dropped.
LEMMA ClarificationIs ==
    ASSUME NEW cands \in Candidates PROVE ClarificationOK(cands, ClarificationOf(cands))
<1>. DEFINE size == Len(cands)
            n == IF size < MaxCandidates THEN size ELSE MaxCandidates
            looked == SubSeq(cands, 1, n)
            more == IF size > MaxCandidates THEN size - MaxCandidates ELSE 0
            Shown(i) == looked[i] \in Records[1] /\ \A j \in 1..(i - 1) : looked[j] # looked[i]
            K == {i \in 1..n : Shown(i)}
            s == KeptOf(looked, K)
<1>1. cands \in Seq(ToSet(cands)) /\ size \in Nat /\ DOMAIN cands = 1..size /\ MaxCandidates \in Nat
  BY DraftingAssumption, LenProperties
<1>2. n \in Nat /\ n <= size /\ n <= MaxCandidates /\ more \in Nat /\ n + more = size
  <2>. HIDE DEF size
  <2>1. CASE size < MaxCandidates
    <3>1. n = size /\ more = 0
      BY <1>1, <2>1
    <3>. QED BY <1>1, <2>1, <3>1
  <2>2. CASE ~(size < MaxCandidates)
    <3>1. n = MaxCandidates /\ more = size - MaxCandidates
      BY <1>1, <2>2
    <3>. QED BY <1>1, <2>2, <3>1
  <2>. QED BY <2>1, <2>2
<1>. HIDE DEF n, more
<1>3. /\ looked \in Seq(ToSet(cands)) /\ Len(looked) = n /\ DOMAIN looked = 1..n
      /\ \A i \in 1..n : looked[i] = cands[i]
  <2>1. 1 \in Int /\ n \in Int /\ \A i \in 1..n : cands[i] \in ToSet(cands)
    BY <1>1, <1>2 DEF ToSet
  <2>2. /\ looked \in Seq(ToSet(cands)) /\ Len(looked) = (IF 1 <= n THEN n - 1 + 1 ELSE 0)
        /\ \A i \in 1..(n - 1 + 1) : looked[i] = cands[1 + i - 1]
    BY <1>1, <2>1, SubSeqProperties
  <2>3. Len(looked) = n /\ n - 1 + 1 = n
    BY <1>2, <2>2
  <2>4. \A i \in 1..n : 1 + i - 1 = i
    BY <1>2
  <2>5. DOMAIN looked = 1..n
    BY <2>2, <2>3, LenProperties
  <2>. QED BY <2>2, <2>3, <2>4, <2>5
<1>4. ClarificationOf(cands).kept = s
  BY <1>3 DEF ClarificationOf, Rows, KeptOf, n
<1>5. ClarificationOf(cands).dropped = Cardinality((1..n) \ K) + more
  <2>1. ClarificationOf(cands).dropped = Cardinality({i \in DOMAIN looked : ~Shown(i)}) + more
    BY DEF ClarificationOf, n, more
  <2>2. {i \in DOMAIN looked : ~Shown(i)} = (1..n) \ K
    BY <1>3
  <2>. QED BY <2>1, <2>2
<1>6. ASSUME NEW i \in K, NEW j \in K, looked[i] = looked[j] PROVE i = j
  <2>1. i \in 1..n /\ j \in 1..n
    OBVIOUS
  <2>2. ~(i < j) /\ ~(j < i)
    BY <1>2, <1>6, <2>1
  <2>. QED BY <1>2, <2>1, <2>2
<1>7. K \in SUBSET (1..n) /\ K \in Indices(n) /\ \A i \in K : looked[i] \in Records[1] \cap ToSet(cands)
  <2>1. \A i \in 1..n : looked[i] \in ToSet(cands)
    BY <1>1, <1>2, <1>3 DEF ToSet
  <2>. QED BY <2>1 DEF Indices
<1>. HIDE DEF K, looked
<1>8. /\ ToSet(s) = {looked[i] : i \in K} /\ Len(s) = Cardinality(K) /\ IsFiniteSet(K)
      /\ (\A i, j \in K : looked[i] = looked[j] => i = j) => Len(s) = Cardinality(ToSet(s))
  BY <1>2, <1>7, KeptAll
<1>. HIDE DEF s
<1>9. Len(s) = Cardinality(ToSet(s)) /\ ToSet(s) \subseteq Records[1] \cap ToSet(cands)
  <2>1. ToSet(s) \subseteq Records[1] \cap ToSet(cands)
    BY <1>7, <1>8
  <2>. QED BY <1>6, <1>8, <2>1
<1>10. Cardinality((1..n) \ K) = n - Cardinality(K) /\ Cardinality(K) \in Nat /\ Cardinality(K) <= n
  <2>1. 1 \in Int /\ n \in Int
    BY <1>2
  <2>2. IsFiniteSet(1..n) /\ Cardinality(1..n) = IF 1 > n THEN 0 ELSE n - 1 + 1
    BY <2>1, FS_Interval
  <2>3. Cardinality(1..n) = n
    BY <1>2, <2>2
  <2>4. (1..n) \cap K = K
    BY <1>7
  <2>5. Cardinality((1..n) \ K) = Cardinality(1..n) - Cardinality((1..n) \cap K)
    BY <2>2, FS_Difference
  <2>6. Cardinality(K) <= Cardinality(1..n)
    BY <1>7, <2>2, FS_Subset
  <2>. QED BY <1>8, <2>3, <2>4, <2>5, <2>6, FS_CardinalityType
<1>. DEFINE c == Cardinality(K)
            z == ClarificationOf(cands)
<1>11. z.kept = s /\ z.dropped = (n - c) + more /\ Len(s) = c /\ c \in Nat /\ c <= n
  BY <1>4, <1>5, <1>8, <1>10
<1>. HIDE DEF c, z
<1>12. Len(s) + z.dropped = size /\ Len(s) <= MaxCandidates
  <2>. DEFINE d == z.dropped
              k == Len(s)
  <2>1. d = (n - c) + more /\ k = c
    BY <1>11
  <2>. HIDE DEF size, d, k
  <2>2. k + d = size /\ k <= MaxCandidates
    BY <1>1, <1>2, <1>11, <2>1
  <2>. QED BY <2>2 DEF d, k
<1>. QED BY <1>9, <1>11, <1>12 DEF ClarificationOK, z

LEMMA DraftStep ==
    ASSUME DraftInv, \/ Draft /\ UNCHANGED questionVars
                     \/ AnswerClarification /\ UNCHANGED draftVars
                     \/ UNCHANGED <<draftVars, questionVars>>
    PROVE  DraftInv'
<1>1. CASE Draft /\ UNCHANGED questionVars
  <2>1. /\ asked' = asked /\ answer' = answer /\ answered' = answered
    BY <1>1 DEF questionVars
  <2>2. current' \in DOMAIN Records
    BY <1>1 DEF DraftInv, Draft, CallDraft, ReadOverview, ResolveNext, AllResolved, DrainLocks, ReturnDraft, DeadlinePasses,
                VersionImported
  <2>3. DraftOK(draft')
    <3>1. CASE DeadlinePasses \/ VersionImported
      BY <3>1 DEF DraftInv, DeadlinePasses, VersionImported
    <3>. QED BY <1>1, <3>1, CallDraftOK, OverviewDraftOK, ResolveNextOK, AllResolvedOK, DrainLocksOK, ReturnDraftOK DEF Draft
  <2>4. DraftOK(draft)'
    BY <2>3 DEF DraftOK, GoodResult, GoodConstraint, ParsedProposal
  <2>5. Answered("clarify") => ClarificationOK(asked.cands, answer)
    BY DEF DraftInv
  <2>6. (Answered("clarify") => ClarificationOK(asked.cands, answer))'
    BY <2>1, <2>5 DEF Answered, ClarificationOK
  <2>. QED BY <2>1, <2>2, <2>4, <2>6 DEF DraftInv
<1>2. CASE AnswerClarification /\ UNCHANGED draftVars
  <2>1. /\ current' = current /\ draft' = draft /\ asked' = asked /\ asked.kind = "clarify"
        /\ answer' = ClarificationOf(asked.cands)
    BY <1>2 DEF AnswerClarification, Answers, draftVars
  <2>2. asked.cands \in Candidates
    BY <2>1 DEF DraftInv
  <2>3. ClarificationOK(asked.cands, ClarificationOf(asked.cands))
    BY <2>2, ClarificationIs
  <2>4. ClarificationOK(asked.cands, answer)'
    BY <2>1, <2>3 DEF ClarificationOK
  <2>5. DraftOK(draft)'
    BY <2>1 DEF DraftInv, DraftOK
  <2>. QED BY <2>1, <2>4, <2>5 DEF DraftInv
<1>3. CASE UNCHANGED <<draftVars, questionVars>>
  BY <1>3 DEF draftVars, questionVars, DraftInv, Answered, DraftOK, ClarificationOK
<1>. QED BY <1>1, <1>2, <1>3

\* scheduling_draft's locks are a prefix of the pinned version's until the last
\* page completes them, and resolve_constraint runs against that version: hence
\* what is returned never raises in the solver adapter (_record_id, the override
\* arguments), names only records and days the version has, and carries all of
\* its locks and every record once; resolve_clarification counts what it drops.
THEOREM DraftsStaySolvable == DraftSpec => []DraftsAreSolvable
<1>1. DraftInit /\ asked \in {[kind |-> "none"]} \cup ClarificationQuestions /\ Unanswered => DraftInv
  <2>. SUFFICES ASSUME DraftInit, asked \in {[kind |-> "none"]} \cup ClarificationQuestions, Unanswered PROVE DraftInv
    OBVIOUS
  <2>1. current \in DOMAIN Records
    BY DraftingAssumption DEF DraftInit
  <2>2. <<>> \in Seq(ToSet(<<>>)) /\ ToSet(<<>>) = {}
    BY DEF ToSet
  <2>3. DOMAIN NoDraft = DraftFields /\ NoDraft.pc = "idle" /\ NoDraft.todo = <<>> /\ NoDraft.done = <<>>
    BY DEF NoDraft, DraftFields
  <2>4. draft = NoDraft
    BY DEF DraftInit
  <2>5. DraftOK(draft)
    BY <2>2, <2>3, <2>4 DEF DraftOK
  <2>6. asked.kind = "clarify" => asked.cands \in Candidates
    BY DEF ClarificationQuestions
  <2>7. ~Answered("clarify")
    BY DEF Unanswered, Answered
  <2>. QED BY <2>1, <2>5, <2>6, <2>7 DEF DraftInv
<1>2. DraftInv /\ [\/ Draft /\ UNCHANGED questionVars
                   \/ AnswerClarification /\ UNCHANGED draftVars]_<<draftVars, questionVars>> => DraftInv'
  BY DraftStep
<1>3. DraftInv => DraftsAreSolvable
  <2>. SUFFICES ASSUME DraftInv PROVE DraftsAreSolvable
    OBVIOUS
  <2>1. draft.pc = "returned" => GoodResult(draft.result)
    BY DEF DraftInv, DraftOK
  <2>2. \A c : Override(c).records = ToSet(c.entities)
    BY DEF Override
  <2>3. Answered("clarify") => ClarificationOK(asked.cands, answer)
    BY DEF DraftInv
  <2>. QED BY <2>1, <2>2, <2>3, Zenon DEF DraftsAreSolvable, GoodResult, GoodConstraint, ClarificationOK
<1>. QED BY <1>1, <1>2, <1>3, PTL DEF DraftSpec

----------------------------------------------------------------------------
(* Sequences that grow.                                                      *)

\* A set that has the empty sequence and whatever is appended to one of its
\* sequences has them all.
LEMMA SeqClosed ==
    ASSUME NEW X, NEW S, <<>> \in S, \A s \in Seq(X), x \in X : s \in S => Append(s, x) \in S
    PROVE  Seq(X) \subseteq S
<1>. DEFINE T == {n \in Nat : \A s \in Seq(X) : Len(s) = n => s \in S}
<1>1. 0 \in T
  BY EmptySeq
<1>2. ASSUME NEW n \in Nat, n \in T PROVE n + 1 \in T
  <2>. SUFFICES ASSUME NEW s \in Seq(X), Len(s) = n + 1 PROVE s \in S
    OBVIOUS
  <2>1. s # <<>>
    BY EmptySeq
  <2>2. PICK r \in Seq(X), x \in X : s = Append(r, x)
    BY <2>1, SequenceEmptyOrAppend
  <2>3. Len(r) = n
    BY <2>2, AppendProperties
  <2>. QED BY <1>2, <2>2, <2>3
<1>. HIDE DEF T
<1>3. Nat \subseteq T
  BY <1>1, <1>2, NatClosed
<1>4. ASSUME NEW s \in Seq(X) PROVE s \in S
  BY <1>3, LenProperties DEF T
<1>. QED BY <1>4

\* The concatenations of the first sequences of a sequence of them.
FlatBody(seqs, g) == [i \in 1..Len(seqs) |-> IF i = 1 THEN seqs[i] ELSE g[i - 1] \o seqs[i]]
Flats(seqs) == CHOOSE g : g = FlatBody(seqs, g)

LEMMA FlatsIs ==
    ASSUME NEW X, NEW seqs \in Seq(Seq(X)), Len(seqs) # 0
    PROVE  /\ \A i \in 1..Len(seqs) : Flats(seqs)[i] = IF i = 1 THEN seqs[i] ELSE Flats(seqs)[i - 1] \o seqs[i]
           /\ FlattenSeq(seqs) = Flats(seqs)[Len(seqs)]
<1>. DEFINE N == Len(seqs)
            V == Seq(X)
            none == <<>>
            step == [i \in 1..N |-> [s \in Seq(X) |-> s \o seqs[i]]]
<1>1. N \in Nat /\ \A a \in 1..N : seqs[a] \in Seq(X)
  BY LenProperties, ElementOfSeq
<1>2. step \in [1..N -> [V -> V]] /\ none \in V /\ none = <<>> /\ V = Seq(X)
  BY <1>1
<1>3. \A i \in 1..N : \A s \in Seq(X) : step[i][s] = s \o seqs[i]
  OBVIOUS
<1>. HIDE DEF step, V, none, N
<1>4. Recursions(V, N, none, step) # {}
  <2>. QED BY <1>1, <1>2, RecursionExists, Zenon
<1>5. PICK f \in [0..N -> Seq(X)] : f[0] = <<>> /\ \A i \in 1..N : f[i] = step[i][f[i - 1]]
  BY <1>2, <1>4 DEF Recursions
<1>6. ASSUME NEW i \in 1..N PROVE f[i] = IF i = 1 THEN seqs[i] ELSE f[i - 1] \o seqs[i]
  <2>1. i - 1 \in 0..N /\ f[i - 1] \in Seq(X)
    BY <1>1
  <2>2. f[i] = f[i - 1] \o seqs[i]
    BY <1>3, <1>5, <2>1
  <2>3. <<>> \o seqs[i] = seqs[i]
    BY <1>1, ConcatEmptySeq
  <2>4. CASE i = 1
    <3>1. f[i - 1] = <<>>
      BY <1>5, <2>4
    <3>. QED BY <2>2, <2>3, <2>4, <3>1
  <2>5. CASE i # 1
    BY <2>2, <2>5
  <2>. QED BY <2>4, <2>5
<1>. DEFINE g == [i \in 1..N |-> f[i]]
<1>7. \A i \in 1..N : i # 1 => g[i - 1] = f[i - 1]
  BY <1>1
<1>8. g = FlatBody(seqs, g)
  BY <1>6, <1>7 DEF FlatBody, N
<1>9. Flats(seqs) = FlatBody(seqs, Flats(seqs))
  <2>. HIDE DEF g
  <2>. QED BY <1>8 DEF Flats
<1>10. \A i \in 1..N : Flats(seqs)[i] = IF i = 1 THEN seqs[i] ELSE Flats(seqs)[i - 1] \o seqs[i]
  <2>. DEFINE h == Flats(seqs)
  <2>. HIDE DEF h
  <2>1. h = FlatBody(seqs, h)
    BY <1>9 DEF h
  <2>2. \A i \in 1..N : h[i] = IF i = 1 THEN seqs[i] ELSE h[i - 1] \o seqs[i]
    BY <2>1 DEF FlatBody, N
  <2>. QED BY <2>2 DEF h
<1>11. FlattenSeq(seqs) = Flats(seqs)[N]
  <2>1. Len(seqs) = N /\ N # 0
    BY DEF N
  <2>. QED BY <2>1 DEF FlattenSeq, Flats, FlatBody
<1>. QED BY <1>10, <1>11 DEF N

LEMMA FlattenEmpty == FlattenSeq(<<>>) = <<>>
BY DEF FlattenSeq

\* One sequence more adds its elements at the end.
LEMMA FlattenAppend ==
    ASSUME NEW X, NEW seqs \in Seq(Seq(X)), NEW s \in Seq(X)
    PROVE  FlattenSeq(seqs) \in Seq(X) /\ FlattenSeq(Append(seqs, s)) = FlattenSeq(seqs) \o s
<1>. DEFINE n == Len(seqs)
            more == Append(seqs, s)
            f == Flats(seqs)
            g == Flats(more)
<1>1. n \in Nat /\ more \in Seq(Seq(X)) /\ Len(more) = n + 1 /\ more[n + 1] = s /\ \A i \in 1..n : more[i] = seqs[i]
  BY LenProperties, AppendProperties
<1>2. FlattenSeq(seqs) \in Seq(X)
  BY FlattenIs
<1>. HIDE DEF more
<1>3. /\ \A i \in 1..(n + 1) : g[i] = IF i = 1 THEN more[i] ELSE g[i - 1] \o more[i]
      /\ FlattenSeq(more) = g[n + 1]
  <2>1. more \in Seq(Seq(X)) /\ Len(more) = n + 1 /\ Len(more) # 0
    BY <1>1
  <2>. HIDE DEF n, f
  <2>. QED BY <2>1, FlatsIs
<1>4. CASE n = 0
  <2>1. seqs = <<>> /\ FlattenSeq(seqs) = <<>>
    BY <1>4, EmptySeq, FlattenEmpty
  <2>2. g[1] = s
    BY <1>1, <1>3, <1>4
  <2>3. FlattenSeq(more) = s
    BY <1>3, <1>4, <2>2
  <2>4. <<>> \o s = s
    BY ConcatEmptySeq
  <2>. QED BY <1>2, <2>1, <2>3, <2>4 DEF more
<1>5. CASE n # 0
  <2>1. /\ \A i \in 1..n : f[i] = IF i = 1 THEN seqs[i] ELSE f[i - 1] \o seqs[i]
        /\ FlattenSeq(seqs) = f[n]
    BY <1>5, FlatsIs
  <2>. HIDE DEF n, f, g
  <2>. DEFINE S == {i \in Nat : i \in 1..n => g[i] = f[i]}
  <2>2. 0 \in S
    OBVIOUS
  <2>3. ASSUME NEW i \in Nat, i \in S PROVE i + 1 \in S
    <3>1. CASE i + 1 \notin 1..n
      BY <3>1
    <3>2. CASE i + 1 \in 1..n /\ i = 0
      BY <1>1, <1>3, <2>1, <3>2
    <3>3. CASE i + 1 \in 1..n /\ i # 0
      <4>1. i \in 1..n /\ (i + 1) - 1 = i /\ i + 1 # 1 /\ i + 1 \in 1..(n + 1)
        BY <1>1, <3>3
      <4>2. g[i + 1] = g[i] \o more[i + 1] /\ f[i + 1] = f[i] \o seqs[i + 1]
        BY <1>3, <2>1, <3>3, <4>1
      <4>3. g[i] = f[i]
        BY <2>3, <4>1
      <4>4. more[i + 1] = seqs[i + 1]
        BY <1>1, <3>3
      <4>5. g[i + 1] = f[i + 1]
        BY <4>2, <4>3, <4>4
      <4>. QED BY <4>5
    <3>. QED BY <3>1, <3>2, <3>3
  <2>4. n \in S
    <3>. HIDE DEF S
    <3>. QED BY <1>1, <2>2, <2>3, NatClosed
  <2>5. g[n] = f[n] /\ (n + 1) - 1 = n /\ n + 1 # 1 /\ n + 1 \in 1..(n + 1)
    BY <1>1, <1>5, <2>4
  <2>6. g[n + 1] = g[n] \o more[n + 1]
    BY <1>3, <2>5
  <2>. QED BY <1>1, <1>2, <1>3, <2>1, <2>5, <2>6 DEF more
<1>. QED BY <1>4, <1>5

----------------------------------------------------------------------------
(* The parser of answers.                                                    *)

BodiesOf(ps) == [i \in DOMAIN ps |-> ps[i].body]
Wording(ps) == FlattenSeq(BodiesOf(ps))
FactsOf(ps) == {i \in DOMAIN ps : ps[i].k = "fact"}

HasBodies(P, X) == \A p \in P : p.body \in Seq(X)

LEMMA WordingAppend ==
    ASSUME NEW X, NEW P, HasBodies(P, X), NEW ps \in Seq(P), NEW p \in P
    PROVE  /\ Wording(ps) \in Seq(X) /\ Wording(Append(ps, p)) = Wording(ps) \o p.body
           /\ BodiesOf(ps) \in Seq(Seq(X))
<1>. DEFINE n == Len(ps)
            more == Append(ps, p)
            b == BodiesOf(ps)
            c == BodiesOf(more)
            d == Append(b, p.body)
<1>1. n \in Nat /\ DOMAIN ps = 1..n /\ \A i \in 1..n : ps[i] \in P
  BY LenProperties, ElementOfSeq
<1>2. more \in Seq(P) /\ Len(more) = n + 1 /\ more[n + 1] = p /\ \A i \in 1..n : more[i] = ps[i]
  BY AppendProperties
<1>. HIDE DEF more
<1>3. DOMAIN more = 1..(n + 1)
  BY <1>2, LenProperties
<1>4. b \in [1..n -> Seq(X)] /\ \A i \in 1..n : b[i] = ps[i].body
  BY <1>1 DEF BodiesOf, HasBodies
<1>. HIDE DEF n
<1>5. b \in Seq(Seq(X)) /\ Len(b) = n
  <2>. HIDE DEF b
  <2>. QED BY <1>1, <1>4
<1>6. DOMAIN c = 1..(n + 1) /\ \A i \in 1..(n + 1) : c[i] = more[i].body
  BY <1>3 DEF BodiesOf
<1>7. d \in Seq(Seq(X)) /\ Len(d) = n + 1 /\ d[n + 1] = p.body /\ \A i \in 1..n : d[i] = b[i]
  <2>. HIDE DEF b
  <2>1. p.body \in Seq(X)
    BY DEF HasBodies
  <2>. QED BY <1>5, <2>1, AppendProperties
<1>8. DOMAIN d = 1..(n + 1)
  <2>. HIDE DEF d
  <2>. QED BY <1>7, LenProperties
<1>9. c = d
  <2>1. c = [i \in DOMAIN c |-> c[i]]
    BY DEF BodiesOf
  <2>. HIDE DEF b, c
  <2>2. ASSUME NEW i \in 1..(n + 1) PROVE c[i] = d[i]
    <3>. HIDE DEF d
    <3>1. CASE i = n + 1
      BY <1>2, <1>6, <1>7, <3>1
    <3>2. CASE i \in 1..n
      BY <1>2, <1>4, <1>6, <1>7, <3>2
    <3>. QED BY <1>1, <3>1, <3>2
  <2>3. d = [i \in DOMAIN d |-> d[i]]
    <3>. HIDE DEF d
    <3>. QED BY <1>7, <1>8, LenProperties
  <2>. HIDE DEF d
  <2>. QED BY <1>6, <1>8, <2>1, <2>2, <2>3
<1>. HIDE DEF b, c
<1>10. FlattenSeq(b) \in Seq(X) /\ FlattenSeq(Append(b, p.body)) = FlattenSeq(b) \o p.body
  <2>1. p.body \in Seq(X)
    BY DEF HasBodies
  <2>. QED BY <1>5, <2>1, FlattenAppend
<1>. QED BY <1>5, <1>9, <1>10 DEF Wording, more, b, c

LEMMA WordingEmpty == Wording(<<>>) = <<>> /\ FactsOf(<<>>) = {}
<1>1. BodiesOf(<<>>) = <<>>
  BY DEF BodiesOf
<1>. QED BY <1>1, FlattenEmpty DEF Wording, FactsOf

\* The wording of two lists of pieces is the wording of one, then the other's.
LEMMA WordingConcat ==
    ASSUME NEW X, NEW P, HasBodies(P, X), NEW ps \in Seq(P), NEW qs \in Seq(P)
    PROVE  Wording(ps \o qs) = Wording(ps) \o Wording(qs) /\ Wording(qs) \in Seq(X)
<1>. DEFINE S == {s \in Seq(P) : Wording(ps \o s) = Wording(ps) \o Wording(s) /\ Wording(s) \in Seq(X)}
<1>0. CASE P = {}
  <2>1. ps = <<>> /\ qs = <<>>
    <3>1. \A s \in Seq(P) : s = <<>>
      <4>. SUFFICES ASSUME NEW s \in Seq(P), s # <<>> PROVE FALSE
        OBVIOUS
      <4>1. Head(s) \in P
        BY HeadTailProperties
      <4>. QED BY <1>0, <4>1
    <3>. QED BY <3>1
  <2>2. <<>> \o <<>> = <<>> /\ <<>> \in Seq(X)
    OBVIOUS
  <2>. QED BY <2>1, <2>2, WordingEmpty
<1>1. CASE P # {}
  <2>1. Wording(ps) \in Seq(X)
    BY <1>1, WordingAppend
  <2>2. <<>> \in S
    <3>1. ps \o <<>> = ps /\ Wording(ps) \o <<>> = Wording(ps) /\ <<>> \in Seq(X) /\ <<>> \in Seq(P)
      BY <2>1, ConcatEmptySeq
    <3>. QED BY <3>1, WordingEmpty
  <2>3. ASSUME NEW s \in Seq(P), NEW p \in P, s \in S PROVE Append(s, p) \in S
    <3>1. ps \o s \in Seq(P) /\ Append(s, p) \in Seq(P)
      BY ConcatProperties, AppendProperties
    <3>2. ps \o Append(s, p) = Append(ps \o s, p)
      <4>1. Append(s, p) = s \o <<p>> /\ <<p>> \in Seq(P)
        BY AppendIsConcat
      <4>2. Append(ps \o s, p) = (ps \o s) \o <<p>>
        BY <3>1, AppendIsConcat
      <4>. QED BY <4>1, <4>2, ConcatAssociative
    <3>. DEFINE u == ps \o s
    <3>0. u \in Seq(P) /\ s \in Seq(P) /\ p \in P
      BY <3>1
    <3>5. p.body \in Seq(X) /\ Wording(s) \in Seq(X) /\ Wording(ps \o s) = Wording(ps) \o Wording(s)
      BY <2>3 DEF HasBodies
    <3>. HIDE DEF u, S
    <3>3. Wording(Append(u, p)) = Wording(u) \o p.body
      BY <3>0, WordingAppend
    <3>4. Wording(Append(s, p)) = Wording(s) \o p.body
      BY <3>0, WordingAppend
    <3>6. (Wording(ps) \o Wording(s)) \o p.body = Wording(ps) \o (Wording(s) \o p.body)
      <4>. DEFINE a == Wording(ps)  b == Wording(s)  c == p.body
      <4>1. a \in Seq(X) /\ b \in Seq(X) /\ c \in Seq(X)
        BY <2>1, <3>5
      <4>. HIDE DEF a, b, c
      <4>2. (a \o b) \o c = a \o (b \o c)
        BY <4>1, ConcatAssociative, SMTT(30)
      <4>. QED BY <4>2 DEF a, b, c
    <3>7. Wording(s) \o p.body \in Seq(X)
      BY <3>5, ConcatProperties
    <3>. QED BY <3>1, <3>2, <3>3, <3>4, <3>5, <3>6, <3>7 DEF u, S
  <2>4. Seq(P) \subseteq S
    <3>. HIDE DEF S
    <3>. QED BY <2>2, <2>3, SeqClosed
  <2>. QED BY <2>4
<1>. QED BY <1>0, <1>1

LEMMA FactsAppend ==
    ASSUME NEW P, NEW ps \in Seq(P), NEW p \in P
    PROVE  /\ IsFiniteSet(FactsOf(ps)) /\ Cardinality(FactsOf(ps)) \in Nat
           /\ Cardinality(FactsOf(Append(ps, p))) = Cardinality(FactsOf(ps)) + (IF p.k = "fact" THEN 1 ELSE 0)
<1>. DEFINE n == Len(ps)
            more == Append(ps, p)
            F == FactsOf(ps)
            G == FactsOf(more)
<1>1. n \in Nat /\ DOMAIN ps = 1..n
  BY LenProperties
<1>2. more \in Seq(P) /\ Len(more) = n + 1 /\ more[n + 1] = p /\ \A i \in 1..n : more[i] = ps[i]
  BY AppendProperties
<1>. HIDE DEF more
<1>3. DOMAIN more = 1..(n + 1) /\ 1..(n + 1) = (1..n) \cup {n + 1}
  BY <1>1, <1>2, LenProperties
<1>4. F \in SUBSET (1..n) /\ n + 1 \notin F
  BY <1>1 DEF FactsOf
<1>5. G = IF p.k = "fact" THEN F \cup {n + 1} ELSE F
  BY <1>1, <1>2, <1>3 DEF FactsOf
<1>. HIDE DEF F, G, n
<1>6. IsFiniteSet(F)
  <2>1. 1 \in Int /\ n \in Int
    BY <1>1
  <2>2. IsFiniteSet(1..n)
    BY <2>1, FS_Interval
  <2>. QED BY <1>4, <2>2, FS_Subset
<1>7. Cardinality(F) \in Nat /\ Cardinality(F \cup {n + 1}) = Cardinality(F) + 1
  BY <1>4, <1>6, FS_CardinalityType, FS_AddElement
<1>. QED BY <1>5, <1>6, <1>7 DEF F, G, more

\* Pieces that are no facts leave their number as it is.
LEMMA FactsConcat ==
    ASSUME NEW P, NEW ps \in Seq(P), NEW qs \in Seq(P), \A i \in 1..Len(qs) : qs[i].k # "fact"
    PROVE  FactsOf(ps \o qs) = FactsOf(ps)
<1>. DEFINE m == Len(ps)
            n == Len(qs)
            all == ps \o qs
<1>1. m \in Nat /\ n \in Nat /\ DOMAIN ps = 1..m /\ DOMAIN qs = 1..n
  BY LenProperties
<1>2. all \in Seq(P) /\ Len(all) = m + n /\ \A i \in 1..(m + n) : all[i] = IF i <= m THEN ps[i] ELSE qs[i - m]
  BY ConcatProperties
<1>. HIDE DEF all
<1>3. DOMAIN all = 1..(m + n)
  BY <1>2, LenProperties
<1>. HIDE DEF m, n
<1>4. ASSUME NEW i \in 1..(m + n) PROVE IF i <= m THEN i \in 1..m /\ all[i] = ps[i] ELSE all[i].k # "fact"
  <2>1. CASE i <= m
    BY <1>1, <1>2, <2>1
  <2>2. CASE ~(i <= m)
    <3>1. i - m \in 1..n /\ all[i] = qs[i - m]
      BY <1>1, <1>2, <2>2
    <3>. QED BY <2>2, <3>1 DEF n
  <2>. QED BY <2>1, <2>2
<1>5. \A i \in 1..m : i \in 1..(m + n) /\ i <= m
  BY <1>1
<1>. QED BY <1>1, <1>3, <1>4, <1>5 DEF FactsOf, all

\* The first n elements of c are those of m, and one more follows.
OneMore(c, m, n) == c = [i \in 1..(n + 1) |-> c[i]] /\ \A i \in 1..n : c[i] = m[i]

LEMMA IsAppend ==
    ASSUME NEW Y, NEW m \in Seq(Y), NEW y \in Y, NEW c, OneMore(c, m, Len(m)), c[Len(m) + 1] = y
    PROVE  c = Append(m, y)
<1>. DEFINE n == Len(m)
<1>0. n \in Nat /\ Len(m) = n /\ c = [i \in 1..(n + 1) |-> c[i]] /\ c[n + 1] = y /\ \A i \in 1..n : c[i] = m[i]
  BY LenProperties DEF OneMore
<1>. HIDE DEF n
<1>. DEFINE d == Append(m, y)
<1>1. d \in Seq(Y) /\ Len(d) = n + 1 /\ d[n + 1] = y /\ \A i \in 1..n : d[i] = m[i]
  BY <1>0, AppendProperties
<1>. HIDE DEF d
<1>2. d = [i \in 1..(n + 1) |-> d[i]]
  <2>1. DOMAIN d = 1..(n + 1) /\ d \in [1..Len(d) -> Y]
    BY <1>1, LenProperties
  <2>. QED BY <2>1
<1>3. ASSUME NEW i \in 1..(n + 1) PROVE c[i] = d[i]
  <2>1. i = n + 1 \/ i \in 1..n
    BY <1>0
  <2>. QED BY <1>0, <1>1, <2>1
<1>4. c = d
  BY <1>0, <1>2, <1>3
<1>. QED BY <1>4 DEF d

Parts(T) == {[k |-> "prose", body |-> b] : b \in Seq(T)} \cup {Fact(x, b) : x \in T, b \in Seq(T)}
Pieces(T) == Parts(T) \cup {[k |-> "hole", h |-> x.h, body |-> <<x>>] : x \in T}

LEMMA PieceTypes ==
    ASSUME NEW T
    PROVE  /\ Parts(T) \subseteq Pieces(T) /\ HasBodies(Pieces(T), T) /\ HasBodies(Parts(T), T)
           /\ \A p \in Pieces(T) : p.k \in {"fact", "hole", "prose"}
<1>1. ASSUME NEW p \in Pieces(T) PROVE p.body \in Seq(T) /\ p.k \in {"fact", "hole", "prose"}
  <2>1. CASE p \in {[k |-> "prose", body |-> b] : b \in Seq(T)}
    <3>1. PICK b \in Seq(T) : p = [k |-> "prose", body |-> b]
      BY <2>1
    <3>. QED BY <3>1
  <2>2. CASE p \in {Fact(x, b) : x \in T, b \in Seq(T)}
    <3>1. PICK x \in T, b \in Seq(T) : p = Fact(x, b)
      BY <2>2
    <3>. QED BY <3>1 DEF Fact
  <2>3. CASE p \in {[k |-> "hole", h |-> x.h, body |-> <<x>>] : x \in T}
    <3>1. PICK x \in T : p = [k |-> "hole", h |-> x.h, body |-> <<x>>]
      BY <2>3
    <3>. QED BY <3>1
  <2>. QED BY <2>1, <2>2, <2>3 DEF Pieces, Parts
<1>2. Parts(T) \subseteq Pieces(T)
  BY DEF Pieces
<1>. QED BY <1>1, <1>2 DEF HasBodies

\* The pieces a stretch of prose is cut into.
PieceOf(x) == IF x.t = "hole" THEN [k |-> "hole", h |-> x.h, body |-> <<x>>] ELSE [k |-> "prose", body |-> <<x>>]
Told(b) == [i \in DOMAIN b |-> PieceOf(b[i])]

LEMMA PieceOfIs ==
    ASSUME NEW T, NEW x \in T PROVE PieceOf(x) \in Pieces(T) /\ PieceOf(x).body = <<x>> /\ PieceOf(x).k # "fact"
<1>1. <<x>> \in Seq(T)
  OBVIOUS
<1>2. CASE x.t = "hole"
  BY <1>2 DEF PieceOf, Pieces
<1>3. CASE x.t # "hole"
  <2>. DEFINE b == <<x>>
  <2>1. PieceOf(x) = [k |-> "prose", body |-> b]
    BY <1>3 DEF PieceOf
  <2>2. b \in Seq(T)
    BY <1>1
  <2>. HIDE DEF b
  <2>3. PieceOf(x) \in Pieces(T)
    BY <2>1, <2>2 DEF Pieces, Parts
  <2>. QED BY <2>1, <2>3 DEF b
<1>. QED BY <1>2, <1>3

LEMMA ToldIs ==
    ASSUME NEW T, NEW b \in Seq(T)
    PROVE  Told(b) \in Seq(Pieces(T)) /\ Wording(Told(b)) = b /\ \A i \in 1..Len(Told(b)) : Told(b)[i].k # "fact"
<1>. DEFINE P == Pieces(T)
            S == {s \in Seq(T) : Told(s) \in Seq(P) /\ Len(Told(s)) = Len(s) /\ Wording(Told(s)) = s}
<1>0. HasBodies(P, T)
  BY PieceTypes
<1>1. <<>> \in S
  <2>1. Told(<<>>) = <<>>
    BY DEF Told
  <2>2. <<>> \in Seq(P) /\ <<>> \in Seq(T)
    OBVIOUS
  <2>. HIDE DEF P
  <2>. QED BY <2>1, <2>2, WordingEmpty
<1>2. ASSUME NEW s \in Seq(T), NEW x \in T, s \in S PROVE Append(s, x) \in S
  <2>. DEFINE n == Len(s)
              more == Append(s, x)
              m == Told(s)
              y == PieceOf(x)
              c == Told(more)
  <2>1. n \in Nat /\ DOMAIN s = 1..n /\ m \in Seq(P) /\ Len(m) = n /\ Wording(m) = s
    BY <1>2, LenProperties
  <2>2. more \in Seq(T) /\ Len(more) = n + 1 /\ more[n + 1] = x /\ \A i \in 1..n : more[i] = s[i]
    BY AppendProperties
  <2>20. more = s \o <<x>>
    BY AppendIsConcat
  <2>. HIDE DEF more
  <2>3. DOMAIN more = 1..(n + 1)
    BY <2>2, LenProperties
  <2>4. y \in P /\ y.body = <<x>>
    BY PieceOfIs
  <2>5. c = [i \in 1..(n + 1) |-> c[i]] /\ c[n + 1] = y /\ \A i \in 1..n : c[i] = m[i]
    BY <2>1, <2>2, <2>3 DEF Told
  <2>. HIDE DEF c, m, y, n, P, S
  <2>50. m \in Seq(P) /\ y \in P /\ n \in Nat /\ Len(m) = n
    BY <2>1, <2>4
  <2>6. c = Append(m, y)
    <3>1. OneMore(c, m, Len(m)) /\ c[Len(m) + 1] = y
      BY <2>5, <2>50 DEF OneMore
    <3>. QED BY <2>50, <3>1, IsAppend
  <2>7. Wording(Append(m, y)) = Wording(m) \o y.body
    BY <1>0, <2>50, WordingAppend
  <2>8. c \in Seq(P) /\ Len(c) = n + 1
    BY <2>1, <2>4, <2>6, AppendProperties
  <2>9. Wording(c) = more
    BY <2>1, <2>4, <2>6, <2>7, <2>20
  <2>. QED BY <2>2, <2>8, <2>9 DEF c, more, S, P
<1>3. Seq(T) \subseteq S
  <2>. HIDE DEF S
  <2>. QED BY <1>1, <1>2, SeqClosed
<1>4. b \in S
  BY <1>3
<1>5. ASSUME NEW i \in 1..Len(Told(b)) PROVE Told(b)[i].k # "fact"
  <2>1. DOMAIN b = 1..Len(b) /\ i \in DOMAIN b /\ b[i] \in T
    BY <1>4, LenProperties
  <2>2. Told(b)[i] = PieceOf(b[i])
    BY <2>1 DEF Told
  <2>. QED BY <2>1, <2>2, PieceOfIs
<1>. QED BY <1>4, <1>5

LEMMA TextOfPart ==
    ASSUME NEW T, NEW p \in Parts(T)
    PROVE  /\ ParseAnswerText(p) \in Seq(Pieces(T)) /\ Wording(ParseAnswerText(p)) = p.body
           /\ IF p.k = "fact" THEN ParseAnswerText(p) = <<p>>
              ELSE \A i \in 1..Len(ParseAnswerText(p)) : ParseAnswerText(p)[i].k # "fact"
<1>. DEFINE P == Pieces(T)
<1>1. p \in P /\ p.body \in Seq(T) /\ HasBodies(P, T)
  BY PieceTypes DEF HasBodies
<1>2. CASE p.k = "fact"
  <2>1. ParseAnswerText(p) = <<p>>
    BY <1>2 DEF ParseAnswerText
  <2>2. <<p>> = Append(<<>>, p) /\ <<>> \in Seq(P) /\ <<p>> \in Seq(P)
    BY <1>1
  <2>. HIDE DEF P
  <2>3. Wording(Append(<<>>, p)) = Wording(<<>>) \o p.body
    <3>. DEFINE none == <<>>
    <3>1. none \in Seq(P) /\ p \in P /\ HasBodies(P, T)
      BY <1>1, <2>2
    <3>. HIDE DEF none
    <3>2. Wording(Append(none, p)) = Wording(none) \o p.body
      BY <3>1, WordingAppend
    <3>. QED BY <3>2 DEF none
  <2>4. <<>> \o p.body = p.body
    BY <1>1, ConcatEmptySeq
  <2>5. Wording(<<p>>) = p.body
    BY <2>2, <2>3, <2>4, WordingEmpty
  <2>. QED BY <1>2, <2>1, <2>2, <2>5 DEF P
<1>3. CASE p.k # "fact"
  <2>1. ParseAnswerText(p) = Told(p.body)
    BY <1>3 DEF ParseAnswerText, Told, PieceOf
  <2>. QED BY <1>1, <1>3, <2>1, ToldIs
<1>. QED BY <1>2, <1>3

Cut(parts) == [i \in DOMAIN parts |-> ParseAnswerText(parts[i])]

LEMMA CutAppend ==
    ASSUME NEW T, NEW s \in Seq(Parts(T)), NEW p \in Parts(T), Cut(s) \in Seq(Seq(Pieces(T))), Len(Cut(s)) = Len(s)
    PROVE  Cut(Append(s, p)) = Append(Cut(s), ParseAnswerText(p))
<1>. DEFINE n == Len(s)
            more == Append(s, p)
            m == Cut(s)
            y == ParseAnswerText(p)
            c == Cut(more)
            Y == Seq(Pieces(T))
<1>1. n \in Nat /\ DOMAIN s = 1..n /\ m \in Seq(Y) /\ Len(m) = n
  BY LenProperties
<1>2. more \in Seq(Parts(T)) /\ Len(more) = n + 1 /\ more[n + 1] = p /\ \A i \in 1..n : more[i] = s[i]
  BY AppendProperties
<1>. HIDE DEF more
<1>3. DOMAIN more = 1..(n + 1)
  BY <1>2, LenProperties
<1>4. y \in Y
  BY TextOfPart
<1>5. c = [i \in 1..(n + 1) |-> c[i]] /\ c[n + 1] = y /\ \A i \in 1..n : c[i] = m[i]
  BY <1>1, <1>2, <1>3 DEF Cut
<1>. HIDE DEF c, m, y, n, Y
<1>6. OneMore(c, m, Len(m)) /\ c[Len(m) + 1] = y
  BY <1>1, <1>5 DEF OneMore
<1>7. c = Append(m, y)
  BY <1>1, <1>4, <1>6, IsAppend
<1>. QED BY <1>7 DEF c, m, y, more

\* The answer's pieces say what its parts say, and have as many facts.
LEMMA AnswerIs ==
    ASSUME NEW T, NEW parts \in Seq(Parts(T))
    PROVE  /\ FlattenSeq(Cut(parts)) \in Seq(Pieces(T)) /\ Wording(FlattenSeq(Cut(parts))) = Wording(parts)
           /\ Cardinality(FactsOf(FlattenSeq(Cut(parts)))) = Cardinality(FactsOf(parts))
<1>. DEFINE P == Pieces(T)
            Q == Parts(T)
            S == {s \in Seq(Q) : /\ Cut(s) \in Seq(Seq(P)) /\ Len(Cut(s)) = Len(s)
                                 /\ FlattenSeq(Cut(s)) \in Seq(P) /\ Wording(FlattenSeq(Cut(s))) = Wording(s)
                                 /\ Cardinality(FactsOf(FlattenSeq(Cut(s)))) = Cardinality(FactsOf(s))}
<1>0. HasBodies(P, T) /\ HasBodies(Q, T) /\ Q \subseteq P
  BY PieceTypes
<1>1. <<>> \in S
  <2>1. Cut(<<>>) = <<>>
    BY DEF Cut
  <2>2. <<>> \in Seq(P) /\ <<>> \in Seq(Q) /\ <<>> \in Seq(Seq(P))
    OBVIOUS
  <2>. HIDE DEF P, Q
  <2>. QED BY <2>1, <2>2, FlattenEmpty
<1>2. ASSUME NEW s \in Seq(Q), NEW p \in Q, s \in S PROVE Append(s, p) \in S
  <2>. DEFINE more == Append(s, p)
              y == ParseAnswerText(p)
              f == FlattenSeq(Cut(s))
              g == FlattenSeq(Cut(more))
  <2>1. Cut(s) \in Seq(Seq(P)) /\ Len(Cut(s)) = Len(s) /\ f \in Seq(P) /\ Wording(f) = Wording(s)
        /\ Cardinality(FactsOf(f)) = Cardinality(FactsOf(s))
    BY <1>2
  <2>2. /\ y \in Seq(P) /\ Wording(y) = p.body
        /\ IF p.k = "fact" THEN y = <<p>> ELSE \A i \in 1..Len(y) : y[i].k # "fact"
    BY TextOfPart
  <2>3. Cut(more) = Append(Cut(s), y)
    BY <2>1, CutAppend
  <2>4. more \in Seq(Q) /\ Len(more) = Len(s) + 1
    BY AppendProperties
  <2>. HIDE DEF S, P, Q, y
  <2>. DEFINE u == Cut(s)
  <2>5. u \in Seq(Seq(P)) /\ y \in Seq(P) /\ Cut(more) = Append(u, y) /\ Len(u) = Len(s)
    BY <2>1, <2>2, <2>3
  <2>. HIDE DEF u
  <2>6. Append(u, y) \in Seq(Seq(P)) /\ Len(Append(u, y)) = Len(u) + 1
    BY <2>5, AppendProperties
  <2>7. FlattenSeq(Append(u, y)) = FlattenSeq(u) \o y
    BY <2>5, FlattenAppend
  <2>8. g = f \o y
    BY <2>5, <2>7 DEF u
  <2>. HIDE DEF f, g
  <2>9. g \in Seq(P)
    BY <2>1, <2>2, <2>8, ConcatProperties
  <2>10. Wording(f \o y) = Wording(f) \o Wording(y)
    <3>1. HasBodies(P, T) /\ f \in Seq(P) /\ y \in Seq(P)
      BY <1>0, <2>1, <2>2
    <3>. QED BY <3>1, WordingConcat
  <2>11. Wording(Append(s, p)) = Wording(s) \o p.body
    <3>1. HasBodies(Q, T)
      BY <1>0
    <3>. QED BY <3>1, WordingAppend
  <2>12. Wording(g) = Wording(more)
    BY <2>1, <2>2, <2>8, <2>10, <2>11
  <2>13. Cardinality(FactsOf(Append(s, p))) = Cardinality(FactsOf(s)) + (IF p.k = "fact" THEN 1 ELSE 0)
         /\ Cardinality(FactsOf(s)) \in Nat
    BY FactsAppend
  <2>14. Cardinality(FactsOf(g)) = Cardinality(FactsOf(f)) + (IF p.k = "fact" THEN 1 ELSE 0)
    <3>1. CASE p.k = "fact"
      <4>1. f \in Seq(P) /\ p \in P
        BY <1>0, <2>1
      <4>2. g = Append(f, p)
        <5>1. Append(f, p) = f \o <<p>>
          BY <4>1, AppendIsConcat
        <5>. QED BY <2>2, <2>8, <3>1, <5>1
      <4>3. Cardinality(FactsOf(Append(f, p))) = Cardinality(FactsOf(f)) + (IF p.k = "fact" THEN 1 ELSE 0)
        BY <4>1, FactsAppend
      <4>. QED BY <4>2, <4>3
    <3>2. CASE p.k # "fact"
      <4>1. f \in Seq(P) /\ y \in Seq(P) /\ \A i \in 1..Len(y) : y[i].k # "fact"
        BY <2>1, <2>2, <3>2
      <4>2. FactsOf(f \o y) = FactsOf(f)
        BY <4>1, FactsConcat
      <4>. QED BY <2>1, <2>8, <2>13, <3>2, <4>2
    <3>. QED BY <3>1, <3>2
  <2>15. Cardinality(FactsOf(g)) = Cardinality(FactsOf(more))
    BY <2>1, <2>13, <2>14
  <2>16. Cut(more) \in Seq(Seq(P)) /\ Len(Cut(more)) = Len(more)
    BY <2>4, <2>5, <2>6
  <2>. QED BY <2>4, <2>9, <2>12, <2>15, <2>16 DEF S, g
<1>3. Seq(Q) \subseteq S
  <2>. HIDE DEF S, Q
  <2>. QED BY <1>1, <1>2, SeqClosed
<1>4. parts \in S
  BY <1>3
<1>. QED BY <1>4

\* The tokens that the repair can leave.
Marks == {"text", "hole", "open", "close"}
AllMarks(T) == \A k \in T : k.t \in Marks
Left(tokens) == {k \in ToSet(tokens) : k.t \in Marks} \cup {[t |-> "text", s |-> k.value.s] : k \in ToSet(tokens)}

LEMMA RepairedIs ==
    ASSUME NEW tokens, IsTokens(tokens)
    PROVE  Repaired(tokens) \in Seq(Left(tokens)) /\ AllMarks(Left(tokens))
<1>. DEFINE X == Left(tokens)
            fix == [i \in DOMAIN tokens |->
                     IF tokens[i].t # "broken" THEN <<tokens[i]>>
                     ELSE IF tokens[i].value = Missing THEN <<>> ELSE <<[t |-> "text", s |-> tokens[i].value.s]>>]
<1>1. Len(tokens) \in Nat /\ DOMAIN tokens = 1..Len(tokens)
  BY LenProperties DEF IsTokens
<1>2. \A i \in DOMAIN tokens : tokens[i] \in ToSet(tokens) /\ IsToken(tokens[i])
  BY DEF IsTokens, ToSet
<1>3. ASSUME NEW i \in DOMAIN tokens PROVE fix[i] \in Seq(X)
  <2>1. CASE tokens[i].t # "broken"
    <3>1. tokens[i] \in X
      BY <1>2, <2>1 DEF Left, IsToken, Marks
    <3>. QED BY <2>1, <3>1
  <2>2. CASE tokens[i].t = "broken" /\ tokens[i].value = Missing
    BY <2>2
  <2>3. CASE tokens[i].t = "broken" /\ tokens[i].value # Missing
    <3>. DEFINE k == [t |-> "text", s |-> tokens[i].value.s]
    <3>1. k \in X
      BY <1>2 DEF Left
    <3>2. fix[i] = <<k>>
      BY <2>3
    <3>. HIDE DEF k, X
    <3>. QED BY <3>1, <3>2
  <2>. QED BY <2>1, <2>2, <2>3
<1>4. fix \in [1..Len(tokens) -> Seq(X)]
  <2>1. fix = [i \in 1..Len(tokens) |-> fix[i]]
    BY <1>1
  <2>. HIDE DEF fix
  <2>. QED BY <1>1, <1>3, <2>1
<1>5. Repaired(tokens) = FlattenSeq(fix)
  BY DEF Repaired
<1>. HIDE DEF fix, X
<1>6. fix \in Seq(Seq(X))
  BY <1>1, <1>4
<1>7. FlattenSeq(fix) \in Seq(X)
  BY <1>6, FlattenIs
<1>8. AllMarks(Left(tokens))
  <2>1. ASSUME NEW k \in Left(tokens) PROVE k.t \in Marks
    <3>1. CASE k \in ToSet(tokens) /\ k.t \in Marks
      BY <3>1
    <3>2. CASE k \in {[t |-> "text", s |-> j.value.s] : j \in ToSet(tokens)}
      <4>1. PICK j \in ToSet(tokens) : k = [t |-> "text", s |-> j.value.s]
        BY <3>2
      <4>. QED BY <4>1 DEF Marks
    <3>. QED BY <3>1, <3>2 DEF Left
  <2>. QED BY <2>1 DEF AllMarks
<1>. QED BY <1>5, <1>7, <1>8 DEF X

\* What the parser's loop holds between two tokens.
Loop(T) == {a \in [depth : Nat, nested : BOOLEAN, tag : T \cup {Missing}, inner : Seq(T), parts : Seq(Parts(T))] :
               a.depth > 0 => a.tag \in T}

LEMMA ProseType ==
    ASSUME NEW T, NEW b \in Seq(T)
    PROVE  Prose(b) \in Seq(Parts(T)) /\ Wording(Prose(b)) = b /\ \A i \in 1..Len(Prose(b)) : Prose(b)[i].k # "fact"
<1>1. CASE b = <<>>
  <2>1. Prose(b) = <<>> /\ Len(<<>>) = 0 /\ 1..0 = {} /\ <<>> \in Seq(Parts(T))
    BY <1>1 DEF Prose
  <2>. QED BY <1>1, <2>1, WordingEmpty
<1>2. CASE b # <<>>
  <2>. DEFINE p == [k |-> "prose", body |-> b]
              P == Parts(T)
              none == <<>>
  <2>1. p \in P /\ p.body = b /\ p.k # "fact" /\ HasBodies(P, T)
    BY PieceTypes DEF Parts
  <2>2. Prose(b) = <<p>>
    BY <1>2 DEF Prose
  <2>. HIDE DEF p, P
  <2>3. <<p>> \in Seq(P) /\ Len(<<p>>) = 1 /\ \A i \in 1..1 : <<p>>[i].k # "fact"
    BY <2>1
  <2>4. none \in Seq(P) /\ <<p>> = Append(none, p) /\ <<>> \o b = b
    BY <2>1, ConcatEmptySeq
  <2>5. Wording(none) = <<>>
    BY WordingEmpty
  <2>. HIDE DEF none
  <2>6. Wording(Append(none, p)) = Wording(none) \o p.body
    <3>1. HasBodies(P, T) /\ none \in Seq(P) /\ p \in P
      BY <2>1, <2>4
    <3>. QED BY <3>1, WordingAppend
  <2>. QED BY <2>1, <2>2, <2>3, <2>4, <2>5, <2>6 DEF P
<1>. QED BY <1>1, <1>2

LEMMA FactType ==
    ASSUME NEW T, NEW x \in T, NEW b \in Seq(T)
    PROVE  Fact(x, b) \in Parts(T) /\ Fact(x, b).body = b /\ Fact(x, b).k = "fact"
BY DEF Fact, Parts

LEMMA LoopStep ==
    ASSUME NEW T, AllMarks(T), NEW a \in Loop(T), NEW k \in T
    PROVE  TagStep(a, k) \in Loop(T)
<1>. DEFINE b == TagStep(a, k)
            F == {"depth", "nested", "tag", "inner", "parts"}
<1>1. /\ a.depth \in Nat /\ a.nested \in BOOLEAN /\ a.tag \in T \cup {Missing} /\ a.inner \in Seq(T)
      /\ a.parts \in Seq(Parts(T)) /\ (a.depth > 0 => a.tag \in T)
      /\ a \in [depth : Nat, nested : BOOLEAN, tag : T \cup {Missing}, inner : Seq(T), parts : Seq(Parts(T))]
  BY DEF Loop
<1>2. Append(a.inner, k) \in Seq(T) /\ <<k>> \in Seq(T) /\ <<>> \in Seq(T)
  BY <1>1
<1>3. \A c \in Seq(T) : a.parts \o Prose(c) \in Seq(Parts(T))
  <2>. TAKE c \in Seq(T)
  <2>1. Prose(c) \in Seq(Parts(T))
    BY ProseType
  <2>. QED BY <1>1, <2>1, ConcatProperties
<1>4. a.tag \in T => Append(a.parts, Fact(a.tag, a.inner)) \in Seq(Parts(T))
  BY <1>1, FactType, AppendProperties
<1>. DEFINE P == Seq(Parts(T))
            I == Seq(T)
            closed == IF a.depth > 1 THEN a.parts
                      ELSE IF ~a.nested /\ WellFormed(a.tag) THEN Append(a.parts, Fact(a.tag, a.inner))
                      ELSE a.parts \o Prose(a.inner)
<1>5. a.depth > 0 => closed \in P
  BY <1>1, <1>3, <1>4
<1>6. a.parts \o Prose(<<k>>) \in P /\ Append(a.inner, k) \in I /\ <<>> \in I
  BY <1>2, <1>3
<1>7. CASE k.t = "open" /\ a.depth = 0
  <2>. DEFINE q == <<>>
  <2>1. b = [a EXCEPT !.tag = k, !.inner = q, !.nested = FALSE, !.depth = 1]
    BY <1>7 DEF TagStep
  <2>2. q \in I /\ k \in T /\ 1 \in Nat
    OBVIOUS
  <2>. HIDE DEF b, q
  <2>3. b \in [depth : Nat, nested : BOOLEAN, tag : T \cup {Missing}, inner : Seq(T), parts : Seq(Parts(T))] /\ b.tag = k
    BY <1>1, <2>1, <2>2
  <2>. QED BY <2>3 DEF Loop, b
<1>8. CASE k.t = "open" /\ a.depth # 0
  <2>1. b = [a EXCEPT !.nested = TRUE, !.depth = a.depth + 1]
    BY <1>8 DEF TagStep
  <2>2. a.depth + 1 \in Nat /\ a.tag \in T
    BY <1>1, <1>8
  <2>. HIDE DEF b
  <2>. QED BY <1>1, <2>1, <2>2 DEF Loop, b
<1>9. CASE k.t = "close" /\ a.depth = 0
  BY <1>9 DEF TagStep
<1>10. CASE k.t = "close" /\ a.depth # 0
  <2>1. b = [a EXCEPT !.depth = a.depth - 1, !.parts = closed]
    BY <1>10 DEF TagStep
  <2>2. a.depth - 1 \in Nat /\ a.tag \in T /\ closed \in P
    BY <1>1, <1>5, <1>10
  <2>. HIDE DEF b, closed
  <2>. QED BY <1>1, <2>1, <2>2 DEF Loop, b
<1>11. CASE k.t \notin {"open", "close"} /\ a.depth > 0
  <2>1. b = [a EXCEPT !.inner = Append(a.inner, k)]
    BY <1>11 DEF TagStep
  <2>. DEFINE q == Append(a.inner, k)
  <2>2. q \in I
    BY <1>6
  <2>. HIDE DEF b, q
  <2>3. b = [a EXCEPT !.inner = q]
    BY <2>1 DEF q
  <2>. QED BY <1>1, <2>2, <2>3 DEF Loop, b
<1>12. CASE k.t \notin {"open", "close"} /\ ~(a.depth > 0)
  <2>. DEFINE q == a.parts \o Prose(<<k>>)
  <2>1. b = [a EXCEPT !.parts = q]
    BY <1>12 DEF TagStep
  <2>2. q \in P
    BY <1>6
  <2>. HIDE DEF b, q
  <2>. QED BY <1>1, <2>1, <2>2 DEF Loop, b
<1>. QED BY <1>7, <1>8, <1>9, <1>10, <1>11, <1>12

\* The loop's states, one behind each token.
TagBody(r, g) == [n \in 0..Len(r) |-> IF n = 0 THEN NoTag ELSE TagStep(g[n - 1], r[n])]
TagRun(r) == CHOOSE g : g = TagBody(r, g)

LEMMA TagRunIs ==
    ASSUME NEW T, AllMarks(T), NEW r \in Seq(T)
    PROVE  /\ TagRun(r)[0] = NoTag /\ NoTag \in Loop(T)
           /\ \A n \in 1..Len(r) : TagRun(r)[n] = TagStep(TagRun(r)[n - 1], r[n])
           /\ \A n \in 0..Len(r) : TagRun(r)[n] \in Loop(T)
<1>. DEFINE N == Len(r)
            V == Loop(T)
            step == [i \in 1..N |-> [a \in V |-> TagStep(a, r[i])]]
<1>1. N \in Nat /\ \A i \in 1..N : r[i] \in T
  BY LenProperties, ElementOfSeq
<1>2. NoTag \in V
  <2>1. <<>> \in Seq(T) /\ <<>> \in Seq(Parts(T)) /\ 0 \in Nat /\ ~(0 > 0)
    OBVIOUS
  <2>. QED BY <2>1 DEF NoTag, Loop
<1>3. step \in [1..N -> [V -> V]]
  <2>1. ASSUME NEW i \in 1..N, NEW a \in V PROVE TagStep(a, r[i]) \in V
    BY <1>1, LoopStep
  <2>. HIDE DEF V
  <2>. QED BY <2>1
<1>4. \A i \in 1..N : \A a \in V : step[i][a] = TagStep(a, r[i])
  OBVIOUS
<1>. HIDE DEF step, V, N
<1>5. Recursions(V, N, NoTag, step) # {}
  BY <1>1, <1>2, <1>3, RecursionExists, Zenon
<1>6. PICK f \in [0..N -> V] : f[0] = NoTag /\ \A i \in 1..N : f[i] = step[i][f[i - 1]]
  BY <1>5 DEF Recursions
<1>7. ASSUME NEW i \in 1..N PROVE f[i] = TagStep(f[i - 1], r[i])
  <2>1. i - 1 \in 0..N /\ f[i - 1] \in V
    BY <1>1
  <2>. QED BY <1>4, <1>6, <2>1
<1>8. f = TagBody(r, f)
  <2>1. \A n \in 0..N : n = 0 \/ n \in 1..N
    BY <1>1
  <2>. QED BY <1>6, <1>7, <2>1 DEF TagBody, N
<1>. DEFINE g == TagRun(r)
<1>9. g = TagBody(r, g)
  BY <1>8 DEF TagRun
<1>. HIDE DEF g
<1>10. g[0] = NoTag /\ \A n \in 1..N : g[n] = TagStep(g[n - 1], r[n])
  <2>1. 0 \in 0..N /\ \A n \in 1..N : n \in 0..N /\ n # 0
    BY <1>1
  <2>2. \A n \in 0..N : g[n] = IF n = 0 THEN NoTag ELSE TagStep(g[n - 1], r[n])
    BY <1>9 DEF TagBody, N
  <2>. QED BY <2>1, <2>2
<1>. DEFINE S == {n \in Nat : n <= N => g[n] \in V}
<1>11. 0 \in S
  BY <1>2, <1>10
<1>12. ASSUME NEW n \in Nat, n \in S PROVE n + 1 \in S
  <2>. SUFFICES ASSUME n + 1 <= N PROVE g[n + 1] \in V
    OBVIOUS
  <2>1. n + 1 \in 1..N /\ (n + 1) - 1 = n /\ g[n] \in V
    BY <1>1, <1>12
  <2>2. g[n + 1] = TagStep(g[n], r[n + 1])
    BY <1>10, <2>1
  <2>3. r[n + 1] \in T /\ g[n] \in Loop(T)
    BY <1>1, <2>1 DEF V
  <2>4. TagStep(g[n], r[n + 1]) \in Loop(T)
    BY <2>3, LoopStep
  <2>. QED BY <2>2, <2>4 DEF V
<1>13. Nat \subseteq S
  <2>. HIDE DEF S
  <2>. QED BY <1>11, <1>12, NatClosed
<1>14. \A n \in 0..N : g[n] \in V
  BY <1>1, <1>13
<1>. QED BY <1>2, <1>10, <1>14 DEF g, V, N

----------------------------------------------------------------------------
(* Lists and counts that grow with a prefix.                                 *)

LEMMA RankInOrder ==
    ASSUME NEW T \in SUBSET Nat, IsFiniteSet(T), NEW n \in 1..Cardinality(T)
    PROVE  InOrder(T)[n] \in T /\ Rank(T, InOrder(T)[n]) = n /\ \A i \in T : Rank(T, i) = n => i = InOrder(T)[n]
<1>1. \E i \in T : Rank(T, i) = n
  BY RankExists
<1>2. InOrder(T)[n] = CHOOSE i \in T : Rank(T, i) = n
  BY DEF InOrder, Rank
<1>3. InOrder(T)[n] \in T /\ Rank(T, InOrder(T)[n]) = n
  BY <1>1, <1>2
<1>4. ASSUME NEW i \in T, NEW k \in T, Rank(T, i) = n, Rank(T, k) = n, i # k PROVE FALSE
  <2>1. i \in Nat /\ k \in Nat
    OBVIOUS
  <2>2. i < k \/ k < i
    BY <1>4, <2>1
  <2>3. CASE i < k
    <3>1. Rank(T, i) < Rank(T, k)
      BY <2>3, RankGrows
    <3>. QED BY <1>4, <3>1
  <2>4. CASE k < i
    <3>1. Rank(T, k) < Rank(T, i)
      BY <2>4, RankGrows
    <3>. QED BY <1>4, <3>1
  <2>. QED BY <2>2, <2>3, <2>4
<1>. QED BY <1>3, <1>4

\* What is kept of a prefix grows at its end.
LEMMA KeptGrows ==
    ASSUME NEW n \in Nat, NEW K \in Indices(n), NEW items
    PROVE  KeptOf(items, K \cup {n + 1}) = Append(KeptOf(items, K), items[n + 1])
<1>. DEFINE S == K \cup {n + 1}
            c == Cardinality(K)
            I == InOrder(K)
            J == InOrder(S)
<1>1. K \in SUBSET (1..n) /\ IsFiniteSet(K) /\ K \in SUBSET Nat /\ n + 1 \notin K
  <2>1. K \in SUBSET (1..n)
    BY DEF Indices
  <2>2. 1 \in Int /\ n \in Int
    OBVIOUS
  <2>3. IsFiniteSet(1..n)
    BY <2>2, FS_Interval
  <2>4. IsFiniteSet(K)
    BY <2>1, <2>3, FS_Subset
  <2>. QED BY <2>1, <2>4
<1>2. IsFiniteSet(S) /\ S \in SUBSET Nat /\ c \in Nat /\ Cardinality(S) = c + 1
  <2>1. IsFiniteSet(S) /\ Cardinality(S) = c + 1 /\ c \in Nat
    BY <1>1, FS_AddElement, FS_CardinalityType
  <2>. QED BY <1>1, <2>1
<1>3. ASSUME NEW i \in K PROVE Rank(S, i) = Rank(K, i)
  <2>1. ~(n + 1 <= i)
    BY <1>1
  <2>2. {j \in S : j <= i} = {j \in K : j <= i}
    BY <2>1
  <2>. QED BY <2>2 DEF Rank
<1>4. Rank(S, n + 1) = c + 1
  <2>1. \A j \in S : j <= n + 1
    BY <1>1
  <2>2. {j \in S : j <= n + 1} = S
    <3>. HIDE DEF S
    <3>. QED BY <2>1
  <2>. QED BY <1>2, <2>2 DEF Rank
<1>. HIDE DEF S, c
<1>5. J[c + 1] = n + 1
  <2>1. c + 1 \in 1..Cardinality(S) /\ n + 1 \in S
    BY <1>2 DEF S
  <2>. QED BY <1>2, <1>4, <2>1, RankInOrder
<1>6. ASSUME NEW m \in 1..c PROVE J[m] = I[m]
  <2>1. m \in 1..Cardinality(S) /\ m \in 1..Cardinality(K)
    BY <1>2 DEF c
  <2>2. I[m] \in K /\ Rank(K, I[m]) = m
    BY <1>1, <2>1, RankInOrder
  <2>3. I[m] \in S /\ Rank(S, I[m]) = m
    BY <1>3, <2>2 DEF S
  <2>4. \A i \in S : Rank(S, i) = m => i = J[m]
    BY <1>2, <2>1, RankInOrder
  <2>. QED BY <2>3, <2>4
<1>7. DOMAIN I = 1..c /\ DOMAIN J = 1..(c + 1)
  BY <1>2 DEF InOrder, c
<1>. DEFINE k == KeptOf(items, K)
            l == KeptOf(items, S)
            x == items[n + 1]
            Y == ToSet(k) \cup {x}
<1>8. k = [m \in 1..c |-> k[m]] /\ \A m \in 1..c : k[m] = items[I[m]]
  BY <1>7 DEF KeptOf
<1>9. l = [m \in 1..(c + 1) |-> l[m]] /\ \A m \in 1..(c + 1) : l[m] = items[J[m]]
  BY <1>7 DEF KeptOf
<1>10. \A m \in 1..c : l[m] = k[m]
  <2>1. \A m \in 1..c : m \in 1..(c + 1)
    BY <1>2
  <2>. HIDE DEF k, l, I, J
  <2>. QED BY <1>6, <1>8, <1>9, <2>1
<1>11. l[c + 1] = x
  <2>1. c + 1 \in 1..(c + 1)
    BY <1>2
  <2>. HIDE DEF l, J
  <2>. QED BY <1>5, <1>9, <2>1
<1>. HIDE DEF k, l, x
<1>12. k \in Seq(ToSet(k)) /\ Len(k) = c
  BY <1>2, <1>8, ListIsSeq
<1>13. k \in Seq(Y) /\ x \in Y
  <2>1. ToSet(k) \subseteq Y
    OBVIOUS
  <2>2. \A A, B : A \subseteq B => Seq(A) \subseteq Seq(B)
    OBVIOUS
  <2>. HIDE DEF Y
  <2>3. k \in Seq(Y)
    BY <1>12, <2>1, <2>2
  <2>. QED BY <2>3 DEF Y
<1>. HIDE DEF Y
<1>14. OneMore(l, k, Len(k)) /\ l[Len(k) + 1] = x
  BY <1>9, <1>10, <1>11, <1>12 DEF OneMore
<1>15. l = Append(k, x)
  BY <1>13, <1>14, IsAppend
<1>. QED BY <1>15 DEF l, k, x, S

----------------------------------------------------------------------------
(* How deep the tags are.                                                    *)

DepthStep(d, k) == IF k.t = "open" THEN d + 1 ELSE IF k.t = "close" /\ d > 0 THEN d - 1 ELSE d
DepthBody(r, n, g) == [m \in 0..n |-> IF m = 0 THEN 0
                                      ELSE IF r[m].t = "open" THEN g[m - 1] + 1
                                      ELSE IF r[m].t = "close" /\ g[m - 1] > 0 THEN g[m - 1] - 1
                                      ELSE g[m - 1]]
Depths(r, n) == CHOOSE g : g = DepthBody(r, n, g)

LEMMA DepthsAre ==
    ASSUME NEW r, NEW n \in Nat
    PROVE  /\ Depths(r, n)[0] = 0 /\ \A m \in 1..n : Depths(r, n)[m] = DepthStep(Depths(r, n)[m - 1], r[m])
           /\ \A m \in 0..n : Depths(r, n)[m] \in Nat
<1>. DEFINE step == [i \in 1..n |-> [d \in Nat |-> DepthStep(d, r[i])]]
<1>1. ASSUME NEW d \in Nat, NEW k PROVE DepthStep(d, k) \in Nat
  BY DEF DepthStep
<1>2. step \in [1..n -> [Nat -> Nat]]
  BY <1>1
<1>3. \A i \in 1..n : \A d \in Nat : step[i][d] = DepthStep(d, r[i])
  OBVIOUS
<1>. HIDE DEF step
<1>4. Recursions(Nat, n, 0, step) # {}
  <2>1. 0 \in Nat
    OBVIOUS
  <2>. QED BY <1>2, <2>1, RecursionExists, Zenon
<1>5. PICK f \in [0..n -> Nat] : f[0] = 0 /\ \A i \in 1..n : f[i] = step[i][f[i - 1]]
  BY <1>4 DEF Recursions
<1>6. ASSUME NEW i \in 1..n PROVE f[i] = DepthStep(f[i - 1], r[i])
  <2>1. i - 1 \in 0..n /\ f[i - 1] \in Nat
    OBVIOUS
  <2>. QED BY <1>3, <1>5, <2>1
<1>7. f = DepthBody(r, n, f)
  <2>1. \A m \in 0..n : m = 0 \/ m \in 1..n
    OBVIOUS
  <2>. QED BY <1>5, <1>6, <2>1 DEF DepthBody, DepthStep
<1>. DEFINE g == Depths(r, n)
<1>8. g = DepthBody(r, n, g)
  BY <1>7 DEF Depths
<1>. HIDE DEF g
<1>9. g[0] = 0 /\ \A m \in 1..n : g[m] = DepthStep(g[m - 1], r[m])
  <2>1. 0 \in 0..n /\ \A m \in 1..n : m \in 0..n /\ m # 0
    OBVIOUS
  <2>2. \A m \in 0..n : g[m] = IF m = 0 THEN 0 ELSE DepthStep(g[m - 1], r[m])
    BY <1>8 DEF DepthBody, DepthStep
  <2>. QED BY <2>1, <2>2
<1>. DEFINE S == {m \in Nat : m <= n => g[m] \in Nat}
<1>10. 0 \in S
  BY <1>9
<1>11. ASSUME NEW m \in Nat, m \in S PROVE m + 1 \in S
  <2>. SUFFICES ASSUME m + 1 <= n PROVE g[m + 1] \in Nat
    OBVIOUS
  <2>1. m + 1 \in 1..n /\ (m + 1) - 1 = m /\ g[m] \in Nat
    BY <1>11
  <2>. QED BY <1>1, <1>9, <2>1
<1>12. Nat \subseteq S
  <2>. HIDE DEF S
  <2>. QED BY <1>10, <1>11, NatClosed
<1>13. \A m \in 0..n : g[m] \in Nat
  BY <1>12
<1>. QED BY <1>9, <1>13 DEF g

LEMMA DepthIs ==
    ASSUME NEW r, NEW n \in Nat
    PROVE  /\ DepthAfter(r, n) \in Nat /\ DepthAfter(r, 0) = 0
           /\ DepthAfter(r, n + 1) = DepthStep(DepthAfter(r, n), r[n + 1])
<1>. DEFINE f == Depths(r, n)
            h == Depths(r, n + 1)
<1>0. \A m \in Nat : DepthAfter(r, m) = Depths(r, m)[m]
  BY DEF DepthAfter, Depths, DepthBody
<1>1. f[0] = 0 /\ (\A m \in 1..n : f[m] = DepthStep(f[m - 1], r[m])) /\ f[n] \in Nat
  BY DepthsAre
<1>2. h[0] = 0 /\ \A m \in 1..(n + 1) : h[m] = DepthStep(h[m - 1], r[m])
  <2>1. n + 1 \in Nat
    OBVIOUS
  <2>. HIDE DEF h
  <2>. QED BY <2>1, DepthsAre DEF h
<1>3. Depths(r, 0)[0] = 0
  <2>1. 0 \in Nat
    OBVIOUS
  <2>. QED BY <2>1, DepthsAre
<1>. HIDE DEF f, h
<1>. DEFINE S == {m \in Nat : m <= n => h[m] = f[m]}
<1>4. 0 \in S
  BY <1>1, <1>2
<1>5. ASSUME NEW m \in Nat, m \in S PROVE m + 1 \in S
  <2>. SUFFICES ASSUME m + 1 <= n PROVE h[m + 1] = f[m + 1]
    OBVIOUS
  <2>1. m + 1 \in 1..n /\ m + 1 \in 1..(n + 1) /\ (m + 1) - 1 = m /\ h[m] = f[m]
    BY <1>5
  <2>. QED BY <1>1, <1>2, <2>1
<1>6. n \in S
  <2>. HIDE DEF S
  <2>. QED BY <1>4, <1>5, NatClosed
<1>7. h[n] = f[n] /\ n + 1 \in 1..(n + 1) /\ (n + 1) - 1 = n
  BY <1>6
<1>8. h[n + 1] = DepthStep(f[n], r[n + 1])
  BY <1>2, <1>7
<1>. QED BY <1>0, <1>1, <1>3, <1>8 DEF f, h

\* The depth is one from a fact's opener up to its closer.
LEMMA SpanDepth ==
    ASSUME NEW r, NEW i \in Nat \ {0}, NEW n \in Nat, IsFactSpan(r, i, n + 1)
    PROVE  i <= n /\ \A m \in i..n : DepthAfter(r, m) = 1
<1>1. i < n + 1 /\ r[i].t = "open" /\ DepthAfter(r, i - 1) = 0 /\ \A k \in (i + 1)..n : IsText(r[k])
  <2>1. (n + 1) - 1 = n
    OBVIOUS
  <2>. QED BY <2>1 DEF IsFactSpan
<1>2. DepthAfter(r, i) = 1
  <2>1. i - 1 \in Nat /\ (i - 1) + 1 = i
    OBVIOUS
  <2>2. DepthAfter(r, i) = DepthStep(DepthAfter(r, i - 1), r[i])
    BY <2>1, DepthIs
  <2>. QED BY <1>1, <2>2 DEF DepthStep
<1>. DEFINE S == {m \in Nat : m \in i..n => DepthAfter(r, m) = 1}
<1>3. 0 \in S
  OBVIOUS
<1>4. ASSUME NEW m \in Nat, m \in S PROVE m + 1 \in S
  <2>. SUFFICES ASSUME m + 1 \in i..n PROVE DepthAfter(r, m + 1) = 1
    OBVIOUS
  <2>1. CASE m + 1 = i
    BY <1>2, <2>1
  <2>2. CASE m + 1 # i
    <3>1. m \in i..n /\ m + 1 \in (i + 1)..n
      BY <2>2
    <3>2. DepthAfter(r, m) = 1 /\ IsText(r[m + 1])
      BY <1>1, <1>4, <3>1
    <3>3. DepthAfter(r, m + 1) = DepthStep(DepthAfter(r, m), r[m + 1])
      BY DepthIs
    <3>. QED BY <3>2, <3>3 DEF DepthStep, IsText
  <2>. QED BY <2>1, <2>2
<1>5. Nat \subseteq S
  <2>. HIDE DEF S
  <2>. QED BY <1>3, <1>4, NatClosed
<1>6. \A m \in i..n : m \in Nat
  OBVIOUS
<1>. QED BY <1>1, <1>5, <1>6

Spans(r, n) == {s \in (1..n) \X (1..n) : IsFactSpan(r, s[1], s[2])}
SpansTo(r, n) == {i \in 1..n : IsFactSpan(r, i, n + 1)}

LEMMA SpansAre ==
    ASSUME NEW r, NEW n \in Nat
    PROVE  /\ IsFiniteSet(Spans(r, n)) /\ Cardinality(Spans(r, n)) \in Nat
           /\ Spans(r, n + 1) = Spans(r, n) \cup {<<i, n + 1>> : i \in SpansTo(r, n)}
<1>1. IsFiniteSet(Spans(r, n))
  <2>1. 1 \in Int /\ n \in Int
    OBVIOUS
  <2>2. IsFiniteSet(1..n)
    BY <2>1, FS_Interval
  <2>3. IsFiniteSet((1..n) \X (1..n))
    BY <2>2, FS_Product
  <2>4. Spans(r, n) \subseteq (1..n) \X (1..n)
    BY DEF Spans
  <2>. QED BY <2>3, <2>4, FS_Subset
<1>2. ASSUME NEW s \in Spans(r, n + 1) PROVE s \in Spans(r, n) \cup {<<i, n + 1>> : i \in SpansTo(r, n)}
  <2>1. s = <<s[1], s[2]>> /\ s[1] \in 1..(n + 1) /\ s[2] \in 1..(n + 1) /\ IsFactSpan(r, s[1], s[2]) /\ s[1] < s[2]
    BY DEF Spans, IsFactSpan
  <2>2. s[1] \in 1..n
    BY <2>1
  <2>3. CASE s[2] = n + 1
    <3>1. s[1] \in SpansTo(r, n)
      BY <2>1, <2>2, <2>3 DEF SpansTo
    <3>. QED BY <2>1, <2>3, <3>1
  <2>4. CASE s[2] # n + 1
    <3>1. s[2] \in 1..n
      BY <2>1, <2>4
    <3>2. s \in (1..n) \X (1..n)
      BY <2>1, <2>2, <3>1
    <3>. QED BY <2>1, <3>2 DEF Spans
  <2>. QED BY <2>3, <2>4
<1>3. ASSUME NEW s \in Spans(r, n) PROVE s \in Spans(r, n + 1)
  <2>1. s \in (1..n) \X (1..n) /\ IsFactSpan(r, s[1], s[2])
    BY DEF Spans
  <2>2. s \in (1..(n + 1)) \X (1..(n + 1))
    BY <2>1
  <2>. QED BY <2>1, <2>2 DEF Spans
<1>4. ASSUME NEW i \in SpansTo(r, n) PROVE <<i, n + 1>> \in Spans(r, n + 1)
  <2>. DEFINE s == <<i, n + 1>>
  <2>1. i \in 1..n /\ IsFactSpan(r, i, n + 1) /\ s[1] = i /\ s[2] = n + 1
    BY DEF SpansTo
  <2>2. s \in (1..(n + 1)) \X (1..(n + 1))
    BY <2>1
  <2>. HIDE DEF s
  <2>3. s \in Spans(r, n + 1)
    BY <2>1, <2>2 DEF Spans
  <2>. QED BY <2>3 DEF s
<1>. QED BY <1>1, <1>2, <1>3, <1>4, FS_CardinalityType

LEMMA SpansCount ==
    ASSUME NEW r, NEW n \in Nat
    PROVE  /\ SpansTo(r, n) = {} => Cardinality(Spans(r, n + 1)) = Cardinality(Spans(r, n))
           /\ \A o : SpansTo(r, n) = {o} => Cardinality(Spans(r, n + 1)) = Cardinality(Spans(r, n)) + 1
<1>. DEFINE A == Spans(r, n)
            B == Spans(r, n + 1)
<1>1. IsFiniteSet(A) /\ B = A \cup {<<i, n + 1>> : i \in SpansTo(r, n)}
  BY SpansAre
<1>2. \A i : <<i, n + 1>> \notin A
  <2>. SUFFICES ASSUME NEW i, <<i, n + 1>> \in A PROVE FALSE
    OBVIOUS
  <2>1. n + 1 \in 1..n
    BY DEF Spans
  <2>. QED BY <2>1
<1>. HIDE DEF A, B
<1>3. ASSUME SpansTo(r, n) = {} PROVE Cardinality(B) = Cardinality(A)
  <2>1. B = A
    BY <1>1, <1>3
  <2>. QED BY <2>1
<1>4. ASSUME NEW o, SpansTo(r, n) = {o} PROVE Cardinality(B) = Cardinality(A) + 1
  <2>. DEFINE x == <<o, n + 1>>
  <2>1. B = A \cup {x} /\ x \notin A
    BY <1>1, <1>2, <1>4
  <2>. HIDE DEF x
  <2>. QED BY <1>1, <2>1, FS_AddElement
<1>. QED BY <1>3, <1>4 DEF A, B

\* The tag that is open behind n tokens was opened by token o.
OpenedAt(r, n, a, o) ==
    /\ a.tag = r[o] /\ r[o].t = "open" /\ DepthAfter(r, o - 1) = 0 /\ \A m \in o..n : DepthAfter(r, m) >= 1
    /\ IF a.nested THEN \E m \in (o + 1)..n : r[m].t = "open"
       ELSE a.depth = 1 /\ \A m \in (o + 1)..n : IsText(r[m])

Behind(r, n) == {i \in 1..n : IsText(r[i])}
SoFar(a) == Wording(a.parts) \o (IF a.depth > 0 THEN a.inner ELSE <<>>)

Worded(r, n, a) ==
    /\ a.depth = DepthAfter(r, n)
    /\ SoFar(a) = KeptOf(r, Behind(r, n))
    /\ a.depth > 0 => \E o \in 1..n : OpenedAt(r, n, a, o)
    /\ Cardinality(FactsOf(a.parts)) = Cardinality(Spans(r, n))

LEMMA BehindGrows ==
    ASSUME NEW T, NEW r \in Seq(T), NEW n \in Nat
    PROVE  /\ Behind(r, n) \in Indices(n)
           /\ KeptOf(r, Behind(r, n + 1)) = IF IsText(r[n + 1]) THEN Append(KeptOf(r, Behind(r, n)), r[n + 1])
                                            ELSE KeptOf(r, Behind(r, n))
<1>1. Behind(r, n) \in Indices(n)
  BY DEF Behind, Indices
<1>2. 1..(n + 1) = (1..n) \cup {n + 1}
  OBVIOUS
<1>3. Behind(r, n + 1) = IF IsText(r[n + 1]) THEN Behind(r, n) \cup {n + 1} ELSE Behind(r, n)
  BY <1>2 DEF Behind
<1>4. KeptOf(r, Behind(r, n) \cup {n + 1}) = Append(KeptOf(r, Behind(r, n)), r[n + 1])
  BY <1>1, KeptGrows
<1>. QED BY <1>1, <1>3, <1>4

LEMMA ConcatAppend ==
    ASSUME NEW T, NEW u \in Seq(T), NEW v \in Seq(T), NEW x \in T
    PROVE  u \o Append(v, x) = Append(u \o v, x) /\ u \o <<x>> = Append(u, x) /\ u \o <<>> = u
<1>1. Append(v, x) = v \o <<x>> /\ Append(u, x) = u \o <<x>> /\ <<x>> \in Seq(T) /\ u \o v \in Seq(T)
  BY AppendIsConcat, ConcatProperties
<1>2. Append(u \o v, x) = (u \o v) \o <<x>>
  BY <1>1, AppendIsConcat
<1>. DEFINE w == <<x>>
<1>3. w \in Seq(T)
  BY <1>1
<1>. HIDE DEF w
<1>4. (u \o v) \o w = u \o (v \o w)
  BY <1>3, ConcatAssociative, SMTT(30)
<1>. QED BY <1>1, <1>2, <1>4, ConcatEmptySeq DEF w

LEMMA NoSpanTo ==
    ASSUME NEW r, NEW n \in Nat, r[n + 1].t # "close" \/ DepthAfter(r, n) # 1
    PROVE  Cardinality(Spans(r, n + 1)) = Cardinality(Spans(r, n))
<1>1. ASSUME NEW i \in SpansTo(r, n) PROVE FALSE
  <2>1. i \in Nat \ {0} /\ IsFactSpan(r, i, n + 1) /\ i \in 1..n
    BY DEF SpansTo
  <2>2. r[n + 1].t = "close"
    BY <2>1 DEF IsFactSpan
  <2>3. DepthAfter(r, n) = 1
    <3>1. n \in i..n
      BY <2>1
    <3>2. \A m \in i..n : DepthAfter(r, m) = 1
      BY <2>1, SpanDepth
    <3>. QED BY <3>1, <3>2
  <2>. QED BY <2>2, <2>3
<1>2. SpansTo(r, n) = {}
  BY <1>1
<1>. QED BY <1>2, SpansCount

\* A closer at depth one ends the tag that was opened last, and makes a fact of
\* it when the tag is complete and nothing was opened inside.
LEMMA SpanCloses ==
    ASSUME NEW r, NEW n \in Nat, NEW a, NEW o \in 1..n, OpenedAt(r, n, a, o), a.nested \in BOOLEAN, r[n + 1].t = "close"
    PROVE  Cardinality(Spans(r, n + 1)) = Cardinality(Spans(r, n)) + (IF ~a.nested /\ WellFormed(a.tag) THEN 1 ELSE 0)
<1>1. /\ a.tag = r[o] /\ r[o].t = "open" /\ DepthAfter(r, o - 1) = 0 /\ \A m \in o..n : DepthAfter(r, m) >= 1
      /\ a.nested => \E m \in (o + 1)..n : r[m].t = "open"
      /\ ~a.nested => \A m \in (o + 1)..n : IsText(r[m])
  BY DEF OpenedAt
<1>2. ASSUME NEW i \in SpansTo(r, n) PROVE i = o
  <2>1. i \in Nat \ {0} /\ IsFactSpan(r, i, n + 1) /\ i \in 1..n
    BY DEF SpansTo
  <2>2. \A m \in i..n : DepthAfter(r, m) = 1
    BY <2>1, SpanDepth
  <2>3. CASE i < o
    <3>1. o - 1 \in i..n
      BY <2>1, <2>3
    <3>. QED BY <1>1, <2>2, <3>1
  <2>4. CASE o < i
    <3>1. i - 1 \in o..n /\ DepthAfter(r, i - 1) = 0
      BY <2>1, <2>4 DEF IsFactSpan
    <3>2. DepthAfter(r, i - 1) >= 1
      BY <1>1, <3>1
    <3>. QED BY <3>1, <3>2
  <2>. QED BY <2>1, <2>3, <2>4
<1>3. (n + 1) - 1 = n /\ o < n + 1
  OBVIOUS
<1>4. o \in SpansTo(r, n) <=> ~a.nested /\ WellFormed(a.tag)
  <2>1. o \in SpansTo(r, n) <=> IsFactSpan(r, o, n + 1)
    BY DEF SpansTo
  <2>2. IsFactSpan(r, o, n + 1) <=> WellFormed(r[o]) /\ \A m \in (o + 1)..n : IsText(r[m])
    BY <1>1, <1>3 DEF IsFactSpan
  <2>3. a.nested => ~\A m \in (o + 1)..n : IsText(r[m])
    BY <1>1 DEF IsText
  <2>. QED BY <1>1, <2>1, <2>2, <2>3
<1>5. Cardinality(Spans(r, n)) \in Nat
  BY SpansAre
<1>6. CASE ~a.nested /\ WellFormed(a.tag)
  <2>1. SpansTo(r, n) = {o}
    BY <1>2, <1>4, <1>6
  <2>. QED BY <1>6, <2>1, SpansCount
<1>7. CASE ~(~a.nested /\ WellFormed(a.tag))
  <2>1. SpansTo(r, n) = {}
    BY <1>2, <1>4, <1>7
  <2>2. Cardinality(Spans(r, n + 1)) = Cardinality(Spans(r, n))
    BY <2>1, SpansCount
  <2>. QED BY <1>5, <1>7, <2>2
<1>. QED BY <1>6, <1>7

LEMMA PartsSay ==
    ASSUME NEW T, NEW ps \in Seq(Parts(T)), NEW b \in Seq(T)
    PROVE  /\ Wording(ps) \in Seq(T) /\ Wording(ps \o Prose(b)) = Wording(ps) \o b
           /\ FactsOf(ps \o Prose(b)) = FactsOf(ps)
           /\ \A x \in T : /\ Wording(Append(ps, Fact(x, b))) = Wording(ps) \o b
                           /\ Cardinality(FactsOf(Append(ps, Fact(x, b)))) = Cardinality(FactsOf(ps)) + 1
<1>. DEFINE P == Parts(T)
            q == Prose(b)
<1>1. q \in Seq(P) /\ Wording(q) = b /\ \A i \in 1..Len(q) : q[i].k # "fact"
  BY ProseType
<1>2. HasBodies(P, T) /\ ps \in Seq(P)
  BY PieceTypes
<1>. HIDE DEF q, P
<1>3. Wording(ps \o q) = Wording(ps) \o Wording(q)
  <2>1. HasBodies(P, T) /\ ps \in Seq(P) /\ q \in Seq(P)
    BY <1>1, <1>2
  <2>. QED BY <2>1, WordingConcat
<1>30. Wording(ps) \in Seq(T)
  BY <1>2, WordingConcat
<1>4. FactsOf(ps \o q) = FactsOf(ps)
  BY <1>1, <1>2, FactsConcat
<1>5. ASSUME NEW x \in T
      PROVE  /\ Wording(Append(ps, Fact(x, b))) = Wording(ps) \o b
             /\ Cardinality(FactsOf(Append(ps, Fact(x, b)))) = Cardinality(FactsOf(ps)) + 1
  <2>. DEFINE f == Fact(x, b)
  <2>1. f \in P /\ f.body = b /\ f.k = "fact"
    BY FactType DEF P
  <2>. HIDE DEF f
  <2>2. HasBodies(P, T) /\ ps \in Seq(P) /\ f \in P
    BY <1>2, <2>1
  <2>3. Wording(Append(ps, f)) = Wording(ps) \o f.body
    BY <2>2, WordingAppend
  <2>4. Cardinality(FactsOf(Append(ps, f))) = Cardinality(FactsOf(ps)) + (IF f.k = "fact" THEN 1 ELSE 0)
    BY <2>2, FactsAppend
  <2>. QED BY <2>1, <2>3, <2>4 DEF f
<1>. QED BY <1>1, <1>3, <1>30, <1>4, <1>5 DEF q

LEMMA WordStep ==
    ASSUME NEW T, AllMarks(T), NEW r \in Seq(T), NEW n \in Nat, n + 1 <= Len(r), NEW a \in Loop(T), Worded(r, n, a)
    PROVE  Worded(r, n + 1, TagStep(a, r[n + 1]))
<1>. DEFINE k == r[n + 1]
            b == TagStep(a, k)
            W == Wording(a.parts)
            kept == KeptOf(r, Behind(r, n))
            c == Cardinality(Spans(r, n))
            F == {"depth", "nested", "tag", "inner", "parts"}
<1>1. /\ a.depth \in Nat /\ a.nested \in BOOLEAN /\ a.inner \in Seq(T) /\ a.parts \in Seq(Parts(T))
      /\ (a.depth > 0 => a.tag \in T) /\ DOMAIN a = F
  BY DEF Loop
<1>2. k \in T /\ k.t \in Marks
  <2>1. n + 1 \in 1..Len(r)
    BY LenProperties
  <2>. QED BY <2>1, ElementOfSeq DEF AllMarks
<1>3. /\ a.depth = DepthAfter(r, n) /\ SoFar(a) = kept /\ (a.depth > 0 => \E o \in 1..n : OpenedAt(r, n, a, o))
      /\ Cardinality(FactsOf(a.parts)) = c
  BY DEF Worded
<1>4. DepthAfter(r, n + 1) = DepthStep(a.depth, k)
  BY <1>3, DepthIs
<1>5. KeptOf(r, Behind(r, n + 1)) = IF IsText(k) THEN Append(kept, k) ELSE kept
  BY BehindGrows
<1>6. W \in Seq(T) /\ (a.depth > 0 => kept = W \o a.inner) /\ (a.depth = 0 => kept = W)
  <2>1. W \in Seq(T)
    BY <1>1, PartsSay
  <2>2. W \o <<>> = W
    BY <2>1, ConcatEmptySeq
  <2>. QED BY <1>1, <1>3, <2>1, <2>2 DEF SoFar
<1>7. c \in Nat
  BY SpansAre
<1>8. \A m \in 1..(n + 1) : m = n + 1 \/ m \in 1..n
  OBVIOUS
<1>. HIDE DEF k, kept, c, b
<1>10. CASE k.t = "open" /\ a.depth = 0
  <2>. DEFINE q == <<>>
  <2>1. b = [a EXCEPT !.tag = k, !.inner = q, !.nested = FALSE, !.depth = 1]
    BY <1>10 DEF TagStep, b
  <2>. HIDE DEF q
  <2>2. b.depth = 1 /\ b.tag = k /\ b.inner = q /\ b.nested = FALSE /\ b.parts = a.parts
    BY <1>1, <2>1
  <2>3. SoFar(b) = W \o <<>> /\ W \o <<>> = W
    BY <1>6, <2>2, ConcatEmptySeq DEF SoFar, q
  <2>4. Cardinality(Spans(r, n + 1)) = c
    <3>1. k.t # "close"
      BY <1>10
    <3>. QED BY <3>1, NoSpanTo DEF c, k
  <2>5. OpenedAt(r, n + 1, b, n + 1)
    <3>1. DepthAfter(r, n + 1) = 1 /\ (n + 1) - 1 = n /\ (n + 1)..(n + 1) = {n + 1} /\ ((n + 1) + 1)..(n + 1) = {}
      BY <1>4, <1>10 DEF DepthStep
    <3>2. \A m \in (n + 1)..(n + 1) : DepthAfter(r, m) >= 1
      BY <3>1
    <3>3. DepthAfter(r, (n + 1) - 1) = 0
      BY <1>3, <1>10, <3>1
    <3>. QED BY <1>10, <2>2, <3>1, <3>2, <3>3 DEF OpenedAt, k
  <2>6. b.depth = DepthAfter(r, n + 1)
    BY <1>4, <1>10, <2>2 DEF DepthStep
  <2>7. SoFar(b) = KeptOf(r, Behind(r, n + 1))
    <3>1. ~IsText(k)
      BY <1>10 DEF IsText
    <3>. QED BY <1>5, <1>6, <1>10, <2>3, <3>1
  <2>8. n + 1 \in 1..(n + 1)
    OBVIOUS
  <2>. QED BY <1>3, <2>2, <2>4, <2>5, <2>6, <2>7, <2>8 DEF Worded, b, k
<1>11. CASE k.t = "open" /\ a.depth # 0
  <2>1. b = [a EXCEPT !.nested = TRUE, !.depth = a.depth + 1]
    BY <1>11 DEF TagStep, b
  <2>2. b.depth = a.depth + 1 /\ b.tag = a.tag /\ b.inner = a.inner /\ b.nested = TRUE /\ b.parts = a.parts
    BY <1>1, <2>1
  <2>3. a.depth > 0 /\ b.depth > 0
    BY <1>1, <1>11, <2>2
  <2>4. Cardinality(Spans(r, n + 1)) = c
    <3>1. k.t # "close"
      BY <1>11
    <3>. QED BY <3>1, NoSpanTo DEF c, k
  <2>5. PICK o \in 1..n : OpenedAt(r, n, a, o)
    BY <1>3, <2>3
  <2>6. b.depth = DepthAfter(r, n + 1)
    BY <1>4, <1>11, <2>2 DEF DepthStep
  <2>7. OpenedAt(r, n + 1, b, o)
    <3>1. \A m \in o..(n + 1) : DepthAfter(r, m) >= 1
      <4>1. \A m \in o..(n + 1) : m = n + 1 \/ m \in o..n
        OBVIOUS
      <4>2. DepthAfter(r, n + 1) >= 1
        BY <1>1, <2>2, <2>6
      <4>. QED BY <2>5, <4>1, <4>2 DEF OpenedAt
    <3>2. n + 1 \in (o + 1)..(n + 1) /\ r[n + 1].t = "open"
      BY <1>11 DEF k
    <3>. QED BY <2>2, <2>5, <3>1, <3>2 DEF OpenedAt
  <2>8. SoFar(b) = KeptOf(r, Behind(r, n + 1))
    <3>1. ~IsText(k)
      BY <1>11 DEF IsText
    <3>. QED BY <1>5, <1>6, <2>2, <2>3, <3>1 DEF SoFar
  <2>9. o \in 1..(n + 1)
    OBVIOUS
  <2>. QED BY <1>3, <2>2, <2>4, <2>6, <2>7, <2>8, <2>9 DEF Worded, b, k
<1>12. CASE k.t = "close" /\ a.depth = 0
  <2>1. b = a
    BY <1>12 DEF TagStep, b
  <2>2. Cardinality(Spans(r, n + 1)) = c
    <3>1. DepthAfter(r, n) # 1
      BY <1>3, <1>12
    <3>. QED BY <3>1, NoSpanTo DEF c
  <2>3. b.depth = DepthAfter(r, n + 1) /\ ~(b.depth > 0)
    BY <1>4, <1>12, <2>1 DEF DepthStep
  <2>4. SoFar(b) = KeptOf(r, Behind(r, n + 1))
    <3>1. ~IsText(k)
      BY <1>12 DEF IsText
    <3>. QED BY <1>3, <1>5, <2>1, <3>1
  <2>. QED BY <1>3, <2>1, <2>2, <2>3, <2>4 DEF Worded, b, k
<1>13. CASE k.t = "close" /\ a.depth > 1
  <2>1. b = [a EXCEPT !.depth = a.depth - 1, !.parts = a.parts]
    BY <1>1, <1>13 DEF TagStep, b
  <2>2. b.depth = a.depth - 1 /\ b.tag = a.tag /\ b.inner = a.inner /\ b.nested = a.nested /\ b.parts = a.parts
    BY <1>1, <2>1
  <2>3. a.depth > 0 /\ b.depth > 0 /\ b.depth >= 1
    BY <1>1, <1>13, <2>2
  <2>4. Cardinality(Spans(r, n + 1)) = c
    <3>1. DepthAfter(r, n) # 1
      BY <1>1, <1>3, <1>13
    <3>. QED BY <3>1, NoSpanTo DEF c
  <2>5. PICK o \in 1..n : OpenedAt(r, n, a, o)
    BY <1>3, <2>3
  <2>6. b.depth = DepthAfter(r, n + 1)
    BY <1>1, <1>4, <1>13, <2>2 DEF DepthStep
  <2>7. OpenedAt(r, n + 1, b, o)
    <3>1. \A m \in o..(n + 1) : DepthAfter(r, m) >= 1
      <4>1. \A m \in o..(n + 1) : m = n + 1 \/ m \in o..n
        OBVIOUS
      <4>. QED BY <2>3, <2>5, <2>6, <4>1 DEF OpenedAt
    <3>2. a.nested
      BY <1>13, <2>5 DEF OpenedAt
    <3>3. \E m \in (o + 1)..(n + 1) : r[m].t = "open"
      <4>1. PICK m \in (o + 1)..n : r[m].t = "open"
        BY <2>5, <3>2 DEF OpenedAt
      <4>2. m \in (o + 1)..(n + 1)
        OBVIOUS
      <4>. QED BY <4>1, <4>2
    <3>. QED BY <2>2, <2>5, <3>1, <3>2, <3>3 DEF OpenedAt
  <2>8. SoFar(b) = KeptOf(r, Behind(r, n + 1))
    <3>1. ~IsText(k)
      BY <1>13 DEF IsText
    <3>. QED BY <1>5, <1>6, <2>2, <2>3, <3>1 DEF SoFar
  <2>9. o \in 1..(n + 1)
    OBVIOUS
  <2>. QED BY <1>3, <2>2, <2>4, <2>6, <2>7, <2>8, <2>9 DEF Worded, b, k
<1>14. CASE k.t = "close" /\ a.depth = 1
  <2>. DEFINE isFact == ~a.nested /\ WellFormed(a.tag)
              q == IF isFact THEN Append(a.parts, Fact(a.tag, a.inner)) ELSE a.parts \o Prose(a.inner)
  <2>0. a.tag \in T /\ ~(a.depth > 1) /\ a.depth # 0 /\ a.depth > 0
    BY <1>1, <1>14
  <2>1. b = [a EXCEPT !.depth = a.depth - 1, !.parts = q]
    BY <1>14, <2>0 DEF TagStep, b
  <2>2. Wording(q) = W \o a.inner /\ Cardinality(FactsOf(q)) = c + (IF isFact THEN 1 ELSE 0)
    <3>. DEFINE ps == a.parts
                i == a.inner
                x == a.tag
    <3>1. ps \in Seq(Parts(T)) /\ i \in Seq(T) /\ x \in T
      BY <1>1, <2>0
    <3>. HIDE DEF ps, i, x
    <3>2. /\ Wording(ps \o Prose(i)) = Wording(ps) \o i /\ FactsOf(ps \o Prose(i)) = FactsOf(ps)
          /\ Wording(Append(ps, Fact(x, i))) = Wording(ps) \o i
          /\ Cardinality(FactsOf(Append(ps, Fact(x, i)))) = Cardinality(FactsOf(ps)) + 1
      BY ONLY <3>1, PartsSay
    <3>3. CASE isFact
      BY <1>3, <3>2, <3>3 DEF ps, i, x
    <3>4. CASE ~isFact
      <4>1. q = ps \o Prose(i) /\ W = Wording(ps) /\ i = a.inner /\ Cardinality(FactsOf(ps)) = c
        BY <1>3, <3>4 DEF ps, i
      <4>2. c + 0 = c
        BY <1>7
      <4>. HIDE DEF q, W, isFact
      <4>. QED BY <3>2, <3>4, <4>1, <4>2
    <3>. QED BY <3>3, <3>4
  <2>. HIDE DEF q
  <2>3. b.depth = 0 /\ b.parts = q
    BY <1>1, <1>14, <2>1
  <2>4. PICK o \in 1..n : OpenedAt(r, n, a, o)
    BY <1>3, <2>0
  <2>5. Cardinality(Spans(r, n + 1)) = c + (IF isFact THEN 1 ELSE 0)
    BY <1>1, <1>14, <2>4, SpanCloses DEF c, k
  <2>6. b.depth = DepthAfter(r, n + 1) /\ ~(b.depth > 0)
    BY <1>4, <1>14, <2>3 DEF DepthStep
  <2>7. SoFar(b) = KeptOf(r, Behind(r, n + 1))
    <3>1. ~IsText(k)
      BY <1>14 DEF IsText
    <3>2. kept = W \o a.inner /\ kept \in Seq(T)
      BY <1>1, <1>6, <2>0, ConcatProperties
    <3>3. kept \o <<>> = kept
      BY <3>2, ConcatEmptySeq
    <3>. QED BY <1>5, <2>2, <2>3, <2>6, <3>1, <3>2, <3>3 DEF SoFar
  <2>. QED BY <2>2, <2>3, <2>5, <2>6, <2>7 DEF Worded, b, k
<1>15. CASE IsText(k) /\ a.depth > 0
  <2>. DEFINE q == Append(a.inner, k)
  <2>1. b = [a EXCEPT !.inner = q]
    BY <1>15 DEF TagStep, b, IsText
  <2>2. W \o q = Append(W \o a.inner, k)
    <3>1. W \in Seq(T) /\ a.inner \in Seq(T) /\ k \in T
      BY <1>1, <1>2, <1>6
    <3>2. W \o Append(a.inner, k) = Append(W \o a.inner, k)
      <4>. DEFINE i == a.inner  x == k
      <4>1. W \in Seq(T) /\ i \in Seq(T) /\ x \in T
        BY <3>1
      <4>. HIDE DEF i, x
      <4>2. W \o Append(i, x) = Append(W \o i, x)
        BY <4>1, ConcatAppend
      <4>. QED BY <4>2 DEF i, x
    <3>. QED BY <3>2
  <2>. HIDE DEF q
  <2>3. b.depth = a.depth /\ b.tag = a.tag /\ b.inner = q /\ b.nested = a.nested /\ b.parts = a.parts
    BY <1>1, <2>1
  <2>4. Cardinality(Spans(r, n + 1)) = c
    <3>1. k.t # "close"
      BY <1>15 DEF IsText
    <3>. QED BY <3>1, NoSpanTo DEF c, k
  <2>5. PICK o \in 1..n : OpenedAt(r, n, a, o)
    BY <1>3, <1>15
  <2>6. b.depth = DepthAfter(r, n + 1) /\ b.depth > 0
    BY <1>4, <1>15, <2>3 DEF DepthStep, IsText
  <2>7. OpenedAt(r, n + 1, b, o)
    <3>1. \A m \in o..(n + 1) : DepthAfter(r, m) >= 1
      <4>1. \A m \in o..(n + 1) : m = n + 1 \/ m \in o..n
        OBVIOUS
      <4>2. DepthAfter(r, n + 1) >= 1
        BY <1>1, <2>3, <2>6
      <4>. QED BY <2>5, <4>1, <4>2 DEF OpenedAt
    <3>2. a.nested => \E m \in (o + 1)..(n + 1) : r[m].t = "open"
      <4>. SUFFICES ASSUME a.nested PROVE \E m \in (o + 1)..(n + 1) : r[m].t = "open"
        OBVIOUS
      <4>1. PICK m \in (o + 1)..n : r[m].t = "open"
        BY <2>5 DEF OpenedAt
      <4>2. m \in (o + 1)..(n + 1)
        OBVIOUS
      <4>. QED BY <4>1, <4>2
    <3>3. ~a.nested => a.depth = 1 /\ \A m \in (o + 1)..(n + 1) : IsText(r[m])
      <4>1. \A m \in (o + 1)..(n + 1) : m = n + 1 \/ m \in (o + 1)..n
        OBVIOUS
      <4>. QED BY <1>15, <2>5, <4>1 DEF OpenedAt, k
    <3>. QED BY <2>3, <2>5, <3>1, <3>2, <3>3 DEF OpenedAt
  <2>8. SoFar(b) = KeptOf(r, Behind(r, n + 1))
    BY <1>5, <1>6, <1>15, <2>2, <2>3, <2>6 DEF SoFar
  <2>9. o \in 1..(n + 1)
    OBVIOUS
  <2>. QED BY <1>3, <2>3, <2>4, <2>6, <2>7, <2>8, <2>9 DEF Worded, b, k
<1>16. CASE IsText(k) /\ ~(a.depth > 0)
  <2>. DEFINE q == a.parts \o Prose(<<k>>)
  <2>0. a.depth = 0
    BY <1>1, <1>16
  <2>1. b = [a EXCEPT !.parts = q]
    BY <1>16 DEF TagStep, b, IsText
  <2>2. Wording(q) = Append(W, k) /\ FactsOf(q) = FactsOf(a.parts) /\ Append(W, k) \o <<>> = Append(W, k)
    <3>. DEFINE ps == a.parts
                i == <<k>>
    <3>1. ps \in Seq(Parts(T)) /\ i \in Seq(T)
      BY <1>1, <1>2
    <3>2. W \o i = Append(W, k) /\ Append(W, k) \in Seq(T)
      BY <1>2, <1>6, ConcatAppend, AppendProperties
    <3>. HIDE DEF ps, i
    <3>3. /\ Wording(ps \o Prose(i)) = Wording(ps) \o i /\ FactsOf(ps \o Prose(i)) = FactsOf(ps)
      BY <3>1, PartsSay
    <3>. QED BY <3>2, <3>3, ConcatEmptySeq DEF ps, i
  <2>. HIDE DEF q
  <2>3. b.depth = 0 /\ b.parts = q
    BY <1>1, <2>0, <2>1
  <2>4. Cardinality(Spans(r, n + 1)) = c
    <3>1. k.t # "close"
      BY <1>16 DEF IsText
    <3>. QED BY <3>1, NoSpanTo DEF c, k
  <2>5. b.depth = DepthAfter(r, n + 1) /\ ~(b.depth > 0)
    BY <1>4, <1>16, <2>0, <2>3 DEF DepthStep, IsText
  <2>6. SoFar(b) = KeptOf(r, Behind(r, n + 1))
    BY <1>5, <1>6, <1>16, <2>0, <2>2, <2>3, <2>5 DEF SoFar
  <2>. QED BY <1>3, <2>2, <2>3, <2>4, <2>5, <2>6 DEF Worded, b, k
<1>17. k.t \in {"open", "close"} \/ IsText(k)
  BY <1>2 DEF Marks, IsText
<1>18. a.depth = 0 \/ a.depth = 1 \/ a.depth > 1
  BY <1>1
<1>. QED BY <1>10, <1>11, <1>12, <1>13, <1>14, <1>15, <1>16, <1>17, <1>18 DEF b, k

\* The parser loses no wording, and its facts are the closed, complete tags.
LEMMA ParserKeeps ==
    ASSUME NEW tokens, IsTokens(tokens)
    PROVE  LET r == Repaired(tokens)
           IN  /\ ParseAnswer(tokens) \in Seq(Pieces(Left(tokens)))
               /\ Wording(ParseAnswer(tokens)) = KeptOf(r, Behind(r, Len(r)))
               /\ Cardinality(FactsOf(ParseAnswer(tokens))) = Cardinality(Spans(r, Len(r)))
<1>. DEFINE T == Left(tokens)
            r == Repaired(tokens)
            N == Len(r)
            run == TagRun(r)
            a == run[N]
            parts == IF a.depth > 0 THEN a.parts \o Prose(a.inner) ELSE a.parts
<1>1. AllMarks(T) /\ r \in Seq(T) /\ N \in Nat
  BY RepairedIs, LenProperties
<1>2. ParseClaimTags(tokens) = parts
  BY DEF ParseClaimTags, TagRun, TagBody
<1>3. ParseAnswer(tokens) = FlattenSeq(Cut(parts))
  BY <1>2 DEF ParseAnswer, Cut
<1>. HIDE DEF T, r, N
<1>4. /\ run[0] = NoTag /\ \A n \in 1..N : run[n] = TagStep(run[n - 1], r[n])
      /\ \A n \in 0..N : run[n] \in Loop(T)
  BY <1>1, TagRunIs DEF N
<1>. HIDE DEF run
<1>. DEFINE S == {n \in Nat : n <= N => Worded(r, n, run[n])}
<1>5. 0 \in S
  <2>1. NoTag.depth = 0 /\ NoTag.parts = <<>> /\ ~(0 > 0)
    BY DEF NoTag
  <2>2. DepthAfter(r, 0) = 0
    BY DepthIs
  <2>3. 1..0 = {}
    OBVIOUS
  <2>4. Behind(r, 0) = {} /\ Spans(r, 0) = {}
    BY <2>3 DEF Behind, Spans
  <2>5. InOrder({}) = <<>>
    <3>1. Cardinality({}) = 0
      BY FS_EmptySet
    <3>. QED BY <2>3, <3>1 DEF InOrder
  <2>6. KeptOf(r, {}) = <<>>
    <3>1. DOMAIN <<>> = {}
      OBVIOUS
    <3>. QED BY <2>5, <3>1 DEF KeptOf
  <2>7. SoFar(NoTag) = <<>>
    <3>1. <<>> \o <<>> = <<>>
      OBVIOUS
    <3>. QED BY <2>1, <3>1, WordingEmpty DEF SoFar
  <2>8. Worded(r, 0, NoTag)
    BY <2>1, <2>2, <2>4, <2>6, <2>7, WordingEmpty DEF Worded
  <2>. QED BY <1>4, <2>8
<1>6. ASSUME NEW n \in Nat, n \in S PROVE n + 1 \in S
  <2>. SUFFICES ASSUME n + 1 <= N PROVE Worded(r, n + 1, run[n + 1])
    OBVIOUS
  <2>1. n \in 0..N /\ n + 1 \in 1..N /\ (n + 1) - 1 = n /\ Worded(r, n, run[n])
    BY <1>1, <1>6
  <2>2. run[n] \in Loop(T) /\ run[n + 1] = TagStep(run[n], r[n + 1])
    BY <1>4, <2>1
  <2>3. n + 1 <= Len(r)
    BY DEF N
  <2>4. Worded(r, n + 1, TagStep(run[n], r[n + 1]))
    BY <1>1, <2>1, <2>2, <2>3, WordStep
  <2>. QED BY <2>2, <2>4
<1>7. N \in S
  <2>. HIDE DEF S
  <2>. QED BY <1>1, <1>5, <1>6, NatClosed
<1>8. Worded(r, N, a) /\ a \in Loop(T)
  BY <1>1, <1>4, <1>7
<1>. HIDE DEF a, S
<1>9. a.depth \in Nat /\ a.inner \in Seq(T) /\ a.parts \in Seq(Parts(T))
  BY <1>8 DEF Loop
<1>10. SoFar(a) = KeptOf(r, Behind(r, N)) /\ Cardinality(FactsOf(a.parts)) = Cardinality(Spans(r, N))
  BY <1>8 DEF Worded
<1>11. parts \in Seq(Parts(T)) /\ Wording(parts) = SoFar(a) /\ FactsOf(parts) = FactsOf(a.parts)
  <2>. DEFINE ps == a.parts
              i == a.inner
  <2>1. ps \in Seq(Parts(T)) /\ i \in Seq(T)
    BY <1>9
  <2>. HIDE DEF ps, i
  <2>2. Wording(ps) \in Seq(T) /\ Wording(ps \o Prose(i)) = Wording(ps) \o i /\ FactsOf(ps \o Prose(i)) = FactsOf(ps)
    BY <2>1, PartsSay
  <2>3. Wording(ps) \o <<>> = Wording(ps)
    BY <2>2, ConcatEmptySeq
  <2>4. ps \o Prose(i) \in Seq(Parts(T))
    BY <2>1, ProseType, ConcatProperties
  <2>5. CASE a.depth > 0
    BY <2>2, <2>4, <2>5 DEF SoFar, ps, i
  <2>6. CASE ~(a.depth > 0)
    BY <2>1, <2>3, <2>6 DEF SoFar, ps, i
  <2>. QED BY <2>5, <2>6
<1>. HIDE DEF parts
<1>12. /\ FlattenSeq(Cut(parts)) \in Seq(Pieces(T)) /\ Wording(FlattenSeq(Cut(parts))) = Wording(parts)
       /\ Cardinality(FactsOf(FlattenSeq(Cut(parts)))) = Cardinality(FactsOf(parts))
  BY <1>11, AnswerIs
<1>. QED BY <1>3, <1>10, <1>11, <1>12 DEF T, r, N

\* What the answer to a text must say: WordingSurvives, of one question.
LEMMA TextKept ==
    ASSUME NEW tokens, IsTokens(tokens)
    PROVE  LET r == Repaired(tokens)
               said == ParseAnswer(tokens)
               spans == {s \in (1..Len(r)) \X (1..Len(r)) : IsFactSpan(r, s[1], s[2])}
           IN  /\ FlattenSeq([i \in DOMAIN said |-> said[i].body])
                  = Rows(r, LAMBDA i : IsText(r[i]), LAMBDA i : r[i])
               /\ Cardinality({i \in DOMAIN said : said[i].k = "fact"}) = Cardinality(spans)
<1>. DEFINE r == Repaired(tokens)
            said == ParseAnswer(tokens)
<1>1. /\ Wording(said) = KeptOf(r, Behind(r, Len(r)))
      /\ Cardinality(FactsOf(said)) = Cardinality(Spans(r, Len(r)))
  BY ParserKeeps
<1>. HIDE DEF r, said
<1>2. Rows(r, LAMBDA i : IsText(r[i]), LAMBDA i : r[i]) = KeptOf(r, Behind(r, Len(r)))
  BY DEF Rows, KeptOf, Behind
<1>3. Wording(said) = FlattenSeq([i \in DOMAIN said |-> said[i].body])
  BY DEF Wording, BodiesOf
<1>4. FactsOf(said) = {i \in DOMAIN said : said[i].k = "fact"}
  BY DEF FactsOf
<1>5. Spans(r, Len(r)) = {s \in (1..Len(r)) \X (1..Len(r)) : IsFactSpan(r, s[1], s[2])}
  BY DEF Spans
<1>. QED BY <1>1, <1>2, <1>3, <1>4, <1>5 DEF r, said

----------------------------------------------------------------------------
(* A turn's evidence and its answer.                                         *)

\* A group's rows in the pinned version, with baseline b.
PinRows(g, b) == IF g = "workers" THEN WorkerRows[Pinned] ELSE AssignmentRows[b]

\* An item handed out: its handle is the registry's number of its record, and its
\* value is what the record held in the pinned version.
ItemOK(reg, g, x) ==
    /\ \E n \in 1..Len(reg.records[g]) : x.ev = <<g, n>> /\ reg.records[g][n] = x.record
    /\ \E b \in {1, 2} : x.record \in DOMAIN PinRows(g, b) /\ x.value = PinRows(g, b)[x.record]

ItemsOK(reg, g, items) == items \in Seq(ToSet(items)) /\ \A x \in ToSet(items) : ItemOK(reg, g, x)
RecordsIn(items) == {x.record : x \in ToSet(items)}

PageFields == {"group", "todo", "rows", "items", "truncated"}
PageOK(reg, p) ==
    /\ DOMAIN p = PageFields /\ p = [f \in PageFields |-> p[f]] /\ p.group \in Groups
    /\ \E b \in {1, 2} : p.rows = PinRows(p.group, b)
    /\ p.todo \in Seq(DOMAIN p.rows) /\ ItemsOK(reg, p.group, p.items)
    /\ ~p.truncated => ToSet(p.todo) \cup RecordsIn(p.items) = DOMAIN p.rows

ResultOK(reg, s) ==
    \/ s \in Calculations
    \/ /\ s.kind = "rows" /\ s.group \in Groups /\ s.version = Pinned /\ ItemsOK(reg, s.group, s.items)
       /\ (~s.truncated /\ s.group = "workers") => RecordsIn(s.items) = DOMAIN WorkerRows[Pinned]

RegistryType(reg) ==
    /\ DOMAIN reg = {"results", "records"} /\ reg = [f \in {"results", "records"} |-> reg[f]]
    /\ reg.records \in [Groups -> Seq(Nat)]

ReadsOK ==
    /\ world.version \in {1, 2} /\ world.baseline \in {1, 2} /\ world = [version |-> world.version, baseline |-> world.baseline]
    /\ RegistryType(registry)
    /\ tool = [t \in Threads |-> tool[t]] /\ \A t \in Threads : tool[t] = NoPage \/ PageOK(registry, tool[t])
    /\ sink \in Seq(ToSet(sink)) /\ \A s \in ToSet(sink) : ResultOK(registry, s)

\* What SupportedFactsAreRead says of one segment, and SupportedNumbersAreProven.
FactRead(snk, s) ==
    /\ Len(s.refs) = 1
    /\ LET ref == s.refs[1]
       IN  /\ ref.version = Pinned
           /\ \E n \in DOMAIN snk :
                /\ snk[n].kind = "rows" /\ snk[n].group = ref.group
                /\ \E x \in ToSet(snk[n].items) : x.record = ref.record /\ ValueMatches(x.value, s.value)
           /\ \E b \in DOMAIN AssignmentRows :
                LET rows == IF ref.group = "workers" THEN WorkerRows[Pinned] ELSE AssignmentRows[b]
                IN  ref.record \in DOMAIN rows /\ ValueMatches(rows[ref.record], s.value)

NumberProven(snk, s) ==
    \E n \in DOMAIN snk :
        /\ snk[n].kind = "calc" /\ snk[n].value = s.value /\ Len(s.refs) = snk[n].rows
        /\ (snk[n].rows = 0 => s.value = 0)
        /\ \A x \in ToSet(s.refs) : x.version = Pinned

SegmentFields == {"k", "body", "value", "failure", "refs", "mark"}
FactOK(snk, s) ==
    /\ DOMAIN s = SegmentFields /\ s = [f \in SegmentFields |-> s[f]] /\ s.k = "fact"
    /\ s.body \in Seq(ToSet(s.body))
    /\ s.failure = Missing => FactRead(snk, s)

SegmentOK(snk, s) ==
    \/ FactOK(snk, s)
    \/ s.k = "claim" /\ (s.failure = Missing => NumberProven(snk, s))
    \/ s.k = "prose"

PieceOK(p) == p.k \in {"fact", "hole", "prose"} /\ p.body \in Seq(ToSet(p.body))

AnswerOK ==
    /\ gate \in {"tools", "grounding", "checking", "done"}
    /\ pieces \in Seq(ToSet(pieces)) /\ \A p \in ToSet(pieces) : PieceOK(p)
    /\ segments \in Seq(ToSet(segments)) /\ \A s \in ToSet(segments) : SegmentOK(sink, s)
    /\ gate # "done" => \A s \in ToSet(segments) : s.k = "fact" => s.mark = NoScore

\* The facts worth a question, and what one request about some of them costs.
Worth(segs) == {i \in 1..Len(segs) : segs[i].k = "fact" /\ segs[i].failure = Missing /\ ~Bare(segs[i])}
CostBody(segs, b, g) == [n \in 0..Len(b) |-> IF n = 0 THEN 0 ELSE g[n - 1] + (Len(segs[b[n]].body) + 1)]
Costs(segs, b) == CHOOSE g : g = CostBody(segs, b, g)
CostOf(segs, b) == Costs(segs, b)[Len(b)]

ScoredIn(scores, i) == \E x \in scores : x[1] = i
NoneLost(W, scores, batches) == \A i \in W : ScoredIn(scores, i) \/ \E b \in ToSet(batches) : i \in ToSet(b)

Marked(s, c) ==
    s.k = "fact" => /\ s.mark.score # Missing => s.failure = Missing
                    /\ s.mark.flagged => s.mark.score # Missing
                    /\ c.mode = "off" => s.mark = NoScore

CheckerFields == {"mode", "batches", "scores", "skipped", "error"}
CheckerOK ==
    /\ DOMAIN checker = CheckerFields /\ checker = [f \in CheckerFields |-> checker[f]]
    /\ gate \in {"tools", "grounding"} =>
         checker.batches = <<>> /\ checker.scores = {} /\ checker.skipped = 0 /\ checker.error = Missing
    /\ gate = "checking" =>
         /\ checker.mode # "off" /\ checker.batches \in Seq(Seq(Worth(segments)))
         /\ \A b \in ToSet(checker.batches) : CostOf(segments, b) <= TokenBudget
         /\ checker.scores \in SUBSET (Worth(segments) \X {0, 100})
         /\ (checker.error = Missing /\ checker.skipped = 0) =>
              NoneLost(Worth(segments), checker.scores, checker.batches)
    /\ gate = "done" =>
         /\ checker.batches = <<>>
         /\ \A s \in ToSet(segments) : Marked(s, checker)
         /\ (checker.error = Missing /\ checker.mode # "off" /\ checker.skipped = 0) =>
              \A i \in Worth(segments) : ScoredIn(checker.scores, i)

AskedOK ==
    /\ asked \in {[kind |-> "none"]} \cup TagQuestions
    /\ answered => asked \in TagQuestions /\ answer = ParseAnswer(asked.tokens)

GroundInv == ReadsOK /\ AnswerOK /\ CheckerOK /\ AskedOK

----------------------------------------------------------------------------
(* The wording check's requests.                                             *)

Weight(segs, i) == Len(segs[i].body) + 1
Weighed(segs, I) == \A i \in I : Weight(segs, i) \in Nat

LEMMA CostsAre ==
    ASSUME NEW segs, NEW I, Weighed(segs, I), NEW b \in Seq(I)
    PROVE  /\ Costs(segs, b)[0] = 0 /\ \A n \in 1..Len(b) : Costs(segs, b)[n] = Costs(segs, b)[n - 1] + Weight(segs, b[n])
           /\ \A n \in 0..Len(b) : Costs(segs, b)[n] \in Nat
<1>. DEFINE N == Len(b)
            step == [i \in 1..N |-> [d \in Nat |-> d + Weight(segs, b[i])]]
<1>1. N \in Nat /\ \A i \in 1..N : Weight(segs, b[i]) \in Nat
  <2>1. N \in Nat /\ \A i \in 1..N : b[i] \in I
    BY LenProperties, ElementOfSeq
  <2>. QED BY <2>1 DEF Weighed
<1>2. step \in [1..N -> [Nat -> Nat]]
  BY <1>1
<1>3. \A i \in 1..N : \A d \in Nat : step[i][d] = d + Weight(segs, b[i])
  OBVIOUS
<1>. HIDE DEF step, N
<1>4. Recursions(Nat, N, 0, step) # {}
  <2>1. 0 \in Nat
    OBVIOUS
  <2>. QED BY <1>1, <1>2, <2>1, RecursionExists, Zenon
<1>5. PICK f \in [0..N -> Nat] : f[0] = 0 /\ \A i \in 1..N : f[i] = step[i][f[i - 1]]
  BY <1>4 DEF Recursions
<1>6. ASSUME NEW i \in 1..N PROVE f[i] = f[i - 1] + Weight(segs, b[i])
  <2>1. i - 1 \in 0..N /\ f[i - 1] \in Nat
    BY <1>1
  <2>. QED BY <1>3, <1>5, <2>1
<1>7. f = CostBody(segs, b, f)
  <2>1. \A n \in 0..N : n = 0 \/ n \in 1..N
    BY <1>1
  <2>. QED BY <1>5, <1>6, <2>1 DEF CostBody, Weight, N
<1>. DEFINE g == Costs(segs, b)
<1>8. g = CostBody(segs, b, g)
  BY <1>7 DEF Costs
<1>. HIDE DEF g
<1>9. g[0] = 0 /\ \A n \in 1..N : g[n] = g[n - 1] + Weight(segs, b[n])
  <2>1. 0 \in 0..N /\ \A n \in 1..N : n \in 0..N /\ n # 0
    BY <1>1
  <2>2. \A n \in 0..N : g[n] = IF n = 0 THEN 0 ELSE g[n - 1] + Weight(segs, b[n])
    BY <1>8 DEF CostBody, Weight, N
  <2>. QED BY <2>1, <2>2
<1>. DEFINE S == {m \in Nat : m <= N => g[m] \in Nat}
<1>10. 0 \in S
  BY <1>9
<1>11. ASSUME NEW m \in Nat, m \in S PROVE m + 1 \in S
  <2>. SUFFICES ASSUME m + 1 <= N PROVE g[m + 1] \in Nat
    OBVIOUS
  <2>1. m + 1 \in 1..N /\ (m + 1) - 1 = m /\ g[m] \in Nat
    BY <1>1, <1>11
  <2>. QED BY <1>1, <1>9, <2>1
<1>12. Nat \subseteq S
  <2>. HIDE DEF S
  <2>. QED BY <1>10, <1>11, NatClosed
<1>13. \A m \in 0..N : g[m] \in Nat
  BY <1>1, <1>12
<1>. QED BY <1>9, <1>13 DEF g, N

\* One item more costs its weight more.
LEMMA CostAppend ==
    ASSUME NEW segs, NEW I, Weighed(segs, I), NEW b \in Seq(I), NEW i \in I
    PROVE  CostOf(segs, b) \in Nat /\ CostOf(segs, Append(b, i)) = CostOf(segs, b) + Weight(segs, i)
<1>. DEFINE n == Len(b)
            c == Append(b, i)
            f == Costs(segs, b)
            h == Costs(segs, c)
<1>0. n \in Nat /\ c \in Seq(I) /\ Len(c) = n + 1 /\ c[n + 1] = i /\ \A m \in 1..n : c[m] = b[m]
  BY LenProperties, AppendProperties
<1>1. f[0] = 0 /\ (\A m \in 1..n : f[m] = f[m - 1] + Weight(segs, b[m])) /\ f[n] \in Nat
  <2>1. n \in 0..n
    BY <1>0
  <2>. QED BY <2>1, CostsAre
<1>. HIDE DEF c
<1>2. h[0] = 0 /\ \A m \in 1..(n + 1) : h[m] = h[m - 1] + Weight(segs, c[m])
  BY <1>0, CostsAre
<1>. HIDE DEF f, h, n
<1>. DEFINE S == {m \in Nat : m <= n => h[m] = f[m]}
<1>4. 0 \in S
  BY <1>1, <1>2
<1>5. ASSUME NEW m \in Nat, m \in S PROVE m + 1 \in S
  <2>. SUFFICES ASSUME m + 1 <= n PROVE h[m + 1] = f[m + 1]
    OBVIOUS
  <2>1. m + 1 \in 1..n /\ m + 1 \in 1..(n + 1) /\ (m + 1) - 1 = m /\ h[m] = f[m]
    <3>1. m + 1 \in 1..n
      BY <1>0
    <3>2. m + 1 \in 1..(n + 1) /\ (m + 1) - 1 = m
      BY <1>0, <3>1
    <3>3. m <= n
      BY <1>0, <3>1
    <3>. QED BY <1>5, <3>1, <3>2, <3>3
  <2>. QED BY <1>0, <1>1, <1>2, <2>1
<1>6. n \in S
  <2>. HIDE DEF S
  <2>. QED BY <1>0, <1>4, <1>5, NatClosed
<1>7. h[n] = f[n] /\ n + 1 \in 1..(n + 1) /\ (n + 1) - 1 = n
  BY <1>0, <1>6
<1>8. h[n + 1] = f[n] + Weight(segs, i)
  BY <1>0, <1>2, <1>7
<1>9. CostOf(segs, b) = f[n] /\ CostOf(segs, c) = h[n + 1]
  BY <1>0 DEF CostOf, f, h, n
<1>. QED BY <1>1, <1>8, <1>9 DEF c

LEMMA CostNone == ASSUME NEW segs PROVE CostOf(segs, <<>>) = 0
<1>. DEFINE none == <<>>
            I == {}
<1>1. Weighed(segs, I)
  BY DEF Weighed
<1>2. none \in Seq(I) /\ Len(none) = 0
  OBVIOUS
<1>. HIDE DEF none, I
<1>3. Costs(segs, none)[0] = 0
  BY <1>1, <1>2, CostsAre
<1>4. CostOf(segs, none) = 0
  BY <1>2, <1>3 DEF CostOf
<1>. QED BY <1>4 DEF none

\* What _batches holds between two items.
Batching(I) == [batches : Seq(Seq(I)), current : Seq(I), used : Nat, skipped : Nat]
BatchBody(items, g) == [n \in 0..Len(items) |-> IF n = 0 THEN NoBatch ELSE BatchStep(g[n - 1], items[n])]
BatchRun(items) == CHOOSE g : g = BatchBody(items, g)

Fits(b) == CostOf(segments, b) <= TokenBudget
BatchedTo(items, n, a) ==
    /\ \A b \in ToSet(a.batches) : Fits(b)
    /\ a.used = CostOf(segments, a.current) /\ Fits(a.current)
    /\ a.skipped = 0 => \A m \in 1..n : \/ items[m] \in ToSet(a.current)
                                        \/ \E b \in ToSet(a.batches) : items[m] \in ToSet(b)

LEMMA BatchType ==
    ASSUME NEW I, Weighed(segments, I), NEW a \in Batching(I), NEW i \in I
    PROVE  BatchStep(a, i) \in Batching(I)
<1>. DEFINE w == ItemCost(i)
            app == Append(a.batches, a.current)
            one == <<i>>
            cur == Append(a.current, i)
            skip == a.skipped + 1
            sum == a.used + w
<1>1. w \in Nat
  BY DEF Weighed, Weight, ItemCost
<1>2. a.batches \in Seq(Seq(I)) /\ a.current \in Seq(I) /\ a.used \in Nat /\ a.skipped \in Nat
  BY DEF Batching
<1>3. app \in Seq(Seq(I)) /\ one \in Seq(I) /\ cur \in Seq(I) /\ skip \in Nat /\ sum \in Nat
  BY <1>1, <1>2, AppendProperties
<1>4. \/ BatchStep(a, i) = [a EXCEPT !.skipped = skip]
      \/ BatchStep(a, i) = [a EXCEPT !.batches = app, !.current = one, !.used = w]
      \/ BatchStep(a, i) = [a EXCEPT !.current = cur, !.used = sum]
  BY DEF BatchStep
<1>. HIDE DEF w, app, one, cur, skip, sum
<1>. QED BY <1>1, <1>3, <1>4 DEF Batching

LEMMA SetAppend ==
    ASSUME NEW X, NEW s \in Seq(X), NEW x \in X PROVE ToSet(Append(s, x)) = ToSet(s) \cup {x} /\ Append(s, x) \in Seq(X)
<1>. DEFINE n == Len(s)
            t == Append(s, x)
<1>1. n \in Nat /\ DOMAIN s = 1..n /\ t \in Seq(X) /\ Len(t) = n + 1 /\ t[n + 1] = x /\ \A i \in 1..n : t[i] = s[i]
  BY LenProperties, AppendProperties
<1>. HIDE DEF t, n
<1>2. DOMAIN t = 1..(n + 1) /\ 1..(n + 1) = (1..n) \cup {n + 1}
  BY <1>1, LenProperties
<1>3. ToSet(t) = ToSet(s) \cup {x}
  BY <1>1, <1>2 DEF ToSet
<1>. QED BY <1>1, <1>3 DEF t

LEMMA BatchKeeps ==
    ASSUME NEW I, Weighed(segments, I), TokenBudget \in Nat, NEW items, NEW n \in Nat, NEW a \in Batching(I), items[n + 1] \in I,
           BatchedTo(items, n, a)
    PROVE  BatchedTo(items, n + 1, BatchStep(a, items[n + 1]))
<1>. DEFINE i == items[n + 1]
            w == ItemCost(i)
            b == BatchStep(a, i)
            app == Append(a.batches, a.current)
            one == <<i>>
            cur == Append(a.current, i)
            F == {"batches", "current", "used", "skipped"}
<1>1. w \in Nat /\ w = Weight(segments, i) /\ i \in I
  BY DEF Weighed, Weight, ItemCost
<1>2. a.batches \in Seq(Seq(I)) /\ a.current \in Seq(I) /\ a.used \in Nat /\ a.skipped \in Nat /\ DOMAIN a = F
  BY DEF Batching
<1>3. /\ \A c \in ToSet(a.batches) : Fits(c)
      /\ a.used = CostOf(segments, a.current) /\ Fits(a.current)
      /\ a.skipped = 0 => \A m \in 1..n : \/ items[m] \in ToSet(a.current)
                                          \/ \E c \in ToSet(a.batches) : items[m] \in ToSet(c)
  BY DEF BatchedTo
<1>4. \A m \in 1..(n + 1) : m = n + 1 \/ m \in 1..n
  OBVIOUS
<1>5. ToSet(app) = ToSet(a.batches) \cup {a.current} /\ ToSet(cur) = ToSet(a.current) \cup {i}
  BY <1>1, <1>2, SetAppend
<1>6. CostOf(segments, cur) = a.used + w
  BY <1>1, <1>2, <1>3, CostAppend
<1>7. CostOf(segments, one) = w /\ ToSet(one) = {i}
  <2>. DEFINE none == <<>>
  <2>1. none \in Seq(I) /\ one = Append(none, i) /\ CostOf(segments, none) = 0 /\ ToSet(none) = {}
    BY <1>1, CostNone DEF ToSet
  <2>. HIDE DEF none, one, i
  <2>2. CostOf(segments, Append(none, i)) = CostOf(segments, none) + Weight(segments, i)
    BY <1>1, <2>1, CostAppend
  <2>3. ToSet(Append(none, i)) = ToSet(none) \cup {i}
    BY <1>1, <2>1, SetAppend
  <2>. QED BY <1>1, <2>1, <2>2, <2>3
<1>. HIDE DEF i, w, b, app, one, cur
<1>8. CASE w > TokenBudget
  <2>1. b = [a EXCEPT !.skipped = a.skipped + 1]
    BY <1>8 DEF BatchStep, b, w
  <2>2. b.skipped = a.skipped + 1 /\ b.batches = a.batches /\ b.current = a.current /\ b.used = a.used /\ b.skipped # 0
    BY <1>2, <2>1
  <2>. QED BY <1>3, <2>2 DEF BatchedTo, b, i
<1>9. CASE ~(w > TokenBudget) /\ a.current # <<>> /\ a.used + w > TokenBudget
  <2>1. b = [a EXCEPT !.batches = app, !.current = one, !.used = w]
    BY <1>9 DEF BatchStep, b, w, app, one
  <2>2. b.skipped = a.skipped /\ b.batches = app /\ b.current = one /\ b.used = w
    BY <1>2, <2>1
  <2>3. Fits(one)
    BY <1>1, <1>7, <1>9 DEF Fits
  <2>4. \A c \in ToSet(app) : Fits(c)
    BY <1>3, <1>5
  <2>5. ASSUME a.skipped = 0, NEW m \in 1..(n + 1)
        PROVE  items[m] \in ToSet(one) \/ \E c \in ToSet(app) : items[m] \in ToSet(c)
    <3>1. CASE m = n + 1
      BY <1>7, <3>1 DEF i
    <3>2. CASE m \in 1..n
      BY <1>3, <1>5, <2>5, <3>2
    <3>. QED BY <1>4, <3>1, <3>2
  <2>. QED BY <1>7, <2>2, <2>3, <2>4, <2>5 DEF BatchedTo, b, i
<1>10. CASE ~(w > TokenBudget) /\ ~(a.current # <<>> /\ a.used + w > TokenBudget)
  <2>1. b = [a EXCEPT !.current = cur, !.used = a.used + w]
    BY <1>10 DEF BatchStep, b, w, cur
  <2>2. b.skipped = a.skipped /\ b.batches = a.batches /\ b.current = cur /\ b.used = a.used + w
    BY <1>2, <2>1
  <2>3. Fits(cur)
    <3>1. CASE a.current = <<>>
      <4>1. a.used = 0
        BY <1>3, <3>1, CostNone
      <4>. QED BY <1>1, <1>6, <1>10, <4>1 DEF Fits
    <3>2. CASE a.current # <<>>
      BY <1>1, <1>2, <1>6, <1>10, <3>2 DEF Fits
    <3>. QED BY <3>1, <3>2
  <2>5. ASSUME a.skipped = 0, NEW m \in 1..(n + 1)
        PROVE  items[m] \in ToSet(cur) \/ \E c \in ToSet(a.batches) : items[m] \in ToSet(c)
    <3>1. CASE m = n + 1
      BY <1>5, <3>1 DEF i
    <3>2. CASE m \in 1..n
      BY <1>3, <1>5, <2>5, <3>2
    <3>. QED BY <1>4, <3>1, <3>2
  <2>. QED BY <1>3, <1>6, <2>2, <2>3, <2>5 DEF BatchedTo, b, i
<1>. QED BY <1>8, <1>9, <1>10 DEF b, i

\* Every request fits the budget, and without a skip every item is in one.
LEMMA BatchesAre ==
    ASSUME NEW I, Weighed(segments, I), TokenBudget \in Nat, NEW items \in Seq(I)
    PROVE  LET sent == Batches(items).sent
           IN  /\ sent \in Seq(Seq(I)) /\ \A b \in ToSet(sent) : Fits(b)
               /\ Batches(items).skipped = 0 => \A i \in ToSet(items) : \E b \in ToSet(sent) : i \in ToSet(b)
<1>. DEFINE N == Len(items)
            V == Batching(I)
            step == [i \in 1..N |-> [a \in V |-> BatchStep(a, items[i])]]
            g == BatchRun(items)
            end == g[N]
            sent == IF end.current = <<>> THEN end.batches ELSE Append(end.batches, end.current)
<1>1. N \in Nat /\ DOMAIN items = 1..N /\ \A i \in 1..N : items[i] \in I
  BY LenProperties, ElementOfSeq
<1>2. NoBatch \in V
  <2>1. <<>> \in Seq(I) /\ <<>> \in Seq(Seq(I)) /\ 0 \in Nat
    OBVIOUS
  <2>. QED BY <2>1 DEF NoBatch, Batching
<1>3. step \in [1..N -> [V -> V]]
  <2>1. ASSUME NEW i \in 1..N, NEW a \in V PROVE BatchStep(a, items[i]) \in V
    BY <1>1, BatchType
  <2>. HIDE DEF V
  <2>. QED BY <2>1
<1>4. \A i \in 1..N : \A a \in V : step[i][a] = BatchStep(a, items[i])
  OBVIOUS
<1>40. Batches(items) = [sent |-> sent, skipped |-> end.skipped]
  BY DEF Batches, BatchRun, BatchBody
<1>. HIDE DEF step, V, N
<1>5. Recursions(V, N, NoBatch, step) # {}
  BY <1>1, <1>2, <1>3, RecursionExists, Zenon
<1>6. PICK f \in [0..N -> V] : f[0] = NoBatch /\ \A i \in 1..N : f[i] = step[i][f[i - 1]]
  BY <1>5 DEF Recursions
<1>7. ASSUME NEW i \in 1..N PROVE f[i] = BatchStep(f[i - 1], items[i])
  <2>1. i - 1 \in 0..N /\ f[i - 1] \in V
    BY <1>1
  <2>. QED BY <1>4, <1>6, <2>1
<1>8. f = BatchBody(items, f)
  <2>1. \A n \in 0..N : n = 0 \/ n \in 1..N
    BY <1>1
  <2>. QED BY <1>6, <1>7, <2>1 DEF BatchBody, N
<1>9. g = BatchBody(items, g)
  BY <1>8 DEF BatchRun
<1>. HIDE DEF g
<1>10. g[0] = NoBatch /\ \A n \in 1..N : g[n] = BatchStep(g[n - 1], items[n])
  <2>1. 0 \in 0..N /\ \A n \in 1..N : n \in 0..N /\ n # 0
    BY <1>1
  <2>2. \A n \in 0..N : g[n] = IF n = 0 THEN NoBatch ELSE BatchStep(g[n - 1], items[n])
    BY <1>9 DEF BatchBody, N
  <2>. QED BY <2>1, <2>2
<1>. DEFINE S == {n \in Nat : n <= N => g[n] \in V /\ BatchedTo(items, n, g[n])}
<1>11. 0 \in S
  <2>1. NoBatch.batches = <<>> /\ NoBatch.current = <<>> /\ NoBatch.used = 0 /\ ToSet(<<>>) = {}
    BY DEF NoBatch, ToSet
  <2>2. BatchedTo(items, 0, NoBatch)
    <3>1. 1..0 = {} /\ 0 <= TokenBudget
      OBVIOUS
    <3>. QED BY <2>1, <3>1, CostNone DEF BatchedTo, Fits
  <2>. QED BY <1>2, <1>10, <2>2
<1>12. ASSUME NEW n \in Nat, n \in S PROVE n + 1 \in S
  <2>. SUFFICES ASSUME n + 1 <= N PROVE g[n + 1] \in V /\ BatchedTo(items, n + 1, g[n + 1])
    OBVIOUS
  <2>1. n + 1 \in 1..N /\ (n + 1) - 1 = n /\ g[n] \in V /\ BatchedTo(items, n, g[n])
    BY <1>1, <1>12
  <2>2. g[n + 1] = BatchStep(g[n], items[n + 1])
    BY <1>10, <2>1
  <2>3. items[n + 1] \in I /\ g[n] \in Batching(I)
    BY <1>1, <2>1 DEF V
  <2>4. BatchStep(g[n], items[n + 1]) \in Batching(I)
    BY <2>3, BatchType
  <2>5. BatchedTo(items, n + 1, BatchStep(g[n], items[n + 1]))
    BY <2>1, <2>3, BatchKeeps
  <2>. QED BY <2>2, <2>4, <2>5 DEF V
<1>13. N \in S
  <2>. HIDE DEF S
  <2>. QED BY <1>1, <1>11, <1>12, NatClosed
<1>14. end \in Batching(I) /\ BatchedTo(items, N, end)
  BY <1>1, <1>13 DEF V
<1>. HIDE DEF end, S
<1>15. end.batches \in Seq(Seq(I)) /\ end.current \in Seq(I)
  BY <1>14 DEF Batching
<1>16. /\ \A b \in ToSet(end.batches) : Fits(b)
       /\ Fits(end.current)
       /\ end.skipped = 0 => \A m \in 1..N : \/ items[m] \in ToSet(end.current)
                                             \/ \E b \in ToSet(end.batches) : items[m] \in ToSet(b)
  BY <1>14 DEF BatchedTo
<1>17. sent \in Seq(Seq(I)) /\ ToSet(sent) = IF end.current = <<>> THEN ToSet(end.batches) ELSE ToSet(end.batches) \cup {end.current}
  <2>. DEFINE app == Append(end.batches, end.current)
  <2>1. app \in Seq(Seq(I)) /\ ToSet(app) = ToSet(end.batches) \cup {end.current}
    BY <1>15, SetAppend
  <2>. HIDE DEF app
  <2>2. sent = IF end.current = <<>> THEN end.batches ELSE app
    BY DEF app
  <2>. HIDE DEF sent
  <2>. QED BY <1>15, <2>1, <2>2
<1>. HIDE DEF sent
<1>18. \A b \in ToSet(sent) : Fits(b)
  BY <1>16, <1>17
<1>19. ASSUME end.skipped = 0, NEW i \in ToSet(items) PROVE \E b \in ToSet(sent) : i \in ToSet(b)
  <2>1. PICK m \in 1..N : i = items[m]
    BY <1>1 DEF ToSet
  <2>2. i \in ToSet(end.current) \/ \E b \in ToSet(end.batches) : i \in ToSet(b)
    BY <1>16, <1>19, <2>1
  <2>3. ToSet(<<>>) = {}
    BY DEF ToSet
  <2>. QED BY <1>17, <2>2, <2>3
<1>. QED BY <1>17, <1>18, <1>19, <1>40

\* A registry never forgets what a number stands for.
Longer(reg, more) ==
    \A g \in Groups : \A n \in 1..Len(reg.records[g]) :
        n \in 1..Len(more.records[g]) /\ more.records[g][n] = reg.records[g][n]

LEMMA ItemsGrow ==
    ASSUME NEW reg, NEW more, Longer(reg, more), NEW g \in Groups, NEW items, ItemsOK(reg, g, items)
    PROVE  ItemsOK(more, g, items)
<1>1. ASSUME NEW x \in ToSet(items) PROVE ItemOK(more, g, x)
  <2>1. ItemOK(reg, g, x)
    BY DEF ItemsOK
  <2>2. PICK n \in 1..Len(reg.records[g]) : x.ev = <<g, n>> /\ reg.records[g][n] = x.record
    BY <2>1 DEF ItemOK
  <2>3. n \in 1..Len(more.records[g]) /\ more.records[g][n] = x.record
    BY <2>2 DEF Longer
  <2>. QED BY <2>1, <2>2, <2>3 DEF ItemOK
<1>. QED BY <1>1 DEF ItemsOK

LEMMA PageGrows ==
    ASSUME NEW reg, NEW more, Longer(reg, more), NEW p, PageOK(reg, p) PROVE PageOK(more, p)
<1>1. p.group \in Groups /\ ItemsOK(reg, p.group, p.items)
  BY DEF PageOK
<1>2. ItemsOK(more, p.group, p.items)
  BY <1>1, ItemsGrow
<1>. QED BY <1>2 DEF PageOK

LEMMA ResultGrows ==
    ASSUME NEW reg, NEW more, Longer(reg, more), NEW s, ResultOK(reg, s) PROVE ResultOK(more, s)
<1>1. CASE s \in Calculations
  BY <1>1 DEF ResultOK
<1>2. CASE s \notin Calculations
  <2>1. s.group \in Groups /\ ItemsOK(reg, s.group, s.items)
    BY <1>2 DEF ResultOK
  <2>2. ItemsOK(more, s.group, s.items)
    BY <2>1, ItemsGrow
  <2>. QED BY <1>2, <2>2 DEF ResultOK
<1>. QED BY <1>1, <1>2

\* The registry with one more record in a group.
LEMMA RecordAdded ==
    ASSUME RegistryType(registry), NEW g \in Groups, NEW r \in Nat
    PROVE  LET more == HandleForRecord(g, r)
               n == Number(more.records[g], r)
           IN  /\ RegistryType(more) /\ Longer(registry, more)
               /\ n \in 1..Len(more.records[g]) /\ more.records[g][n] = r
<1>. DEFINE R == registry.records
            s == R[g]
            more == HandleForRecord(g, r)
            n == Number(more.records[g], r)
            added == Append(s, r)
            all == [R EXCEPT ![g] = added]
<1>1. R \in [Groups -> Seq(Nat)] /\ s \in Seq(Nat) /\ \A h \in Groups : R[h] \in Seq(Nat)
  BY DEF RegistryType
<1>2. Len(s) \in Nat /\ added \in Seq(Nat) /\ Len(added) = Len(s) + 1 /\ added[Len(s) + 1] = r /\ \A i \in 1..Len(s) : added[i] = s[i]
  BY <1>1, LenProperties, AppendProperties
<1>3. CASE Contains(s, r)
  <2>1. more = registry
    BY <1>3 DEF HandleForRecord
  <2>2. \E i \in 1..Len(s) : s[i] = r
    BY <1>3 DEF Contains
  <2>3. DOMAIN s = 1..Len(s)
    BY <1>1, LenProperties
  <2>4. Number(s, r) \in 1..Len(s) /\ s[Number(s, r)] = r
    BY <2>2, <2>3 DEF Number
  <2>5. Longer(registry, registry)
    BY DEF Longer
  <2>. QED BY <2>1, <2>4, <2>5
<1>4. CASE ~Contains(s, r)
  <2>1. more = [registry EXCEPT !.records[g] = Append(@, r)]
    BY <1>4 DEF HandleForRecord
  <2>. HIDE DEF more, added, s
  <2>2. more = [registry EXCEPT !.records = all]
    BY <2>1 DEF s, added
  <2>. HIDE DEF R
  <2>3. all \in [Groups -> Seq(Nat)] /\ all[g] = added /\ \A h \in Groups : h # g => all[h] = R[h]
    BY <1>1, <1>2
  <2>. HIDE DEF all
  <2>4. /\ DOMAIN more = {"results", "records"} /\ more = [f \in {"results", "records"} |-> more[f]]
        /\ more.records = all
    BY <2>2 DEF RegistryType
  <2>5. RegistryType(more)
    BY <2>3, <2>4 DEF RegistryType
  <2>6. Longer(registry, more)
    <3>1. ASSUME NEW h \in Groups, NEW i \in 1..Len(R[h]) PROVE i \in 1..Len(all[h]) /\ all[h][i] = R[h][i]
      <4>1. CASE h = g
        <5>1. R[h] = s /\ all[h] = added
          BY <2>3, <4>1 DEF s
        <5>. QED BY <1>2, <5>1
      <4>2. CASE h # g
        BY <2>3, <4>2
      <4>. QED BY <4>1, <4>2
    <3>. QED BY <2>4, <3>1 DEF Longer, R
  <2>7. n \in 1..Len(more.records[g]) /\ more.records[g][n] = r
    <3>1. more.records[g] = added /\ DOMAIN added = 1..Len(added)
      BY <1>2, <2>3, <2>4, LenProperties
    <3>2. Len(s) + 1 \in DOMAIN added /\ added[Len(s) + 1] = r
      BY <1>2, <3>1
    <3>3. Number(added, r) \in DOMAIN added /\ added[Number(added, r)] = r
      BY <3>2 DEF Number
    <3>. QED BY <3>1, <3>3
  <2>. QED BY <2>5, <2>6, <2>7 DEF more
<1>. QED BY <1>3, <1>4

LEMMA ResultAdded ==
    ASSUME RegistryType(registry), NEW id
    PROVE  RegistryType(HandleFor(id)) /\ Longer(registry, HandleFor(id))
<1>. DEFINE more == HandleFor(id)
            all == Append(registry.results, id)
<1>1. more = registry \/ more = [registry EXCEPT !.results = all]
  BY DEF HandleFor
<1>. HIDE DEF more, all
<1>2. RegistryType(more) /\ more.records = registry.records
  BY <1>1 DEF RegistryType
<1>3. Longer(registry, more)
  BY <1>2 DEF Longer
<1>. QED BY <1>2, <1>3 DEF more

\* A page of a group: rows of it, and all of them unless it says otherwise.
LEMMA PageRead ==
    ASSUME NEW D \in SUBSET Nat, IsFiniteSet(D), NEW cursor \in Nat, NEW window \in Nat
    PROVE  LET order == InOrder(D)
               last == IF cursor + window < Len(order) THEN cursor + window ELSE Len(order)
               page == SubSeq(order, cursor + 1, last)
           IN  page \in Seq(D) /\ (~(last < Len(order) \/ Len(page) < Len(order)) => ToSet(page) = D)
<1>. DEFINE order == InOrder(D)
            last == IF cursor + window < Len(order) THEN cursor + window ELSE Len(order)
            page == SubSeq(order, cursor + 1, last)
            c == Cardinality(D)
<1>1. c \in Nat /\ order \in Seq(D) /\ Len(order) = c /\ \A i \in D : \E n \in 1..c : order[n] = i
  BY InOrderLists
<1>2. \A n \in 1..c : order[n] \in D
  BY <1>1, ElementOfSeq
<1>. HIDE DEF order, c
<1>3. last \in Int /\ cursor + 1 \in Int /\ last <= c /\ 0 <= last
  BY <1>1
<1>. HIDE DEF last
<1>4. \A i \in (cursor + 1)..last : i \in 1..Len(order) /\ order[i] \in D
  BY <1>1, <1>2, <1>3
<1>5. /\ page \in Seq(D) /\ Len(page) = IF cursor + 1 <= last THEN last - (cursor + 1) + 1 ELSE 0
      /\ \A i \in 1..(last - (cursor + 1) + 1) : page[i] = order[(cursor + 1) + i - 1]
  BY <1>1, <1>3, <1>4, SubSeqProperties, SMTT(30)
<1>. HIDE DEF page
<1>6. ASSUME ~(last < Len(order)), ~(Len(page) < Len(order)) PROVE ToSet(page) = D
  <2>1. Len(page) \in Nat /\ DOMAIN page = 1..Len(page) /\ \A n \in 1..Len(page) : page[n] \in D
    BY <1>5, LenProperties, ElementOfSeq
  <2>2. ASSUME NEW i \in D PROVE i \in ToSet(page)
    <3>1. PICK n \in 1..c : order[n] = i
      BY <1>1
    <3>2. last = c /\ cursor = 0 /\ Len(page) = c
      BY <1>1, <1>3, <1>5, <1>6, <3>1
    <3>3. n \in 1..(last - (cursor + 1) + 1) /\ (cursor + 1) + n - 1 = n
      BY <1>1, <3>2
    <3>4. page[n] = i
      BY <1>5, <3>1, <3>3
    <3>. QED BY <2>1, <3>2, <3>4 DEF ToSet
  <2>. QED BY <2>1, <2>2 DEF ToSet
<1>. QED BY <1>5, <1>6 DEF order, last, page

LEMMA GroundingFacts ==
    /\ DOMAIN AssignmentRows = {1, 2} /\ RowLimit \in Nat /\ TokenBudget \in Nat
    /\ \A g \in Groups, b \in {1, 2} : DOMAIN PinRows(g, b) \in SUBSET Nat /\ IsFiniteSet(DOMAIN PinRows(g, b))
    /\ \A r \in (DOMAIN AssignmentRows[1]) \cap (DOMAIN AssignmentRows[2]) : AssignmentRows[1][r] = AssignmentRows[2][r]
    /\ \A c \in Calculations : c.kind = "calc" /\ c.refs \in Seq(ToSet(c.refs))
    /\ \A tokens \in Texts \cup Replies : IsTokens(tokens)
    /\ Missing \notin Failures \cup {"timeout", "bad_response"} /\ Missing \notin {0, 100}
<1>1. ASSUME NEW g \in Groups, NEW b \in {1, 2} PROVE DOMAIN PinRows(g, b) \in SUBSET Nat /\ IsFiniteSet(DOMAIN PinRows(g, b))
  <2>1. PinRows(g, b) \in {WorkerRows[1], AssignmentRows[1], AssignmentRows[2]}
    BY DEF PinRows, Pinned
  <2>. QED BY <2>1, GroundingAssumption
<1>. QED BY <1>1, GroundingAssumption

LEMMA AnswerFrame ==
    ASSUME AnswerOK, UNCHANGED <<sink, gate, pieces, segments>> PROVE AnswerOK'
BY DEF AnswerOK

LEMMA CheckerFrame ==
    ASSUME CheckerOK, UNCHANGED <<gate, segments, checker>> PROVE CheckerOK'
BY DEF CheckerOK

LEMMA ReadsFrame ==
    ASSUME ReadsOK, UNCHANGED <<world, registry, tool, sink>> PROVE ReadsOK'
BY DEF ReadsOK

LEMMA WorldMoves ==
    ASSUME ReadsOK, ImportVersion \/ BaselineMoves PROVE ReadsOK'
<1>1. /\ world'.version \in {1, 2} /\ world'.baseline \in {1, 2}
      /\ world' = [version |-> world'.version, baseline |-> world'.baseline]
  BY DEF ReadsOK, ImportVersion, BaselineMoves
<1>2. UNCHANGED <<registry, tool, sink>>
  BY DEF ImportVersion, BaselineMoves
<1>. QED BY <1>1, <1>2 DEF ReadsOK

LEMMA ReadOK ==
    ASSUME ReadsOK, NEW t \in Threads, NEW g \in Groups, NEW c \in 0..1, NEW l \in 0..(RowLimit + 1), InspectRead(t, g, c, l)
    PROVE  ReadsOK'
<1>. DEFINE rows == RowsOf(g)
            order == InOrder(DOMAIN rows)
            last == IF c + Window(l) < Len(order) THEN c + Window(l) ELSE Len(order)
            page == SubSeq(order, c + 1, last)
            p == [group |-> g, todo |-> page, rows |-> rows, items |-> <<>>,
                  truncated |-> last < Len(order) \/ Len(page) < Len(order)]
<1>1. UNCHANGED <<world, registry, sink>>
  BY DEF InspectRead
<1>2. CASE ~ValidQuery(c, l) \/ world.version # Pinned
  <2>1. tool' = tool
    BY <1>2 DEF InspectRead
  <2>. QED BY <1>1, <2>1, ReadsFrame
<1>3. CASE ValidQuery(c, l) /\ world.version = Pinned
  <2>1. tool' = [tool EXCEPT ![t] = p]
    BY <1>3 DEF InspectRead
  <2>2. rows = PinRows(g, world.baseline) /\ world.baseline \in {1, 2}
    BY <1>3 DEF RowsOf, PinRows, ReadsOK, Pinned
  <2>3. DOMAIN rows \in SUBSET Nat /\ IsFiniteSet(DOMAIN rows) /\ c \in Nat /\ Window(l) \in Nat
    BY <2>2, GroundingFacts DEF Window
  <2>4. page \in Seq(DOMAIN rows) /\ (~(last < Len(order) \/ Len(page) < Len(order)) => ToSet(page) = DOMAIN rows)
    <3>. DEFINE D == DOMAIN rows
                w == Window(l)
    <3>. HIDE DEF rows
    <3>1. D \in SUBSET Nat /\ IsFiniteSet(D) /\ c \in Nat /\ w \in Nat
      BY <2>3
    <3>. HIDE DEF D, w
    <3>. DEFINE o == InOrder(D)
                e == IF c + w < Len(o) THEN c + w ELSE Len(o)
                q == SubSeq(o, c + 1, e)
    <3>2. q \in Seq(D) /\ (~(e < Len(o) \/ Len(q) < Len(o)) => ToSet(q) = D)
      BY <3>1, PageRead
    <3>. QED BY <3>2 DEF D, w
  <2>. HIDE DEF page, rows, last, order
  <2>5. PageOK(registry, p)
    <3>1. DOMAIN p = PageFields /\ p = [f \in PageFields |-> p[f]] /\ p.group = g /\ p.todo = page /\ p.rows = rows
          /\ p.items = <<>> /\ (~p.truncated => ToSet(page) = DOMAIN rows)
      BY <2>4 DEF PageFields
    <3>2. ToSet(<<>>) = {} /\ <<>> \in Seq({})
      BY DEF ToSet
    <3>3. ItemsOK(registry, g, <<>>) /\ RecordsIn(<<>>) = {}
      BY <3>2 DEF ItemsOK, RecordsIn
    <3>. HIDE DEF p
    <3>. QED BY <2>2, <2>4, <3>1, <3>3 DEF PageOK
  <2>. HIDE DEF p
  <2>6. tool' = [u \in Threads |-> tool'[u]] /\ \A u \in Threads : tool'[u] = NoPage \/ PageOK(registry, tool'[u])
    <3>1. tool = [u \in Threads |-> tool[u]] /\ \A u \in Threads : tool[u] = NoPage \/ PageOK(registry, tool[u])
      BY DEF ReadsOK
    <3>2. tool' = [u \in Threads |-> IF u = t THEN p ELSE tool[u]]
      BY <2>1, <3>1
    <3>. QED BY <2>5, <3>1, <3>2
  <2>. QED BY <1>1, <2>6 DEF ReadsOK
<1>. QED BY <1>2, <1>3

LEMMA MintOK ==
    ASSUME ReadsOK, NEW t \in Threads, MintRow(t) PROVE ReadsOK'
<1>. DEFINE g == tool[t].group
            r == Head(tool[t].todo)
            more == HandleForRecord(g, r)
            n == Number(more.records[g], r)
            x == [ev |-> <<g, n>>, record |-> r, value |-> tool[t].rows[r]]
            q == [tool[t] EXCEPT !.todo = Tail(@), !.items = Append(@, x)]
            p == tool[t]
<1>1. PageOK(registry, p) /\ p.todo # <<>> /\ UNCHANGED <<world, sink>> /\ registry' = more
  BY DEF MintRow, ReadsOK
<1>2. tool = [u \in Threads |-> tool[u]] /\ (\A u \in Threads : tool[u] = NoPage \/ PageOK(registry, tool[u])) /\ RegistryType(registry)
  BY DEF ReadsOK
<1>3. tool' = [tool EXCEPT ![t] = q]
  <2>1. tool' = [tool EXCEPT ![t].todo = Tail(@), ![t].items = Append(@, x)]
    BY DEF MintRow
  <2>. HIDE DEF x
  <2>. QED BY <1>2, <2>1
<1>4. PICK b \in {1, 2} : p.rows = PinRows(g, b)
  BY <1>1 DEF PageOK
<1>5. /\ g \in Groups /\ p.todo \in Seq(DOMAIN p.rows) /\ r \in DOMAIN p.rows /\ Tail(p.todo) \in Seq(DOMAIN p.rows)
      /\ p.items \in Seq(ToSet(p.items)) /\ r \in Nat
  <2>1. g \in Groups /\ p.todo \in Seq(DOMAIN p.rows) /\ p.items \in Seq(ToSet(p.items))
    BY <1>1 DEF PageOK, ItemsOK
  <2>2. r \in DOMAIN p.rows /\ Tail(p.todo) \in Seq(DOMAIN p.rows)
    BY <1>1, <2>1, HeadTailProperties
  <2>3. DOMAIN p.rows \in SUBSET Nat
    BY <1>4, <2>1, GroundingFacts
  <2>. QED BY <2>1, <2>2, <2>3
<1>6. /\ RegistryType(more) /\ Longer(registry, more)
      /\ n \in 1..Len(more.records[g]) /\ more.records[g][n] = r
  BY <1>2, <1>5, RecordAdded
<1>. HIDE DEF more, n, r
<1>7. x.ev = <<g, n>> /\ x.record = r /\ x.value = p.rows[r]
  OBVIOUS
<1>8. ItemOK(more, g, x)
  <2>. HIDE DEF x, g, p
  <2>. QED BY <1>4, <1>5, <1>6, <1>7 DEF ItemOK
<1>9. ItemsOK(more, g, p.items)
  BY <1>1, <1>5, <1>6, ItemsGrow DEF PageOK
<1>. DEFINE items == Append(p.items, x)
            Y == ToSet(p.items) \cup {x}
<1>10. items \in Seq(Y) /\ ToSet(items) = Y
  <2>. HIDE DEF x, p
  <2>1. p.items \in Seq(ToSet(p.items)) /\ ToSet(p.items) \subseteq Y /\ x \in Y
    BY <1>5
  <2>2. \A A, B : A \subseteq B => Seq(A) \subseteq Seq(B)
    OBVIOUS
  <2>3. p.items \in Seq(Y)
    <3>. HIDE DEF Y
    <3>. QED BY <2>1, <2>2
  <2>4. items \in Seq(Y) /\ ToSet(items) = ToSet(p.items) \cup {x}
    <3>. HIDE DEF Y
    <3>. QED BY <2>1, <2>3, SetAppend
  <2>. QED BY <2>4
<1>11. ItemsOK(more, g, items) /\ RecordsIn(items) = RecordsIn(p.items) \cup {r}
  <2>. HIDE DEF x, p, g, items
  <2>. QED BY <1>7, <1>8, <1>9, <1>10 DEF ItemsOK, RecordsIn
<1>12. ToSet(p.todo) = {r} \cup ToSet(Tail(p.todo))
  <2>. DEFINE todo == p.todo
              X == DOMAIN p.rows
  <2>1. todo \in Seq(X) /\ todo # <<>> /\ r = Head(todo)
    BY <1>1, <1>5 DEF r
  <2>. HIDE DEF todo, X
  <2>2. Len(todo) \in Nat /\ Len(todo) >= 1 /\ DOMAIN todo = 1..Len(todo) /\ Head(todo) = todo[1]
    BY <2>1, LenProperties, EmptySeq
  <2>3. /\ Tail(todo) \in Seq(X) /\ Len(Tail(todo)) = Len(todo) - 1 /\ DOMAIN Tail(todo) = 1..(Len(todo) - 1)
        /\ \A i \in 1..Len(Tail(todo)) : Tail(todo)[i] = todo[i + 1]
    BY <2>1, <2>2, HeadTailProperties, LenProperties
  <2>4. ASSUME NEW y \in ToSet(todo) PROVE y \in {r} \cup ToSet(Tail(todo))
    <3>1. PICK i \in 1..Len(todo) : y = todo[i]
      BY <2>2 DEF ToSet
    <3>2. CASE i = 1
      BY <2>1, <2>2, <3>1, <3>2
    <3>3. CASE i # 1
      <4>1. i - 1 \in 1..(Len(todo) - 1) /\ (i - 1) + 1 = i
        BY <2>2, <3>3
      <4>2. Tail(todo)[i - 1] = y
        BY <2>3, <3>1, <4>1
      <4>. QED BY <2>3, <4>1, <4>2 DEF ToSet
    <3>. QED BY <3>2, <3>3
  <2>5. ASSUME NEW y \in ToSet(Tail(todo)) PROVE y \in ToSet(todo)
    <3>1. PICK i \in 1..(Len(todo) - 1) : y = Tail(todo)[i]
      BY <2>3 DEF ToSet
    <3>2. y = todo[i + 1] /\ i + 1 \in 1..Len(todo)
      BY <2>2, <2>3, <3>1
    <3>. QED BY <2>2, <3>2 DEF ToSet
  <2>6. r \in ToSet(todo)
    BY <2>1, <2>2 DEF ToSet
  <2>7. ToSet(todo) = {r} \cup ToSet(Tail(todo))
    BY <2>4, <2>5, <2>6
  <2>. QED BY <2>7 DEF todo
<1>13. PageOK(more, q)
  <2>. DEFINE rest == Tail(p.todo)
  <2>1. q = [p EXCEPT !.todo = rest, !.items = items]
    OBVIOUS
  <2>. HIDE DEF q, items, rest, x
  <2>2. DOMAIN p = PageFields /\ p = [f \in PageFields |-> p[f]]
    BY <1>1 DEF PageOK
  <2>3. /\ DOMAIN q = PageFields /\ q = [f \in PageFields |-> q[f]] /\ q.group = g /\ q.rows = p.rows
        /\ q.todo = rest /\ q.items = items /\ q.truncated = p.truncated
    BY <2>1, <2>2 DEF PageFields
  <2>. HIDE DEF p
  <2>4. ~q.truncated => ToSet(rest) \cup RecordsIn(items) = DOMAIN p.rows
    <3>1. ~p.truncated => ToSet(p.todo) \cup RecordsIn(p.items) = DOMAIN p.rows
      BY <1>1 DEF PageOK
    <3>. QED BY <1>11, <1>12, <2>3, <3>1, Zenon DEF rest
  <2>5. rest \in Seq(DOMAIN p.rows) /\ g \in Groups
    BY <1>5 DEF rest
  <2>. HIDE DEF g
  <2>. QED BY <1>4, <1>11, <2>3, <2>4, <2>5 DEF PageOK
<1>. HIDE DEF q, p, g
<1>14. tool' = [u \in Threads |-> tool'[u]] /\ \A u \in Threads : tool'[u] = NoPage \/ PageOK(more, tool'[u])
  <2>1. tool' = [u \in Threads |-> IF u = t THEN q ELSE tool[u]]
    BY <1>2, <1>3
  <2>2. ASSUME NEW u \in Threads PROVE tool[u] = NoPage \/ PageOK(more, tool[u])
    BY <1>2, <1>6, PageGrows
  <2>. QED BY <1>13, <2>1, <2>2
<1>15. \A s \in ToSet(sink) : ResultOK(more, s)
  BY <1>6, ResultGrows DEF ReadsOK
<1>. QED BY <1>1, <1>6, <1>14, <1>15 DEF ReadsOK

\* Evidence is only added: what supported a segment still does.
LEMMA SinkGrows ==
    ASSUME ReadsOK, NEW new, sink' = Append(sink, new)
    PROVE  /\ sink' \in Seq(ToSet(sink')) /\ ToSet(sink') = ToSet(sink) \cup {new}
           /\ \A n \in DOMAIN sink : n \in DOMAIN sink' /\ sink'[n] = sink[n]
<1>. DEFINE Y == ToSet(sink) \cup {new}
<1>1. sink \in Seq(ToSet(sink))
  BY DEF ReadsOK
<1>2. sink \in Seq(Y) /\ new \in Y
  <2>1. ToSet(sink) \subseteq Y /\ new \in Y
    OBVIOUS
  <2>2. \A A, B : A \subseteq B => Seq(A) \subseteq Seq(B)
    OBVIOUS
  <2>. HIDE DEF Y
  <2>. QED BY <1>1, <2>1, <2>2
<1>. HIDE DEF Y
<1>3. sink' \in Seq(Y) /\ ToSet(sink') = ToSet(sink) \cup {new}
  BY <1>2, SetAppend
<1>4. sink' \in Seq(ToSet(sink'))
  BY <1>3, OwnSeq
<1>5. \A n \in DOMAIN sink : n \in DOMAIN sink' /\ sink'[n] = sink[n]
  <2>1. Len(sink) \in Nat /\ DOMAIN sink = 1..Len(sink) /\ Len(sink') = Len(sink) + 1 /\ DOMAIN sink' = 1..Len(sink')
        /\ \A n \in 1..Len(sink) : sink'[n] = sink[n]
    BY <1>2, <1>3, LenProperties, AppendProperties
  <2>. QED BY <2>1
<1>. QED BY <1>3, <1>4, <1>5

Within(snk, more) == \A n \in DOMAIN snk : n \in DOMAIN more /\ more[n] = snk[n]

LEMMA SegmentStays ==
    ASSUME NEW snk, NEW more, Within(snk, more), NEW s, SegmentOK(snk, s) PROVE SegmentOK(more, s)
<1>1. FactRead(snk, s) => FactRead(more, s)
  <2>. SUFFICES ASSUME FactRead(snk, s) PROVE FactRead(more, s)
    OBVIOUS
  <2>1. PICK n \in DOMAIN snk :
           /\ snk[n].kind = "rows" /\ snk[n].group = s.refs[1].group
           /\ \E x \in ToSet(snk[n].items) : x.record = s.refs[1].record /\ ValueMatches(x.value, s.value)
    BY DEF FactRead
  <2>2. n \in DOMAIN more /\ more[n] = snk[n]
    BY DEF Within
  <2>3. \E m \in DOMAIN more :
           /\ more[m].kind = "rows" /\ more[m].group = s.refs[1].group
           /\ \E x \in ToSet(more[m].items) : x.record = s.refs[1].record /\ ValueMatches(x.value, s.value)
    BY <2>1, <2>2
  <2>. QED BY <2>3 DEF FactRead
<1>2. NumberProven(snk, s) => NumberProven(more, s)
  <2>. SUFFICES ASSUME NumberProven(snk, s) PROVE NumberProven(more, s)
    OBVIOUS
  <2>1. PICK n \in DOMAIN snk : /\ snk[n].kind = "calc" /\ snk[n].value = s.value /\ Len(s.refs) = snk[n].rows
                                /\ (snk[n].rows = 0 => s.value = 0)
                                /\ \A x \in ToSet(s.refs) : x.version = Pinned
    BY DEF NumberProven
  <2>2. n \in DOMAIN more /\ more[n] = snk[n]
    BY DEF Within
  <2>. QED BY <2>1, <2>2 DEF NumberProven
<1>. QED BY <1>1, <1>2 DEF SegmentOK, FactOK

LEMMA AnswerStays ==
    ASSUME AnswerOK, Within(sink, sink'), UNCHANGED <<gate, pieces, segments>> PROVE AnswerOK'
<1>1. \A s \in ToSet(segments) : SegmentOK(sink', s)
  BY SegmentStays DEF AnswerOK
<1>. QED BY <1>1 DEF AnswerOK

LEMMA ReturnOK ==
    ASSUME ReadsOK, NEW t \in Threads, InspectReturn(t) PROVE ReadsOK' /\ Within(sink, sink')
<1>. DEFINE p == tool[t]
            new == [kind |-> "rows", group |-> p.group, version |-> Pinned, items |-> p.items, truncated |-> p.truncated]
<1>1. PageOK(registry, p) /\ p.todo = <<>> /\ UNCHANGED <<world, registry>>
  BY DEF InspectReturn, ReadsOK
<1>2. sink' = Append(sink, new) /\ tool' = [tool EXCEPT ![t] = NoPage]
  BY DEF InspectReturn
<1>3. ResultOK(registry, new)
  <2>1. new.kind = "rows" /\ new.group = p.group /\ new.version = Pinned /\ new.items = p.items /\ new.truncated = p.truncated
    OBVIOUS
  <2>2. p.group \in Groups /\ ItemsOK(registry, p.group, p.items)
    BY <1>1 DEF PageOK
  <2>3. (~p.truncated /\ p.group = "workers") => RecordsIn(p.items) = DOMAIN WorkerRows[Pinned]
    <3>. SUFFICES ASSUME ~p.truncated, p.group = "workers" PROVE RecordsIn(p.items) = DOMAIN WorkerRows[Pinned]
      OBVIOUS
    <3>1. ToSet(p.todo) \cup RecordsIn(p.items) = DOMAIN p.rows
      BY <1>1 DEF PageOK
    <3>2. p.rows = WorkerRows[Pinned]
      BY <1>1 DEF PageOK, PinRows
    <3>3. ToSet(<<>>) = {}
      BY DEF ToSet
    <3>. QED BY <1>1, <3>1, <3>2, <3>3
  <2>. HIDE DEF new, p
  <2>. QED BY <2>1, <2>2, <2>3 DEF ResultOK
<1>. HIDE DEF new, p
<1>4. sink' \in Seq(ToSet(sink')) /\ ToSet(sink') = ToSet(sink) \cup {new} /\ Within(sink, sink')
  BY <1>2, SinkGrows DEF Within
<1>5. \A s \in ToSet(sink') : ResultOK(registry, s)
  BY <1>3, <1>4 DEF ReadsOK
<1>6. tool' = [u \in Threads |-> tool'[u]] /\ \A u \in Threads : tool'[u] = NoPage \/ PageOK(registry, tool'[u])
  <2>1. tool = [u \in Threads |-> tool[u]] /\ \A u \in Threads : tool[u] = NoPage \/ PageOK(registry, tool[u])
    BY DEF ReadsOK
  <2>2. tool' = [u \in Threads |-> IF u = t THEN NoPage ELSE tool[u]]
    BY <1>2, <2>1
  <2>. QED BY <2>1, <2>2
<1>. QED BY <1>1, <1>4, <1>5, <1>6 DEF ReadsOK

LEMMA ComputedOK ==
    ASSUME ReadsOK, NEW c \in Calculations, Compute(c) PROVE ReadsOK' /\ Within(sink, sink')
<1>. DEFINE more == HandleFor(c.id)
<1>1. UNCHANGED <<world, tool>> /\ registry' = more /\ sink' = Append(sink, c)
  BY DEF Compute
<1>2. RegistryType(more) /\ Longer(registry, more)
  BY ResultAdded DEF ReadsOK
<1>. HIDE DEF more
<1>3. sink' \in Seq(ToSet(sink')) /\ ToSet(sink') = ToSet(sink) \cup {c} /\ Within(sink, sink')
  BY <1>1, SinkGrows DEF Within
<1>4. ResultOK(more, c)
  BY DEF ResultOK
<1>5. \A s \in ToSet(sink) : ResultOK(more, s)
  BY <1>2, ResultGrows DEF ReadsOK
<1>6. \A u \in Threads : tool[u] = NoPage \/ PageOK(more, tool[u])
  BY <1>2, PageGrows DEF ReadsOK
<1>7. \A s \in ToSet(sink') : ResultOK(more, s)
  BY <1>3, <1>4, <1>5
<1>. QED BY <1>1, <1>2, <1>3, <1>6, <1>7 DEF ReadsOK

LEMMA RepliesOK ==
    ASSUME AnswerOK, CheckerOK, NEW tokens \in Replies, NEW mode, ModelReplies(tokens, mode)
    PROVE  AnswerOK' /\ CheckerOK'
<1>. DEFINE P == Pieces(Left(tokens))
<1>1. /\ gate = "tools" /\ gate' = "grounding" /\ pieces' = ParseAnswer(tokens) /\ checker' = [checker EXCEPT !.mode = mode]
      /\ UNCHANGED <<sink, segments>>
  BY DEF ModelReplies
<1>2. IsTokens(tokens)
  BY GroundingFacts
<1>3. pieces' \in Seq(P)
  BY <1>1, <1>2, ParserKeeps
<1>4. \A p \in P : p.k \in {"fact", "hole", "prose"} /\ p.body \in Seq(Left(tokens))
  BY PieceTypes DEF HasBodies
<1>. HIDE DEF P
<1>5. pieces' \in Seq(ToSet(pieces')) /\ ToSet(pieces') \subseteq P
  BY <1>3, OwnSeq
<1>6. \A p \in ToSet(pieces') : PieceOK(p)
  <2>. TAKE p \in ToSet(pieces')
  <2>1. p.k \in {"fact", "hole", "prose"} /\ p.body \in Seq(Left(tokens))
    BY <1>4, <1>5
  <2>2. p.body \in Seq(ToSet(p.body))
    BY <2>1, OwnSeq
  <2>. QED BY <2>1, <2>2 DEF PieceOK
<1>7. AnswerOK'
  <2>1. /\ gate' \in {"tools", "grounding", "checking", "done"}
        /\ segments' \in Seq(ToSet(segments')) /\ \A s \in ToSet(segments') : SegmentOK(sink', s)
        /\ gate' # "done" => \A s \in ToSet(segments') : s.k = "fact" => s.mark = NoScore
    BY <1>1 DEF AnswerOK
  <2>. QED BY <1>5, <1>6, <2>1 DEF AnswerOK
<1>8. CheckerOK'
  <2>1. DOMAIN checker = CheckerFields /\ checker = [f \in CheckerFields |-> checker[f]]
        /\ checker.batches = <<>> /\ checker.scores = {} /\ checker.skipped = 0 /\ checker.error = Missing
    BY <1>1 DEF CheckerOK
  <2>2. DOMAIN checker' = CheckerFields /\ checker' = [f \in CheckerFields |-> checker'[f]]
        /\ checker'.batches = <<>> /\ checker'.scores = {} /\ checker'.skipped = 0 /\ checker'.error = Missing
    BY <1>1, <2>1 DEF CheckerFields
  <2>. QED BY <1>1, <2>2 DEF CheckerOK
<1>. QED BY <1>7, <1>8

\* A fact that is called supported was read.
LEMMA FactGrounded ==
    ASSUME ReadsOK, NEW p, p.body \in Seq(ToSet(p.body))
    PROVE  FactOK(sink, GroundFact(p)) /\ GroundFact(p).mark = NoScore
<1>. DEFINE found == TrustedRecords(p.ev)
            row == CHOOSE y \in found : TRUE
            ref == Ref(row.group, row.record)
            broken == LocatorFailure(ref)
            s == GroundFact(p)
<1>1. ASSUME NEW failure, NEW refs
      PROVE  LET f == FactSegment(p, failure, refs)
             IN  /\ DOMAIN f = SegmentFields /\ f = [d \in SegmentFields |-> f[d]] /\ f.k = "fact" /\ f.mark = NoScore
                 /\ f.body = p.body /\ f.failure = failure /\ f.value = p.value /\ f.refs = refs
  BY DEF FactSegment, SegmentFields
<1>2. ASSUME NEW failure \in Failures, NEW refs PROVE FactOK(sink, FactSegment(p, failure, refs)) /\ FactSegment(p, failure, refs).mark = NoScore
  <2>1. failure # Missing
    BY GroundingFacts
  <2>. DEFINE f == FactSegment(p, failure, refs)
  <2>2. /\ DOMAIN f = SegmentFields /\ f = [d \in SegmentFields |-> f[d]] /\ f.k = "fact" /\ f.mark = NoScore
        /\ f.body = p.body /\ f.failure = failure
    BY <1>1
  <2>. HIDE DEF f
  <2>3. FactOK(sink, f)
    BY <2>1, <2>2 DEF FactOK
  <2>. QED BY <2>2, <2>3 DEF f
<1>3. \/ \E failure \in Failures, refs \in {<<>>} : s = FactSegment(p, failure, refs)
      \/ found # {} /\ ValueMatches(row.value, p.value) /\ broken = Missing /\ s = FactSegment(p, Missing, <<ref>>)
  <2>. HIDE DEF row, ref, found
  <2>1. s = IF found = {} THEN FactSegment(p, "missing_evidence", <<>>)
            ELSE IF row.version # Pinned THEN FactSegment(p, "version_mismatch", <<>>)
            ELSE IF p.field # "field" THEN FactSegment(p, "unknown_field", <<>>)
            ELSE IF ~ValueMatches(row.value, p.value) THEN FactSegment(p, "value_mismatch", <<>>)
            ELSE IF broken = "version_mismatch" THEN FactSegment(p, broken, <<>>)
            ELSE IF broken # Missing THEN FactSegment(p, "missing_evidence", <<>>)
            ELSE FactSegment(p, Missing, <<ref>>)
    BY DEF GroundFact, row, ref, found
  <2>. HIDE DEF s, broken
  <2>2. {"missing_evidence", "version_mismatch", "unknown_field", "value_mismatch"} \subseteq Failures
    BY DEF Failures
  <2>. QED BY <2>1, <2>2
<1>4. CASE \E failure \in Failures, refs \in {<<>>} : s = FactSegment(p, failure, refs)
  <2>1. PICK failure \in Failures, refs \in {<<>>} : s = FactSegment(p, failure, refs)
    BY <1>4
  <2>. QED BY <1>2, <2>1
<1>5. CASE found # {} /\ ValueMatches(row.value, p.value) /\ broken = Missing /\ s = FactSegment(p, Missing, <<ref>>)
  <2>1. row \in found
    BY <1>5
  <2>. HIDE DEF row
  <2>2. PICK n \in {m \in DOMAIN sink : sink[m].kind = "rows"} :
           row \in {[group |-> sink[n].group, version |-> sink[n].version, record |-> x.record, value |-> x.value] :
                      x \in {y \in ToSet(sink[n].items) : y.ev = p.ev}}
    BY <2>1 DEF TrustedRecords
  <2>3. PICK x \in ToSet(sink[n].items) :
           row = [group |-> sink[n].group, version |-> sink[n].version, record |-> x.record, value |-> x.value]
    BY <2>2
  <2>4. row.group = sink[n].group /\ row.record = x.record /\ row.value = x.value
    BY <2>3
  <2>5. sink[n] \in ToSet(sink) /\ sink[n].kind = "rows" /\ n \in DOMAIN sink
    BY <2>2 DEF ToSet
  <2>6. sink[n] \notin Calculations
    BY <2>5, GroundingFacts
  <2>7. sink[n].group \in Groups /\ ItemOK(registry, sink[n].group, x)
    BY <2>5, <2>6 DEF ReadsOK, ResultOK, ItemsOK
  <2>8. PICK b \in {1, 2} : x.record \in DOMAIN PinRows(sink[n].group, b) /\ x.value = PinRows(sink[n].group, b)[x.record]
    BY <2>7 DEF ItemOK
  <2>9. ref.group = row.group /\ ref.record = row.record /\ ref.version = Pinned
    <3>1. ref.group = row.group /\ ref.record = row.record
      BY DEF Ref
    <3>2. ref.version = Pinned
      <4>1. "version_mismatch" # Missing
        BY GroundingFacts DEF Failures
      <4>. HIDE DEF ref
      <4>. QED BY <1>5, <4>1 DEF LocatorFailure
    <3>. QED BY <3>1, <3>2
  <2>. HIDE DEF ref
  <2>. DEFINE refs == <<ref>>
              f == FactSegment(p, Missing, refs)
  <2>10. /\ DOMAIN f = SegmentFields /\ f = [d \in SegmentFields |-> f[d]] /\ f.k = "fact" /\ f.mark = NoScore
         /\ f.body = p.body /\ f.value = p.value /\ f.refs = refs
    BY <1>1
  <2>11. Len(refs) = 1 /\ refs[1] = ref
    OBVIOUS
  <2>. HIDE DEF f, refs
  <2>12. b \in DOMAIN AssignmentRows
    BY GroundingFacts
  <2>13. FactRead(sink, f)
    <3>1. f.refs[1] = ref /\ Len(f.refs) = 1
      BY <2>10, <2>11
    <3>2. \E m \in DOMAIN sink :
                /\ sink[m].kind = "rows" /\ sink[m].group = ref.group
                /\ \E z \in ToSet(sink[m].items) : z.record = ref.record /\ ValueMatches(z.value, f.value)
      BY <1>5, <2>3, <2>4, <2>5, <2>9, <2>10
    <3>3. \E d \in DOMAIN AssignmentRows :
                LET rows == IF ref.group = "workers" THEN WorkerRows[Pinned] ELSE AssignmentRows[d]
                IN  ref.record \in DOMAIN rows /\ ValueMatches(rows[ref.record], f.value)
      <4>1. ref.record \in DOMAIN PinRows(ref.group, b) /\ ValueMatches(PinRows(ref.group, b)[ref.record], f.value)
        BY <1>5, <2>4, <2>8, <2>9, <2>10
      <4>. QED BY <2>12, <4>1 DEF PinRows
    <3>. QED BY <2>9, <3>1, <3>2, <3>3 DEF FactRead
  <2>14. FactOK(sink, f)
    BY <2>10, <2>13 DEF FactOK
  <2>. QED BY <1>5, <2>10, <2>14 DEF f, refs
<1>. QED BY <1>3, <1>4, <1>5

\* A number that is called supported has a trusted result and its locators.
LEMMA ClaimGrounded ==
    ASSUME ReadsOK, NEW p
    PROVE  LET s == GroundClaim(p) IN s.k = "claim" /\ (s.failure = Missing => NumberProven(sink, s))
<1>. DEFINE found == TrustedResults(p.h)
            c == CHOOSE x \in found : TRUE
            refs == [i \in DOMAIN c.refs |-> [group |-> c.refs[i][1], record |-> c.refs[i][2], version |-> c.version]]
            bad == {LocatorFailure(refs[i]) : i \in DOMAIN refs} \ {Missing}
            s == GroundClaim(p)
<1>1. ASSUME NEW h, NEW failure, NEW value, NEW rs
      PROVE  LET f == ClaimSegment(h, failure, value, rs) IN f.k = "claim" /\ f.failure = failure /\ f.value = value /\ f.refs = rs
  BY DEF ClaimSegment
<1>2. s = IF found = {} THEN ClaimSegment(p.h, "missing_evidence", Missing, <<>>)
          ELSE IF c.version # Pinned THEN ClaimSegment(p.h, "version_mismatch", Missing, <<>>)
          ELSE IF Len(c.refs) # c.rows THEN ClaimSegment(p.h, "calculation_failed", Missing, <<>>)
          ELSE IF c.refs = <<>> /\ c.value # 0 THEN ClaimSegment(p.h, "calculation_failed", Missing, <<>>)
          ELSE IF bad # {} THEN ClaimSegment(p.h, CHOOSE f \in bad : TRUE, Missing, <<>>)
          ELSE ClaimSegment(p.h, Missing, c.value, refs)
  BY DEF GroundClaim
<1>3. bad # {} => (CHOOSE f \in bad : TRUE) # Missing
  <2>1. Missing \notin bad
    OBVIOUS
  <2>. HIDE DEF bad
  <2>. QED BY <2>1
<1>4. "missing_evidence" # Missing /\ "version_mismatch" # Missing /\ "calculation_failed" # Missing
  BY GroundingFacts DEF Failures
<1>5. \/ s.k = "claim" /\ s.failure # Missing
      \/ /\ found # {} /\ c.version = Pinned /\ Len(c.refs) = c.rows /\ ~(c.refs = <<>> /\ c.value # 0)
         /\ s = ClaimSegment(p.h, Missing, c.value, refs)
  <2>. HIDE DEF found, c, refs, bad, s
  <2>. QED BY <1>1, <1>2, <1>3, <1>4
<1>6. CASE /\ found # {} /\ c.version = Pinned /\ Len(c.refs) = c.rows /\ ~(c.refs = <<>> /\ c.value # 0)
           /\ s = ClaimSegment(p.h, Missing, c.value, refs)
  <2>1. c \in found
    BY <1>6
  <2>. HIDE DEF c
  <2>2. PICK n \in DOMAIN sink : c = sink[n] /\ sink[n].kind = "calc"
    BY <2>1 DEF TrustedResults
  <2>3. c \in Calculations
    <3>1. c \in ToSet(sink) /\ c.kind # "rows"
      BY <2>2 DEF ToSet
    <3>. QED BY <3>1 DEF ReadsOK, ResultOK
  <2>4. c.refs \in Seq(ToSet(c.refs)) /\ Len(c.refs) \in Nat /\ DOMAIN c.refs = 1..Len(c.refs)
    <3>1. c.refs \in Seq(ToSet(c.refs))
      BY <2>3, GroundingFacts
    <3>. QED BY <3>1, LenProperties
  <2>5. refs = [i \in 1..Len(c.refs) |-> refs[i]] /\ \A i \in 1..Len(c.refs) : refs[i].version = c.version
    BY <2>4
  <2>. HIDE DEF refs
  <2>6. Len(refs) = Len(c.refs) /\ DOMAIN refs = 1..Len(c.refs)
    BY <2>4, <2>5, ListIsSeq
  <2>7. \A x \in ToSet(refs) : x.version = Pinned
    BY <1>6, <2>5, <2>6 DEF ToSet
  <2>8. c.rows = 0 => c.value = 0
    BY <1>6, <2>4, EmptySeq
  <2>9. s.k = "claim" /\ s.value = c.value /\ s.refs = refs
    BY <1>1, <1>6
  <2>. HIDE DEF s
  <2>10. NumberProven(sink, s)
    BY <1>6, <2>2, <2>6, <2>7, <2>8, <2>9 DEF NumberProven
  <2>. QED BY <2>9, <2>10 DEF s
<1>. HIDE DEF s, found, c, refs
<1>7. s.k = "claim" /\ (s.failure = Missing => NumberProven(sink, s))
  BY <1>5, <1>6 DEF s
<1>. QED BY <1>7 DEF s

LEMMA PieceGrounded ==
    ASSUME ReadsOK, AnswerOK, CheckerOK, GroundPiece PROVE AnswerOK' /\ CheckerOK'
<1>. DEFINE p == pieces[Len(segments) + 1]
            new == CASE p.k = "fact" -> GroundFact(p) [] p.k = "hole" -> GroundClaim(p) [] OTHER -> p
            Y == ToSet(segments) \cup {new}
<1>1. /\ gate = "grounding" /\ Len(segments) < Len(pieces) /\ segments' = Append(segments, new)
      /\ UNCHANGED <<sink, gate, pieces, checker>>
  BY DEF GroundPiece
<1>2. /\ pieces \in Seq(ToSet(pieces)) /\ (\A q \in ToSet(pieces) : PieceOK(q))
      /\ segments \in Seq(ToSet(segments)) /\ (\A s \in ToSet(segments) : SegmentOK(sink, s))
      /\ \A s \in ToSet(segments) : s.k = "fact" => s.mark = NoScore
  BY <1>1 DEF AnswerOK
<1>3. PieceOK(p)
  <2>1. Len(segments) \in Nat /\ Len(pieces) \in Nat /\ DOMAIN pieces = 1..Len(pieces)
    BY <1>2, LenProperties
  <2>2. Len(segments) + 1 \in DOMAIN pieces
    BY <1>1, <2>1
  <2>3. p \in ToSet(pieces)
    BY <2>2 DEF ToSet
  <2>. QED BY <1>2, <2>3
<1>. HIDE DEF p
<1>4. SegmentOK(sink, new) /\ (new.k = "fact" => new.mark = NoScore)
  <2>0. p.k \in {"fact", "hole", "prose"} /\ p.body \in Seq(ToSet(p.body))
    BY <1>3 DEF PieceOK
  <2>1. CASE p.k = "fact"
    <3>1. new = GroundFact(p)
      BY <2>1
    <3>2. FactOK(sink, GroundFact(p)) /\ GroundFact(p).mark = NoScore
      BY <2>0, FactGrounded
    <3>. HIDE DEF new
    <3>. QED BY <3>1, <3>2 DEF SegmentOK
  <2>2. CASE p.k = "hole"
    <3>1. new = GroundClaim(p)
      BY <2>2
    <3>2. GroundClaim(p).k = "claim" /\ (GroundClaim(p).failure = Missing => NumberProven(sink, GroundClaim(p)))
      BY ClaimGrounded
    <3>. HIDE DEF new
    <3>. QED BY <3>1, <3>2 DEF SegmentOK
  <2>3. CASE p.k = "prose"
    <3>1. new = p
      BY <2>3
    <3>. HIDE DEF new
    <3>. QED BY <2>3, <3>1 DEF SegmentOK
  <2>. QED BY <2>0, <2>1, <2>2, <2>3
<1>. HIDE DEF new
<1>5. segments' \in Seq(Y) /\ ToSet(segments') = ToSet(segments) \cup {new}
  <2>1. ToSet(segments) \subseteq Y /\ new \in Y
    OBVIOUS
  <2>2. \A A, B : A \subseteq B => Seq(A) \subseteq Seq(B)
    OBVIOUS
  <2>. HIDE DEF Y
  <2>3. segments \in Seq(Y)
    BY <1>2, <2>1, <2>2
  <2>. QED BY <1>1, <2>1, <2>3, SetAppend
<1>6. segments' \in Seq(ToSet(segments'))
  BY <1>5, OwnSeq
<1>7. AnswerOK'
  <2>1. \A s \in ToSet(segments') : SegmentOK(sink, s) /\ (s.k = "fact" => s.mark = NoScore)
    BY <1>2, <1>4, <1>5
  <2>. QED BY <1>1, <1>2, <1>6, <2>1 DEF AnswerOK
<1>8. CheckerOK'
  <2>1. gate' = "grounding" /\ gate' # "checking" /\ gate' # "done"
    BY <1>1
  <2>. QED BY <1>1, <2>1 DEF CheckerOK
<1>. QED BY <1>7, <1>8

\* The items asked about are the facts worth a question, and each has a weight.
LEMMA ItemsAre ==
    ASSUME AnswerOK
    PROVE  /\ CheckItems \in Seq(Worth(segments)) /\ ToSet(CheckItems) = Worth(segments)
           /\ Worth(segments) = {} <=> CheckItems = <<>>
           /\ Weighed(segments, Worth(segments))
<1>. DEFINE n == Len(segments)
            K == Worth(segments)
<1>1. n \in Nat /\ DOMAIN segments = 1..n /\ \A i \in 1..n : segments[i] \in ToSet(segments)
  <2>1. segments \in Seq(ToSet(segments))
    BY DEF AnswerOK
  <2>. QED BY <2>1, LenProperties DEF ToSet
<1>2. K \in SUBSET (1..n)
  BY DEF Worth
<1>3. IsFiniteSet(K) /\ K \in SUBSET Nat
  <2>1. 1 \in Int /\ n \in Int
    BY <1>1
  <2>2. IsFiniteSet(1..n)
    BY <2>1, FS_Interval
  <2>3. IsFiniteSet(K)
    BY <1>2, <2>2, FS_Subset
  <2>4. 1..n \subseteq Nat
    OBVIOUS
  <2>. QED BY <1>2, <2>3, <2>4
<1>5. /\ Cardinality(K) \in Nat /\ InOrder(K) \in Seq(K) /\ Len(InOrder(K)) = Cardinality(K) /\ InOrder(K) \in [1..Cardinality(K) -> K]
      /\ \A i \in K : \E m \in 1..Cardinality(K) : InOrder(K)[m] = i
  <2>. HIDE DEF K
  <2>. QED BY <1>3, InOrderLists
<1>4. CheckItems = InOrder(K)
  <2>1. CheckItems = [m \in DOMAIN InOrder(K) |-> InOrder(K)[m]]
    BY DEF CheckItems, Rows, Worth
  <2>2. InOrder(K) = [m \in DOMAIN InOrder(K) |-> InOrder(K)[m]]
    <3>. DEFINE o == InOrder(K)
    <3>1. o \in [1..Cardinality(K) -> K]
      BY <1>5
    <3>. HIDE DEF o
    <3>2. o = [m \in DOMAIN o |-> o[m]]
      BY <3>1
    <3>. QED BY <3>2 DEF o
  <2>. QED BY <2>1, <2>2
<1>. HIDE DEF K
<1>6. ToSet(InOrder(K)) = K
  <2>1. DOMAIN InOrder(K) = 1..Cardinality(K) /\ \A m \in 1..Cardinality(K) : InOrder(K)[m] \in K
    BY <1>5
  <2>. QED BY <1>5, <2>1 DEF ToSet
<1>7. K = {} <=> InOrder(K) = <<>>
  <2>1. ToSet(<<>>) = {}
    BY DEF ToSet
  <2>2. K = {} => Cardinality(K) = 0
    BY FS_EmptySet
  <2>. QED BY <1>5, <1>6, <2>1, <2>2, EmptySeq
<1>8. ASSUME NEW i \in K PROVE Weight(segments, i) \in Nat
  <2>1. i \in 1..n /\ segments[i].k = "fact"
    BY DEF K, Worth
  <2>2. SegmentOK(sink, segments[i])
    BY <1>1, <2>1 DEF AnswerOK
  <2>3. segments[i].body \in Seq(ToSet(segments[i].body))
    BY <2>1, <2>2 DEF SegmentOK, FactOK
  <2>4. Len(segments[i].body) \in Nat
    BY <2>3, LenProperties
  <2>. QED BY <2>4 DEF Weight
<1>. QED BY <1>4, <1>5, <1>6, <1>7, <1>8 DEF K, Weighed

LEMMA GroundingEndsOK ==
    ASSUME AnswerOK, CheckerOK, GroundingEnds PROVE AnswerOK' /\ CheckerOK'
<1>. DEFINE items == CheckItems
            W == Worth(segments)
            sent == Batches(items).sent
            skipped == Batches(items).skipped
            err == IF skipped > 0 /\ sent = <<>> THEN "all_skipped" ELSE Missing
<1>1. /\ gate = "grounding" /\ gate' = (IF checker.mode = "off" \/ items = <<>> THEN "done" ELSE "checking")
      /\ checker' = (IF gate' = "done" THEN checker
                     ELSE [checker EXCEPT !.batches = sent, !.skipped = skipped, !.error = err])
      /\ UNCHANGED <<sink, pieces, segments>>
  BY DEF GroundingEnds
<1>2. items \in Seq(W) /\ ToSet(items) = W /\ (W = {} <=> items = <<>>) /\ Weighed(segments, W)
  BY ItemsAre
<1>. HIDE DEF items, W
<1>3. /\ sent \in Seq(Seq(W)) /\ (\A b \in ToSet(sent) : Fits(b))
      /\ skipped = 0 => \A i \in ToSet(items) : \E b \in ToSet(sent) : i \in ToSet(b)
  BY <1>2, GroundingFacts, BatchesAre
<1>. HIDE DEF sent, skipped, err
<1>4. DOMAIN checker = CheckerFields /\ checker = [f \in CheckerFields |-> checker[f]]
      /\ checker.batches = <<>> /\ checker.scores = {} /\ checker.skipped = 0 /\ checker.error = Missing
  BY <1>1 DEF CheckerOK
<1>5. \A s \in ToSet(segments) : s.k = "fact" => s.mark = NoScore
  BY <1>1 DEF AnswerOK
<1>6. AnswerOK'
  BY <1>1, <1>5 DEF AnswerOK
<1>7. CASE checker.mode = "off" \/ items = <<>>
  <2>1. gate' = "done" /\ checker' = checker
    BY <1>1, <1>7
  <2>2. \A s \in ToSet(segments') : Marked(s, checker')
    <3>1. NoScore.score = Missing /\ NoScore.flagged = FALSE
      BY DEF NoScore
    <3>. QED BY <1>1, <1>5, <3>1 DEF Marked
  <2>3. (checker'.error = Missing /\ checker'.mode # "off" /\ checker'.skipped = 0) =>
              \A i \in Worth(segments') : ScoredIn(checker'.scores, i)
    <3>1. checker'.mode # "off" => Worth(segments') = {}
      BY <1>1, <1>2, <1>7, <2>1 DEF W
    <3>. QED BY <3>1
  <2>. QED BY <1>4, <1>6, <2>1, <2>2, <2>3 DEF CheckerOK
<1>8. CASE ~(checker.mode = "off" \/ items = <<>>)
  <2>1. gate' = "checking" /\ checker' = [checker EXCEPT !.batches = sent, !.skipped = skipped, !.error = err]
    BY <1>1, <1>8
  <2>2. /\ DOMAIN checker' = CheckerFields /\ checker' = [f \in CheckerFields |-> checker'[f]]
        /\ checker'.batches = sent /\ checker'.scores = {} /\ checker'.skipped = skipped /\ checker'.mode = checker.mode
    BY <1>4, <2>1 DEF CheckerFields
  <2>3. segments' = segments /\ W = Worth(segments')
    BY <1>1 DEF W
  <2>4. \A b \in ToSet(checker'.batches) : CostOf(segments', b) <= TokenBudget
    BY <1>3, <2>2, <2>3 DEF Fits
  <2>5. checker'.scores \in SUBSET (Worth(segments') \X {0, 100})
    BY <2>2
  <2>6. checker'.skipped = 0 => \A i \in Worth(segments') : \E b \in ToSet(checker'.batches) : i \in ToSet(b)
    BY <1>2, <1>3, <2>2, <2>3
  <2>7. checker'.batches \in Seq(Seq(Worth(segments'))) /\ checker'.mode # "off"
    BY <1>3, <1>8, <2>2, <2>3
  <2>8. checker'.skipped = 0 => NoneLost(Worth(segments'), checker'.scores, checker'.batches)
    BY <2>6 DEF NoneLost
  <2>. QED BY <1>6, <2>1, <2>2, <2>4, <2>5, <2>7, <2>8 DEF CheckerOK
<1>. QED BY <1>6, <1>7, <1>8

LEMMA TailSet ==
    ASSUME NEW X, NEW s \in Seq(X), s # <<>>
    PROVE  Tail(s) \in Seq(X) /\ Head(s) \in X /\ ToSet(s) = {Head(s)} \cup ToSet(Tail(s))
<1>1. Len(s) \in Nat /\ Len(s) >= 1 /\ DOMAIN s = 1..Len(s) /\ Head(s) = s[1] /\ Head(s) \in X
  BY LenProperties, EmptySeq, HeadTailProperties
<1>2. /\ Tail(s) \in Seq(X) /\ Len(Tail(s)) = Len(s) - 1 /\ DOMAIN Tail(s) = 1..(Len(s) - 1)
      /\ \A i \in 1..Len(Tail(s)) : Tail(s)[i] = s[i + 1]
  BY <1>1, HeadTailProperties, LenProperties
<1>3. ASSUME NEW y \in ToSet(s) PROVE y \in {Head(s)} \cup ToSet(Tail(s))
  <2>1. PICK i \in 1..Len(s) : y = s[i]
    BY <1>1 DEF ToSet
  <2>2. CASE i = 1
    BY <1>1, <2>1, <2>2
  <2>3. CASE i # 1
    <3>1. i - 1 \in 1..(Len(s) - 1) /\ (i - 1) + 1 = i
      BY <1>1, <2>3
    <3>2. Tail(s)[i - 1] = y
      BY <1>2, <2>1, <3>1
    <3>. QED BY <1>2, <3>1, <3>2 DEF ToSet
  <2>. QED BY <2>2, <2>3
<1>4. ASSUME NEW y \in ToSet(Tail(s)) PROVE y \in ToSet(s)
  <2>1. PICK i \in 1..(Len(s) - 1) : y = Tail(s)[i]
    BY <1>2 DEF ToSet
  <2>2. y = s[i + 1] /\ i + 1 \in 1..Len(s)
    BY <1>1, <1>2, <2>1
  <2>. QED BY <1>1, <2>2 DEF ToSet
<1>5. Head(s) \in ToSet(s)
  BY <1>1 DEF ToSet
<1>. QED BY <1>1, <1>2, <1>3, <1>4, <1>5

\* A checker that goes on: fewer batches, more scores or an error.
LEMMA CheckingOK ==
    ASSUME CheckerOK, gate = "checking", UNCHANGED <<gate, segments>>,
           DOMAIN checker' = CheckerFields, checker' = [f \in CheckerFields |-> checker'[f]], checker'.mode = checker.mode,
           checker'.batches \in Seq(Seq(Worth(segments))), ToSet(checker'.batches) \subseteq ToSet(checker.batches),
           checker'.scores \in SUBSET (Worth(segments) \X {0, 100}),
           (checker'.error = Missing /\ checker'.skipped = 0) => NoneLost(Worth(segments), checker'.scores, checker'.batches)
    PROVE  CheckerOK'
<1>1. checker.mode # "off" /\ \A b \in ToSet(checker.batches) : CostOf(segments, b) <= TokenBudget
  BY DEF CheckerOK
<1>2. gate' = "checking" /\ gate' # "done" /\ segments' = segments
  OBVIOUS
<1>3. \A b \in ToSet(checker'.batches) : CostOf(segments', b) <= TokenBudget
  BY <1>1
<1>4. /\ checker'.mode # "off" /\ checker'.batches \in Seq(Seq(Worth(segments')))
      /\ checker'.scores \in SUBSET (Worth(segments') \X {0, 100})
      /\ (checker'.error = Missing /\ checker'.skipped = 0) => NoneLost(Worth(segments'), checker'.scores, checker'.batches)
  BY <1>1, <1>2
<1>. QED BY <1>2, <1>3, <1>4 DEF CheckerOK

LEMMA BatchOK ==
    ASSUME CheckerOK, (\E s \in {0, 100} : BatchScored(s)) \/ BatchFails("bad_response") \/ CheckDeadline
    PROVE  CheckerOK'
<1>. DEFINE W == Worth(segments)
            head == Head(checker.batches)
            tail == Tail(checker.batches)
<1>1. gate = "checking" /\ checker.batches # <<>> /\ UNCHANGED <<gate, segments>>
  BY DEF BatchScored, BatchFails, CheckDeadline
<1>2. /\ DOMAIN checker = CheckerFields /\ checker = [f \in CheckerFields |-> checker[f]]
      /\ checker.batches \in Seq(Seq(W)) /\ checker.scores \in SUBSET (W \X {0, 100})
      /\ (checker.error = Missing /\ checker.skipped = 0) => NoneLost(W, checker.scores, checker.batches)
  BY <1>1 DEF CheckerOK
<1>3. tail \in Seq(Seq(W)) /\ head \in Seq(W) /\ ToSet(checker.batches) = {head} \cup ToSet(tail)
  <2>. HIDE DEF W
  <2>. QED BY <1>1, <1>2, TailSet
<1>4. \A i \in ToSet(head) : i \in W
  <2>1. ToSet(head) \subseteq W
    BY <1>3, OwnSeq
  <2>. QED BY <2>1
<1>. HIDE DEF W, head, tail
<1>5. Missing \notin {"timeout", "bad_response"} /\ FirstError("timeout") # Missing /\ FirstError("bad_response") # Missing
  BY GroundingFacts DEF FirstError
<1>6. ASSUME NEW s \in {0, 100}, BatchScored(s) PROVE CheckerOK'
  <2>. DEFINE scores == checker.scores \cup {<<i, s>> : i \in ToSet(head)}
              skipped == checker.skipped
              error == checker.error
  <2>1. checker' = [checker EXCEPT !.batches = tail, !.scores = scores]
    BY <1>6 DEF BatchScored, head, tail
  <2>2. scores \in SUBSET (W \X {0, 100})
    BY <1>2, <1>4
  <2>3. (error = Missing /\ skipped = 0) => NoneLost(W, scores, tail)
    <3>. SUFFICES ASSUME error = Missing, skipped = 0, NEW i \in W PROVE ScoredIn(scores, i) \/ \E b \in ToSet(tail) : i \in ToSet(b)
      BY DEF NoneLost
    <3>1. ScoredIn(checker.scores, i) \/ \E b \in ToSet(checker.batches) : i \in ToSet(b)
      BY <1>2 DEF NoneLost
    <3>2. CASE ScoredIn(checker.scores, i)
      BY <3>2 DEF ScoredIn
    <3>3. CASE i \in ToSet(head)
      <4>1. <<i, s>> \in scores /\ <<i, s>>[1] = i
        BY <3>3
      <4>. QED BY <4>1 DEF ScoredIn
    <3>4. CASE \E b \in ToSet(tail) : i \in ToSet(b)
      BY <3>4
    <3>. QED BY <1>3, <3>1, <3>2, <3>3, <3>4
  <2>. HIDE DEF scores
  <2>4. /\ DOMAIN checker' = CheckerFields /\ checker' = [f \in CheckerFields |-> checker'[f]] /\ checker'.mode = checker.mode
        /\ checker'.batches = tail /\ checker'.scores = scores /\ checker'.skipped = skipped /\ checker'.error = error
    BY <1>2, <2>1 DEF CheckerFields
  <2>. HIDE DEF skipped, error
  <2>5. tail \in Seq(Seq(Worth(segments))) /\ ToSet(tail) \subseteq ToSet(checker.batches) /\ scores \in SUBSET (Worth(segments) \X {0, 100})
    BY <1>3, <2>2 DEF W
  <2>6. (error = Missing /\ skipped = 0) => NoneLost(Worth(segments), scores, tail)
    BY <2>3 DEF W
  <2>. QED BY <1>1, <2>4, <2>5, <2>6, CheckingOK
<1>7. ASSUME BatchFails("bad_response") PROVE CheckerOK'
  <2>. DEFINE scores == checker.scores
              skipped == checker.skipped
              error == FirstError("bad_response")
  <2>1. checker' = [checker EXCEPT !.batches = tail, !.error = error]
    BY <1>7 DEF BatchFails, tail
  <2>2. error # Missing
    BY <1>5
  <2>. HIDE DEF error
  <2>3. /\ DOMAIN checker' = CheckerFields /\ checker' = [f \in CheckerFields |-> checker'[f]] /\ checker'.mode = checker.mode
        /\ checker'.batches = tail /\ checker'.scores = scores /\ checker'.error = error
    BY <1>2, <2>1 DEF CheckerFields
  <2>4. tail \in Seq(Seq(Worth(segments))) /\ ToSet(tail) \subseteq ToSet(checker.batches) /\ scores \in SUBSET (Worth(segments) \X {0, 100})
    BY <1>2, <1>3 DEF W
  <2>. HIDE DEF scores, skipped
  <2>. QED BY <1>1, <2>2, <2>3, <2>4, CheckingOK
<1>8. ASSUME CheckDeadline PROVE CheckerOK'
  <2>. DEFINE scores == checker.scores
              skipped == checker.skipped + Len(FlattenSeq(checker.batches))
              error == FirstError("timeout")
              none == <<>>
  <2>1. checker' = [checker EXCEPT !.batches = none, !.error = error, !.skipped = skipped]
    BY <1>8 DEF CheckDeadline
  <2>2. error # Missing
    BY <1>5
  <2>4. none \in Seq(Seq(Worth(segments))) /\ ToSet(none) \subseteq ToSet(checker.batches) /\ scores \in SUBSET (Worth(segments) \X {0, 100})
    BY <1>2 DEF W, ToSet
  <2>. HIDE DEF error, none, skipped
  <2>3. /\ DOMAIN checker' = CheckerFields /\ checker' = [f \in CheckerFields |-> checker'[f]] /\ checker'.mode = checker.mode
        /\ checker'.batches = none /\ checker'.scores = scores /\ checker'.error = error
    BY <1>2, <2>1 DEF CheckerFields
  <2>. HIDE DEF scores
  <2>. QED BY <1>1, <2>2, <2>3, <2>4, CheckingOK
<1>. QED BY <1>6, <1>7, <1>8

\* Only a mark is added: a segment stays supported, and stays worth its question.
LEMMA CheckEndsOK ==
    ASSUME AnswerOK, CheckerOK, CheckEnds PROVE AnswerOK' /\ CheckerOK'
<1>. DEFINE n == Len(segments)
            mark(i) == [score |-> IF Scored(i) THEN ScoreOf(i) ELSE Missing, flagged |-> Flagged(i)]
            new(i) == IF segments[i].k # "fact" THEN segments[i] ELSE [segments[i] EXCEPT !.mark = mark(i)]
            W == Worth(segments)
<1>1. /\ gate = "checking" /\ gate' = "done" /\ checker.batches = <<>> /\ segments' = [i \in DOMAIN segments |-> new(i)]
      /\ UNCHANGED <<sink, pieces, checker>>
  BY DEF CheckEnds
<1>2. segments \in Seq(ToSet(segments)) /\ n \in Nat /\ DOMAIN segments = 1..n /\ \A i \in 1..n : segments[i] \in ToSet(segments)
  <2>1. segments \in Seq(ToSet(segments))
    BY DEF AnswerOK
  <2>. QED BY <2>1, LenProperties DEF ToSet
<1>3. \A i \in 1..n : SegmentOK(sink, segments[i])
  BY <1>2 DEF AnswerOK
<1>4. /\ DOMAIN checker = CheckerFields /\ checker = [f \in CheckerFields |-> checker[f]] /\ checker.mode # "off"
      /\ checker.scores \in SUBSET (W \X {0, 100})
      /\ (checker.error = Missing /\ checker.skipped = 0) => NoneLost(W, checker.scores, checker.batches)
  BY <1>1 DEF CheckerOK
<1>5. \A i : Scored(i) = ScoredIn(checker.scores, i)
  BY DEF Scored, ScoredIn
<1>6. ASSUME NEW i, Scored(i) PROVE i \in W /\ ScoreOf(i) # Missing
  <2>1. \E x \in checker.scores : x[1] = i
    BY <1>6 DEF Scored
  <2>. DEFINE y == CHOOSE x \in checker.scores : x[1] = i
  <2>2. y \in checker.scores /\ y[1] = i /\ ScoreOf(i) = y[2]
    BY <2>1 DEF ScoreOf
  <2>. HIDE DEF y, W
  <2>3. y \in W \X {0, 100}
    BY <1>4, <2>2
  <2>4. y[1] \in W /\ y[2] \in {0, 100}
    BY <2>3
  <2>. QED BY <2>2, <2>4, GroundingFacts
<1>7. ASSUME NEW i \in 1..n, segments[i].k = "fact"
      PROVE  /\ new(i).k = "fact" /\ new(i).body = segments[i].body /\ new(i).value = segments[i].value
             /\ new(i).failure = segments[i].failure /\ new(i).refs = segments[i].refs /\ new(i).mark = mark(i)
             /\ DOMAIN new(i) = SegmentFields /\ new(i) = [f \in SegmentFields |-> new(i)[f]]
  <2>. DEFINE s == segments[i]
              m == mark(i)
  <2>1. DOMAIN s = SegmentFields /\ s = [f \in SegmentFields |-> s[f]]
    BY <1>3, <1>7 DEF SegmentOK, FactOK
  <2>2. new(i) = [s EXCEPT !.mark = m]
    BY <1>7
  <2>. DEFINE q == new(i)
  <2>. HIDE DEF m, q, s
  <2>3. /\ q.k = s.k /\ q.body = s.body /\ q.value = s.value
        /\ q.failure = s.failure /\ q.refs = s.refs /\ q.mark = m
        /\ DOMAIN q = SegmentFields /\ q = [f \in SegmentFields |-> q[f]]
    BY <2>1, <2>2 DEF SegmentFields, q
  <2>. QED BY <1>7, <2>3 DEF q, s, m
<1>8. \A i \in 1..n : segments[i].k # "fact" => new(i) = segments[i]
  OBVIOUS
<1>9. segments' = [i \in 1..n |-> segments'[i]] /\ \A i \in 1..n : segments'[i] = new(i)
  <2>. HIDE DEF new
  <2>. QED BY <1>1, <1>2
<1>10. segments' \in Seq(ToSet(segments')) /\ Len(segments') = n /\ DOMAIN segments' = 1..n
  BY <1>2, <1>9, ListIsSeq
<1>. HIDE DEF new, mark, n
<1>11. ASSUME NEW i \in 1..n PROVE SegmentOK(sink, new(i)) /\ Marked(new(i), checker)
  <2>1. CASE segments[i].k # "fact"
    <3>1. new(i) = segments[i]
      BY <1>8, <2>1
    <3>. QED BY <1>3, <2>1, <3>1 DEF Marked
  <2>2. CASE segments[i].k = "fact"
    <3>. DEFINE s == segments[i]
                q == new(i)
    <3>1. /\ q.k = "fact" /\ q.body = s.body /\ q.value = s.value /\ q.failure = s.failure /\ q.refs = s.refs /\ q.mark = mark(i)
          /\ DOMAIN q = SegmentFields /\ q = [f \in SegmentFields |-> q[f]]
      BY <1>7, <2>2
    <3>2. FactOK(sink, s)
      BY <1>3, <2>2 DEF SegmentOK
    <3>3. q.failure = Missing => FactRead(sink, q)
      <4>1. s.failure = Missing => FactRead(sink, s)
        BY <3>2 DEF FactOK
      <4>. HIDE DEF s, q
      <4>. QED BY <3>1, <4>1 DEF FactRead
    <3>. HIDE DEF q, s
    <3>4. SegmentOK(sink, q)
      BY <3>1, <3>2, <3>3 DEF SegmentOK, FactOK
    <3>5. mark(i).score = (IF Scored(i) THEN ScoreOf(i) ELSE Missing) /\ mark(i).flagged = Flagged(i)
      BY DEF mark
    <3>6. Scored(i) => s.failure = Missing
      BY <1>6 DEF Worth, W, s
    <3>7. Flagged(i) => Scored(i)
      BY DEF Flagged
    <3>8. Marked(q, checker)
      BY <1>4, <1>6, <3>1, <3>5, <3>6, <3>7 DEF Marked
    <3>. QED BY <3>4, <3>8 DEF q
  <2>. QED BY <2>1, <2>2
<1>12. \A s \in ToSet(segments') : SegmentOK(sink, s) /\ Marked(s, checker)
  BY <1>9, <1>10, <1>11 DEF ToSet
<1>13. Worth(segments') = W
  <2>1. ASSUME NEW i \in 1..n
        PROVE  (segments'[i].k = "fact" /\ segments'[i].failure = Missing /\ ~Bare(segments'[i]))
               <=> (segments[i].k = "fact" /\ segments[i].failure = Missing /\ ~Bare(segments[i]))
    <3>1. CASE segments[i].k # "fact"
      BY <1>8, <1>9, <3>1
    <3>2. CASE segments[i].k = "fact"
      BY <1>7, <1>9, <3>2 DEF Bare
    <3>. QED BY <3>1, <3>2
  <2>2. Len(segments') = n /\ Len(segments) = n
    BY <1>10 DEF n
  <2>. QED BY <2>1, <2>2 DEF Worth, W
<1>14. AnswerOK'
  <2>1. pieces' \in Seq(ToSet(pieces')) /\ \A p \in ToSet(pieces') : PieceOK(p)
    BY <1>1 DEF AnswerOK
  <2>. QED BY <1>1, <1>10, <1>12, <2>1 DEF AnswerOK
<1>15. CheckerOK'
  <2>1. (checker.error = Missing /\ checker.skipped = 0) => \A i \in W : ScoredIn(checker.scores, i)
    <3>1. ToSet(checker.batches) = {}
      BY <1>1 DEF ToSet
    <3>. QED BY <1>4, <3>1 DEF NoneLost
  <2>2. gate' = "done" /\ gate' \notin {"tools", "grounding"} /\ gate' # "checking" /\ checker' = checker
    BY <1>1
  <2>3. \A s \in ToSet(segments') : Marked(s, checker')
    BY <1>12, <2>2
  <2>4. (checker'.error = Missing /\ checker'.mode # "off" /\ checker'.skipped = 0) => \A i \in Worth(segments') : ScoredIn(checker'.scores, i)
    BY <1>13, <2>1, <2>2
  <2>. QED BY <1>1, <1>4, <2>2, <2>3, <2>4 DEF CheckerOK
<1>. QED BY <1>14, <1>15

LEMMA GroundInitOK ==
    ASSUME GroundInit, asked \in {[kind |-> "none"]} \cup TagQuestions, Unanswered PROVE GroundInv
<1>1. ToSet(<<>>) = {} /\ <<>> \in Seq({})
  BY DEF ToSet
<1>2. ReadsOK
  <2>1. world.version = 1 /\ world.baseline = 1 /\ world = [version |-> world.version, baseline |-> world.baseline]
    BY DEF GroundInit
  <2>2. RegistryType(registry)
    <3>. DEFINE recs == [g \in Groups |-> <<>>]
                none == <<>>
    <3>1. recs \in [Groups -> Seq(Nat)]
      OBVIOUS
    <3>2. registry = [results |-> none, records |-> recs]
      BY DEF GroundInit
    <3>. HIDE DEF recs, none
    <3>. QED BY <3>1, <3>2 DEF RegistryType
  <2>3. tool = [t \in Threads |-> tool[t]] /\ \A t \in Threads : tool[t] = NoPage
    BY DEF GroundInit
  <2>4. sink = <<>>
    BY DEF GroundInit
  <2>. QED BY <1>1, <2>1, <2>2, <2>3, <2>4 DEF ReadsOK
<1>3. AnswerOK
  <2>1. gate = "tools" /\ pieces = <<>> /\ segments = <<>>
    BY DEF GroundInit
  <2>. QED BY <1>1, <2>1 DEF AnswerOK
<1>4. CheckerOK
  <2>. DEFINE none == <<>>
              empty == {}
  <2>1. gate = "tools" /\ checker = [mode |-> "off", batches |-> none, scores |-> empty, skipped |-> 0, error |-> Missing]
    BY DEF GroundInit
  <2>. HIDE DEF none, empty
  <2>2. /\ DOMAIN checker = CheckerFields /\ checker = [f \in CheckerFields |-> checker[f]]
        /\ checker.batches = none /\ checker.scores = empty /\ checker.skipped = 0 /\ checker.error = Missing
    BY <2>1 DEF CheckerFields
  <2>. QED BY <2>1, <2>2 DEF CheckerOK, none, empty
<1>5. AskedOK
  BY DEF AskedOK, Unanswered
<1>. QED BY <1>2, <1>3, <1>4, <1>5 DEF GroundInv

LEMMA AskedFrame ==
    ASSUME AskedOK, UNCHANGED questionVars PROVE AskedOK'
BY DEF AskedOK, questionVars

LEMMA GroundNext ==
    ASSUME GroundInv, Ground PROVE ReadsOK' /\ AnswerOK' /\ CheckerOK'
<1>0. ReadsOK /\ AnswerOK /\ CheckerOK
  BY DEF GroundInv
<1>1. CASE ImportVersion \/ BaselineMoves
  <2>1. UNCHANGED <<sink, gate, pieces, segments, checker>>
    BY <1>1 DEF ImportVersion, BaselineMoves
  <2>. QED BY <1>0, <1>1, <2>1, WorldMoves, AnswerFrame, CheckerFrame
<1>2. ASSUME NEW t \in Threads, NEW g \in Groups, NEW c \in 0..1, NEW l \in 0..(RowLimit + 1), InspectRead(t, g, c, l)
      PROVE  ReadsOK' /\ AnswerOK' /\ CheckerOK'
  <2>1. UNCHANGED <<sink, gate, pieces, segments, checker>>
    BY <1>2 DEF InspectRead
  <2>2. ReadsOK'
    BY <1>0, <1>2, ReadOK
  <2>. QED BY <1>0, <2>1, <2>2, AnswerFrame, CheckerFrame
<1>3. ASSUME NEW t \in Threads, MintRow(t) PROVE ReadsOK' /\ AnswerOK' /\ CheckerOK'
  <2>1. UNCHANGED <<sink, gate, pieces, segments, checker>>
    BY <1>3 DEF MintRow
  <2>2. ReadsOK'
    BY <1>0, <1>3, MintOK
  <2>. QED BY <1>0, <2>1, <2>2, AnswerFrame, CheckerFrame
<1>4. ASSUME NEW t \in Threads, InspectReturn(t) PROVE ReadsOK' /\ AnswerOK' /\ CheckerOK'
  <2>1. UNCHANGED <<gate, pieces, segments, checker>>
    BY <1>4 DEF InspectReturn
  <2>2. ReadsOK' /\ Within(sink, sink')
    BY <1>0, <1>4, ReturnOK
  <2>. QED BY <1>0, <2>1, <2>2, AnswerStays, CheckerFrame
<1>5. ASSUME NEW c \in Calculations, Compute(c) PROVE ReadsOK' /\ AnswerOK' /\ CheckerOK'
  <2>1. UNCHANGED <<gate, pieces, segments, checker>>
    BY <1>5 DEF Compute
  <2>2. ReadsOK' /\ Within(sink, sink')
    BY <1>0, <1>5, ComputedOK
  <2>. QED BY <1>0, <2>1, <2>2, AnswerStays, CheckerFrame
<1>6. ASSUME NEW r \in Replies, NEW m \in {"off", "shadow", "flag"}, ModelReplies(r, m)
      PROVE  ReadsOK' /\ AnswerOK' /\ CheckerOK'
  <2>1. UNCHANGED <<world, registry, tool, sink>>
    BY <1>6 DEF ModelReplies
  <2>2. AnswerOK' /\ CheckerOK'
    BY <1>0, <1>6, RepliesOK
  <2>. QED BY <1>0, <2>1, <2>2, ReadsFrame
<1>7. CASE GroundPiece \/ GroundingEnds \/ CheckEnds
  <2>1. UNCHANGED <<world, registry, tool, sink>>
    BY <1>7 DEF GroundPiece, GroundingEnds, CheckEnds
  <2>2. AnswerOK' /\ CheckerOK'
    BY <1>0, <1>7, PieceGrounded, GroundingEndsOK, CheckEndsOK
  <2>. QED BY <1>0, <2>1, <2>2, ReadsFrame
<1>8. CASE (\E s \in {0, 100} : BatchScored(s)) \/ BatchFails("bad_response") \/ CheckDeadline
  <2>1. UNCHANGED <<world, registry, tool, sink, gate, pieces, segments>>
    BY <1>8 DEF BatchScored, BatchFails, CheckDeadline
  <2>2. CheckerOK'
    BY <1>0, <1>8, BatchOK
  <2>. QED BY <1>0, <2>1, <2>2, ReadsFrame, AnswerFrame
<1>. QED BY <1>1, <1>2, <1>3, <1>4, <1>5, <1>6, <1>7, <1>8, Zenon DEF Ground

LEMMA GroundStep ==
    ASSUME GroundInv,
           [\/ Ground /\ UNCHANGED questionVars
            \/ AnswerTags /\ UNCHANGED groundVars]_<<groundVars, questionVars>>
    PROVE  GroundInv'
<1>0. ReadsOK /\ AnswerOK /\ CheckerOK /\ AskedOK
  BY DEF GroundInv
<1>1. CASE Ground /\ UNCHANGED questionVars
  BY <1>0, <1>1, GroundNext, AskedFrame DEF GroundInv
<1>2. CASE UNCHANGED groundVars /\ AskedOK'
  <2>1. UNCHANGED <<world, registry, tool, sink, gate, pieces, segments, checker>>
    BY <1>2 DEF groundVars
  <2>. QED BY <1>0, <1>2, <2>1, ReadsFrame, AnswerFrame, CheckerFrame DEF GroundInv
<1>3. CASE AnswerTags /\ UNCHANGED groundVars
  <2>1. AskedOK'
    <3>1. asked.kind = "tags" /\ answer' = ParseAnswer(asked.tokens) /\ asked' = asked
      BY <1>3 DEF AnswerTags, Answers
    <3>2. asked \in TagQuestions
      <4>1. asked # [kind |-> "none"]
        BY <3>1
      <4>. QED BY <1>0, <4>1 DEF AskedOK
    <3>. QED BY <3>1, <3>2 DEF AskedOK
  <2>. QED BY <1>2, <1>3, <2>1
<1>4. CASE UNCHANGED <<groundVars, questionVars>>
  <2>1. AskedOK'
    BY <1>0, <1>4, AskedFrame
  <2>. QED BY <1>2, <1>4, <2>1
<1>. QED BY <1>1, <1>3, <1>4

LEMMA HandlesHold == ASSUME ReadsOK PROVE HandlesNameOneRecord
<1>. SUFFICES ASSUME NEW m \in DOMAIN sink, NEW n \in DOMAIN sink, sink[m].kind = "rows", sink[n].kind = "rows",
                     NEW x \in ToSet(sink[m].items), NEW y \in ToSet(sink[n].items), x.ev = y.ev
              PROVE  sink[m].group = sink[n].group /\ x.record = y.record /\ x.value = y.value
  BY DEF HandlesNameOneRecord
<1>1. ASSUME NEW k \in DOMAIN sink, sink[k].kind = "rows", NEW z \in ToSet(sink[k].items)
      PROVE  sink[k].group \in Groups /\ ItemOK(registry, sink[k].group, z)
  <2>1. sink[k] \in ToSet(sink)
    BY DEF ToSet
  <2>2. sink[k] \notin Calculations
    BY <1>1, GroundingFacts
  <2>. QED BY <1>1, <2>1, <2>2 DEF ReadsOK, ResultOK, ItemsOK
<1>. DEFINE g == sink[m].group
            h == sink[n].group
            R == registry.records
<1>2. g \in Groups /\ h \in Groups /\ ItemOK(registry, g, x) /\ ItemOK(registry, h, y)
  BY <1>1
<1>. HIDE DEF g, h
<1>3. PICK i \in 1..Len(R[g]) : x.ev = <<g, i>> /\ R[g][i] = x.record
  BY <1>2 DEF ItemOK
<1>4. PICK j \in 1..Len(R[h]) : y.ev = <<h, j>> /\ R[h][j] = y.record
  BY <1>2 DEF ItemOK
<1>5. g = h /\ i = j
  <2>1. x.ev = <<g, i>> /\ y.ev = <<h, j>> /\ x.ev = y.ev
    BY <1>3, <1>4
  <2>2. <<g, i>> = <<h, j>>
    BY ONLY <2>1
  <2>3. <<g, i>>[1] = <<h, j>>[1] /\ <<g, i>>[2] = <<h, j>>[2]
    BY ONLY <2>2
  <2>. QED BY ONLY <2>3
<1>6. x.record = y.record
  BY <1>3, <1>4, <1>5
<1>7. PICK b \in {1, 2} : x.record \in DOMAIN PinRows(g, b) /\ x.value = PinRows(g, b)[x.record]
  BY <1>2 DEF ItemOK
<1>8. PICK c \in {1, 2} : y.record \in DOMAIN PinRows(h, c) /\ y.value = PinRows(h, c)[y.record]
  BY <1>2 DEF ItemOK
<1>9. x.value = y.value
  BY <1>5, <1>6, <1>7, <1>8, GroundingFacts DEF PinRows
<1>. QED BY <1>5, <1>6, <1>9 DEF g, h

LEMMA FactsHold == ASSUME ReadsOK, AnswerOK PROVE SupportedFactsAreRead /\ SupportedNumbersAreProven
<1>1. ASSUME NEW i \in DOMAIN segments PROVE SegmentOK(sink, segments[i])
  <2>1. segments[i] \in ToSet(segments)
    BY DEF ToSet
  <2>. QED BY <2>1 DEF AnswerOK
<1>2. ASSUME NEW i \in DOMAIN segments, segments[i].k = "fact", segments[i].failure = Missing PROVE FactRead(sink, segments[i])
  BY <1>1, <1>2 DEF SegmentOK, FactOK
<1>3. ASSUME NEW i \in DOMAIN segments, segments[i].k = "claim", segments[i].failure = Missing PROVE NumberProven(sink, segments[i])
  BY <1>1, <1>3 DEF SegmentOK, FactOK
<1>4. ASSUME NEW n \in DOMAIN sink, sink[n].kind = "rows", ~sink[n].truncated, sink[n].group = "workers"
      PROVE  {x.record : x \in ToSet(sink[n].items)} = DOMAIN WorkerRows[Pinned]
  <2>1. sink[n] \in ToSet(sink)
    BY DEF ToSet
  <2>2. sink[n] \notin Calculations
    BY <1>4, GroundingFacts
  <2>. QED BY <1>4, <2>1, <2>2 DEF ReadsOK, ResultOK, RecordsIn
<1>5. SupportedFactsAreRead
  BY <1>2, <1>4 DEF SupportedFactsAreRead, FactRead
<1>6. SupportedNumbersAreProven
  BY <1>3 DEF SupportedNumbersAreProven, NumberProven
<1>. QED BY <1>5, <1>6

LEMMA CheckerHolds == ASSUME AnswerOK, CheckerOK PROVE CheckerFailsOpen
<1>1. \A b \in ToSet(checker.batches) : RequestCost(b) <= TokenBudget
  <2>. SUFFICES ASSUME NEW b \in ToSet(checker.batches) PROVE RequestCost(b) <= TokenBudget
    OBVIOUS
  <2>1. checker.batches # <<>>
    BY DEF ToSet
  <2>2. gate = "checking"
    BY <2>1 DEF AnswerOK, CheckerOK
  <2>3. CostOf(segments, b) <= TokenBudget
    BY <2>2 DEF CheckerOK
  <2>4. RequestCost(b) = CostOf(segments, b)
    BY DEF RequestCost, CostOf, Costs, CostBody, ItemCost
  <2>. QED BY <2>3, <2>4
<1>2. ASSUME gate = "done", NEW i \in DOMAIN segments PROVE Marked(segments[i], checker)
  BY <1>2 DEF CheckerOK, ToSet
<1>3. ASSUME gate = "done", checker.error = Missing, checker.mode # "off", checker.skipped = 0, NEW i \in ToSet(CheckItems)
      PROVE  Scored(i)
  <2>1. i \in Worth(segments)
    BY ItemsAre
  <2>2. ScoredIn(checker.scores, i)
    BY <1>3, <2>1 DEF CheckerOK
  <2>. QED BY <2>2 DEF Scored, ScoredIn
<1>. QED BY <1>1, <1>2, <1>3 DEF CheckerFailsOpen, Marked

LEMMA WordsHold == ASSUME AskedOK PROVE WordingSurvives
<1>. SUFFICES ASSUME Answered("tags") PROVE WordingSurvives
  BY DEF WordingSurvives
<1>1. answer = ParseAnswer(asked.tokens) /\ asked \in TagQuestions
  BY DEF AskedOK, Answered
<1>2. PICK t \in Texts : asked = [kind |-> "tags", tokens |-> t]
  BY <1>1 DEF TagQuestions
<1>3. asked.tokens = t /\ IsTokens(t)
  BY <1>2, GroundingFacts
<1>. DEFINE k == asked.tokens
<1>4. IsTokens(k) /\ answer = ParseAnswer(k)
  BY <1>1, <1>3
<1>. HIDE DEF k
<1>5. LET r == Repaired(k)
          said == ParseAnswer(k)
          spans == {s \in (1..Len(r)) \X (1..Len(r)) : IsFactSpan(r, s[1], s[2])}
      IN  /\ FlattenSeq([i \in DOMAIN said |-> said[i].body])
             = Rows(r, LAMBDA i : IsText(r[i]), LAMBDA i : r[i])
          /\ Cardinality({i \in DOMAIN said : said[i].k = "fact"}) = Cardinality(spans)
  BY <1>4, TextKept
<1>. QED BY <1>4, <1>5, Zenon DEF WordingSurvives, k

(* What the planner sees is what the turn's trusted reads support, however  *)
(* the site moves on between the reads, the answer and the gate: handles    *)
(* name one record (evidence_registry.py), a supported fact was read and    *)
(* says what its record held in the pinned version, a supported number has  *)
(* a locator for every row (gate.py), the tag parser loses no wording and   *)
(* takes exactly the complete tags for facts (claim_tags.py), and the       *)
(* wording check fails open within its budget (jev_checker.py).             *)
THEOREM AnswersStayGrounded == GroundSpec => []AnswersAreGrounded
<1>1. GroundInit /\ asked \in {[kind |-> "none"]} \cup TagQuestions /\ Unanswered => GroundInv
  BY GroundInitOK
<1>2. GroundInv /\ [\/ Ground /\ UNCHANGED questionVars
                    \/ AnswerTags /\ UNCHANGED groundVars]_<<groundVars, questionVars>> => GroundInv'
  BY GroundStep
<1>3. GroundInv => AnswersAreGrounded
  BY HandlesHold, FactsHold, CheckerHolds, WordsHold DEF GroundInv, AnswersAreGrounded
<1>. QED BY <1>1, <1>2, <1>3, PTL DEF GroundSpec
=============================================================================
