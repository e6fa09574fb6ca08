---------------------------- MODULE RunGraphProofs ----------------------------
(***************************************************************************)
(* RunGraph and CutPoint for every trace and all thresholds: the loops     *)
(* over runs compute what their names say, the condensation is acyclic and *)
(* its topological order complete, and the candidates that find_blame      *)
(* selects are origins of the trace, none of them lost between the two     *)
(* channels, and the best path reaches its target.  The loops are          *)
(* recursive functions over the rounds, so a proof goes by induction over  *)
(* the rounds.                                                             *)
(***************************************************************************)
EXTENDS CutPoint, FiniteSetTheorems, SequenceTheorems, WellFoundedInduction, TLAPS

--------------------------------------------------------------------------------
(* Loops over rounds, and the least and the greatest of a set.                 *)

(* Induction over the naturals through a set: what the induction theorems of   *)
(* the library state of an operator.                                           *)
LEMMA NatSetInduction ==
  ASSUME NEW T, 0 \in T, \A i \in Nat : i \in T => i + 1 \in T
  PROVE  Nat \subseteq T
<1> SUFFICES ASSUME NEW k \in Nat, k \notin T PROVE FALSE
  OBVIOUS
<1> DEFINE X == {i \in Nat : i \notin T}
           Less == OpToRel(<, Nat)
<1>1. \A p \in Nat \X Nat : p[1] < p[2] => p \in Less
  BY Zenon DEF OpToRel
<1>2. IsWellFoundedOn(Less, Nat)
  BY NatLessThanWellFounded, Zenon
<1> HIDE DEF Less
<1>3. X \subseteq Nat /\ X # {}
  OBVIOUS
<1>4. PICK x \in X : \A y \in X : ~(<<y, x>> \in Less)
  BY <1>2, <1>3, WFMin, Zenon
<1>5. x # 0 /\ x - 1 \in Nat /\ x - 1 < x
  BY <1>4
<1>6. <<x - 1, x>> \in Less
  BY <1>1, <1>4, <1>5
<1>7. x - 1 \in T /\ (x - 1) + 1 \in T
  BY <1>4, <1>5, <1>6
<1> QED
  BY <1>4, <1>5, <1>7

(* N rounds of a loop over D, as a function from the rounds to the states.     *)
IsRun(f, D, N, start, g) ==
  /\ f \in [0..N -> D]
  /\ f[0] = start
  /\ \A i \in 1..N : f[i] = g[<<f[i - 1], i>>]

(* A loop whose rounds stay in D has a run.                                    *)
LEMMA Rounds ==
  ASSUME NEW D, NEW start, start \in D, NEW N, N \in Nat,
         NEW g, g \in [D \X (1..N) -> D]
  PROVE  \E f : IsRun(f, D, N, start, g)
<1> DEFINE Good(f, k) == f[0] = start /\ \A i \in 1..k : f[i] = g[<<f[i - 1], i>>]
           T == {k \in Nat : k <= N => \E f \in [0..k -> D] : Good(f, k)}
<1>1. 0 \in T
  <2>1. [i \in 0..0 |-> start] \in [0..0 -> D] /\ Good([i \in 0..0 |-> start], 0)
    OBVIOUS
  <2> QED
    BY <2>1
<1>2. ASSUME NEW k \in Nat, k \in T
      PROVE  k + 1 \in T
  <2> SUFFICES ASSUME k + 1 <= N
               PROVE  \E f \in [0..(k + 1) -> D] : Good(f, k + 1)
    OBVIOUS
  <2>1. PICK f \in [0..k -> D] : Good(f, k)
    BY <1>2
  <2> DEFINE h == [i \in 0..(k + 1) |-> IF i = k + 1 THEN g[<<f[k], k + 1>>] ELSE f[i]]
  <2>2. <<f[k], k + 1>> \in D \X (1..N)
    BY <2>1
  <2>3. g[<<f[k], k + 1>>] \in D
    BY <2>2
  <2>4. h \in [0..(k + 1) -> D]
    BY <2>1, <2>3
  <2>5. h[0] = start
    BY <2>1
  <2>6. ASSUME NEW i \in 1..(k + 1) PROVE h[i] = g[<<h[i - 1], i>>]
    <3>1. CASE i = k + 1
      <4>1. h[i] = g[<<f[k], k + 1>>] /\ h[i - 1] = f[k]
        BY <3>1
      <4> QED
        BY <4>1, <3>1
    <3>2. CASE i \in 1..k
      <4>1. h[i] = f[i] /\ h[i - 1] = f[i - 1]
        BY <3>2
      <4> QED
        BY <4>1, <3>2, <2>1
    <3> QED
      BY <3>1, <3>2
  <2> QED
    BY <2>4, <2>5, <2>6
<1> HIDE DEF T
<1>3. Nat \subseteq T
  BY <1>1, <1>2, NatSetInduction
<1>4. N \in T
  BY <1>3
<1> USE DEF T
<1> QED
  BY <1>4 DEF IsRun

(* A strict order on a finite set has a least element. *)
LEMMA Minimal ==
  ASSUME NEW X, IsFiniteSet(X), X # {}, NEW L,
         \A x \in X : <<x, x>> \notin L,
         \A x, y, z \in X : <<x, y>> \in L /\ <<y, z>> \in L => <<x, z>> \in L
  PROVE  \E x \in X : \A y \in X : <<y, x>> \notin L
<1> DEFINE Below(x) == {y \in X : <<y, x>> \in L}
           T == {k \in Nat : \A x \in X : Cardinality(Below(x)) = k =>
                               \E m \in X : \A y \in X : <<y, m>> \notin L}
           Upto == {k \in Nat : \A j \in 0..k : j \in T}
<1>1. \A x \in X : IsFiniteSet(Below(x)) /\ Cardinality(Below(x)) \in Nat
  BY FS_Subset, FS_CardinalityType
<1>2. ASSUME NEW x \in X, NEW p \in X, <<p, x>> \in L
      PROVE  Cardinality(Below(p)) < Cardinality(Below(x))
  <2>1. Below(p) \in SUBSET Below(x) /\ p \in Below(x) /\ p \notin Below(p)
    BY <1>2
  <2>2. Cardinality(Below(p)) <= Cardinality(Below(x)) /\ Cardinality(Below(x)) # Cardinality(Below(p))
    BY <2>1, <1>1, FS_Subset
  <2> QED
    BY <2>2, <1>1
<1>3. ASSUME NEW k \in Nat, \A j \in Nat : j < k => j \in T
      PROVE  k \in T
  <2> SUFFICES ASSUME NEW x \in X, Cardinality(Below(x)) = k
               PROVE  \E m \in X : \A y \in X : <<y, m>> \notin L
    OBVIOUS
  <2>1. CASE \A y \in X : <<y, x>> \notin L
    BY <2>1
  <2>2. CASE \E y \in X : <<y, x>> \in L
    <3>1. PICK p \in X : <<p, x>> \in L
      BY <2>2
    <3>2. Cardinality(Below(p)) \in Nat /\ Cardinality(Below(p)) < k
      BY <3>1, <1>1, <1>2
    <3>3. Cardinality(Below(p)) \in T
      BY <3>2, <1>3
    <3> QED
      BY <3>3
  <2> QED
    BY <2>1, <2>2
<1>4. 0 \in Upto
  <2>1. \A j \in Nat : j < 0 => j \in T
    OBVIOUS
  <2> HIDE DEF T
  <2>2. 0 \in T
    BY <2>1, <1>3
  <2> QED
    BY <2>2
<1>5. ASSUME NEW k \in Nat, k \in Upto PROVE k + 1 \in Upto
  <2>1. k + 1 \in T
    <3>1. \A j \in Nat : j < k + 1 => j \in T
      BY <1>5
    <3> HIDE DEF T
    <3> QED
      BY <3>1, <1>3
  <2> HIDE DEF T
  <2> QED
    BY <1>5, <2>1
<1> HIDE DEF Upto
<1>6. Nat \subseteq Upto
  BY <1>4, <1>5, NatSetInduction
<1> USE DEF Upto
<1>7. PICK x \in X : TRUE
  OBVIOUS
<1>8. Cardinality(Below(x)) \in T
  <2> DEFINE k == Cardinality(Below(x))
  <2>1. k \in Nat /\ k \in Upto
    BY <1>1, <1>6, <1>7
  <2> HIDE DEF k, T
  <2>2. k \in T
    BY <2>1
  <2> QED
    BY <2>2 DEF k
<1> QED
  BY <1>7, <1>8

(* The least of a finite set of numbers.                                       *)
LEMMA MinIn ==
  ASSUME NEW S, S \subseteq Int, IsFiniteSet(S), S # {}
  PROVE  Min(S) \in S /\ \A y \in S : Min(S) <= y
<1> DEFINE L == {p \in S \X S : p[1] < p[2]}
<1>1. \A x \in S : <<x, x>> \notin L
  OBVIOUS
<1>2. \A x, y, z \in S : <<x, y>> \in L /\ <<y, z>> \in L => <<x, z>> \in L
  OBVIOUS
<1>3. PICK x \in S : \A y \in S : <<y, x>> \notin L
  <2> HIDE DEF L
  <2> QED
    BY <1>1, <1>2, Minimal
<1>4. ASSUME NEW y \in S PROVE x <= y
  <2>1. <<y, x>> \notin L
    BY <1>3
  <2>2. ~(y < x)
    <3>1. <<y, x>> \in S \X S /\ <<y, x>>[1] = y /\ <<y, x>>[2] = x
      OBVIOUS
    <3> QED
      BY <2>1, <3>1
  <2>3. x \in Int /\ y \in Int
    OBVIOUS
  <2> HIDE DEF L
  <2> QED
    BY <2>2, <2>3
<1> QED
  BY <1>4 DEF Min

(* The greatest of a finite set of numbers.                                    *)
LEMMA MaxIn ==
  ASSUME NEW S, S \subseteq Int, IsFiniteSet(S), S # {}
  PROVE  Max(S) \in S /\ \A y \in S : y <= Max(S)
<1> DEFINE L == {p \in S \X S : p[1] > p[2]}
<1>1. \A x \in S : <<x, x>> \notin L
  OBVIOUS
<1>2. \A x, y, z \in S : <<x, y>> \in L /\ <<y, z>> \in L => <<x, z>> \in L
  OBVIOUS
<1>3. PICK x \in S : \A y \in S : <<y, x>> \notin L
  <2> HIDE DEF L
  <2> QED
    BY <1>1, <1>2, Minimal
<1>4. ASSUME NEW y \in S PROVE y <= x
  <2>1. <<y, x>> \notin L
    BY <1>3
  <2>2. ~(y > x)
    <3>1. <<y, x>> \in S \X S /\ <<y, x>>[1] = y /\ <<y, x>>[2] = x
      OBVIOUS
    <3> QED
      BY <2>1, <3>1
  <2>3. x \in Int /\ y \in Int
    OBVIOUS
  <2> HIDE DEF L
  <2> QED
    BY <2>2, <2>3
<1> QED
  BY <1>4 DEF Max

(* What a sequence holds after one more.                                       *)
LEMMA AppendSet ==
  ASSUME NEW X, NEW seq \in Seq(X), NEW x
  PROVE  ToSet(Append(seq, x)) = ToSet(seq) \cup {x}
<1>1. DOMAIN seq = 1..Len(seq) /\ DOMAIN Append(seq, x) = 1..(Len(seq) + 1) /\ Len(seq) \in Nat
  OBVIOUS
<1>2. /\ \A i \in 1..Len(seq) : Append(seq, x)[i] = seq[i]
      /\ Append(seq, x)[Len(seq) + 1] = x
  OBVIOUS
<1> QED
  BY <1>1, <1>2 DEF ToSet

(* Select keeps of a sequence what is in S, and nothing else.                  *)
LEMMA Selected ==
  ASSUME NEW X, NEW seq \in Seq(X), NEW S
  PROVE  /\ Select(seq, S) \in Seq(X)
         /\ ToSet(Select(seq, S)) = ToSet(seq) \cap S
<1> DEFINE N == Len(seq)
           Round(F) == [i \in 0..N |->
                          IF i = 0 THEN << >>
                          ELSE IF seq[i] \in S THEN Append(F[i - 1], seq[i]) ELSE F[i - 1]]
           kept == CHOOSE F : F = Round(F)
           g == [p \in Seq(X) \X (1..N) |->
                   IF seq[p[2]] \in S THEN Append(p[1], seq[p[2]]) ELSE p[1]]
<1>1. N \in Nat /\ DOMAIN seq = 1..N /\ \A i \in 1..N : seq[i] \in X
  OBVIOUS
<1>2. kept = Round(kept)
  <2>0. << >> \in Seq(X)
    OBVIOUS
  <2>1. g \in [Seq(X) \X (1..N) -> Seq(X)]
    BY <1>1
  <2>2. PICK f \in [0..N -> Seq(X)] : f[0] = << >> /\ \A i \in 1..N : f[i] = g[<<f[i - 1], i>>]
    <3> DEFINE D == Seq(X)
               start == << >>
    <3>1. N \in Nat /\ start \in D /\ g \in [D \X (1..N) -> D]
      BY <1>1, <2>1, <2>0
    <3> HIDE DEF g, N, D, start
    <3>2. \E f : IsRun(f, D, N, start, g)
      BY <3>1, Rounds
    <3> QED
      BY <3>2 DEF D, start, IsRun
  <2>3. ASSUME NEW i \in 1..N
        PROVE  f[i] = IF seq[i] \in S THEN Append(f[i - 1], seq[i]) ELSE f[i - 1]
    <3>1. i - 1 \in 0..N /\ f[i - 1] \in Seq(X)
      BY <1>1, <2>2
    <3>2. <<f[i - 1], i>> \in Seq(X) \X (1..N)
      BY <3>1
    <3>3. f[i] = g[<<f[i - 1], i>>]
      BY <2>2
    <3> QED
      BY <3>2, <3>3
  <2>4. f = Round(f)
    <3>1. DOMAIN f = 0..N /\ f = [i \in 0..N |-> f[i]]
      BY <2>2
    <3>2. ASSUME NEW i \in 0..N
          PROVE f[i] = IF i = 0 THEN << >>
                       ELSE IF seq[i] \in S THEN Append(f[i - 1], seq[i]) ELSE f[i - 1]
      <4>1. i = 0 \/ i \in 1..N
        BY <1>1
      <4> QED
        BY <4>1, <2>2, <2>3
    <3> QED
      BY <3>1, <3>2
  <2> QED
    BY <2>4
<1>3. Select(seq, S) = kept[N]
  BY DEF Select
<1> DEFINE T == {k \in Nat : k <= N => /\ kept[k] \in Seq(X)
                                       /\ ToSet(kept[k]) = {seq[j] : j \in 1..k} \cap S}
<1>4. kept[0] = << >> /\ \A i \in 1..N : kept[i] = IF seq[i] \in S THEN Append(kept[i - 1], seq[i]) ELSE kept[i - 1]
  <2>1. \A i \in 0..N : Round(kept)[i] =
                          IF i = 0 THEN << >>
                          ELSE IF seq[i] \in S THEN Append(kept[i - 1], seq[i]) ELSE kept[i - 1]
    OBVIOUS
  <2> HIDE DEF kept, Round
  <2>2. \A i \in 1..N : i \in 0..N /\ i # 0
    BY <1>1
  <2>3. 0 \in 0..N
    BY <1>1
  <2> QED
    BY <1>2, <2>1, <2>2, <2>3
<1> HIDE DEF kept
<1>5. 0 \in T
  <2>1. kept[0] = << >> /\ << >> \in Seq(X)
    BY <1>4
  <2>2. ToSet(<< >>) = {}
    BY DEF ToSet
  <2>3. {seq[j] : j \in 1..0} = {}
    OBVIOUS
  <2> QED
    BY <2>1, <2>2, <2>3
<1>6. ASSUME NEW k \in Nat, k \in T PROVE k + 1 \in T
  <2> SUFFICES ASSUME k + 1 <= N
               PROVE  /\ kept[k + 1] \in Seq(X)
                      /\ ToSet(kept[k + 1]) = {seq[j] : j \in 1..(k + 1)} \cap S
    OBVIOUS
  <2>1. kept[k] \in Seq(X) /\ ToSet(kept[k]) = {seq[j] : j \in 1..k} \cap S
    BY <1>6
  <2>2. k + 1 \in 1..N /\ seq[k + 1] \in X
    BY <1>1
  <2>3. kept[k + 1] = IF seq[k + 1] \in S THEN Append(kept[k], seq[k + 1]) ELSE kept[k]
    BY <1>4, <2>2
  <2>4. {seq[j] : j \in 1..(k + 1)} = {seq[j] : j \in 1..k} \cup {seq[k + 1]}
    OBVIOUS
  <2>5. CASE seq[k + 1] \in S
    BY <2>1, <2>2, <2>3, <2>4, <2>5, AppendSet
  <2>6. CASE seq[k + 1] \notin S
    BY <2>1, <2>3, <2>4, <2>6
  <2> QED
    BY <2>5, <2>6
<1> HIDE DEF T
<1>7. Nat \subseteq T
  BY <1>5, <1>6, NatSetInduction
<1>8. N \in T
  BY <1>1, <1>7
<1> USE DEF T
<1>9. kept[N] \in Seq(X) /\ ToSet(kept[N]) = {seq[j] : j \in 1..N} \cap S
  BY <1>1, <1>8
<1> QED
  BY <1>1, <1>3, <1>9 DEF ToSet

--------------------------------------------------------------------------------
(* graph.py: the closure of the edges.                                         *)

(* The runs of a trace, and the edges between them. *)
AreRuns(nodes) == IsFiniteSet(nodes) /\ nodes \subseteq Nat \ {0}

(* Of the relations "comes before" and "is reached from".                      *)
Transitive(R, S) == \A u, v, w \in S : <<u, v>> \in R /\ <<v, w>> \in R => <<u, w>> \in R

(* Preds and Succs read a relation from its two ends.                          *)
LEMMA Neighbours ==
  ASSUME NEW A, NEW E, E \subseteq A \X A, NEW u, NEW v
  PROVE  /\ u \in Preds(E, v) <=> <<u, v>> \in E
         /\ v \in Succs(E, u) <=> <<u, v>> \in E
         /\ Preds(E, v) \subseteq A /\ Succs(E, v) \subseteq A
<1>1. \A e \in E : e = <<e[1], e[2]>> /\ e[1] \in A /\ e[2] \in A
  OBVIOUS
<1> QED
  BY <1>1 DEF Preds, Succs

(* The runs of a trace are below the bound that the loops go up to.            *)
LEMMA Bound ==
  ASSUME NEW nodes, AreRuns(nodes)
  PROVE  Max(nodes \cup {0}) \in Nat /\ nodes \subseteq 1..Max(nodes \cup {0})
<1>1. IsFiniteSet(nodes \cup {0})
  BY FS_AddElement DEF AreRuns
<1>2. nodes \cup {0} \subseteq Int /\ nodes \cup {0} # {}
  BY DEF AreRuns
<1> DEFINE S == nodes \cup {0}
<1> HIDE DEF S
<1>3. Max(S) \in S /\ \A y \in S : y <= Max(S)
  <2>1. IsFiniteSet(S) /\ S \subseteq Int /\ S # {}
    BY <1>1, <1>2 DEF S
  <2> QED
    BY <2>1, MaxIn
<1>4. Max(S) \in Nat
  <2>1. S \subseteq Nat
    BY DEF S, AreRuns
  <2> QED
    BY <2>1, <1>3
<1>5. ASSUME NEW n \in nodes PROVE n \in 1..Max(S)
  <2>1. n \in S /\ n \in Nat /\ n # 0
    BY DEF S, AreRuns
  <2> QED
    BY <2>1, <1>3, <1>4
<1> QED
  BY <1>4, <1>5 DEF S

(* The rounds of Closure: run k is admitted as an intermediate in round k.     *)
AreClosureRounds(via, N, nodes, E) ==
  /\ N \in Nat /\ nodes \subseteq 1..N
  /\ Closure(nodes, E) = via[N]
  /\ via[0] = E
  /\ \A k \in 0..N : via[k] \in SUBSET (nodes \X nodes)
  /\ \A k \in 1..N :
       via[k] = IF k \in nodes
                THEN via[k - 1] \cup (Preds(via[k - 1], k) \X Succs(via[k - 1], k))
                ELSE via[k - 1]

(* After round k every path is there whose intermediate runs are at most k.    *)
LEMMA ClosureRounds ==
  ASSUME NEW nodes, AreRuns(nodes), NEW E, E \subseteq nodes \X nodes
  PROVE  \E N, via : AreClosureRounds(via, N, nodes, E)
<1> DEFINE N == Max(nodes \cup {0})
           D == SUBSET (nodes \X nodes)
           After(R, k) == IF k \in nodes THEN R \cup (Preds(R, k) \X Succs(R, k)) ELSE R
           Round(F) == [k \in 0..N |-> IF k = 0 THEN E
                                       ELSE LET R == F[k - 1]
                                            IN IF k \in nodes THEN R \cup (Preds(R, k) \X Succs(R, k)) ELSE R]
           via == CHOOSE F : F = Round(F)
           g == [p \in D \X (1..N) |-> After(p[1], p[2])]
<1>1. N \in Nat /\ nodes \subseteq 1..N
  BY Bound
<1>2. ASSUME NEW R \in D, NEW k PROVE After(R, k) \in D
  <2>1. Preds(R, k) \subseteq nodes /\ Succs(R, k) \subseteq nodes
    BY Neighbours
  <2> QED
    BY <2>1
<1>3. via = Round(via) /\ \A k \in 0..N : via[k] \in D
  <2>1. g \in [D \X (1..N) -> D]
    BY <1>2
  <2>2. N \in Nat /\ E \in D
    BY <1>1
  <2>3. PICK f : IsRun(f, D, N, E, g)
    <3> HIDE DEF D, N, g
    <3> QED
      BY <2>1, <2>2, Rounds
  <2>4. f \in [0..N -> D] /\ f[0] = E /\ \A k \in 1..N : f[k] = g[<<f[k - 1], k>>]
    BY <2>3 DEF IsRun
  <2>5. ASSUME NEW k \in 1..N PROVE f[k] = After(f[k - 1], k)
    <3>1. k - 1 \in 0..N
      BY <1>1
    <3>2. f[k - 1] \in D
      BY <3>1, <2>4
    <3>3. <<f[k - 1], k>> \in D \X (1..N)
      BY <3>2
    <3>4. f[k] = g[<<f[k - 1], k>>]
      BY <2>4
    <3> HIDE DEF D, N, After
    <3> QED
      BY <3>3, <3>4
  <2>6. f = Round(f)
    <3>1. DOMAIN f = 0..N /\ f = [k \in 0..N |-> f[k]]
      BY <2>4
    <3>2. ASSUME NEW k \in 0..N
          PROVE  f[k] = IF k = 0 THEN E ELSE After(f[k - 1], k)
      <4>1. k = 0 \/ k \in 1..N
        BY <1>1
      <4> HIDE DEF After
      <4> QED
        BY <4>1, <2>4, <2>5
    <3> QED
      BY <3>1, <3>2
  <2>7. via = Round(via)
    <3> HIDE DEF Round
    <3> QED
      BY <2>6
  <2>8. via[0] = E /\ \A k \in 1..N : via[k] = After(via[k - 1], k)
    <3>1. \A k \in 0..N : Round(via)[k] = IF k = 0 THEN E ELSE After(via[k - 1], k)
      OBVIOUS
    <3>2. \A k \in 1..N : k \in 0..N /\ k # 0
      BY <1>1
    <3>3. 0 \in 0..N
      BY <1>1
    <3> HIDE DEF via, Round, After
    <3> QED
      BY <2>7, <3>1, <3>2, <3>3
  <2> DEFINE T == {k \in Nat : k <= N => via[k] \in D}
  <2> HIDE DEF via, After, D
  <2>9. 0 \in T
    BY <2>8, <2>2
  <2>10. ASSUME NEW k \in Nat, k \in T PROVE k + 1 \in T
    <3>1. ASSUME k + 1 <= N PROVE via[k + 1] \in D
      <4>1. k + 1 \in 1..N /\ (k + 1) - 1 = k /\ k <= N
        BY <3>1, <1>1
      <4>2. via[k] \in D
        BY <4>1, <2>10
      <4>3. via[k + 1] = After(via[(k + 1) - 1], k + 1)
        BY <4>1, <2>8
      <4> QED
        BY <4>1, <4>2, <4>3, <1>2
    <3> QED
      BY <3>1
  <2> HIDE DEF T
  <2>11. Nat \subseteq T
    BY <2>9, <2>10, NatSetInduction
  <2> USE DEF T
  <2>12. \A k \in 0..N : via[k] \in D
    BY <2>11, <1>1
  <2> QED
    BY <2>7, <2>12
<1>4. via[0] = E /\ \A k \in 1..N : via[k] = After(via[k - 1], k)
  <2>1. \A k \in 0..N : Round(via)[k] = IF k = 0 THEN E ELSE After(via[k - 1], k)
    OBVIOUS
  <2>2. (\A k \in 1..N : k \in 0..N /\ k # 0) /\ 0 \in 0..N
    BY <1>1
  <2> HIDE DEF via, Round, After
  <2> QED
    BY <1>3, <2>1, <2>2
<1>5. Closure(nodes, E) = via[N]
  BY DEF Closure
<1> HIDE DEF via, N
<1>6. AreClosureRounds(via, N, nodes, E)
  BY <1>1, <1>3, <1>4, <1>5 DEF AreClosureRounds
<1> QED
  BY <1>6

(* Closure holds the edges and is transitive ..                                *)
LEMMA ClosureTransitive ==
  ASSUME NEW nodes, AreRuns(nodes), NEW E, E \subseteq nodes \X nodes
  PROVE  /\ E \subseteq Closure(nodes, E)
         /\ Closure(nodes, E) \subseteq nodes \X nodes
         /\ Transitive(Closure(nodes, E), nodes)
<1>0. PICK N, via : AreClosureRounds(via, N, nodes, E)
  BY ClosureRounds
<1>1. /\ N \in Nat /\ nodes \subseteq 1..N
      /\ Closure(nodes, E) = via[N]
      /\ via[0] = E
      /\ \A k \in 0..N : via[k] \in SUBSET (nodes \X nodes)
      /\ \A k \in 1..N :
           via[k] = IF k \in nodes
                    THEN via[k - 1] \cup (Preds(via[k - 1], k) \X Succs(via[k - 1], k))
                    ELSE via[k - 1]
  BY <1>0 DEF AreClosureRounds
<1> DEFINE Through(R, k) == \A u, w, m \in nodes :
                m <= k /\ <<u, m>> \in R /\ <<m, w>> \in R => <<u, w>> \in R
           T == {k \in Nat : k <= N => E \subseteq via[k] /\ Through(via[k], k)}
<1>2. 0 \in T
  <2>1. \A m \in nodes : ~(m <= 0)
    BY DEF AreRuns
  <2> QED
    BY <1>1, <2>1
<1>3. ASSUME NEW k \in Nat, k \in T PROVE k + 1 \in T
  <2> SUFFICES ASSUME k + 1 <= N
               PROVE  E \subseteq via[k + 1] /\ Through(via[k + 1], k + 1)
    OBVIOUS
  <2> DEFINE R == via[k]
             Q == via[k + 1]
             c == k + 1
  <2>1. k \in 0..N /\ c \in 1..N /\ c - 1 = k /\ c \in 0..N
    BY <1>1
  <2>2. E \subseteq R /\ Through(R, k) /\ R \subseteq nodes \X nodes /\ Q \subseteq nodes \X nodes
    BY <1>1, <1>3, <2>1
  <2>3. Q = IF c \in nodes THEN R \cup (Preds(R, c) \X Succs(R, c)) ELSE R
    BY <1>1, <2>1
  <2>4. \A m \in nodes : m <= c => m <= k \/ m = c
    BY DEF AreRuns
  <2> HIDE DEF R, Q, c, T
  <2>5. CASE c \notin nodes
    BY <2>2, <2>3, <2>4, <2>5 DEF Q, R, c
  <2>6. CASE c \in nodes
    <3>1. \A u, w : <<u, w>> \in Q <=> <<u, w>> \in R \/ (<<u, c>> \in R /\ <<c, w>> \in R)
      <4>1. \A u, w : <<u, w>> \in Preds(R, c) \X Succs(R, c) <=> <<u, c>> \in R /\ <<c, w>> \in R
        BY <2>2, Neighbours
      <4> QED
        BY <4>1, <2>3, <2>6
    <3>2. ASSUME NEW u \in nodes, NEW w \in nodes, NEW m \in nodes, m <= c,
                 <<u, m>> \in Q, <<m, w>> \in Q
          PROVE  <<u, w>> \in Q
      <4>1. CASE m = c
        BY <3>1, <3>2, <4>1
      <4>2. CASE m <= k
        <5>1. CASE <<u, m>> \in R /\ <<m, w>> \in R
          BY <5>1, <4>2, <2>2, <3>1
        <5>2. CASE <<u, m>> \in R /\ <<m, c>> \in R /\ <<c, w>> \in R
          BY <5>2, <4>2, <2>2, <2>6, <3>1
        <5>3. CASE <<u, c>> \in R /\ <<c, m>> \in R /\ <<m, w>> \in R
          BY <5>3, <4>2, <2>2, <2>6, <3>1
        <5>4. CASE <<u, c>> \in R /\ <<c, w>> \in R
          BY <5>4, <3>1
        <5> QED
          BY <5>1, <5>2, <5>3, <5>4, <3>1, <3>2
      <4> QED
        BY <4>1, <4>2, <2>4, <3>2
    <3>3. E \subseteq Q
      BY <2>2, <2>3, <2>6
    <3> QED
      BY <3>2, <3>3 DEF Q, c
  <2> QED
    BY <2>5, <2>6
<1> HIDE DEF T
<1>4. Nat \subseteq T
  BY <1>2, <1>3, NatSetInduction
<1> USE DEF T
<1>5. N \in T
  BY <1>1, <1>4
<1>6. E \subseteq via[N] /\ Through(via[N], N)
  BY <1>5
<1>7. \A m \in nodes : m <= N
  BY <1>1
<1> QED
  BY <1>1, <1>6, <1>7 DEF Transitive

(* .. and is contained in every transitive relation that holds the edges.      *)
LEMMA ClosureLeast ==
  ASSUME NEW nodes, AreRuns(nodes), NEW E, E \subseteq nodes \X nodes,
         NEW L, E \subseteq L, Transitive(L, nodes)
  PROVE  Closure(nodes, E) \subseteq L
<1>0. PICK N, via : AreClosureRounds(via, N, nodes, E)
  BY ClosureRounds
<1>1. /\ N \in Nat /\ nodes \subseteq 1..N
      /\ Closure(nodes, E) = via[N]
      /\ via[0] = E
      /\ \A k \in 0..N : via[k] \in SUBSET (nodes \X nodes)
      /\ \A k \in 1..N :
           via[k] = IF k \in nodes
                    THEN via[k - 1] \cup (Preds(via[k - 1], k) \X Succs(via[k - 1], k))
                    ELSE via[k - 1]
  BY <1>0 DEF AreClosureRounds
<1> DEFINE T == {k \in Nat : k <= N => via[k] \subseteq L}
<1>2. 0 \in T
  BY <1>1
<1>3. ASSUME NEW k \in Nat, k \in T PROVE k + 1 \in T
  <2> SUFFICES ASSUME k + 1 <= N
               PROVE  via[k + 1] \subseteq L
    OBVIOUS
  <2>1. k \in 0..N /\ k + 1 \in 1..N /\ (k + 1) - 1 = k
    BY <1>1
  <2>2. via[k] \subseteq L /\ via[k] \subseteq nodes \X nodes
    BY <1>1, <1>3, <2>1
  <2>3. via[k + 1] = IF k + 1 \in nodes
                     THEN via[k] \cup (Preds(via[k], k + 1) \X Succs(via[k], k + 1)) ELSE via[k]
    BY <1>1, <2>1
  <2>4. ASSUME k + 1 \in nodes, NEW u \in Preds(via[k], k + 1), NEW w \in Succs(via[k], k + 1)
        PROVE <<u, w>> \in L
    <3> DEFINE R == via[k]
               c == k + 1
    <3>1. R \subseteq nodes \X nodes /\ u \in Preds(R, c) /\ w \in Succs(R, c)
      BY <2>2, <2>4
    <3> HIDE DEF R, c
    <3>2. <<u, c>> \in R /\ u \in nodes
      BY <3>1, Neighbours
    <3>3. <<c, w>> \in R /\ w \in nodes
      BY <3>1, Neighbours
    <3> QED
      BY <3>2, <3>3, <2>2, <2>4 DEF Transitive, R, c
  <2> QED
    BY <2>2, <2>3, <2>4
<1> HIDE DEF T
<1>4. Nat \subseteq T
  BY <1>2, <1>3, NatSetInduction
<1> USE DEF T
<1>5. N \in T
  BY <1>1, <1>4
<1> QED
  BY <1>1, <1>5

--------------------------------------------------------------------------------
(* condense.py: the components, and the graph between them.                    *)

(* Of one strongly connected component.                                        *)
Same(R, u, v) == u = v \/ (<<u, v>> \in R /\ <<v, u>> \in R)

(* Two runs of one component have the same component.                          *)
LEMMA SameComponent ==
  ASSUME NEW nodes, NEW R, R \subseteq nodes \X nodes, Transitive(R, nodes),
         NEW u \in nodes, NEW v \in nodes, Same(R, u, v)
  PROVE  Component(R, u) = Component(R, v)
<1>1. \A x, y : y \in Component(R, x) <=> Same(R, x, y)
  BY Neighbours DEF Component, Same
<1>2. \A y : (Same(R, u, y) \/ Same(R, v, y)) => y \in nodes
  BY DEF Same
<1>3. \A y \in nodes : Same(R, u, y) <=> Same(R, v, y)
  BY DEF Same, Transitive
<1>4. \A y : y \in Component(R, u) <=> y \in Component(R, v)
  BY <1>1, <1>2, <1>3
<1> QED
  BY <1>4

(* The exit of a component is in it, and is its own exit.                      *)
LEMMA ExitNode ==
  ASSUME NEW nodes, AreRuns(nodes), NEW R, R \subseteq nodes \X nodes, Transitive(R, nodes),
         NEW v \in nodes
  PROVE  /\ exit_node(R, v) \in nodes
         /\ Same(R, v, exit_node(R, v))
         /\ exit_node(R, exit_node(R, v)) = exit_node(R, v)
<1> DEFINE C == Component(R, v)
           x == exit_node(R, v)
<1>1. C \subseteq nodes /\ v \in C /\ \A y \in C : Same(R, v, y)
  BY Neighbours DEF Component, Same
<1>2. IsFiniteSet(C) /\ C \subseteq Int /\ C # {}
  <2>1. IsFiniteSet(C)
    BY <1>1, FS_Subset DEF AreRuns
  <2>2. nodes \subseteq Int
    BY DEF AreRuns
  <2> HIDE DEF C
  <2> QED
    BY <2>1, <2>2, <1>1
<1>3. x \in C
  <2> HIDE DEF C
  <2>1. Max(C) \in C
    BY <1>2, MaxIn
  <2> QED
    BY <2>1 DEF exit_node, C
<1>4. x \in nodes /\ Same(R, v, x)
  <2> HIDE DEF C, x
  <2> QED
    BY <1>1, <1>3
<1>5. Component(R, x) = Component(R, v)
  <2> HIDE DEF x
  <2> QED
    BY <1>4, SameComponent
<1> QED
  BY <1>4, <1>5 DEF exit_node

(* What condense makes of a graph. *)
Condensation(c) ==
  /\ AreRuns(c.nodes) /\ AreRuns(Supers(c))
  /\ c.graph \subseteq c.nodes \X c.nodes
  /\ c.exitOf \in [c.nodes -> Supers(c)]
  /\ Supers(c) \subseteq c.nodes
  /\ \A s \in Supers(c) : c.exitOf[s] = s /\ c.members[s] = {n \in c.nodes : c.exitOf[n] = s}
  /\ c.dag = {<<c.exitOf[e[1]], c.exitOf[e[2]]>> :
                 e \in {d \in c.graph : c.exitOf[d[1]] # c.exitOf[d[2]]}}
  /\ c.above = Closure(Supers(c), c.dag)
  /\ c.topo = topo_order(Supers(c), c.dag)

(* The condensation is acyclic: its edges respect some strict order.           *)
Ordered(L, c) ==
  /\ \A s \in Supers(c) : <<s, s>> \notin L
  /\ Transitive(L, Supers(c))
  /\ c.dag \subseteq L

(* What condense returns is a condensation, and acyclic: the exits stand for   *)
(* their components, and no edge between components can be answered by         *)
(* another.                                                                    *)
LEMMA Condensed ==
  ASSUME NEW nodes, AreRuns(nodes), NEW edges, edges \subseteq Nat \X Nat,
         NEW c, c = condense(nodes, edges)
  PROVE  /\ Condensation(c)
         /\ c.nodes = nodes /\ c.graph = build_graph(nodes, edges)
         /\ \E L : Ordered(L, c)
<1> DEFINE G == build_graph(nodes, edges)
           R == Closure(nodes, G)
           supers == {exit_node(R, n) : n \in nodes}
<1>1. G \subseteq nodes \X nodes
  BY DEF build_graph
<1>2. G \subseteq R /\ R \subseteq nodes \X nodes /\ Transitive(R, nodes)
  <2> HIDE DEF G
  <2> QED
    BY <1>1, ClosureTransitive
<1>3. /\ c.nodes = nodes /\ c.graph = G
      /\ c.exitOf = [n \in nodes |-> exit_node(R, n)]
  BY DEF condense
<1>4. supers = {c.exitOf[n] : n \in nodes}
  BY <1>3
<1>5. /\ c.members = [s \in supers |-> {n \in nodes : c.exitOf[n] = s}]
      /\ c.dag = {<<c.exitOf[e[1]], c.exitOf[e[2]]>> :
                    e \in {d \in G : c.exitOf[d[1]] # c.exitOf[d[2]]}}
      /\ c.above = Closure({c.exitOf[n] : n \in nodes}, c.dag)
      /\ c.topo = topo_order({c.exitOf[n] : n \in nodes}, c.dag)
  <2>1. /\ c.members = [s \in {c.exitOf[n] : n \in nodes} |-> {n \in nodes : c.exitOf[n] = s}]
        /\ c.dag = {<<c.exitOf[e[1]], c.exitOf[e[2]]>> :
                    e \in {d \in G : c.exitOf[d[1]] # c.exitOf[d[2]]}}
        /\ c.above = Closure({c.exitOf[n] : n \in nodes}, c.dag)
        /\ c.topo = topo_order({c.exitOf[n] : n \in nodes}, c.dag)
    BY DEF condense
  <2> QED
    BY <2>1, <1>4
<1>6. Supers(c) = supers
  BY <1>5 DEF Supers
<1> HIDE DEF G, R
<1>7. \A n \in nodes : /\ c.exitOf[n] \in nodes /\ c.exitOf[n] \in supers
                       /\ Same(R, n, c.exitOf[n])
                       /\ c.exitOf[c.exitOf[n]] = c.exitOf[n]
  BY <1>2, <1>3, ExitNode
<1>8. supers \subseteq nodes /\ \A s \in supers : c.exitOf[s] = s
  BY <1>4, <1>7
<1> HIDE DEF supers
<1>9. Condensation(c)
  <2>1. AreRuns(supers)
    BY <1>8, FS_Subset DEF AreRuns
  <2>2. c.exitOf \in [nodes -> supers]
    BY <1>3, <1>7
  <2>3. \A s \in supers : c.members[s] = {n \in nodes : c.exitOf[n] = s}
    BY <1>5
  <2> QED
    BY <1>1, <1>3, <1>4, <1>5, <1>6, <1>8, <2>1, <2>2, <2>3 DEF Condensation
<1>10. \E L : Ordered(L, c)
  <2> DEFINE L == {p \in supers \X supers : p \in R /\ <<p[2], p[1]>> \notin R}
  <2>1. \A s, t \in supers : <<s, t>> \in L <=> <<s, t>> \in R /\ <<t, s>> \notin R
    OBVIOUS
  <2> HIDE DEF L
  <2>2. \A s \in supers : <<s, s>> \notin L
    BY <2>1
  <2>3. Transitive(L, supers)
    BY <2>1, <1>2, <1>8 DEF Transitive
  <2>4. ASSUME NEW e \in G, c.exitOf[e[1]] # c.exitOf[e[2]]
        PROVE  <<c.exitOf[e[1]], c.exitOf[e[2]]>> \in L
    <3> DEFINE a == e[1]
               b == e[2]
               s == c.exitOf[a]
               t == c.exitOf[b]
    <3>1. a \in nodes /\ b \in nodes /\ <<a, b>> \in R
      <4>1. e = <<e[1], e[2]>> /\ e[1] \in nodes /\ e[2] \in nodes
        BY <1>1
      <4> QED
        BY <4>1, <1>2
    <3> HIDE DEF a, b
    <3>2. s \in supers /\ t \in supers /\ s \in nodes /\ t \in nodes
          /\ Same(R, a, s) /\ Same(R, b, t) /\ c.exitOf[s] = s /\ c.exitOf[t] = t
      BY <3>1, <1>7
    <3>3. s # t
      BY <2>4 DEF a, b
    <3> HIDE DEF s, t
    <3>4. <<s, b>> \in R
      BY <3>1, <3>2, <1>2 DEF Same, Transitive
    <3>5. <<s, t>> \in R
      BY <3>1, <3>2, <3>4, <1>2 DEF Same, Transitive
    <3>6. ASSUME <<t, s>> \in R PROVE FALSE
      <4>1. Same(R, s, t)
        BY <3>5, <3>6 DEF Same
      <4>2. Component(R, s) = Component(R, t)
        BY <4>1, <3>2, <1>2, SameComponent
      <4>3. c.exitOf[s] = exit_node(R, s) /\ c.exitOf[t] = exit_node(R, t)
        BY <3>2, <1>3
      <4>4. c.exitOf[s] = c.exitOf[t]
        BY <4>2, <4>3 DEF exit_node
      <4> QED
        BY <4>4, <3>2, <3>3
    <3>7. <<s, t>> \in L
      BY <2>1, <3>2, <3>5, <3>6
    <3> QED
      BY <3>7 DEF s, t, a, b
  <2>5. c.dag \subseteq L
    BY <1>5, <2>4
  <2>6. Ordered(L, c)
    BY <2>2, <2>3, <2>5, <1>6 DEF Ordered
  <2> QED
    BY <2>6
<1> QED
  BY <1>3, <1>9, <1>10 DEF G

(* An edge of the condensation comes from an edge of the trace.                *)
LEMMA DagEdges ==
  ASSUME NEW c, Condensation(c)
  PROVE  c.dag \subseteq Supers(c) \X Supers(c)
<1>1. ASSUME NEW e \in c.graph PROVE c.exitOf[e[1]] \in Supers(c) /\ c.exitOf[e[2]] \in Supers(c)
  <2>1. e[1] \in c.nodes /\ e[2] \in c.nodes /\ c.exitOf \in [c.nodes -> Supers(c)]
    BY DEF Condensation
  <2> QED
    BY <2>1
<1>2. c.dag = {<<c.exitOf[e[1]], c.exitOf[e[2]]>> :
                 e \in {d \in c.graph : c.exitOf[d[1]] # c.exitOf[d[2]]}}
  BY DEF Condensation
<1> QED
  BY <1>1, <1>2

(* Nothing is its own ancestor. *)
LEMMA AncestorsStrict ==
  ASSUME NEW c, Condensation(c), NEW L, Ordered(L, c)
  PROVE  /\ c.above \subseteq Supers(c) \X Supers(c)
         /\ c.dag \subseteq c.above
         /\ Transitive(c.above, Supers(c))
         /\ \A s \in Supers(c) : <<s, s>> \notin c.above
<1> DEFINE supers == Supers(c)
           dag == c.dag
<1>1. AreRuns(supers) /\ dag \subseteq supers \X supers /\ c.above = Closure(supers, dag)
      /\ dag \subseteq L /\ Transitive(L, supers) /\ \A s \in supers : <<s, s>> \notin L
  BY DagEdges DEF Condensation, Ordered
<1> HIDE DEF supers, dag
<1>2. /\ dag \subseteq Closure(supers, dag) /\ Closure(supers, dag) \subseteq supers \X supers
      /\ Transitive(Closure(supers, dag), supers)
  BY <1>1, ClosureTransitive
<1>3. Closure(supers, dag) \subseteq L
  BY <1>1, ClosureLeast
<1>4. /\ c.above \subseteq supers \X supers
      /\ dag \subseteq c.above
      /\ Transitive(c.above, supers)
      /\ \A s \in supers : <<s, s>> \notin c.above
  BY <1>1, <1>2, <1>3
<1> QED
  BY <1>4 DEF supers, dag

--------------------------------------------------------------------------------
(* condense.py: the order of the super-nodes.                                  *)

(* Of two super-nodes joined by an edge the first comes first. *)
Forwards(q, E) ==
  \A j \in 1..Len(q) : \A p \in Preds(E, q[j]) : \E h \in 1..(j - 1) : q[h] = p

(* A run may come next once its predecessors are out.                          *)
LEMMA AppendForwards ==
  ASSUME NEW X, NEW q \in Seq(X), NEW E, Forwards(q, E),
         NEW x \in X, Preds(E, x) \subseteq ToSet(q)
  PROVE  Forwards(Append(q, x), E)
<1> DEFINE r == Append(q, x)
           n == Len(q)
<1>1. n \in Nat /\ Len(r) = n + 1 /\ r[n + 1] = x /\ (\A j \in 1..n : r[j] = q[j])
  OBVIOUS
<1>2. \A p \in Preds(E, x) : \E h \in 1..n : q[h] = p
  BY DEF ToSet
<1> SUFFICES ASSUME NEW j \in 1..(n + 1), NEW p \in Preds(E, r[j])
             PROVE  \E h \in 1..(j - 1) : r[h] = p
  BY <1>1 DEF Forwards
<1> HIDE DEF r, n
<1>3. CASE j = n + 1
  <2>1. PICK h \in 1..n : q[h] = p
    BY <1>1, <1>2, <1>3
  <2> QED
    BY <2>1, <1>1, <1>3
<1>4. CASE j \in 1..n
  <2>1. p \in Preds(E, q[j])
    BY <1>1, <1>4
  <2>2. \E h \in 1..(j - 1) : q[h] = p
    BY <2>1, <1>4 DEF Forwards, n
  <2> QED
    BY <2>2, <1>1, <1>4
<1> QED
  BY <1>1, <1>3, <1>4

(* Kahn's algorithm gets stuck nowhere: on an acyclic graph it puts out        *)
(* every super-node, predecessors first.                                       *)
LEMMA TopoOrder ==
  ASSUME NEW S, AreRuns(S), NEW E, E \subseteq S \X S,
         NEW L, Transitive(L, S), E \subseteq L, \A s \in S : <<s, s>> \notin L
  PROVE  /\ topo_order(S, E) \in Seq(S)
         /\ ToSet(topo_order(S, E)) = S
         /\ Forwards(topo_order(S, E), E)
<1> DEFINE N == Cardinality(S)
           Ready(done) == {s \in S \ ToSet(done) : Preds(E, s) \subseteq ToSet(done)}
           Y == S \cup {Min({})}
           D == Seq(Y)
           After(q) == Append(q, Min(Ready(q)))
           Round(F) == [i \in 0..N |-> IF i = 0 THEN << >>
                                       ELSE LET done == F[i - 1] IN Append(done, Min(Ready(done)))]
           out == CHOOSE F : F = Round(F)
           g == [p \in D \X (1..N) |-> After(p[1])]
<1>1. N \in Nat /\ IsFiniteSet(S) /\ S \subseteq Int
  BY FS_CardinalityType DEF AreRuns
<1>2. ASSUME NEW q, Ready(q) # {} PROVE Min(Ready(q)) \in Ready(q)
  <2> DEFINE X == Ready(q)
  <2>1. IsFiniteSet(X) /\ X \subseteq Int /\ X # {}
    BY <1>1, <1>2, FS_Subset
  <2> HIDE DEF X
  <2>2. Min(X) \in X
    BY <2>1, MinIn
  <2> QED
    BY <2>2 DEF X
<1>3. ASSUME NEW q \in D PROVE After(q) \in D
  <2>1. Min(Ready(q)) \in Y
    <3>1. CASE Ready(q) = {}
      BY <3>1
    <3>2. CASE Ready(q) # {}
      BY <3>2, <1>2
    <3> QED
      BY <3>1, <3>2
  <2> HIDE DEF Ready, Y
  <2> QED
    BY <2>1
<1>4. out = Round(out)
  <2>1. << >> \in D /\ g \in [D \X (1..N) -> D]
    <3>1. << >> \in D
      OBVIOUS
    <3> HIDE DEF D, After
    <3> QED
      BY <3>1, <1>3
  <2> DEFINE start == << >>
  <2>2. PICK f : IsRun(f, D, N, start, g)
    <3>1. N \in Nat /\ start \in D /\ g \in [D \X (1..N) -> D]
      BY <1>1, <2>1
    <3> HIDE DEF D, N, g, start
    <3> QED
      BY <3>1, Rounds
  <2>3. f \in [0..N -> D] /\ f[0] = << >> /\ \A i \in 1..N : f[i] = g[<<f[i - 1], i>>]
    BY <2>2 DEF IsRun
  <2>4. ASSUME NEW i \in 1..N PROVE f[i] = After(f[i - 1])
    <3>1. i - 1 \in 0..N
      BY <1>1
    <3>2. f[i - 1] \in D
      BY <3>1, <2>3
    <3>3. <<f[i - 1], i>> \in D \X (1..N)
      BY <3>2
    <3>4. f[i] = g[<<f[i - 1], i>>]
      BY <2>3
    <3> HIDE DEF D, N, After
    <3> QED
      BY <3>3, <3>4
  <2>5. f = Round(f)
    <3>1. DOMAIN f = 0..N /\ f = [i \in 0..N |-> f[i]]
      BY <2>3
    <3>2. ASSUME NEW i \in 0..N
          PROVE  f[i] = IF i = 0 THEN << >> ELSE After(f[i - 1])
      <4>1. i = 0 \/ i \in 1..N
        BY <1>1
      <4> HIDE DEF After
      <4> QED
        BY <4>1, <2>3, <2>4
    <3> HIDE DEF Ready
    <3> QED
      BY <3>1, <3>2
  <2> HIDE DEF Round
  <2> QED
    BY <2>5
<1>5. out[0] = << >> /\ \A i \in 1..N : out[i] = After(out[i - 1])
  <2>1. \A i \in 0..N : Round(out)[i] = IF i = 0 THEN << >> ELSE After(out[i - 1])
    OBVIOUS
  <2>2. (\A i \in 1..N : i \in 0..N /\ i # 0) /\ 0 \in 0..N
    BY <1>1
  <2> HIDE DEF out, Round, After
  <2> QED
    BY <1>4, <2>1, <2>2
<1>6. topo_order(S, E) = out[N]
  BY DEF topo_order
<1> HIDE DEF out
<1> DEFINE Partial(q, i) == /\ q \in Seq(S) /\ Len(q) = i /\ Cardinality(ToSet(q)) = i
                            /\ ToSet(q) \subseteq S /\ Forwards(q, E)
           T == {i \in Nat : i <= N => Partial(out[i], i)}
<1>7. 0 \in T
  <2>1. << >> \in Seq(S) /\ Len(<< >>) = 0
    OBVIOUS
  <2>2. ToSet(<< >>) = {}
    BY DEF ToSet
  <2>3. Forwards(<< >>, E)
    BY DEF Forwards
  <2>4. Cardinality({}) = 0
    BY FS_EmptySet
  <2>5. Partial(<< >>, 0)
    BY <2>1, <2>2, <2>3, <2>4
  <2> HIDE DEF Partial
  <2> QED
    BY <2>5, <1>5
<1>8. ASSUME NEW i \in Nat, i \in T PROVE i + 1 \in T
  <2> SUFFICES ASSUME i + 1 <= N PROVE Partial(out[i + 1], i + 1)
    OBVIOUS
  <2> DEFINE q == out[i]
  <2>1. Partial(q, i) /\ i < N
    BY <1>1, <1>8
  <2>2. out[i + 1] = After(q)
    <3>1. i + 1 \in 1..N /\ (i + 1) - 1 = i
      BY <1>1
    <3> HIDE DEF After
    <3> QED
      BY <3>1, <1>5
  <2> HIDE DEF q, T
  <2>3. ToSet(q) # S
    BY <2>1
  <2>4. Ready(q) # {}
    <3> DEFINE X == S \ ToSet(q)
    <3>1. IsFiniteSet(X) /\ X # {} /\ X \subseteq S
      BY <1>1, <2>1, <2>3, FS_Difference
    <3>2. PICK x \in X : \A y \in X : <<y, x>> \notin L
      <4>1. \A y \in X : <<y, y>> \notin L
        BY <3>1
      <4>2. \A y, z, w \in X : <<y, z>> \in L /\ <<z, w>> \in L => <<y, w>> \in L
        BY <3>1 DEF Transitive
      <4> HIDE DEF X
      <4> QED
        BY <3>1, <4>1, <4>2, Minimal
    <3>3. Preds(E, x) \subseteq ToSet(q)
      <4>1. \A p \in Preds(E, x) : <<p, x>> \in E /\ p \in S
        BY Neighbours
      <4> QED
        BY <4>1, <3>2
    <3>4. x \in Ready(q)
      BY <3>2, <3>3
    <3> QED
      BY <3>4
  <2> DEFINE x == Min(Ready(q))
  <2>5. x \in Ready(q)
    BY <2>4, <1>2
  <2>6. x \in S /\ x \notin ToSet(q) /\ Preds(E, x) \subseteq ToSet(q)
    <3> HIDE DEF x
    <3> QED
      BY <2>5
  <2>7. After(q) = Append(q, x)
    OBVIOUS
  <2> HIDE DEF x, After, Ready
  <2> DEFINE r == Append(q, x)
  <2>8. r \in Seq(S) /\ Len(r) = i + 1
    BY <2>1, <2>6
  <2>9. ToSet(r) = ToSet(q) \cup {x}
    BY <2>1, <2>6, AppendSet
  <2>10. Cardinality(ToSet(r)) = i + 1
    <3> DEFINE A == ToSet(q)
    <3>1. A \subseteq S /\ Cardinality(A) = i /\ x \notin A /\ ToSet(r) = A \cup {x}
      BY <2>1, <2>6, <2>9
    <3> HIDE DEF A, r
    <3>2. IsFiniteSet(A)
      BY <3>1, <1>1, FS_Subset
    <3>3. Cardinality(A \cup {x}) = Cardinality(A) + 1
      BY <3>1, <3>2, FS_AddElement
    <3> QED
      BY <3>1, <3>3
  <2>11. Forwards(r, E)
    BY <2>1, <2>6, AppendForwards
  <2>12. ToSet(r) \subseteq S
    BY <2>1, <2>6, <2>9
  <2>13. Partial(r, i + 1)
    <3> HIDE DEF r
    <3> QED
      BY <2>8, <2>10, <2>11, <2>12
  <2> HIDE DEF Partial
  <2> QED
    BY <2>2, <2>7, <2>13
<1> HIDE DEF T
<1>9. Nat \subseteq T
  BY <1>7, <1>8, NatSetInduction
<1> USE DEF T
<1>10. Partial(out[N], N)
  BY <1>1, <1>9
<1>11. ToSet(out[N]) = S
  BY <1>1, <1>10, FS_Subset
<1> QED
  BY <1>6, <1>10, <1>11

(* The topological order of a condensation.                                    *)
LEMMA Topo ==
  ASSUME NEW c, Condensation(c), NEW L, Ordered(L, c)
  PROVE  c.topo \in Seq(Supers(c)) /\ ToSet(c.topo) = Supers(c) /\ Forwards(c.topo, c.dag)
<1> DEFINE S == Supers(c)
           E == c.dag
<1>1. /\ AreRuns(S) /\ E \subseteq S \X S
      /\ Transitive(L, S) /\ E \subseteq L /\ \A s \in S : <<s, s>> \notin L
      /\ c.topo = topo_order(S, E)
  BY DagEdges DEF Condensation, Ordered
<1> HIDE DEF S, E
<1>2. c.topo \in Seq(S) /\ ToSet(c.topo) = S /\ Forwards(c.topo, E)
  BY <1>1, TopoOrder
<1> QED
  BY <1>2 DEF S, E

(* The first of S in a sequence. *)
LEMMA First ==
  ASSUME NEW X, NEW seq \in Seq(X), NEW S, ToSet(seq) \cap S # {}
  PROVE  FirstIn(seq, S) \in S /\ FirstIn(seq, S) \in ToSet(seq)
<1> DEFINE I == {i \in DOMAIN seq : seq[i] \in S}
<1>1. I \subseteq 1..Len(seq) /\ Len(seq) \in Nat /\ I # {} /\ DOMAIN seq = 1..Len(seq)
  BY DEF ToSet
<1>2. IsFiniteSet(I)
  <2> DEFINE n == Len(seq)
  <2>1. n \in Nat /\ I \subseteq 1..n
    BY <1>1
  <2> HIDE DEF n, I
  <2>2. IsFiniteSet(1..n)
    BY <2>1, FS_Interval
  <2> QED
    BY <2>1, <2>2, FS_Subset
<1>3. Min(I) \in I
  <2>1. I \subseteq Int
    BY <1>1
  <2> HIDE DEF I
  <2> QED
    BY <1>1, <1>2, <2>1, MinIn
<1>4. FirstIn(seq, S) = seq[Min(I)]
  BY DEF FirstIn
<1> QED
  BY <1>1, <1>3, <1>4 DEF ToSet

--------------------------------------------------------------------------------
(* Lists, whatever is in them.                                                 *)

(* A list, whatever is in it. *)
Listed(q) == q \in Seq(ToSet(q))

(* A sequence is a list of what it holds ..                                    *)
LEMMA ListedIn ==
  ASSUME NEW X, NEW q \in Seq(X)
  PROVE  Listed(q) /\ ToSet(q) \subseteq X
<1>1. DOMAIN q = 1..Len(q) /\ Len(q) \in Nat /\ q = [i \in 1..Len(q) |-> q[i]]
      /\ \A i \in 1..Len(q) : q[i] \in X
  OBVIOUS
<1>2. ToSet(q) \subseteq X /\ \A i \in 1..Len(q) : q[i] \in ToSet(q)
  BY <1>1 DEF ToSet
<1> DEFINE n == Len(q)
           S == ToSet(q)
<1>3. n \in Nat /\ q \in [1..n -> S]
  <2>1. n \in Nat /\ q = [i \in 1..n |-> q[i]] /\ \A i \in 1..n : q[i] \in S
    BY <1>1, <1>2
  <2> HIDE DEF n, S
  <2> QED
    BY <2>1
<1> HIDE DEF n, S
<1>4. q \in Seq(S)
  BY <1>3, SeqDef
<1> QED
  BY <1>2, <1>4 DEF Listed, S

(* .. and a sequence of anything that holds that.                              *)
LEMMA ListedSeq ==
  ASSUME NEW X, NEW q, Listed(q), ToSet(q) \subseteq X
  PROVE  q \in Seq(X)
<1> DEFINE S == ToSet(q)
<1>1. q \in Seq(S) /\ S \subseteq X
  BY DEF Listed
<1> HIDE DEF S
<1> QED
  BY <1>1

(* A function on 1..n is a list.                                               *)
LEMMA ListedFun ==
  ASSUME NEW n \in Nat, NEW f, f = [i \in 1..n |-> f[i]]
  PROVE  Listed(f) /\ ToSet(f) = {f[i] : i \in 1..n}
<1>1. DOMAIN f = 1..n
  OBVIOUS
<1>2. ToSet(f) = {f[i] : i \in 1..n}
  BY <1>1 DEF ToSet
<1>3. f \in [1..n -> ToSet(f)]
  BY <1>2
<1> QED
  BY <1>2, <1>3, SeqDef DEF Listed

(* The positions of a list.                                                    *)
LEMMA ListedDomain ==
  ASSUME NEW q, Listed(q)
  PROVE  DOMAIN q = 1..Len(q) /\ Len(q) \in Nat /\ ToSet(q) = {q[i] : i \in 1..Len(q)}
<1> DEFINE S == ToSet(q)
<1>1. q \in Seq(S)
  BY DEF Listed
<1> HIDE DEF S
<1>2. DOMAIN q = 1..Len(q) /\ Len(q) \in Nat
  BY <1>1
<1> QED
  BY <1>2 DEF ToSet

(* What a concatenation holds.                                                 *)
LEMMA ListedConcat ==
  ASSUME NEW a, NEW b, Listed(a), Listed(b)
  PROVE  Listed(a \o b) /\ ToSet(a \o b) = ToSet(a) \cup ToSet(b)
<1> DEFINE X == ToSet(a) \cup ToSet(b)
           c == a \o b
<1>1. a \in Seq(X) /\ b \in Seq(X)
  BY ListedSeq
<1> HIDE DEF X
<1>2. c \in Seq(X) /\ Len(c) = Len(a) + Len(b) /\ Len(a) \in Nat /\ Len(b) \in Nat
  BY <1>1
<1>3. /\ \A i \in 1..Len(a) : c[i] = a[i]
      /\ \A i \in 1..Len(b) : c[Len(a) + i] = b[i]
  BY <1>1
<1>4. DOMAIN a = 1..Len(a) /\ DOMAIN b = 1..Len(b) /\ DOMAIN c = 1..Len(c)
  BY <1>1, <1>2
<1> HIDE DEF c
<1>5. ASSUME NEW x \in ToSet(c) PROVE x \in ToSet(a) \cup ToSet(b)
  <2>1. PICK i \in 1..Len(c) : x = c[i]
    BY <1>4 DEF ToSet
  <2>2. CASE i <= Len(a)
    BY <2>1, <2>2, <1>2, <1>3, <1>4 DEF ToSet
  <2>3. CASE i > Len(a)
    <3>1. i - Len(a) \in 1..Len(b) /\ Len(a) + (i - Len(a)) = i
      BY <2>1, <2>3, <1>2
    <3>2. c[i] = b[i - Len(a)]
      BY <3>1, <1>3
    <3> QED
      BY <2>1, <3>1, <3>2, <1>4 DEF ToSet
  <2> QED
    BY <2>1, <2>2, <2>3, <1>2
<1>6. ASSUME NEW x \in ToSet(a) PROVE x \in ToSet(c)
  <2>1. PICK i \in 1..Len(a) : x = a[i]
    BY <1>4 DEF ToSet
  <2>2. i \in 1..Len(c) /\ c[i] = x
    BY <2>1, <1>2, <1>3
  <2> QED
    BY <2>2, <1>4 DEF ToSet
<1>7. ASSUME NEW x \in ToSet(b) PROVE x \in ToSet(c)
  <2>1. PICK i \in 1..Len(b) : x = b[i]
    BY <1>4 DEF ToSet
  <2>2. Len(a) + i \in 1..Len(c) /\ c[Len(a) + i] = x
    BY <2>1, <1>2, <1>3
  <2> QED
    BY <2>2, <1>4 DEF ToSet
<1>8. ToSet(c) = ToSet(a) \cup ToSet(b)
  BY <1>5, <1>6, <1>7
<1>9. Listed(c)
  BY <1>2, ListedIn
<1> QED
  BY <1>8, <1>9 DEF c

(* What is selected from a list is a list.                                     *)
LEMMA ListedSelect ==
  ASSUME NEW q, Listed(q), NEW S
  PROVE  Listed(Select(q, S)) /\ ToSet(Select(q, S)) = ToSet(q) \cap S
<1> DEFINE X == ToSet(q)
<1>1. q \in Seq(X)
  BY DEF Listed
<1> HIDE DEF X
<1>2. Select(q, S) \in Seq(X) /\ ToSet(Select(q, S)) = ToSet(q) \cap S
  BY <1>1, Selected
<1> QED
  BY <1>2, ListedIn

(* A list that holds nothing is empty.                                         *)
LEMMA ListedEmpty == Listed(<< >>) /\ ToSet(<< >>) = {} /\ \A q : Listed(q) /\ ToSet(q) = {} => q = << >>
<1>1. << >> \in Seq({}) /\ ToSet(<< >>) = {}
  BY DEF ToSet
<1>2. ASSUME NEW q, Listed(q), ToSet(q) = {} PROVE q = << >>
  <2>1. q \in Seq({}) /\ DOMAIN q = {} /\ DOMAIN q = 1..Len(q) /\ Len(q) \in Nat
    BY <1>2, ListedDomain DEF Listed, ToSet
  <2>2. Len(q) = 0
    BY <2>1
  <2> QED
    BY <2>1, <2>2
<1> QED
  BY <1>1, <1>2, ListedIn

(* ByTime lists a set of runs.                                                 *)
LEMMA ByTimeSet ==
  ASSUME NEW S, AreRuns(S)
  PROVE  Listed(ByTime(S)) /\ ToSet(ByTime(S)) = S
<1> DEFINE n == Max(S \cup {0})
           up == [i \in 1..n |-> i]
<1>1. n \in Nat /\ S \subseteq 1..n
  BY Bound
<1> HIDE DEF n
<1>2. Listed(up) /\ ToSet(up) = 1..n
  <2>1. up = [i \in 1..n |-> up[i]] /\ {up[i] : i \in 1..n} = 1..n
    OBVIOUS
  <2> HIDE DEF up
  <2> QED
    BY <1>1, <2>1, ListedFun
<1> HIDE DEF up
<1>3. Listed(Select(up, S)) /\ ToSet(Select(up, S)) = ToSet(up) \cap S
  BY <1>2, ListedSelect
<1> USE DEF up, n
<1>4. ByTime(S) = Select(up, S)
  BY DEF ByTime
<1> HIDE DEF up, n
<1> QED
  BY <1>1, <1>2, <1>3, <1>4

(* FirstIn finds one where there is one.                                       *)
LEMMA ListedFirst ==
  ASSUME NEW q, Listed(q), NEW S, ToSet(q) \cap S # {}
  PROVE  FirstIn(q, S) \in S \cap ToSet(q)
<1> DEFINE X == ToSet(q)
<1>1. q \in Seq(X)
  BY DEF Listed
<1> HIDE DEF X
<1> QED
  BY <1>1, First

--------------------------------------------------------------------------------
(* cutpoint.py: the candidates of the content channel.                         *)

(* A condensed trace. *)
Graphed(c, t) ==
  /\ IsTrace(t) /\ Condensation(c) /\ c.nodes = t.nodes
  /\ \E L : Ordered(L, c)

(* Localize condenses a trace as assumed below.                                *)
LEMMA CondensedTrace ==
  ASSUME NEW t, IsTrace(t)
  PROVE  Graphed(condense(t.nodes, t.edges), t)
<1> DEFINE n == t.nodes
           e == t.edges
<1>1. AreRuns(n) /\ e \subseteq Nat \X Nat
  BY DEF IsTrace, AreRuns
<1> DEFINE c == condense(n, e)
<1> HIDE DEF n, e
<1>2. Condensation(c) /\ c.nodes = n /\ \E L : Ordered(L, c)
  BY <1>1, Condensed
<1> QED
  BY <1>2 DEF n, e, Graphed

(* InOrder lists a set of super-nodes.                                         *)
LEMMA InOrderSet ==
  ASSUME NEW c, NEW t, Graphed(c, t), NEW S, S \subseteq Supers(c)
  PROVE  Listed(InOrder(c, S)) /\ ToSet(InOrder(c, S)) = S
<1>1. PICK L : Ordered(L, c)
  BY DEF Graphed
<1>2. Listed(c.topo) /\ ToSet(c.topo) = Supers(c)
  BY <1>1, Topo, ListedIn DEF Graphed
<1>3. Listed(Select(c.topo, S)) /\ ToSet(Select(c.topo, S)) = ToSet(c.topo) \cap S
  BY <1>2, ListedSelect
<1> QED
  BY <1>2, <1>3 DEF InOrder

(* The runs of a list of candidates.                                           *)
LEMMA RunsOfSet ==
  ASSUME NEW q
  PROVE  RunsOf(q) = {x.run : x \in ToSet(q)}
BY DEF RunsOf, ToSet

(* A candidate is a record that has, among others, these fields. *)
IsCandidate(d) == {"run", "via", "member"} \subseteq DOMAIN d

(* The fields of the candidates that the arguments below read.                 *)
LEMMA ContentFields ==
  ASSUME NEW c, NEW t, NEW s
  PROVE  /\ IsCandidate(ContentCandidate(c, t, s))
         /\ ContentCandidate(c, t, s).run = s
         /\ ContentCandidate(c, t, s).via = "content"
         /\ ContentCandidate(c, t, s).member = Unknown
BY DEF ContentCandidate, CandidateOf, IsCandidate

(* The same for a hard fault ..                                                *)
LEMMA DeterministicFields ==
  ASSUME NEW c, NEW t, NEW s
  PROVE  /\ IsCandidate(DeterministicCandidate(c, t, s))
         /\ DeterministicCandidate(c, t, s).run = s
         /\ DeterministicCandidate(c, t, s).via = "deterministic"
         /\ DeterministicCandidate(c, t, s).member = Unknown
BY DEF DeterministicCandidate, CandidateOf, IsCandidate

(* .. for the start of an eroding chain ..                                     *)
LEMMA ChainFields ==
  ASSUME NEW c, NEW t, NEW p
  PROVE  /\ IsCandidate(ChainCandidate(c, t, p))
         /\ ChainCandidate(c, t, p).run = p[2]
         /\ ChainCandidate(c, t, p).via = "content"
         /\ ChainCandidate(c, t, p).member = Unknown
BY DEF ChainCandidate, CandidateOf, IsCandidate

(* Scores are finitely many numbers.                                           *)
LEMMA Scores ==
  ASSUME NEW V, V \subseteq {Unknown} \cup 0..100
  PROVE  IsFiniteSet(V) /\ V \subseteq Int
<1> DEFINE lo == Unknown
           hi == 100
           U == lo..hi
<1>1. lo \in Int /\ hi \in Int /\ V \subseteq U
  BY DEF Unknown
<1> HIDE DEF lo, hi
<1>2. IsFiniteSet(U) /\ U \subseteq Int
  BY <1>1, FS_Interval
<1> HIDE DEF U
<1>3. V \in SUBSET U
  BY <1>1
<1>4. IsFiniteSet(V)
  BY <1>2, <1>3, FS_Subset
<1> QED
  BY <1>1, <1>2, <1>4

(* .. and for the member of a cycle, which is in the cycle.                    *)
LEMMA InternalFields ==
  ASSUME NEW c, NEW t, Graphed(c, t), NEW s \in Supers(c), QualifyingMembers(c, t, s) # {}
  PROVE  /\ IsCandidate(InternalCandidate(c, t, s))
         /\ InternalCandidate(c, t, s).run = s
         /\ InternalCandidate(c, t, s).via = "content"
         /\ InternalCandidate(c, t, s).member \in QualifyingMembers(c, t, s)
         /\ QualifyingMembers(c, t, s) \subseteq c.members[s]
<1> DEFINE Q == QualifyingMembers(c, t, s)
           V == {t.score[m] : m \in Q}
           worst == Min(V)
           tied == {m \in Q : t.score[m] = worst}
<1>1. Q \subseteq c.members[s] /\ \A m \in Q : t.score[m] # Unknown
  BY DEF QualifyingMembers
<1>2. Q \subseteq t.nodes /\ t.nodes \subseteq Nat /\ IsFiniteSet(t.nodes)
  <2>1. c.members[s] = {n \in c.nodes : c.exitOf[n] = s}
    BY DEF Graphed, Condensation
  <2> QED
    BY <1>1, <2>1 DEF Graphed, IsTrace
<1>3. V \subseteq 0..100
  <2>1. \A m \in t.nodes : t.score[m] \in {Unknown} \cup 0..100
    BY DEF Graphed, IsTrace
  <2> QED
    BY <1>1, <1>2, <2>1
<1> HIDE DEF Q
<1>4. V # {}
  BY DEF Q
<1> HIDE DEF V
<1>5. worst \in V
  <2>2. IsFiniteSet(V) /\ V \subseteq Int
    BY <1>3, Scores
  <2> QED
    BY <1>4, <2>2, MinIn
<1>6. tied # {}
  BY <1>5 DEF V
<1> HIDE DEF worst
<1>7. tied \subseteq t.nodes /\ tied \subseteq Q
  BY <1>2
<1> HIDE DEF tied
<1>8. Min(tied) \in tied
  <2>1. IsFiniteSet(tied) /\ tied \subseteq Int
    BY <1>2, <1>7, FS_Subset
  <2> QED
    BY <1>6, <2>1, MinIn
<1> USE DEF tied, worst, V, Q
<1>9. /\ IsCandidate(InternalCandidate(c, t, s))
      /\ InternalCandidate(c, t, s).run = s
      /\ InternalCandidate(c, t, s).via = "content"
      /\ InternalCandidate(c, t, s).member = Min(tied)
  BY DEF InternalCandidate, CandidateOf, IsCandidate
<1> HIDE DEF tied
<1> QED
  BY <1>1, <1>7, <1>8, <1>9 DEF Q

(* The content candidates of a set of super-nodes.                             *)
LEMMA ContentList ==
  ASSUME NEW c, NEW t, Graphed(c, t), NEW S, S \subseteq Supers(c)
  PROVE  /\ Listed(ContentCandidates(c, t, S))
         /\ ToSet(ContentCandidates(c, t, S)) = {ContentCandidate(c, t, s) : s \in S}
<1> DEFINE q == InOrder(c, S)
           f == ContentCandidates(c, t, S)
           n == Len(q)
<1>1. Listed(q) /\ ToSet(q) = S
  BY InOrderSet
<1>2. DOMAIN q = 1..n /\ n \in Nat /\ S = {q[i] : i \in 1..n}
  <2> HIDE DEF q
  <2> QED
    BY <1>1, ListedDomain
<1>3. f = [i \in 1..n |-> ContentCandidate(c, t, q[i])]
  BY <1>2 DEF ContentCandidates
<1> HIDE DEF f, n, q
<1>4. f = [i \in 1..n |-> f[i]] /\ {f[i] : i \in 1..n} = {ContentCandidate(c, t, s) : s \in S}
  BY <1>2, <1>3
<1>5. Listed(f) /\ ToSet(f) = {f[i] : i \in 1..n}
  BY <1>2, <1>4, ListedFun
<1> QED
  BY <1>4, <1>5 DEF f

(* The path of an eroding chain: super-nodes, the head first. *)
LEMMA ErosionPath ==
  ASSUME NEW c, NEW t, Graphed(c, t), NEW head \in Supers(c)
  PROVE  /\ ErosionFrom(c, t, head) \in Seq(Supers(c)) /\ Len(ErosionFrom(c, t, head)) > 0
         /\ ErosionFrom(c, t, head)[1] = head
         /\ Len(ErosionFrom(c, t, head)) > 1 =>
               ErosionFrom(c, t, head)[2] \in Steepest(c, t, head)
<1> DEFINE X == Supers(c)
           N == Len(c.topo)
           D == {q \in Seq(X) : Len(q) > 0 /\ q[1] = head /\ (Len(q) > 1 => q[2] \in Steepest(c, t, head))}
           Grow(way) == LET next == Steepest(c, t, Last(way))
                        IN  IF next = {} THEN way ELSE Append(way, CHOOSE x \in next : TRUE)
           Round(F) == [i \in 0..N |->
                          IF i = 0 THEN <<head>>
                          ELSE LET way == F[i - 1]
                                   next == Steepest(c, t, Last(way))
                               IN  IF next = {} THEN way ELSE Append(way, CHOOSE x \in next : TRUE)]
           path == CHOOSE F : F = Round(F)
           g == [p \in D \X (1..N) |-> Grow(p[1])]
           start == <<head>>
<1>1. N \in Nat
  <2>1. PICK L : Ordered(L, c)
    BY DEF Graphed
  <2>2. c.topo \in Seq(Supers(c))
    BY <2>1, Topo DEF Graphed
  <2> QED
    BY <2>2
<1>2. ASSUME NEW q \in D PROVE Grow(q) \in D
  <2> DEFINE next == Steepest(c, t, Last(q))
  <2>1. next \subseteq X
    <3>1. c.dag \subseteq Supers(c) \X Supers(c)
      BY DagEdges DEF Graphed
    <3> DEFINE A == Supers(c)
               E == c.dag
               x == Last(q)
    <3>2. Succs(E, x) \subseteq A
      <4>1. E \subseteq A \X A
        BY <3>1
      <4> HIDE DEF A, E, x
      <4> QED
        BY <4>1, Neighbours
    <3> QED
      BY <3>2 DEF Steepest
  <2> HIDE DEF next, X
  <2>2. CASE next = {}
    BY <2>2 DEF next
  <2>3. CASE next # {}
    <3> DEFINE x == CHOOSE x \in next : TRUE
    <3>1. x \in X
      BY <2>1, <2>3
    <3> HIDE DEF x
    <3>a. q \in Seq(X) /\ Len(q) \in Nat /\ Len(q) > 0 /\ q[1] = head
      OBVIOUS
    <3>b. Len(q) > 1 => q[2] \in Steepest(c, t, head)
      OBVIOUS
    <3> DEFINE a == Append(q, x)
    <3>c. /\ a \in Seq(X) /\ Len(a) = Len(q) + 1 /\ a[Len(q) + 1] = x
          /\ \A i \in 1..Len(q) : a[i] = q[i]
      BY <3>1, <3>a
    <3> HIDE DEF a
    <3>2. a \in Seq(X) /\ Len(a) > 0 /\ a[1] = head
      BY <3>a, <3>c
    <3>3. a[2] \in Steepest(c, t, head)
      <4>1. CASE Len(q) = 1
        <5>1. Last(q) = head /\ a[2] = x
          BY <4>1, <3>a, <3>c DEF Last
        <5>2. x \in next
          BY <2>3 DEF x
        <5> QED
          BY <5>1, <5>2 DEF next
      <4>2. CASE Len(q) > 1
        <5>1. a[2] = q[2]
          BY <4>2, <3>a, <3>c
        <5> QED
          BY <5>1, <4>2, <3>b
      <4> DEFINE k == Len(q)
      <4>3. k = 1 \/ k > 1
        <5>1. k \in Nat /\ k > 0
          BY <3>a
        <5> HIDE DEF k
        <5> QED
          BY <5>1
      <4> QED
        BY <4>1, <4>2, <4>3
    <3>4. Append(q, x) \in D
      BY <3>2, <3>3 DEF a
    <3> QED
      BY <2>3, <3>4 DEF x, next
  <2> QED
    BY <2>2, <2>3
<1>3. path = Round(path)
  <2>1. start \in D /\ g \in [D \X (1..N) -> D]
    <3>1. start \in D
      OBVIOUS
    <3> HIDE DEF D, Grow, start
    <3> QED
      BY <3>1, <1>2
  <2>2. PICK f : IsRun(f, D, N, start, g)
    <3> HIDE DEF D, N, g, start
    <3> QED
      BY <1>1, <2>1, Rounds
  <2>3. f \in [0..N -> D] /\ f[0] = start /\ \A i \in 1..N : f[i] = g[<<f[i - 1], i>>]
    BY <2>2 DEF IsRun
  <2>4. ASSUME NEW i \in 1..N PROVE f[i] = Grow(f[i - 1])
    <3>1. i - 1 \in 0..N
      BY <1>1
    <3>2. f[i - 1] \in D
      BY <3>1, <2>3
    <3>3. <<f[i - 1], i>> \in D \X (1..N)
      BY <3>2
    <3>4. f[i] = g[<<f[i - 1], i>>]
      BY <2>3
    <3> HIDE DEF D, N, Grow
    <3> QED
      BY <3>3, <3>4
  <2>5. f = Round(f)
    <3>1. DOMAIN f = 0..N /\ f = [i \in 0..N |-> f[i]]
      BY <2>3
    <3>2. ASSUME NEW i \in 0..N
          PROVE  f[i] = IF i = 0 THEN <<head>> ELSE Grow(f[i - 1])
      <4>1. i = 0 \/ i \in 1..N
        BY <1>1
      <4> HIDE DEF Grow
      <4> QED
        BY <4>1, <2>3, <2>4
    <3> QED
      BY <3>1, <3>2
  <2> HIDE DEF Round
  <2> QED
    BY <2>5
<1>4. path[0] = start /\ \A i \in 1..N : path[i] = Grow(path[i - 1])
  <2>1. \A i \in 0..N : Round(path)[i] = IF i = 0 THEN start ELSE Grow(path[i - 1])
    OBVIOUS
  <2>2. (\A i \in 1..N : i \in 0..N /\ i # 0) /\ 0 \in 0..N
    BY <1>1
  <2> HIDE DEF path, Round, Grow, start
  <2> QED
    BY <1>3, <2>1, <2>2
<1>5. ErosionFrom(c, t, head) = path[N]
  BY DEF ErosionFrom
<1>6. start \in D
  OBVIOUS
<1> HIDE DEF path, Grow, start, D
<1> DEFINE T == {k \in Nat : k <= N => path[k] \in D}
<1>7. 0 \in T
  BY <1>4, <1>6
<1>8. ASSUME NEW k \in Nat, k \in T PROVE k + 1 \in T
  <2>1. ASSUME k + 1 <= N PROVE path[k + 1] \in D
    <3>1. k + 1 \in 1..N /\ (k + 1) - 1 = k /\ k <= N
      BY <2>1, <1>1
    <3>2. path[k] \in D /\ path[k + 1] = Grow(path[k])
      BY <3>1, <1>4, <1>8
    <3> QED
      BY <3>2, <1>2
  <2> QED
    BY <2>1
<1> HIDE DEF T
<1>9. Nat \subseteq T
  BY <1>7, <1>8, NatSetInduction
<1> USE DEF T
<1>10. path[N] \in D
  BY <1>1, <1>9
<1> QED
  BY <1>5, <1>10 DEF D

(* Run n scored lower than run p by at least the least of the thresholds for   *)
(* a drop.                                                                     *)
Falls(t, p, n) ==
  /\ t.score[p] # Unknown /\ t.score[n] # Unknown
  /\ t.score[p] - t.score[n] >= Min({CumStep, GapThreshold, MinDrop})

(* What the content channel has against an origin: a low score, or a loss      *)
(* from what was given to it; inside a cycle, against the member it names.     *)
Grounded(d, c, t) ==
  \/ /\ d.member = Unknown /\ t.score[d.run] # Unknown
     /\ Degraded(t, d.run) \/ \E p \in Preds(c.dag, d.run) : Falls(t, p, d.run)
  \/ /\ d.member \in c.members[d.run] /\ IsCycle(c, d.run) /\ t.score[d.member] # Unknown
     /\ Degraded(t, d.member) \/ \E p \in Preds(c.graph, d.member) : Falls(t, p, d.member)

(* The least of the thresholds for a drop.                                     *)
LEMMA LeastDrop ==
  LET least == Min({CumStep, GapThreshold, MinDrop})
  IN  least \in Int /\ least <= CumStep /\ least <= GapThreshold /\ least <= MinDrop
<1> DEFINE S == {CumStep, GapThreshold, MinDrop}
<1>1. S \subseteq 0..100
  BY ConfigAssumption
<1>2. CumStep \in S /\ GapThreshold \in S /\ MinDrop \in S
  OBVIOUS
<1> HIDE DEF S
<1>3. S \subseteq {Unknown} \cup 0..100
  BY <1>1
<1>4. IsFiniteSet(S) /\ S \subseteq Int
  BY <1>3, Scores
<1>5. Min(S) \in S /\ \A y \in S : Min(S) <= y
  BY <1>2, <1>4, MinIn
<1> QED
  BY <1>2, <1>4, <1>5 DEF S

(* A drop of at least a threshold is no clamped zero.                          *)
LEMMA PositiveDrop ==
  ASSUME NEW x \in Int, Max({0, x}) >= GapThreshold
  PROVE  x >= GapThreshold
<1> DEFINE S == {0, x}
<1>1. IsFiniteSet(S) /\ S \subseteq Int /\ S # {}
  <2>1. IsFiniteSet({x})
    BY FS_Singleton
  <2>2. IsFiniteSet({x} \cup {0})
    BY <2>1, FS_AddElement
  <2>3. {x} \cup {0} = S
    OBVIOUS
  <2> QED
    BY <2>2, <2>3
<1> HIDE DEF S
<1>2. Max(S) \in S
  BY <1>1, MaxIn
<1>3. Max(S) = 0 \/ Max(S) = x
  BY <1>2 DEF S
<1>4. GapThreshold \in 1..100
  BY ConfigAssumption
<1>5. Max(S) >= GapThreshold
  BY DEF S
<1> QED
  BY <1>3, <1>4, <1>5

(* A drop from the best of the inputs is a fall from one of them.              *)
LEMMA SharpFall ==
  ASSUME NEW t, IsTrace(t), NEW P, P \subseteq t.nodes, NEW n \in t.nodes, t.score[n] # Unknown,
         Known(t, P) # {}, Max({0, Max(Known(t, P)) - t.score[n]}) >= GapThreshold
  PROVE  \E p \in P : Falls(t, p, n)
<1> DEFINE V == Known(t, P)
<1>1. \A m \in t.nodes : t.score[m] \in {Unknown} \cup 0..100
  BY DEF IsTrace
<1>2. V \subseteq 0..100
  BY <1>1 DEF Known
<1>3. \A v \in V : \E p \in P : t.score[p] = v
  BY DEF Known
<1>4. V # {} /\ Max({0, Max(V) - t.score[n]}) >= GapThreshold
  OBVIOUS
<1> HIDE DEF V
<1>5. IsFiniteSet(V) /\ V \subseteq Int
  <2>1. V \subseteq {Unknown} \cup 0..100
    BY <1>2
  <2> QED
    BY <2>1, Scores
<1>6. Max(V) \in V
  BY <1>4, <1>5, MaxIn
<1>7. PICK p \in P : t.score[p] = Max(V)
  BY <1>3, <1>6
<1>8. t.score[p] \in 0..100 /\ t.score[n] \in 0..100 /\ t.score[p] # Unknown
  BY <1>1, <1>2, <1>6, <1>7 DEF Unknown
<1> DEFINE a == t.score[p]
           b == t.score[n]
           least == Min({CumStep, GapThreshold, MinDrop})
<1>9. a \in Int /\ b \in Int /\ Max({0, a - b}) >= GapThreshold
  BY <1>4, <1>7, <1>8
<1>10. GapThreshold \in Int /\ least \in Int /\ least <= GapThreshold
  BY LeastDrop, ConfigAssumption
<1>11. a - b >= least
  <2> HIDE DEF a, b, least
  <2>1. a - b \in Int
    BY <1>9
  <2>2. a - b >= GapThreshold
    BY <1>9, <2>1, PositiveDrop
  <2> QED
    BY <1>9, <1>10, <2>2
<1> QED
  BY <1>8, <1>11 DEF Falls

(* The content channel has something against the origins of drops and the      *)
(* boundaries ..                                                               *)
LEMMA ContentGround ==
  ASSUME NEW c, NEW t, Graphed(c, t), NEW s \in DropOrigins(c, t) \cup Boundaries(c, t)
  PROVE  Grounded(ContentCandidate(c, t, s), c, t)
<1>1. s \in Supers(c) /\ s \in t.nodes /\ t.score[s] # Unknown /\ t.score[s] \in {Unknown} \cup 0..100
  BY DEF DropOrigins, Boundaries, Accountable, Graphed, Condensation, IsTrace
<1>2. Degraded(t, s) \/ \E p \in Preds(c.dag, s) : Falls(t, p, s)
  <2>1. CASE s \in Boundaries(c, t)
    BY <2>1 DEF Boundaries
  <2>2. CASE s \in DropOrigins(c, t)
    <3> DEFINE P == Preds(c.dag, s)
               V == Known(t, P)
    <3>1. V # {} /\ DropFrom(base_of(c, t, s), t.score[s]) >= GapThreshold
      BY <2>2 DEF DropOrigins, observed_drop, InputsHealthy, KnownPreds
    <3>2. base_of(c, t, s) = Max(V)
      BY <3>1 DEF base_of, KnownPreds
    <3>3. P \subseteq t.nodes
      <4> DEFINE A == Supers(c)
                 E == c.dag
      <4>1. E \subseteq A \X A /\ A \subseteq t.nodes
        BY DagEdges DEF Graphed, Condensation
      <4> HIDE DEF A, E
      <4>2. Preds(E, s) \subseteq A
        BY <4>1, Neighbours
      <4> QED
        BY <4>1, <4>2 DEF E
    <3>4. Max(V) # Unknown
      <4>1. V \subseteq {Unknown} \cup 0..100 /\ Unknown \notin V
        BY <3>3 DEF Known, Graphed, IsTrace
      <4> HIDE DEF V
      <4>2. IsFiniteSet(V) /\ V \subseteq Int
        BY <4>1, Scores
      <4> QED
        BY <3>1, <4>1, <4>2, MaxIn
    <3>5. DropFrom(Max(V), t.score[s]) = Max({0, Max(V) - t.score[s]})
      BY <1>1, <3>4 DEF DropFrom
    <3>6. Max({0, Max(V) - t.score[s]}) >= GapThreshold
      BY <3>1, <3>2, <3>5
    <3> HIDE DEF P
    <3>7. IsTrace(t)
      BY DEF Graphed
    <3>8. \E p \in P : Falls(t, p, s)
      BY <1>1, <3>1, <3>3, <3>6, <3>7, SharpFall
    <3> QED
      BY <3>8 DEF P
  <2> QED
    BY <2>1, <2>2
<1>3. ContentCandidate(c, t, s).run = s /\ ContentCandidate(c, t, s).member = Unknown
  BY ContentFields
<1> QED
  BY <1>1, <1>2, <1>3 DEF Grounded

(* .. against the member of a cycle ..                                         *)
LEMMA InternalGround ==
  ASSUME NEW c, NEW t, Graphed(c, t), NEW s \in InternalOrigins(c, t)
  PROVE  Grounded(InternalCandidate(c, t, s), c, t)
<1> DEFINE d == InternalCandidate(c, t, s)
           m == d.member
           P == Preds(c.graph, m)
<1>1. s \in Supers(c) /\ IsCycle(c, s) /\ QualifyingMembers(c, t, s) # {}
  BY DEF InternalOrigins, scc_internal_origins
<1>2. d.run = s /\ m \in QualifyingMembers(c, t, s) /\ m \in c.members[s]
  BY <1>1, InternalFields
<1> HIDE DEF m, d
<1>3. /\ t.score[m] # Unknown
      /\ MemberPreds(c, t, m) # {} => member_observed(c, t, m)
      /\ MemberPreds(c, t, m) = {} => Degraded(t, m)
  BY <1>2 DEF QualifyingMembers
<1>4. m \in t.nodes /\ P \subseteq t.nodes /\ IsTrace(t)
  <2> DEFINE A == t.nodes
             E == c.graph
  <2>1. E \subseteq A \X A /\ c.members[s] \subseteq A
    BY <1>1 DEF Graphed, Condensation
  <2> HIDE DEF E, A
  <2>2. Preds(E, m) \subseteq A
    BY <2>1, Neighbours
  <2> QED
    BY <1>2, <2>1, <2>2 DEF A, E, Graphed
<1>5. MemberPreds(c, t, m) = Known(t, P)
  BY DEF MemberPreds
<1> HIDE DEF P
<1>6. Degraded(t, m) \/ \E p \in P : Falls(t, p, m)
  <2>1. CASE Known(t, P) = {}
    BY <1>3, <1>5, <2>1
  <2>2. CASE Known(t, P) # {}
    <3>1. Max({0, Max(Known(t, P)) - t.score[m]}) >= GapThreshold
      BY <1>3, <1>5, <2>2 DEF member_observed
    <3>2. \E p \in P : Falls(t, p, m)
      BY <1>3, <1>4, <2>2, <3>1, SharpFall
    <3> QED
      BY <3>2
  <2> QED
    BY <2>1, <2>2
<1>7. d.member = m
  BY DEF m
<1> QED
  BY <1>1, <1>2, <1>3, <1>6, <1>7 DEF Grounded, d, P

(* .. and against the second run of an eroding chain.                          *)
LEMMA ChainGround ==
  ASSUME NEW c, NEW t, Graphed(c, t), NEW p \in Seq(Supers(c)), Len(p) > 1,
         Healthy(t, p[1]), p[2] \in Steepest(c, t, p[1])
  PROVE  Grounded(ChainCandidate(c, t, p), c, t)
<1> DEFINE a == p[1]
           b == p[2]
<1>0. a \in Supers(c) /\ b \in Supers(c)
  OBVIOUS
<1> HIDE DEF a, b
<1>1. a \in t.nodes /\ b \in t.nodes /\ t.score[a] \in {Unknown} \cup 0..100 /\ t.score[b] \in {Unknown} \cup 0..100
  BY <1>0 DEF Graphed, Condensation, IsTrace
<1>2. t.score[a] >= Threshold /\ Threshold \in 1..99
  BY ConfigAssumption DEF Healthy, a
<1>3. b \in Succs(c.dag, a) /\ t.score[b] # Unknown /\ t.score[a] - t.score[b] >= CumStep
  BY DEF Steepest, a, b
<1> DEFINE x == t.score[a]
           y == t.score[b]
           least == Min({CumStep, GapThreshold, MinDrop})
<1>4. x # Unknown /\ y # Unknown /\ x - y >= least
  <2>1. x \in {Unknown} \cup 0..100 /\ y \in {Unknown} \cup 0..100 /\ x >= Threshold
        /\ y # Unknown /\ x - y >= CumStep
    BY <1>1, <1>2, <1>3
  <2>2. CumStep \in 1..100 /\ least \in Int /\ least <= CumStep
    BY LeastDrop, ConfigAssumption
  <2> HIDE DEF x, y, least
  <2>3. x \in Int /\ y \in Int /\ x # Unknown
    BY <1>2, <2>1 DEF Unknown
  <2> QED
    BY <2>1, <2>2, <2>3
<1>6. Falls(t, a, b)
  BY <1>4 DEF Falls
<1>7. a \in Preds(c.dag, b)
  <2> DEFINE A == Supers(c)
             E == c.dag
  <2>1. E \subseteq A \X A /\ b \in Succs(E, a)
    BY <1>3, DagEdges DEF Graphed
  <2> HIDE DEF A, E
  <2>2. a \in Preds(E, b)
    BY <2>1, Neighbours
  <2> QED
    BY <2>2 DEF E
<1>8. ChainCandidate(c, t, p).run = b /\ ChainCandidate(c, t, p).member = Unknown
  BY ChainFields DEF b
<1> QED
  BY <1>3, <1>6, <1>7, <1>8 DEF Grounded

(* An erosion long and deep enough to be reported has a second step. *)
LEMMA ErosionHasSteps ==
  ASSUME NEW c, NEW t, Graphed(c, t), NEW p \in Seq(Supers(c)), Len(p) > 0, IsErosion(t, p)
  PROVE  Len(p) > 1
<1>0. Len(p) \in Nat
  OBVIOUS
<1> SUFFICES ASSUME Len(p) = 1 PROVE FALSE
  BY <1>0
<1>1. Head(p) = p[1] /\ Last(p) = p[1] /\ p[1] \in t.nodes
  BY DEF Last, Graphed, Condensation
<1>2. t.score[p[1]] \in Int
  <2>1. t.score[p[1]] \in {Unknown} \cup 0..100
    BY <1>1 DEF Graphed, IsTrace
  <2> QED
    BY <2>1, Scores
<1>3. t.score[p[1]] - t.score[p[1]] >= CumDrop /\ CumDrop \in 1..100
  BY <1>1, ConfigAssumption DEF IsErosion
<1> QED
  BY <1>2, <1>3

(* An eroding chain goes through two super-nodes or more, from a healthy one   *)
(* down the steepest edge.                                                     *)
IsChain(p, c, t) ==
  /\ p \in Seq(Supers(c)) /\ Len(p) > 1
  /\ Healthy(t, p[1]) /\ p[2] \in Steepest(c, t, p[1])

(* degradation_chains finds chains only.                                       *)
LEMMA Chains ==
  ASSUME NEW c, NEW t, Graphed(c, t)
  PROVE  /\ Listed(degradation_chains(c, t))
         /\ \A p \in ToSet(degradation_chains(c, t)) : IsChain(p, c, t)
<1> DEFINE X == {p \in Seq(Supers(c)) : Len(p) > 1 /\ Healthy(t, p[1]) /\ p[2] \in Steepest(c, t, p[1])}
           N == Len(c.topo)
           D == Seq(X)
           More(chains, i) ==
             LET head == c.topo[i]
                 path == ErosionFrom(c, t, head)
             IN  IF /\ \A j \in DOMAIN chains : head \notin ToSet(chains[j])
                    /\ Healthy(t, head)
                    /\ IsErosion(t, path)
                 THEN Append(chains, path) ELSE chains
           Round(F) == [i \in 0..N |->
             IF i = 0 THEN << >>
             ELSE LET chains == F[i - 1]
                      head == c.topo[i]
                      path == ErosionFrom(c, t, head)
                  IN  IF /\ \A j \in DOMAIN chains : head \notin ToSet(chains[j])
                         /\ Healthy(t, head)
                         /\ IsErosion(t, path)
                      THEN Append(chains, path) ELSE chains]
           found == CHOOSE F : F = Round(F)
           g == [p \in D \X (1..N) |-> More(p[1], p[2])]
           start == << >>
<1>1. N \in Nat /\ \A i \in 1..N : c.topo[i] \in Supers(c)
  <2>1. PICK L : Ordered(L, c)
    BY DEF Graphed
  <2>2. c.topo \in Seq(Supers(c))
    BY <2>1, Topo DEF Graphed
  <2> QED
    BY <2>2
<1>2. ASSUME NEW q \in D, NEW i \in 1..N PROVE More(q, i) \in D
  <2> DEFINE path == ErosionFrom(c, t, c.topo[i])
  <2>1. /\ path \in Seq(Supers(c)) /\ Len(path) > 0 /\ path[1] = c.topo[i]
        /\ Len(path) > 1 => path[2] \in Steepest(c, t, path[1])
    BY <1>1, ErosionPath
  <2>2. IsErosion(t, path) /\ Healthy(t, c.topo[i]) => path \in X
    <3> HIDE DEF path
    <3> SUFFICES ASSUME IsErosion(t, path), Healthy(t, c.topo[i]) PROVE path \in X
      OBVIOUS
    <3>1. Len(path) > 1
      BY <2>1, ErosionHasSteps
    <3> QED
      BY <2>1, <3>1
  <2>3. \/ More(q, i) = q
        \/ IsErosion(t, path) /\ Healthy(t, c.topo[i]) /\ More(q, i) = Append(q, path)
    OBVIOUS
  <2> HIDE DEF path, More, X
  <2> QED
    BY <2>2, <2>3
<1>3. found = Round(found)
  <2>1. start \in D /\ g \in [D \X (1..N) -> D]
    <3>1. start \in D
      OBVIOUS
    <3> HIDE DEF D, More, start, N
    <3> QED
      BY <3>1, <1>2
  <2>2. PICK f : IsRun(f, D, N, start, g)
    <3> HIDE DEF D, N, g, start
    <3> QED
      BY <1>1, <2>1, Rounds
  <2>3. f \in [0..N -> D] /\ f[0] = start /\ \A i \in 1..N : f[i] = g[<<f[i - 1], i>>]
    BY <2>2 DEF IsRun
  <2>4. ASSUME NEW i \in 1..N PROVE f[i] = More(f[i - 1], i)
    <3>1. i - 1 \in 0..N
      BY <1>1
    <3>2. f[i - 1] \in D
      BY <3>1, <2>3
    <3>3. <<f[i - 1], i>> \in D \X (1..N)
      BY <3>2
    <3>4. f[i] = g[<<f[i - 1], i>>]
      BY <2>3
    <3> HIDE DEF D, N, More
    <3> QED
      BY <3>3, <3>4
  <2>5. f = Round(f)
    <3>1. DOMAIN f = 0..N /\ f = [i \in 0..N |-> f[i]]
      BY <2>3
    <3>2. ASSUME NEW i \in 0..N
          PROVE  f[i] = IF i = 0 THEN << >> ELSE More(f[i - 1], i)
      <4>1. i = 0 \/ i \in 1..N
        BY <1>1
      <4> HIDE DEF More
      <4> QED
        BY <4>1, <2>3, <2>4
    <3>3. Round(f) = [i \in 0..N |-> IF i = 0 THEN << >> ELSE More(f[i - 1], i)]
      OBVIOUS
    <3> HIDE DEF Round, More
    <3> QED
      BY <3>1, <3>2, <3>3
  <2> HIDE DEF Round
  <2> QED
    BY <2>5
<1>4. found[0] = start /\ \A i \in 1..N : found[i] = More(found[i - 1], i)
  <2>1. \A i \in 0..N : Round(found)[i] = IF i = 0 THEN start ELSE More(found[i - 1], i)
    OBVIOUS
  <2>2. (\A i \in 1..N : i \in 0..N /\ i # 0) /\ 0 \in 0..N
    BY <1>1
  <2> HIDE DEF found, Round, More, start
  <2> QED
    BY <1>3, <2>1, <2>2
<1>5. degradation_chains(c, t) = found[N]
  BY DEF degradation_chains
<1>6. start \in D
  OBVIOUS
<1> HIDE DEF found, More, start, D
<1> DEFINE T == {k \in Nat : k <= N => found[k] \in D}
<1>7. 0 \in T
  BY <1>4, <1>6
<1>8. ASSUME NEW k \in Nat, k \in T PROVE k + 1 \in T
  <2>1. ASSUME k + 1 <= N PROVE found[k + 1] \in D
    <3>1. k + 1 \in 1..N /\ (k + 1) - 1 = k /\ k <= N
      BY <2>1, <1>1
    <3>2. found[k] \in D /\ found[k + 1] = More(found[k], k + 1)
      BY <3>1, <1>4, <1>8
    <3> QED
      BY <3>1, <3>2, <1>2
  <2> QED
    BY <2>1
<1> HIDE DEF T
<1>9. Nat \subseteq T
  BY <1>7, <1>8, NatSetInduction
<1> USE DEF T
<1>10. found[N] \in D
  BY <1>1, <1>9
<1>11. found[N] \in Seq(X)
  BY <1>10 DEF D
<1> HIDE DEF X
<1>12. Listed(found[N]) /\ ToSet(found[N]) \subseteq X
  BY <1>11, ListedIn
<1> QED
  BY <1>5, <1>12 DEF X, IsChain

--------------------------------------------------------------------------------
(* What confidence is reckoned from: depth of the graph, numbers of an origin.  *)

(* A set of values of a function on a finite set is finite.                    *)
LEMMA ValuesFinite ==
  ASSUME NEW P, IsFiniteSet(P), NEW b, NEW V, \A p \in P : b[p] \in V,
         \A v \in V : \E p \in P : b[p] = v
  PROVE  IsFiniteSet(V)
<1> DEFINE f == [p \in P |-> b[p]]
<1>2. f \in Surjection(P, V)
  BY DEF Surjection
<1> HIDE DEF f
<1> QED
  BY <1>2, FS_Surjection

(* The greatest of zero and some numbers.                                      *)
LEMMA MaxOver ==
  ASSUME NEW V, IsFiniteSet(V), V \subseteq Nat, NEW S, S = {0} \cup V
  PROVE  Max(S) \in Nat
<1>1. IsFiniteSet(S)
  <2>1. S = V \cup {0}
    OBVIOUS
  <2> QED
    BY <2>1, FS_AddElement
<1>2. S \subseteq Int /\ S # {} /\ S \subseteq Nat
  OBVIOUS
<1>3. Max(S) \in S
  BY <1>1, <1>2, MaxIn
<1> QED
  BY <1>2, <1>3

(* The depth of a condensation is a number.                                    *)
LEMMA DepthIs ==
  ASSUME NEW c, NEW t, Graphed(c, t)
  PROVE  depth(c) \in Nat
<1> DEFINE X == Supers(c)
           N == Len(c.topo)
           D == [X -> Nat]
           Grow(b, i) == [b EXCEPT ![c.topo[i]] = 1 + Max({0} \cup {b[p] : p \in Preds(c.dag, c.topo[i])})]
           start == [s \in X |-> 0]
           Round(F) == [i \in 0..N |->
                          IF i = 0 THEN [s \in Supers(c) |-> 0]
                          ELSE LET len == F[i - 1]
                                   s == c.topo[i]
                               IN  [len EXCEPT ![s] = 1 + Max({0} \cup {len[p] : p \in Preds(c.dag, s)})]]
           longest == CHOOSE F : F = Round(F)
           g == [p \in D \X (1..N) |-> Grow(p[1], p[2])]
<1>1. N \in Nat /\ IsFiniteSet(X) /\ c.dag \subseteq X \X X
  <2>1. PICK L : Ordered(L, c)
    BY DEF Graphed
  <2>2. c.topo \in Seq(Supers(c))
    BY <2>1, Topo DEF Graphed
  <2>3. N \in Nat
    BY <2>2
  <2> QED
    BY <2>3, DagEdges DEF Graphed, Condensation, AreRuns
<1>2. start \in D
  OBVIOUS
<1>3. ASSUME NEW b \in D, NEW i \in 1..N PROVE Grow(b, i) \in D
  <2> DEFINE P == Preds(c.dag, c.topo[i])
             V == {b[p] : p \in P}
             m == Max({0} \cup V)
             E == c.dag
             s == c.topo[i]
  <2>1. P \subseteq X
    <3>1. E \subseteq X \X X
      BY <1>1
    <3> HIDE DEF E, X, s
    <3>2. Preds(E, s) \subseteq X
      BY <3>1, Neighbours
    <3> QED
      BY <3>2 DEF E, s
  <2>2. m \in Nat
    <3>1. IsFiniteSet(P)
      <4> HIDE DEF X, P
      <4> QED
        BY <1>1, <2>1, FS_Subset
    <3>2. V \subseteq Nat /\ (\A p \in P : b[p] \in V) /\ \A v \in V : \E p \in P : b[p] = v
      <4> HIDE DEF P
      <4> QED
        BY <2>1
    <3> HIDE DEF P, V
    <3>3. IsFiniteSet(V)
      BY <3>1, <3>2, ValuesFinite
    <3> QED
      BY <3>2, <3>3, MaxOver
  <2>3. Grow(b, i) = [b EXCEPT ![c.topo[i]] = 1 + m]
    OBVIOUS
  <2> HIDE DEF m, Grow
  <2>4. b \in [X -> Nat] /\ 1 + m \in Nat
    BY <2>2
  <2> HIDE DEF X
  <2> QED
    BY <2>3, <2>4
<1>4. longest = Round(longest)
  <2>1. g \in [D \X (1..N) -> D]
    <3> HIDE DEF D, Grow
    <3> QED
      BY <1>3
  <2>2. PICK f : IsRun(f, D, N, start, g)
    <3> HIDE DEF D, N, g, start
    <3> QED
      BY <1>1, <1>2, <2>1, Rounds
  <2>3. f \in [0..N -> D] /\ f[0] = start /\ \A i \in 1..N : f[i] = g[<<f[i - 1], i>>]
    BY <2>2 DEF IsRun
  <2>4. ASSUME NEW i \in 1..N PROVE f[i] = Grow(f[i - 1], i)
    <3>1. i - 1 \in 0..N
      BY <1>1
    <3>2. f[i - 1] \in D
      BY <3>1, <2>3
    <3>3. <<f[i - 1], i>> \in D \X (1..N)
      BY <3>2
    <3>4. f[i] = g[<<f[i - 1], i>>]
      BY <2>3
    <3> HIDE DEF D, N, Grow
    <3> QED
      BY <3>3, <3>4
  <2>5. f = Round(f)
    <3>1. DOMAIN f = 0..N /\ f = [i \in 0..N |-> f[i]]
      BY <2>3
    <3>2. ASSUME NEW i \in 0..N
          PROVE  f[i] = IF i = 0 THEN start ELSE Grow(f[i - 1], i)
      <4>1. i = 0 \/ i \in 1..N
        BY <1>1
      <4> HIDE DEF Grow, start
      <4> QED
        BY <4>1, <2>3, <2>4
    <3> QED
      BY <3>1, <3>2
  <2> HIDE DEF Round
  <2> QED
    BY <2>5
<1>5. longest[0] = start /\ \A i \in 1..N : longest[i] = Grow(longest[i - 1], i)
  <2>1. \A i \in 0..N : Round(longest)[i] = IF i = 0 THEN start ELSE Grow(longest[i - 1], i)
    OBVIOUS
  <2>2. (\A i \in 1..N : i \in 0..N /\ i # 0) /\ 0 \in 0..N
    BY <1>1
  <2> HIDE DEF longest, Round, Grow, start
  <2> QED
    BY <1>4, <2>1, <2>2
<1>6. depth(c) = Max({0} \cup {longest[N][s] : s \in X})
  BY DEF depth
<1> HIDE DEF longest, Grow, start
<1> DEFINE T == {k \in Nat : k <= N => longest[k] \in D}
<1>7. 0 \in T
  BY <1>2, <1>5
<1>8. ASSUME NEW k \in Nat, k \in T PROVE k + 1 \in T
  <2> SUFFICES ASSUME k + 1 <= N PROVE longest[k + 1] \in D
    OBVIOUS
  <2>1. k + 1 \in 1..N /\ (k + 1) - 1 = k /\ k <= N
    BY <1>1
  <2> QED
    BY <1>3, <1>5, <1>8, <2>1
<1> HIDE DEF T
<1>9. Nat \subseteq T
  BY <1>7, <1>8, NatSetInduction
<1>10. longest[N] \in D
  BY <1>1, <1>9 DEF T
<1> DEFINE last == longest[N]
<1> HIDE DEF last
<1>11. last \in [X -> Nat] /\ X \subseteq X
  BY <1>10 DEF last
<1> DEFINE V == {last[s] : s \in X}
<1>12. Max({0} \cup V) \in Nat
  <2>1. V \subseteq Nat /\ (\A p \in X : last[p] \in V) /\ \A v \in V : \E p \in X : last[p] = v
    BY <1>11
  <2> HIDE DEF X, V
  <2>2. IsFiniteSet(V)
    BY <1>1, <2>1, ValuesFinite
  <2> QED
    BY <2>1, <2>2, MaxOver
<1> QED
  BY <1>6, <1>12 DEF last
(* A candidate whose numbers can be reckoned with. *)
Priced(d) ==
  /\ {"score", "base", "drop", "tied"} \subseteq DOMAIN d
  /\ {d.score, d.base, d.drop} \subseteq Int
  /\ IsFiniteSet(d.tied)

(* The score of a super-node.                                                  *)
LEMMA ScoreIs ==
  ASSUME NEW c, NEW t, Graphed(c, t), NEW s \in Supers(c)
  PROVE  t.score[s] \in Int /\ t.score[s] \in {Unknown} \cup 0..100
<1>1. s \in t.nodes
  BY DEF Graphed, Condensation
<1>2. t.score[s] \in {Unknown} \cup 0..100
  BY <1>1 DEF Graphed, IsTrace
<1> QED
  BY <1>2 DEF Unknown

(* The best of some known scores is a percentage.                              *)
LEMMA KnownMax ==
  ASSUME NEW t, IsTrace(t), NEW P, P \subseteq t.nodes, Known(t, P) # {}
  PROVE  Max(Known(t, P)) \in 0..100
<1> DEFINE V == Known(t, P)
<1>1. V \subseteq 0..100
  <2>1. \A n \in t.nodes : t.score[n] \in {Unknown} \cup 0..100
    BY DEF IsTrace
  <2> QED
    BY <2>1 DEF Known
<1>2. IsFiniteSet(V) /\ V \subseteq Int /\ V # {}
  <2>1. V \subseteq {Unknown} \cup 0..100 /\ V # {}
    BY <1>1
  <2> HIDE DEF V
  <2> QED
    BY <2>1, Scores
<1> HIDE DEF V
<1>3. Max(V) \in V
  BY <1>2, MaxIn
<1> QED
  BY <1>1, <1>3 DEF V

(* A drop is a number, or unknown, which is one.                               *)
LEMMA DropIs ==
  ASSUME NEW base \in Int, NEW score \in Int
  PROVE  DropFrom(base, score) \in Int
<1> DEFINE x == base - score
           S == {0, x}
<1>1. x \in Int
  OBVIOUS
<1> HIDE DEF x
<1>2. S \subseteq Int /\ S # {}
  BY <1>1
<1>3. IsFiniteSet(S)
  <2>1. S = ({} \cup {0}) \cup {x}
    OBVIOUS
  <2>2. IsFiniteSet({} \cup {0})
    BY FS_EmptySet, FS_AddElement
  <2> QED
    BY <2>1, <2>2, FS_AddElement
<1> HIDE DEF S
<1>4. Max(S) \in Int
  BY <1>2, <1>3, MaxIn
<1> QED
  BY <1>4 DEF DropFrom, S, x, Unknown

(* What an origin is measured against is a number.                             *)
LEMMA BaseIs ==
  ASSUME NEW c, NEW t, Graphed(c, t), NEW s \in Supers(c)
  PROVE  base_of(c, t, s) \in Int
<1> DEFINE P == Preds(c.dag, s)
<1>1. P \subseteq t.nodes /\ IsTrace(t)
  <2> DEFINE A == Supers(c)
             E == c.dag
  <2>1. E \subseteq A \X A /\ A \subseteq t.nodes
    BY DagEdges DEF Graphed, Condensation
  <2> HIDE DEF A, E
  <2>2. Preds(E, s) \subseteq A
    BY <2>1, Neighbours
  <2> QED
    BY <2>1, <2>2 DEF E, Graphed
<1> HIDE DEF P
<1>2. Known(t, P) # {} => Max(Known(t, P)) \in 0..100
  BY <1>1, KnownMax
<1>3. KnownPreds(c, t, s) = Known(t, P)
  BY DEF KnownPreds, P
<1> DEFINE m == Max(Known(t, P))
<1>4. Known(t, P) # {} => m \in Int
  BY <1>2
<1> HIDE DEF m
<1> QED
  BY <1>3, <1>4 DEF base_of, Unknown, m

(* The candidates of the channels are priced: a drop or a boundary ..          *)
LEMMA ContentPriced ==
  ASSUME NEW c, NEW t, Graphed(c, t), NEW s \in Supers(c)
  PROVE  Priced(ContentCandidate(c, t, s))
<1> DEFINE d == ContentCandidate(c, t, s)
<1>1. /\ {"score", "base", "drop", "tied"} \subseteq DOMAIN d
      /\ d.score = t.score[s] /\ d.base = base_of(c, t, s)
      /\ d.drop = DropFrom(base_of(c, t, s), t.score[s]) /\ d.tied = {}
  BY DEF ContentCandidate, CandidateOf
<1> HIDE DEF d
<1>2. t.score[s] \in Int /\ base_of(c, t, s) \in Int
  BY ScoreIs, BaseIs
<1>3. DropFrom(base_of(c, t, s), t.score[s]) \in Int
  BY <1>2, DropIs
<1>4. {d.score, d.base, d.drop} \subseteq Int /\ d.tied = {}
  BY <1>1, <1>2, <1>3
<1>5. Priced(d)
  BY <1>1, <1>4, FS_EmptySet DEF Priced
<1> QED
  BY <1>5 DEF d

(* .. a hard fault, or the one that stands in for all ..                       *)
LEMMA HardPriced ==
  ASSUME NEW c, NEW t, Graphed(c, t), NEW s \in Supers(c)
  PROVE  /\ Priced(DeterministicCandidate(c, t, s))
         /\ Priced([DeterministicCandidate(c, t, s) EXCEPT
                      !.unknownUpstream = TRUE, !.recovered = FALSE])
<1> DEFINE d == DeterministicCandidate(c, t, s)
           e == [DeterministicCandidate(c, t, s) EXCEPT
                      !.unknownUpstream = TRUE, !.recovered = FALSE]
<1>1. /\ {"score", "base", "drop", "tied"} \subseteq DOMAIN d
      /\ d.score = t.score[s] /\ d.base = Unknown /\ d.drop = Unknown /\ d.tied = {}
  BY DEF DeterministicCandidate, CandidateOf
<1>2. /\ {"score", "base", "drop", "tied"} \subseteq DOMAIN e
      /\ e.score = d.score /\ e.base = d.base /\ e.drop = d.drop /\ e.tied = d.tied
  BY DEF DeterministicCandidate, CandidateOf
<1> HIDE DEF d, e
<1>3. t.score[s] \in Int /\ Unknown \in Int
  BY ScoreIs DEF Unknown
<1>4. Priced(d)
  BY <1>1, <1>3, FS_EmptySet DEF Priced
<1>5. Priced(e)
  BY <1>1, <1>2, <1>3, FS_EmptySet DEF Priced
<1> QED
  BY <1>4, <1>5 DEF d, e

(* .. an eroding chain ..                                                      *)
LEMMA ChainPriced ==
  ASSUME NEW c, NEW t, Graphed(c, t), NEW p \in Seq(Supers(c)), Len(p) > 1
  PROVE  Priced(ChainCandidate(c, t, p))
<1> DEFINE d == ChainCandidate(c, t, p)
           X == Supers(c)
<1>1. /\ {"score", "base", "drop", "tied"} \subseteq DOMAIN d
      /\ d.score = t.score[p[2]] /\ d.base = t.score[p[1]]
      /\ d.drop = t.score[Head(p)] - t.score[Last(p)] /\ d.tied = {}
  BY DEF ChainCandidate, CandidateOf
<1> HIDE DEF d
<1>2. p[1] \in X /\ p[2] \in X /\ Head(p) = p[1] /\ Last(p) \in X
  <2> HIDE DEF X
  <2>1. p \in Seq(X) /\ Len(p) \in Nat
    BY DEF X
  <2> QED
    BY <2>1 DEF Last
<1>3. t.score[p[1]] \in Int /\ t.score[p[2]] \in Int /\ t.score[Last(p)] \in Int
  BY <1>2, ScoreIs
<1>4. {d.score, d.base, d.drop} \subseteq Int
  BY <1>1, <1>2, <1>3
<1>5. Priced(d)
  BY <1>1, <1>4, FS_EmptySet DEF Priced
<1> QED
  BY <1>5 DEF d

(* .. and the member of a cycle.                                               *)
LEMMA InternalPriced ==
  ASSUME NEW c, NEW t, Graphed(c, t), NEW s \in Supers(c), QualifyingMembers(c, t, s) # {}
  PROVE  Priced(InternalCandidate(c, t, s))
<1> DEFINE Q == QualifyingMembers(c, t, s)
           V == {t.score[m] : m \in Q}
           worst == Min(V)
           tied == {m \in Q : t.score[m] = worst}
           d == InternalCandidate(c, t, s)
<1>1. Q \subseteq t.nodes /\ IsFiniteSet(t.nodes)
  <2>1. c.members[s] = {n \in c.nodes : c.exitOf[n] = s}
    BY DEF Graphed, Condensation
  <2> QED
    BY <2>1 DEF Graphed, IsTrace, QualifyingMembers
<1>2. V \subseteq {Unknown} \cup 0..100 /\ V # {}
  BY <1>1 DEF Graphed, IsTrace
<1>3. worst \in Int
  <2> HIDE DEF V
  <2>1. IsFiniteSet(V) /\ V \subseteq Int
    BY <1>2, Scores
  <2> QED
    BY <1>2, <2>1, MinIn
<1>4. IsFiniteSet(tied)
  <2>1. tied \subseteq t.nodes
    BY <1>1
  <2> HIDE DEF tied
  <2> QED
    BY <1>1, <2>1, FS_Subset
<1>5. /\ {"score", "base", "drop", "tied"} \subseteq DOMAIN d
      /\ d.score = (IF t.score[s] = Unknown THEN worst ELSE t.score[s])
      /\ d.base = Unknown /\ d.drop = Unknown
      /\ d.tied = IF Cardinality(tied) > 1 THEN tied ELSE {}
  BY DEF InternalCandidate, CandidateOf
<1> HIDE DEF d, tied, worst
<1>6. {d.score, d.base, d.drop} \subseteq Int
  BY <1>3, <1>5, ScoreIs DEF Unknown
<1>7. IsFiniteSet(d.tied)
  BY <1>4, <1>5, FS_EmptySet
<1>8. Priced(d)
  BY <1>5, <1>6, <1>7 DEF Priced
<1> QED
  BY <1>8 DEF d
--------------------------------------------------------------------------------
(* cutpoint.py: the lists of candidates.                                       *)

(* A candidate of the content channel. *)
ContentLike(d, c, t) ==
  /\ IsCandidate(d) /\ d.run \in Supers(c) /\ d.via = "content"
  /\ d.member = Unknown \/ d.member \in c.members[d.run]
  /\ Grounded(d, c, t) /\ Priced(d)

(* A concatenation of candidates of the content channel is a list of such.     *)
LEMMA ContentLikeList ==
  ASSUME NEW c, NEW t, Graphed(c, t), NEW S, S \subseteq DropOrigins(c, t) \cup Boundaries(c, t)
  PROVE  /\ Listed(ContentCandidates(c, t, S))
         /\ \A d \in ToSet(ContentCandidates(c, t, S)) : ContentLike(d, c, t)
         /\ RunsOf(ContentCandidates(c, t, S)) = S
<1> DEFINE q == ContentCandidates(c, t, S)
<1>0. S \subseteq Supers(c)
  BY DEF DropOrigins, Boundaries, Accountable
<1>1. Listed(q) /\ ToSet(q) = {ContentCandidate(c, t, s) : s \in S}
  BY <1>0, ContentList
<1> HIDE DEF q
<1>2. RunsOf(q) = {d.run : d \in ToSet(q)}
  BY RunsOfSet
<1>3. RunsOf(q) = S
  BY <1>1, <1>2, ContentFields
<1>4. \A d \in ToSet(q) : ContentLike(d, c, t)
  <2>1. \A s \in S : Grounded(ContentCandidate(c, t, s), c, t)
    BY ContentGround
  <2> QED
    BY <1>0, <1>1, <2>1, ContentFields, ContentPriced DEF ContentLike
<1> QED
  BY <1>1, <1>3, <1>4 DEF q

(* The candidates inside the cycles of S.                                      *)
InternalCandidates(c, t, S) ==
  [i \in DOMAIN InOrder(c, S) |-> InternalCandidate(c, t, InOrder(c, S)[i])]

(* The candidates of a list of chains.                                         *)
ChainCandidates(c, t, q) == [i \in DOMAIN q |-> ChainCandidate(c, t, q[i])]

(* They are candidates of the content channel ..                               *)
LEMMA InternalList ==
  ASSUME NEW c, NEW t, Graphed(c, t), NEW S, S \subseteq InternalOrigins(c, t)
  PROVE  /\ Listed(InternalCandidates(c, t, S))
         /\ \A d \in ToSet(InternalCandidates(c, t, S)) : ContentLike(d, c, t)
         /\ RunsOf(InternalCandidates(c, t, S)) = S
<1> DEFINE q == InOrder(c, S)
           f == InternalCandidates(c, t, S)
           n == Len(q)
<1>0. S \subseteq Supers(c) /\ \A s \in S : QualifyingMembers(c, t, s) # {}
  BY DEF InternalOrigins, scc_internal_origins
<1>1. Listed(q) /\ ToSet(q) = S
  BY <1>0, InOrderSet
<1>2. DOMAIN q = 1..n /\ n \in Nat /\ S = {q[i] : i \in 1..n}
  <2> HIDE DEF q
  <2> QED
    BY <1>1, ListedDomain
<1>3. f = [i \in 1..n |-> InternalCandidate(c, t, q[i])]
  BY <1>2 DEF InternalCandidates
<1> HIDE DEF n, q, f
<1>4. f = [i \in 1..n |-> f[i]] /\ {f[i] : i \in 1..n} = {InternalCandidate(c, t, s) : s \in S}
  BY <1>2, <1>3
<1>5. Listed(f) /\ ToSet(f) = {InternalCandidate(c, t, s) : s \in S}
  BY <1>2, <1>4, ListedFun
<1>6. \A s \in S : ContentLike(InternalCandidate(c, t, s), c, t)
                     /\ InternalCandidate(c, t, s).run = s
  <2>1. \A s \in S : Grounded(InternalCandidate(c, t, s), c, t)
    BY InternalGround
  <2> QED
    BY <1>0, <2>1, InternalFields, InternalPriced DEF ContentLike
<1>7. RunsOf(f) = {d.run : d \in ToSet(f)}
  BY RunsOfSet
<1>8. RunsOf(f) = S /\ \A d \in ToSet(f) : ContentLike(d, c, t)
  BY <1>5, <1>6, <1>7
<1> QED
  BY <1>5, <1>8 DEF f

(* .. and so are those.                                                        *)
LEMMA ChainList ==
  ASSUME NEW c, NEW t, Graphed(c, t), NEW q, Listed(q), \A p \in ToSet(q) : IsChain(p, c, t)
  PROVE  /\ Listed(ChainCandidates(c, t, q))
         /\ \A d \in ToSet(ChainCandidates(c, t, q)) : ContentLike(d, c, t)
         /\ q # << >> => ToSet(ChainCandidates(c, t, q)) # {}
<1> DEFINE n == Len(q)
           f == ChainCandidates(c, t, q)
<1>1. DOMAIN q = 1..n /\ n \in Nat /\ ToSet(q) = {q[i] : i \in 1..n}
  BY ListedDomain
<1>2. q # << >> => ToSet(q) # {}
  BY ListedEmpty
<1>0. f = [i \in 1..n |-> ChainCandidate(c, t, q[i])]
  BY <1>1 DEF ChainCandidates
<1> HIDE DEF n, f
<1>3. f = [i \in 1..n |-> f[i]] /\ {f[i] : i \in 1..n} = {ChainCandidate(c, t, p) : p \in ToSet(q)}
  BY <1>0, <1>1
<1>4. Listed(f) /\ ToSet(f) = {ChainCandidate(c, t, p) : p \in ToSet(q)}
  BY <1>1, <1>3, ListedFun
<1>5. \A p \in ToSet(q) : ContentLike(ChainCandidate(c, t, p), c, t)
  <2>1. \A p \in ToSet(q) : /\ p[2] \in Supers(c) /\ Grounded(ChainCandidate(c, t, p), c, t)
                             /\ Priced(ChainCandidate(c, t, p))
    BY ChainGround, ChainPriced DEF IsChain
  <2> QED
    BY <2>1, ChainFields DEF ContentLike
<1> QED
  BY <1>2, <1>4, <1>5 DEF f

(* _analyze, the content channel: candidates of that channel, and at least     *)
(* one where quality dropped, a boundary is low or a cycle broke inside.       *)
LEMMA ContentOriginsAre ==
  ASSUME NEW c, NEW t, Graphed(c, t)
  PROVE  /\ Listed(ContentOrigins(c, t))
         /\ \A d \in ToSet(ContentOrigins(c, t)) : ContentLike(d, c, t)
         /\ DropOrigins(c, t) \cup Boundaries(c, t) \cup InternalOrigins(c, t) # {}
              => ToSet(ContentOrigins(c, t)) # {}
<1> DEFINE inner == InternalCandidates(c, t, InternalOrigins(c, t))
           drops == ContentCandidates(c, t, DropOrigins(c, t))
           spread == ContentCandidates(c, t, Spreading(c, t))
           sharp == drops \o spread \o inner
           all == degradation_chains(c, t)
           chains == Select(all, {x \in ToSet(all) : x[2] \notin t.flawed})
           chained == ChainCandidates(c, t, chains)
           late == ContentCandidates(c, t, RecoveredBoundaries(c, t))
<1>1. /\ DropOrigins(c, t) \subseteq Supers(c) /\ Spreading(c, t) \subseteq Supers(c)
      /\ InternalOrigins(c, t) \subseteq Supers(c) /\ RecoveredBoundaries(c, t) \subseteq Supers(c)
      /\ \A s \in InternalOrigins(c, t) : QualifyingMembers(c, t, s) # {}
      /\ Boundaries(c, t) = Spreading(c, t) \cup RecoveredBoundaries(c, t)
  BY DEF DropOrigins, Spreading, Boundaries, RecoveredBoundaries, Accountable,
         InternalOrigins, scc_internal_origins
<1>2. ContentOrigins(c, t) = CASE sharp # << >> -> sharp
                               [] sharp = << >> /\ chains # << >> -> chained
                               [] OTHER -> late
  BY DEF ContentOrigins, InternalCandidates, ChainCandidates
<1>3. /\ Listed(drops) /\ RunsOf(drops) = DropOrigins(c, t)
      /\ \A d \in ToSet(drops) : ContentLike(d, c, t)
  BY <1>1, ContentLikeList
<1>4. /\ Listed(spread) /\ RunsOf(spread) = Spreading(c, t)
      /\ \A d \in ToSet(spread) : ContentLike(d, c, t)
  BY <1>1, ContentLikeList
<1>5. /\ Listed(late) /\ RunsOf(late) = RecoveredBoundaries(c, t)
      /\ \A d \in ToSet(late) : ContentLike(d, c, t)
  BY <1>1, ContentLikeList
<1>6. /\ Listed(inner) /\ RunsOf(inner) = InternalOrigins(c, t)
      /\ \A d \in ToSet(inner) : ContentLike(d, c, t)
  BY <1>1, InternalList
<1>7. /\ Listed(chained) /\ \A d \in ToSet(chained) : ContentLike(d, c, t)
      /\ chains # << >> => ToSet(chained) # {}
  <2>1. Listed(chains) /\ \A p \in ToSet(chains) : IsChain(p, c, t)
    <3>1. Listed(all) /\ \A p \in ToSet(all) : IsChain(p, c, t)
      BY Chains
    <3> HIDE DEF all
    <3> QED
      BY <3>1, ListedSelect
  <2> HIDE DEF chains
  <2> QED
    BY <2>1, ChainList
<1> HIDE DEF drops, spread, inner, chained, chains, late
<1>8. Listed(sharp) /\ ToSet(sharp) = ToSet(drops) \cup ToSet(spread) \cup ToSet(inner)
  BY <1>3, <1>4, <1>6, ListedConcat
<1>9. /\ ToSet(drops) = {} => DropOrigins(c, t) = {}
      /\ ToSet(spread) = {} => Spreading(c, t) = {}
      /\ ToSet(inner) = {} => InternalOrigins(c, t) = {}
      /\ ToSet(late) = {} => RecoveredBoundaries(c, t) = {}
  BY <1>3, <1>4, <1>5, <1>6, RunsOfSet
<1> HIDE DEF sharp
<1>10. CASE sharp # << >>
  <2>1. ContentOrigins(c, t) = sharp /\ ToSet(sharp) # {}
    BY <1>2, <1>8, <1>10, ListedEmpty
  <2> QED
    BY <2>1, <1>3, <1>4, <1>6, <1>8
<1>11. CASE sharp = << >>
  <2>1. ToSet(sharp) = {}
    BY <1>11, ListedEmpty
  <2>2. DropOrigins(c, t) = {} /\ Spreading(c, t) = {} /\ InternalOrigins(c, t) = {}
    BY <2>1, <1>8, <1>9
  <2>3. CASE chains # << >>
    <3>1. ContentOrigins(c, t) = chained
      BY <1>2, <1>11, <2>3
    <3> QED
      BY <3>1, <2>3, <1>7
  <2>4. CASE chains = << >>
    <3>1. ContentOrigins(c, t) = late
      BY <1>2, <1>11, <2>4
    <3> QED
      BY <3>1, <2>2, <1>1, <1>5, <1>9
  <2> QED
    BY <2>3, <2>4
<1> QED
  BY <1>10, <1>11

--------------------------------------------------------------------------------
(* cutpoint.py: shadowing, hard faults, and the merge of the channels.         *)

(* Ancestors and Descendants are the two ends of one strict relation on the    *)
(* super-nodes.                                                                *)
LEMMA AncestorsOf ==
  ASSUME NEW c, NEW t, Graphed(c, t)
  PROVE  /\ \A s, a : a \in Ancestors(c, s) <=> <<a, s>> \in c.above
         /\ \A s, a : a \in Descendants(c, s) <=> <<s, a>> \in c.above
         /\ \A s, a : <<a, s>> \in c.above => a \in Supers(c) /\ s \in Supers(c)
         /\ \A s : s \notin Ancestors(c, s)
<1>1. PICK L : Ordered(L, c)
  BY DEF Graphed
<1> DEFINE A == Supers(c)
           E == c.above
<1>2. E \subseteq A \X A /\ \A s \in A : <<s, s>> \notin E
  BY <1>1, AncestorsStrict DEF Graphed
<1>0. \A s : Ancestors(c, s) = Preds(E, s) /\ Descendants(c, s) = Succs(E, s)
  BY DEF Ancestors, Descendants
<1> HIDE DEF A, E
<1>4. \A s, a : <<a, s>> \in E => a \in A /\ s \in A
  BY <1>2
<1>5. ASSUME NEW s, NEW a PROVE a \in Ancestors(c, s) <=> <<a, s>> \in E
  <2>1. Ancestors(c, s) = Preds(E, s)
    BY <1>0
  <2>2. a \in Preds(E, s) <=> <<a, s>> \in E
    BY <1>2, Neighbours
  <2> QED
    BY <2>1, <2>2
<1>6. ASSUME NEW s, NEW a PROVE a \in Descendants(c, s) <=> <<s, a>> \in E
  <2>1. Descendants(c, s) = Succs(E, s)
    BY <1>0
  <2>2. a \in Succs(E, s) <=> <<s, a>> \in E
    BY <1>2, Neighbours
  <2> QED
    BY <2>1, <2>2
<1>7. \A s : s \notin Ancestors(c, s)
  BY <1>2, <1>4, <1>5
<1> QED
  BY <1>4, <1>5, <1>6, <1>7 DEF A, E

(* Shadowing keeps some origin, and no origin below another. *)
LEMMA UnshadowedAre ==
  ASSUME NEW c, NEW t, Graphed(c, t), NEW q, Listed(q), RunsOf(q) \subseteq Supers(c)
  PROVE  /\ Listed(Unshadowed(c, q)) /\ ToSet(Unshadowed(c, q)) \subseteq ToSet(q)
         /\ \A d, e \in ToSet(Unshadowed(c, q)) : d.run \notin Ancestors(c, e.run)
         /\ ToSet(q) # {} => ToSet(Unshadowed(c, q)) # {}
<1> DEFINE keep == {d \in ToSet(q) : \A i \in DOMAIN q : q[i].run \notin Ancestors(c, d.run)}
<1>1. Listed(Unshadowed(c, q)) /\ ToSet(Unshadowed(c, q)) = ToSet(q) \cap keep
  BY ListedSelect DEF Unshadowed
<1>2. \A d \in ToSet(q), e \in keep : d.run \notin Ancestors(c, e.run)
  BY DEF ToSet
<1>3. ASSUME ToSet(q) # {} PROVE keep # {}
  <2> DEFINE X == RunsOf(q)
             E == c.above
  <2>1. IsFiniteSet(X) /\ X # {}
    <3>1. X = {d.run : d \in ToSet(q)} /\ X \subseteq Supers(c)
      BY RunsOfSet
    <3>2. IsFiniteSet(Supers(c))
      BY DEF Graphed, Condensation, AreRuns
    <3> QED
      BY <3>1, <3>2, <1>3, FS_Subset
  <2>2. PICK L : Ordered(L, c)
    BY DEF Graphed
  <2>3. Transitive(E, X) /\ \A x \in X : <<x, x>> \notin E
    BY <2>2, AncestorsStrict DEF Graphed, Transitive
  <2> HIDE DEF X, E
  <2>4. PICK x \in X : \A y \in X : <<y, x>> \notin E
    BY <2>1, <2>3, Minimal DEF Transitive
  <2>5. PICK d \in ToSet(q) : d.run = x
    BY RunsOfSet DEF X
  <2>6. \A y \in X : y \notin Ancestors(c, d.run)
    BY <2>4, <2>5, AncestorsOf DEF E
  <2>7. \A i \in DOMAIN q : q[i].run \in X
    BY DEF X, RunsOf
  <2> QED
    BY <2>5, <2>6, <2>7
<1> HIDE DEF keep
<1> QED
  BY <1>1, <1>2, <1>3 DEF keep

(* A candidate of the deterministic channel. *)
HardLike(d, c, t) ==
  /\ d.run \in HardFaults(c, t) /\ d.via = "deterministic" /\ d.member = Unknown
  /\ Priced(d)

(* _deterministic_origins: every primary fault has its candidate, and where    *)
(* all faults are secondary one stands in.                                     *)
LEMMA HardOrigins ==
  ASSUME NEW c, NEW t, Graphed(c, t)
  PROVE  /\ Listed(deterministic_origins(c, t))
         /\ \A d \in ToSet(deterministic_origins(c, t)) : HardLike(d, c, t)
         /\ PrimaryFaults(c, t) \subseteq RunsOf(deterministic_origins(c, t))
         /\ HardFaults(c, t) # {} => RunsOf(deterministic_origins(c, t)) # {}
<1> DEFINE primary == PrimaryFaults(c, t)
           secondary == HardFaults(c, t) \ primary
           q == InOrder(c, primary)
           n == Len(q)
           f == [i \in DOMAIN q |-> DeterministicCandidate(c, t, q[i])]
           first == FirstIn(c.topo, secondary)
           stand == [DeterministicCandidate(c, t, first) EXCEPT
                          !.unknownUpstream = TRUE, !.recovered = FALSE]
<1>1. primary \subseteq HardFaults(c, t) /\ HardFaults(c, t) \subseteq Supers(c)
  BY DEF PrimaryFaults, HardFaults
<1>2. deterministic_origins(c, t) = CASE primary # {} -> f
                                      [] primary = {} /\ secondary # {} -> <<stand>>
                                      [] OTHER -> << >>
  BY DEF deterministic_origins
<1>3. Listed(f) /\ ToSet(f) = {DeterministicCandidate(c, t, s) : s \in primary}
  <2>1. Listed(q) /\ ToSet(q) = primary
    <3> HIDE DEF primary
    <3> QED
      BY <1>1, InOrderSet
  <2> HIDE DEF primary
  <2>2. DOMAIN q = 1..n /\ n \in Nat /\ primary = {q[i] : i \in 1..n}
    <3> HIDE DEF q
    <3> QED
      BY <2>1, ListedDomain
  <2>3. f = [i \in 1..n |-> DeterministicCandidate(c, t, q[i])]
    BY <2>2
  <2> HIDE DEF f, q, n
  <2>4. f = [i \in 1..n |-> f[i]] /\ {f[i] : i \in 1..n} = {DeterministicCandidate(c, t, s) : s \in primary}
    BY <2>2, <2>3
  <2> QED
    BY <2>2, <2>4, ListedFun
<1>4. secondary # {} => first \in secondary
  <2>1. PICK L : Ordered(L, c)
    BY DEF Graphed
  <2>2. Listed(c.topo) /\ ToSet(c.topo) = Supers(c)
    BY <2>1, Topo, ListedIn DEF Graphed
  <2>3. secondary \subseteq Supers(c)
    BY <1>1
  <2> HIDE DEF secondary
  <2> QED
    BY <2>2, <2>3, ListedFirst
<1>5. /\ stand.run = first /\ stand.via = "deterministic" /\ stand.member = Unknown
      /\ first \in Supers(c) => Priced(stand)
  BY HardPriced DEF DeterministicCandidate, CandidateOf
<1>6. Listed(<<stand>>) /\ ToSet(<<stand>>) = {stand}
  <2> HIDE DEF stand
  <2>1. <<stand>> \in Seq({stand}) /\ ToSet(<<stand>>) = {stand}
    BY DEF ToSet
  <2> QED
    BY <2>1, ListedIn
<1>7. \A o : RunsOf(o) = {d.run : d \in ToSet(o)}
  BY RunsOfSet
<1> HIDE DEF f, stand, first, secondary, primary
<1>8. CASE primary # {}
  <2>1. deterministic_origins(c, t) = f
    BY <1>2, <1>8
  <2>2. RunsOf(f) = primary
    <3>1. RunsOf(f) = {d.run : d \in ToSet(f)}
      BY <1>7
    <3> QED
      BY <1>3, <3>1, DeterministicFields
  <2>3. \A u \in primary : u \in Supers(c) /\ HardLike(DeterministicCandidate(c, t, u), c, t)
    <3>1. \A u \in primary : u \in Supers(c) /\ u \in HardFaults(c, t)
      BY <1>1 DEF primary
    <3> SUFFICES ASSUME NEW u \in primary
                 PROVE  HardLike(DeterministicCandidate(c, t, u), c, t)
      BY <3>1
    <3> DEFINE d == DeterministicCandidate(c, t, u)
    <3>2. Priced(d)
      BY <3>1, HardPriced
    <3>3. d.run = u /\ d.via = "deterministic" /\ d.member = Unknown
      BY DeterministicFields
    <3> HIDE DEF d
    <3>4. HardLike(d, c, t)
      BY <3>1, <3>2, <3>3 DEF HardLike
    <3> QED
      BY <3>4 DEF d
  <2>4. \A d \in ToSet(f) : HardLike(d, c, t)
    BY <1>3, <2>3
  <2> QED
    BY <2>1, <2>2, <2>4, <1>3, <1>8 DEF primary
<1>9. CASE primary = {} /\ secondary # {}
  <2>1. deterministic_origins(c, t) = <<stand>>
    BY <1>2, <1>9
  <2>2. first \in HardFaults(c, t)
    BY <1>4, <1>9 DEF secondary
  <2>3. HardLike(stand, c, t)
    BY <1>1, <1>5, <2>2 DEF HardLike
  <2>4. RunsOf(<<stand>>) # {}
    BY <1>6, <1>7
  <2> QED
    BY <2>1, <2>3, <2>4, <1>6, <1>9 DEF primary
<1>10. CASE primary = {} /\ secondary = {}
  <2>1. deterministic_origins(c, t) = << >>
    BY <1>2, <1>10
  <2> QED
    BY <2>1, <1>10, ListedEmpty DEF primary, secondary
<1> QED
  BY <1>8, <1>9, <1>10

(* A candidate, of whichever channel. *)
CandidateLike(d, c, t) ==
  /\ d.run \in Supers(c)
  /\ d.member = Unknown \/ (d.member \in c.members[d.run] /\ d.via = "content")
  /\ d.via \in {"content", "deterministic", "both"}
  /\ d.via # "content" => d.run \in HardFaults(c, t)
  /\ d.via = "content" => Grounded(d, c, t)
  /\ Priced(d)

(* merge_channels loses no origin of either channel.                           *)
LEMMA Merged ==
  ASSUME NEW c, NEW t, Graphed(c, t),
         NEW a, Listed(a), \A d \in ToSet(a) : ContentLike(d, c, t),
         NEW b, Listed(b), \A d \in ToSet(b) : HardLike(d, c, t)
  PROVE  /\ Listed(merge_channels(a, b))
         /\ \A d \in ToSet(merge_channels(a, b)) : CandidateLike(d, c, t)
         /\ RunsOf(merge_channels(a, b)) = RunsOf(a) \cup RunsOf(b)
<1> DEFINE n == Len(a)
           Mark(d) == IF d.run \in RunsOf(b) THEN [d EXCEPT !.via = "both", !.member = Unknown] ELSE d
           f == [i \in DOMAIN a |-> Mark(a[i])]
           r == Select(b, {d \in ToSet(b) : d.run \notin RunsOf(a)})
<1>1. DOMAIN a = 1..n /\ n \in Nat /\ ToSet(a) = {a[i] : i \in 1..n}
  BY ListedDomain
<1>2. merge_channels(a, b) = f \o r
  BY DEF merge_channels
<1>3. Listed(r) /\ ToSet(r) = {d \in ToSet(b) : d.run \notin RunsOf(a)}
  <2> DEFINE S == {d \in ToSet(b) : d.run \notin RunsOf(a)}
  <2>1. S \subseteq ToSet(b)
    OBVIOUS
  <2> HIDE DEF S
  <2>2. Listed(Select(b, S)) /\ ToSet(Select(b, S)) = ToSet(b) \cap S
    BY ListedSelect
  <2> QED
    BY <2>1, <2>2 DEF S
<1>4. \A d \in ToSet(a) : /\ Mark(d).run = d.run
                          /\ d.run \in RunsOf(b) => Mark(d).via = "both" /\ Mark(d).member = Unknown
                          /\ d.run \notin RunsOf(b) => Mark(d) = d
                          /\ Priced(Mark(d))
  <2> SUFFICES ASSUME NEW d \in ToSet(a), d.run \in RunsOf(b)
               PROVE  /\ Mark(d).run = d.run /\ Mark(d).via = "both" /\ Mark(d).member = Unknown
                      /\ Priced(Mark(d))
    BY DEF ContentLike
  <2>1. IsCandidate(d) /\ Priced(d) /\ Mark(d) = [d EXCEPT !.via = "both", !.member = Unknown]
    BY DEF ContentLike
  <2> HIDE DEF Mark
  <2>2. Mark(d).run = d.run /\ Mark(d).via = "both" /\ Mark(d).member = Unknown
    BY <2>1 DEF IsCandidate
  <2>3. /\ DOMAIN Mark(d) = DOMAIN d
        /\ {"score", "base", "drop", "tied"} \subseteq DOMAIN d
        /\ Mark(d).score = d.score /\ Mark(d).base = d.base /\ Mark(d).drop = d.drop /\ Mark(d).tied = d.tied
    BY <2>1 DEF Priced
  <2>4. Priced(Mark(d))
    BY <2>1, <2>3 DEF Priced
  <2> QED
    BY <2>2, <2>4
<1>5. RunsOf(a) = {d.run : d \in ToSet(a)} /\ RunsOf(b) = {d.run : d \in ToSet(b)}
      /\ RunsOf(f \o r) = {d.run : d \in ToSet(f \o r)}
  BY RunsOfSet
<1>6. \A d \in ToSet(a) : CandidateLike(Mark(d), c, t)
  <2>1. RunsOf(b) \subseteq HardFaults(c, t)
    BY <1>5 DEF HardLike
  <2> HIDE DEF Mark
  <2> QED
    BY <1>4, <2>1 DEF CandidateLike, ContentLike
<1>7. f = [i \in 1..n |-> Mark(a[i])]
  BY <1>1
<1> HIDE DEF f, Mark, n, r
<1>8. f = [i \in 1..n |-> f[i]] /\ {f[i] : i \in 1..n} = {Mark(d) : d \in ToSet(a)}
  BY <1>1, <1>7
<1>9. Listed(f) /\ ToSet(f) = {Mark(d) : d \in ToSet(a)}
  BY <1>1, <1>8, ListedFun
<1>10. Listed(f \o r) /\ ToSet(f \o r) = ToSet(f) \cup ToSet(r)
  BY <1>3, <1>9, ListedConcat
<1>11. \A d \in ToSet(r) : CandidateLike(d, c, t)
  BY <1>3 DEF HardLike, CandidateLike, HardFaults
<1>12. RunsOf(f \o r) = RunsOf(a) \cup RunsOf(b)
  <2>1. {d.run : d \in ToSet(f)} = RunsOf(a)
    BY <1>4, <1>5, <1>9
  <2>2. {d.run : d \in ToSet(r)} = RunsOf(b) \ RunsOf(a)
    BY <1>3, <1>5
  <2>3. {d.run : d \in ToSet(f) \cup ToSet(r)} = RunsOf(a) \cup RunsOf(b)
    BY <2>1, <2>2
  <2> QED
    BY <2>3, <1>5, <1>10
<1> QED
  BY <1>2, <1>6, <1>9, <1>10, <1>11, <1>12

(* What find_blame selects: candidates of the trace, every primary fault       *)
(* among them, some candidate wherever a channel saw something, and no         *)
(* candidate below another but on hard evidence.                               *)
IsSelection(q, c, t) ==
  /\ Listed(q)
  /\ \A d \in ToSet(q) : CandidateLike(d, c, t)
  /\ PrimaryFaults(c, t) \subseteq RunsOf(q)
  /\ HardFaults(c, t) # {} => q # << >>
  /\ DropOrigins(c, t) \cup Boundaries(c, t) \cup InternalOrigins(c, t) # {} => q # << >>
  /\ \A d, e \in ToSet(q) :
        d.run \in Ancestors(c, e.run) => {d.run, e.run} \cap HardFaults(c, t) # {}

(* select_candidates does so for every trace.                                  *)
LEMMA Selection ==
  ASSUME NEW c, NEW t, Graphed(c, t)
  PROVE  IsSelection(select_candidates(c, t), c, t)
<1> DEFINE o == ContentOrigins(c, t)
           a == Unshadowed(c, o)
           b == deterministic_origins(c, t)
           q == merge_channels(a, b)
<1>1. /\ Listed(o) /\ \A d \in ToSet(o) : ContentLike(d, c, t)
      /\ DropOrigins(c, t) \cup Boundaries(c, t) \cup InternalOrigins(c, t) # {} => ToSet(o) # {}
  BY ContentOriginsAre
<1>2. /\ Listed(b) /\ \A d \in ToSet(b) : HardLike(d, c, t)
      /\ PrimaryFaults(c, t) \subseteq RunsOf(b)
      /\ HardFaults(c, t) # {} => RunsOf(b) # {}
  BY HardOrigins
<1> HIDE DEF o, b
<1>3. RunsOf(o) \subseteq Supers(c)
  BY <1>1, RunsOfSet DEF ContentLike
<1>4. /\ Listed(a) /\ ToSet(a) \subseteq ToSet(o)
      /\ \A d, e \in ToSet(a) : d.run \notin Ancestors(c, e.run)
      /\ ToSet(o) # {} => ToSet(a) # {}
  BY <1>1, <1>3, UnshadowedAre
<1> HIDE DEF a
<1>5. \A d \in ToSet(a) : ContentLike(d, c, t)
  BY <1>1, <1>4
<1>6. /\ Listed(q) /\ \A d \in ToSet(q) : CandidateLike(d, c, t)
      /\ RunsOf(q) = RunsOf(a) \cup RunsOf(b)
  BY <1>2, <1>4, <1>5, Merged
<1>7. select_candidates(c, t) = q
  BY DEF select_candidates, q, a, b, o
<1> HIDE DEF q
<1>8. /\ RunsOf(q) = {d.run : d \in ToSet(q)} /\ RunsOf(a) = {d.run : d \in ToSet(a)}
      /\ RunsOf(b) = {d.run : d \in ToSet(b)}
  BY RunsOfSet
<1>9. RunsOf(q) # {} => q # << >>
  BY <1>8, ListedEmpty
<1>10. RunsOf(b) \subseteq HardFaults(c, t)
  BY <1>2, <1>8 DEF HardLike
<1>11. ASSUME NEW d \in ToSet(q), NEW e \in ToSet(q), d.run \in Ancestors(c, e.run)
       PROVE  {d.run, e.run} \cap HardFaults(c, t) # {}
  <2>1. CASE d.run \in RunsOf(b) \/ e.run \in RunsOf(b)
    BY <2>1, <1>10
  <2>2. CASE d.run \notin RunsOf(b) /\ e.run \notin RunsOf(b)
    <3>1. d.run \in RunsOf(a) /\ e.run \in RunsOf(a)
      BY <1>6, <1>8, <2>2
    <3>2. PICK u \in ToSet(a), w \in ToSet(a) : u.run = d.run /\ w.run = e.run
      BY <3>1, <1>8
    <3>3. u.run \notin Ancestors(c, w.run)
      BY <1>4
    <3> QED
      BY <3>2, <3>3, <1>11
  <2> QED
    BY <2>1, <2>2
<1>12. PrimaryFaults(c, t) \subseteq RunsOf(q)
  BY <1>2, <1>6
<1>13. HardFaults(c, t) # {} => q # << >>
  BY <1>2, <1>6, <1>9
<1>14. DropOrigins(c, t) \cup Boundaries(c, t) \cup InternalOrigins(c, t) # {} => q # << >>
  BY <1>1, <1>4, <1>6, <1>8, <1>9
<1> QED
  BY <1>6, <1>7, <1>11, <1>12, <1>13, <1>14 DEF IsSelection

--------------------------------------------------------------------------------
(* path.py: the best path, and where it leads.                                 *)

(* What steps are compared by: unscored last, then the score, then time.       *)
Triples == Int \X Int \X Int

(* Two such triples, compared place by place.                                  *)
LEMMA LexTriple ==
  ASSUME NEW a \in Triples, NEW b \in Triples
  PROVE  LexLess(a, b) <=> \/ a[1] < b[1]
                           \/ a[1] = b[1] /\ a[2] < b[2]
                           \/ a[1] = b[1] /\ a[2] = b[2] /\ a[3] < b[3]
<1>1. DOMAIN a = {1, 2, 3}
  BY DEF Triples
<1>2. LexLess(a, b) <=> \E i \in {1, 2, 3} : a[i] < b[i] /\ \A j \in 1..(i - 1) : a[j] = b[j]
  BY <1>1 DEF LexLess
<1>3. 1..(1 - 1) = {} /\ 1..(2 - 1) = {1} /\ 1..(3 - 1) = {1, 2}
  OBVIOUS
<1>4. (a[1] < b[1] /\ \A j \in 1..(1 - 1) : a[j] = b[j]) <=> a[1] < b[1]
  BY <1>3
<1>5. (a[2] < b[2] /\ \A j \in 1..(2 - 1) : a[j] = b[j]) <=> a[1] = b[1] /\ a[2] < b[2]
  BY <1>3
<1>6. (a[3] < b[3] /\ \A j \in 1..(3 - 1) : a[j] = b[j]) <=> a[1] = b[1] /\ a[2] = b[2] /\ a[3] < b[3]
  BY <1>3
<1> QED
  BY <1>2, <1>4, <1>5, <1>6

(* That comparison is a strict order.                                          *)
LEMMA LexOrder ==
  ASSUME NEW a \in Triples, NEW b \in Triples, NEW d \in Triples
  PROVE  /\ ~LexLess(a, a)
         /\ LexLess(a, b) /\ LexLess(b, d) => LexLess(a, d)
<1>1. /\ a[1] \in Int /\ a[2] \in Int /\ a[3] \in Int
      /\ b[1] \in Int /\ b[2] \in Int /\ b[3] \in Int
      /\ d[1] \in Int /\ d[2] \in Int /\ d[3] \in Int
  BY DEF Triples
<1>2. ~LexLess(a, a)
  BY <1>1, LexTriple
<1>3. ASSUME LexLess(a, b), LexLess(b, d) PROVE LexLess(a, d)
  <2>1. \/ a[1] < b[1]
        \/ a[1] = b[1] /\ a[2] < b[2]
        \/ a[1] = b[1] /\ a[2] = b[2] /\ a[3] < b[3]
    BY <1>3, LexTriple
  <2>2. \/ b[1] < d[1]
        \/ b[1] = d[1] /\ b[2] < d[2]
        \/ b[1] = d[1] /\ b[2] = d[2] /\ b[3] < d[3]
    BY <1>3, LexTriple
  <2>3. \/ a[1] < d[1]
        \/ a[1] = d[1] /\ a[2] < d[2]
        \/ a[1] = d[1] /\ a[2] = d[2] /\ a[3] < d[3]
    BY <1>1, <2>1, <2>2
  <2> QED
    BY <2>3, LexTriple
<1> QED
  BY <1>2, <1>3

(* The key of a super-node is such a triple.                                   *)
LEMMA StepKeys ==
  ASSUME NEW c, NEW t, Graphed(c, t), NEW s \in Supers(c)
  PROVE  step_key(t.score, s) \in Triples
<1>1. s \in Int /\ t.score[s] \in {Unknown} \cup 0..100
  BY DEF Graphed, IsTrace, Condensation, AreRuns
<1> QED
  BY <1>1 DEF step_key, Triples, Unknown

(* So is the comparison of paths, the shorter before the worse: some path of   *)
(* a set is beaten by none.                                                    *)
LEMMA BetterOrder ==
  ASSUME NEW c, NEW t, Graphed(c, t),
         NEW p \in Seq(Supers(c)), NEW q \in Seq(Supers(c)), NEW r \in Seq(Supers(c))
  PROVE  /\ ~BetterPath(t.score, p, p)
         /\ BetterPath(t.score, p, q) /\ BetterPath(t.score, q, r) => BetterPath(t.score, p, r)
<1> DEFINE key(s) == step_key(t.score, s)
           less(a, b) == LexLess(key(a), key(b))
<1>1. Len(p) \in Nat /\ Len(q) \in Nat /\ Len(r) \in Nat
      /\ DOMAIN p = 1..Len(p) /\ DOMAIN q = 1..Len(q) /\ DOMAIN r = 1..Len(r)
      /\ (\A i \in 1..Len(p) : p[i] \in Supers(c))
      /\ (\A i \in 1..Len(q) : q[i] \in Supers(c))
      /\ (\A i \in 1..Len(r) : r[i] \in Supers(c))
  OBVIOUS
<1>2. \A a, b, d \in Supers(c) : ~less(a, a) /\ (less(a, b) /\ less(b, d) => less(a, d))
  BY StepKeys, LexOrder
<1>3. ASSUME NEW x, NEW y
      PROVE  BetterPath(t.score, x, y) <=>
                \/ Len(x) < Len(y)
                \/ /\ Len(x) = Len(y)
                   /\ \E i \in DOMAIN x : less(x[i], y[i]) /\ \A j \in 1..(i - 1) : x[j] = y[j]
  BY DEF BetterPath
<1> HIDE DEF less
<1>4. ~BetterPath(t.score, p, p)
  BY <1>1, <1>2, <1>3
<1>5. ASSUME BetterPath(t.score, p, q), BetterPath(t.score, q, r)
      PROVE  BetterPath(t.score, p, r)
  <2>1. CASE Len(p) < Len(q) \/ Len(q) < Len(r)
    <3>1. Len(p) <= Len(q) /\ Len(q) <= Len(r)
      BY <1>1, <1>3, <1>5
    <3>2. Len(p) < Len(r)
      BY <1>1, <2>1, <3>1
    <3> QED
      BY <1>3, <3>2
  <2>2. CASE Len(p) = Len(q) /\ Len(q) = Len(r)
    <3>a. ~(Len(p) < Len(q)) /\ ~(Len(q) < Len(r))
      BY <1>1, <2>2
    <3>b. \E i \in DOMAIN p : less(p[i], q[i]) /\ \A j \in 1..(i - 1) : p[j] = q[j]
      BY <1>3, <1>5, <3>a
    <3>c. \E k \in DOMAIN q : less(q[k], r[k]) /\ \A j \in 1..(k - 1) : q[j] = r[j]
      BY <1>3, <1>5, <3>a
    <3>1. PICK i \in 1..Len(p) : less(p[i], q[i]) /\ \A j \in 1..(i - 1) : p[j] = q[j]
      BY <1>1, <3>b
    <3>2. PICK k \in 1..Len(p) : less(q[k], r[k]) /\ \A j \in 1..(k - 1) : q[j] = r[j]
      BY <1>1, <2>2, <3>c
    <3>3. \E m \in 1..Len(p) : less(p[m], r[m]) /\ \A j \in 1..(m - 1) : p[j] = r[j]
      <4>1. CASE i < k
        <5>1. q[i] = r[i]
          BY <1>1, <3>1, <3>2, <4>1
        <5>2. \A j \in 1..(i - 1) : p[j] = r[j]
          BY <1>1, <3>1, <3>2, <4>1
        <5> QED
          BY <3>1, <5>1, <5>2
      <4>2. CASE i = k
        <5>1. p[i] \in Supers(c) /\ q[i] \in Supers(c) /\ r[i] \in Supers(c)
          BY <1>1, <2>2
        <5>2. less(p[i], r[i])
          BY <1>2, <3>1, <3>2, <4>2, <5>1
        <5>3. \A j \in 1..(i - 1) : p[j] = r[j]
          BY <3>1, <3>2, <4>2
        <5> QED
          BY <5>2, <5>3
      <4>3. CASE k < i
        <5>1. p[k] = q[k]
          BY <1>1, <3>1, <3>2, <4>3
        <5>2. \A j \in 1..(k - 1) : p[j] = r[j]
          BY <1>1, <3>1, <3>2, <4>3
        <5> QED
          BY <3>2, <5>1, <5>2
      <4> QED
        BY <1>1, <4>1, <4>2, <4>3
    <3> QED
      BY <1>1, <1>3, <2>2, <3>3
  <2> QED
    BY <1>1, <1>3, <1>5, <2>1, <2>2
<1> QED
  BY <1>4, <1>5

(* A path over the edges between super-nodes.                                  *)
IsWay(w, c, u, v) ==
  /\ w \in Seq(Supers(c)) /\ Len(w) > 0
  /\ w[1] = u /\ w[Len(w)] = v
  /\ \A i \in 1..(Len(w) - 1) : <<w[i], w[i + 1]>> \in c.dag

(* What the loop holds: for each super-node no path, or one that leads to      *)
(* it.                                                                         *)
AreWays(b, c, u) ==
  /\ b \in [Supers(c) -> Seq(Supers(c))]
  /\ \A s \in Supers(c) : b[s] # << >> => IsWay(b[s], c, u, s)

(* A path with one more edge is a path.                                        *)
LEMMA LongerWay ==
  ASSUME NEW c, NEW u \in Supers(c), NEW v, NEW w, IsWay(w, c, u, v),
         NEW x \in Supers(c), <<v, x>> \in c.dag
  PROVE  IsWay(Append(w, x), c, u, x)
<1> DEFINE X == Supers(c)
           n == Len(w)
           a == Append(w, x)
<1>1. w \in Seq(X) /\ n \in Nat /\ n > 0 /\ x \in X
  BY DEF IsWay
<1>2. w[1] = u /\ w[n] = v /\ \A i \in 1..(n - 1) : <<w[i], w[i + 1]>> \in c.dag
  BY DEF IsWay
<1> HIDE DEF X
<1>3. /\ a \in Seq(X) /\ Len(a) = n + 1 /\ a[n + 1] = x
      /\ \A i \in 1..n : a[i] = w[i]
  BY <1>1
<1> HIDE DEF n, a
<1>4. ASSUME NEW i \in 1..((n + 1) - 1) PROVE <<a[i], a[i + 1]>> \in c.dag
  <2>1. CASE i = n
    <3>1. a[i] = v /\ a[i + 1] = x
      BY <1>1, <1>2, <1>3, <2>1
    <3> QED
      BY <3>1
  <2>2. CASE i \in 1..(n - 1)
    <3>1. a[i] = w[i] /\ a[i + 1] = w[i + 1]
      BY <1>1, <1>3, <2>2
    <3> QED
      BY <1>2, <2>2, <3>1
  <2> QED
    BY <1>1, <2>1, <2>2
<1>5. a[1] = u /\ Len(a) > 0
  BY <1>1, <1>2, <1>3
<1> QED
  BY <1>3, <1>4, <1>5 DEF IsWay, X, a

(* One round of the loop: paths stay paths, none is lost, and a super-node     *)
(* behind a reached one is reached.                                            *)
LEMMA Extended ==
  ASSUME NEW c, NEW t, Graphed(c, t), NEW u \in Supers(c),
         NEW b, AreWays(b, c, u), NEW s \in Supers(c)
  PROVE  /\ AreWays(Extend(c, t.score, u, b, s), c, u)
         /\ \A x \in Supers(c) : b[x] # << >> => Extend(c, t.score, u, b, s)[x] # << >>
         /\ s # u /\ (\E p \in Preds(c.dag, s) : b[p] # << >>)
              => Extend(c, t.score, u, b, s)[s] # << >>
<1> DEFINE X == Supers(c)
           from == {q \in Preds(c.dag, s) : b[q] # << >>}
           options == {Append(b[p], s) : p \in from}
           e == Extend(c, t.score, u, b, s)
           best == CHOOSE o \in options : \A q \in options : ~BetterPath(t.score, q, o)
<1>1. /\ IsFiniteSet(Preds(c.dag, s)) /\ Preds(c.dag, s) \subseteq X
      /\ \A p \in Preds(c.dag, s) : <<p, s>> \in c.dag
  <2> DEFINE E == c.dag
             P == Preds(E, s)
  <2>1. E \subseteq X \X X /\ IsFiniteSet(X)
    BY DagEdges DEF Graphed, Condensation, AreRuns
  <2> HIDE DEF E, X
  <2>2. P \subseteq X /\ \A p \in P : <<p, s>> \in E
    BY <2>1, Neighbours
  <2> HIDE DEF P
  <2>3. IsFiniteSet(P)
    BY <2>1, <2>2, FS_Subset
  <2> QED
    BY <2>2, <2>3 DEF P, E
<1>2. b \in [X -> Seq(X)]
  BY DEF AreWays
<1>3. ASSUME NEW o \in options PROVE IsWay(o, c, u, s) /\ o \in Seq(X) /\ o # << >>
  <2>1. PICK p \in from : o = Append(b[p], s)
    OBVIOUS
  <2>2. p \in X /\ b[p] # << >> /\ <<p, s>> \in c.dag
    BY <1>1
  <2>3. IsWay(b[p], c, u, p)
    BY <2>2 DEF AreWays
  <2>4. IsWay(o, c, u, s)
    BY <2>1, <2>2, <2>3, LongerWay
  <2>5. o \in Seq(X) /\ Len(o) > 0
    BY <2>4 DEF IsWay
  <2> QED
    BY <2>4, <2>5
<1>4. CASE s = u \/ options = {}
  <2>1. e = b
    BY <1>4 DEF Extend
  <2>2. s # u => ~\E p \in Preds(c.dag, s) : b[p] # << >>
    BY <1>4
  <2> QED
    BY <2>1, <2>2
<1>5. CASE s # u /\ options # {}
  <2>1. e = [b EXCEPT ![s] = best]
    <3>1. ~(s = u \/ options = {})
      BY <1>5
    <3> QED
      BY <3>1 DEF Extend
  <2>2. best \in options
    <3> DEFINE L == {z \in Seq(X) \X Seq(X) : BetterPath(t.score, z[1], z[2])}
    <3>1. IsFiniteSet(options)
      <4> DEFINE F == from
      <4>1. IsFiniteSet(F)
        <5>1. F \subseteq Preds(c.dag, s)
          OBVIOUS
        <5> HIDE DEF F
        <5> QED
          BY <1>1, <5>1, FS_Subset
      <4>2. options = {Append(b[p], s) : p \in F}
        OBVIOUS
      <4> DEFINE f == [p \in F |-> Append(b[p], s)]
      <4> HIDE DEF F, options
      <4>3. f \in Surjection(F, options)
        BY <4>2 DEF Surjection
      <4> HIDE DEF f
      <4> QED
        BY <4>1, <4>3, FS_Surjection
    <3>2. options \subseteq Seq(X) /\ options # {}
      BY <1>3, <1>5
    <3>3. \A x, y \in Seq(X) : <<x, y>> \in L <=> BetterPath(t.score, x, y)
      OBVIOUS
    <3> HIDE DEF L, options
    <3>4. \A x \in options : <<x, x>> \notin L
      BY <3>2, <3>3, BetterOrder DEF X
    <3>5. \A x, y, z \in options : <<x, y>> \in L /\ <<y, z>> \in L => <<x, z>> \in L
      <4> SUFFICES ASSUME NEW x \in options, NEW y \in options, NEW z \in options,
                          <<x, y>> \in L, <<y, z>> \in L
                   PROVE  <<x, z>> \in L
        OBVIOUS
      <4>1. x \in Seq(X) /\ y \in Seq(X) /\ z \in Seq(X)
        BY <3>2
      <4>2. BetterPath(t.score, x, y) /\ BetterPath(t.score, y, z)
        BY <3>3, <4>1
      <4>3. BetterPath(t.score, x, z)
        BY <4>1, <4>2, BetterOrder DEF X
      <4> QED
        BY <3>3, <4>1, <4>3
    <3>6. PICK o \in options : \A y \in options : <<y, o>> \notin L
      BY <3>1, <3>2, <3>4, <3>5, Minimal
    <3>7. \A y \in options : ~BetterPath(t.score, y, o)
      BY <3>2, <3>3, <3>6
    <3> QED
      BY <3>7
  <2>3. IsWay(best, c, u, s) /\ best \in Seq(X) /\ best # << >>
    <3> HIDE DEF best, options
    <3> QED
      BY <1>3, <2>2
  <2> HIDE DEF best, e, options
  <2>4. e \in [X -> Seq(X)] /\ e[s] = best /\ \A x \in X : x # s => e[x] = b[x]
    BY <1>2, <2>1, <2>3
  <2>5. ASSUME NEW x \in X, e[x] # << >> PROVE IsWay(e[x], c, u, x)
    <3>1. CASE x = s
      BY <2>3, <2>4, <3>1
    <3>2. CASE x # s
      BY <2>4, <2>5, <3>2 DEF AreWays
    <3> QED
      BY <3>1, <3>2
  <2>6. AreWays(e, c, u)
    BY <2>4, <2>5 DEF AreWays
  <2>7. \A x \in X : b[x] # << >> => e[x] # << >>
    BY <2>3, <2>4
  <2> QED
    BY <2>3, <2>4, <2>6, <2>7 DEF e
<1> QED
  BY <1>4, <1>5

(* What is below u is u's successor, or the successor of something below u.    *)
LEMMA ReachedBy ==
  ASSUME NEW c, NEW t, Graphed(c, t), NEW u \in Supers(c), NEW x \in Supers(c), <<u, x>> \in c.above
  PROVE  x # u /\ \E p \in Preds(c.dag, x) : p = u \/ <<u, p>> \in c.above
<1> DEFINE X == Supers(c)
           E == c.dag
           A == c.above
           L == {z \in X \X X : \E p \in X : <<p, z[2]>> \in E /\ (p = z[1] \/ <<z[1], p>> \in A)}
<1>0. PICK R : Ordered(R, c)
  BY DEF Graphed
<1>1. /\ AreRuns(X) /\ E \subseteq X \X X /\ A = Closure(X, E)
      /\ E \subseteq A /\ Transitive(A, X) /\ \A s \in X : <<s, s>> \notin A
  BY <1>0, DagEdges, AncestorsStrict DEF Graphed, Condensation
<1> HIDE DEF X, E, A
<1>2. \A y, z \in X : <<y, z>> \in L <=> \E p \in X : <<p, z>> \in E /\ (p = y \/ <<y, p>> \in A)
  OBVIOUS
<1> HIDE DEF L
<1>3. E \subseteq L
  <2> SUFFICES ASSUME NEW y \in X, NEW z \in X, <<y, z>> \in E PROVE <<y, z>> \in L
    BY <1>1
  <2> QED
    BY <1>2
<1>4. Transitive(L, X)
  <2> SUFFICES ASSUME NEW y \in X, NEW z \in X, NEW w \in X, <<y, z>> \in L, <<z, w>> \in L
               PROVE  <<y, w>> \in L
    BY DEF Transitive
  <2>1. <<y, z>> \in A
    <3>1. PICK p \in X : <<p, z>> \in E /\ (p = y \/ <<y, p>> \in A)
      BY <1>2
    <3>2. <<p, z>> \in A
      BY <1>1, <3>1
    <3> QED
      BY <1>1, <3>1, <3>2 DEF Transitive
  <2>2. PICK p \in X : <<p, w>> \in E /\ (p = z \/ <<z, p>> \in A)
    BY <1>2
  <2>3. <<y, p>> \in A
    BY <1>1, <2>1, <2>2 DEF Transitive
  <2> QED
    BY <1>2, <2>2, <2>3
<1>5. A \subseteq L
  BY <1>1, <1>3, <1>4, ClosureLeast
<1>6. u \in X /\ x \in X /\ <<u, x>> \in A
  BY DEF X, A
<1>7. PICK p \in X : <<p, x>> \in E /\ (p = u \/ <<u, p>> \in A)
  BY <1>2, <1>5, <1>6
<1>8. p \in Preds(E, x)
  BY <1>1, <1>7, Neighbours
<1>9. x # u
  BY <1>1, <1>6
<1> QED
  BY <1>7, <1>8, <1>9 DEF E, A

(* _best_path leads from its start to its target, whenever the target is the   *)
(* start or below it: by induction over the rounds, since predecessors come    *)
(* first in the topological order.                                             *)
LEMMA BestPath ==
  ASSUME NEW c, NEW t, Graphed(c, t), NEW u \in Supers(c), NEW x \in Supers(c),
         x = u \/ <<u, x>> \in c.above
  PROVE  IsWay(best_path(c, t.score, u, x), c, u, x)
<1> DEFINE X == Supers(c)
           N == Len(c.topo)
           D == {b \in [X -> Seq(X)] : AreWays(b, c, u)}
           Grow(b, i) == Extend(c, t.score, u, b, c.topo[i])
           start == [s \in X |-> IF s = u THEN <<s>> ELSE << >>]
           Round(F) == [i \in 0..N |->
                          IF i = 0 THEN [s \in Supers(c) |-> IF s = u THEN <<s>> ELSE << >>]
                          ELSE Extend(c, t.score, u, F[i - 1], c.topo[i])]
           ways == CHOOSE F : F = Round(F)
           g == [p \in D \X (1..N) |-> Grow(p[1], p[2])]
           Reach(s) == s = u \/ <<u, s>> \in c.above
<1>1. /\ c.topo \in Seq(X) /\ N \in Nat /\ DOMAIN c.topo = 1..N
      /\ ToSet(c.topo) = X /\ Forwards(c.topo, c.dag)
      /\ \A i \in 1..N : c.topo[i] \in X
  <2>1. PICK L : Ordered(L, c)
    BY DEF Graphed
  <2>2. c.topo \in Seq(Supers(c)) /\ ToSet(c.topo) = Supers(c) /\ Forwards(c.topo, c.dag)
    BY <2>1, Topo DEF Graphed
  <2> HIDE DEF X
  <2> QED
    BY <2>2 DEF X
<1>2. start \in D /\ start[u] # << >>
  <2>1. start \in [X -> Seq(X)]
    OBVIOUS
  <2>2. \A s \in X : start[s] # << >> => IsWay(start[s], c, u, s)
    <3> SUFFICES ASSUME NEW s \in X, start[s] # << >> PROVE IsWay(start[s], c, u, s)
      OBVIOUS
    <3>1. s = u /\ start[s] = <<u>>
      OBVIOUS
    <3>2. <<u>> \in Seq(Supers(c)) /\ Len(<<u>>) = 1 /\ <<u>>[1] = u /\ 1..(1 - 1) = {}
      OBVIOUS
    <3>3. IsWay(<<u>>, c, u, u)
      BY <3>2 DEF IsWay
    <3> QED
      BY <3>1, <3>3
  <2>3. start[u] = <<u>>
    OBVIOUS
  <2> HIDE DEF start
  <2> QED
    BY <2>1, <2>2, <2>3 DEF AreWays
<1>3. ASSUME NEW b \in D, NEW i \in 1..N
      PROVE  /\ Grow(b, i) \in D
             /\ \A s \in X : b[s] # << >> => Grow(b, i)[s] # << >>
             /\ c.topo[i] # u /\ (\E p \in Preds(c.dag, c.topo[i]) : b[p] # << >>)
                  => Grow(b, i)[c.topo[i]] # << >>
  <2> DEFINE s == c.topo[i]
  <2>1. s \in Supers(c) /\ AreWays(b, c, u)
    BY <1>1
  <2> HIDE DEF s
  <2>2. /\ AreWays(Extend(c, t.score, u, b, s), c, u)
        /\ \A y \in Supers(c) : b[y] # << >> => Extend(c, t.score, u, b, s)[y] # << >>
        /\ s # u /\ (\E p \in Preds(c.dag, s) : b[p] # << >>)
              => Extend(c, t.score, u, b, s)[s] # << >>
    BY <2>1, Extended
  <2>3. Extend(c, t.score, u, b, s) \in [X -> Seq(X)]
    BY <2>2 DEF AreWays
  <2> QED
    BY <2>2, <2>3 DEF s
<1>4. ways = Round(ways)
  <2>1. g \in [D \X (1..N) -> D]
    <3> HIDE DEF D, Grow
    <3> QED
      BY <1>3
  <2>2. PICK f : IsRun(f, D, N, start, g)
    <3> HIDE DEF D, N, g, start
    <3> QED
      BY <1>1, <1>2, <2>1, Rounds
  <2>3. f \in [0..N -> D] /\ f[0] = start /\ \A i \in 1..N : f[i] = g[<<f[i - 1], i>>]
    BY <2>2 DEF IsRun
  <2>4. ASSUME NEW i \in 1..N PROVE f[i] = Grow(f[i - 1], i)
    <3>1. i - 1 \in 0..N
      BY <1>1
    <3>2. f[i - 1] \in D
      BY <3>1, <2>3
    <3>3. <<f[i - 1], i>> \in D \X (1..N)
      BY <3>2
    <3>4. f[i] = g[<<f[i - 1], i>>]
      BY <2>3
    <3> HIDE DEF D, N, Grow
    <3> QED
      BY <3>3, <3>4
  <2>5. f = Round(f)
    <3>1. DOMAIN f = 0..N /\ f = [i \in 0..N |-> f[i]]
      BY <2>3
    <3>2. ASSUME NEW i \in 0..N
          PROVE  f[i] = IF i = 0 THEN start ELSE Grow(f[i - 1], i)
      <4>1. i = 0 \/ i \in 1..N
        BY <1>1
      <4> HIDE DEF Grow, start
      <4> QED
        BY <4>1, <2>3, <2>4
    <3> QED
      BY <3>1, <3>2
  <2> HIDE DEF Round
  <2> QED
    BY <2>5
<1>5. ways[0] = start /\ \A i \in 1..N : ways[i] = Grow(ways[i - 1], i)
  <2>1. \A i \in 0..N : Round(ways)[i] = IF i = 0 THEN start ELSE Grow(ways[i - 1], i)
    OBVIOUS
  <2>2. (\A i \in 1..N : i \in 0..N /\ i # 0) /\ 0 \in 0..N
    BY <1>1
  <2> HIDE DEF ways, Round, Grow, start
  <2> QED
    BY <1>4, <2>1, <2>2
<1>6. best_path(c, t.score, u, x) = IF ways[N][x] # << >> THEN ways[N][x] ELSE <<u>>
  BY DEF best_path
<1> HIDE DEF ways, Grow, start
<1> DEFINE T == {k \in Nat : k <= N => /\ ways[k] \in D /\ ways[k][u] # << >>
                                       /\ \A j \in 1..k : Reach(c.topo[j]) => ways[k][c.topo[j]] # << >>}
<1>7. 0 \in T
  BY <1>2, <1>5
<1>8. ASSUME NEW k \in Nat, k \in T PROVE k + 1 \in T
  <2> SUFFICES ASSUME k + 1 <= N
               PROVE  /\ ways[k + 1] \in D /\ ways[k + 1][u] # << >>
                      /\ \A j \in 1..(k + 1) : Reach(c.topo[j]) => ways[k + 1][c.topo[j]] # << >>
    OBVIOUS
  <2> DEFINE s == c.topo[k + 1]
             b == ways[k]
             e == ways[k + 1]
  <2>1. k + 1 \in 1..N /\ (k + 1) - 1 = k /\ k <= N /\ k \in 0..N
    BY <1>1
  <2>2. /\ b \in D /\ b[u] # << >>
        /\ \A j \in 1..k : Reach(c.topo[j]) => b[c.topo[j]] # << >>
    BY <1>8, <2>1
  <2>3. e = Grow(b, k + 1)
    BY <1>5, <2>1
  <2>4. /\ e \in D /\ \A y \in X : b[y] # << >> => e[y] # << >>
        /\ s # u /\ (\E p \in Preds(c.dag, s) : b[p] # << >>) => e[s] # << >>
    BY <1>3, <2>1, <2>2, <2>3
  <2>5. e[u] # << >>
    BY <2>2, <2>4
  <2>6. ASSUME NEW j \in 1..(k + 1), Reach(c.topo[j]) PROVE e[c.topo[j]] # << >>
    <3>1. CASE j \in 1..k
      <4>1. b[c.topo[j]] # << >> /\ c.topo[j] \in X
        BY <1>1, <2>1, <2>2, <2>6, <3>1
      <4> QED
        BY <2>4, <4>1
    <3>2. CASE j = k + 1 /\ s = u
      BY <2>5, <3>2
    <3>3. CASE j = k + 1 /\ s # u
      <4>1. <<u, s>> \in c.above /\ s \in X
        BY <1>1, <2>1, <2>6, <3>3
      <4>2. PICK p \in Preds(c.dag, s) : p = u \/ <<u, p>> \in c.above
        BY <4>1, ReachedBy
      <4>3. PICK h \in 1..((k + 1) - 1) : c.topo[h] = p
        BY <1>1, <2>1, <4>2 DEF Forwards
      <4>4. b[p] # << >>
        BY <2>1, <2>2, <4>2, <4>3
      <4> QED
        BY <2>4, <3>3, <4>2, <4>4
    <3> QED
      BY <3>1, <3>2, <3>3
  <2> QED
    BY <2>4, <2>5, <2>6
<1> HIDE DEF T
<1>9. Nat \subseteq T
  BY <1>7, <1>8, NatSetInduction
<1>10. ways[N] \in D /\ \A j \in 1..N : Reach(c.topo[j]) => ways[N][c.topo[j]] # << >>
  <2>1. N \in T /\ N \in Nat /\ N <= N
    BY <1>1, <1>9
  <2> HIDE DEF N, D, Reach
  <2> QED
    BY <2>1 DEF T
<1>11. ways[N][x] # << >>
  <2>1. PICK j \in 1..N : c.topo[j] = x
    BY <1>1 DEF ToSet
  <2> QED
    BY <1>10, <2>1
<1>12. IsWay(ways[N][x], c, u, x)
  BY <1>10, <1>11 DEF AreWays
<1> QED
  BY <1>6, <1>11, <1>12

(* The worst of some scored runs is one of them.                               *)
LEMMA WorstIn ==
  ASSUME NEW c, NEW t, Graphed(c, t), NEW S, S \subseteq c.nodes, S # {}
  PROVE  WorstScored(S, t.score) \in S
<1> DEFINE V == {t.score[n] : n \in S}
           worst == Min(V)
           W == {n \in S : t.score[n] = worst}
<1>1. S \subseteq Nat \ {0} /\ IsFiniteSet(S)
  <2> DEFINE A == c.nodes
  <2>1. A \subseteq Nat \ {0} /\ IsFiniteSet(A) /\ S \subseteq A
    BY DEF Graphed, Condensation, AreRuns
  <2> HIDE DEF A
  <2> QED
    BY <2>1, FS_Subset
<1>2. V \subseteq {Unknown} \cup 0..100 /\ V # {}
  BY DEF Graphed, IsTrace
<1>3. worst \in V
  <2> HIDE DEF V
  <2>1. IsFiniteSet(V) /\ V \subseteq Int
    BY <1>2, Scores
  <2> QED
    BY <1>2, <2>1, MinIn
<1>4. W \subseteq S /\ W # {} /\ W \subseteq Int
  <2>1. PICK n \in S : t.score[n] = worst
    BY <1>3
  <2>2. n \in W
    BY <2>1
  <2>3. W \subseteq S
    OBVIOUS
  <2> HIDE DEF W
  <2> QED
    BY <1>1, <2>2, <2>3
<1> HIDE DEF W
<1>5. IsFiniteSet(W)
  BY <1>1, <1>4, FS_Subset
<1>6. Min(W) \in W
  BY <1>4, <1>5, MinIn
<1>7. WorstScored(S, t.score) = Min(W)
  BY DEF WorstScored, W
<1> QED
  BY <1>4, <1>6, <1>7

(* The target is one of the super-nodes it is looked for among.                *)
LEMMA Picked ==
  ASSUME NEW c, NEW t, Graphed(c, t), NEW bad \in BOOLEAN,
         NEW S, S \subseteq Supers(c), S # {}
  PROVE  pick_target(c, t.score, bad, S) \in S
<1> DEFINE terms == {x \in terminals(c.nodes, c.graph) : c.exitOf[x] \in S}
           scored(Y) == {n \in Y : t.score[n] # Unknown}
<1>0. /\ AreRuns(c.nodes) /\ AreRuns(Supers(c)) /\ Supers(c) \subseteq c.nodes
  BY DEF Graphed, Condensation
<1>1. terms \subseteq c.nodes /\ \A x \in terms : c.exitOf[x] \in S
  BY DEF terminals
<1>2. S \subseteq c.nodes
  BY <1>0
<1>3. ASSUME NEW Y, Y \subseteq c.nodes, Y # {} PROVE Max(Y) \in Y
  <2> DEFINE A == c.nodes
  <2>1. IsFiniteSet(A) /\ A \subseteq Nat
    BY <1>0 DEF AreRuns
  <2>2. Y \subseteq A
    BY <1>3
  <2> HIDE DEF A
  <2>3. IsFiniteSet(Y)
    BY <2>1, <2>2, FS_Subset
  <2>4. Y \subseteq Int
    BY <2>1, <2>2
  <2> QED
    BY <1>3, <2>3, <2>4, MaxIn
<1>4. pick_target(c, t.score, bad, S) =
        IF bad /\ terms # {} THEN c.exitOf[Max(terms)]
        ELSE IF scored(terms) # {} THEN c.exitOf[WorstScored(scored(terms), t.score)]
        ELSE IF terms # {} THEN c.exitOf[Max(terms)]
        ELSE IF scored(S) # {} THEN WorstScored(scored(S), t.score)
        ELSE Max(S)
  BY DEF pick_target
<1>5. /\ scored(terms) \subseteq terms /\ scored(terms) \subseteq c.nodes
      /\ scored(S) \subseteq S /\ scored(S) \subseteq c.nodes
  BY <1>1, <1>2
<1> HIDE DEF terms, scored
<1>6. terms # {} => c.exitOf[Max(terms)] \in S
  BY <1>1, <1>3
<1>7. scored(terms) # {} => c.exitOf[WorstScored(scored(terms), t.score)] \in S
  BY <1>1, <1>5, WorstIn
<1>8. scored(S) # {} => WorstScored(scored(S), t.score) \in S
  BY <1>5, WorstIn
<1>9. Max(S) \in S
  BY <1>2, <1>3
<1> QED
  BY <1>4, <1>6, <1>7, <1>8, <1>9

(* From every super-node a sink is reached, since the condensation has no      *)
(* cycle.                                                                      *)
LEMMA SinkReached ==
  ASSUME NEW c, NEW t, Graphed(c, t), NEW u \in Supers(c)
  PROVE  sinks(c) \cap (Descendants(c, u) \cup {u}) # {}
<1> DEFINE X == Supers(c)
           E == c.dag
           A == c.above
           Y == Descendants(c, u) \cup {u}
           L == {z \in X \X X : <<z[2], z[1]>> \in A}
<1>0. PICK R : Ordered(R, c)
  BY DEF Graphed
<1>1. /\ AreRuns(X) /\ E \subseteq X \X X /\ A \subseteq X \X X
      /\ E \subseteq A /\ Transitive(A, X) /\ \A s \in X : <<s, s>> \notin A
  BY <1>0, DagEdges, AncestorsStrict DEF Graphed, Condensation
<1>2. \A y, z \in X : <<y, z>> \in L <=> <<z, y>> \in A
  OBVIOUS
<1>3. \A s : s \in Y <=> s = u \/ <<u, s>> \in A
  <2> DEFINE B == c.above
  <2>1. B \subseteq X \X X
    BY <1>1
  <2> HIDE DEF B, X
  <2>2. \A s : s \in Succs(B, u) <=> <<u, s>> \in B
    BY <2>1, Neighbours
  <2> QED
    BY <2>2 DEF Descendants, B
<1>4. u \in X
  OBVIOUS
<1>5. \A s : s \in sinks(c) <=> s \in X /\ Succs(E, s) = {}
  BY DEF sinks
<1> HIDE DEF X, E, A, Y, L
<1>6. Y \subseteq X /\ Y # {}
  <2>1. ASSUME NEW s \in Y PROVE s \in X
    <3>1. s = u \/ <<u, s>> \in A
      BY <1>3
    <3>2. A \subseteq X \X X
      BY <1>1
    <3> QED
      BY <1>4, <3>1, <3>2
  <2>2. u \in Y
    BY <1>3
  <2> QED
    BY <2>1, <2>2
<1>7. IsFiniteSet(Y)
  BY <1>1, <1>6, FS_Subset DEF AreRuns
<1>8. \A y \in Y : <<y, y>> \notin L
  BY <1>1, <1>2, <1>6
<1>9. \A y, z, w \in Y : <<y, z>> \in L /\ <<z, w>> \in L => <<y, w>> \in L
  BY <1>1, <1>2, <1>6 DEF Transitive
<1>10. PICK m \in Y : \A y \in Y : <<y, m>> \notin L
  BY <1>6, <1>7, <1>8, <1>9, Minimal
<1>11. ASSUME NEW s \in Succs(E, m) PROVE FALSE
  <2>1. m \in X /\ s \in X /\ <<m, s>> \in A
    BY <1>1, <1>6, Neighbours
  <2>2. s \in Y
    BY <1>1, <1>3, <1>4, <2>1 DEF Transitive
  <2> QED
    BY <1>2, <1>10, <2>1, <2>2
<1>12. m \in sinks(c)
  BY <1>5, <1>6, <1>11
<1> QED
  BY <1>12 DEF Y

(* The path of a report: from the culprit over edges to where the trace        *)
(* ends.                                                                       *)
LEMMA PathLeads ==
  ASSUME NEW c, NEW t, Graphed(c, t), NEW bad \in BOOLEAN, NEW n \in c.nodes
  PROVE  \E v \in sinks(c) :
            IsWay(propagation_path(c, t.score, bad, n), c, c.exitOf[n], v)
<1> DEFINE u == c.exitOf[n]
           near == Descendants(c, u) \cup {u}
           first == pick_target(c, t.score, bad, sinks(c))
           second == pick_target(c, t.score, bad, sinks(c) \cap near)
           v == IF first \in near THEN first ELSE second
<1>1. u \in Supers(c)
  BY DEF Graphed, Condensation
<1>2. propagation_path(c, t.score, bad, n) = best_path(c, t.score, u, v)
  BY DEF propagation_path
<1>3. sinks(c) \subseteq Supers(c) /\ sinks(c) \cap near # {}
  <2>1. sinks(c) \subseteq Supers(c)
    BY DEF sinks
  <2> HIDE DEF u
  <2> QED
    BY <1>1, <2>1, SinkReached
<1>4. first \in sinks(c)
  <2>1. sinks(c) # {}
    BY <1>3
  <2> QED
    BY <1>3, <2>1, Picked
<1>5. second \in sinks(c) \cap near
  <2> DEFINE S == sinks(c) \cap near
  <2>1. S \subseteq Supers(c) /\ S # {}
    BY <1>3
  <2> HIDE DEF S
  <2>2. pick_target(c, t.score, bad, S) \in S
    BY <2>1, Picked
  <2> QED
    BY <2>2 DEF S
<1> HIDE DEF first, second, u
<1>6. v \in sinks(c) /\ v \in near
  BY <1>4, <1>5
<1> HIDE DEF v
<1>7. v \in Supers(c)
  BY <1>3, <1>6
<1>8. v = u \/ <<u, v>> \in c.above
  <2> DEFINE A == c.above
             X == Supers(c)
  <2>1. PICK R : Ordered(R, c)
    BY DEF Graphed
  <2>2. A \subseteq X \X X
    BY <2>1, AncestorsStrict DEF Graphed
  <2> HIDE DEF A, X
  <2>3. v \in Succs(A, u) => <<u, v>> \in A
    BY <2>2, Neighbours
  <2> QED
    BY <1>6, <2>3 DEF A, Descendants
<1>9. IsWay(best_path(c, t.score, u, v), c, u, v)
  BY <1>1, <1>7, <1>8, BestPath
<1> QED
  BY <1>2, <1>6, <1>9 DEF u
================================================================================
