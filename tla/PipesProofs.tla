----------------------------- MODULE PipesProofs -----------------------------
(***************************************************************************)
(* What the operations on the routing table (src/code/src/routing.c) give, *)
(* for tables of any size: the search below a device finds exactly those   *)
(* whose chain of parents leads to it, the walk lists each of them, and a  *)
(* removal, an insertion or a move keeps a sound table sound.  Then what   *)
(* the proofs about the hubs, the timers, the controller and the network   *)
(* share: the types of what the operators of Pipes and, on the tables of   *)
(* the devices, of RoutingTable give.                                      *)
(*                                                                         *)
(* Below, Walk, Upwards and the library's FlattenSeq are recursive         *)
(* functions.  Each is first shown to exist, as the iteration of a step;   *)
(* what it computes follows from the least counterexample there could be.  *)
(***************************************************************************)
EXTENDS Pipes, FiniteSetTheorems, SequenceTheorems, WellFoundedInduction, TLAPS

\* The order of the naturals is well-founded.
LEMMA NatWellFounded == IsWellFoundedOn({ss \in Nat \X Nat : ss[1] < ss[2]}, Nat)
  BY NatLessThanWellFounded DEF OpToRel

\* A set of naturals that is not empty has a least element: induction, for the proofs
\* below, is the absence of a least counterexample.
LEMMA Least ==
    ASSUME NEW P \in SUBSET Nat, P # {}
    PROVE  \E n \in P : \A m \in P : n <= m
<1> DEFINE R == {ss \in Nat \X Nat : ss[1] < ss[2]}
<1>1. ASSUME NEW x \in P, NEW y \in P, <<y, x>> \notin R
      PROVE  x <= y
  <2>1. <<y, x>> \in Nat \X Nat
    OBVIOUS
  <2>2. ~(y < x)
    BY <1>1, <2>1
  <2> QED
    BY <2>2
<1> HIDE DEF R
<1>2. \E x \in P : \A y \in P : <<y, x>> \notin R
  BY NatWellFounded, WFMin, Zenon DEF R
<1> QED
  BY <1>1, <1>2

\* Induction over the naturals, of a set.
LEMMA Induct ==
    ASSUME NEW P, 0 \in P, \A n \in Nat : n \in P => n + 1 \in P
    PROVE  Nat \subseteq P
<1> SUFFICES ASSUME Nat \ P # {} PROVE FALSE
  OBVIOUS
<1>1. PICK n \in Nat \ P : \A m \in Nat \ P : n <= m
  BY Least
<1>2. n # 0 /\ n - 1 \in Nat /\ n - 1 \in P
  BY <1>1
<1> QED
  BY <1>1, <1>2

\* g is made from base by steps from each value to the next.
IsIteration(g, N, S, base, step) ==
    /\ g \in [0 .. N -> S]
    /\ g[0] = base
    /\ \A n \in 1 .. N : g[n] = step[n][g[n - 1]]

\* A recursive function on 0 .. N that applies a step to the value before exists:
\* what CHOOSE needs before Below, Walk and the others can be unfolded.
LEMMA Iteration ==
    ASSUME NEW N \in Nat, NEW S, NEW base \in S, NEW step \in [1 .. N -> [S -> S]]
    PROVE  \E g : IsIteration(g, N, S, base, step)
<1> DEFINE Ok(g, k) == /\ g \in [0 .. N -> S]
                       /\ g[0] = base
                       /\ \A n \in 1 .. N : n <= k => g[n] = step[n][g[n - 1]]
           P == {k \in Nat : \E g : Ok(g, k)}
<1>1. 0 \in P
  <2>1. Ok([n \in 0 .. N |-> base], 0)
    OBVIOUS
  <2> QED
    BY <2>1
<1>2. ASSUME NEW k \in Nat, k \in P PROVE k + 1 \in P
  <2>1. PICK g : Ok(g, k)
    BY <1>2
  <2>2. CASE k + 1 > N
    <3>1. Ok(g, k + 1)
      BY <2>1, <2>2
    <3> QED
      BY <3>1
  <2>3. CASE k + 1 <= N
    <3> DEFINE h == [g EXCEPT ![k + 1] = step[k + 1][g[k]]]
    <3>1. k + 1 \in 1 .. N /\ k \in 0 .. N /\ g[k] \in S
      BY <2>1, <2>3
    <3>2. step[k + 1][g[k]] \in S
      BY <3>1
    <3>3. h \in [0 .. N -> S]
      BY <2>1, <3>2
    <3>4. \A n \in 0 .. N : n <= k => h[n] = g[n]
      BY <2>1
    <3>5. h[0] = base
      BY <2>1, <3>4
    <3>6. ASSUME NEW n \in 1 .. N, n <= k + 1 PROVE h[n] = step[n][h[n - 1]]
      <4>1. CASE n <= k
        BY <4>1, <2>1, <3>4
      <4>2. CASE n = k + 1
        <5>1. h[n - 1] = g[k]
          BY <4>2, <3>4, <3>1
        <5>2. h[k + 1] = step[k + 1][g[k]]
          BY <2>1, <3>1
        <5> QED
          BY <4>2, <5>1, <5>2
      <4> QED
        BY <4>1, <4>2, <3>6
    <3> HIDE DEF h
    <3>7. Ok(h, k + 1)
      BY <3>3, <3>5, <3>6
    <3> QED
      BY <3>7
  <2> QED
    BY <2>2, <2>3
<1> HIDE DEF P
<1>3. N \in P
  BY <1>1, <1>2, Induct
<1> QED
  BY <1>3 DEF P, IsIteration

\* Induction up to N.
LEMMA InductTo ==
    ASSUME NEW N \in Nat, NEW P, 0 \in P, \A n \in 1 .. N : n - 1 \in P => n \in P
    PROVE  0 .. N \subseteq P
<1> DEFINE Q == {n \in Nat : n <= N => n \in P}
<1>1. 0 \in Q
  OBVIOUS
<1>2. ASSUME NEW n \in Nat, n \in Q PROVE n + 1 \in Q
  <2>1. CASE n + 1 <= N
    <3>1. n + 1 \in 1 .. N /\ (n + 1) - 1 = n
      BY <2>1
    <3> QED
      BY <1>2, <2>1, <3>1
  <2> QED
    BY <2>1
<1> HIDE DEF Q
<1>3. Nat \subseteq Q
  BY <1>1, <1>2, Induct
<1> QED
  BY <1>3 DEF Q

-----------------------------------------------------------------------------
\* The entries whose parent is p or in S.
Under(T, p, S) == {x \in DOMAIN T : T[x].parent \in S \cup {p}}

\* b are the stages in which Below(T, p) is found.
AreStages(b, T, p) ==
    /\ b \in [0 .. Cardinality(DOMAIN T) -> SUBSET DOMAIN T]
    /\ b[0] = {}
    /\ \A n \in 1 .. Cardinality(DOMAIN T) : b[n] = Under(T, p, b[n - 1])
    /\ Below(T, p) = b[Cardinality(DOMAIN T)]

\* The generations below p exist as the recursive function of Below says.
LEMMA BelowStages ==
    ASSUME NEW T, IsFiniteSet(DOMAIN T), NEW p
    PROVE  \E b : AreStages(b, T, p)
<1> DEFINE N == Cardinality(DOMAIN T)
           S == SUBSET DOMAIN T
           E(s) == UNION {Direct(T, d) : d \in s \cup {p}}
           D(h) == h = [n \in 0 .. N |-> IF n = 0 THEN {} ELSE E(h[n - 1])]
           f == CHOOSE h : D(h)
           step == [n \in 1 .. N |-> [s \in S |-> E(s)]]
<1>1. N \in Nat
  BY FS_CardinalityType
<1>2. {} \in S /\ \A s : E(s) \in S
  BY DEF Direct
<1>3. Below(T, p) = f[N]
  BY DEF Below
<1> HIDE DEF N, E, S
<1>4. step \in [1 .. N -> [S -> S]]
  BY <1>2
<1>5. \A n \in 1 .. N, s \in S : step[n][s] = E(s)
  OBVIOUS
<1> HIDE DEF step
<1>6. PICK g : IsIteration(g, N, S, {}, step)
  BY <1>1, <1>2, <1>4, Iteration
<1>7. \A n \in 1 .. N : n - 1 \in 0 .. N
  BY <1>1
<1>8. \A n \in 1 .. N : g[n] = E(g[n - 1])
  BY <1>5, <1>6, <1>7 DEF IsIteration
<1>9. D(g)
  BY <1>1, <1>6, <1>8 DEF IsIteration
<1>10. D(f)
  <2> HIDE DEF D
  <2> QED BY <1>9
<1> HIDE DEF f
<1>11. \A n \in 0 .. N : f[n] = IF n = 0 THEN {} ELSE E(f[n - 1])
  BY <1>10
<1>13. f[0] = {} /\ (\A n \in 1 .. N : f[n] = E(f[n - 1]))
  BY <1>1, <1>11
<1>12. f \in [0 .. N -> S]
  BY <1>2, <1>10
<1>14. \A s : E(s) = Under(T, p, s)
  BY DEF E, Direct, Under
<1>15. AreStages(f, T, p)
  BY <1>3, <1>13, <1>14, <1>12, Zenon DEF N, S, AreStages
<1> QED
  BY <1>15

\* Everything below p and nothing else: Below is closed under "child of" ...
LEMMA BelowIsClosed ==
    ASSUME NEW T, IsFiniteSet(DOMAIN T), NEW p
    PROVE  /\ Below(T, p) \subseteq DOMAIN T
           /\ \A x \in DOMAIN T : T[x].parent \in Below(T, p) \cup {p} => x \in Below(T, p)
<1> DEFINE N == Cardinality(DOMAIN T)
           E(s) == Under(T, p, s)
<1>1. N \in Nat
  BY FS_CardinalityType
<1>2. PICK b : AreStages(b, T, p)
  BY BelowStages
<1>3. /\ b \in [0 .. N -> SUBSET DOMAIN T]
      /\ b[0] = {}
      /\ \A n \in 1 .. N : b[n] = E(b[n - 1])
      /\ Below(T, p) = b[N]
  BY <1>2 DEF AreStages
<1>4. Cardinality(DOMAIN T) = N
  OBVIOUS
<1>5. \A s, t : s \subseteq t => E(s) \subseteq E(t)
  BY DEF Under
<1> HIDE DEF N, E
<1>6. \A n \in 1 .. N : n - 1 \in 0 .. N /\ n \in 0 .. N
  BY <1>1
<1>7. \A n \in 0 .. N : b[n] \subseteq E(b[n])
  <2> DEFINE P == {n \in 0 .. N : b[n] \subseteq E(b[n])}
  <2>1. 0 \in P
    BY <1>1, <1>3
  <2>2. ASSUME NEW n \in 1 .. N, n - 1 \in P PROVE n \in P
    <3>1. n \in 0 .. N /\ b[n - 1] \subseteq E(b[n - 1]) /\ b[n] = E(b[n - 1])
      BY <1>3, <1>6, <2>2
    <3> QED
      BY <1>5, <3>1
  <2> HIDE DEF P
  <2>3. 0 .. N \subseteq P
    BY <1>1, <2>1, <2>2, InductTo
  <2> QED
    BY <2>3 DEF P
<1>8. \A n \in 0 .. N : E(b[n]) = b[n] \/ Cardinality(b[n]) >= n
  <2> DEFINE P == {n \in 0 .. N : E(b[n]) = b[n] \/ Cardinality(b[n]) >= n}
  <2>1. 0 \in P
    <3>1. Cardinality(b[0]) = 0
      BY <1>3, FS_EmptySet
    <3> QED
      BY <1>1, <3>1
  <2>2. ASSUME NEW n \in 1 .. N, n - 1 \in P PROVE n \in P
    <3>1. n \in 0 .. N /\ n - 1 \in 0 .. N /\ b[n] = E(b[n - 1])
      BY <1>3, <1>6
    <3>2. CASE E(b[n - 1]) = b[n - 1]
      BY <3>1, <3>2
    <3>3. CASE E(b[n - 1]) # b[n - 1]
      <4>1. b[n - 1] \subseteq b[n] /\ b[n - 1] # b[n]
        BY <1>7, <3>1, <3>3
      <4>2. b[n] \in SUBSET DOMAIN T
        BY <1>3, <3>1
      <4>3. IsFiniteSet(b[n]) /\ Cardinality(b[n]) \in Nat
        BY <4>2, FS_Subset, FS_CardinalityType
      <4>4. Cardinality(b[n - 1]) < Cardinality(b[n]) /\ Cardinality(b[n - 1]) \in Nat
        <5>1. IsFiniteSet(b[n - 1]) /\ Cardinality(b[n - 1]) <= Cardinality(b[n])
          BY <4>1, <4>3, FS_Subset
        <5>2. Cardinality(b[n - 1]) # Cardinality(b[n])
          BY <4>1, <4>3, FS_Subset
        <5>3. Cardinality(b[n - 1]) \in Nat
          BY <5>1, FS_CardinalityType
        <5> QED
          BY <4>3, <5>1, <5>2, <5>3
      <4>5. Cardinality(b[n - 1]) >= n - 1
        BY <2>2, <3>3
      <4> QED
        BY <3>1, <4>3, <4>4, <4>5
    <3> QED
      BY <3>2, <3>3
  <2> HIDE DEF P
  <2>3. 0 .. N \subseteq P
    BY <1>1, <2>1, <2>2, InductTo
  <2> QED
    BY <2>3 DEF P
<1>9. N \in 0 .. N /\ b[N] \in SUBSET DOMAIN T
  BY <1>1, <1>3
<1>10. E(b[N]) \subseteq DOMAIN T
  BY DEF E, Under
<1>11. E(b[N]) = b[N]
  <2>1. CASE Cardinality(b[N]) >= N
    <3>1. Cardinality(b[N]) <= Cardinality(DOMAIN T)
      BY <1>9, FS_Subset
    <3>2. Cardinality(b[N]) \in Nat
      BY <1>9, FS_Subset, FS_CardinalityType
    <3>3. Cardinality(b[N]) = Cardinality(DOMAIN T)
      BY <1>1, <1>4, <2>1, <3>1, <3>2
    <3>4. b[N] = DOMAIN T
      BY <1>9, <3>3, FS_Subset
    <3> QED
      BY <1>7, <1>9, <1>10, <3>4
  <2> QED
    BY <1>8, <1>9, <2>1
<1> QED
  BY <1>3, <1>9, <1>11 DEF E, Under

\* ... and in every set of that kind.
LEMMA BelowIsLeast ==
    ASSUME NEW T, IsFiniteSet(DOMAIN T), NEW p, NEW S,
           \A x \in DOMAIN T : T[x].parent \in S \cup {p} => x \in S
    PROVE  Below(T, p) \subseteq S
<1> DEFINE N == Cardinality(DOMAIN T)
           E(s) == Under(T, p, s)
<1>1. N \in Nat
  BY FS_CardinalityType
<1>2. PICK b : AreStages(b, T, p)
  BY BelowStages
<1>3. /\ b[0] = {}
      /\ \A n \in 1 .. N : b[n] = E(b[n - 1])
      /\ Below(T, p) = b[N]
  BY <1>2 DEF AreStages
<1>4. \A s : s \subseteq S => E(s) \subseteq S
  BY DEF Under
<1> HIDE DEF N, E
<1> DEFINE P == {n \in 0 .. N : b[n] \subseteq S}
<1>5. 0 \in P
  BY <1>1, <1>3
<1>6. ASSUME NEW n \in 1 .. N, n - 1 \in P PROVE n \in P
  <2>1. n \in 0 .. N /\ b[n - 1] \subseteq S /\ b[n] = E(b[n - 1])
    BY <1>1, <1>3, <1>6
  <2> QED
    BY <1>4, <2>1
<1> HIDE DEF P
<1>7. 0 .. N \subseteq P
  BY <1>1, <1>5, <1>6, InductTo
<1> QED
  BY <1>1, <1>3, <1>7 DEF P

-----------------------------------------------------------------------------
\* The parent of an entry; what is no entry stays where it is.
ParentIn(T, x) == IF x \in DOMAIN T THEN T[x].parent ELSE x

\* u climbs from d as Upwards(T, d) does.
IsClimb(u, T, d) ==
    /\ DOMAIN u = 0 .. Cardinality(DOMAIN T)
    /\ u[0] = d
    /\ \A n \in 1 .. Cardinality(DOMAIN T) : u[n] = ParentIn(T, u[n - 1])
    /\ Upwards(T, d) =
          [n \in {n \in 1 .. Cardinality(DOMAIN T) : u[n - 1] \in DOMAIN T} |-> u[n - 1]]

\* The climb towards the controller exists as the recursive function of Upwards says.
LEMMA UpwardsClimbs ==
    ASSUME NEW T, IsFiniteSet(DOMAIN T), NEW d
    PROVE  \E u : IsClimb(u, T, d)
<1> DEFINE N == Cardinality(DOMAIN T)
           S == {d} \cup {T[x].parent : x \in DOMAIN T}
           E(y) == IF y \in DOMAIN T THEN T[y].parent ELSE y
           D(h) == h = [n \in 0 .. N |-> IF n = 0 THEN d ELSE E(h[n - 1])]
           f == CHOOSE h : D(h)
           step == [n \in 1 .. N |-> [s \in S |-> E(s)]]
<1>1. N \in Nat
  BY FS_CardinalityType
<1>2. d \in S /\ \A s \in S : E(s) \in S
  OBVIOUS
<1>3. Upwards(T, d) =
          [n \in {n \in 1 .. N : f[n - 1] \in DOMAIN T} |-> f[n - 1]]
  BY DEF Upwards
<1>4. \A s : E(s) = ParentIn(T, s)
  BY DEF ParentIn
<1> HIDE DEF N, E, S
<1>5. step \in [1 .. N -> [S -> S]]
  BY <1>2
<1>6. \A n \in 1 .. N, s \in S : step[n][s] = E(s)
  OBVIOUS
<1> HIDE DEF step
<1>7. PICK g : IsIteration(g, N, S, d, step)
  BY <1>1, <1>2, <1>5, Iteration
<1>8. \A n \in 1 .. N : n - 1 \in 0 .. N
  BY <1>1
<1>9. \A n \in 1 .. N : g[n] = E(g[n - 1])
  BY <1>6, <1>7, <1>8 DEF IsIteration
<1>10. D(g)
  BY <1>1, <1>7, <1>9 DEF IsIteration
<1>11. D(f)
  <2> HIDE DEF D
  <2> QED BY <1>10
<1> HIDE DEF f
<1>12. \A n \in 0 .. N : f[n] = IF n = 0 THEN d ELSE E(f[n - 1])
  BY <1>11
<1>13. DOMAIN f = 0 .. N
  BY <1>11
<1>14. f[0] = d /\ \A n \in 1 .. N : f[n] = E(f[n - 1])
  BY <1>1, <1>12
<1>15. IsClimb(f, T, d)
  BY <1>3, <1>4, <1>13, <1>14, Zenon DEF N, IsClimb
<1> QED
  BY <1>15

\* Upwards lists d, if it is an entry, then the parent of each entry listed ...
LEMMA UpwardsListed ==
    ASSUME NEW T, IsFiniteSet(DOMAIN T), NEW d
    PROVE  LET chain == Upwards(T, d)
           IN  /\ DOMAIN chain \subseteq Nat \ {0}
               /\ \A i \in DOMAIN chain : chain[i] \in DOMAIN T
               /\ d \in DOMAIN T <=> 1 \in DOMAIN chain
               /\ 1 \in DOMAIN chain => chain[1] = d
               /\ \A i \in DOMAIN chain :
                     i > 1 => i - 1 \in DOMAIN chain /\ chain[i] = T[chain[i - 1]].parent
<1> DEFINE N == Cardinality(DOMAIN T)
           chain == Upwards(T, d)
<1>1. N \in Nat
  BY FS_CardinalityType
<1>2. PICK u : IsClimb(u, T, d)
  BY UpwardsClimbs
<1>3. /\ u[0] = d
      /\ \A n \in 1 .. N : u[n] = ParentIn(T, u[n - 1])
      /\ chain = [n \in {n \in 1 .. N : u[n - 1] \in DOMAIN T} |-> u[n - 1]]
  BY <1>2 DEF IsClimb
<1>4. d \in DOMAIN T => N # 0
  BY FS_EmptySet
<1> HIDE DEF N, chain
<1>5. DOMAIN chain = {n \in 1 .. N : u[n - 1] \in DOMAIN T}
  BY <1>3
<1>6. \A i \in DOMAIN chain : i \in 1 .. N /\ chain[i] = u[i - 1] /\ chain[i] \in DOMAIN T
  BY <1>3
<1>7. d \in DOMAIN T <=> 1 \in DOMAIN chain
  <2>1. 1 - 1 = 0
    OBVIOUS
  <2>2. d \in DOMAIN T => 1 \in 1 .. N
    BY <1>1, <1>4
  <2> QED
    BY <1>3, <1>5, <2>1, <2>2
<1>8. 1 \in DOMAIN chain => chain[1] = d
  BY <1>3, <1>6
<1>9. ASSUME NEW i \in DOMAIN chain, i > 1
      PROVE  i - 1 \in DOMAIN chain /\ chain[i] = T[chain[i - 1]].parent
  <2>1. i \in 1 .. N /\ i - 1 \in 1 .. N /\ u[i - 1] \in DOMAIN T
    BY <1>1, <1>6, <1>9
  <2>2. u[i - 1] = ParentIn(T, u[(i - 1) - 1])
    BY <1>3, <2>1
  <2>3. u[(i - 1) - 1] \in DOMAIN T
    BY <2>1, <2>2 DEF ParentIn
  <2>4. i - 1 \in DOMAIN chain
    BY <1>5, <2>1, <2>3
  <2> QED
    BY <1>6, <2>2, <2>3, <2>4 DEF ParentIn
<1>10. DOMAIN chain \subseteq Nat \ {0}
  BY <1>1, <1>6
<1> QED
  BY <1>6, <1>7, <1>8, <1>9, <1>10, Zenon DEF chain

\* ... and the parent of the last one listed, if it is an entry, is listed too.
LEMMA UpwardsIsClosed ==
    ASSUME NEW T, IsFiniteSet(DOMAIN T), NEW d, NEW i \in DOMAIN Upwards(T, d),
           T[Upwards(T, d)[i]].parent \in DOMAIN T
    PROVE  LET chain == Upwards(T, d)
           IN  \E j \in DOMAIN chain : j <= i + 1 /\ chain[j] = T[chain[i]].parent
<1> DEFINE N == Cardinality(DOMAIN T)
           chain == Upwards(T, d)
           C == DOMAIN T
<1>1. N \in Nat
  BY FS_CardinalityType
<1>2. PICK u : IsClimb(u, T, d)
  BY UpwardsClimbs
<1>3. /\ \A n \in 1 .. N : u[n] = ParentIn(T, u[n - 1])
      /\ chain = [n \in {n \in 1 .. N : u[n - 1] \in C} |-> u[n - 1]]
  BY <1>2 DEF IsClimb
<1>4. IsFiniteSet(C) /\ Cardinality(C) = N
  OBVIOUS
<1>5. i \in DOMAIN chain /\ T[chain[i]].parent \in C
  OBVIOUS
<1>6. \A x \in C : ParentIn(T, x) = T[x].parent
  BY DEF ParentIn
<1>7. \A x : ParentIn(T, x) \in C => x \in C
  BY DEF ParentIn
<1> HIDE DEF N, chain, C
<1>8. \A j \in 1 .. N : u[j - 1] \in C => j \in DOMAIN chain /\ chain[j] = u[j - 1]
  BY <1>3
<1>9. /\ i \in 1 .. N /\ chain[i] = u[i - 1] /\ u[i - 1] \in C
      /\ u[i] = T[chain[i]].parent /\ u[i] \in C
  BY <1>3, <1>5, <1>6
<1>10. CASE i < N
  <2>1. i + 1 \in 1 .. N /\ (i + 1) - 1 = i
    BY <1>1, <1>9, <1>10
  <2> QED
    BY <1>8, <1>9, <2>1 DEF chain
<1>11. CASE i = N
  <2>1. \A k \in 0 .. N : u[N - k] \in C
    <3> DEFINE P == {k \in 0 .. N : u[N - k] \in C}
    <3>1. 0 \in P
      BY <1>1, <1>9, <1>11
    <3>2. ASSUME NEW k \in 1 .. N, k - 1 \in P PROVE k \in P
      <4>1. N - (k - 1) \in 1 .. N /\ (N - (k - 1)) - 1 = N - k
        BY <1>1
      <4>2. u[N - (k - 1)] = ParentIn(T, u[N - k]) /\ u[N - (k - 1)] \in C
        BY <1>3, <3>2, <4>1
      <4> QED
        BY <1>7, <4>2
    <3> HIDE DEF P
    <3>3. 0 .. N \subseteq P
      BY <1>1, <3>1, <3>2, InductTo
    <3> QED
      BY <3>3 DEF P
  <2>2. \A k \in 0 .. N : u[k] \in C
    <3> TAKE k \in 0 .. N
    <3>1. N - k \in 0 .. N /\ N - (N - k) = k
      BY <1>1
    <3> QED
      BY <2>1, <3>1
  <2> DEFINE g == [k \in 0 .. N |-> u[k]]
  <2>3. g \in [0 .. N -> C]
    BY <2>2
  <2>4. IsFiniteSet(0 .. N) /\ Cardinality(0 .. N) = N + 1
    BY <1>1, FS_Interval
  <2> HIDE DEF g
  <2>5. PICK x \in 0 .. N, y \in 0 .. N : x # y /\ g[x] = g[y]
    <3>1. Cardinality(C) < Cardinality(0 .. N)
      BY <1>1, <1>4, <2>4
    <3> QED
      BY <1>4, <2>3, <2>4, <3>1, FS_PigeonHole, Zenon
  <2>6. PICK a \in 0 .. N, b \in 0 .. N : a < b /\ u[a] = u[b]
    <3>1. u[x] = u[y]
      BY <2>5 DEF g
    <3> QED
      BY <1>1, <2>5, <3>1
  <2>7. \A k \in 0 .. N - b : u[a + k] = u[b + k]
    <3> DEFINE P == {k \in 0 .. N - b : u[a + k] = u[b + k]}
    <3>1. 0 \in P
      BY <1>1, <2>6
    <3>2. ASSUME NEW k \in 1 .. N - b, k - 1 \in P PROVE k \in P
      <4>1. /\ a + k \in 1 .. N /\ (a + k) - 1 = a + (k - 1)
            /\ b + k \in 1 .. N /\ (b + k) - 1 = b + (k - 1)
        BY <1>1, <2>6
      <4>2. u[a + (k - 1)] = u[b + (k - 1)]
        BY <3>2
      <4>3. u[a + k] = u[b + k]
        BY <1>3, <4>1, <4>2
      <4>4. k \in 0 .. N - b
        BY <1>1, <2>6
      <4> QED
        BY <4>3, <4>4
    <3> HIDE DEF P
    <3>3. N - b \in Nat
      BY <1>1, <2>6
    <3>4. 0 .. N - b \subseteq P
      BY <3>1, <3>2, <3>3, InductTo
    <3> QED
      BY <3>4 DEF P
  <2> DEFINE j == a + (N - b) + 1
  <2>8. j \in 1 .. N /\ j - 1 = a + (N - b) /\ j <= i + 1
    BY <1>1, <1>11, <2>6
  <2>9. N - b \in 0 .. N - b /\ b + (N - b) = N
    BY <1>1, <2>6
  <2>10. u[j - 1] = u[N]
    BY <2>7, <2>8, <2>9
  <2> HIDE DEF j
  <2>11. j \in DOMAIN chain /\ chain[j] = u[N]
    BY <1>8, <1>9, <1>11, <2>8, <2>10
  <2> QED
    BY <1>9, <1>11, <2>8, <2>11 DEF chain
<1> QED
  BY <1>1, <1>9, <1>10, <1>11

-----------------------------------------------------------------------------
(* Types.                                                                  *)

\* A table of entries, whatever their types, parents and descriptors.
IsRouting(T) ==
    /\ IsFiniteSet(DOMAIN T)
    /\ T = [x \in DOMAIN T |->
               [type |-> T[x].type, parent |-> T[x].parent, fd |-> T[x].fd]]
    /\ \A x \in DOMAIN T : T[x].type \in Nat

\* CHILD_TYPE of a type is one of four, and IS_EMPTY says that it is none.
LEMMA ChildTypeRanges ==
    ASSUME NEW t \in Nat
    PROVE  ChildType(t) \in 0 .. 3 /\ (IsEmpty(t) <=> ChildType(t) = 0)
  BY DEF ChildType, IsEmpty

\* Writing the child bits of a type changes what CHILD_TYPE reads and keeps it a
\* type.
LEMMA WithChildTypeIs ==
    ASSUME NEW t \in Nat, NEW c \in 0 .. 3
    PROVE  WithChildType(t, c) \in Nat /\ ChildType(WithChildType(t, c)) = c
<1>1. t \div 4 \in Nat
  OBVIOUS
<1> DEFINE q == t \div 4
<1> HIDE DEF q
<1>2. q \in Nat => (4 * q + c) \in Nat /\ (4 * q + c) % 4 = c
  OBVIOUS
<1> QED
  BY <1>1, <1>2 DEF q, WithChildType, ChildType

\* Setting the types of some devices changes neither the devices of the table nor
\* their parents and descriptors.
LEMMA SetTypesIs ==
    ASSUME NEW T, IsRouting(T), NEW ds, NEW c \in 0 .. 3
    PROVE  LET U == SetTypes(T, ds, c)
           IN  /\ IsRouting(U)
               /\ DOMAIN U = DOMAIN T
               /\ \A x \in DOMAIN T :
                     /\ U[x].parent = T[x].parent /\ U[x].fd = T[x].fd
                     /\ x \in ds => U[x].type = WithChildType(T[x].type, c)
                     /\ x \notin ds => U[x].type = T[x].type
<1> DEFINE U == SetTypes(T, ds, c)
<1>1. DOMAIN U = DOMAIN T
  BY DEF SetTypes
<1>2. ASSUME NEW x \in DOMAIN T
      PROVE  /\ U[x] = [type |-> U[x].type, parent |-> T[x].parent, fd |-> T[x].fd]
             /\ x \in ds => U[x].type = WithChildType(T[x].type, c)
             /\ x \notin ds => U[x].type = T[x].type
  <2> DEFINE r == [type |-> T[x].type, parent |-> T[x].parent, fd |-> T[x].fd]
  <2>1. T[x] = r
    BY DEF IsRouting
  <2>2. U[x] = IF x \in ds THEN [r EXCEPT !.type = WithChildType(@, c)] ELSE r
    BY <2>1 DEF SetTypes
  <2>3. [r EXCEPT !.type = WithChildType(@, c)] =
            [type |-> WithChildType(T[x].type, c), parent |-> T[x].parent, fd |-> T[x].fd]
    OBVIOUS
  <2> QED
    BY <2>2, <2>3
<1>3. \A x \in DOMAIN T : U[x].type \in Nat
  BY <1>2, WithChildTypeIs DEF IsRouting
<1>4. U = [x \in DOMAIN U |-> [type |-> U[x].type, parent |-> U[x].parent, fd |-> U[x].fd]]
  <2>1. U = [x \in DOMAIN U |-> U[x]]
    BY DEF SetTypes
  <2>2. \A x \in DOMAIN U : U[x] = [type |-> U[x].type, parent |-> U[x].parent, fd |-> U[x].fd]
    BY <1>1, <1>2
  <2> HIDE DEF U
  <2> QED
    BY <2>1, <2>2
<1> QED
  BY <1>1, <1>2, <1>3, <1>4 DEF IsRouting

\* The type of an entry that has one is the type of what is above it.
TypeFlows(T, x) ==
    T[x].parent \in DOMAIN T /\ ~IsEmpty(T[x].type)
        => ChildType(T[T[x].parent].type) = ChildType(T[x].type)
TypesFlowUp(T) == \A x \in DOMAIN T : TypeFlows(T, x)

\* From d upwards, what has a type and no child with one loses it.
LEMMA UpdateTypeToEmptyIs ==
    ASSUME NEW T, IsRouting(T), NEW d
    PROVE  LET U == UpdateTypeToEmpty(T, d)
           IN  /\ IsRouting(U)
               /\ DOMAIN U = DOMAIN T
               /\ \A x \in DOMAIN T :
                     /\ U[x].parent = T[x].parent /\ U[x].fd = T[x].fd
                     /\ \/ U[x].type = T[x].type
                        \/ /\ U[x].type = WithChildType(T[x].type, 0)
                           /\ x \in Range(Upwards(T, d))
               /\ TypesFlowUp(T) => TypesFlowUp(U)
<1> DEFINE chain == Upwards(T, d)
           Empties(j) == /\ ~IsEmpty(T[chain[j]].type)
                         /\ \A k \in Direct(T, chain[j]) :
                               IsEmpty(T[k].type) \/ (j > 1 /\ k = chain[j - 1])
           E == {chain[i] : i \in {i \in DOMAIN chain : \A j \in 1 .. i : Empties(j)}}
           U == UpdateTypeToEmpty(T, d)
<1>1. U = SetTypes(T, E, 0)
  BY DEF UpdateTypeToEmpty
<1>2. IsFiniteSet(DOMAIN T)
  BY DEF IsRouting
<1>3. /\ DOMAIN chain \subseteq Nat \ {0}
      /\ \A i \in DOMAIN chain :
            /\ chain[i] \in DOMAIN T
            /\ i > 1 => i - 1 \in DOMAIN chain /\ chain[i] = T[chain[i - 1]].parent
  BY <1>2, UpwardsListed
<1>4. E \subseteq Range(chain)
  BY DEF Range
<1>5. \A i \in DOMAIN chain : (\A j \in 1 .. i : Empties(j)) => Empties(i)
  <2> HIDE DEF Empties
  <2> QED BY <1>3
<1>6. \A i \in DOMAIN chain : (\A j \in 1 .. i : Empties(j)) => i = 1 \/ chain[i - 1] \in E
  <2> HIDE DEF Empties, chain
  <2> SUFFICES ASSUME NEW i \in DOMAIN chain, \A j \in 1 .. i : Empties(j), i # 1
               PROVE  chain[i - 1] \in E
    OBVIOUS
  <2>1. i - 1 \in DOMAIN chain /\ \A j \in 1 .. i - 1 : Empties(j)
    BY <1>3
  <2> QED
    BY <2>1
<1>7. \A y \in E : \A x \in Direct(T, y) : IsEmpty(T[x].type) \/ x \in E
  <2> SUFFICES ASSUME NEW i \in DOMAIN chain, \A j \in 1 .. i : Empties(j),
                      NEW x \in Direct(T, chain[i])
               PROVE  IsEmpty(T[x].type) \/ x \in E
    OBVIOUS
  <2>1. Empties(i)
    BY <1>5
  <2>2. i = 1 \/ chain[i - 1] \in E
    BY <1>6
  <2> HIDE DEF E
  <2> QED
    BY <1>3, <2>1, <2>2
<1> HIDE DEF E, U, chain
<1>8. 0 \in 0 .. 3
  OBVIOUS
<1>9. /\ IsRouting(U) /\ DOMAIN U = DOMAIN T
      /\ \A x \in DOMAIN T :
            /\ U[x].parent = T[x].parent /\ U[x].fd = T[x].fd
            /\ x \in E => U[x].type = WithChildType(T[x].type, 0)
            /\ x \notin E => U[x].type = T[x].type
  BY <1>1, <1>8, SetTypesIs
<1>10. \A x \in E : x \in DOMAIN T => IsEmpty(U[x].type)
  BY <1>8, <1>9, WithChildTypeIs, ChildTypeRanges DEF IsRouting
<1>11. ASSUME TypesFlowUp(T), NEW x \in DOMAIN U PROVE TypeFlows(U, x)
  <2> SUFFICES ASSUME U[x].parent \in DOMAIN U, ~IsEmpty(U[x].type)
               PROVE  ChildType(U[U[x].parent].type) = ChildType(U[x].type)
    BY DEF TypeFlows
  <2>1. x \in DOMAIN T /\ x \notin E /\ U[x].type = T[x].type /\ U[x].parent = T[x].parent
    BY <1>9, <1>10
  <2>2. x \in Direct(T, U[x].parent)
    BY <2>1 DEF Direct
  <2>3. U[x].parent \notin E
    BY <1>7, <2>1, <2>2
  <2>4. TypeFlows(T, x)
    BY <1>11, <2>1 DEF TypesFlowUp
  <2> QED
    BY <1>9, <2>1, <2>3, <2>4 DEF TypeFlows
<1> QED
  BY <1>4, <1>9, <1>11, Zenon DEF TypesFlowUp, U, chain

\* Of what is above d, what has no type takes that of d.
LEMMA UpdateTypeToNotEmptyIs ==
    ASSUME NEW T, IsRouting(T), NEW d \in DOMAIN T
    PROVE  LET U == UpdateTypeToNotEmpty(T, d)
               above == Range(Upwards(T, T[d].parent))
           IN  /\ IsRouting(U)
               /\ DOMAIN U = DOMAIN T
               /\ \A x \in DOMAIN T :
                     /\ U[x].parent = T[x].parent /\ U[x].fd = T[x].fd
                     /\ \/ U[x].type = T[x].type
                        \/ /\ U[x].type = WithChildType(T[x].type, ChildType(T[d].type))
                           /\ x \in above /\ IsEmpty(T[x].type)
               /\ (/\ \A x \in DOMAIN T \ {d} : TypeFlows(T, x)
                   /\ \A x \in above :
                         \/ IsEmpty(T[d].type) \/ IsEmpty(T[x].type)
                         \/ ChildType(T[x].type) = ChildType(T[d].type))
                  => TypesFlowUp(U)
<1> DEFINE chain == Upwards(T, T[d].parent)
           c == ChildType(T[d].type)
           Vacant(j) == IsEmpty(T[chain[j]].type)
           E == {chain[i] : i \in {i \in DOMAIN chain : \A j \in 1 .. i : Vacant(j)}}
           U == UpdateTypeToNotEmpty(T, d)
<1>1. U = IF IsEmpty(T[d].type) THEN T ELSE SetTypes(T, E, c)
  BY DEF UpdateTypeToNotEmpty
<1>2. IsFiniteSet(DOMAIN T) /\ \A x \in DOMAIN T : T[x].type \in Nat
  BY DEF IsRouting
<1>3. /\ DOMAIN chain \subseteq Nat \ {0}
      /\ \A i \in DOMAIN chain :
            /\ chain[i] \in DOMAIN T
            /\ i > 1 => i - 1 \in DOMAIN chain /\ chain[i] = T[chain[i - 1]].parent
      /\ T[d].parent \in DOMAIN T <=> 1 \in DOMAIN chain
      /\ 1 \in DOMAIN chain => chain[1] = T[d].parent
  BY <1>2, UpwardsListed
<1>4. \A i \in DOMAIN chain : T[chain[i]].parent \in DOMAIN T =>
            \E j \in DOMAIN chain : j <= i + 1 /\ chain[j] = T[chain[i]].parent
  BY <1>2, UpwardsIsClosed
<1>5. c \in 0 .. 3
  BY <1>2, ChildTypeRanges
<1>6. CASE IsEmpty(T[d].type)
  <2>1. U = T
    BY <1>1, <1>6
  <2>2. TypeFlows(T, d)
    BY <1>6 DEF TypeFlows
  <2> QED
    BY <2>1, <2>2, Zenon DEF TypesFlowUp
<1>7. CASE ~IsEmpty(T[d].type)
  <2>1. U = SetTypes(T, E, c)
    BY <1>1, <1>7
  <2>2. E \subseteq Range(chain) /\ \A x \in Range(chain) : x \in DOMAIN T
    BY <1>3 DEF Range
  <2>3. \A x \in E : IsEmpty(T[x].type)
    BY <1>3
  \* What is above an entry that takes the type takes it too, if it has none.
  <2>4. \A x \in E : T[x].parent \in DOMAIN T =>
            T[x].parent \in Range(chain) /\ (IsEmpty(T[T[x].parent].type) => T[x].parent \in E)
    <3> SUFFICES ASSUME NEW i \in DOMAIN chain, \A j \in 1 .. i : Vacant(j),
                        T[chain[i]].parent \in DOMAIN T
                 PROVE  /\ T[chain[i]].parent \in Range(chain)
                        /\ IsEmpty(T[T[chain[i]].parent].type) => T[chain[i]].parent \in E
      OBVIOUS
    <3>1. PICK k \in DOMAIN chain : k <= i + 1 /\ chain[k] = T[chain[i]].parent
      BY <1>4
    <3>2. T[chain[i]].parent \in Range(chain)
      BY <3>1 DEF Range
    <3>3. ASSUME Vacant(k) PROVE \A j \in 1 .. k : Vacant(j)
      <4> HIDE DEF Vacant
      <4> QED BY <1>3, <3>1, <3>3
    <3>4. IsEmpty(T[T[chain[i]].parent].type) => chain[k] \in E
      BY <3>1, <3>3
    <3> QED
      BY <3>1, <3>2, <3>4
  <2>5. T[d].parent \in DOMAIN T =>
            T[d].parent \in Range(chain) /\ (IsEmpty(T[T[d].parent].type) => T[d].parent \in E)
    <3> SUFFICES ASSUME 1 \in DOMAIN chain
                 PROVE  chain[1] \in Range(chain) /\ (IsEmpty(T[chain[1]].type) => chain[1] \in E)
      BY <1>3
    <3>1. chain[1] \in Range(chain)
      BY DEF Range
    <3>2. ASSUME Vacant(1) PROVE \A j \in 1 .. 1 : Vacant(j)
      <4> HIDE DEF Vacant
      <4> QED BY <3>2
    <3> QED
      BY <3>1, <3>2
  <2> HIDE DEF E, U, chain, c
  <2>6. /\ IsRouting(U) /\ DOMAIN U = DOMAIN T
        /\ \A x \in DOMAIN T :
              /\ U[x].parent = T[x].parent /\ U[x].fd = T[x].fd
              /\ x \in E => U[x].type = WithChildType(T[x].type, c)
              /\ x \notin E => U[x].type = T[x].type
    BY <1>5, <2>1, SetTypesIs
  <2>7. \A x \in E : x \in DOMAIN T => ChildType(U[x].type) = c
    BY <1>2, <1>5, <2>6, WithChildTypeIs
  <2>8. ASSUME \A x \in DOMAIN T \ {d} : TypeFlows(T, x),
               \A x \in Range(chain) : IsEmpty(T[x].type) \/ ChildType(T[x].type) = c,
               NEW x \in DOMAIN U
        PROVE  TypeFlows(U, x)
    <3> SUFFICES ASSUME U[x].parent \in DOMAIN U, ~IsEmpty(U[x].type)
                 PROVE  ChildType(U[U[x].parent].type) = ChildType(U[x].type)
      BY DEF TypeFlows
    <3> DEFINE y == T[x].parent
    <3>1. x \in DOMAIN T /\ y \in DOMAIN T /\ U[x].parent = y
      BY <2>6
    \* What is above x takes the type, or has it already.
    <3>2. y \in Range(chain) /\ (IsEmpty(T[y].type) => y \in E) => ChildType(U[y].type) = c
      BY <2>6, <2>7, <2>8, <3>1
    <3>3. CASE x \in E
      BY <2>4, <2>7, <3>1, <3>2, <3>3
    <3>4. CASE x = d
      BY <1>7, <2>3, <2>5, <2>6, <3>1, <3>2, <3>4 DEF c
    <3>5. CASE x # d /\ x \notin E
      <4>1. TypeFlows(T, x) /\ U[x].type = T[x].type
        BY <2>6, <2>8, <3>1, <3>5
      <4>2. ChildType(T[y].type) = ChildType(T[x].type) /\ ~IsEmpty(T[x].type)
        BY <3>1, <4>1 DEF TypeFlows
      <4>3. ~IsEmpty(T[y].type)
        BY <1>2, <3>1, <4>2, ChildTypeRanges
      <4> QED
        BY <2>3, <2>6, <3>1, <4>1, <4>2, <4>3
    <3> QED
      BY <3>3, <3>4, <3>5
  <2>9. (/\ \A x \in DOMAIN T \ {d} : TypeFlows(T, x)
         /\ \A x \in Range(chain) :
               \/ IsEmpty(T[d].type) \/ IsEmpty(T[x].type)
               \/ ChildType(T[x].type) = ChildType(T[d].type))
        => TypesFlowUp(U)
    BY <1>7, <2>8 DEF c, TypesFlowUp
  <2>10. \A x \in DOMAIN T :
            /\ U[x].parent = T[x].parent /\ U[x].fd = T[x].fd
            /\ \/ U[x].type = T[x].type
               \/ /\ U[x].type = WithChildType(T[x].type, c)
                  /\ x \in Range(chain) /\ IsEmpty(T[x].type)
    BY <2>2, <2>3, <2>6
  <2> QED
    BY <2>6, <2>9, <2>10, Zenon DEF U, chain, c
<1> QED
  BY <1>6, <1>7

-----------------------------------------------------------------------------
(* Sequences of ids.                                                       *)

Rank(S, x) == Cardinality({y \in S : y <= x})

\* Rank numbers a finite set of ids from 1 in increasing order.
LEMMA RankIs ==
    ASSUME NEW S \in SUBSET Nat, IsFiniteSet(S)
    PROVE  /\ \A x \in S : Rank(S, x) \in 1 .. Cardinality(S)
           /\ \A x, y \in S : x < y => Rank(S, x) < Rank(S, y)
           /\ \A n \in 1 .. Cardinality(S) : \E x \in S : Rank(S, x) = n
<1> DEFINE R(x) == {y \in S : y <= x}
           N == Cardinality(S)
<1>1. N \in Nat
  BY FS_CardinalityType
<1>2. \A x \in S : IsFiniteSet(R(x)) /\ Cardinality(R(x)) \in Nat /\ Cardinality(R(x)) <= N
  BY FS_Subset, FS_CardinalityType
<1>3. \A x \in S : Cardinality(R(x)) # 0
  <2> TAKE x \in S
  <2>1. x \in R(x)
    OBVIOUS
  <2> QED
    BY <1>2, <2>1, FS_EmptySet
<1>4. \A x \in S : Cardinality(R(x)) \in 1 .. N
  BY <1>1, <1>2, <1>3
<1>5. \A x, y \in S : x < y => Cardinality(R(x)) < Cardinality(R(y))
  <2> SUFFICES ASSUME NEW x \in S, NEW y \in S, x < y
               PROVE  Cardinality(R(x)) < Cardinality(R(y))
    OBVIOUS
  <2>1. R(x) \in SUBSET R(y) /\ y \in R(y) /\ y \notin R(x)
    <3>1. x \in Nat /\ y \in Nat /\ S \subseteq Nat
      OBVIOUS
    <3>2. \A z \in S : z <= x => z <= y
      BY <3>1
    <3>3. R(x) \subseteq R(y)
      BY <3>2
    <3>4. y <= y /\ ~(y <= x)
      BY <3>1
    <3> QED
      BY <3>3, <3>4
  <2>2. R(x) # R(y)
    BY <2>1
  <2> HIDE DEF R
  <2>3. Cardinality(R(x)) <= Cardinality(R(y)) /\ Cardinality(R(x)) # Cardinality(R(y))
    BY <1>2, <2>1, <2>2, FS_Subset
  <2> QED
    BY <1>2, <2>3
<1> DEFINE rank == [x \in S |-> Cardinality(R(x))]
<1>6. rank \in Injection(S, 1 .. N)
  <2>1. rank \in [S -> 1 .. N]
    BY <1>4
  <2>2. ASSUME NEW x \in S, NEW y \in S, x # y PROVE rank[x] # rank[y]
    <3> HIDE DEF R
    <3>1. x < y \/ y < x
      BY <2>2
    <3>2. rank[x] = Cardinality(R(x)) /\ rank[y] = Cardinality(R(y))
      OBVIOUS
    <3> QED
      BY <1>2, <1>5, <3>1, <3>2
  <2> HIDE DEF rank
  <2> QED
    BY <2>1, <2>2 DEF Injection, IsInjective
<1>7. IsFiniteSet(1 .. N) /\ Cardinality(1 .. N) = N
  BY <1>1, FS_Interval
<1>8. rank \in Surjection(S, 1 .. N)
  <2> HIDE DEF rank
  <2> QED BY <1>6, <1>7, FS_Injection
<1>9. \A n \in 1 .. N : \E x \in S : rank[x] = n
  <2> HIDE DEF rank
  <2> QED BY <1>8 DEF Surjection
<1> QED
  BY <1>4, <1>5, <1>9 DEF Rank

\* InIdOrder lists S, each member once, in increasing order.
LEMMA InIdOrderIs ==
    ASSUME NEW S \in SUBSET Nat, IsFiniteSet(S)
    PROVE  LET s == InIdOrder(S)
           IN  /\ s \in [1 .. Cardinality(S) -> S]
               /\ Cardinality(S) \in Nat
               /\ s \in Seq(S) /\ Len(s) = Cardinality(S)
               /\ \A i, j \in DOMAIN s : i < j => s[i] < s[j]
               /\ \A i, j \in DOMAIN s : i # j => s[i] # s[j]
               /\ \A x \in S : \E i \in DOMAIN s : s[i] = x
<1> DEFINE N == Cardinality(S)
           s == InIdOrder(S)
<1>1. N \in Nat
  BY FS_CardinalityType
<1>2. s = [n \in 1 .. N |-> CHOOSE x \in S : Rank(S, x) = n]
  BY DEF InIdOrder, Rank
<1> HIDE DEF s, N
<1>3. \A n \in 1 .. N : s[n] \in S /\ Rank(S, s[n]) = n
  <2> TAKE n \in 1 .. N
  <2>1. \E x \in S : Rank(S, x) = n
    BY RankIs DEF N
  <2>2. s[n] = CHOOSE x \in S : Rank(S, x) = n
    BY <1>2
  <2> QED
    BY <2>1, <2>2
<1>4. s \in [1 .. N -> S]
  BY <1>2, <1>3
<1>5. s \in Seq(S) /\ Len(s) = N
  BY <1>1, <1>4
<1>6. \A x \in S : Rank(S, x) \in 1 .. N
  BY RankIs DEF N
<1>7. \A x, y \in S : x < y => Rank(S, x) < Rank(S, y)
  BY RankIs
<1>8. ASSUME NEW i \in 1 .. N, NEW j \in 1 .. N, i < j PROVE s[i] < s[j]
  <2>1. s[i] \in Nat /\ s[j] \in Nat /\ s[i] \in S /\ s[j] \in S
    BY <1>3
  <2>2. s[i] # s[j]
    BY <1>3, <1>8
  <2>3. ~(s[j] < s[i])
    <3>1. s[j] < s[i] => j < i
      BY <1>3, <1>7, <2>1
    <3> QED
      BY <1>1, <1>8, <3>1
  <2> QED
    BY <2>1, <2>2, <2>3
<1>9. \A i, j \in 1 .. N : i # j => s[i] # s[j]
  BY <1>3
<1>10. ASSUME NEW x \in S PROVE \E i \in 1 .. N : s[i] = x
  <2>1. Rank(S, x) \in 1 .. N /\ s[Rank(S, x)] \in S
    BY <1>3, <1>6
  <2>2. Rank(S, s[Rank(S, x)]) = Rank(S, x)
    BY <1>3, <2>1
  <2>3. s[Rank(S, x)] = x
    <3> DEFINE y == s[Rank(S, x)]
    <3>1. y \in S /\ Rank(S, y) = Rank(S, x)
      BY <2>1, <2>2
    <3> HIDE DEF y
    <3>2. Rank(S, y) \in Nat /\ Rank(S, x) \in Nat
      BY <1>1, <1>6, <3>1
    <3>3. ~(x < y) /\ ~(y < x)
      BY <1>7, <3>1, <3>2
    <3>4. x \in Nat /\ y \in Nat
      BY <3>1
    <3>5. y = x
      BY <3>3, <3>4
    <3> QED
      BY <3>5 DEF y
  <2> QED
    BY <2>1, <2>3
<1> QED
  BY <1>1, <1>4, <1>5, <1>8, <1>9, <1>10 DEF N, s

\* f flattens seqs as FlattenSeq(seqs) does.
IsFlattening(f, seqs, S) ==
    /\ f \in [1 .. Len(seqs) -> Seq(S)]
    /\ f[1] = seqs[1]
    /\ \A i \in 2 .. Len(seqs) : f[i] = f[i - 1] \o seqs[i]
    /\ FlattenSeq(seqs) = f[Len(seqs)]

\* The concatenation of some sequences exists as the recursive function of the
\* library says.
LEMMA FlatteningIs ==
    ASSUME NEW S, NEW seqs \in Seq(Seq(S)), Len(seqs) # 0
    PROVE  \E f : IsFlattening(f, seqs, S)
<1> DEFINE L == Len(seqs)
           D(h) == h = [i \in 1 .. L |-> IF i = 1 THEN seqs[i] ELSE h[i - 1] \o seqs[i]]
           f == CHOOSE h : D(h)
           step == [n \in 1 .. L - 1 |-> [s \in Seq(S) |-> s \o seqs[n + 1]]]
<1>1. L \in Nat \ {0} /\ L - 1 \in Nat /\ \A i \in 1 .. L : seqs[i] \in Seq(S)
  OBVIOUS
<1>2. FlattenSeq(seqs) = f[L]
  BY DEF FlattenSeq
<1> HIDE DEF L
<1>3. \A n \in 1 .. L - 1 : \A s \in Seq(S) : s \o seqs[n + 1] \in Seq(S)
  BY <1>1, ConcatProperties
<1>4. step \in [1 .. L - 1 -> [Seq(S) -> Seq(S)]]
  BY <1>3
<1>5. \A n \in 1 .. L - 1 : \A s \in Seq(S) : step[n][s] = s \o seqs[n + 1]
  OBVIOUS
<1> HIDE DEF step
<1>6. PICK g : IsIteration(g, L - 1, Seq(S), seqs[1], step)
  BY <1>1, <1>4, Iteration
<1>7. /\ g \in [0 .. L - 1 -> Seq(S)] /\ g[0] = seqs[1]
      /\ \A n \in 1 .. L - 1 : g[n] = step[n][g[n - 1]]
  BY <1>6 DEF IsIteration
<1> DEFINE h == [i \in 1 .. L |-> g[i - 1]]
<1>8. D(h)
  <2>1. ASSUME NEW i \in 1 .. L
        PROVE  h[i] = IF i = 1 THEN seqs[i] ELSE h[i - 1] \o seqs[i]
    <3>1. CASE i = 1
      BY <1>1, <1>7, <3>1
    <3>2. CASE i # 1
      <4>1. i - 1 \in 1 .. L - 1 /\ i - 1 \in 1 .. L /\ (i - 1) - 1 \in 0 .. L - 1
            /\ (i - 1) + 1 = i
        BY <1>1, <3>2
      <4>2. g[i - 1] = g[(i - 1) - 1] \o seqs[i]
        BY <1>5, <1>7, <4>1
      <4> QED
        BY <3>2, <4>1, <4>2
    <3> QED
      BY <3>1, <3>2
  <2> QED
    BY <2>1
<1>9. D(f)
  <2> HIDE DEF D, h
  <2> QED BY <1>8
<1> HIDE DEF f
<1>10. \A i \in 1 .. L : f[i] = IF i = 1 THEN seqs[i] ELSE f[i - 1] \o seqs[i]
  BY <1>9
<1> HIDE DEF D, h
<1>11. f[1] = seqs[1] /\ \A i \in 2 .. L : f[i] = f[i - 1] \o seqs[i]
  <2>1. 1 \in 1 .. L /\ \A i \in 2 .. L : i \in 1 .. L /\ i # 1
    BY <1>1
  <2> QED
    BY <1>10, <2>1
<1>12. \A i \in 1 .. L : f[i] \in Seq(S)
  <2> DEFINE P == {n \in 0 .. L - 1 : f[n + 1] \in Seq(S)}
  <2>1. 0 \in P
    BY <1>1, <1>11
  <2>2. ASSUME NEW n \in 1 .. L - 1, n - 1 \in P PROVE n \in P
    <3>1. n + 1 \in 2 .. L /\ (n + 1) - 1 = n /\ n + 1 \in 1 .. L /\ (n - 1) + 1 = n
      BY <1>1
    <3>2. f[n] \in Seq(S) /\ seqs[n + 1] \in Seq(S) /\ f[n + 1] = f[n] \o seqs[n + 1]
      BY <1>1, <1>11, <2>2, <3>1
    <3>3. f[n + 1] \in Seq(S)
      BY <3>2, ConcatProperties
    <3> QED
      BY <1>1, <3>3
  <2> HIDE DEF P
  <2>3. 0 .. L - 1 \subseteq P
    BY <1>1, <2>1, <2>2, InductTo
  <2> TAKE i \in 1 .. L
  <2>4. i - 1 \in 0 .. L - 1 /\ (i - 1) + 1 = i
    BY <1>1
  <2> QED
    BY <2>3, <2>4 DEF P
<1>13. f \in [1 .. L -> Seq(S)]
  BY <1>9, <1>12 DEF D
<1>14. IsFlattening(f, seqs, S)
  BY <1>2, <1>11, <1>13 DEF L, IsFlattening
<1> QED
  BY <1>14

\* FlattenSeq is a sequence of the elements of its sequences.
LEMMA FlattenSeqIs ==
    ASSUME NEW S, NEW seqs \in Seq(Seq(S))
    PROVE  /\ FlattenSeq(seqs) \in Seq(S)
           /\ Range(FlattenSeq(seqs)) = UNION {Range(seqs[i]) : i \in DOMAIN seqs}
<1>1. CASE Len(seqs) = 0
  <2>1. seqs = <<>> /\ FlattenSeq(seqs) = seqs
    BY <1>1, EmptySeq DEF FlattenSeq
  <2>2. DOMAIN seqs = {} /\ Range(seqs) = {}
    BY <2>1 DEF Range
  <2>3. seqs \in Seq(S)
    BY <2>1
  <2> QED
    BY <2>1, <2>2, <2>3
<1>2. CASE Len(seqs) # 0
  <2> DEFINE L == Len(seqs)
  <2>1. PICK f : IsFlattening(f, seqs, S)
    BY <1>2, FlatteningIs
  <2>2. /\ \A i \in 1 .. L : f[i] \in Seq(S)
        /\ f[1] = seqs[1]
        /\ \A i \in 2 .. L : f[i] = f[i - 1] \o seqs[i]
        /\ FlattenSeq(seqs) = f[L]
    BY <2>1 DEF IsFlattening
  <2>3. L \in Nat \ {0} /\ L - 1 \in Nat /\ DOMAIN seqs = 1 .. L /\ \A i \in 1 .. L : seqs[i] \in Seq(S)
    BY <1>2
  <2> HIDE DEF L
  <2> DEFINE U == [k \in 1 .. L |-> UNION {Range(seqs[i]) : i \in 1 .. k}]
  <2>4. \A i \in 1 .. L : Range(f[i]) = U[i]
    <3> DEFINE R == [i \in 1 .. L |-> Range(f[i])]
               P == {n \in 0 .. L - 1 : R[n + 1] = U[n + 1]}
    <3>1. R[1] = U[1]
      <4>1. 1 \in 1 .. L /\ 1 .. 1 = {1}
        BY <2>3
      <4>2. R[1] = Range(f[1])
        BY <4>1
      <4>3. U[1] = Range(seqs[1])
        BY <4>1
      <4> QED
        BY <2>2, <4>2, <4>3
    <3>2. ASSUME NEW n \in 1 .. L - 1, R[n] = U[n] PROVE R[n + 1] = U[n + 1]
      <4>1. n + 1 \in 2 .. L /\ (n + 1) - 1 = n /\ n + 1 \in 1 .. L /\ n \in 1 .. L
        BY <2>3
      <4>2. f[n] \in Seq(S) /\ seqs[n + 1] \in Seq(S) /\ f[n + 1] = f[n] \o seqs[n + 1]
        BY <2>2, <2>3, <4>1
      <4>3. Range(f[n + 1]) = Range(f[n]) \cup Range(seqs[n + 1])
        BY <4>2, RangeConcatenation
      <4>4. Range(f[n]) = U[n]
        BY <3>2, <4>1
      <4>5. U[n + 1] = U[n] \cup Range(seqs[n + 1])
        BY <4>1
      <4> HIDE DEF U
      <4> QED
        BY <4>1, <4>3, <4>4, <4>5
    <3> HIDE DEF R, U
    <3>3. 0 \in P
      BY <2>3, <3>1
    <3>4. ASSUME NEW n \in 1 .. L - 1, n - 1 \in P PROVE n \in P
      <4>1. (n - 1) + 1 = n /\ n \in 0 .. L - 1
        BY <2>3
      <4> QED
        BY <3>2, <3>4, <4>1
    <3> HIDE DEF P
    <3>5. 0 .. L - 1 \subseteq P
      BY <2>3, <3>3, <3>4, InductTo
    <3> TAKE i \in 1 .. L
    <3>6. i - 1 \in 0 .. L - 1 /\ (i - 1) + 1 = i
      BY <2>3
    <3> QED
      BY <3>5, <3>6 DEF P, R
  <2>5. L \in 1 .. L
    BY <2>3
  <2>6. U[L] = UNION {Range(seqs[i]) : i \in 1 .. L}
    BY <2>5
  <2> HIDE DEF U
  <2>7. Range(f[L]) = U[L] /\ f[L] \in Seq(S)
    BY <2>2, <2>4, <2>5
  <2> QED
    BY <2>2, <2>3, <2>6, <2>7
<1> QED
  BY <1>1, <1>2

-----------------------------------------------------------------------------
(* The walk of a table.                                                    *)

\* What Walk lists below an entry: its children C, and what walk has below each.
Listed(C, walk) ==
    LET children == InIdOrder(C)
    IN  FlattenSeq([i \in DOMAIN children |-> <<children[i]>> \o walk[children[i]]])

\* A level of the walk lists the children and what the walk of each of them lists.
LEMMA ListedIs ==
    ASSUME NEW S, NEW C \in SUBSET S, C \subseteq Nat, IsFiniteSet(C),
           NEW walk, \A c \in C : walk[c] \in Seq(S)
    PROVE  /\ Listed(C, walk) \in Seq(S)
           /\ Range(Listed(C, walk)) = C \cup UNION {Range(walk[c]) : c \in C}
<1> DEFINE children == InIdOrder(C)
           L == Cardinality(C)
           seqs == [i \in DOMAIN children |-> <<children[i]>> \o walk[children[i]]]
<1>1. /\ children \in [1 .. L -> C] /\ L \in Nat
      /\ \A x \in C : \E i \in DOMAIN children : children[i] = x
  BY InIdOrderIs
<1> HIDE DEF children, L
<1>2. DOMAIN children = 1 .. L /\ \A i \in 1 .. L : children[i] \in C
  BY <1>1
<1>3. DOMAIN seqs = 1 .. L /\ \A i \in 1 .. L : seqs[i] = <<children[i]>> \o walk[children[i]]
  BY <1>2
<1>4. seqs = [i \in 1 .. L |-> seqs[i]]
  BY <1>2
<1> HIDE DEF seqs
<1>5. ASSUME NEW i \in 1 .. L
      PROVE  /\ seqs[i] \in Seq(S)
             /\ Range(seqs[i]) = {children[i]} \cup Range(walk[children[i]])
  <2> DEFINE c == children[i]
  <2>1. c \in C /\ c \in S /\ walk[c] \in Seq(S)
    BY <1>2
  <2>2. seqs[i] = <<c>> \o walk[c]
    BY <1>3
  <2> HIDE DEF c
  <2>3. <<c>> \in Seq(S)
    BY <2>1
  <2>4. Range(<<c>>) = {c}
    BY DEF Range
  <2>5. Range(<<c>> \o walk[c]) = Range(<<c>>) \cup Range(walk[c])
    BY <2>1, <2>3, RangeConcatenation
  <2>6. <<c>> \o walk[c] \in Seq(S)
    BY <2>1, <2>3, ConcatProperties
  <2> QED
    BY <2>2, <2>4, <2>5, <2>6 DEF c
<1>6. seqs \in [1 .. L -> Seq(S)]
  BY <1>4, <1>5
<1>7. seqs \in Seq(Seq(S))
  BY <1>1, <1>6
<1>8. /\ FlattenSeq(seqs) \in Seq(S)
      /\ Range(FlattenSeq(seqs)) = UNION {Range(seqs[i]) : i \in DOMAIN seqs}
  BY <1>7, FlattenSeqIs
<1>9. \A c \in C : \E i \in 1 .. L : children[i] = c
  BY <1>1, <1>2
<1>10. UNION {Range(seqs[i]) : i \in 1 .. L} = C \cup UNION {Range(walk[c]) : c \in C}
  <2>1. ASSUME NEW x, NEW i \in 1 .. L, x \in Range(seqs[i])
        PROVE  x \in C \cup UNION {Range(walk[c]) : c \in C}
    BY <1>2, <1>5, <2>1
  <2>2. ASSUME NEW c \in C PROVE \E i \in 1 .. L : c \in Range(seqs[i])
    BY <1>5, <1>9
  <2>3. ASSUME NEW c \in C, NEW x \in Range(walk[c])
        PROVE  \E i \in 1 .. L : x \in Range(seqs[i])
    BY <1>5, <1>9
  <2> QED
    BY <2>1, <2>2, <2>3
<1>11. Listed(C, walk) = FlattenSeq(seqs)
  BY DEF seqs, children, Listed
<1> QED
  BY <1>3, <1>8, <1>10, <1>11

\* w are the stages in which Walk(T, p) is found.
IsWalk(w, T, p) ==
    /\ w \in [0 .. Cardinality(DOMAIN T) -> [DOMAIN T \cup {p} -> Seq(DOMAIN T)]]
    /\ \A n \in 1 .. Cardinality(DOMAIN T) : \A q \in DOMAIN T \cup {p} :
          /\ w[n][q] = Listed(Direct(T, q), w[n - 1])
          /\ Range(w[n][q]) = Direct(T, q) \cup UNION {Range(w[n - 1][c]) : c \in Direct(T, q)}
    /\ \A q \in DOMAIN T \cup {p} : w[0][q] = <<>>
    /\ Walk(T, p) = w[Cardinality(DOMAIN T)][p]

\* The walks below the devices exist as the recursive function of Walk says.
LEMMA WalkStages ==
    ASSUME NEW T, DOMAIN T \subseteq Nat, IsFiniteSet(DOMAIN T), NEW p
    PROVE  \E w : IsWalk(w, T, p)
<1> DEFINE N == Cardinality(DOMAIN T)
           Q == DOMAIN T \cup {p}
           C == DOMAIN T
           S == [Q -> Seq(C)]
           listed(q, walk) ==
               LET children == InIdOrder(Direct(T, q))
               IN  FlattenSeq([i \in DOMAIN children |-> <<children[i]>> \o walk[children[i]]])
           base == [q \in Q |-> <<>>]
           E(walk) == [q \in Q |-> listed(q, walk)]
           D(h) == h = [n \in 0 .. N |-> IF n = 0 THEN base ELSE E(h[n - 1])]
           f == CHOOSE h : D(h)
           step == [n \in 1 .. N |-> [walk \in S |-> E(walk)]]
<1>1. N \in Nat
  BY FS_CardinalityType
<1>2. Walk(T, p) = f[N][p]
  BY DEF Walk
<1>3. base \in S
  OBVIOUS
<1>4. ASSUME NEW walk \in S, NEW q \in Q
      PROVE  /\ listed(q, walk) \in Seq(C)
             /\ Range(listed(q, walk)) =
                    Direct(T, q) \cup UNION {Range(walk[c]) : c \in Direct(T, q)}
  <2>1. Direct(T, q) \in SUBSET C /\ Direct(T, q) \subseteq Nat /\ C \subseteq Q
    BY DEF Direct
  <2>2. IsFiniteSet(Direct(T, q)) /\ \A c \in Direct(T, q) : walk[c] \in Seq(C)
    BY <2>1, FS_Subset
  <2>3. listed(q, walk) = Listed(Direct(T, q), walk)
    BY DEF Listed
  <2> HIDE DEF C, Q, listed
  <2> QED
    BY <2>1, <2>2, <2>3, ListedIs
<1>22. \A walk, q : listed(q, walk) = Listed(Direct(T, q), walk)
  BY DEF Listed
<1> HIDE DEF listed
<1>5. \A walk \in S : E(walk) \in S
  BY <1>4
<1>6. \A walk \in S, q \in Q : E(walk)[q] = listed(q, walk)
  OBVIOUS
<1>7. N = Cardinality(C) /\ C \subseteq Q /\ p \in Q
  OBVIOUS
<1>8. \A q \in Q : base[q] = <<>>
  OBVIOUS
<1> HIDE DEF E, N, Q, C, base
<1>9. step \in [1 .. N -> [S -> S]]
  BY <1>5
<1>10. \A n \in 1 .. N, walk \in S : step[n][walk] = E(walk)
  OBVIOUS
<1> HIDE DEF step, S
<1>11. PICK g : IsIteration(g, N, S, base, step)
  BY <1>1, <1>3, <1>9, Iteration
<1>12. \A n \in 1 .. N : n - 1 \in 0 .. N
  BY <1>1
<1>13. \A n \in 1 .. N : g[n] = E(g[n - 1])
  BY <1>10, <1>11, <1>12 DEF IsIteration
<1>14. D(g)
  BY <1>1, <1>11, <1>13 DEF IsIteration
<1>15. D(f)
  <2> HIDE DEF D
  <2> QED BY <1>14
<1> HIDE DEF f
<1>16. \A n \in 0 .. N : f[n] = IF n = 0 THEN base ELSE E(f[n - 1])
  BY <1>15
<1>17. f[0] = base /\ \A n \in 1 .. N : f[n] = E(f[n - 1])
  BY <1>1, <1>16
<1>18. f \in [0 .. N -> S]
  <2> DEFINE P == {n \in 0 .. N : f[n] \in S}
  <2>1. 0 \in P
    BY <1>1, <1>3, <1>17
  <2>2. \A n \in 1 .. N : n - 1 \in P => n \in P
    BY <1>5, <1>17
  <2> HIDE DEF P
  <2>3. 0 .. N \subseteq P
    BY <1>1, <2>1, <2>2, InductTo
  <2> QED
    BY <1>15, <2>3 DEF P
<1>19. ASSUME NEW n \in 1 .. N, NEW q \in Q
       PROVE  /\ f[n][q] = Listed(Direct(T, q), f[n - 1])
              /\ Range(f[n][q]) = Direct(T, q) \cup UNION {Range(f[n - 1][c]) : c \in Direct(T, q)}
  <2>1. f[n - 1] \in S /\ f[n] = E(f[n - 1])
    BY <1>12, <1>17, <1>18
  <2>2. f[n][q] = listed(q, f[n - 1])
    BY <1>6, <2>1
  <2> DEFINE v == f[n - 1]
  <2>3. v \in S
    BY <2>1
  <2> HIDE DEF v
  <2>4. Range(listed(q, v)) = Direct(T, q) \cup UNION {Range(v[c]) : c \in Direct(T, q)}
    BY <1>4, <2>3
  <2> QED
    BY <1>22, <2>2, <2>4 DEF v
<1>20. \A q \in Q : f[0][q] = <<>>
  BY <1>8, <1>17
<1>21. IsWalk(f, T, p)
  BY <1>2, <1>18, <1>19, <1>20, Zenon DEF IsWalk, N, Q, C, S
<1> QED
  BY <1>21

\* Walk, which goes no deeper than the table has entries, lists everything below p
\* and nothing else.
LEMMA WalkListsBelow ==
    ASSUME NEW T, DOMAIN T \subseteq Nat, IsFiniteSet(DOMAIN T), NEW p
    PROVE  /\ Walk(T, p) \in Seq(DOMAIN T)
           /\ Range(Walk(T, p)) = Below(T, p)
<1> DEFINE N == Cardinality(DOMAIN T)
           Q == DOMAIN T \cup {p}
           C == DOMAIN T
<1>1. N \in Nat
  BY FS_CardinalityType
<1>2. PICK w : IsWalk(w, T, p)
  BY WalkStages
<1>3. /\ w \in [0 .. N -> [Q -> Seq(C)]]
      /\ \A n \in 1 .. N : \A q \in Q :
            Range(w[n][q]) = Direct(T, q) \cup UNION {Range(w[n - 1][c]) : c \in Direct(T, q)}
      /\ \A q \in Q : w[0][q] = <<>>
      /\ Walk(T, p) = w[N][p]
  BY <1>2 DEF IsWalk
<1>4. PICK b : AreStages(b, T, p)
  BY BelowStages
<1>5. /\ b[0] = {}
      /\ \A n \in 1 .. N : b[n] = Under(T, p, b[n - 1])
      /\ Below(T, p) = b[N]
  BY <1>4 DEF AreStages
<1>6. /\ Below(T, p) \subseteq C
      /\ \A x \in C : T[x].parent \in Below(T, p) \cup {p} => x \in Below(T, p)
  BY BelowIsClosed
<1>7. p \in Q /\ C \subseteq Q /\ \A q : \A x : x \in Direct(T, q) <=> x \in C /\ T[x].parent = q
  BY DEF Direct
<1>8. \A s : \A x : x \in Under(T, p, s) <=> x \in C /\ T[x].parent \in s \cup {p}
  BY DEF Under
<1> HIDE DEF N, Q, C
<1> DEFINE R == [n \in 0 .. N |-> [q \in Q |-> Range(w[n][q])]]
           B == Below(T, p)
<1>9. \A n \in 0 .. N, q \in Q : R[n][q] = Range(w[n][q])
  OBVIOUS
<1>10. \A q \in Q : R[0][q] = {}
  <2> TAKE q \in Q
  <2>1. 0 \in 0 .. N /\ w[0][q] = <<>>
    BY <1>1, <1>3
  <2>2. R[0][q] = Range(<<>>)
    BY <1>9, <2>1
  <2>3. Range(<<>>) = {}
    BY DEF Range
  <2> QED
    BY <2>2, <2>3
<1>11. \A n \in 1 .. N : \A q \in Q : \A x :
           x \in R[n][q] <=> \/ x \in Direct(T, q)
                             \/ \E c \in Direct(T, q) : x \in R[n - 1][c]
  <2> TAKE n \in 1 .. N
  <2> TAKE q \in Q
  <2>1. n \in 0 .. N /\ n - 1 \in 0 .. N /\ Direct(T, q) \subseteq Q
    BY <1>1, <1>7
  <2>2. R[n][q] = Direct(T, q) \cup UNION {Range(w[n - 1][c]) : c \in Direct(T, q)}
    BY <1>3, <1>9, <2>1
  <2>3. \A c \in Direct(T, q) : Range(w[n - 1][c]) = R[n - 1][c]
    BY <1>9, <2>1
  <2> HIDE DEF R
  <2> QED
    BY <2>2, <2>3
<1>12. \A n \in 1 .. N : n - 1 \in 0 .. N /\ n \in 0 .. N
  BY <1>1
<1> HIDE DEF R, B
\* Nothing else: the walk never leaves what is below p.
<1>13. \A n \in 0 .. N : \A q \in B \cup {p} : R[n][q] \subseteq B
  <2> DEFINE P == {n \in 0 .. N : \A q \in B \cup {p} : R[n][q] \subseteq B}
  <2>1. 0 \in P
    BY <1>1, <1>6, <1>7, <1>10 DEF B
  <2>2. ASSUME NEW n \in 1 .. N, n - 1 \in P PROVE n \in P
    <3>1. ASSUME NEW q \in B \cup {p}, NEW x \in R[n][q] PROVE x \in B
      <4>1. q \in Q
        BY <1>6, <1>7 DEF B
      <4>2. Direct(T, q) \subseteq B
        BY <1>6, <1>7 DEF B
      <4> QED
        BY <1>11, <2>2, <3>1, <4>1, <4>2
    <3> QED
      BY <1>12, <3>1
  <2> HIDE DEF P
  <2>3. 0 .. N \subseteq P
    BY <1>1, <2>1, <2>2, InductTo
  <2> QED
    BY <2>3 DEF P
\* Everything: what is below an entry the walk meets, it meets one stage later.
<1>14. \A n \in 0 .. N : n # 0 => \A q \in Q : \A x \in R[n - 1][q] : \A y \in Direct(T, x) :
           y \in R[n][q]
  <2> DEFINE P == {n \in 0 .. N : n # 0 =>
                      \A q \in Q : \A x \in R[n - 1][q] : \A y \in Direct(T, x) : y \in R[n][q]}
  <2>1. 0 \in P
    BY <1>1
  <2>2. ASSUME NEW n \in 1 .. N, n - 1 \in P PROVE n \in P
    <3>1. ASSUME NEW q \in Q, NEW x \in R[n - 1][q], NEW y \in Direct(T, x)
          PROVE  y \in R[n][q]
      <4>1. n - 1 # 0
        BY <1>10, <3>1
      <4>2. n - 1 \in 1 .. N
        BY <1>1, <4>1
      <4>3. CASE x \in Direct(T, q)
        <5>1. y \in R[n - 1][x]
          BY <1>7, <1>11, <3>1, <4>2, <4>3
        <5> QED
          BY <1>11, <4>3, <5>1
      <4>4. CASE \E c \in Direct(T, q) : x \in R[(n - 1) - 1][c]
        <5>1. PICK c \in Direct(T, q) : x \in R[(n - 1) - 1][c]
          BY <4>4
        <5>2. c \in Q
          BY <1>7
        <5>3. y \in R[n - 1][c]
          BY <2>2, <3>1, <4>1, <5>1, <5>2
        <5> QED
          BY <1>11, <5>1, <5>3
      <4> QED
        BY <1>11, <3>1, <4>2, <4>3, <4>4
    <3> QED
      BY <1>12, <3>1
  <2> HIDE DEF P
  <2>3. 0 .. N \subseteq P
    BY <1>1, <2>1, <2>2, InductTo
  <2> QED
    BY <2>3 DEF P
<1>15. \A n \in 0 .. N : b[n] \subseteq R[n][p]
  <2> DEFINE P == {n \in 0 .. N : b[n] \subseteq R[n][p]}
  <2>1. 0 \in P
    BY <1>1, <1>5
  <2>2. ASSUME NEW n \in 1 .. N, n - 1 \in P PROVE n \in P
    <3>1. ASSUME NEW x \in b[n] PROVE x \in R[n][p]
      <4>1. x \in C /\ T[x].parent \in b[n - 1] \cup {p}
        BY <1>5, <1>8, <3>1
      <4>2. x \in Direct(T, T[x].parent)
        BY <1>7, <4>1
      <4>3. CASE T[x].parent = p
        BY <1>7, <1>11, <4>2, <4>3
      <4>4. CASE T[x].parent \in b[n - 1]
        BY <1>7, <1>12, <1>14, <2>2, <4>2, <4>4
      <4> QED
        BY <4>1, <4>3, <4>4
    <3> QED
      BY <1>12, <3>1
  <2> HIDE DEF P
  <2>3. 0 .. N \subseteq P
    BY <1>1, <2>1, <2>2, InductTo
  <2> QED
    BY <2>3 DEF P
<1>16. N \in 0 .. N
  BY <1>1
<1>17. Range(Walk(T, p)) = R[N][p] /\ Walk(T, p) \in Seq(C)
  BY <1>3, <1>7, <1>9, <1>16
<1>18. R[N][p] = B
  BY <1>5, <1>13, <1>15, <1>16 DEF B
<1> QED
  BY <1>17, <1>18 DEF B, C

\* What is below a device is at most as much as what is below its parent.
LEMMA BelowIsTransitive ==
    ASSUME NEW T, IsFiniteSet(DOMAIN T), NEW q, NEW c \in Below(T, q)
    PROVE  Below(T, c) \subseteq Below(T, q)
<1>1. \A x \in DOMAIN T : T[x].parent \in Below(T, q) \cup {q} => x \in Below(T, q)
  BY BelowIsClosed
<1>2. \A x \in DOMAIN T : T[x].parent \in Below(T, q) \cup {c} => x \in Below(T, q)
  BY <1>1
<1> QED
  BY <1>2, BelowIsLeast

\* Every device below q has its parent there, or is a child of q.
LEMMA ParentIsBelow ==
    ASSUME NEW T, IsFiniteSet(DOMAIN T), NEW q, NEW x \in Below(T, q)
    PROVE  T[x].parent \in Below(T, q) \cup {q}
<1> DEFINE S == {y \in DOMAIN T : T[y].parent \in Below(T, q) \cup {q}}
<1>1. \A y \in DOMAIN T : T[y].parent \in Below(T, q) \cup {q} => y \in Below(T, q)
  BY BelowIsClosed
<1>2. \A y \in DOMAIN T : T[y].parent \in S \cup {q} => y \in S
  BY <1>1
<1> HIDE DEF S
<1>3. Below(T, q) \subseteq S
  BY <1>2, BelowIsLeast
<1> QED
  BY <1>3 DEF S

\* A cycle that can be reached from p goes through p: nothing else has two parents.
LEMMA NoCycleBelow ==
    ASSUME NEW T, IsFiniteSet(DOMAIN T), NEW p, p \notin Below(T, p)
    PROVE  \A d \in Below(T, p) : d \notin Below(T, d)
<1> DEFINE S == {d \in Below(T, p) : d \notin Below(T, d)}
<1>1. ASSUME NEW x \in DOMAIN T, T[x].parent \in S \cup {p}
      PROVE  x \in S
  <2>1. x \in Below(T, p)
    BY <1>1, BelowIsClosed
  <2>2. ASSUME x \in Below(T, x) PROVE FALSE
    <3> DEFINE y == T[x].parent
    <3>1. y \in Below(T, x) \cup {x}
      BY <2>2, ParentIsBelow
    <3>2. y # x /\ y # p
      <4>1. y # p
        BY <2>1, <2>2, <3>1, BelowIsTransitive
      <4>2. y # x
        BY <1>1, <2>2, <4>1
      <4> QED
        BY <4>1, <4>2
    <3>3. x \in Below(T, y)
      BY BelowIsClosed
    <3>4. y \in Below(T, y)
      BY <3>1, <3>2, <3>3, BelowIsTransitive
    <3> QED
      BY <1>1, <3>2, <3>4
  <2> QED
    BY <2>1, <2>2
<1> HIDE DEF S
<1>2. \A x \in DOMAIN T : T[x].parent \in S \cup {p} => x \in S
  BY <1>1
<1>3. Below(T, p) \subseteq S
  BY <1>2, BelowIsLeast
<1> QED
  BY <1>3 DEF S

\* Without a cycle there is less below a child than below its parent.
LEMMA LessBelowChild ==
    ASSUME NEW T, IsFiniteSet(DOMAIN T), NEW q, NEW c \in Direct(T, q), c \notin Below(T, c)
    PROVE  /\ Cardinality(Below(T, c)) \in Nat
           /\ Cardinality(Below(T, q)) \in Nat
           /\ Cardinality(Below(T, c)) < Cardinality(Below(T, q))
<1> DEFINE B == Below(T, q)
           A == Below(T, c)
<1>1. c \in B /\ B \subseteq DOMAIN T
  BY BelowIsClosed DEF Direct
<1>2. A \subseteq B \ {c}
  BY <1>1, BelowIsTransitive
<1> HIDE DEF A, B
<1>3. IsFiniteSet(B) /\ IsFiniteSet(B \ {c}) /\ Cardinality(B \ {c}) = Cardinality(B) - 1
  BY <1>1, FS_Subset, FS_RemoveElement
<1>4. IsFiniteSet(A) /\ Cardinality(A) <= Cardinality(B \ {c})
  BY <1>2, <1>3, FS_Subset
<1>5. Cardinality(A) \in Nat /\ Cardinality(B) \in Nat
  BY <1>3, <1>4, FS_CardinalityType
<1> QED
  BY <1>3, <1>4, <1>5 DEF A, B

\* A level of the walk looks at the walk of the children only, and is empty without any.
LEMMA ListedOfChildren ==
    ASSUME NEW C \in SUBSET Nat, IsFiniteSet(C), NEW u, NEW v, \A c \in C : u[c] = v[c]
    PROVE  Listed(C, u) = Listed(C, v)
<1> DEFINE children == InIdOrder(C)
<1>1. \A i \in DOMAIN children : children[i] \in C
  BY InIdOrderIs
<1>2. Listed(C, u) = FlattenSeq([i \in DOMAIN children |-> <<children[i]>> \o u[children[i]]])
  BY DEF Listed
<1>3. Listed(C, v) = FlattenSeq([i \in DOMAIN children |-> <<children[i]>> \o v[children[i]]])
  BY DEF Listed
<1> HIDE DEF children
<1>4. [i \in DOMAIN children |-> <<children[i]>> \o u[children[i]]]
          = [i \in DOMAIN children |-> <<children[i]>> \o v[children[i]]]
  BY <1>1
<1> QED
  BY <1>2, <1>3, <1>4

\* Nothing is listed below a device without children.
LEMMA ListedOfNone ==
    ASSUME NEW u
    PROVE  Listed({}, u) = <<>>
<1>1. {} \in SUBSET Nat /\ IsFiniteSet({})
  BY FS_EmptySet
<1>2. Listed({}, u) \in Seq({})
  BY <1>1, ListedIs
<1> QED
  BY <1>2

\* w is the walk of one table from two places: it is the same wherever both look.
LEMMA WalkFromElsewhere ==
    ASSUME NEW T, DOMAIN T \subseteq Nat, IsFiniteSet(DOMAIN T), NEW p, NEW w, IsWalk(w, T, p),
           NEW c \in DOMAIN T
    PROVE  Walk(T, c) = w[Cardinality(DOMAIN T)][c]
<1> DEFINE N == Cardinality(DOMAIN T)
           C == DOMAIN T
<1>1. N \in Nat
  BY FS_CardinalityType
<1>2. PICK v : IsWalk(v, T, c)
  BY WalkStages
<1>3. /\ \A n \in 1 .. N : \A q \in C : /\ w[n][q] = Listed(Direct(T, q), w[n - 1])
                                        /\ v[n][q] = Listed(Direct(T, q), v[n - 1])
      /\ \A q \in C : w[0][q] = <<>> /\ v[0][q] = <<>>
      /\ Walk(T, c) = v[N][c]
  BY <1>2 DEF IsWalk
<1>4. \A q : Direct(T, q) \in SUBSET Nat /\ Direct(T, q) \subseteq C /\ IsFiniteSet(Direct(T, q))
  <2> TAKE q
  <2>1. Direct(T, q) \in SUBSET C
    BY DEF Direct
  <2> QED
    BY <2>1, FS_Subset
<1>5. c \in C
  OBVIOUS
<1> HIDE DEF N, C
<1> DEFINE P == {n \in 0 .. N : \A q \in C : w[n][q] = v[n][q]}
<1>6. 0 \in P
  BY <1>1, <1>3
<1>7. ASSUME NEW n \in 1 .. N, n - 1 \in P PROVE n \in P
  <2>1. \A q \in C : \A x \in Direct(T, q) : w[n - 1][x] = v[n - 1][x]
    BY <1>4, <1>7
  <2>2. ASSUME NEW q \in C PROVE w[n][q] = v[n][q]
    <3>1. Listed(Direct(T, q), w[n - 1]) = Listed(Direct(T, q), v[n - 1])
      BY <1>4, <2>1, ListedOfChildren
    <3> QED
      BY <1>3, <3>1
  <2> QED
    BY <2>2
<1> HIDE DEF P
<1>8. 0 .. N \subseteq P /\ N \in 0 .. N
  BY <1>1, <1>6, <1>7, InductTo
<1>9. w[N][c] = v[N][c]
  BY <1>5, <1>8 DEF P
<1> QED
  BY <1>3, <1>9 DEF N

\* The search of find_all_routing_data has no depth bound: it ends where Walk does
\* only if its bound is never what ends Walk.  Where p is not below itself, so from
\* the owner of any table, it is not: Walk lists each child and then all that is
\* below it, the children in order, and so on down; and it lists everything below p
\* and nothing else.  (From a p that is below itself the search of the code goes
\* round for ever.)
THEOREM WalkIsTheSearch ==
    ASSUME NEW T, DOMAIN T \subseteq Nat, IsFiniteSet(DOMAIN T), NEW p, p \notin Below(T, p)
    PROVE  LET children == InIdOrder(Direct(T, p))
           IN  /\ Walk(T, p) = FlattenSeq([i \in DOMAIN children |->
                                  <<children[i]>> \o Walk(T, children[i])])
               /\ \A i \in DOMAIN children : children[i] \notin Below(T, children[i])
               /\ Range(Walk(T, p)) = Below(T, p)
<1> DEFINE N == Cardinality(DOMAIN T)
           C == DOMAIN T
           B == Below(T, p)
           Size(q) == Cardinality(Below(T, q))
<1>1. N \in Nat
  BY FS_CardinalityType
<1>2. PICK w : IsWalk(w, T, p)
  BY WalkStages
<1>3. /\ \A n \in 1 .. N : \A q \in C \cup {p} : w[n][q] = Listed(Direct(T, q), w[n - 1])
      /\ \A q \in C \cup {p} : w[0][q] = <<>>
      /\ Walk(T, p) = w[N][p]
  BY <1>2 DEF IsWalk
<1>4. \A q : Direct(T, q) \in SUBSET Nat /\ Direct(T, q) \subseteq C /\ IsFiniteSet(Direct(T, q))
  <2> TAKE q
  <2>1. Direct(T, q) \in SUBSET C
    BY DEF Direct
  <2> QED
    BY <2>1, FS_Subset
<1>5. B \subseteq C /\ \A q \in B \cup {p} : Direct(T, q) \subseteq B
  BY BelowIsClosed DEF Direct
<1>6. \A q \in B \cup {p} : q \notin Below(T, q)
  BY NoCycleBelow
<1>7. ASSUME NEW q \in B \cup {p}
      PROVE  Size(q) \in Nat /\ Size(q) <= N
  <2>1. Below(T, q) \in SUBSET C
    BY BelowIsClosed
  <2>2. IsFiniteSet(Below(T, q)) /\ Size(q) <= N
    BY <2>1, FS_Subset
  <2> QED
    BY <2>2, FS_CardinalityType
<1>8. ASSUME NEW q \in B \cup {p}, NEW c \in Direct(T, q)
      PROVE  Size(c) < Size(q)
  BY <1>5, <1>6, LessBelowChild
<1>9. \A q \in B : Walk(T, q) = w[N][q]
  BY <1>2, <1>5, WalkFromElsewhere
<1> HIDE DEF N, C, B, Size
\* From the stage on that is as deep as what is below q, the walk of q stays as it is.
<1> DEFINE P == {n \in 0 .. N : \A q \in B \cup {p} : Size(q) <= n =>
                                    \A m \in n .. N : w[m][q] = w[n][q]}
<1>10. ASSUME NEW q \in B \cup {p}, Size(q) <= 0, NEW m \in 0 .. N
       PROVE  w[m][q] = <<>>
  <2>1. Direct(T, q) = {}
    BY <1>5, <1>7, <1>8, <1>10
  <2>2. CASE m = 0
    BY <1>3, <1>5, <2>2
  <2>3. CASE m \in 1 .. N
    <3>1. w[m][q] = Listed({}, w[m - 1])
      BY <1>3, <1>5, <2>1, <2>3
    <3> QED
      BY <3>1, ListedOfNone
  <2> QED
    BY <1>1, <2>2, <2>3
<1>11. 0 \in P
  BY <1>1, <1>10
<1>12. ASSUME NEW n \in 1 .. N, n - 1 \in P PROVE n \in P
  <2>1. ASSUME NEW q \in B \cup {p}, Size(q) <= n, NEW m \in n .. N
        PROVE  w[m][q] = w[n][q]
    <3>1. m \in 1 .. N /\ m - 1 \in (n - 1) .. N /\ n - 1 \in (n - 1) .. N
      BY <1>1
    <3>2. ASSUME NEW c \in Direct(T, q) PROVE w[m - 1][c] = w[n - 1][c]
      <4>1. c \in B /\ Size(c) \in Nat /\ Size(q) \in Nat /\ Size(c) < Size(q)
        BY <1>5, <1>7, <1>8
      <4>2. Size(c) <= n - 1
        BY <1>1, <2>1, <4>1
      <4> QED
        BY <1>12, <3>1, <4>1, <4>2
    <3>3. Listed(Direct(T, q), w[m - 1]) = Listed(Direct(T, q), w[n - 1])
      BY <1>4, <3>2, ListedOfChildren
    <3> QED
      BY <1>3, <1>5, <3>1, <3>3
  <2> QED
    BY <1>1, <2>1
<1> HIDE DEF P
<1>13. 0 .. N \subseteq P
  BY <1>1, <1>11, <1>12, InductTo
<1> DEFINE u == [c \in Direct(T, p) |-> Walk(T, c)]
<1>14. Walk(T, p) = Listed(Direct(T, p), u)
  <2>1. CASE N = 0
    <3>1. Direct(T, p) = {} /\ w[N][p] = <<>>
      BY <1>3, <1>5, <1>7, <1>8, <2>1
    <3> QED
      BY <1>3, <3>1, ListedOfNone
  <2>2. CASE N # 0
    <3>1. N \in 1 .. N /\ N - 1 \in 0 .. N /\ N \in (N - 1) .. N
      BY <1>1, <2>2
    <3>2. ASSUME NEW c \in Direct(T, p) PROVE w[N - 1][c] = u[c]
      <4>1. c \in B /\ Size(c) \in Nat /\ Size(p) \in Nat /\ Size(c) < Size(p) /\ Size(p) <= N
        BY <1>5, <1>7, <1>8
      <4>2. Size(c) <= N - 1
        BY <1>1, <4>1
      <4>3. w[N][c] = w[N - 1][c]
        BY <1>13, <3>1, <4>1, <4>2 DEF P
      <4> QED
        BY <1>9, <4>1, <4>3
    <3>3. Listed(Direct(T, p), w[N - 1]) = Listed(Direct(T, p), u)
      BY <1>4, <3>2, ListedOfChildren
    <3> QED
      BY <1>3, <3>1, <3>3
  <2> QED
    BY <2>1, <2>2
<1> DEFINE children == InIdOrder(Direct(T, p))
<1>15. \A i \in DOMAIN children : children[i] \in Direct(T, p)
  BY <1>4, InIdOrderIs
<1>16. Listed(Direct(T, p), u)
          = FlattenSeq([i \in DOMAIN children |-> <<children[i]>> \o u[children[i]]])
  BY DEF Listed
<1> HIDE DEF children
<1>17. [i \in DOMAIN children |-> <<children[i]>> \o u[children[i]]]
          = [i \in DOMAIN children |-> <<children[i]>> \o Walk(T, children[i])]
  BY <1>15
<1>18. \A i \in DOMAIN children : children[i] \notin Below(T, children[i])
  BY <1>5, <1>6, <1>15
<1>19. Range(Walk(T, p)) = Below(T, p)
  BY WalkListsBelow
<1> QED
  BY <1>14, <1>16, <1>17, <1>18, <1>19 DEF children

-----------------------------------------------------------------------------
(* Removal of a route.                                                     *)

\* What is below depends on the parents alone.
LEMMA BelowOfSameParents ==
    ASSUME NEW T, NEW U, IsFiniteSet(DOMAIN T), DOMAIN U = DOMAIN T,
           \A x \in DOMAIN T : U[x].parent = T[x].parent, NEW p
    PROVE  Below(U, p) = Below(T, p)
<1>1. IsFiniteSet(DOMAIN U)
  OBVIOUS
<1>2. Below(T, p) \subseteq Below(U, p)
  <2>1. \A x \in DOMAIN T : T[x].parent \in Below(U, p) \cup {p} => x \in Below(U, p)
    BY <1>1, BelowIsClosed
  <2> QED
    BY <2>1, BelowIsLeast
<1>3. Below(U, p) \subseteq Below(T, p)
  <2>1. \A x \in DOMAIN U : U[x].parent \in Below(T, p) \cup {p} => x \in Below(T, p)
    BY BelowIsClosed
  <2> QED
    BY <1>1, <2>1, BelowIsLeast
<1> QED
  BY <1>2, <1>3

\* Every entry is found by walking down from p, and its type is that of what
\* is above it.
IsSound(T, p) == Below(T, p) = DOMAIN T /\ TypesFlowUp(T)

\* Removing a route removes the branch, and nothing that is left hangs on what
\* has gone.
THEOREM RemoveRouteIs ==
    ASSUME NEW T, IsFiniteSet(DOMAIN T), NEW d \in DOMAIN T, NEW p
    PROVE  LET U == RemoveRoute(T, d, T[d].parent)
               gone == {d} \cup Below(T, d)
           IN  /\ DOMAIN U = DOMAIN T \ gone
               /\ \A x \in DOMAIN U : U[x] = T[x] /\ U[x].parent \notin gone
               /\ IsSound(T, p) => IsSound(U, p)
<1> DEFINE U == RemoveRoute(T, d, T[d].parent)
           gone == {d} \cup Below(T, d)
<1>1. DOMAIN U = DOMAIN T \ gone /\ \A x \in DOMAIN U : U[x] = T[x]
  BY DEF RemoveRoute
<1>2. \A x \in DOMAIN T : T[x].parent \in gone => x \in gone
  BY BelowIsClosed
<1> HIDE DEF U, gone
<1>3. \A x \in DOMAIN U : U[x].parent \notin gone
  BY <1>1, <1>2
<1>4. IsFiniteSet(DOMAIN U)
  BY <1>1, FS_Subset
<1>5. ASSUME IsSound(T, p) PROVE IsSound(U, p)
  <2> DEFINE S == Below(U, p)
  <2>1. /\ S \subseteq DOMAIN U
        /\ \A x \in DOMAIN U : U[x].parent \in S \cup {p} => x \in S
    BY <1>4, BelowIsClosed
  <2> HIDE DEF S
  <2>2. \A x \in DOMAIN T : T[x].parent \in (S \cup gone) \cup {p} => x \in S \cup gone
    BY <1>1, <1>2, <2>1
  <2>3. Below(T, p) \subseteq S \cup gone
    BY <2>2, BelowIsLeast
  <2>4. S = DOMAIN U
    BY <1>1, <1>5, <2>1, <2>3 DEF IsSound
  <2>5. \A x \in DOMAIN U : TypeFlows(U, x)
    BY <1>1, <1>3, <1>5 DEF IsSound, TypesFlowUp, TypeFlows
  <2> QED
    BY <2>4, <2>5 DEF S, IsSound, TypesFlowUp
<1> QED
  BY <1>1, <1>3, <1>5 DEF U, gone

\* ... nor does what is above it keep a type that only the branch gave it.
THEOREM RemovalKeepsSound ==
    ASSUME NEW T, IsRouting(T), NEW d \in DOMAIN T, NEW p, IsSound(T, p), NEW a
    PROVE  IsSound(UpdateTypeToEmpty(RemoveRoute(T, d, T[d].parent), a), p)
<1> DEFINE U == RemoveRoute(T, d, T[d].parent)
           V == UpdateTypeToEmpty(U, a)
<1>1. IsFiniteSet(DOMAIN T)
  BY DEF IsRouting
<1>2. IsSound(U, p) /\ DOMAIN U \subseteq DOMAIN T /\ \A x \in DOMAIN U : U[x] = T[x]
  <2>1. /\ DOMAIN U = DOMAIN T \ ({d} \cup Below(T, d))
        /\ \A x \in DOMAIN U : U[x] = T[x] /\ U[x].parent \notin {d} \cup Below(T, d)
        /\ IsSound(T, p) => IsSound(U, p)
    BY <1>1, RemoveRouteIs, Zenon
  <2> HIDE DEF U
  <2> QED
    BY <2>1
<1>3. U = [x \in DOMAIN U |-> T[x]]
  BY DEF RemoveRoute
<1> HIDE DEF U
<1>4. IsRouting(U)
  <2>1. IsFiniteSet(DOMAIN U)
    BY <1>1, <1>2, FS_Subset
  <2>2. \A x \in DOMAIN U :
            U[x] = [type |-> U[x].type, parent |-> U[x].parent, fd |-> U[x].fd]
    BY <1>2 DEF IsRouting
  <2>3. U = [x \in DOMAIN U |->
                [type |-> U[x].type, parent |-> U[x].parent, fd |-> U[x].fd]]
    BY <1>2, <1>3, <2>2
  <2> QED
    BY <1>2, <2>1, <2>3 DEF IsRouting
<1>5. /\ DOMAIN V = DOMAIN U
      /\ \A x \in DOMAIN U : V[x].parent = U[x].parent
      /\ TypesFlowUp(U) => TypesFlowUp(V)
  BY <1>4, UpdateTypeToEmptyIs
<1> HIDE DEF V
<1>6. Below(V, p) = Below(U, p)
  BY <1>4, <1>5, BelowOfSameParents DEF IsRouting
<1> QED
  BY <1>2, <1>5, <1>6 DEF U, V, IsSound

-----------------------------------------------------------------------------
(* A link.                                                                 *)

\* Upwards(T, a) stays in a set with a, if an entry, and the parents of its members.
LEMMA UpwardsWithin ==
    ASSUME NEW T, IsFiniteSet(DOMAIN T), NEW a, NEW R,
           a \in DOMAIN T => a \in R,
           \A x \in R : x \in DOMAIN T /\ T[x].parent \in DOMAIN T => T[x].parent \in R
    PROVE  Range(Upwards(T, a)) \subseteq R
<1> DEFINE chain == Upwards(T, a)
           P == {n \in Nat : n + 1 \in DOMAIN chain => chain[n + 1] \in R}
<1>1. /\ DOMAIN chain \subseteq Nat \ {0}
      /\ \A i \in DOMAIN chain : chain[i] \in DOMAIN T
      /\ a \in DOMAIN T <=> 1 \in DOMAIN chain
      /\ 1 \in DOMAIN chain => chain[1] = a
      /\ \A i \in DOMAIN chain : i > 1 => i - 1 \in DOMAIN chain /\ chain[i] = T[chain[i - 1]].parent
  BY UpwardsListed
<1> HIDE DEF chain
<1>2. 0 \in P
  BY <1>1
<1>3. ASSUME NEW n \in Nat, n \in P PROVE n + 1 \in P
  <2> SUFFICES ASSUME (n + 1) + 1 \in DOMAIN chain PROVE chain[(n + 1) + 1] \in R
    OBVIOUS
  <2> DEFINE i == (n + 1) + 1
  <2>1. i > 1 /\ i - 1 = n + 1
    OBVIOUS
  <2>2. n + 1 \in DOMAIN chain /\ chain[i] = T[chain[n + 1]].parent
    BY <1>1, <2>1
  <2> QED
    BY <1>1, <1>3, <2>2
<1> HIDE DEF P
<1>4. Nat \subseteq P
  BY <1>2, <1>3, Induct
<1>5. ASSUME NEW i \in DOMAIN chain PROVE chain[i] \in R
  <2>1. i - 1 \in Nat /\ (i - 1) + 1 = i
    BY <1>1
  <2> QED
    BY <1>4, <2>1 DEF P
<1> QED
  BY <1>5 DEF chain, Range

\* Device d may move below a: a is p itself or an entry with no d above it, and
\* its type fits that of every entry above.
MayMove(T, p, d, a) ==
    a # p => /\ a \in DOMAIN T \ {d}
             /\ \A x \in Range(Upwards(T, a)) :
                   /\ T[x].parent # d
                   /\ \/ IsEmpty(T[d].type) \/ IsEmpty(T[x].type)
                      \/ ChildType(T[d].type) = ChildType(T[x].type)

\* A branch that may move does so as a whole and leaves the table sound.
THEOREM MoveKeepsSound ==
    ASSUME NEW T, IsRouting(T), NEW p, p \notin DOMAIN T, IsSound(T, p),
           NEW d \in DOMAIN T, NEW a, MayMove(T, p, d, a),
           NEW U, IsRouting(U), DOMAIN U = DOMAIN T,
           \A x \in DOMAIN T \ {d} : U[x].parent = T[x].parent /\ U[x].type = T[x].type,
           U[d].parent = a, U[d].type = T[d].type
    PROVE  IsSound(UpdateTypeToNotEmpty(U, d), p)
<1> DEFINE C == DOMAIN T
           R == Range(Upwards(T, a))
           chain == Upwards(T, a)
           V == UpdateTypeToNotEmpty(U, d)
<1>1. IsFiniteSet(C) /\ IsFiniteSet(DOMAIN U) /\ DOMAIN U = C
  BY DEF IsRouting
<1>2. /\ DOMAIN chain \subseteq Nat \ {0}
      /\ \A i \in DOMAIN chain : chain[i] \in C
      /\ a \in C <=> 1 \in DOMAIN chain
      /\ 1 \in DOMAIN chain => chain[1] = a
      /\ \A i \in DOMAIN chain : i > 1 => i - 1 \in DOMAIN chain /\ chain[i] = T[chain[i - 1]].parent
  BY UpwardsListed DEF IsRouting
<1>3. \A x \in R : T[x].parent \in C => T[x].parent \in R
  <2> SUFFICES ASSUME NEW i \in DOMAIN chain, T[chain[i]].parent \in C
               PROVE  T[chain[i]].parent \in R
    BY DEF Range
  <2>1. \E j \in DOMAIN chain : chain[j] = T[chain[i]].parent
    BY <1>1, UpwardsIsClosed
  <2> QED
    BY <2>1 DEF Range
<1>4. R \subseteq C /\ (a \in C => a \in R)
  BY <1>2 DEF Range
<1>5. a \in C => d \notin R
  <2> SUFFICES ASSUME a \in C, NEW i \in DOMAIN chain, chain[i] = d PROVE FALSE
    BY DEF Range
  <2>1. a # d /\ \A x \in R : T[x].parent # d
    BY DEF MayMove
  <2>2. i # 1
    BY <1>2, <2>1
  <2>3. i > 1 /\ i - 1 \in DOMAIN chain /\ d = T[chain[i - 1]].parent
    BY <1>2, <2>2
  <2>4. chain[i - 1] \in R
    BY <2>3 DEF Range
  <2> QED
    BY <2>1, <2>3, <2>4
<1>6. a \notin C => R = {}
  <2> DEFINE none == {}
  <2>1. \A x : x \notin none
    OBVIOUS
  <2> HIDE DEF none
  <2>2. a \notin C => Range(Upwards(T, a)) \subseteq none
    BY <1>1, <2>1, UpwardsWithin
  <2> QED
    BY <2>1, <2>2
<1>7. a = p \/ a \in C
  BY DEF MayMove
<1>8. \A x \in R : T[x].parent # d
  BY <1>6 DEF MayMove
<1> HIDE DEF R, chain, V
\* What the moved branch holds is not above its new place.
<1>9. a \notin Below(T, d) \cup {d}
  <2>1. \A x \in C : T[x].parent \in (C \ R) \cup {d} => x \in C \ R
    BY <1>3, <1>8
  <2>2. Below(T, d) \subseteq C \ R
    BY <1>1, <2>1, BelowIsLeast
  <2> QED
    BY <1>4, <1>7, <2>2 DEF MayMove
<1> DEFINE S == Below(U, p)
           branch == {d} \cup Below(T, d)
<1>10. S \subseteq C /\ \A x \in C : U[x].parent \in S \cup {p} => x \in S
  BY <1>1, BelowIsClosed
<1>11. \A x \in C : T[x].parent \in branch => x \in branch
  BY <1>1, BelowIsClosed
<1> HIDE DEF S, branch
<1>12. d \in branch /\ a \notin branch
  BY <1>9 DEF branch
<1>13. Below(T, p) \subseteq S \cup branch
  <2>1. \A x \in C : T[x].parent \in (S \cup branch) \cup {p} => x \in S \cup branch
    BY <1>10, <1>11, <1>12
  <2> QED
    BY <1>1, <2>1, BelowIsLeast
<1>14. d \in S
  <2>1. C \subseteq S \cup branch
    BY <1>13 DEF IsSound
  <2> QED
    BY <1>7, <1>10, <1>12, <2>1
<1>15. Below(T, d) \subseteq S
  <2>1. \A x \in C : T[x].parent \in S \cup {d} => x \in S
    BY <1>10, <1>14
  <2> QED
    BY <1>1, <2>1, BelowIsLeast
<1>16. S = C
  BY <1>10, <1>13, <1>14, <1>15 DEF IsSound, branch
<1>17. Range(Upwards(U, a)) \subseteq R
  <2>1. \A x \in R : x \in C /\ U[x].parent \in C => U[x].parent \in R
    BY <1>3, <1>5, <1>6
  <2> QED
    BY <1>1, <1>4, <2>1, UpwardsWithin
<1>18. \A x \in Range(Upwards(U, a)) :
          \/ IsEmpty(U[d].type) \/ IsEmpty(U[x].type)
          \/ ChildType(U[x].type) = ChildType(U[d].type)
  <2> TAKE x \in Range(Upwards(U, a))
  <2>1. x \in R /\ x \in C /\ x # d
    BY <1>4, <1>5, <1>6, <1>17
  <2>2. \/ IsEmpty(T[d].type) \/ IsEmpty(T[x].type)
        \/ ChildType(T[d].type) = ChildType(T[x].type)
    BY <1>6, <1>7, <2>1 DEF MayMove, R
  <2> QED
    BY <2>1, <2>2
<1>19. \A x \in DOMAIN U \ {d} : TypeFlows(U, x)
  <2> TAKE x \in DOMAIN U \ {d}
  <2>1. TypeFlows(T, x)
    BY DEF IsSound, TypesFlowUp
  <2> QED
    BY <2>1 DEF TypeFlows
<1>20. /\ DOMAIN V = DOMAIN U
       /\ \A x \in DOMAIN U : V[x].parent = U[x].parent
       /\ TypesFlowUp(V)
  <2>1. d \in DOMAIN U /\ U[d].parent = a
    OBVIOUS
  <2> QED
    BY <1>18, <1>19, <2>1, UpdateTypeToNotEmptyIs DEF V
<1>21. Below(V, p) = S
  BY <1>1, <1>20, BelowOfSameParents DEF S
<1> QED
  BY <1>16, <1>18, <1>19, <1>20, <1>21 DEF V, IsSound

-----------------------------------------------------------------------------
(* Ids, types and messages.                                                *)

\* Ids are small naturals, and no device has the controller's.
LEMMA Ids ==
    /\ IsFiniteSet(Devices) /\ Devices \subseteq Nat /\ CONTROLLER_ID \notin Devices
    /\ Controls \subseteq Nat /\ Controls \ {CONTROLLER_ID} = Hubs \cup Timers
    /\ Controls \subseteq Devices \cup {CONTROLLER_ID}
    /\ Hubs \subseteq Controls /\ Timers \subseteq Controls /\ CONTROLLER_ID \in Controls
    /\ Hubs \subseteq Devices /\ Timers \subseteq Devices /\ Leaves \subseteq Devices
    /\ Controls \cap Leaves = {} /\ Hubs \cap Timers = {}
    /\ \A d \in Devices : d \notin Leaves => d \in Controls
    /\ Fds \subseteq Nat /\ IsFiniteSet(Fds)
    /\ Minutes \subseteq Nat
<1>1. /\ IsFiniteSet(Devices) /\ Devices \subseteq 1 .. 15
      /\ Hubs \cap Leaves = {} /\ Timers \cap (Hubs \cup Leaves) = {}
  BY DevicesAssumption
<1>2. Devices \subseteq Nat /\ 0 \notin Devices
  BY <1>1
<1>3. Fds \subseteq Nat /\ IsFiniteSet(Fds)
  BY MaxFdAssumption, FS_Interval DEF Fds
<1>4. Minutes \subseteq Nat
  BY DEF Minutes
<1> QED
  BY <1>1, <1>2, <1>3, <1>4 DEF Devices, Controls, CONTROLLER_ID

\* A device may only be given types there are, and one that has children keeps
\* to its own whatever the kind of its children.
LEMMA OwnTypesAre ==
    /\ \A d \in Devices : OwnTypes(d) \subseteq DeviceTypes /\ TypeOf(d) \in OwnTypes(d)
    /\ \A d \in Hubs : OwnTypes(d) = 8 .. 15
    /\ \A d \in Timers : OwnTypes(d) = 12 .. 15
    /\ \A d \in Leaves : OwnTypes(d) = {Kind[d]} /\ Kind[d] \in {1, 2}
    /\ \A d \in Hubs \cup Timers : \A t \in OwnTypes(d) : \A c \in 0 .. 3 :
          WithChildType(t, c) \in OwnTypes(d)
    /\ DeviceTypes \subseteq Nat
<1> USE DEF BULB, WINDOW, FRIDGE, HUB_DEVICE, TIMER_DEVICE
<1>1. /\ Hubs \cap Leaves = {} /\ Timers \cap (Hubs \cup Leaves) = {}
      /\ Kind \in [Leaves -> {1, 2}]
  BY DevicesAssumption
<1>2. \A d \in Hubs : OwnTypes(d) = 8 .. 15 /\ TypeOf(d) = 8
  BY <1>1 DEF OwnTypes, TypeOf
<1>3. \A d \in Timers : OwnTypes(d) = 12 .. 15 /\ TypeOf(d) = 12
  BY <1>1 DEF OwnTypes, TypeOf
<1>4. \A d \in Leaves : OwnTypes(d) = {Kind[d]} /\ Kind[d] \in {1, 2} /\ TypeOf(d) = Kind[d]
  BY <1>1 DEF OwnTypes, TypeOf
<1>5. DeviceTypes = {1, 2, 3} \cup (8 .. 11) \cup (12 .. 15)
  BY DEF DeviceTypes
<1>6. \A c \in 0 .. 3 : /\ \A t \in 8 .. 15 : WithChildType(t, c) \in 8 .. 15
                        /\ \A t \in 12 .. 15 : WithChildType(t, c) \in 12 .. 15
  BY DEF WithChildType
<1>7. 8 .. 15 \subseteq DeviceTypes /\ 12 .. 15 \subseteq DeviceTypes /\ {1, 2} \subseteq DeviceTypes
      /\ DeviceTypes \subseteq Nat
  BY <1>5
<1>8. \A d \in Devices : OwnTypes(d) \subseteq DeviceTypes /\ TypeOf(d) \in OwnTypes(d)
  BY <1>2, <1>3, <1>4, <1>7 DEF Devices
<1>9. \A d \in Hubs \cup Timers : \A t \in OwnTypes(d) : \A c \in 0 .. 3 :
          WithChildType(t, c) \in OwnTypes(d)
  BY <1>2, <1>3, <1>6
<1> QED
  BY <1>2, <1>3, <1>4, <1>7, <1>8, <1>9, Zenon

\* A request for a device, whoever asks.
LEMMA RequestIs ==
    ASSUME NEW d \in Devices, NEW cmd \in Commands,
           NEW arg \in Devices \cup {CONTROLLER_ID} \cup Minutes,
           cmd = "change_parent" => arg \in Controls,
           cmd = "remove_child" => arg \in Devices,
           cmd \in Registries => arg \in Minutes
    PROVE  [dst |-> d, cmd |-> cmd, arg |-> arg] \in Requests
  BY DEF Requests

\* The same request for another device.
LEMMA RequestFor ==
    ASSUME NEW m \in Requests, NEW d \in Devices
    PROVE  [m EXCEPT !.dst = d] \in Requests
<1>1. m \in [dst : Devices, cmd : Commands, arg : Devices \cup {CONTROLLER_ID} \cup Minutes]
  BY DEF Requests
<1>2. [m EXCEPT !.dst = d] = [dst |-> d, cmd |-> m.cmd, arg |-> m.arg]
  BY <1>1
<1> QED
  BY <1>1, <1>2 DEF Requests

\* What the fields of a request are, by its command.
LEMMA RequestFields ==
    ASSUME NEW m \in Requests
    PROVE  /\ m.dst \in Devices /\ m.cmd \in Commands
           /\ m.arg \in Devices \cup {CONTROLLER_ID} \cup Minutes
           /\ m.cmd = "change_parent" => m.arg \in Controls
           /\ m.cmd = "remove_child" => m.arg \in Devices
           /\ m.cmd \in Registries => m.arg \in Minutes
  BY DEF Requests

\* A response that says nothing of a link, nor begins with a state.
LEMMA PlainResponse ==
    ASSUME NEW d \in Devices, NEW cmd \in Commands \cup {"null"}, NEW code \in ErrorCodes,
           NEW args \in Seq(Nat),
           cmd \in Links => code # "OK",
           cmd = "info" /\ args # <<>> => args[1] \in STATE_OFF .. UNDEFINED_STATE
    PROVE  Response(d, cmd, code, args) \in Responses
  BY DEF Response, Responses

\* A response without arguments.
LEMMA EmptyResponse ==
    ASSUME NEW d \in Devices, NEW cmd \in Commands \cup {"null"}, NEW code \in ErrorCodes,
           cmd \in Links => code # "OK"
    PROVE  Response(d, cmd, code, <<>>) \in Responses
<1>1. <<>> \in Seq(Nat)
  OBVIOUS
<1> QED
  BY <1>1, PlainResponse

\* A pair is a sequence.
LEMMA PairIsSeq ==
    ASSUME NEW S, NEW x \in S, NEW y \in S
    PROVE  <<x, y>> \in Seq(S)
  OBVIOUS

\* The answer to a link names a device of the right sort and the type of its source.
LEMMA LinkResponse ==
    ASSUME NEW d \in Devices, NEW cmd \in Links, NEW code \in ErrorCodes,
           NEW x \in Nat, NEW t \in OwnTypes(d),
           cmd = "change_parent" => x \in Controls,
           cmd = "remove_child" => x \in Devices /\ d \notin Leaves
    PROVE  Response(d, cmd, code, <<x, t>>) \in Responses
<1>1. t \in Nat
  BY OwnTypesAre
<1>2. <<x, t>> \in Seq(Nat) /\ Len(<<x, t>>) = 2 /\ <<x, t>>[1] = x /\ <<x, t>>[2] = t
  <2>1. <<x, t>> \in Seq(Nat)
    BY <1>1, PairIsSeq
  <2>2. Len(<<x, t>>) = 2
    OBVIOUS
  <2>3. <<x, t>>[1] = x /\ <<x, t>>[2] = t
    OBVIOUS
  <2> QED
    BY <2>1, <2>2, <2>3
<1>3. cmd # "info" /\ cmd \in Commands
  BY DEF Links, Commands
<1> QED
  BY <1>2, <1>3 DEF Response, Responses

\* What the fields of a response are, by its command: what parse_response lets
\* through.
LEMMA ResponseFields ==
    ASSUME NEW r \in Responses
    PROVE  /\ r \in [src : Devices, cmd : Commands \cup {"null"}, code : ErrorCodes,
                     args : Seq(Nat)]
           /\ r.cmd \in Links /\ r.code = "OK" =>
                 /\ Len(r.args) = 2 /\ r.args[2] \in OwnTypes(r.src)
                 /\ r.cmd = "change_parent" => r.args[1] \in Controls
                 /\ r.cmd = "remove_child" => r.args[1] \in Devices /\ r.src \notin Leaves
           /\ r.cmd = "info" /\ r.args # <<>> => r.args[1] \in STATE_OFF .. UNDEFINED_STATE
  BY DEF Responses

\* The same response with an error code.
LEMMA ResponseWithError ==
    ASSUME NEW r \in Responses, NEW code \in ErrorCodes, code # "OK"
    PROVE  [r EXCEPT !.code = code] \in Responses
<1>1. r \in [src : Devices, cmd : Commands \cup {"null"}, code : ErrorCodes, args : Seq(Nat)]
      /\ (r.cmd = "info" /\ r.args # <<>> => r.args[1] \in STATE_OFF .. UNDEFINED_STATE)
  BY ResponseFields
<1>2. [r EXCEPT !.code = code] =
          [src |-> r.src, cmd |-> r.cmd, code |-> code, args |-> r.args]
  BY <1>1
<1> QED
  BY <1>1, <1>2 DEF Responses

-----------------------------------------------------------------------------
(* Descriptors and pipes.                                                  *)

\* open returns a free descriptor, if there is one.
LEMMA LowestFreeIs ==
    ASSUME NEW F, FreeFds(F) # {}
    PROVE  LowestFree(F) \in Fds /\ F[LowestFree(F)] = Closed
<1>1. FreeFds(F) \in SUBSET Nat /\ FreeFds(F) \subseteq Fds
  BY Ids DEF FreeFds
<1>2. \E n \in FreeFds(F) : \A m \in FreeFds(F) : n <= m
  BY <1>1, Least
<1>3. LowestFree(F) \in FreeFds(F)
  BY <1>2 DEF LowestFree, Min
<1> QED
  BY <1>3 DEF FreeFds

\* The ends a descriptor can have.
LEMMA EndsAre ==
    /\ Closed \in Ends
    /\ \A d \in Devices : Down(d) \in Ends
    /\ \A p \in Controls : Up(p) \in Ends
  BY DEF Ends

\* open and close keep the descriptors of a process typed.
LEMMA OpenAtIs ==
    ASSUME NEW F \in [Fds -> Ends], NEW fd, NEW end \in Ends
    PROVE  OpenAt(F, fd, end) \in [Fds -> Ends] /\ Close(F, fd) \in [Fds -> Ends]
  BY EndsAre DEF OpenAt, Close

\* write_pipe_request keeps the requests in the pipes typed.
LEMMA SendDownIs ==
    ASSUME NEW q \in [Devices -> Seq(Requests)], NEW end, NEW m \in Requests
    PROVE  SendDown(q, end, m) \in [Devices -> Seq(Requests)]
<1>1. CASE end.dir = "down" /\ Alive(end.id)
  <2> DEFINE e == end.id
  <2>1. SendDown(q, end, m) = [q EXCEPT ![e] = Append(@, m)]
    BY <1>1 DEF SendDown
  <2> HIDE DEF e
  <2>2. CASE e \in Devices
    <3>1. Append(q[e], m) \in Seq(Requests)
      BY <2>2, AppendProperties
    <3> QED
      BY <2>1, <2>2, <3>1
  <2>3. CASE e \notin Devices
    BY <2>1, <2>3
  <2> QED
    BY <2>2, <2>3
<1>2. CASE ~(end.dir = "down" /\ Alive(end.id))
  BY <1>2 DEF SendDown
<1> QED
  BY <1>1, <1>2

\* write_pipe_response keeps the responses in the pipes typed.
LEMMA SendUpIs ==
    ASSUME NEW q \in [Controls -> Seq(Responses)], NEW end, NEW ms \in Seq(Responses)
    PROVE  SendUp(q, end, ms) \in [Controls -> Seq(Responses)]
<1>1. CASE end.dir = "up" /\ Alive(end.id)
  <2> DEFINE e == end.id
  <2>1. SendUp(q, end, ms) = [q EXCEPT ![e] = @ \o ms]
    BY <1>1 DEF SendUp
  <2> HIDE DEF e
  <2>2. CASE e \in Controls
    <3>1. q[e] \o ms \in Seq(Responses)
      BY <2>2, ConcatProperties
    <3> QED
      BY <2>1, <2>2, <3>1
  <2>3. CASE e \notin Controls
    BY <2>1, <2>3
  <2> QED
    BY <2>2, <2>3
<1>2. CASE ~(end.dir = "up" /\ Alive(end.id))
  BY <1>2 DEF SendUp
<1> QED
  BY <1>1, <1>2

\* The end of a process leaves the pipes and the descriptors typed.
LEMMA ExitsTyped ==
    ASSUME PipesTypeOK, NEW p, NEW code \in {"OK", "error", "signal"},
           NEW q \in [Controls -> Seq(Responses)], Exits(p, code, q),
           fifos' \subseteq Devices
    PROVE  PipesTypeOK'
<1> USE DEF PipesTypeOK, Exits
<1>1. exit_code' \in [Devices \cup {CONTROLLER_ID} ->
                         {"absent", "starting", "none", "OK", "error", "signal", "missed"}]
  OBVIOUS
<1>2. down' \in [Devices -> Seq(Requests)] /\ up' \in [Controls -> Seq(Responses)]
  OBVIOUS
<1>3. files' \in [Controls -> [Fds -> Ends]]
  BY EndsAre
<1> QED
  BY <1>1, <1>2, <1>3

\* What a read returns is a message, and leaves messages.
LEMMA TailTyped ==
    ASSUME NEW S, NEW s \in Seq(S), s # <<>>
    PROVE  Head(s) \in S /\ Tail(s) \in Seq(S)
  BY HeadTailProperties

\* The least of a set of naturals is one of them.
LEMMA MinIs ==
    ASSUME NEW S \in SUBSET Nat, S # {}
    PROVE  Min(S) \in S /\ \A m \in S : Min(S) <= m
<1>1. \E n \in S : \A m \in S : n <= m
  BY Least
<1> QED
  BY <1>1 DEF Min

\* Taking one element out of a sequence leaves a sequence.
LEMMA RemoveAtIs ==
    ASSUME NEW S, NEW s \in Seq(S), NEW i \in DOMAIN s
    PROVE  RemoveAt(s, i) \in Seq(S)
<1>1. i \in 1 .. Len(s) /\ Len(s) \in Nat
  OBVIOUS
<1>2. SubSeq(s, 1, i - 1) \in Seq(S)
  <2>1. \A n \in 1 .. i - 1 : s[n] \in S
    BY <1>1
  <2> QED
    BY <1>1, <2>1
<1>3. SubSeq(s, i + 1, Len(s)) \in Seq(S)
  <2>1. \A n \in i + 1 .. Len(s) : s[n] \in S
    BY <1>1
  <2> QED
    BY <1>1, <2>1
<1> QED
  BY <1>2, <1>3, ConcatProperties DEF RemoveAt

-----------------------------------------------------------------------------
(* Tables.                                                                 *)

\* What an entry of a table is.
LEMMA TableIs ==
    ASSUME NEW P, NEW T, IsTable(T, P)
    PROVE  /\ IsRouting(T)
           /\ DOMAIN T \subseteq Devices /\ DOMAIN T \subseteq Nat /\ IsFiniteSet(DOMAIN T)
           /\ T = [x \in DOMAIN T |-> T[x]]
           /\ \A x \in DOMAIN T :
                 /\ T[x] \in [type : OwnTypes(x), parent : P, fd : Fds]
                 /\ T[x].type \in OwnTypes(x) /\ T[x].parent \in P /\ T[x].fd \in Fds
<1>1. /\ DOMAIN T \subseteq Devices
      /\ T \in [DOMAIN T -> [type : DeviceTypes, parent : P, fd : Fds]]
      /\ \A d \in DOMAIN T : T[d].type \in OwnTypes(d)
  BY DEF IsTable
<1>2. IsFiniteSet(DOMAIN T) /\ DOMAIN T \subseteq Nat
  BY <1>1, Ids, FS_Subset
<1>3. T = [x \in DOMAIN T |-> T[x]]
  BY <1>1
<1>4. \A x \in DOMAIN T :
          /\ T[x] \in [type : OwnTypes(x), parent : P, fd : Fds]
          /\ T[x].type \in OwnTypes(x) /\ T[x].parent \in P /\ T[x].fd \in Fds
          /\ T[x] = [type |-> T[x].type, parent |-> T[x].parent, fd |-> T[x].fd]
          /\ T[x].type \in Nat
  BY <1>1, OwnTypesAre
<1>5. T = [x \in DOMAIN T |-> [type |-> T[x].type, parent |-> T[x].parent, fd |-> T[x].fd]]
  BY <1>3, <1>4
<1>6. IsRouting(T)
  BY <1>2, <1>4, <1>5 DEF IsRouting
<1> QED
  BY <1>1, <1>2, <1>3, <1>4, <1>6

\* A function whose entries are such is a table.
LEMMA MakesTable ==
    ASSUME NEW P, NEW T, DOMAIN T \subseteq Devices, T = [x \in DOMAIN T |-> T[x]],
           \A x \in DOMAIN T : T[x] \in [type : OwnTypes(x), parent : P, fd : Fds]
    PROVE  IsTable(T, P)
<1>1. \A x \in DOMAIN T : /\ T[x] \in [type : DeviceTypes, parent : P, fd : Fds]
                          /\ T[x].type \in OwnTypes(x)
  BY OwnTypesAre
<1>2. T \in [DOMAIN T -> [type : DeviceTypes, parent : P, fd : Fds]]
  BY <1>1
<1> QED
  BY <1>1, <1>2 DEF IsTable

\* init_routing_table makes a table.
LEMMA EmptyIsTable == ASSUME NEW P PROVE IsTable(EmptyTable, P)
<1>1. DOMAIN EmptyTable = {}
  BY DEF EmptyTable
<1>2. EmptyTable = [x \in DOMAIN EmptyTable |-> EmptyTable[x]]
  BY DEF EmptyTable
<1> QED
  BY <1>1, <1>2, MakesTable

\* A part of a table is a table.
LEMMA RestrictedIsTable ==
    ASSUME NEW P, NEW T, IsTable(T, P), NEW S
    PROVE  IsTable([x \in DOMAIN T \ S |-> T[x]], P)
<1> DEFINE U == [x \in DOMAIN T \ S |-> T[x]]
<1>1. DOMAIN U \subseteq DOMAIN T /\ \A x \in DOMAIN U : U[x] = T[x]
  OBVIOUS
<1>2. U = [x \in DOMAIN U |-> U[x]]
  OBVIOUS
<1>3. /\ DOMAIN T \subseteq Devices
      /\ \A x \in DOMAIN T : T[x] \in [type : OwnTypes(x), parent : P, fd : Fds]
  BY TableIs
<1> HIDE DEF U
<1> QED
  <2>1. DOMAIN U \subseteq Devices
    BY <1>1, <1>3
  <2>2. \A x \in DOMAIN U : U[x] \in [type : OwnTypes(x), parent : P, fd : Fds]
    BY <1>1, <1>3
  <2>3. IsTable(U, P)
    BY <1>2, <2>1, <2>2, MakesTable
  <2> QED
    BY <2>3 DEF U

\* remove_routing_data leaves a table, with no device that was not there.
LEMMA RemoveRouteTyped ==
    ASSUME NEW P, NEW T, IsTable(T, P), NEW d, NEW p
    PROVE  IsTable(RemoveRoute(T, d, p), P)
           /\ DOMAIN RemoveRoute(T, d, p) \subseteq DOMAIN T
<1>1. CASE d \in DOMAIN T /\ T[d].parent = p
  <2> DEFINE gone == {d} \cup Below(T, d)
  <2>1. RemoveRoute(T, d, p) = [x \in DOMAIN T \ gone |-> T[x]]
    BY <1>1 DEF RemoveRoute
  <2> HIDE DEF gone
  <2>2. IsTable([x \in DOMAIN T \ gone |-> T[x]], P)
    BY RestrictedIsTable
  <2> QED
    BY <2>1, <2>2
<1>2. CASE ~(d \in DOMAIN T /\ T[d].parent = p)
  BY <1>2 DEF RemoveRoute
<1> QED
  BY <1>1, <1>2

\* insert_routing_data_in_bucket makes a table with one device more.
LEMMA InsertRouteTyped ==
    ASSUME NEW P, NEW T, IsTable(T, P), NEW d \in Devices,
           NEW entry \in [type : OwnTypes(d), parent : P, fd : Fds]
    PROVE  IsTable(InsertRoute(T, d, entry), P)
           /\ DOMAIN InsertRoute(T, d, entry) = DOMAIN T \cup {d}
<1> DEFINE U == InsertRoute(T, d, entry)
<1>1. /\ DOMAIN U = DOMAIN T \cup {d} /\ U = [x \in DOMAIN U |-> U[x]]
      /\ \A x \in DOMAIN U : U[x] = IF x = d THEN entry ELSE T[x]
  BY DEF InsertRoute
<1>2. /\ DOMAIN T \subseteq Devices
      /\ \A x \in DOMAIN T : T[x] \in [type : OwnTypes(x), parent : P, fd : Fds]
  BY TableIs
<1> HIDE DEF U
<1>3. \A x \in DOMAIN U : U[x] \in [type : OwnTypes(x), parent : P, fd : Fds]
  BY <1>1, <1>2
<1>4. IsTable(U, P)
  BY <1>1, <1>2, <1>3, MakesTable
<1> QED
  BY <1>1, <1>4 DEF U

\* insert_direct_routing_data makes a table with one device more.
LEMMA InsertDirectTyped ==
    ASSUME NEW P, NEW T, IsTable(T, P), NEW d \in Devices, NEW type \in OwnTypes(d),
           NEW p \in P, NEW fd \in Fds
    PROVE  IsTable(InsertDirect(T, d, type, p, fd), P)
           /\ DOMAIN InsertDirect(T, d, type, p, fd) = DOMAIN T \cup {d}
<1> DEFINE entry == [type |-> type, parent |-> p, fd |-> fd]
<1>1. entry \in [type : OwnTypes(d), parent : P, fd : Fds]
  OBVIOUS
<1>2. InsertDirect(T, d, type, p, fd) = InsertRoute(T, d, entry)
  BY DEF InsertDirect
<1> HIDE DEF entry
<1> QED
  BY <1>1, <1>2, InsertRouteTyped

\* Without a route to the parent nothing is inserted.
LEMMA InsertIndirectTyped ==
    ASSUME NEW P, NEW T, IsTable(T, P), NEW d \in Devices, NEW type \in OwnTypes(d),
           NEW p \in P
    PROVE  IsTable(InsertIndirect(T, d, type, p), P)
<1>1. CASE p \in DOMAIN T
  <2>1. T[p].fd \in Fds
    BY <1>1, TableIs
  <2> DEFINE entry == [type |-> type, parent |-> p, fd |-> T[p].fd]
  <2>2. entry \in [type : OwnTypes(d), parent : P, fd : Fds]
    BY <1>1, <2>1
  <2>3. InsertIndirect(T, d, type, p) = InsertRoute(T, d, entry)
    BY <1>1 DEF InsertIndirect
  <2> HIDE DEF entry
  <2>4. /\ IsTable(InsertRoute(T, d, entry), P)
        /\ DOMAIN InsertRoute(T, d, entry) = DOMAIN T \cup {d}
    BY <2>2, InsertRouteTyped
  <2> QED
    BY <1>1, <2>3, <2>4
<1>2. CASE p \notin DOMAIN T
  BY <1>2 DEF InsertIndirect
<1> QED
  BY <1>1, <1>2

\* Every entry above a hub, a timer or the controller is a hub or a timer.
LEMMA AboveAreControls ==
    ASSUME NEW P, P \subseteq Controls, NEW T, IsTable(T, P), NEW a \in Controls
    PROVE  Range(Upwards(T, a)) \subseteq (Hubs \cup Timers) \cap DOMAIN T
<1> DEFINE R == (Hubs \cup Timers) \cap DOMAIN T
<1>1. /\ IsFiniteSet(DOMAIN T) /\ DOMAIN T \subseteq Devices
      /\ \A x \in DOMAIN T : T[x].parent \in P
  BY TableIs
<1>2. Controls \cap DOMAIN T = R
  BY <1>1, Ids
<1>3. a \in DOMAIN T => a \in R
  BY <1>2
<1>4. \A x \in R : x \in DOMAIN T /\ T[x].parent \in DOMAIN T => T[x].parent \in R
  BY <1>1, <1>2
<1> HIDE DEF R
<1>5. Range(Upwards(T, a)) \subseteq R
  BY <1>1, <1>3, <1>4, UpwardsWithin
<1> QED
  BY <1>5 DEF R

\* Changing types above a control device keeps each to its own.
LEMMA RetypedIsTable ==
    ASSUME NEW P, NEW T, IsTable(T, P), NEW U, IsRouting(U), DOMAIN U = DOMAIN T,
           NEW c \in 0 .. 3,
           \A x \in DOMAIN T :
              /\ U[x].parent = T[x].parent /\ U[x].fd = T[x].fd
              /\ \/ U[x].type = T[x].type
                 \/ U[x].type = WithChildType(T[x].type, c) /\ x \in Hubs \cup Timers
    PROVE  IsTable(U, P)
<1>1. /\ DOMAIN T \subseteq Devices
      /\ \A x \in DOMAIN T :
            T[x].type \in OwnTypes(x) /\ T[x].parent \in P /\ T[x].fd \in Fds
  BY TableIs
<1>2. U = [x \in DOMAIN U |-> U[x]]
  BY DEF IsRouting
<1>3. ASSUME NEW x \in DOMAIN U
      PROVE  U[x] \in [type : OwnTypes(x), parent : P, fd : Fds]
  <2>1. U[x] = [type |-> U[x].type, parent |-> U[x].parent, fd |-> U[x].fd]
    BY DEF IsRouting
  <2>2. U[x].type \in OwnTypes(x)
    BY <1>1, OwnTypesAre
  <2>3. U[x].parent \in P /\ U[x].fd \in Fds
    BY <1>1
  <2> QED
    BY <2>1, <2>2, <2>3
<1> QED
  BY <1>1, <1>2, <1>3, MakesTable

\* update_type_to_empty keeps the devices of the table and their types their own.
LEMMA ToEmptyTyped ==
    ASSUME NEW P, P \subseteq Controls, NEW T, IsTable(T, P), NEW a \in Controls
    PROVE  /\ IsTable(UpdateTypeToEmpty(T, a), P)
           /\ DOMAIN UpdateTypeToEmpty(T, a) = DOMAIN T
<1> DEFINE U == UpdateTypeToEmpty(T, a)
<1>1. IsRouting(T)
  BY TableIs
<1>2. /\ IsRouting(U)
      /\ DOMAIN U = DOMAIN T
      /\ \A x \in DOMAIN T :
            /\ U[x].parent = T[x].parent /\ U[x].fd = T[x].fd
            /\ \/ U[x].type = T[x].type
               \/ /\ U[x].type = WithChildType(T[x].type, 0)
                  /\ x \in Range(Upwards(T, a))
  BY <1>1, UpdateTypeToEmptyIs, Zenon
<1> HIDE DEF U
<1>3. Range(Upwards(T, a)) \subseteq Hubs \cup Timers
  BY AboveAreControls
<1>4. \A x \in DOMAIN T :
          /\ U[x].parent = T[x].parent /\ U[x].fd = T[x].fd
          /\ \/ U[x].type = T[x].type
             \/ U[x].type = WithChildType(T[x].type, 0) /\ x \in Hubs \cup Timers
  BY <1>2, <1>3
<1>5. IsTable(U, P)
  BY <1>2, <1>4, RetypedIsTable
<1> QED
  BY <1>2, <1>5 DEF U

\* update_type_to_not_empty keeps the devices of the table and their types their own.
LEMMA ToNotEmptyTyped ==
    ASSUME NEW P, P \subseteq Controls, NEW T, IsTable(T, P), NEW d \in DOMAIN T
    PROVE  /\ IsTable(UpdateTypeToNotEmpty(T, d), P)
           /\ DOMAIN UpdateTypeToNotEmpty(T, d) = DOMAIN T
<1> DEFINE U == UpdateTypeToNotEmpty(T, d)
           c == ChildType(T[d].type)
<1>1. IsRouting(T) /\ T[d].parent \in Controls /\ T[d].type \in Nat
  BY TableIs, OwnTypesAre DEF IsRouting
<1>2. /\ IsRouting(U)
      /\ DOMAIN U = DOMAIN T
      /\ \A x \in DOMAIN T :
            /\ U[x].parent = T[x].parent /\ U[x].fd = T[x].fd
            /\ \/ U[x].type = T[x].type
               \/ /\ U[x].type = WithChildType(T[x].type, c)
                  /\ x \in Range(Upwards(T, T[d].parent)) /\ IsEmpty(T[x].type)
  BY <1>1, UpdateTypeToNotEmptyIs, Zenon
<1>3. c \in 0 .. 3
  BY <1>1, ChildTypeRanges
<1> HIDE DEF U, c
<1>4. Range(Upwards(T, T[d].parent)) \subseteq Hubs \cup Timers
  BY <1>1, AboveAreControls
<1>5. \A x \in DOMAIN T :
          /\ U[x].parent = T[x].parent /\ U[x].fd = T[x].fd
          /\ \/ U[x].type = T[x].type
             \/ U[x].type = WithChildType(T[x].type, c) /\ x \in Hubs \cup Timers
  BY <1>2, <1>4
<1>6. IsTable(U, P)
  BY <1>2, <1>3, <1>5, RetypedIsTable
<1> QED
  BY <1>2, <1>6 DEF U

\* What a new parent is told of a branch are responses.
LEMMA HistoryTyped ==
    ASSUME NEW P, P \subseteq Controls, NEW T, IsTable(T, P), NEW p
    PROVE  LET devices == Walk(T, p)
           IN  [n \in DOMAIN devices |->
                   Response(devices[n], "change_parent", "OK",
                            <<T[devices[n]].parent, T[devices[n]].type>>)] \in Seq(Responses)
<1> DEFINE devices == Walk(T, p)
           answer(n) == Response(devices[n], "change_parent", "OK",
                                 <<T[devices[n]].parent, T[devices[n]].type>>)
<1>1. devices \in Seq(DOMAIN T) /\ DOMAIN T \subseteq Devices
  BY TableIs, WalkListsBelow
<1> HIDE DEF devices
<1>2. ASSUME NEW n \in DOMAIN devices
      PROVE  answer(n) \in Responses
  <2>1. devices[n] \in DOMAIN T
    BY <1>1
  <2>2. T[devices[n]].parent \in Controls /\ T[devices[n]].type \in OwnTypes(devices[n])
    BY <2>1, TableIs
  <2>3. T[devices[n]].parent \in Nat /\ devices[n] \in Devices
    BY <1>1, <2>1, <2>2, Ids
  <2>4. "change_parent" \in Links /\ "OK" \in ErrorCodes
    BY DEF Links, ErrorCodes
  <2> QED
    BY <2>2, <2>3, <2>4, LinkResponse
<1>3. [n \in DOMAIN devices |-> answer(n)] \in Seq(Responses)
  <2> HIDE DEF answer
  <2>1. DOMAIN devices = 1 .. Len(devices) /\ Len(devices) \in Nat
    BY <1>1
  <2>2. [n \in DOMAIN devices |-> answer(n)] \in [1 .. Len(devices) -> Responses]
    BY <1>2, <2>1
  <2> QED
    BY <2>1, <2>2
<1> QED
  BY <1>3 DEF devices

-----------------------------------------------------------------------------
(* A device that is on its way out stays so.                               *)

\* The globals H of a device may become G: if it has been told to exit, it
\* still has.
Persists(H, G) ==
    /\ "force_exit" \in DOMAIN H /\ "force_exit" \in DOMAIN G
    /\ H.force_exit => G.force_exit

\* One change of the globals after another.
LEMMA PersistsOn ==
    ASSUME NEW H, NEW G, NEW K, Persists(H, G), Persists(G, K)
    PROVE  Persists(H, K)
  BY DEF Persists

-----------------------------------------------------------------------------
(* The pipes a control process takes for open.                             *)

\* Whoever is next to p in U is so in T too, under the same descriptor.
DirectKept(T, U, p) == \A d \in Direct(U, p) : d \in Direct(T, p) /\ U[d].fd = T[d].fd

\* Children that are kept stay open.
LEMMA KeptAreOpen ==
    ASSUME NEW T, NEW U, NEW p, NEW F, ChildrenOpen(T, p, F), DirectKept(T, U, p)
    PROVE  ChildrenOpen(U, p, F)
  BY DEF ChildrenOpen, DirectKept

\* One change of a table after another.
LEMMA KeptOn ==
    ASSUME NEW T, NEW U, NEW V, NEW p, DirectKept(T, U, p), DirectKept(U, V, p)
    PROVE  DirectKept(T, V, p)
  BY DEF DirectKept

\* A route that is removed leaves the others where they are.
LEMMA RemoveRouteKeeps ==
    ASSUME NEW T, NEW d, NEW q, NEW p
    PROVE  DirectKept(T, RemoveRoute(T, d, q), p)
  BY DEF DirectKept, Direct, RemoveRoute

\* Types that are brought up to date change no route.
LEMMA RetypingKeeps ==
    ASSUME NEW P, NEW T, IsTable(T, P), NEW p
    PROVE  /\ \A a : DirectKept(T, UpdateTypeToEmpty(T, a), p)
           /\ \A d \in DOMAIN T : DirectKept(T, UpdateTypeToNotEmpty(T, d), p)
<1>1. IsRouting(T) /\ \A d \in DOMAIN T : T[d].type \in Nat
  BY TableIs DEF IsRouting
<1>2. ASSUME NEW U, DOMAIN U = DOMAIN T,
             \A x \in DOMAIN T : U[x].parent = T[x].parent /\ U[x].fd = T[x].fd
      PROVE  DirectKept(T, U, p)
  BY <1>2 DEF DirectKept, Direct
<1>3. ASSUME NEW a PROVE DirectKept(T, UpdateTypeToEmpty(T, a), p)
  <2> DEFINE U == UpdateTypeToEmpty(T, a)
  <2>1. /\ DOMAIN U = DOMAIN T
        /\ \A x \in DOMAIN T : U[x].parent = T[x].parent /\ U[x].fd = T[x].fd
    BY <1>1, UpdateTypeToEmptyIs, Zenon
  <2> HIDE DEF U
  <2>2. DirectKept(T, U, p)
    BY <1>2, <2>1
  <2> QED
    BY <2>2 DEF U
<1>4. ASSUME NEW d \in DOMAIN T PROVE DirectKept(T, UpdateTypeToNotEmpty(T, d), p)
  <2> DEFINE U == UpdateTypeToNotEmpty(T, d)
  <2>1. /\ DOMAIN U = DOMAIN T
        /\ \A x \in DOMAIN T : U[x].parent = T[x].parent /\ U[x].fd = T[x].fd
    BY <1>1, UpdateTypeToNotEmptyIs, Zenon
  <2> HIDE DEF U
  <2>2. DirectKept(T, U, p)
    BY <1>2, <2>1
  <2> QED
    BY <2>2 DEF U
<1> QED
  BY <1>3, <1>4

\* A device that is entered below another leaves the children of p where they
\* are, but for itself.
LEMMA InsertIndirectKeeps ==
    ASSUME NEW T, NEW d, NEW type, NEW q, NEW p, q # p
    PROVE  DirectKept(T, InsertIndirect(T, d, type, q), p)
<1>1. CASE q \in DOMAIN T
  <2> DEFINE entry == [type |-> type, parent |-> q, fd |-> T[q].fd]
             U == [x \in DOMAIN T \cup {d} |-> IF x = d THEN entry ELSE T[x]]
  <2>1. InsertIndirect(T, d, type, q) = U
    BY <1>1 DEF InsertIndirect, InsertRoute
  <2>2. entry.parent = q
    OBVIOUS
  <2> HIDE DEF entry
  <2>3. DirectKept(T, U, p)
    BY <2>2 DEF DirectKept, Direct
  <2> QED
    BY <2>1, <2>3
<1>2. CASE q \notin DOMAIN T
  BY <1>2 DEF InsertIndirect, DirectKept
<1> QED
  BY <1>1, <1>2

\* Pipes are told apart by whose they are and by what they carry.
LEMMA EndsDiffer ==
    /\ \A d : Down(d) # Closed /\ Down(d).dir = "down" /\ Down(d).id = d
    /\ \A p : Up(p) # Closed /\ Up(p).dir = "up" /\ Up(p).id = p
    /\ \A d, p : Down(d) # Up(p)
    /\ \A c, d : Down(c) = Down(d) => c = d
    /\ Closed.dir = "closed"
<1>1. /\ \A d : Down(d).dir = "down" /\ Down(d).id = d
      /\ \A p : Up(p).dir = "up" /\ Up(p).id = p
      /\ Closed.dir = "closed"
  BY DEF Down, Up, Closed
<1> QED
  BY <1>1

\* Opening a free descriptor, and closing one that is not a child's, leaves the
\* children open.
LEMMA OthersStayOpen ==
    ASSUME NEW P, NEW T, IsTable(T, P), NEW p, NEW F \in [Fds -> Ends], ChildrenOpen(T, p, F)
    PROVE  /\ \A fd, end : F[fd] = Closed => ChildrenOpen(T, p, OpenAt(F, fd, end))
           /\ \A fd : (\A d \in Direct(T, p) : F[fd] # Down(d)) => ChildrenOpen(T, p, Close(F, fd))
<1>1. \A d \in Direct(T, p) : T[d].fd \in Fds /\ F[T[d].fd] = Down(d)
  BY TableIs DEF Direct, ChildrenOpen
<1>2. ASSUME NEW fd, NEW end, F[fd] = Closed
      PROVE  ChildrenOpen(T, p, OpenAt(F, fd, end))
  BY <1>1, <1>2, EndsDiffer DEF OpenAt, ChildrenOpen
<1>3. ASSUME NEW fd, \A d \in Direct(T, p) : F[fd] # Down(d)
      PROVE  ChildrenOpen(T, p, Close(F, fd))
  BY <1>1, <1>3 DEF Close, ChildrenOpen
<1> QED
  BY <1>2, <1>3

\* A child whose pipe has been opened and that is entered under its descriptor
\* is open, as are the others.
LEMMA InsertDirectOpens ==
    ASSUME NEW P, NEW T, IsTable(T, P), NEW p, NEW F \in [Fds -> Ends], ChildrenOpen(T, p, F),
           NEW d, NEW type, NEW fd \in Fds, F[fd] = Closed
    PROVE  /\ ChildrenOpen(InsertDirect(T, d, type, p, fd), p, OpenAt(F, fd, Down(d)))
           /\ (d \in DOMAIN T /\ T[d].parent = p) =>
                 /\ IsOpen(OpenAt(F, fd, Down(d)), T[d].fd)
                 /\ ChildrenOpen(InsertDirect(T, d, type, p, fd), p,
                                 Close(OpenAt(F, fd, Down(d)), T[d].fd))
<1> DEFINE entry == [type |-> type, parent |-> p, fd |-> fd]
           U == [x \in DOMAIN T \cup {d} |-> IF x = d THEN entry ELSE T[x]]
           G == [f \in Fds |-> IF f = fd THEN Down(d) ELSE F[f]]
           old == T[d].fd
           K == [f \in Fds |-> IF f = old THEN Closed ELSE G[f]]
<1>1. /\ InsertDirect(T, d, type, p, fd) = U
      /\ OpenAt(F, fd, Down(d)) = G /\ Close(G, old) = K
  BY DEF InsertDirect, InsertRoute, OpenAt, Close
<1>2. entry.parent = p /\ entry.fd = fd
  OBVIOUS
<1>3. \A x \in DOMAIN T : T[x].parent = p => T[x].fd \in Fds /\ F[T[x].fd] = Down(x)
  BY TableIs DEF Direct, ChildrenOpen
<1> HIDE DEF entry
<1>4. \A x \in Direct(U, p) : \/ x = d /\ U[x].fd = fd
                              \/ /\ x # d /\ x \in DOMAIN T /\ T[x].parent = p
                                 /\ U[x].fd = T[x].fd
  BY <1>2 DEF Direct
<1> HIDE DEF U
<1>5. ChildrenOpen(U, p, G)
  BY <1>3, <1>4, EndsDiffer DEF ChildrenOpen
<1>6. ASSUME d \in DOMAIN T, T[d].parent = p
      PROVE  G[old] # Closed /\ ChildrenOpen(U, p, K)
  <2>1. old \in Fds /\ F[old] = Down(d) /\ old # fd
    BY <1>3, <1>6, EndsDiffer
  <2>2. \A x \in Direct(U, p) : U[x].fd # old
    BY <1>3, <1>4, <2>1, EndsDiffer
  <2> QED
    BY <1>3, <1>4, <2>1, <2>2, EndsDiffer DEF ChildrenOpen
<1> QED
  BY <1>1, <1>5, <1>6 DEF IsOpen

\* Only the descriptors of p change.
OnlyFilesOf(p) == \A q \in Controls \ {p} : files'[q] = files[q]

\* A process that opens or closes does it to itself.
LEMMA OwnFilesOnly ==
    ASSUME NEW p, NEW F, files' = [files EXCEPT ![p] = F]
    PROVE  OnlyFilesOf(p)
<1>1. \A q : q # p => [files EXCEPT ![p] = F][q] = files[q]
  OBVIOUS
<1> QED
  BY <1>1 DEF OnlyFilesOf

=============================================================================
