----------------------------- MODULE TreeProofs -----------------------------
(***************************************************************************)
(* What a link may and may not do to the topology, for any number of       *)
(* devices: it stays a tree, and every hub of it has leaves of one kind.   *)
(*                                                                         *)
(* Both follow from the same fact: a branch holds the children of all it   *)
(* holds, so a set closed under "child of" and without the new parent      *)
(* separates a device from it.                                             *)
(***************************************************************************)
EXTENDS Tree, TLAPS

\* A branch holds its device and, with a device, the children of that device.
LEMMA BranchIsClosed ==
    ASSUME NEW d
    PROVE  /\ Branch(d) \subseteq Members
           /\ d \in Members => d \in Branch(d)
           /\ d \in Members => HasChildren(Branch(d))
<1>1. Branch(d) \subseteq Members
  BY DEF Branch
<1>2. d \in Members => d \in Branch(d)
  BY DEF Branch
<1>3. d \in Members => HasChildren(Branch(d))
  <2> SUFFICES ASSUME NEW x \in Members, parent[x] \in Branch(d)
               PROVE  x \in Branch(d)
    BY DEF HasChildren
  <2>1. ASSUME NEW S \in SUBSET Members, d \in S, HasChildren(S)
        PROVE  x \in S
    <3>1. parent[x] \in S
      BY <2>1 DEF Branch
    <3> QED
      BY <2>1, <3>1 DEF HasChildren
  <2> QED
    BY <2>1 DEF Branch
<1> QED
  BY <1>1, <1>2, <1>3

\* A branch is in every set that holds its device and all the children of what
\* it holds.
LEMMA BranchIsLeast ==
    ASSUME NEW d, NEW S \in SUBSET Members, d \in S, HasChildren(S)
    PROVE  Branch(d) \subseteq S
  BY DEF Branch

-----------------------------------------------------------------------------
\* The empty tree is well typed.
LEMMA TypeInit == Init => TypeOK
  BY DEF Init, TypeOK, Members, Parents

\* A join adds one device, below the controller, and moves no other.
LEMMA TypeJoin ==
    ASSUME TypeOK, NEW d, Join(d)
    PROVE  TypeOK' /\ Members' = Members \cup {d} /\ d \notin Members
           /\ parent'[d] = CONTROLLER_ID
           /\ \A x \in Members : parent'[x] = parent[x] /\ parent[x] # d
  BY DEF Join, TypeOK, Members, Parents

\* A move changes the parent of one device only.
LEMMA TypeMove ==
    ASSUME TypeOK, NEW d, NEW p, Move(d, p)
    PROVE  TypeOK' /\ Members' = Members /\ parent'[d] = p
           /\ \A x \in Members : x # d => parent'[x] = parent[x]
  BY DEF Move, TypeOK, Members

\* A leave takes one device away and moves no other.
LEMMA TypeLeave ==
    ASSUME TypeOK, NEW d, Leave(d)
    PROVE  TypeOK' /\ Members' = Members \ {d}
           /\ \A x \in Members' : parent'[x] = parent[x]
  BY DEF Leave, TypeOK, Members

\* Type correctness: a device is below a hub or the controller.
THEOREM TypeCorrect == Spec => []TypeOK
<1>1. TypeOK /\ [Next]_parent => TypeOK'
  <2> SUFFICES ASSUME TypeOK, [Next]_parent
               PROVE  TypeOK'
    OBVIOUS
  <2>0. CASE \E d \in Devices : Join(d)
    BY <2>0, TypeJoin
  <2>1. CASE \E d \in Members, p \in Parents : Move(d, p)
    BY <2>1, TypeMove
  <2>2. CASE \E d \in Members : Leave(d)
    BY <2>2, TypeLeave
  <2>3. CASE UNCHANGED parent
    BY <2>3 DEF TypeOK, Members
  <2> QED
    BY <2>0, <2>1, <2>2, <2>3 DEF Next
<1> QED
  BY TypeInit, <1>1, PTL DEF Spec

-----------------------------------------------------------------------------
\* Below nothing that moved, the children of a device are what they were.
LEMMA MovedBranches ==
    ASSUME TypeOK, NEW d, NEW p, Move(d, p), NEW a \in Members
    PROVE  /\ p \notin Branch(a) => Branch(a)' \subseteq Branch(a)
           /\ Branch(a)' \subseteq Branch(a) \cup Branch(d)
<1>1. d \in Members
  BY DEF Move
<1>2. /\ Members' = Members /\ parent'[d] = p
      /\ \A x \in Members : x # d => parent'[x] = parent[x]
  BY TypeMove
<1>3. /\ a \in Branch(a) /\ Branch(a) \subseteq Members /\ HasChildren(Branch(a))
      /\ d \in Branch(d) /\ Branch(d) \subseteq Members /\ HasChildren(Branch(d))
  BY <1>1, BranchIsClosed
<1>4. ASSUME NEW S \in SUBSET Members, a \in S,
             \A x \in Members : parent'[x] \in S => x \in S
      PROVE  Branch(a)' \subseteq S
  BY <1>2, <1>4 DEF Branch, HasChildren
<1>5. ASSUME p \notin Branch(a)
      PROVE  Branch(a)' \subseteq Branch(a)
  <2>1. ASSUME NEW x \in Members, parent'[x] \in Branch(a)
        PROVE  x \in Branch(a)
    <3>1. x # d
      BY <1>2, <1>5, <2>1
    <3> QED
      BY <1>2, <1>3, <2>1, <3>1 DEF HasChildren
  <2> QED
    BY <1>3, <1>4, <2>1
<1>6. Branch(a)' \subseteq Branch(a) \cup Branch(d)
  <2>1. ASSUME NEW x \in Members, parent'[x] \in Branch(a) \cup Branch(d)
        PROVE  x \in Branch(a) \cup Branch(d)
    <3>1. CASE x = d
      BY <1>3, <3>1
    <3>2. CASE x # d
      BY <1>2, <1>3, <2>1, <3>2 DEF HasChildren
    <3> QED
      BY <3>1, <3>2
  <2> QED
    BY <1>3, <1>4, <2>1
<1> QED
  BY <1>5, <1>6

\* What joins has nothing below it and is below nothing.
LEMMA JoinedBranches ==
    ASSUME TypeOK, NEW d, Join(d), NEW a \in Members'
    PROVE  Branch(a)' \subseteq IF a = d THEN {d} ELSE Branch(a)
<1>1. /\ Members' = Members \cup {d} /\ d \notin Members
      /\ parent'[d] = CONTROLLER_ID
      /\ \A x \in Members : parent'[x] = parent[x] /\ parent[x] # d
  BY TypeJoin
<1>2. CONTROLLER_ID \notin Members' /\ d \in Devices
  BY <1>1 DEF TypeOK, Devices, Join
<1>3. CASE a = d
  <2>1. \A x \in Members' : parent'[x] \in {d} => x \in {d}
    BY <1>1
  <2> QED
    BY <1>1, <1>3, <2>1 DEF Branch, HasChildren
<1>4. CASE a # d
  <2>1. a \in Branch(a) /\ Branch(a) \subseteq Members /\ HasChildren(Branch(a))
    BY <1>1, <1>4, BranchIsClosed
  <2>2. \A x \in Members' : parent'[x] \in Branch(a) => x \in Branch(a)
    BY <1>1, <1>2, <2>1 DEF HasChildren
  <2>3. Branch(a) \in SUBSET Members'
    BY <1>1, <2>1
  <2> HIDE <2>2
  <2>4. ASSUME NEW S \in SUBSET Members', a \in S,
               \A x \in Members' : parent'[x] \in S => x \in S
        PROVE  Branch(a)' \subseteq S
    BY <2>4 DEF Branch, HasChildren
  <2> QED
    BY <1>4, <2>1, <2>2, <2>3, <2>4
<1> QED
  BY <1>3, <1>4

\* What leaves takes nothing with it.
LEMMA LeftBranches ==
    ASSUME TypeOK, NEW d, Leave(d), NEW a \in Members'
    PROVE  Branch(a)' \subseteq Branch(a)
<1>1. /\ Members' = Members \ {d}
      /\ \A x \in Members' : parent'[x] = parent[x]
  BY TypeLeave
<1>2. a \in Branch(a) /\ Branch(a) \subseteq Members /\ HasChildren(Branch(a))
  BY <1>1, BranchIsClosed
<1> DEFINE S == Branch(a) \ {d}
<1>3. S \in SUBSET Members' /\ a \in S
  BY <1>1, <1>2
<1>4. \A x \in Members' : parent'[x] \in S => x \in S
  BY <1>1, <1>2 DEF HasChildren
<1>5. Branch(a)' \subseteq S
  <2> HIDE DEF S
  <2> QED
    BY <1>3, <1>4 DEF Branch, HasChildren
<1> QED
  BY <1>5

-----------------------------------------------------------------------------
\* A set of devices that is closed under "parent of" after a link, and is not
\* empty, has one inside it that was closed before: what of it is not below the
\* device that moved.
LEMMA AcyclicMove ==
    ASSUME TypeOK, Acyclic, NEW d, NEW p, Move(d, p)
    PROVE  Acyclic'
<1>1. d \in Members
  BY DEF Move
<1>2. /\ Members' = Members /\ parent'[d] = p
      /\ \A x \in Members : x # d => parent'[x] = parent[x]
  BY TypeMove
<1>3. d \in Branch(d) /\ HasChildren(Branch(d))
  BY <1>1, BranchIsClosed
<1> SUFFICES ASSUME NEW S \in SUBSET Members, \A x \in S : parent'[x] \in S
             PROVE  S = {}
  BY <1>2 DEF Acyclic
<1> DEFINE R == S \ Branch(d)
<1>4. \A x \in R : parent[x] \in R
  BY <1>2, <1>3 DEF HasChildren
<1>5. R = {}
  BY <1>4 DEF Acyclic
<1>6. d \notin S
  <2> SUFFICES ASSUME d \in S
               PROVE  FALSE
    OBVIOUS
  <2>1. p \in S
    BY <1>2
  <2>2. p \in Members /\ p # CONTROLLER_ID
    BY <2>1 DEF TypeOK, Devices
  <2>3. p \notin Branch(d)
    BY <2>2 DEF Move
  <2> QED
    BY <1>5, <2>1, <2>3
<1>7. \A x \in S : parent[x] \in S
  BY <1>2, <1>6
<1> QED
  BY <1>7 DEF Acyclic

\* A device that joins closes no cycle.
LEMMA AcyclicJoin ==
    ASSUME TypeOK, Acyclic, NEW d, Join(d)
    PROVE  Acyclic'
<1>1. /\ Members' = Members \cup {d} /\ d \notin Members
      /\ parent'[d] = CONTROLLER_ID
      /\ \A x \in Members : parent'[x] = parent[x] /\ parent[x] # d
  BY TypeJoin
<1>2. CONTROLLER_ID \notin Members'
  BY <1>1 DEF TypeOK, Devices, Join
<1> SUFFICES ASSUME NEW S \in SUBSET Members', \A x \in S : parent'[x] \in S
             PROVE  S = {}
  BY DEF Acyclic
<1>3. d \notin S
  BY <1>1, <1>2
<1>4. S \in SUBSET Members /\ \A x \in S : parent[x] \in S
  BY <1>1, <1>3
<1> QED
  BY <1>4 DEF Acyclic

\* A device that leaves closes no cycle.
LEMMA AcyclicLeave ==
    ASSUME TypeOK, Acyclic, NEW d, Leave(d)
    PROVE  Acyclic'
<1>1. /\ Members' = Members \ {d}
      /\ \A x \in Members' : parent'[x] = parent[x]
  BY TypeLeave
<1> SUFFICES ASSUME NEW S \in SUBSET Members', \A x \in S : parent'[x] \in S
             PROVE  S = {}
  BY DEF Acyclic
<1>2. S \in SUBSET Members /\ \A x \in S : parent[x] \in S
  BY <1>1
<1> QED
  BY <1>2 DEF Acyclic

\* The empty tree has no cycle.
LEMMA AcyclicInit == Init => Acyclic
<1> SUFFICES ASSUME Init, NEW S \in SUBSET Members, \A x \in S : parent[x] \in S
             PROVE  S = {}
  BY DEF Acyclic
<1> QED
  BY DEF Init, Members, Devices

\* No link makes a device its own ancestor, so every walk up the parents, of
\* the controller or of a message, ends at the controller.
THEOREM NeverItsOwnAncestor == Spec => []Acyclic
<1>1. TypeOK /\ Acyclic /\ [Next]_parent => Acyclic'
  <2> SUFFICES ASSUME TypeOK, Acyclic, [Next]_parent
               PROVE  Acyclic'
    OBVIOUS
  <2>0. CASE \E d \in Devices : Join(d)
    BY <2>0, AcyclicJoin
  <2>1. CASE \E d \in Members, p \in Parents : Move(d, p)
    BY <2>1, AcyclicMove
  <2>2. CASE \E d \in Members : Leave(d)
    BY <2>2, AcyclicLeave
  <2>3. CASE UNCHANGED parent
    BY <2>3 DEF Acyclic, Members
  <2> QED
    BY <2>0, <2>1, <2>2, <2>3 DEF Next
<1> QED
  BY AcyclicInit, TypeCorrect, <1>1, PTL DEF Spec

-----------------------------------------------------------------------------
\* A part of a set of one kind is of one kind.
LEMMA KindsOfSubset ==
    ASSUME NEW S, NEW T, S \subseteq T, AtMostOne(Kinds(T))
    PROVE  AtMostOne(Kinds(S))
  BY DEF AtMostOne, Kinds

\* A link that LINK allows keeps every hub to one kind of leaf.
LEMMA OneKindMove ==
    ASSUME TypeOK, OneKind, NEW d, NEW p, Move(d, p)
    PROVE  OneKind'
<1>1. Members' = Members
  BY TypeMove
<1> SUFFICES ASSUME NEW a \in Members
             PROVE  AtMostOne(Kinds(Branch(a)'))
  BY <1>1 DEF OneKind, AtMostOne, Kinds
<1>2. CASE p \notin Branch(a)
  <2>1. Branch(a)' \subseteq Branch(a)
    BY <1>2, MovedBranches
  <2> QED
    BY <2>1, KindsOfSubset DEF OneKind
<1>3. CASE p \in Branch(a)
  <2>1. Branch(a)' \subseteq Branch(a) \cup Branch(d)
    BY MovedBranches
  <2>2. AtMostOne(Kinds(Branch(a) \cup Branch(d)))
    BY <1>3 DEF Move
  <2> QED
    BY <2>1, <2>2, KindsOfSubset
<1> QED
  BY <1>2, <1>3

\* A device that joins keeps every hub to one kind of leaf.
LEMMA OneKindJoin ==
    ASSUME TypeOK, OneKind, NEW d, Join(d)
    PROVE  OneKind'
<1>1. Members' = Members \cup {d}
  BY TypeJoin
<1> SUFFICES ASSUME NEW a \in Members'
             PROVE  AtMostOne(Kinds(Branch(a)'))
  BY DEF OneKind, AtMostOne, Kinds
<1>2. Branch(a)' \subseteq IF a = d THEN {d} ELSE Branch(a)
  BY JoinedBranches
<1>3. CASE a = d
  BY <1>2, <1>3 DEF AtMostOne, Kinds
<1>4. CASE a # d
  BY <1>1, <1>2, <1>4, KindsOfSubset DEF OneKind
<1> QED
  BY <1>3, <1>4

\* A device that leaves keeps every hub to one kind of leaf.
LEMMA OneKindLeave ==
    ASSUME TypeOK, OneKind, NEW d, Leave(d)
    PROVE  OneKind'
<1>1. Members' \subseteq Members
  BY TypeLeave
<1> SUFFICES ASSUME NEW a \in Members'
             PROVE  AtMostOne(Kinds(Branch(a)'))
  BY DEF OneKind, AtMostOne, Kinds
<1>2. Branch(a)' \subseteq Branch(a)
  BY LeftBranches
<1> QED
  BY <1>1, <1>2, KindsOfSubset DEF OneKind

\* At first every branch is one device.
LEMMA OneKindInit == Init => OneKind
<1> SUFFICES ASSUME Init, NEW a \in Members
             PROVE  AtMostOne(Kinds(Branch(a)))
  BY DEF OneKind
<1>1. HasChildren({a}) /\ {a} \in SUBSET Members
  BY DEF Init, Members, HasChildren, Devices
<1>2. Branch(a) \subseteq {a}
  BY <1>1, BranchIsLeast
<1> QED
  BY <1>2 DEF AtMostOne, Kinds

\* Whatever is linked where, all the leaves below a hub are of one kind.
THEOREM HubsOfOneKind == Spec => []OneKind
<1>1. TypeOK /\ OneKind /\ [Next]_parent => OneKind'
  <2> SUFFICES ASSUME TypeOK, OneKind, [Next]_parent
               PROVE  OneKind'
    OBVIOUS
  <2>0. CASE \E d \in Devices : Join(d)
    BY <2>0, OneKindJoin
  <2>1. CASE \E d \in Members, p \in Parents : Move(d, p)
    BY <2>1, OneKindMove
  <2>2. CASE \E d \in Members : Leave(d)
    BY <2>2, OneKindLeave
  <2>3. CASE UNCHANGED parent
    BY <2>3 DEF OneKind, Members, AtMostOne, Kinds, Branch, HasChildren
  <2> QED
    BY <2>0, <2>1, <2>2, <2>3 DEF Next
<1> QED
  BY OneKindInit, TypeCorrect, <1>1, PTL DEF Spec

=============================================================================
