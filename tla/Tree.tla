-------------------------------- MODULE Tree --------------------------------
(***************************************************************************)
(* What the network promises of its topology, whatever the messages that   *)
(* make it so: the devices are a tree below the controller, what joins it  *)
(* is a child of the controller, a link moves a branch of it as a whole,   *)
(* and only what has nothing below it leaves.                              *)
(* The rules of a move are those of check_user_command (controller.c) and  *)
(* of the report: not below itself, and only among leaves of its kind.     *)
(***************************************************************************)
EXTENDS Devices, FiniteSets

CONSTANTS Hubs, Leaves, Kind

Devices == (Hubs \cup Leaves) \ {CONTROLLER_ID}

VARIABLE parent     \* of every device added and not told to exit

Members == DOMAIN parent
Parents == Hubs \cup {CONTROLLER_ID}

TypeOK ==
    /\ Members \subseteq Devices
    /\ parent \in [Members -> Parents]

\* A set of devices that has, with a device, all its children.
HasChildren(S) == \A x \in Members : parent[x] \in S => x \in S

\* Device d and everything below it: in all such sets that d is in.
Branch(d) ==
    {x \in Members : \A S \in SUBSET Members : d \in S /\ HasChildren(S) => x \in S}

Kinds(S) == {Kind[x] : x \in S \cap Leaves}
AtMostOne(K) == \A j, k \in K : j = k

Init == \E S \in SUBSET Devices : parent = [d \in S |-> CONTROLLER_ID]

Join(d) ==
    /\ d \in Devices \ Members
    /\ parent' = [x \in Members \cup {d} |-> IF x = d THEN CONTROLLER_ID ELSE parent[x]]
    /\ \A x \in Members : parent[x] # d

Move(d, p) ==
    /\ d \in Members /\ p \in Parents
    /\ parent' = [parent EXCEPT ![d] = p]
    /\ p # CONTROLLER_ID => p \in Members /\ p \notin Branch(d)
    /\ \A a \in Members : p \in Branch(a) => AtMostOne(Kinds(Branch(a) \cup Branch(d)))

Leave(d) ==
    /\ d \in Members
    /\ parent' = [x \in Members \ {d} |-> parent[x]]
    /\ \A x \in Members : parent[x] # d

Next ==
    \/ \E d \in Devices : Join(d)
    \/ \E d \in Members, p \in Parents : Move(d, p)
    \/ \E d \in Members : Leave(d)

Spec == Init /\ [][Next]_parent

-----------------------------------------------------------------------------
\* No device is above itself: walking up from any, as check_user_command and
\* every message does, ends at the controller.
Acyclic ==
    \A S \in SUBSET Members : (\A x \in S : parent[x] \in S) => S = {}

\* All the leaves below a device are of one kind, so that a switch of a hub
\* means the same to each of them.
OneKind == \A d \in Members : AtMostOne(Kinds(Branch(d)))

=============================================================================
