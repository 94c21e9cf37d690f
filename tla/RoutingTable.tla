---------------------------- MODULE RoutingTable ----------------------------
(***************************************************************************)
(* The routing table of a hub, a timer or the controller (src/routing.c):  *)
(* what is known of every device below, as a function from the ids in the  *)
(* table to [type, parent, fd].  fd is next_hop_fd, the descriptor a       *)
(* message for that device leaves by.  The table holds no entry for its    *)
(* owner, so walking up the parents ends there.                            *)
(*                                                                         *)
(* Ids below UNIQUE_ID_HASHES have a bucket each, and the searches, which  *)
(* scan the buckets in order, return them in increasing order.             *)
(***************************************************************************)
EXTENDS Devices, FiniteSets, SequencesExt

EmptyTable == [d \in {} |-> [type |-> 0, parent |-> 0, fd |-> 0]]

\* The members of a set of ids, in increasing order.
InIdOrder(S) ==
    [n \in 1 .. Cardinality(S) |-> CHOOSE x \in S : Cardinality({y \in S : y <= x}) = n]

Direct(T, p) == {d \in DOMAIN T : T[d].parent = p}

\* Every entry below p: Direct, and Direct of those, to the depth of the table.  The
\* searches of the code (find_all_routing_data, remove_routing_data) have no such
\* bound, here nor in Walk: from a p that is below itself they never end, and Below
\* and Walk are not what they do.  From any other p the bound changes nothing.
Below(T, p) ==
    LET below[n \in 0 .. Cardinality(DOMAIN T)] ==
            IF n = 0 THEN {} ELSE UNION {Direct(T, d) : d \in below[n - 1] \cup {p}}
    IN  below[Cardinality(DOMAIN T)]

\* The order of find_all_routing_data: a device, then all that is below it.
Walk(T, p) ==
    LET listed(q, walk) ==
            LET children == InIdOrder(Direct(T, q))
            IN  FlattenSeq([i \in DOMAIN children |->
                    <<children[i]>> \o walk[children[i]]])
        walk[n \in 0 .. Cardinality(DOMAIN T)] ==
            IF n = 0 THEN [q \in DOMAIN T \cup {p} |-> <<>>]
            ELSE [q \in DOMAIN T \cup {p} |-> listed(q, walk[n - 1])]
    IN  walk[Cardinality(DOMAIN T)][p]

\* d, its parent, the parent of that, for as long as they are in the table.
Upwards(T, d) ==
    LET up[n \in 0 .. Cardinality(DOMAIN T)] ==
            IF n = 0 THEN d
            ELSE LET x == up[n - 1] IN IF x \in DOMAIN T THEN T[x].parent ELSE x
    IN  [n \in {n \in 1 .. Cardinality(DOMAIN T) : up[n - 1] \in DOMAIN T} |-> up[n - 1]]

InsertRoute(T, d, entry) ==
    [x \in DOMAIN T \cup {d} |-> IF x = d THEN entry ELSE T[x]]

InsertDirect(T, d, type, owner, fd) ==
    InsertRoute(T, d, [type |-> type, parent |-> owner, fd |-> fd])

\* Mutant: an entry already there keeps its parent.
InsertIndirectOnce(T, d, type, parent) ==
    IF parent \in DOMAIN T /\ d \notin DOMAIN T
    THEN InsertRoute(T, d, [type |-> type, parent |-> parent, fd |-> T[parent].fd])
    ELSE T

\* ROUTE_NOT_FOUND, the table unchanged, when the parent is not in the table.
InsertIndirect(T, d, type, parent) ==
    IF parent \in DOMAIN T
    THEN InsertRoute(T, d, [type |-> type, parent |-> parent, fd |-> T[parent].fd])
    ELSE T

\* Mutant: what is below the entry stays.
RemoveEntryOnly(T, d, parent) ==
    IF d \in DOMAIN T /\ T[d].parent = parent
    THEN [x \in DOMAIN T \ {d} |-> T[x]]
    ELSE T

RemoveRoute(T, d, parent) ==
    IF d \in DOMAIN T /\ T[d].parent = parent
    THEN [x \in DOMAIN T \ ({d} \cup Below(T, d)) |-> T[x]]
    ELSE T

SetTypes(T, ds, c) ==
    [x \in DOMAIN T |-> IF x \in ds THEN [T[x] EXCEPT !.type = WithChildType(@, c)]
                                    ELSE T[x]]

\* From d upwards, a device whose children are now all empty becomes empty.
\* A device that is empty already ends the walk.
UpdateTypeToEmpty(T, d) ==
    LET up == Upwards(T, d)
        Empties(j) == /\ ~IsEmpty(T[up[j]].type)
                      /\ \A k \in Direct(T, up[j]) :
                            IsEmpty(T[k].type) \/ (j > 1 /\ k = up[j - 1])
    IN  SetTypes(T, {up[i] : i \in {i \in DOMAIN up : \A j \in 1 .. i : Empties(j)}}, 0)

\* Mutant: only the parent takes the type.
TypeOfParentOnly(T, d) ==
    IF IsEmpty(T[d].type) \/ T[d].parent \notin DOMAIN T THEN T
    ELSE SetTypes(T, {T[d].parent}, ChildType(T[d].type))

\* The empty ancestors of d, up to the first that has a type, take d's.
UpdateTypeToNotEmpty(T, d) ==
    LET up == Upwards(T, T[d].parent)
    IN  IF IsEmpty(T[d].type) THEN T
        ELSE SetTypes(T, {up[i] : i \in {i \in DOMAIN up :
                            \A j \in 1 .. i : IsEmpty(T[up[j]].type)}},
                      ChildType(T[d].type))

=============================================================================
