----------------------------- MODULE TwoLevels -----------------------------
(***************************************************************************)
(* The network of a user who keeps to two levels, hubs below the           *)
(* controller and leaves below either, and who waits for the links: what   *)
(* holds of it at every moment.  At any time at most one link is under     *)
(* way, which is at one of the stages below: where its message is, and     *)
(* what the old parent, the new one, the controller and the leaf know of   *)
(* it by then.  Infos and switches are under way with it, any number.      *)
(***************************************************************************)
EXTENDS Network

TwoLevelUser ==
    /\ Timers = {} /\ Faults = {} /\ MaxHurried = 0 /\ MaxCrashes = 0
    /\ Cardinality(Devices) < ChildrenModulus
    /\ \A c \in Offered :
          /\ c.cmd \notin {"delete", "exit", "end_of_file"}
          /\ c.cmd = "change_parent" => c.dst \in Leaves
          /\ c.cmd = "add" => c \in Settled

-----------------------------------------------------------------------------
(* Messages.  Those in Asks and Tells leave the topology alone.            *)

Asks == {m \in Requests : m.cmd \notin Links \cup {"delete"}}
Tells == {r \in Responses : r.cmd # "delete" /\ ~(r.cmd \in Links /\ r.code = "OK")}

\* All the messages of a queue are in S; all but one, which is m.
AllIn(q, S) == \A i \in DOMAIN q : q[i] \in S
AllBut(q, S, m) == \E i \in DOMAIN q : q[i] = m /\ \A j \in DOMAIN q \ {i} : q[j] \in S

\* The messages of the link of leaf d from p to q, in their order.
LinkTo(d, q) == [dst |-> d, cmd |-> "change_parent", arg |-> q]
Joining(d, q) == Response(d, "change_parent", "OK", <<q, Kind[d]>>)
Forget(p, d) == [dst |-> p, cmd |-> "remove_child", arg |-> d]
Forgotten(p, d) == Response(p, "remove_child", "OK", <<d, hub[p].device_type>>)

LeafIdle(L) == L.pc = "read" \/ (L.pc = "reply" /\ L.response \in Tells)

HubIdle(H) ==
    /\ ~H.remove_child_succeed
    /\ \/ H.pc = "read"
       \/ H.pc \in {"forward", "send"} /\ H.request \in Asks
       \/ H.pc = "reply" /\ H.response \in Tells

\* Nothing but infos and switches is under way, except to the devices in D, in
\* the main threads of the hubs in H, in the leaves L and to the parents in U.
Silent(D, H, L, U) ==
    /\ \A x \in Devices \ D : AllIn(down[x], Asks)
    /\ \A h \in Hubs \ H : HubIdle(hub[h])
    /\ \A x \in Leaves \ L : LeafIdle(leaf[x])
    /\ \A x \in Controls \ U : AllIn(up[x], Tells)

-----------------------------------------------------------------------------
(* What every process keeps to.                                            *)

Known == DOMAIN routing_table
Entered(h) == DOMAIN hub[h].routing_table

\* Whom a leaf may be below.
Hosts == {h \in Hubs : h \in Known /\ Running(h)} \cup {CONTROLLER_ID}

\* Nobody dies or is told to.
Peaceful ==
    /\ exit_code[CONTROLLER_ID] = "none"
    /\ \A d \in Devices : exit_code[d] \in {"absent", "starting", "none"}
    /\ fifos = Devices \ Absent
    /\ Known \subseteq fifos
    /\ \A d \in fifos \ Known : user_command = AddCommand(d) /\ exit_code[d] = "starting"
    /\ exiting = {} /\ signalled = {} /\ ~blocked
    /\ ~pending_shutdown /\ ~force_exit /\ ~reaped
    /\ user_command \in Offered \cup {NoRequest}
    /\ user_command.cmd = "add" => user_command.dst \notin Known
    /\ hurried = 0 /\ ~interrupted

\* A device with parent p in the table of owner p is next to it, and every pipe
\* that is open to a device is that of such an entry.
PipesOf(T, p, F) ==
    /\ ChildrenOpen(T, p, F)
    /\ \A f \in Fds : F[f].dir = "down" => \E d \in Direct(T, p) : T[d].fd = f

ControllerInOrder ==
    /\ PipesOf(routing_table, CONTROLLER_ID, files[CONTROLLER_ID])
    /\ \A d \in Known :
          LET p == routing_table[d].parent
          IN  p # CONTROLLER_ID =>
                 /\ d \in Leaves /\ p \in Hosts
                 /\ routing_table[d].fd = routing_table[p].fd

HubInOrder(h, H) ==
    /\ ~H.force_exit /\ ~H.parent_changed /\ H.parent_id = CONTROLLER_ID
    /\ H.bottom_pc = "read"
    /\ H.snd # NoFd /\ files[h][H.snd] = Up(CONTROLLER_ID)
    /\ \A i \in DOMAIN H.pending : H.pending[i].cmd # "delete"
    /\ PipesOf(H.routing_table, h, files[h])
    /\ \A x \in DOMAIN H.routing_table :
          /\ x \in Leaves /\ H.routing_table[x].parent = h
          /\ H.device_type = HubOr(Kind[x])
    /\ H.children = Cardinality(DOMAIN H.routing_table)
    /\ H.has_children <=> DOMAIN H.routing_table # {}
    /\ DOMAIN H.routing_table = {} => H.device_type = HUB_DEVICE

LeafInOrder(x, L) ==
    /\ ~L.force_exit /\ L.snd = L.parent_id /\ L.response.cmd # "delete"
    /\ L.parent_id \in Hosts
    /\ x \notin Known => L.parent_id = CONTROLLER_ID

InOrderAlways ==
    /\ Peaceful /\ ControllerInOrder
    /\ \A h \in Hubs : HubInOrder(h, hub[h])
    /\ \A x \in Leaves : LeafInOrder(x, leaf[x])

-----------------------------------------------------------------------------
(* Where a leaf is, in the eyes of itself, the controller and the hubs.    *)

At(x, own, known, hubs) ==
    /\ leaf[x].parent_id = own
    /\ x \in Known => routing_table[x].parent = known
    /\ \A h \in Hubs : x \in Entered(h) <=> h \in hubs

Home(x) == At(x, leaf[x].parent_id, leaf[x].parent_id, {leaf[x].parent_id})

\* The controller and all hubs, but those in X, agree on the types of the hubs.
Agreed(X) == \A h \in (Hubs \cap Known) \ X : routing_table[h].type = hub[h].device_type

\* Parent q can take leaf d in.
MayTakeIn(d, q) ==
    /\ FreeFds(files[q]) # {}
    /\ q \in Hubs => \A x \in Entered(q) : Kind[x] = Kind[d]

\* The link of d from p to q is under way, and all other leaves are at home.
UnderWayTo(d, p, q) ==
    /\ d \in Leaves \cap Known /\ p \in Hosts /\ q \in Hosts /\ p # q
    /\ user_command.cmd # "add"
    /\ \A x \in Leaves \ {d} : Home(x)

NoLinkTyped == user_command.cmd # "change_parent"

\* No link is under way.
Still ==
    /\ NoLinkTyped /\ Silent({}, {}, {}, {})
    /\ \A x \in Leaves : Home(x)
    /\ Agreed({})

\* The request is on its way to the leaf, by way of its parent.
Asked(d, p, q) ==
    /\ UnderWayTo(d, p, q) /\ At(d, p, p, {p}) /\ Agreed({}) /\ MayTakeIn(d, q)

Typed(d, p, q) ==
    /\ Asked(d, p, q) /\ user_command = LinkTo(d, q)
    /\ Silent({}, {}, {}, {})
Sent(d, p, q, x) ==
    /\ Asked(d, p, q) /\ NoLinkTyped
    /\ x \in {p, d} \ {CONTROLLER_ID} /\ AllBut(down[x], Asks, LinkTo(d, q))
    /\ Silent({x}, {}, {}, {})
Routed(d, p, q) ==
    /\ Asked(d, p, q) /\ NoLinkTyped
    /\ p \in Hubs /\ hub[p].pc = "send" /\ hub[p].request = LinkTo(d, q)
    /\ files[p][hub[p].route] = Down(d) /\ ~hub[p].remove_child_succeed
    /\ Silent({}, {p}, {}, {})

\* The leaf has moved and tells its new parent.
HasMoved(d, p, q) ==
    /\ UnderWayTo(d, p, q) /\ At(d, q, p, {p}) /\ Agreed({}) /\ MayTakeIn(d, q)
    /\ NoLinkTyped

Telling(d, p, q) ==
    /\ HasMoved(d, p, q)
    /\ leaf[d].pc = "reply" /\ leaf[d].response = Joining(d, q)
    /\ Silent({}, {}, {d}, {})
TellsNew(d, p, q) ==
    /\ HasMoved(d, p, q)
    /\ AllBut(up[q], Tells, Joining(d, q))
    /\ Silent({}, {}, {}, {q})

\* The new parent, a hub, has taken it in and tells the controller.
Joined(d, p, q) ==
    /\ UnderWayTo(d, p, q) /\ At(d, q, p, {p, q}) /\ Agreed({q}) /\ NoLinkTyped
    /\ q \in Hubs /\ routing_table[q].type \in {HUB_DEVICE, hub[q].device_type}
    /\ AllBut(up[CONTROLLER_ID], Tells, Joining(d, q))
    /\ Silent({}, {}, {}, {CONTROLLER_ID})

\* The old parent, a hub, is told to forget it.
Told(d, p, q) ==
    /\ UnderWayTo(d, p, q) /\ At(d, q, q, {p, q}) /\ Agreed({}) /\ NoLinkTyped
    /\ p \in Hubs

ToldOld(d, p, q) ==
    /\ Told(d, p, q)
    /\ AllBut(down[p], Asks, Forget(p, d))
    /\ Silent({p}, {}, {}, {})
Removes(d, p, q) ==
    /\ Told(d, p, q)
    /\ hub[p].pc = "remove" /\ hub[p].request = Forget(p, d) /\ ~hub[p].remove_child_succeed
    /\ Silent({}, {p}, {}, {})

\* The old parent has forgotten it and says what type that leaves it.
Over(d, p, q) ==
    /\ UnderWayTo(d, p, q) /\ At(d, q, q, {q}) /\ Agreed({p}) /\ NoLinkTyped
    /\ p \in Hubs

Types(d, p, q) ==
    /\ Over(d, p, q)
    /\ hub[p].pc = "type" /\ hub[p].request = Forget(p, d)
    /\ Silent({}, {p}, {}, {})
Answering(d, p, q) ==
    /\ Over(d, p, q)
    /\ hub[p].pc = "reply" /\ hub[p].response = Forgotten(p, d)
    /\ Silent({}, {p}, {}, {})
Left(d, p, q) ==
    /\ Over(d, p, q)
    /\ AllBut(up[CONTROLLER_ID], Tells, Forgotten(p, d))
    /\ Silent({}, {}, {}, {CONTROLLER_ID})

TwoLevels ==
    /\ InOrderAlways
    /\ \/ Still
       \/ \E d \in Leaves, p \in Controls, q \in Controls :
             \/ Typed(d, p, q) \/ Sent(d, p, q, p) \/ Sent(d, p, q, d) \/ Routed(d, p, q)
             \/ Telling(d, p, q) \/ TellsNew(d, p, q) \/ Joined(d, p, q)
             \/ ToldOld(d, p, q) \/ Removes(d, p, q)
             \/ Types(d, p, q) \/ Answering(d, p, q) \/ Left(d, p, q)

=============================================================================
