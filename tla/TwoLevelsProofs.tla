-------------------------- MODULE TwoLevelsProofs --------------------------
(***************************************************************************)
(* What holds of the network of a user who keeps to two levels             *)
(* (TwoLevelUser), with any number of hubs, leaves, descriptors and        *)
(* commands under way.  The inductive invariant is TwoLevels.  A step is   *)
(* aside (Aside: of an info, a switch or their answers), and leaves the    *)
(* link under way at its stage; or it is one of an add, while no link is   *)
(* under way; or it takes the link from one of its stages to the next:     *)
(*                                                                         *)
(*    Typed - Sent - Routed - Sent - Telling - TellsNew - Joined           *)
(*                              - ToldOld - Removes - Types - Answering    *)
(*                              - Left - Still                             *)
(*                                                                         *)
(* (a stage at the old or the new parent is left out if that is the        *)
(* controller).  At rest all queues are empty, so no link is under way.    *)
(***************************************************************************)
EXTENDS TwoLevels, NetworkProofs

-----------------------------------------------------------------------------
(* Queues in which all messages, or all but one, are in a set.             *)

\* What is read from a queue leaves the others in it.
LEMMA TailOfQueue ==
    ASSUME NEW M, NEW q \in Seq(M), q # <<>>, NEW S
    PROVE  /\ AllIn(q, S) => Head(q) \in S /\ AllIn(Tail(q), S)
           /\ \A m : m \notin S /\ AllBut(q, S, m) =>
                 /\ Head(q) \in S => AllBut(Tail(q), S, m)
                 /\ Head(q) \notin S => Head(q) = m /\ AllIn(Tail(q), S)
<1>1. /\ Len(q) \in Nat /\ DOMAIN q = 1 .. Len(q) /\ Len(q) # 0
      /\ Head(q) = q[1] /\ DOMAIN Tail(q) = 1 .. Len(q) - 1
      /\ \A i \in 1 .. Len(q) - 1 : Tail(q)[i] = q[i + 1]
  OBVIOUS
<1> DEFINE n == Len(q)
           r == Tail(q)
<1>2. /\ n \in Nat /\ DOMAIN q = 1 .. n /\ 1 \in DOMAIN q
      /\ Head(q) = q[1] /\ DOMAIN r = 1 .. n - 1
      /\ \A i \in 1 .. n - 1 : r[i] = q[i + 1]
  BY <1>1
<1> HIDE DEF n, r
<1>3. AllIn(q, S) => Head(q) \in S /\ AllIn(r, S)
  BY <1>2 DEF AllIn
<1>4. ASSUME NEW m, m \notin S, NEW i \in DOMAIN q, q[i] = m,
             \A j \in DOMAIN q \ {i} : q[j] \in S
      PROVE  /\ Head(q) \in S => AllBut(r, S, m)
             /\ Head(q) \notin S => Head(q) = m /\ AllIn(r, S)
  <2>1. CASE i = 1
    BY <1>2, <1>4, <2>1 DEF AllIn
  <2>2. CASE i # 1
    <3>1. i - 1 \in DOMAIN r /\ r[i - 1] = m
      BY <1>2, <1>4, <2>2
    <3>2. ASSUME NEW j \in DOMAIN r \ {i - 1} PROVE r[j] \in S
      <4>1. j \in 1 .. n - 1 /\ j + 1 \in 1 .. n /\ j + 1 # i /\ r[j] = q[j + 1]
        BY <1>2, <1>4, <2>2, <3>2
      <4> QED
        BY <1>2, <1>4, <4>1, Zenon
    <3>3. Head(q) \in S
      BY <1>2, <1>4, <2>2
    <3> QED
      BY <3>1, <3>2, <3>3 DEF AllBut
  <2> QED
    BY <2>1, <2>2
<1> QED
  BY <1>3, <1>4 DEF r, AllBut

\* What is written to a queue comes after the others.
LEMMA WrittenToQueue ==
    ASSUME NEW M, NEW q \in Seq(M), NEW ms \in Seq(M), NEW S, AllIn(ms, S)
    PROVE  /\ AllIn(q, S) => AllIn(q \o ms, S)
           /\ \A m : AllBut(q, S, m) => AllBut(q \o ms, S, m)
           /\ \A m : AllIn(q, S) => AllBut(q \o (<<m>> \o ms), S, m)
<1> DEFINE n == Len(q)
           k == Len(ms)
           r == q \o ms
<1>1. /\ n \in Nat /\ k \in Nat /\ DOMAIN q = 1 .. n /\ DOMAIN ms = 1 .. k
      /\ DOMAIN r = 1 .. n + k
      /\ \A i \in 1 .. n + k : r[i] = IF i <= n THEN q[i] ELSE ms[i - n]
  OBVIOUS
<1>2. ASSUME NEW m
      PROVE  /\ DOMAIN (q \o (<<m>> \o ms)) = 1 .. n + k + 1
             /\ \A i \in 1 .. n + k + 1 : (q \o (<<m>> \o ms))[i] =
                   IF i <= n THEN q[i] ELSE IF i = n + 1 THEN m ELSE ms[i - n - 1]
  <2>1. /\ <<m>> \o ms \in Seq(M \cup {m}) /\ q \in Seq(M \cup {m})
        /\ Len(<<m>> \o ms) = k + 1
        /\ \A i \in 1 .. k + 1 : (<<m>> \o ms)[i] = IF i = 1 THEN m ELSE ms[i - 1]
    OBVIOUS
  <2> DEFINE s == <<m>> \o ms
  <2> HIDE DEF s
  <2>2. /\ DOMAIN (q \o s) = 1 .. n + Len(s)
        /\ \A i \in 1 .. n + Len(s) : (q \o s)[i] = IF i <= n THEN q[i] ELSE s[i - n]
    BY <2>1 DEF s
  <2> QED
    BY <1>1, <2>1, <2>2 DEF s
<1> HIDE DEF n, k, r
<1>3. AllIn(q, S) => AllIn(r, S)
  BY <1>1 DEF AllIn
<1>4. ASSUME NEW m, AllBut(q, S, m) PROVE AllBut(r, S, m)
  <2>1. PICK i \in DOMAIN q : q[i] = m /\ \A j \in DOMAIN q \ {i} : q[j] \in S
    BY <1>4 DEF AllBut
  <2>2. i \in DOMAIN r /\ r[i] = m /\ \A j \in DOMAIN r \ {i} : r[j] \in S
    BY <1>1, <2>1 DEF AllIn
  <2> QED
    BY <2>2 DEF AllBut
<1>5. ASSUME NEW m, AllIn(q, S) PROVE AllBut(q \o (<<m>> \o ms), S, m)
  <2> DEFINE s == q \o (<<m>> \o ms)
  <2>1. /\ DOMAIN s = 1 .. n + k + 1
        /\ \A i \in 1 .. n + k + 1 : s[i] =
              IF i <= n THEN q[i] ELSE IF i = n + 1 THEN m ELSE ms[i - n - 1]
    BY <1>2
  <2> HIDE DEF s
  <2>2. ASSUME NEW j \in DOMAIN s \ {n + 1} PROVE s[j] \in S
    <3>1. CASE j \in 1 .. n
      BY <1>1, <1>5, <2>1, <3>1 DEF AllIn
    <3>2. CASE j - (n + 1) \in 1 .. k
      BY <1>1, <2>1, <3>2 DEF AllIn
    <3> QED
      BY <1>1, <2>1, <2>2, <3>1, <3>2
  <2>3. n + 1 \in DOMAIN s /\ s[n + 1] = m
    BY <1>1, <2>1
  <2>4. AllBut(s, S, m)
    BY <2>2, <2>3 DEF AllBut
  <2> QED
    BY <2>4 DEF s
<1> QED
  BY <1>3, <1>4, <1>5 DEF r

\* The same of a single message.
LEMMA AppendedToQueue ==
    ASSUME NEW M, NEW q \in Seq(M), NEW x \in M, NEW S
    PROVE  /\ x \in S /\ AllIn(q, S) => AllIn(Append(q, x), S)
           /\ \A m : x \in S /\ AllBut(q, S, m) => AllBut(Append(q, x), S, m)
           /\ AllIn(q, S) => AllBut(Append(q, x), S, x)
<1> DEFINE n == Len(q)
           r == Append(q, x)
<1>1. /\ n \in Nat /\ DOMAIN q = 1 .. n /\ DOMAIN r = 1 .. n + 1
      /\ \A i \in 1 .. n + 1 : r[i] = IF i <= n THEN q[i] ELSE x
  OBVIOUS
<1> HIDE DEF n, r
<1>2. x \in S /\ AllIn(q, S) => AllIn(r, S)
  BY <1>1 DEF AllIn
<1>3. ASSUME NEW m, x \in S, AllBut(q, S, m) PROVE AllBut(r, S, m)
  <2>1. PICK i \in DOMAIN q : q[i] = m /\ \A j \in DOMAIN q \ {i} : q[j] \in S
    BY <1>3 DEF AllBut
  <2>2. i \in DOMAIN r /\ r[i] = m /\ \A j \in DOMAIN r \ {i} : r[j] \in S
    BY <1>1, <1>3, <2>1
  <2> QED
    BY <2>2 DEF AllBut
<1>4. ASSUME AllIn(q, S) PROVE AllBut(r, S, x)
  <2>1. n + 1 \in DOMAIN r /\ r[n + 1] = x /\ \A j \in DOMAIN r \ {n + 1} : r[j] \in S
    BY <1>1, <1>4 DEF AllIn
  <2> QED
    BY <2>1 DEF AllBut
<1> QED
  BY <1>2, <1>3, <1>4 DEF r

-----------------------------------------------------------------------------
(* Steps that leave the topology alone.                                    *)

SameHub(H, G) ==
    /\ G.device_type = H.device_type /\ G.routing_table = H.routing_table
    /\ G.children = H.children /\ G.has_children = H.has_children
    /\ G.parent_id = H.parent_id /\ G.parent_changed = H.parent_changed
    /\ G.force_exit = H.force_exit /\ G.snd = H.snd /\ G.bottom_pc = H.bottom_pc
    /\ (\A i \in DOMAIN H.pending : H.pending[i].cmd # "delete")
          => \A i \in DOMAIN G.pending : G.pending[i].cmd # "delete"

SameLeaf(L, M) ==
    /\ M.parent_id = L.parent_id /\ M.force_exit = L.force_exit /\ M.snd = L.snd
    /\ L.response.cmd # "delete" => M.response.cmd # "delete"

peaceVars == <<exit_code, fifos, exiting, blocked, shutdownVars, hurried, interrupted>>

\* Nobody's tables, descriptors and places change.
SameShape ==
    /\ UNCHANGED <<peaceVars, files, routing_table>>
    /\ \A h \in Hubs : SameHub(hub[h], hub'[h])
    /\ \A x \in Leaves : SameLeaf(leaf[x], leaf'[x])
    /\ user_command' \in Offered \cup {NoRequest}
    /\ \/ user_command' = user_command
       \/ user_command.cmd # "add" /\ user_command'.cmd # "add"

\* Then all is in order as before, and every leaf where it was.
LEMMA SameShapeKeeps ==
    ASSUME InOrderAlways, SameShape
    PROVE  /\ InOrderAlways'
           /\ \A x \in Leaves : Home(x) => Home(x)'
           /\ \A x \in Leaves : \A own, known, hubs : At(x, own, known, hubs) => At(x, own, known, hubs)'
           /\ \A X : Agreed(X) => Agreed(X)'
           /\ \A d \in Leaves, q \in Controls : MayTakeIn(d, q) => MayTakeIn(d, q)'
           /\ \A d \in Leaves : \A p, q : UnderWayTo(d, p, q) /\ user_command'.cmd # "add"
                                          => UnderWayTo(d, p, q)'
<1>1. /\ Known' = Known /\ Hosts' = Hosts /\ Absent' = Absent
      /\ \A h \in Hubs : Entered(h)' = Entered(h)
  BY DEF SameShape, peaceVars, SameHub, Known, Hosts, Running, Entered, Absent
<1>2. Peaceful'
  <2>1. /\ UNCHANGED <<exit_code, fifos, exiting, blocked, hurried, interrupted>>
        /\ UNCHANGED <<signalled, pending_shutdown, force_exit, reaped>>
    BY DEF SameShape, peaceVars, shutdownVars
  <2>2. \A d \in fifos \ Known : user_command = AddCommand(d) /\ user_command' = user_command
    BY DEF InOrderAlways, Peaceful, SameShape, AddCommand
  <2> QED
    BY <1>1, <2>1, <2>2 DEF InOrderAlways, Peaceful, SameShape
<1>3. ControllerInOrder'
  BY <1>1 DEF InOrderAlways, ControllerInOrder, SameShape, PipesOf, ChildrenOpen
<1>4. ASSUME NEW h \in Hubs PROVE HubInOrder(h, hub[h])'
  BY DEF InOrderAlways, HubInOrder, SameShape, SameHub, PipesOf, ChildrenOpen
<1>5. ASSUME NEW x \in Leaves PROVE LeafInOrder(x, leaf[x])'
  BY <1>1 DEF InOrderAlways, LeafInOrder, SameShape, SameLeaf
<1>6. \A x \in Leaves : \A own, known, hubs : At(x, own, known, hubs) => At(x, own, known, hubs)'
  BY <1>1 DEF At, SameShape, SameLeaf
<1>7. \A x \in Leaves : Home(x) => Home(x)'
  BY <1>1 DEF Home, At, SameShape, SameLeaf
<1>8. \A X : Agreed(X) => Agreed(X)'
  BY <1>1 DEF Agreed, SameShape, SameHub
<1>9. \A d \in Leaves, q \in Controls : MayTakeIn(d, q) => MayTakeIn(d, q)'
  BY <1>1 DEF MayTakeIn, SameShape, FreeFds
<1>10. \A d \in Leaves : \A p, q : UnderWayTo(d, p, q) /\ user_command'.cmd # "add"
                                          => UnderWayTo(d, p, q)'
  BY <1>1, <1>7 DEF UnderWayTo
<1> QED
  BY <1>2, <1>3, <1>4, <1>5, <1>6, <1>7, <1>8, <1>9, <1>10 DEF InOrderAlways

\* Queue r is queue q but for infos and switches.
QueueAside(q, r, S) ==
    /\ AllIn(q, S) => AllIn(r, S)
    /\ \A m : m \notin S /\ AllBut(q, S, m) => AllBut(r, S, m)

\* A hub's main thread stays with its link if it has one, and takes none if not.
HubAside(H, G) ==
    /\ HubIdle(H) => HubIdle(G)
    /\ ~HubIdle(H) =>
          /\ G.pc = H.pc /\ G.request = H.request /\ G.response = H.response
          /\ G.route = H.route /\ G.remove_child_succeed = H.remove_child_succeed

LeafAside(L, M) ==
    /\ LeafIdle(L) => LeafIdle(M)
    /\ ~LeafIdle(L) => M.pc = L.pc /\ M.response = L.response

\* A step on infos and switches only.
Aside ==
    /\ SameShape
    /\ \A x \in Devices : QueueAside(down[x], down'[x], Asks)
    /\ \A h \in Hubs : HubAside(hub[h], hub'[h])
    /\ \A x \in Leaves : LeafAside(leaf[x], leaf'[x])
    /\ \A x \in Controls : QueueAside(up[x], up'[x], Tells)
    /\ \/ user_command' = user_command
       \/ NoLinkTyped /\ NoLinkTyped' /\ user_command'.cmd # "add"

\* The messages of a link are none of infos and switches.
LEMMA LinkMessages ==
    /\ \A d, q : LinkTo(d, q) \notin Asks
    /\ \A p, d : Forget(p, d) \notin Asks
    /\ \A d, q : Joining(d, q) \notin Tells
    /\ \A p, d : Forgotten(p, d) \notin Tells
  BY DEF LinkTo, Forget, Joining, Forgotten, Asks, Tells, Links, Response

\* A step aside leaves the link under way, if there is one, where it is.
LEMMA AsideKeeps ==
    ASSUME TwoLevels, Aside
    PROVE  TwoLevels'
<1>1. /\ InOrderAlways'
      /\ \A x \in Leaves : Home(x) => Home(x)'
      /\ \A x \in Leaves : \A own, known, hubs : At(x, own, known, hubs) => At(x, own, known, hubs)'
      /\ \A X : Agreed(X) => Agreed(X)'
      /\ \A d \in Leaves, q \in Controls : MayTakeIn(d, q) => MayTakeIn(d, q)'
      /\ \A d \in Leaves : \A p, q : UnderWayTo(d, p, q) /\ user_command'.cmd # "add"
                                      => UnderWayTo(d, p, q)'
  BY SameShapeKeeps DEF TwoLevels, Aside
<1>2. \A D, H, L, U : Silent(D, H, L, U) => Silent(D, H, L, U)'
  BY DEF Silent, Aside, QueueAside, HubAside, LeafAside
<1>3. NoLinkTyped => NoLinkTyped'
  BY DEF Aside, NoLinkTyped
<1>4. Still => Still'
  BY <1>1, <1>2, <1>3 DEF Still
<1>5. ASSUME NEW d \in Leaves, NEW p \in Controls, NEW q \in Controls
      PROVE  /\ Asked(d, p, q) => Asked(d, p, q)'
             /\ HasMoved(d, p, q) => HasMoved(d, p, q)'
             /\ Told(d, p, q) => Told(d, p, q)'
             /\ Over(d, p, q) => Over(d, p, q)'
             /\ UnderWayTo(d, p, q) => UnderWayTo(d, p, q)'
  <2>1. UnderWayTo(d, p, q) => UnderWayTo(d, p, q)'
    <3>1. UnderWayTo(d, p, q) => user_command'.cmd # "add"
      BY DEF UnderWayTo, Aside
    <3> QED
      BY <1>1, <3>1
  <2> QED
    BY <1>1, <1>3, <2>1 DEF Asked, HasMoved, Told, Over
<1>6. /\ \A x \in Devices : \A m : m \notin Asks /\ AllBut(down[x], Asks, m) => AllBut(down'[x], Asks, m)
      /\ \A x \in Controls : \A m : m \notin Tells /\ AllBut(up[x], Tells, m) => AllBut(up'[x], Tells, m)
  BY DEF Aside, QueueAside
<1>7. ASSUME NEW d \in Leaves, NEW p \in Controls, NEW q \in Controls,
             Typed(d, p, q) \/ Sent(d, p, q, p) \/ Sent(d, p, q, d) \/ Routed(d, p, q)
      PROVE  TwoLevels'
  <2>1. CASE Typed(d, p, q)
    <3>1. user_command' = user_command
      BY <2>1 DEF Typed, LinkTo, Aside, NoLinkTyped
    <3>2. Typed(d, p, q)'
      BY <1>2, <1>5, <2>1, <3>1 DEF Typed
    <3> QED
      BY <1>1, <3>2 DEF TwoLevels
  <2>2. ASSUME NEW x \in {p, d}, Sent(d, p, q, x) PROVE Sent(d, p, q, x)'
    <3>1. x \in Devices
      BY <2>2, Ids DEF Sent, Controls
    <3>2. AllBut(down'[x], Asks, LinkTo(d, q))
      BY <1>6, <2>2, <3>1, LinkMessages DEF Sent
    <3> QED
      BY <1>2, <1>3, <1>5, <2>2, <3>2 DEF Sent
  <2>3. CASE Routed(d, p, q)
    <3>1. p \in Hubs /\ ~HubIdle(hub[p])
      BY <2>3, LinkMessages DEF Routed, HubIdle
    <3>2. hub'[p].pc = "send" /\ hub'[p].request = LinkTo(d, q) /\ hub'[p].route = hub[p].route
          /\ ~hub'[p].remove_child_succeed
      BY <2>3, <3>1 DEF Aside, HubAside, Routed
    <3>3. files' = files
      BY DEF Aside, SameShape
    <3>4. Routed(d, p, q)'
      BY <1>2, <1>3, <1>5, <2>3, <3>2, <3>3 DEF Routed
    <3> QED
      BY <1>1, <3>4 DEF TwoLevels
  <2> QED
    BY <1>1, <1>7, <2>1, <2>2, <2>3 DEF TwoLevels
<1>8. ASSUME NEW d \in Leaves, NEW p \in Controls, NEW q \in Controls,
             Telling(d, p, q) \/ TellsNew(d, p, q) \/ Joined(d, p, q)
      PROVE  TwoLevels'
  <2>1. CASE Telling(d, p, q)
    <3>1. ~LeafIdle(leaf[d])
      BY <2>1, LinkMessages DEF Telling, LeafIdle
    <3>2. leaf'[d].pc = "reply" /\ leaf'[d].response = Joining(d, q)
      BY <2>1, <3>1 DEF Telling, Aside, LeafAside
    <3>3. Telling(d, p, q)'
      BY <1>2, <1>5, <2>1, <3>2 DEF Telling
    <3> QED
      BY <1>1, <3>3 DEF TwoLevels
  <2>2. CASE TellsNew(d, p, q)
    <3>1. TellsNew(d, p, q)'
      BY <1>2, <1>5, <1>6, <2>2, LinkMessages DEF TellsNew
    <3> QED
      BY <1>1, <3>1 DEF TwoLevels
  <2>3. CASE Joined(d, p, q)
    <3>1. q \in Hubs /\ routing_table' = routing_table /\ hub'[q].device_type = hub[q].device_type
      BY <2>3 DEF Joined, Aside, SameShape, SameHub
    <3>2. AllBut(up'[CONTROLLER_ID], Tells, Joining(d, q))
      BY <1>6, <2>3, LinkMessages, Ids DEF Joined
    <3>3. Joined(d, p, q)'
      BY <1>1, <1>2, <1>3, <1>5, <2>3, <3>1, <3>2 DEF Joined
    <3> QED
      BY <1>1, <3>3 DEF TwoLevels
  <2> QED
    BY <1>8, <2>1, <2>2, <2>3
<1>9. ASSUME NEW d \in Leaves, NEW p \in Controls, NEW q \in Controls,
             ToldOld(d, p, q) \/ Removes(d, p, q) \/ Types(d, p, q) \/ Answering(d, p, q)
                 \/ Left(d, p, q)
      PROVE  TwoLevels'
  <2>1. p \in Hubs /\ p \in Devices
    BY <1>9, Ids DEF ToldOld, Removes, Types, Answering, Left, Told, Over
  <2>2. Forgotten(p, d)' = Forgotten(p, d)
    BY <2>1 DEF Forgotten, Aside, SameShape, SameHub
  <2>3. CASE ToldOld(d, p, q)
    <3>1. ToldOld(d, p, q)'
      BY <1>2, <1>5, <1>6, <2>1, <2>3, LinkMessages DEF ToldOld
    <3> QED
      BY <1>1, <3>1 DEF TwoLevels
  <2>4. CASE Removes(d, p, q)
    <3>1. ~HubIdle(hub[p])
      BY <2>4 DEF Removes, HubIdle
    <3>2. hub'[p].pc = "remove" /\ hub'[p].request = Forget(p, d)
          /\ ~hub'[p].remove_child_succeed
      BY <2>1, <2>4, <3>1 DEF Aside, HubAside, Removes
    <3>3. Removes(d, p, q)'
      BY <1>2, <1>5, <2>4, <3>2 DEF Removes
    <3> QED
      BY <1>1, <3>3 DEF TwoLevels
  <2>5. CASE Types(d, p, q)
    <3>1. ~HubIdle(hub[p])
      BY <2>5 DEF Types, HubIdle
    <3>2. /\ hub'[p].pc = hub[p].pc /\ hub'[p].request = hub[p].request
          /\ hub'[p].remove_child_succeed = hub[p].remove_child_succeed
      BY <2>1, <3>1 DEF Aside, HubAside
    <3>3. Types(d, p, q)'
      BY <1>2, <1>5, <2>5, <3>2 DEF Types
    <3> QED
      BY <1>1, <3>3 DEF TwoLevels
  <2>6. CASE Answering(d, p, q)
    <3>1. ~HubIdle(hub[p])
      BY <2>6, LinkMessages DEF Answering, HubIdle
    <3>2. /\ hub'[p].pc = hub[p].pc /\ hub'[p].request = hub[p].request
          /\ hub'[p].response = hub[p].response
          /\ hub'[p].remove_child_succeed = hub[p].remove_child_succeed
      BY <2>1, <3>1 DEF Aside, HubAside
    <3>3. Answering(d, p, q)'
      BY <1>2, <1>5, <2>2, <2>6, <3>2 DEF Answering
    <3> QED
      BY <1>1, <3>3 DEF TwoLevels
  <2>7. CASE Left(d, p, q)
    <3>1. AllBut(up'[CONTROLLER_ID], Tells, Forgotten(p, d))
      BY <1>6, <2>7, LinkMessages, Ids DEF Left
    <3>2. Left(d, p, q)'
      BY <1>2, <1>5, <2>2, <2>7, <3>1 DEF Left
    <3> QED
      BY <1>1, <3>2 DEF TwoLevels
  <2> QED
    BY <1>9, <2>3, <2>4, <2>5, <2>6, <2>7
<1>10. Still => TwoLevels'
  BY <1>1, <1>4 DEF TwoLevels
<1> QED
  BY <1>7, <1>8, <1>9, <1>10 DEF TwoLevels

-----------------------------------------------------------------------------
(* What a thread finds.                                                    *)

\* A request read is an info or a switch, or that of the link under way.
LEMMA RequestRead ==
    ASSUME TypeOK, TwoLevels, NEW x \in Devices, NEW m \in First(down[x])
    PROVE  /\ m = Head(down[x]) /\ m \in Requests /\ down[x] # <<>>
           /\ m \in Asks => QueueAside(down[x], Tail(down[x]), Asks)
           /\ m \notin Asks =>
                 /\ AllIn(Tail(down[x]), Asks)
                 /\ \/ \E d \in Leaves, p \in Controls, q \in Controls :
                          Sent(d, p, q, x) /\ x \in {p, d} /\ m = LinkTo(d, q)
                    \/ \E d \in Leaves, q \in Controls :
                          ToldOld(d, x, q) /\ x \in Hubs /\ m = Forget(x, d)
<1>1. down[x] \in Seq(Requests) /\ down[x] # <<>> /\ m = Head(down[x])
  BY DEF First, TypeOK, PipesTypeOK
<1>2. m \in Requests
  BY <1>1
<1> DEFINE q0 == down[x]
<1>3. /\ AllIn(q0, Asks) => m \in Asks /\ AllIn(Tail(q0), Asks)
      /\ \A k : k \notin Asks /\ AllBut(q0, Asks, k) =>
            /\ m \in Asks => AllBut(Tail(q0), Asks, k)
            /\ m \notin Asks => m = k /\ AllIn(Tail(q0), Asks)
  BY <1>1, TailOfQueue
<1>4. m \in Asks => QueueAside(q0, Tail(q0), Asks)
  BY <1>3 DEF QueueAside
<1>5. ASSUME m \notin Asks
      PROVE  /\ AllIn(Tail(q0), Asks)
             /\ \/ \E d \in Leaves, p \in Controls, q \in Controls :
                      Sent(d, p, q, x) /\ x \in {p, d} /\ m = LinkTo(d, q)
                \/ \E d \in Leaves, q \in Controls :
                      ToldOld(d, x, q) /\ x \in Hubs /\ m = Forget(x, d)
  <2>1. ~AllIn(q0, Asks)
    BY <1>3, <1>5
  <2>2. ~Still
    BY <2>1 DEF Still, Silent
  <2>3. PICK d \in Leaves, p \in Controls, q \in Controls :
             \/ Typed(d, p, q) \/ Sent(d, p, q, p) \/ Sent(d, p, q, d) \/ Routed(d, p, q)
             \/ Telling(d, p, q) \/ TellsNew(d, p, q) \/ Joined(d, p, q)
             \/ ToldOld(d, p, q) \/ Removes(d, p, q)
             \/ Types(d, p, q) \/ Answering(d, p, q) \/ Left(d, p, q)
    BY <2>2 DEF TwoLevels
  <2>4. \/ Sent(d, p, q, x) /\ x \in {p, d}
        \/ ToldOld(d, p, q) /\ x = p
    BY <2>1, <2>3 DEF Typed, Sent, Routed, Telling, TellsNew, Joined, ToldOld, Removes,
       Types, Answering, Left, Silent
  <2>5. CASE Sent(d, p, q, x) /\ x \in {p, d}
    <3>1. m = LinkTo(d, q) /\ AllIn(Tail(q0), Asks)
      BY <1>3, <1>5, <2>5, LinkMessages DEF Sent
    <3> QED
      BY <2>5, <3>1
  <2>6. CASE ToldOld(d, p, q) /\ x = p
    <3>1. m = Forget(p, d) /\ AllIn(Tail(q0), Asks)
      BY <1>3, <1>5, <2>6, LinkMessages DEF ToldOld
    <3>2. p \in Hubs
      BY <2>6 DEF ToldOld, Told
    <3> QED
      BY <2>6, <3>1, <3>2
  <2> QED
    BY <2>4, <2>5, <2>6
<1> QED
  BY <1>1, <1>2, <1>4, <1>5

\* A response read is that to an info or a switch, or that of the link under way.
LEMMA ResponseRead ==
    ASSUME TypeOK, TwoLevels, NEW x \in Controls, NEW r \in First(up[x])
    PROVE  /\ r = Head(up[x]) /\ r \in Responses /\ up[x] # <<>>
           /\ r \in Tells => QueueAside(up[x], Tail(up[x]), Tells)
           /\ r \notin Tells =>
                 /\ AllIn(Tail(up[x]), Tells)
                 /\ \/ \E d \in Leaves, p \in Controls :
                          TellsNew(d, p, x) /\ r = Joining(d, x)
                    \/ \E d \in Leaves, p \in Controls, q \in Controls :
                          Joined(d, p, q) /\ x = CONTROLLER_ID /\ r = Joining(d, q)
                    \/ \E d \in Leaves, p \in Controls, q \in Controls :
                          Left(d, p, q) /\ x = CONTROLLER_ID /\ r = Forgotten(p, d)
<1>1. up[x] \in Seq(Responses) /\ up[x] # <<>> /\ r = Head(up[x])
  BY DEF First, TypeOK, PipesTypeOK
<1>2. r \in Responses
  BY <1>1
<1> DEFINE q0 == up[x]
<1>3. /\ AllIn(q0, Tells) => r \in Tells /\ AllIn(Tail(q0), Tells)
      /\ \A k : k \notin Tells /\ AllBut(q0, Tells, k) =>
            /\ r \in Tells => AllBut(Tail(q0), Tells, k)
            /\ r \notin Tells => r = k /\ AllIn(Tail(q0), Tells)
  BY <1>1, TailOfQueue
<1>4. r \in Tells => QueueAside(q0, Tail(q0), Tells)
  BY <1>3 DEF QueueAside
<1>5. ASSUME r \notin Tells
      PROVE  /\ AllIn(Tail(q0), Tells)
             /\ \/ \E d \in Leaves, p \in Controls :
                      TellsNew(d, p, x) /\ r = Joining(d, x)
                \/ \E d \in Leaves, p \in Controls, q \in Controls :
                      Joined(d, p, q) /\ x = CONTROLLER_ID /\ r = Joining(d, q)
                \/ \E d \in Leaves, p \in Controls, q \in Controls :
                      Left(d, p, q) /\ x = CONTROLLER_ID /\ r = Forgotten(p, d)
  <2>1. ~AllIn(q0, Tells)
    BY <1>3, <1>5
  <2>2. ~Still
    BY <2>1 DEF Still, Silent
  <2>3. PICK d \in Leaves, p \in Controls, q \in Controls :
             \/ Typed(d, p, q) \/ Sent(d, p, q, p) \/ Sent(d, p, q, d) \/ Routed(d, p, q)
             \/ Telling(d, p, q) \/ TellsNew(d, p, q) \/ Joined(d, p, q)
             \/ ToldOld(d, p, q) \/ Removes(d, p, q)
             \/ Types(d, p, q) \/ Answering(d, p, q) \/ Left(d, p, q)
    BY <2>2 DEF TwoLevels
  <2>4. \/ TellsNew(d, p, q) /\ x = q
        \/ Joined(d, p, q) /\ x = CONTROLLER_ID
        \/ Left(d, p, q) /\ x = CONTROLLER_ID
    BY <2>1, <2>3 DEF Typed, Sent, Routed, Telling, TellsNew, Joined, ToldOld, Removes,
       Types, Answering, Left, Silent
  <2>5. CASE TellsNew(d, p, q) /\ x = q
    <3>1. r = Joining(d, q) /\ AllIn(Tail(q0), Tells)
      BY <1>3, <1>5, <2>5, LinkMessages DEF TellsNew
    <3> QED
      BY <2>5, <3>1
  <2>6. CASE Joined(d, p, q) /\ x = CONTROLLER_ID
    <3>1. r = Joining(d, q) /\ AllIn(Tail(q0), Tells)
      BY <1>3, <1>5, <2>6, LinkMessages DEF Joined
    <3> QED
      BY <2>6, <3>1
  <2>7. CASE Left(d, p, q) /\ x = CONTROLLER_ID
    <3>1. r = Forgotten(p, d) /\ AllIn(Tail(q0), Tells)
      BY <1>3, <1>5, <2>7, LinkMessages DEF Left
    <3> QED
      BY <2>7, <3>1
  <2> QED
    BY <2>4, <2>5, <2>6, <2>7
<1> QED
  BY <1>1, <1>2, <1>4, <1>5

\* A hub's main thread is at an info or a switch, or at the link under way.
LEMMA HubFound ==
    ASSUME TwoLevels, NEW h \in Hubs
    PROVE  \/ HubIdle(hub[h])
           \/ \E d \in Leaves, q \in Controls :
                 Routed(d, h, q) \/ Removes(d, h, q) \/ Types(d, h, q) \/ Answering(d, h, q)
<1> SUFFICES ASSUME ~HubIdle(hub[h])
             PROVE  \E d \in Leaves, q \in Controls :
                       Routed(d, h, q) \/ Removes(d, h, q) \/ Types(d, h, q)
                          \/ Answering(d, h, q)
  OBVIOUS
<1>1. ~Still
  BY DEF Still, Silent
<1>2. PICK d \in Leaves, p \in Controls, q \in Controls :
           \/ Typed(d, p, q) \/ Sent(d, p, q, p) \/ Sent(d, p, q, d) \/ Routed(d, p, q)
           \/ Telling(d, p, q) \/ TellsNew(d, p, q) \/ Joined(d, p, q)
           \/ ToldOld(d, p, q) \/ Removes(d, p, q)
           \/ Types(d, p, q) \/ Answering(d, p, q) \/ Left(d, p, q)
  BY <1>1 DEF TwoLevels
<1>3. \/ Routed(d, p, q) \/ Removes(d, p, q) \/ Types(d, p, q) \/ Answering(d, p, q)
  BY <1>2 DEF Typed, Sent, Telling, TellsNew, Joined, ToldOld, Left, Silent
<1>4. p = h
  BY <1>3 DEF Routed, Removes, Types, Answering, Silent
<1> QED
  BY <1>3, <1>4

\* A leaf is at an info or a switch, or at the link under way.
LEMMA LeafFound ==
    ASSUME TwoLevels, NEW x \in Leaves
    PROVE  LeafIdle(leaf[x]) \/ \E p \in Controls, q \in Controls : Telling(x, p, q)
<1> SUFFICES ASSUME ~LeafIdle(leaf[x])
             PROVE  \E p \in Controls, q \in Controls : Telling(x, p, q)
  OBVIOUS
<1>1. ~Still
  BY DEF Still, Silent
<1>2. PICK d \in Leaves, p \in Controls, q \in Controls :
           \/ Typed(d, p, q) \/ Sent(d, p, q, p) \/ Sent(d, p, q, d) \/ Routed(d, p, q)
           \/ Telling(d, p, q) \/ TellsNew(d, p, q) \/ Joined(d, p, q)
           \/ ToldOld(d, p, q) \/ Removes(d, p, q)
           \/ Types(d, p, q) \/ Answering(d, p, q) \/ Left(d, p, q)
  BY <1>1 DEF TwoLevels
<1>3. Telling(d, p, q)
  BY <1>2 DEF Typed, Sent, Routed, TellsNew, Joined, ToldOld, Removes, Types, Answering,
     Left, Silent
<1>4. d = x
  BY <1>3 DEF Telling, Silent
<1> QED
  BY <1>3, <1>4

\* In every stage the device is, where the controller has it, in the table there,
\* and the pipe of every device in the controller's table has a writer.
LEMMA EveryoneHeld ==
    ASSUME TypeOK, TwoLevels
    PROVE  /\ \A d \in Leaves \cap Known : routing_table[d].parent \in Hubs =>
                 d \in Entered(routing_table[d].parent)
           /\ \A d \in Devices : d \in Known => HasWriter(d)
           /\ \A d \in Devices : Running(d) => d \in Known
<1>1. ASSUME NEW d \in Leaves \cap Known, routing_table[d].parent \in Hubs
      PROVE  d \in Entered(routing_table[d].parent)
  <2>1. Home(d) => d \in Entered(routing_table[d].parent)
    BY <1>1 DEF Home, At
  <2>2. Still => Home(d)
    BY DEF Still
  <2>3. ASSUME NEW x \in Leaves, NEW p \in Controls, NEW q \in Controls,
               Asked(x, p, q) \/ HasMoved(x, p, q) \/ Told(x, p, q) \/ Over(x, p, q)
                  \/ Joined(x, p, q)
        PROVE  d \in Entered(routing_table[d].parent)
    <3>1. UnderWayTo(x, p, q)
      BY <2>3 DEF Asked, HasMoved, Told, Over, Joined
    <3>2. x # d => Home(d)
      BY <3>1 DEF UnderWayTo
    <3>3. x = d => \/ At(d, p, p, {p}) \/ At(d, q, p, {p}) \/ At(d, q, q, {p, q})
                   \/ At(d, q, q, {q}) \/ At(d, q, p, {p, q})
      BY <2>3 DEF Asked, HasMoved, Told, Over, Joined
    <3>4. x = d => d \in Entered(routing_table[d].parent)
      BY <1>1, <3>3 DEF At
    <3> QED
      BY <2>1, <3>2, <3>4
  <2>4. CASE Still
    BY <2>1, <2>2, <2>4
  <2>5. ASSUME NEW x \in Leaves, NEW p \in Controls, NEW q \in Controls,
               \/ Typed(x, p, q) \/ Sent(x, p, q, p) \/ Sent(x, p, q, x) \/ Routed(x, p, q)
               \/ Telling(x, p, q) \/ TellsNew(x, p, q) \/ Joined(x, p, q)
               \/ ToldOld(x, p, q) \/ Removes(x, p, q)
               \/ Types(x, p, q) \/ Answering(x, p, q) \/ Left(x, p, q)
        PROVE  d \in Entered(routing_table[d].parent)
    <3>1. Asked(x, p, q) \/ HasMoved(x, p, q) \/ Told(x, p, q) \/ Over(x, p, q)
                  \/ Joined(x, p, q)
      BY <2>5 DEF Typed, Sent, Routed, Telling, TellsNew, ToldOld, Removes, Types,
         Answering, Left
    <3> QED
      BY <2>3, <3>1
  <2> QED
    BY <2>4, <2>5 DEF TwoLevels
<1>2. ASSUME NEW d \in Devices, d \in Known PROVE HasWriter(d)
  <2>1. CASE routing_table[d].parent = CONTROLLER_ID
    <3>1. files[CONTROLLER_ID][routing_table[d].fd] = Down(d)
      BY <1>2, <2>1 DEF TwoLevels, InOrderAlways, ControllerInOrder, PipesOf, ChildrenOpen,
         Direct, Known
    <3>2. CONTROLLER_ID \in Controls /\ Alive(CONTROLLER_ID)
      BY Ids DEF TwoLevels, InOrderAlways, Peaceful, Alive
    <3>3. routing_table[d].fd \in Fds
      BY <1>2 DEF TypeOK, ControllerTypeOK, IsTable, Known
    <3> QED
      BY <3>1, <3>2, <3>3 DEF HasWriter
  <2>2. CASE routing_table[d].parent # CONTROLLER_ID
    <3> DEFINE p == routing_table[d].parent
    <3>1. d \in Leaves /\ p \in Hubs /\ Running(p)
      BY <1>2, <2>2 DEF TwoLevels, InOrderAlways, ControllerInOrder, Hosts, Known
    <3>2. d \in Entered(p)
      BY <1>1, <1>2, <3>1
    <3>3. hub[p].routing_table[d].parent = p
      BY <3>1, <3>2 DEF TwoLevels, InOrderAlways, HubInOrder, Entered
    <3>4. files[p][hub[p].routing_table[d].fd] = Down(d)
      BY <3>1, <3>2, <3>3 DEF TwoLevels, InOrderAlways, HubInOrder, Entered, PipesOf,
         ChildrenOpen, Direct
    <3>5. hub[p].routing_table[d].fd \in Fds
      BY <3>1, <3>2 DEF TypeOK, HubTypeOK, HubTyped, IsTable, Entered
    <3>6. p \in Controls /\ Alive(p)
      BY <3>1 DEF Controls, Alive, Running
    <3> QED
      BY <3>4, <3>5, <3>6 DEF HasWriter
  <2> QED
    BY <2>1, <2>2
<1>3. ASSUME NEW d \in Devices, Running(d) PROVE d \in Known
  BY <1>3 DEF TwoLevels, InOrderAlways, Peaceful, Running, Absent
<1> QED
  BY <1>1, <1>2, <1>3

-----------------------------------------------------------------------------
(* Infos and switches go by.                                               *)

LEMMA AsideIsOrder ==
    /\ \A q, S : QueueAside(q, q, S)
    /\ \A q, r, s, S : QueueAside(q, r, S) /\ QueueAside(r, s, S) => QueueAside(q, s, S)
    /\ \A H : SameHub(H, H) /\ HubAside(H, H)
    /\ \A L : SameLeaf(L, L) /\ LeafAside(L, L)
  BY DEF QueueAside, SameHub, HubAside, SameLeaf, LeafAside

\* write_pipe_request of one of them.
LEMMA SendDownAside ==
    ASSUME NEW q \in [Devices -> Seq(Requests)], NEW end, NEW m \in Asks
    PROVE  \A x \in Devices : QueueAside(q[x], SendDown(q, end, m)[x], Asks)
<1> TAKE x \in Devices
<1>1. m \in Requests /\ q[x] \in Seq(Requests)
  BY DEF Asks
<1>2. QueueAside(q[x], Append(q[x], m), Asks)
  BY <1>1, AppendedToQueue DEF QueueAside
<1>3. SendDown(q, end, m)[x] \in {q[x], Append(q[x], m)}
  BY DEF SendDown
<1> QED
  BY <1>2, <1>3, AsideIsOrder

\* write_pipe_response of some of them.
LEMMA SendUpAside ==
    ASSUME NEW q \in [Controls -> Seq(Responses)], NEW end, NEW ms \in Seq(Responses),
           AllIn(ms, Tells)
    PROVE  \A x \in Controls : QueueAside(q[x], SendUp(q, end, ms)[x], Tells)
<1> TAKE x \in Controls
<1>1. q[x] \in Seq(Responses)
  OBVIOUS
<1>2. QueueAside(q[x], q[x] \o ms, Tells)
  BY <1>1, WrittenToQueue DEF QueueAside
<1>3. SendUp(q, end, ms)[x] \in {q[x], q[x] \o ms}
  BY DEF SendUp
<1> QED
  BY <1>2, <1>3, AsideIsOrder

\* One message written alone.
LEMMA OneWritten ==
    ASSUME NEW M, NEW q \in Seq(M), NEW m \in M, NEW S
    PROVE  /\ AllIn(q, S) => AllBut(q \o <<m>>, S, m)
           /\ m \in S => AllIn(<<m>>, S) /\ <<m>> \in Seq(M)
<1>1. q \o <<m>> = Append(q, m)
  OBVIOUS
<1>2. m \in S => AllIn(<<m>>, S) /\ <<m>> \in Seq(M)
  BY DEF AllIn
<1> QED
  BY <1>1, <1>2, AppendedToQueue

nonHubVars == <<peaceVars, files, routing_table, user_command>>

\* What a leaf is, in order.
LEMMA LeafFields ==
    ASSUME TypeOK, TwoLevels, NEW d \in Leaves
    PROVE  /\ leaf[d] \in [state : {STATE_OFF, STATE_ON}, parent_id : Controls,
                 force_exit : BOOLEAN, snd : Controls \cup {NoPipe},
                 pc : {"read", "reply", "blocked"}, response : Responses \cup Blanks]
           /\ leaf[d].pc = "reply" => leaf[d].response \in Responses
           /\ ~leaf[d].force_exit /\ leaf[d].snd = leaf[d].parent_id
           /\ leaf[d].response.cmd # "delete"
           /\ leaf[d].parent_id \in Hosts /\ leaf[d].parent_id \in Controls
           /\ leaf[d].snd # NoPipe
  BY Ids DEF TypeOK, LeafTypeOK, TwoLevels, InOrderAlways, LeafInOrder, Blanks, NoPipe

\* Whom a leaf may be below is there and can be opened.
LEMMA HostsRun ==
    ASSUME TwoLevels, NEW q \in Hosts
    PROVE  /\ q \in Controls /\ Running(q) /\ Alive(q) /\ UpOpens(q) /\ UpOpenReturns(q)
           /\ q \in Hubs \cup {CONTROLLER_ID}
<1>1. q \in Hubs \cup {CONTROLLER_ID} /\ exit_code[q] = "none"
  BY DEF Hosts, Running, TwoLevels, InOrderAlways, Peaceful
<1>2. q \in Devices => q \in fifos
  BY <1>1 DEF TwoLevels, InOrderAlways, Peaceful, Absent
<1> QED
  BY <1>1, <1>2, Ids DEF Running, Alive, UpOpens, UpExists, UpOpenReturns

\* A step of one leaf that leaves it where it is.
LEMMA LeafKeepsShape ==
    ASSUME TypeOK, TwoLevels, NEW d \in Leaves, NEW new, LeafSteps(d, new),
           SameLeaf(leaf[d], new), UNCHANGED <<nonHubVars, hub>>
    PROVE  /\ SameShape
           /\ \A x \in Leaves : leaf'[x] = IF x = d THEN new ELSE leaf[x]
<1>1. \A x \in Leaves : leaf'[x] = IF x = d THEN new ELSE leaf[x]
  BY DEF TypeOK, LeafTypeOK, LeafSteps
<1>2. \A x \in Leaves : SameLeaf(leaf[x], leaf'[x])
  BY <1>1, AsideIsOrder
<1>3. \A h \in Hubs : SameHub(hub[h], hub'[h])
  BY AsideIsOrder
<1>4. user_command' = user_command /\ user_command \in Offered \cup {NoRequest}
  BY DEF nonHubVars, TwoLevels, InOrderAlways, Peaceful
<1> QED
  BY <1>1, <1>2, <1>3, <1>4 DEF SameShape, nonHubVars

\* A step of one hub that leaves its branch as it is.
LEMMA HubKeepsShape ==
    ASSUME TypeOK, TwoLevels, NEW h \in Hubs, NEW new, HubStep(h, new),
           SameHub(hub[h], new), UNCHANGED <<nonHubVars, leaf>>
    PROVE  /\ SameShape
           /\ \A x \in Hubs : hub'[x] = IF x = h THEN new ELSE hub[x]
<1>1. \A x \in Hubs : hub'[x] = IF x = h THEN new ELSE hub[x]
  <2>1. hub = [x \in Hubs |-> hub[x]]
    BY DEF TypeOK, HubTypeOK
  <2> QED
    BY <2>1 DEF HubStep
<1>2. \A x \in Hubs : SameHub(hub[x], hub'[x])
  BY <1>1, AsideIsOrder
<1>3. \A x \in Leaves : SameLeaf(leaf[x], leaf'[x])
  BY AsideIsOrder
<1>4. user_command' = user_command /\ user_command \in Offered \cup {NoRequest}
  BY DEF nonHubVars, TwoLevels, InOrderAlways, Peaceful
<1> QED
  BY <1>1, <1>2, <1>3, <1>4 DEF SameShape, nonHubVars

\* A leaf takes a step on infos and switches only.
LEMMA LeafStepsAside ==
    ASSUME TypeOK, TwoLevels, NEW d \in Leaves, NEW new, LeafSteps(d, new),
           LeafIdle(leaf[d]), LeafIdle(new), SameLeaf(leaf[d], new),
           UNCHANGED <<nonHubVars, hub>>,
           \A x \in Devices : QueueAside(down[x], down'[x], Asks),
           \A x \in Controls : QueueAside(up[x], up'[x], Tells)
    PROVE  TwoLevels'
<1>1. SameShape /\ \A x \in Leaves : leaf'[x] = IF x = d THEN new ELSE leaf[x]
  BY LeafKeepsShape
<1>2. \A x \in Leaves : LeafAside(leaf[x], leaf'[x])
  BY <1>1, AsideIsOrder DEF LeafAside
<1>3. \A h \in Hubs : HubAside(hub[h], hub'[h])
  BY AsideIsOrder
<1>4. Aside
  BY <1>1, <1>2, <1>3 DEF Aside, nonHubVars
<1> QED
  BY <1>4, AsideKeeps

\* A hub takes a step on infos and switches only.
LEMMA HubStepsAside ==
    ASSUME TypeOK, TwoLevels, NEW h \in Hubs, NEW new, HubStep(h, new),
           SameHub(hub[h], new), HubAside(hub[h], new),
           UNCHANGED <<nonHubVars, leaf>>,
           \A x \in Devices : QueueAside(down[x], down'[x], Asks),
           \A x \in Controls : QueueAside(up[x], up'[x], Tells)
    PROVE  TwoLevels'
<1>1. SameShape /\ \A x \in Hubs : hub'[x] = IF x = h THEN new ELSE hub[x]
  BY HubKeepsShape
<1>2. \A x \in Hubs : HubAside(hub[x], hub'[x])
  BY <1>1, AsideIsOrder
<1>3. \A x \in Leaves : LeafAside(leaf[x], leaf'[x])
  BY AsideIsOrder
<1>4. Aside
  BY <1>1, <1>2, <1>3 DEF Aside, nonHubVars
<1> QED
  BY <1>4, AsideKeeps

-----------------------------------------------------------------------------
(* Leaves.                                                                 *)

\* A leaf that takes in an info or a switch, or what is not for it.
LEMMA LeafRequestTwoLevels ==
    ASSUME TypeOK, TypeOK', TwoLevels, NEW d \in Leaves, NEW m \in First(down[d]),
           \/ LeafInfo(d, m) \/ LeafSwitch(d, m) \/ LeafRefuses(d, m)
           \/ LeafDelete(d, m) \/ LeafMisrouted(d, m) \/ LeafBlocks(d, m),
           UNCHANGED <<controllerVars, hub, histories>>
    PROVE  TwoLevels'
<1>1. d \in Devices /\ d \notin Controls
  BY Ids
<1>2. LeafTakes(d, m)
  BY DEF LeafInfo, LeafSwitch, LeafRefuses, LeafDelete, LeafMisrouted, LeafBlocks
<1>3. /\ m \in Requests
      /\ m \in Asks => QueueAside(down[d], Tail(down[d]), Asks)
      /\ m \notin Asks => \E p \in Controls, q \in Controls :
                               Sent(d, p, q, d) /\ m = LinkTo(d, q)
  <2>1. /\ m \in Requests
        /\ m \in Asks => QueueAside(down[d], Tail(down[d]), Asks)
        /\ m \notin Asks =>
              \/ \E x \in Leaves, p \in Controls, q \in Controls :
                    Sent(x, p, q, d) /\ d \in {p, x} /\ m = LinkTo(x, q)
              \/ \E x \in Leaves, q \in Controls :
                    ToldOld(x, d, q) /\ d \in Hubs /\ m = Forget(d, x)
    BY <1>1, RequestRead
  <2> QED
    BY <1>1, <2>1, Ids
<1>4. m \in Asks
  <2> SUFFICES ASSUME m \notin Asks PROVE FALSE
    OBVIOUS
  <2>1. PICK p \in Controls, q \in Controls : Sent(d, p, q, d) /\ m = LinkTo(d, q)
    BY <1>3
  <2>2. m.cmd = "change_parent" /\ m.dst = d /\ m.arg = q
    BY <2>1 DEF LinkTo
  <2>3. LeafBlocks(d, m)
    BY <2>2 DEF LeafInfo, LeafSwitch, LeafRefuses, LeafDelete, LeafMisrouted, Switches,
       PowerSwitches, DoorSwitches, Registries
  <2>4. q \in Hosts
    BY <2>1 DEF Sent, Asked, UnderWayTo
  <2>5. exit_code[q] = "none"
    BY <2>4 DEF Hosts, Running, TwoLevels, InOrderAlways, Peaceful
  <2> QED
    BY <2>2, <2>3, <2>5 DEF LeafBlocks, UpOpenReturns
<1>5. /\ m.cmd \notin Links /\ m.cmd # "delete"
      /\ leaf[d].pc = "read" /\ leaf[d].response.cmd # "delete"
  BY <1>2, <1>4 DEF Asks, LeafTakes, TwoLevels, InOrderAlways, LeafInOrder
<1> DEFINE Plain(r) == [leaf[d] EXCEPT !.pc = "reply", !.response = r]
           Full(s, r) == [leaf[d] EXCEPT !.pc = "reply", !.state = s, !.response = r]
           Replies(s, cmd, code, args) ==
              /\ LeafSteps(d, Full(s, Response(d, cmd, code, args)))
              /\ cmd # "delete" /\ (cmd \in Links => code # "OK")
           kept == leaf[d].state
<1>6. \E s \in {STATE_OFF, STATE_ON} : \E cmd, code, args : Replies(s, cmd, code, args)
  <2>1. kept \in {STATE_OFF, STATE_ON}
    BY DEF TypeOK, LeafTypeOK
  <2>2. \A r : Plain(r) = Full(kept, r)
    BY DEF TypeOK, LeafTypeOK
  <2>3. /\ LeafSwitch(d, m) => LeafSteps(d, Full(SwitchedState(d, m.cmd), Response(d, m.cmd, "OK", <<>>)))
        /\ LeafInfo(d, m) => LeafSteps(d, Plain(Response(d, "info", "OK", <<kept>>)))
        /\ LeafRefuses(d, m) => LeafSteps(d, Plain(Response(d, m.cmd, "UNEXPECTED_COMMAND", <<>>)))
        /\ LeafMisrouted(d, m) =>
              LeafSteps(d, Plain(Response(d, leaf[d].response.cmd, "DESTINATION_ID_MISMATCH", <<>>)))
    BY Zenon DEF LeafSwitch, LeafInfo, LeafRefuses, LeafMisrouted
  <2>4. ~LeafDelete(d, m) /\ ~LeafBlocks(d, m)
    BY <1>5 DEF LeafDelete, LeafBlocks, Links
  <2> HIDE DEF Plain, Full, kept
  <2>5. CASE LeafSwitch(d, m)
    <3>1. SwitchedState(d, m.cmd) \in {STATE_OFF, STATE_ON}
      BY <2>1 DEF SwitchedState, kept
    <3>2. Replies(SwitchedState(d, m.cmd), m.cmd, "OK", <<>>)
      BY <1>5, <2>3, <2>5
    <3> HIDE DEF Replies
    <3> QED
      BY <3>1, <3>2
  <2>6. CASE LeafInfo(d, m)
    <3>1. Replies(kept, "info", "OK", <<kept>>)
      BY <2>2, <2>3, <2>6 DEF Links
    <3> HIDE DEF Replies
    <3> QED
      BY <2>1, <3>1
  <2>7. CASE LeafRefuses(d, m)
    <3>1. Replies(kept, m.cmd, "UNEXPECTED_COMMAND", <<>>)
      BY <1>5, <2>2, <2>3, <2>7
    <3> HIDE DEF Replies
    <3> QED
      BY <2>1, <3>1
  <2>8. CASE LeafMisrouted(d, m)
    <3>1. Replies(kept, leaf[d].response.cmd, "DESTINATION_ID_MISMATCH", <<>>)
      BY <1>5, <2>2, <2>3, <2>8
    <3> HIDE DEF Replies
    <3> QED
      BY <2>1, <3>1
  <2> QED
    BY <2>4, <2>5, <2>6, <2>7, <2>8
<1> HIDE DEF Replies
<1>7. PICK s \in {STATE_OFF, STATE_ON} : \E cmd, code, args : Replies(s, cmd, code, args)
  BY <1>6
<1>8. PICK cmd, code, args : Replies(s, cmd, code, args)
  BY <1>7
<1>9. /\ LeafSteps(d, [leaf[d] EXCEPT !.pc = "reply", !.state = s,
                          !.response = Response(d, cmd, code, args)])
      /\ cmd # "delete" /\ (cmd \in Links => code # "OK")
  BY <1>8 DEF Replies
<1> DEFINE r == Response(d, cmd, code, args)
           new == [leaf[d] EXCEPT !.pc = "reply", !.state = s, !.response = r]
<1>10. leaf[d] \in [state : {STATE_OFF, STATE_ON}, parent_id : Controls, force_exit : BOOLEAN,
              snd : Controls \cup {NoPipe}, pc : {"read", "reply", "blocked"},
              response : Responses \cup Blanks]
  BY DEF TypeOK, LeafTypeOK, Blanks
<1>11. /\ new.pc = "reply" /\ new.response = r /\ new.parent_id = leaf[d].parent_id
      /\ new.force_exit = leaf[d].force_exit /\ new.snd = leaf[d].snd
  BY <1>10
<1>12. leaf'[d] = new
  BY <1>9 DEF TypeOK, LeafTypeOK, LeafSteps
<1> HIDE DEF new
<1>13. r \in Responses
  BY <1>11, <1>12 DEF TypeOK, LeafTypeOK
<1>14. r \in Tells
  BY <1>9, <1>13 DEF Tells, Response
<1>15. LeafIdle(leaf[d]) /\ LeafIdle(new)
  BY <1>5, <1>11, <1>14 DEF LeafIdle
<1>16. SameLeaf(leaf[d], new)
  BY <1>9, <1>11 DEF SameLeaf, Response
<1>17. \A x \in Devices : QueueAside(down[x], down'[x], Asks)
  BY <1>2, <1>3, <1>4, AsideIsOrder DEF LeafTakes, TypeOK, PipesTypeOK
<1>18. \A x \in Controls : QueueAside(up[x], up'[x], Tells)
  BY <1>2, AsideIsOrder DEF LeafTakes
<1>19. UNCHANGED <<nonHubVars, hub>>
  BY <1>2 DEF LeafTakes, nonHubVars, peaceVars, controllerVars, histories
<1> QED
  BY <1>9, <1>15, <1>16, <1>17, <1>18, <1>19, LeafStepsAside DEF new

\* A leaf answers; if it has moved, its new parent.
LEMMA LeafReplyTwoLevels ==
    ASSUME TypeOK, TwoLevels, NEW d \in Leaves, LeafReply(d),
           UNCHANGED <<controllerVars, hub, histories>>
    PROVE  TwoLevels'
<1> DEFINE L == leaf[d]
           kept == IF Kind[d] = WINDOW THEN L.response.cmd ELSE "null"
           new == [L EXCEPT !.pc = "read", !.response = [NoResponse EXCEPT !.cmd = kept]]
           s == L.parent_id
<1>1. /\ L.pc = "reply" /\ L.response \in Responses /\ L.response.cmd # "delete"
      /\ L.snd = s /\ ~L.force_exit /\ s \in Controls /\ Running(s) /\ Alive(s)
      /\ L.snd # NoPipe
  BY LeafFields, HostsRun DEF LeafReply
<1>2. /\ LeafSteps(d, new)
      /\ up' = SendUp(up, Up(s), <<L.response>>)
      /\ UNCHANGED <<down, files, exit_code, fifos>>
  BY <1>1 DEF LeafReply, UpExists
<1>3. /\ new.pc = "read" /\ new.parent_id = L.parent_id /\ new.snd = L.snd
      /\ new.force_exit = L.force_exit /\ new.response.cmd # "delete"
  BY <1>1, LeafFields DEF NoResponse
<1>4. up[s] \in Seq(Responses) /\ up \in [Controls -> Seq(Responses)]
  <2>1. up \in [Controls -> Seq(Responses)]
    BY DEF TypeOK, PipesTypeOK
  <2>2. s \in Controls
    BY <1>1
  <2> HIDE DEF s
  <2> QED
    BY <2>1, <2>2
<1>5. up' = [up EXCEPT ![s] = @ \o <<L.response>>]
  BY <1>1, <1>2, EndsDiffer DEF SendUp
<1> HIDE DEF new, kept
<1>6. SameLeaf(L, new) /\ LeafIdle(new)
  BY <1>3 DEF SameLeaf, LeafIdle
<1>7. UNCHANGED <<nonHubVars, hub>>
  BY <1>2 DEF nonHubVars, peaceVars, controllerVars, histories
<1>8. CASE LeafIdle(L)
  <2>1. L.response \in Tells
    BY <1>1, <1>8 DEF LeafIdle
  <2>2. <<L.response>> \in Seq(Responses)
    BY <1>1, OneIsSeq
  <2>5. AllIn(<<L.response>>, Tells)
    BY <1>1, <1>4, <2>1, OneWritten
  <2>3. \A x \in Controls : QueueAside(up[x], up'[x], Tells)
    BY <1>2, <1>4, <2>2, <2>5, SendUpAside
  <2>4. \A x \in Devices : QueueAside(down[x], down'[x], Asks)
    BY <1>2, AsideIsOrder
  <2> QED
    BY <1>2, <1>6, <1>7, <1>8, <2>3, <2>4, LeafStepsAside
<1>9. CASE ~LeafIdle(L)
  <2>1. PICK p \in Controls, q \in Controls : Telling(d, p, q)
    BY <1>9, LeafFound
  <2>2. /\ SameShape
        /\ \A x \in Leaves : leaf'[x] = IF x = d THEN new ELSE leaf[x]
    BY <1>2, <1>6, <1>7, LeafKeepsShape
  <2>3. HasMoved(d, p, q) /\ s = q /\ L.response = Joining(d, q) /\ AllIn(up[q], Tells)
    BY <2>1 DEF Telling, HasMoved, At, Silent
  <2>4. user_command' = user_command
    BY <1>7 DEF nonHubVars
  <2>5. InOrderAlways' /\ HasMoved(d, p, q)'
    <3>1. InOrderAlways
      BY DEF TwoLevels
    <3>2. /\ UnderWayTo(d, p, q) /\ At(d, q, p, {p}) /\ Agreed({}) /\ MayTakeIn(d, q)
          /\ NoLinkTyped /\ user_command'.cmd # "add"
      BY <2>3, <2>4 DEF HasMoved, UnderWayTo
    <3>3. /\ InOrderAlways' /\ UnderWayTo(d, p, q)' /\ At(d, q, p, {p})' /\ Agreed({})'
          /\ MayTakeIn(d, q)'
      BY <2>2, <3>1, <3>2, SameShapeKeeps
    <3> QED
      BY <2>4, <3>2, <3>3 DEF HasMoved, NoLinkTyped
  <2>6. AllBut(up'[q], Tells, Joining(d, q))
    BY <1>1, <1>4, <1>5, <2>3, OneWritten
  <2>7. Silent({}, {}, {}, {q})'
    <3>1. Silent({}, {}, {d}, {})
      BY <2>1 DEF Telling
    <3>2. \A x \in Leaves : LeafIdle(leaf'[x])
      BY <1>6, <2>2, <3>1 DEF Silent
    <3>3. \A x \in Controls \ {q} : up'[x] = up[x]
      BY <1>4, <1>5, <2>3
    <3> QED
      BY <1>2, <1>7, <3>1, <3>2, <3>3 DEF Silent
  <2>8. TellsNew(d, p, q)'
    BY <2>5, <2>6, <2>7 DEF TellsNew
  <2> QED
    BY <2>5, <2>8 DEF TwoLevels
<1> QED
  BY <1>8, <1>9

\* The leaf that is told to move does: it opens the pipe of its new parent.
LEMMA LeafMoves ==
    ASSUME TypeOK, TwoLevels, NEW d \in Leaves, NEW m \in First(down[d]),
           LeafChangeParent(d, m), UNCHANGED <<controllerVars, hub, histories>>
    PROVE  /\ TwoLevels'
           /\ \E p \in Controls, q \in Controls : Sent(d, p, q, d) /\ Telling(d, p, q)'
           /\ \A x \in Leaves \ {d} : leaf'[x] = leaf[x]
<1>1. d \in Devices /\ d \notin Controls
  BY Ids
<1>2. LeafTakes(d, m) /\ m.dst = d /\ m.cmd = "change_parent"
  BY DEF LeafChangeParent
<1>3. PICK p \in Controls, q \in Controls :
           Sent(d, p, q, d) /\ m = LinkTo(d, q) /\ AllIn(Tail(down[d]), Asks)
  <2>1. m \notin Asks
    BY <1>2 DEF Asks, Links
  <2>2. /\ AllIn(Tail(down[d]), Asks)
        /\ \/ \E x \in Leaves, p \in Controls, q \in Controls :
                 Sent(x, p, q, d) /\ d \in {p, x} /\ m = LinkTo(x, q)
           \/ \E x \in Leaves, q \in Controls :
                 ToldOld(x, d, q) /\ d \in Hubs /\ m = Forget(d, x)
    BY <1>1, <2>1, RequestRead
  <2> QED
    BY <1>1, <2>2, Ids
<1>4. m.arg = q
  BY <1>3 DEF LinkTo
<1>5. /\ UnderWayTo(d, p, q) /\ At(d, p, p, {p}) /\ Agreed({}) /\ MayTakeIn(d, q)
      /\ NoLinkTyped /\ Silent({d}, {}, {}, {})
  BY <1>3 DEF Sent, Asked
<1>6. d \in Known /\ q \in Hosts /\ p # q /\ leaf[d].parent_id = p
  BY <1>5 DEF UnderWayTo, At
<1>7. UpOpens(q) /\ leaf[d].snd # NoPipe
  BY <1>6, HostsRun, LeafFields
<1> DEFINE new == [leaf[d] EXCEPT !.pc = "reply", !.snd = q, !.parent_id = q,
                                  !.response = Joining(d, q)]
<1>8. LeafSteps(d, new)
  BY <1>2, <1>4, <1>6, <1>7 DEF LeafChangeParent, Joining
<1>9. /\ new.pc = "reply" /\ new.response = Joining(d, q) /\ new.parent_id = q
      /\ new.force_exit = leaf[d].force_exit /\ new.snd = q
  BY LeafFields
<1>10. \A x \in Leaves : leaf'[x] = IF x = d THEN new ELSE leaf[x]
  BY <1>8 DEF TypeOK, LeafTypeOK, LeafSteps
<1> HIDE DEF new
<1>11. /\ UNCHANGED <<up, files, exit_code, fifos, controllerVars, hub, histories>>
       /\ down' = [down EXCEPT ![d] = Tail(@)]
  BY <1>2 DEF LeafTakes
<1>12. /\ UNCHANGED <<up, files, exit_code, fifos, hub, hurried, interrupted>>
       /\ UNCHANGED <<routing_table, user_command, exiting, blocked, shutdownVars>>
  BY <1>11 DEF controllerVars, histories
<1>13. Known' = Known /\ Hosts' = Hosts /\ Absent' = Absent
  BY <1>12 DEF Known, Hosts, Running, Absent
<1>14. InOrderAlways'
  <2>1. InOrderAlways
    BY DEF TwoLevels
  <2>2. Peaceful'
    BY <1>12, <1>13, <2>1 DEF InOrderAlways, Peaceful, shutdownVars
  <2>3. ControllerInOrder'
    BY <1>12, <1>13, <2>1 DEF InOrderAlways, ControllerInOrder, PipesOf, ChildrenOpen
  <2>4. \A h \in Hubs : HubInOrder(h, hub[h])'
    BY <1>12, <2>1 DEF InOrderAlways, HubInOrder, PipesOf, ChildrenOpen
  <2>5. LeafInOrder(d, leaf[d])'
    <3>1. Joining(d, q).cmd # "delete"
      BY DEF Joining, Response
    <3> QED
      BY <1>6, <1>9, <1>10, <1>13, <3>1, LeafFields DEF LeafInOrder
  <2>6. \A x \in Leaves : LeafInOrder(x, leaf[x])'
    BY <1>10, <1>13, <2>1, <2>5 DEF InOrderAlways, LeafInOrder
  <2> QED
    BY <2>2, <2>3, <2>4, <2>6 DEF InOrderAlways
<1>15. HasMoved(d, p, q)'
  <2>1. UnderWayTo(d, p, q)'
    BY <1>5, <1>10, <1>12, <1>13 DEF UnderWayTo, Home, At, Entered
  <2>2. At(d, q, p, {p})'
    BY <1>5, <1>9, <1>10, <1>12 DEF At, Known, Entered
  <2>3. Agreed({})' /\ MayTakeIn(d, q)' /\ NoLinkTyped'
    BY <1>5, <1>12 DEF Agreed, MayTakeIn, NoLinkTyped, Known, Entered, FreeFds
  <2> QED
    BY <2>1, <2>2, <2>3 DEF HasMoved
<1>16. Silent({}, {}, {d}, {})'
  <2>1. \A x \in Devices : AllIn(down'[x], Asks)
    BY <1>3, <1>5, <1>11 DEF Silent, TypeOK, PipesTypeOK
  <2>2. \A x \in Leaves \ {d} : LeafIdle(leaf'[x])
    BY <1>5, <1>10 DEF Silent
  <2> QED
    BY <1>5, <1>12, <2>1, <2>2 DEF Silent
<1>17. Telling(d, p, q)'
  BY <1>9, <1>10, <1>15, <1>16 DEF Telling
<1> QED
  BY <1>3, <1>10, <1>14, <1>17 DEF TwoLevels

\* Every step of a leaf.
LEMMA LeafTwoLevels ==
    ASSUME TypeOK, TypeOK', TwoLevels, NEW d \in Leaves, LeafProcess(d)
    PROVE  TwoLevels'
<1>1. LeafStep(d) /\ UNCHANGED <<controllerVars, hub, histories>>
  BY DEF LeafProcess
<1>2. ~LeafEndOfFile(d)
  BY EveryoneHeld, Ids DEF LeafEndOfFile
<1> QED
  BY <1>1, <1>2, LeafRequestTwoLevels, LeafReplyTwoLevels, LeafMoves DEF LeafStep

-----------------------------------------------------------------------------
(* The main thread of a hub.                                               *)

\* What a hub is, in order.
LEMMA HubOrderly ==
    ASSUME TypeOK, TwoLevels, NEW h \in Hubs
    PROVE  /\ HubTyped(hub[h]) /\ HubReady(hub[h]) /\ HubInOrder(h, hub[h])
           /\ ~hub[h].force_exit /\ ~hub[h].parent_changed /\ hub[h].bottom_pc = "read"
           /\ hub[h].pc \notin {"exit", "blocked"}
           /\ h \in Devices /\ h \in Controls /\ h \notin Leaves /\ h # CONTROLLER_ID
           /\ files[h] \in [Fds -> Ends] /\ IsTable(hub[h].routing_table, Hubs \cup Timers)
<1>1. HubTyped(hub[h]) /\ HubReady(hub[h]) /\ files \in [Controls -> [Fds -> Ends]]
  BY DEF TypeOK, HubTypeOK, PipesTypeOK
<1>2. HubInOrder(h, hub[h])
  BY DEF TwoLevels, InOrderAlways
<1>3. hub[h].pc \notin {"exit", "blocked"}
  <2>1. HubIdle(hub[h]) => hub[h].pc \notin {"exit", "blocked"}
    BY DEF HubIdle
  <2>2. \A d, q : Routed(d, h, q) \/ Removes(d, h, q) \/ Types(d, h, q) \/ Answering(d, h, q)
                     => hub[h].pc \notin {"exit", "blocked"}
    BY DEF Routed, Removes, Types, Answering
  <2> QED
    BY <2>1, <2>2, HubFound
<1>4. h \in Devices /\ h \in Controls /\ h \notin Leaves /\ h # CONTROLLER_ID
  BY Ids
<1>5. IsTable(hub[h].routing_table, Hubs \cup Timers)
  BY <1>1, HubFields
<1> QED
  BY <1>1, <1>2, <1>3, <1>4, <1>5 DEF HubInOrder

\* A hub that reads requests, or answers them, is at the link under way or at none.
LEMMA HubReadsIdle ==
    ASSUME TwoLevels, NEW h \in Hubs, hub[h].pc \in {"read", "forward"}
    PROVE  HubIdle(hub[h])
<1>1. \A d, q : ~(Routed(d, h, q) \/ Removes(d, h, q) \/ Types(d, h, q) \/ Answering(d, h, q))
  BY DEF Routed, Removes, Types, Answering
<1> QED
  BY <1>1, HubFound

\* What the stages are after a step that changes nobody's place.
LEMMA ShapeKeepsStages ==
    ASSUME TwoLevels, SameShape, user_command' = user_command
    PROVE  /\ InOrderAlways'
           /\ \A d \in Leaves, p \in Controls, q \in Controls :
                 /\ Asked(d, p, q) => Asked(d, p, q)'
                 /\ HasMoved(d, p, q) => HasMoved(d, p, q)'
                 /\ Told(d, p, q) => Told(d, p, q)'
                 /\ Over(d, p, q) => Over(d, p, q)'
           /\ NoLinkTyped' = NoLinkTyped
           /\ \A p \in Hubs : \A d : Forgotten(p, d)' = Forgotten(p, d)
<1>1. /\ InOrderAlways'
      /\ \A x \in Leaves : \A own, known, hubs : At(x, own, known, hubs) => At(x, own, known, hubs)'
      /\ \A X : Agreed(X) => Agreed(X)'
      /\ \A d \in Leaves, q \in Controls : MayTakeIn(d, q) => MayTakeIn(d, q)'
      /\ \A d \in Leaves : \A p, q : UnderWayTo(d, p, q) /\ user_command'.cmd # "add"
                                      => UnderWayTo(d, p, q)'
  BY SameShapeKeeps DEF TwoLevels
<1>2. \A d \in Leaves : \A p, q : UnderWayTo(d, p, q) => UnderWayTo(d, p, q)'
  BY <1>1 DEF UnderWayTo
<1>3. NoLinkTyped' = NoLinkTyped
  BY DEF NoLinkTyped
<1>4. \A p \in Hubs : \A d : Forgotten(p, d)' = Forgotten(p, d)
  BY DEF Forgotten, SameShape, SameHub
<1> QED
  BY <1>1, <1>2, <1>3, <1>4 DEF Asked, HasMoved, Told, Over

\* A hub reads a request that is none of a link, or what the link under way is at.
LEMMA HubReads ==
    ASSUME TypeOK, TwoLevels, NEW h \in Hubs, NEW m \in First(down[h]), TopDownReads(h, m)
    PROVE  /\ m \in Requests /\ HubIdle(hub[h]) /\ hub[h].pc = "read"
           /\ m \in Asks => \A x \in Devices : QueueAside(down[x], down'[x], Asks)
           /\ m \notin Asks =>
                 /\ \A D, H, L, U : h \in D /\ Silent(D, H, L, U) =>
                       \A x \in Devices \ (D \ {h}) : AllIn(down'[x], Asks)
                 /\ \/ \E d \in Leaves, q \in Controls :
                          Sent(d, h, q, h) /\ m = LinkTo(d, q)
                    \/ \E d \in Leaves, q \in Controls :
                          ToldOld(d, h, q) /\ m = Forget(h, d)
<1>1. h \in Devices /\ h \notin Leaves
  BY Ids
<1>2. /\ m \in Requests
      /\ m \in Asks => QueueAside(down[h], Tail(down[h]), Asks)
      /\ m \notin Asks =>
            /\ AllIn(Tail(down[h]), Asks)
            /\ \/ \E d \in Leaves, p \in Controls, q \in Controls :
                     Sent(d, p, q, h) /\ h \in {p, d} /\ m = LinkTo(d, q)
               \/ \E d \in Leaves, q \in Controls :
                     ToldOld(d, h, q) /\ h \in Hubs /\ m = Forget(h, d)
  BY <1>1, RequestRead
<1>3. hub[h].pc = "read" /\ down' = [down EXCEPT ![h] = Tail(@)]
  BY DEF TopDownReads
<1>4. \A x \in Devices : down'[x] = IF x = h THEN Tail(down[h]) ELSE down[x]
  BY <1>3 DEF TypeOK, PipesTypeOK
<1>5. HubIdle(hub[h])
  BY <1>3, HubReadsIdle
<1>6. m \in Asks => \A x \in Devices : QueueAside(down[x], down'[x], Asks)
  BY <1>2, <1>4, AsideIsOrder
<1>7. m \notin Asks => \A D, H, L, U : h \in D /\ Silent(D, H, L, U) =>
                       \A x \in Devices \ (D \ {h}) : AllIn(down'[x], Asks)
  BY <1>2, <1>4 DEF Silent
<1> QED
  BY <1>1, <1>2, <1>3, <1>5, <1>6, <1>7

\* What a hub does about an info or a switch, or with no child about any request.
LEMMA HubRequestTwoLevels ==
    ASSUME TypeOK, TypeOK', TwoLevels, NEW h \in Hubs, NEW m \in First(down[h]),
           HubForwards(h, m) \/ HubAnswersChildless(h, m) \/ HubRefuses(h, m),
           UNCHANGED <<controllerVars, leaf, histories>>
    PROVE  TwoLevels'
<1> DEFINE H == hub[h]
<1>1. TopDownReads(h, m) /\ m.dst = h /\ UNCHANGED files
  BY DEF HubForwards, HubAnswersChildless, HubRefuses
<1>2. UNCHANGED <<up, exit_code, fifos>>
  BY <1>1 DEF TopDownReads
<1>3. m \in Requests /\ HubIdle(H) /\ H.pc = "read"
  BY <1>1, HubReads
<1>4. m \in Asks
  <2> SUFFICES ASSUME m \notin Asks PROVE FALSE
    OBVIOUS
  <2>1. \/ \E d \in Leaves, q \in Controls : Sent(d, h, q, h) /\ m = LinkTo(d, q)
        \/ \E d \in Leaves, q \in Controls : ToldOld(d, h, q) /\ m = Forget(h, d)
    BY <1>1, HubReads
  <2>2. \A d \in Leaves : \A q : m # LinkTo(d, q)
    BY <1>1, Ids DEF LinkTo
  <2>3. PICK d \in Leaves, q \in Controls : ToldOld(d, h, q) /\ m = Forget(h, d)
    BY <2>1, <2>2
  <2>4. d \in Entered(h)
    BY <2>3 DEF ToldOld, Told, At
  <2>5. H.has_children
    BY <2>4, HubOrderly DEF HubInOrder, Entered
  <2>6. m.cmd = "remove_child"
    BY <2>3 DEF Forget
  <2> QED
    BY <2>5, <2>6 DEF HubForwards, HubAnswersChildless, HubRefuses, Fits, Switches,
       PowerSwitches, DoorSwitches, Registries
<1>5. m.cmd # "delete" /\ m.cmd \notin Links
  BY <1>4 DEF Asks
<1>6. \A x \in Devices : QueueAside(down[x], down'[x], Asks)
  BY <1>1, <1>4, HubReads
<1>7. \A x \in Controls : QueueAside(up[x], up'[x], Tells)
  BY <1>2, AsideIsOrder
<1>8. UNCHANGED <<nonHubVars, leaf>>
  BY <1>1, <1>2 DEF nonHubVars, peaceVars, controllerVars, histories
<1>9. HubTyped(H) /\ ~H.force_exit
  BY HubOrderly
<1>10. CASE HubForwards(h, m)
  <2> DEFINE G == [H EXCEPT !.pc = "forward", !.request = m]
  <2>1. HubStep(h, G)
    BY <1>10 DEF HubForwards
  <2>2. SameHub(H, G) /\ HubIdle(G)
    BY <1>3, <1>4, <1>9 DEF SameHub, HubIdle, HubTyped
  <2> HIDE DEF G
  <2>3. HubAside(H, G)
    BY <1>3, <2>2 DEF HubAside
  <2> QED
    BY <1>6, <1>7, <1>8, <2>1, <2>2, <2>3, HubStepsAside
<1>11. CASE HubAnswersChildless(h, m) \/ HubRefuses(h, m)
  <2>1. PICK code, args : HubStep(h, Replying(H, Response(h, m.cmd, code, args)))
    <3>1. CASE HubRefuses(h, m)
      BY <3>1 DEF HubRefuses
    <3>2. CASE HubAnswersChildless(h, m)
      <4> DEFINE R == Replying(H, Response(h, m.cmd, "OK",
                         IF m.cmd = "info" THEN <<UNDEFINED_STATE>> ELSE <<>>))
      <4>1. HubStep(h, [R EXCEPT !.force_exit = @ \/ m.cmd = "delete"])
        BY <3>2 DEF HubAnswersChildless
      <4>2. R.force_exit = FALSE /\ R = [R EXCEPT !.force_exit = FALSE]
        BY <1>9 DEF Replying, HubTyped
      <4>3. [R EXCEPT !.force_exit = @ \/ m.cmd = "delete"] = R
        <5> HIDE DEF R
        <5> QED
          BY <1>5, <4>2
      <4> QED
        BY <4>1, <4>3
    <3> QED
      BY <1>11, <3>1, <3>2
  <2> DEFINE r == Response(h, m.cmd, code, args)
             G == Replying(H, r)
  <2>2. G.pc = "reply" /\ G.response = r /\ SameHub(H, G)
        /\ G.remove_child_succeed = H.remove_child_succeed
    BY <1>9 DEF Replying, HubTyped, SameHub
  <2>3. HubReady(hub'[h]) /\ hub'[h] = G
    <3>1. hub = [x \in Hubs |-> hub[x]] /\ HubReady(hub'[h])
      BY DEF TypeOK, HubTypeOK
    <3> HIDE DEF G
    <3> QED
      BY <2>1, <3>1 DEF HubStep, G
  <2> HIDE DEF G
  <2>4. r \in Responses
    BY <2>2, <2>3 DEF HubReady
  <2>5. r \in Tells
    BY <1>5, <2>4 DEF Tells, Response
  <2>6. HubAside(H, G)
    BY <1>3, <2>2, <2>5 DEF HubAside, HubIdle
  <2>7. HubStep(h, G)
    BY <2>1 DEF G
  <2> QED
    BY <1>6, <1>7, <1>8, <2>2, <2>6, <2>7, HubStepsAside
<1> QED
  BY <1>10, <1>11

\* A hub looks the route of a request up: the leaf to move is one of its children.
LEMMA HubRoutesTwoLevels ==
    ASSUME TypeOK, TypeOK', TwoLevels, NEW h \in Hubs, NEW m \in First(down[h]),
           HubRoutes(h, m), UNCHANGED <<controllerVars, leaf, histories>>
    PROVE  TwoLevels'
<1> DEFINE H == hub[h]
           G1 == [H EXCEPT !.pc = "send", !.request = m, !.route = H.routing_table[m.dst].fd]
<1>1. TopDownReads(h, m) /\ m.dst # h /\ UNCHANGED files
  BY DEF HubRoutes
<1>2. UNCHANGED <<up, exit_code, fifos>>
  BY <1>1 DEF TopDownReads
<1>3. m \in Requests /\ HubIdle(H) /\ H.pc = "read" /\ ~H.remove_child_succeed
  BY <1>1, HubReads DEF HubIdle
<1>4. UNCHANGED <<nonHubVars, leaf>>
  BY <1>1, <1>2 DEF nonHubVars, peaceVars, controllerVars, histories
<1>5. HubTyped(H) /\ ~H.force_exit
  BY HubOrderly
<1>6. /\ G1.pc = "send" /\ G1.request = m /\ G1.route = H.routing_table[m.dst].fd
      /\ ~G1.remove_child_succeed /\ SameHub(H, G1)
  BY <1>3, <1>5 DEF HubTyped, SameHub
<1> HIDE DEF G1
<1>7. CASE m \in Asks
  <2>1. m.cmd # "delete" /\ m.cmd \notin Links
    BY <1>7 DEF Asks
  <2>2. \A x \in Devices : QueueAside(down[x], down'[x], Asks)
    BY <1>1, <1>7, HubReads
  <2>3. \A x \in Controls : QueueAside(up[x], up'[x], Tells)
    BY <1>2, AsideIsOrder
  <2>4. CASE m.dst \in DOMAIN H.routing_table
    <3>1. HubStep(h, G1)
      BY <2>4 DEF HubRoutes, G1
    <3>2. HubAside(H, G1)
      BY <1>3, <1>6, <1>7 DEF HubAside, HubIdle
    <3> QED
      BY <1>4, <1>6, <2>2, <2>3, <3>1, <3>2, HubStepsAside
  <2>5. CASE m.dst \notin DOMAIN H.routing_table
    <3> DEFINE r == Response(h, m.cmd, "ROUTE_NOT_FOUND",
                             IF m.cmd = "info" THEN <<>> ELSE <<m.dst>>)
               G == Replying(H, r)
    <3>1. HubStep(h, G)
      BY <2>5 DEF HubRoutes
    <3>2. G.pc = "reply" /\ G.response = r /\ SameHub(H, G)
          /\ G.remove_child_succeed = H.remove_child_succeed
      BY <1>5 DEF Replying, HubTyped, SameHub
    <3>3. HubReady(hub'[h]) /\ hub'[h] = G
      <4>1. hub = [x \in Hubs |-> hub[x]] /\ HubReady(hub'[h])
        BY DEF TypeOK, HubTypeOK
      <4> HIDE DEF G
      <4> QED
        BY <3>1, <4>1 DEF HubStep
    <3> HIDE DEF G
    <3>4. r \in Responses
      BY <3>2, <3>3 DEF HubReady
    <3>5. r \in Tells
      BY <2>1, <3>4 DEF Tells, Response
    <3>6. HubAside(H, G)
      BY <1>3, <3>2, <3>5 DEF HubAside, HubIdle
    <3> QED
      BY <1>4, <2>2, <2>3, <3>1, <3>2, <3>6, HubStepsAside
  <2> QED
    BY <2>4, <2>5
<1>8. CASE m \notin Asks
  <2>1. ~\E d \in Leaves, q \in Controls : ToldOld(d, h, q) /\ m = Forget(h, d)
    BY <1>1 DEF Forget
  <2>2. PICK d \in Leaves, q \in Controls : Sent(d, h, q, h) /\ m = LinkTo(d, q)
    BY <1>1, <1>8, <2>1, HubReads
  <2>3. Asked(d, h, q) /\ Silent({h}, {}, {}, {}) /\ m.dst = d /\ NoLinkTyped
    BY <2>2 DEF Sent, LinkTo
  <2>4. d \in Entered(h)
    BY <2>3 DEF Asked, At
  <2>5. HubStep(h, G1)
    BY <2>3, <2>4 DEF HubRoutes, G1, Entered
  <2>6. files[h][G1.route] = Down(d)
    BY <1>6, <2>3, <2>4, HubOrderly DEF HubInOrder, PipesOf, ChildrenOpen, Direct, Entered
  <2>7. SameShape /\ \A x \in Hubs : hub'[x] = IF x = h THEN G1 ELSE hub[x]
    BY <1>4, <1>6, <2>5, HubKeepsShape
  <2>8. user_command' = user_command
    BY <1>4 DEF nonHubVars
  <2>9. InOrderAlways' /\ Asked(d, h, q)' /\ NoLinkTyped'
    BY <2>3, <2>7, <2>8, Ids, ShapeKeepsStages
  <2>10. \A x \in Devices : AllIn(down'[x], Asks)
    BY <1>1, <1>8, <2>3, HubReads
  <2>11. Silent({}, {h}, {}, {})'
    BY <1>2, <1>4, <2>3, <2>7, <2>10 DEF Silent
  <2>12. Routed(d, h, q)'
    BY <1>1, <1>6, <2>2, <2>6, <2>7, <2>9, <2>11 DEF Routed
  <2> QED
    BY <2>9, <2>12, Ids DEF TwoLevels
<1> QED
  BY <1>7, <1>8

\* A request leaves by the route; it reaches the leaf to move.
LEMMA HubSendsTwoLevels ==
    ASSUME TypeOK, TypeOK', TwoLevels, NEW h \in Hubs, HubSends(h),
           UNCHANGED <<controllerVars, leaf, histories>>
    PROVE  TwoLevels'
<1> DEFINE H == hub[h]
           G == Resumed(H)
<1>1. /\ H.pc = "send" /\ HubStep(h, G) /\ UNCHANGED <<up, files, exit_code, fifos>>
      /\ down' = SendDown(down, files[h][H.route], H.request)
  BY DEF HubSends
<1>2. HubTyped(H) /\ ~H.force_exit /\ down \in [Devices -> Seq(Requests)]
  BY HubOrderly DEF TypeOK, PipesTypeOK
<1>3. /\ G.pc = "read" /\ G.remove_child_succeed = H.remove_child_succeed /\ SameHub(H, G)
  BY <1>2 DEF Resumed, HubTyped, SameHub
<1> HIDE DEF G
<1>4. UNCHANGED <<nonHubVars, leaf>>
  BY <1>1 DEF nonHubVars, peaceVars, controllerVars, histories
<1>5. SameShape /\ \A x \in Hubs : hub'[x] = IF x = h THEN G ELSE hub[x]
  BY <1>1, <1>3, <1>4, HubKeepsShape
<1>6. CASE HubIdle(H)
  <2>1. H.request \in Asks
    BY <1>1, <1>6 DEF HubIdle
  <2>2. \A x \in Devices : QueueAside(down[x], down'[x], Asks)
    BY <1>1, <1>2, <2>1, SendDownAside
  <2>3. \A x \in Controls : QueueAside(up[x], up'[x], Tells)
    BY <1>1, AsideIsOrder
  <2>4. HubAside(H, G)
    BY <1>3, <1>6 DEF HubAside, HubIdle
  <2> QED
    BY <1>1, <1>3, <1>4, <2>2, <2>3, <2>4, HubStepsAside
<1>7. CASE ~HubIdle(H)
  <2>1. \A d, q : ~(Removes(d, h, q) \/ Types(d, h, q) \/ Answering(d, h, q))
    BY <1>1 DEF Removes, Types, Answering
  <2>2. PICK d \in Leaves, q \in Controls : Routed(d, h, q)
    BY <1>7, <2>1, HubFound
  <2>3. /\ Asked(d, h, q) /\ Silent({}, {h}, {}, {}) /\ NoLinkTyped
        /\ H.request = LinkTo(d, q) /\ files[h][H.route] = Down(d)
        /\ ~H.remove_child_succeed
    BY <2>2 DEF Routed
  <2>4. d \in Devices /\ Alive(d) /\ d # CONTROLLER_ID
    <3>1. d \in Known /\ d \in Devices /\ d # CONTROLLER_ID
      BY <2>3, Ids DEF Asked, UnderWayTo
    <3>2. exit_code[d] \in {"starting", "none"}
      BY <3>1 DEF TwoLevels, InOrderAlways, Peaceful, Absent
    <3> QED
      BY <3>1, <3>2 DEF Alive
  <2>5. down' = [down EXCEPT ![d] = Append(@, LinkTo(d, q))]
    <3>1. down' = SendDown(down, Down(d), LinkTo(d, q))
      BY <1>1, <2>3
    <3>2. Down(d).dir = "down" /\ Down(d).id = d
      BY EndsDiffer
    <3> QED
      BY <2>4, <3>1, <3>2 DEF SendDown
  <2>6. AllIn(down[d], Asks) /\ down[d] \in Seq(Requests)
    BY <1>2, <2>3, <2>4 DEF Silent
  <2>7. LinkTo(d, q) \in Requests
    BY <1>1, <2>3, HubOrderly DEF HubReady
  <2>8. AllBut(down'[d], Asks, LinkTo(d, q))
    BY <1>2, <2>4, <2>5, <2>6, <2>7, AppendedToQueue
  <2>9. user_command' = user_command
    BY <1>4 DEF nonHubVars
  <2>10. InOrderAlways' /\ Asked(d, h, q)' /\ NoLinkTyped'
    BY <1>5, <2>3, <2>9, Ids, ShapeKeepsStages
  <2>11. Silent({d}, {}, {}, {})'
    <3>1. \A x \in Devices \ {d} : down'[x] = down[x]
      BY <1>2, <2>4, <2>5
    <3>2. HubIdle(G)
      BY <1>3, <2>3 DEF HubIdle
    <3> QED
      BY <1>1, <1>4, <1>5, <2>3, <3>1, <3>2 DEF Silent
  <2>12. Sent(d, h, q, d)'
    BY <2>4, <2>8, <2>10, <2>11 DEF Sent
  <2> QED
    BY <2>10, <2>12, Ids DEF TwoLevels
<1> QED
  BY <1>6, <1>7

\* A hub is told to forget the leaf that has moved.
LEMMA HubRemovesTwoLevels ==
    ASSUME TypeOK, TypeOK', TwoLevels, NEW h \in Hubs, NEW m \in First(down[h]),
           HubRemoves(h, m), UNCHANGED <<controllerVars, leaf, histories>>
    PROVE  TwoLevels'
<1> DEFINE H == hub[h]
           G == [H EXCEPT !.pc = "remove", !.request = m]
<1>1. TopDownReads(h, m) /\ m.dst = h /\ m.cmd = "remove_child" /\ UNCHANGED files
  BY DEF HubRemoves
<1>2. UNCHANGED <<up, exit_code, fifos>> /\ HubStep(h, G)
  BY <1>1 DEF TopDownReads, HubRemoves
<1>3. HubIdle(H) /\ H.pc = "read" /\ ~H.remove_child_succeed /\ HubTyped(H)
  BY <1>1, HubReads, HubOrderly DEF HubIdle
<1>4. /\ G.pc = "remove" /\ G.request = m /\ ~G.remove_child_succeed /\ SameHub(H, G)
  BY <1>3 DEF HubTyped, SameHub
<1> HIDE DEF G
<1>5. UNCHANGED <<nonHubVars, leaf>>
  BY <1>1, <1>2 DEF nonHubVars, peaceVars, controllerVars, histories
<1>6. SameShape /\ \A x \in Hubs : hub'[x] = IF x = h THEN G ELSE hub[x]
  BY <1>2, <1>4, <1>5, HubKeepsShape
<1>7. m \notin Asks
  BY <1>1 DEF Asks, Links
<1>8. PICK d \in Leaves, q \in Controls : ToldOld(d, h, q) /\ m = Forget(h, d)
  <2>1. \A d, q : m # LinkTo(d, q)
    BY <1>1 DEF LinkTo
  <2> QED
    BY <1>1, <1>7, <2>1, HubReads
<1>9. Told(d, h, q) /\ Silent({h}, {}, {}, {})
  BY <1>8 DEF ToldOld
<1>10. user_command' = user_command
  BY <1>5 DEF nonHubVars
<1>11. InOrderAlways' /\ Told(d, h, q)'
  BY <1>6, <1>9, <1>10, Ids, ShapeKeepsStages
<1>12. \A x \in Devices : AllIn(down'[x], Asks)
  BY <1>1, <1>7, <1>9, HubReads
<1>13. Silent({}, {h}, {}, {})'
  BY <1>2, <1>5, <1>6, <1>9, <1>12 DEF Silent
<1>14. Removes(d, h, q)'
  BY <1>4, <1>6, <1>8, <1>11, <1>13 DEF Removes
<1> QED
  BY <1>11, <1>14, Ids DEF TwoLevels

\* A hub passes an info or a switch on to all its children.
LEMMA HubBroadcastsTwoLevels ==
    ASSUME TypeOK, TypeOK', TwoLevels, NEW h \in Hubs, HubBroadcasts(h),
           UNCHANGED <<controllerVars, leaf, histories>>
    PROVE  TwoLevels'
<1> DEFINE H == hub[h]
           children == InIdOrder(Direct(H.routing_table, h))
           p == [cmd |-> H.request.cmd, devices |-> Range(children),
                 has_error |-> FALSE, state |-> UNDEFINED_STATE]
           G == Resumed([H EXCEPT !.pending = Append(@, p)])
           S == {q \in [Devices -> Seq(Requests)] :
                    \A x \in Devices : QueueAside(down[x], q[x], Asks)}
<1>1. H.pc = "forward" /\ UNCHANGED <<up, files, exit_code, fifos>> /\ HubStep(h, G)
  BY Zenon DEF HubBroadcasts
<1>2. HubIdle(H) /\ ~H.force_exit /\ HubTyped(H) /\ HubInOrder(h, H)
  BY <1>1, HubReadsIdle, HubOrderly
<1>3. H.request \in Asks /\ H.request \in Requests
  BY <1>1, <1>2 DEF HubIdle, Asks
<1>4. p.cmd # "delete"
  BY <1>3 DEF Asks
<1> HIDE DEF p
<1>5. \A i \in DOMAIN Append(H.pending, p) : Append(H.pending, p)[i].cmd # "delete"
  <2>1. H.pending \in Seq(Pendings)
    BY <1>2, HubFields
  <2>2. \A i \in DOMAIN H.pending : H.pending[i].cmd # "delete"
    BY <1>2 DEF HubInOrder
  <2> QED
    BY <1>4, <2>1, <2>2
<1>6. /\ SameHub(H, G) /\ G.pc = "read" /\ G.remove_child_succeed = H.remove_child_succeed
  <2> DEFINE ps == Append(H.pending, p)
  <2> HIDE DEF ps
  <2>1. LET K == Resumed([H EXCEPT !.pending = ps])
        IN  /\ K.pc = "read" /\ K.remove_child_succeed = H.remove_child_succeed
            /\ K.device_type = H.device_type /\ K.routing_table = H.routing_table
            /\ K.children = H.children /\ K.has_children = H.has_children
            /\ K.parent_id = H.parent_id /\ K.parent_changed = H.parent_changed
            /\ K.force_exit = H.force_exit /\ K.snd = H.snd /\ K.bottom_pc = H.bottom_pc
            /\ K.pending = ps
    BY <1>2 DEF Resumed, HubTyped
  <2> QED
    BY <1>5, <2>1 DEF SameHub, ps
<1>7. down' \in S
  <2>1. down \in S
    BY AsideIsOrder DEF TypeOK, PipesTypeOK
  <2>2. ASSUME NEW q \in S, NEW d \in Devices, NEW end
        PROVE  SendDown(q, end, [H.request EXCEPT !.dst = d]) \in S
    <3> DEFINE m == [H.request EXCEPT !.dst = d]
    <3>1. m \in Asks
      <4>1. m \in Requests
        BY <1>3, RequestFor
      <4>2. m.cmd = H.request.cmd
        BY <1>3 DEF Requests
      <4> HIDE DEF m
      <4> QED
        BY <1>3, <4>1, <4>2 DEF Asks
    <3> HIDE DEF m
    <3>2. q \in [Devices -> Seq(Requests)] /\ m \in Requests
      BY <3>1 DEF Asks
    <3>3. SendDown(q, end, m) \in [Devices -> Seq(Requests)]
      BY <3>2, SendDownIs
    <3>4. \A x \in Devices : QueueAside(q[x], SendDown(q, end, m)[x], Asks)
      BY <3>1, <3>2, SendDownAside
    <3>5. \A x \in Devices : QueueAside(down[x], SendDown(q, end, m)[x], Asks)
      BY <3>4, AsideIsOrder
    <3> QED
      BY <3>3, <3>5 DEF m
  <2>3. PipesTypeOK /\ HubTypeOK
    BY DEF TypeOK
  <2> HIDE DEF S
  <2> QED
    BY <2>1, <2>2, <2>3, BroadcastWithin
<1> HIDE DEF G
<1>8. \A x \in Devices : QueueAside(down[x], down'[x], Asks)
  BY <1>7
<1>9. \A x \in Controls : QueueAside(up[x], up'[x], Tells)
  BY <1>1, AsideIsOrder
<1>10. HubAside(H, G)
  BY <1>2, <1>6 DEF HubAside, HubIdle
<1>11. UNCHANGED <<nonHubVars, leaf>>
  BY <1>1 DEF nonHubVars, peaceVars, controllerVars, histories
<1> QED
  BY <1>1, <1>6, <1>8, <1>9, <1>10, <1>11, HubStepsAside

\* The old parent has forgotten the leaf and reads its own type.
LEMMA HubTypesTwoLevels ==
    ASSUME TypeOK, TwoLevels, NEW h \in Hubs, HubTypes(h),
           UNCHANGED <<controllerVars, leaf, histories>>
    PROVE  TwoLevels'
<1> DEFINE H == hub[h]
           r == Response(h, H.request.cmd, "OK", <<H.request.arg, H.device_type>>)
           G == Replying(H, r)
<1>1. H.pc = "type" /\ HubStep(h, G) /\ UNCHANGED <<down, up, files, exit_code, fifos>>
  BY DEF HubTypes, pipes
<1>2. PICK d \in Leaves, q \in Controls : Types(d, h, q)
  <2>1. ~HubIdle(H)
    BY <1>1 DEF HubIdle
  <2>2. \A d, q : ~(Routed(d, h, q) \/ Removes(d, h, q) \/ Answering(d, h, q))
    BY <1>1 DEF Routed, Removes, Answering
  <2> QED
    BY <2>1, <2>2, HubFound
<1>3. /\ Over(d, h, q) /\ Silent({}, {h}, {}, {}) /\ H.request = Forget(h, d)
  BY <1>2 DEF Types
<1>4. r = Forgotten(h, d)
  BY <1>3 DEF Forgotten, Forget
<1> HIDE DEF r
<1>5. G.pc = "reply" /\ G.response = r /\ SameHub(H, G)
  BY HubOrderly DEF Replying, HubTyped, SameHub
<1> HIDE DEF G
<1>6. UNCHANGED <<nonHubVars, leaf>>
  BY <1>1 DEF nonHubVars, peaceVars, controllerVars, histories
<1>7. SameShape /\ \A x \in Hubs : hub'[x] = IF x = h THEN G ELSE hub[x]
  BY <1>1, <1>5, <1>6, HubKeepsShape
<1>8. user_command' = user_command
  BY <1>6 DEF nonHubVars
<1>9. InOrderAlways' /\ Over(d, h, q)' /\ Forgotten(h, d)' = Forgotten(h, d)
  BY <1>3, <1>7, <1>8, Ids, ShapeKeepsStages
<1>10. Silent({}, {h}, {}, {})'
  BY <1>1, <1>3, <1>6, <1>7 DEF Silent
<1>11. Answering(d, h, q)'
  BY <1>4, <1>5, <1>7, <1>9, <1>10 DEF Answering
<1> QED
  BY <1>9, <1>11, Ids DEF TwoLevels

\* What a child that leaves makes complete is none of a link.
LEMMA WaivedAside ==
    ASSUME NEW H, HubTyped(H), NEW d, \A i \in DOMAIN H.pending : H.pending[i].cmd # "delete"
    PROVE  /\ SameHub(H, Waived(H, d)) /\ HubTyped(Waived(H, d))
           /\ \A h \in Hubs, args \in Seq(Nat) :
                 /\ WaivedResponses(h, H, d, args) \in Seq(Responses)
                 /\ AllIn(WaivedResponses(h, H, d, args), Tells)
<1> DEFINE I == {i \in DOMAIN H.pending : H.pending[i].devices # {d}}
           kept == ThoseAt(H.pending, I)
           pending == [i \in DOMAIN kept |-> [kept[i] EXCEPT !.devices = @ \ {d}]]
           told == H.force_exit \/ \E p \in Range(H.pending) :
                                       p.cmd = "delete" /\ p.devices = {d}
           S == {p \in Pendings : p.cmd # "delete"}
<1>1. H.pending \in Seq(S)
  BY HubFields
<1>2. kept \in Seq(S)
  BY <1>1, ThoseAtTyped
<1>3. told = H.force_exit
  BY HubFields DEF Range
<1>4. Waived(H, d) = [H EXCEPT !.pending = pending, !.force_exit = told]
  BY DEF HubTyped, Waived
<1> HIDE DEF kept
<1>5. \A i \in DOMAIN pending : pending[i].cmd # "delete"
  <2> SUFFICES ASSUME NEW i \in DOMAIN kept
               PROVE  [kept[i] EXCEPT !.devices = @ \ {d}].cmd # "delete"
    OBVIOUS
  <2> DEFINE p == kept[i]
  <2>1. p \in S
    BY <1>2
  <2> HIDE DEF p
  <2>2. [p EXCEPT !.devices = @ \ {d}].cmd = p.cmd
    BY <2>1 DEF Pendings
  <2> QED
    BY <2>1, <2>2 DEF p
<1> HIDE DEF pending, told
<1>6. SameHub(H, Waived(H, d))
  BY <1>3, <1>4, <1>5 DEF SameHub, HubTyped
<1>7. ASSUME NEW h \in Hubs, NEW args \in Seq(Nat)
      PROVE  /\ WaivedResponses(h, H, d, args) \in Seq(Responses)
             /\ AllIn(WaivedResponses(h, H, d, args), Tells)
  <2> DEFINE W == WaivedResponses(h, H, d, args)
  <2> HIDE DEF S
  <2>1. /\ W \in Seq(Responses)
        /\ \A n \in DOMAIN W : \E p \in S : W[n].cmd = p.cmd
    BY <1>1, WaivedResponsesTyped
  <2> HIDE DEF W
  <2>2. \A p \in S : p.cmd # "delete" /\ p.cmd \notin Links
    BY CollectableIs DEF S, Pendings
  <2>3. \A n \in DOMAIN W : W[n] \in Responses
    BY <2>1
  <2>4. AllIn(W, Tells)
    BY <2>1, <2>2, <2>3 DEF AllIn, Tells
  <2> QED
    BY <2>1, <2>4 DEF W
<1> QED
  BY <1>6, <1>7, WaivedTyped

\* What a hub writes to its parent, the controller has to read.
LEMMA HubWritesUp ==
    ASSUME TypeOK, TwoLevels, NEW h \in Hubs, NEW F, F[hub[h].snd] = files[h][hub[h].snd],
           NEW G, G.snd = hub[h].snd, NEW q, NEW ms
    PROVE  WriteUp(F, G, q, ms) = [q EXCEPT ![CONTROLLER_ID] = @ \o ms]
<1>1. /\ G.snd # NoFd /\ F[G.snd] = Up(CONTROLLER_ID)
  BY HubOrderly DEF HubInOrder
<1>2. Alive(CONTROLLER_ID)
  BY DEF TwoLevels, InOrderAlways, Peaceful, Alive
<1>3. Up(CONTROLLER_ID).dir = "up" /\ Up(CONTROLLER_ID).id = CONTROLLER_ID
  BY EndsDiffer
<1> QED
  BY <1>1, <1>2, <1>3 DEF WriteUp, SendUp

\* A hub answers: to an info or a switch, or that it has forgotten the leaf.
LEMMA HubRepliesTwoLevels ==
    ASSUME TypeOK, TwoLevels, NEW h \in Hubs, HubReplies(h),
           UNCHANGED <<controllerVars, leaf, histories>>
    PROVE  TwoLevels'
<1> DEFINE H == hub[h]
           r == H.response
           history == IF H.parent_changed THEN History(H, h) ELSE <<>>
           waived == IF H.remove_child_succeed
                     THEN WaivedResponses(h, H, H.request.arg, r.args) ELSE <<>>
           left == IF H.remove_child_succeed THEN Waived(H, H.request.arg) ELSE H
           G == Resumed([left EXCEPT !.parent_changed = FALSE,
                                     !.remove_child_succeed = FALSE])
           ms == <<r>> \o waived
<1>1. /\ H.pc = "reply" /\ HubStep(h, G) /\ UNCHANGED <<down, files, exit_code, fifos>>
      /\ up' = WriteUp(files[h], H, up, <<r>> \o history \o waived)
  BY DEF HubReplies
<1>2. /\ HubTyped(H) /\ ~H.force_exit /\ ~H.parent_changed /\ r \in Responses
      /\ \A i \in DOMAIN H.pending : H.pending[i].cmd # "delete"
  BY <1>1, HubOrderly DEF HubInOrder, HubReady
<1>3. /\ waived \in Seq(Responses) /\ AllIn(waived, Tells)
      /\ SameHub(H, left) /\ HubTyped(left)
  <2>1. r.args \in Seq(Nat)
    BY <1>2 DEF Responses
  <2>2. <<>> \in Seq(Responses) /\ AllIn(<<>>, Tells)
    BY DEF AllIn
  <2> HIDE DEF r
  <2> QED
    BY <1>2, <2>1, <2>2, WaivedAside, AsideIsOrder
<1>4. up' = [up EXCEPT ![CONTROLLER_ID] = @ \o ms]
  <2> HIDE DEF waived
  <2>1. <<r>> \o history \o waived = ms
    BY <1>2, <1>3
  <2> HIDE DEF ms
  <2>2. up' = WriteUp(files[h], H, up, ms)
    BY <1>1, <2>1
  <2> QED
    BY <2>2, HubWritesUp
<1>5. SameHub(H, G) /\ G.pc = "read" /\ ~G.remove_child_succeed
  <2> HIDE DEF left
  <2>1. ~left.force_exit
    BY <1>2, <1>3 DEF SameHub
  <2>2. /\ G.pc = "read" /\ ~G.remove_child_succeed /\ G.parent_changed = FALSE
        /\ G.device_type = left.device_type /\ G.routing_table = left.routing_table
        /\ G.children = left.children /\ G.has_children = left.has_children
        /\ G.parent_id = left.parent_id /\ G.force_exit = left.force_exit
        /\ G.snd = left.snd /\ G.bottom_pc = left.bottom_pc /\ G.pending = left.pending
    BY <1>3, <2>1 DEF Resumed, HubTyped
  <2> HIDE DEF G
  <2>3. \A i \in DOMAIN left.pending : left.pending[i].cmd # "delete"
    BY <1>2, <1>3 DEF SameHub
  <2>4. /\ left.device_type = H.device_type /\ left.routing_table = H.routing_table
        /\ left.children = H.children /\ left.has_children = H.has_children
        /\ left.parent_id = H.parent_id /\ left.parent_changed = H.parent_changed
        /\ left.force_exit = H.force_exit /\ left.snd = H.snd
        /\ left.bottom_pc = H.bottom_pc
    BY <1>3, Zenon DEF SameHub
  <2>5. \A i \in DOMAIN G.pending : G.pending[i].cmd # "delete"
    BY <2>2, <2>3
  <2>6. H.parent_changed = FALSE
    BY <1>2, HubFields
  <2> HIDE DEF H
  <2>7. SameHub(H, G)
    BY <2>2, <2>4, <2>5, <2>6 DEF SameHub
  <2> QED
    BY <2>2, <2>7
<1> HIDE DEF G, waived, left
<1>6. UNCHANGED <<nonHubVars, leaf>>
  BY <1>1 DEF nonHubVars, peaceVars, controllerVars, histories
<1>7. up \in [Controls -> Seq(Responses)] /\ CONTROLLER_ID \in Controls
  BY DEF TypeOK, PipesTypeOK, Controls
<1>8. CASE HubIdle(H)
  <2>1. r \in Tells
    BY <1>1, <1>8 DEF HubIdle
  <2>2. <<r>> \in Seq(Responses) /\ AllIn(<<r>>, Tells)
    BY <1>2, <1>7, <2>1, OneWritten
  <2> HIDE DEF r
  <2>3. ms \in Seq(Responses) /\ AllIn(ms, Tells)
    <3>1. ms \in Seq(Responses)
      BY <1>3, <2>2
    <3>2. AllIn(<<r>> \o waived, Tells)
      BY <1>3, <2>2, WrittenToQueue
    <3> QED
      BY <3>1, <3>2
  <2> HIDE DEF ms
  <2>4. QueueAside(up[CONTROLLER_ID], up[CONTROLLER_ID] \o ms, Tells)
    BY <1>7, <2>3, WrittenToQueue DEF QueueAside
  <2>5. \A x \in Controls : QueueAside(up[x], up'[x], Tells)
    BY <1>4, <1>7, <2>4, AsideIsOrder
  <2>6. \A x \in Devices : QueueAside(down[x], down'[x], Asks)
    BY <1>1, AsideIsOrder
  <2>7. HubAside(H, G)
    BY <1>5, <1>8 DEF HubAside, HubIdle
  <2> QED
    BY <1>1, <1>5, <1>6, <2>5, <2>6, <2>7, HubStepsAside
<1>9. CASE ~HubIdle(H)
  <2>1. \A d, q : ~(Routed(d, h, q) \/ Removes(d, h, q) \/ Types(d, h, q))
    BY <1>1 DEF Routed, Removes, Types
  <2>2. PICK d \in Leaves, q \in Controls : Answering(d, h, q)
    BY <1>9, <2>1, HubFound
  <2>3. Over(d, h, q) /\ Silent({}, {h}, {}, {}) /\ r = Forgotten(h, d)
    BY <2>2 DEF Answering
  <2> HIDE DEF r
  <2>4. SameShape /\ \A x \in Hubs : hub'[x] = IF x = h THEN G ELSE hub[x]
    BY <1>1, <1>5, <1>6, HubKeepsShape
  <2>5. user_command' = user_command
    BY <1>6 DEF nonHubVars
  <2>6. InOrderAlways' /\ Over(d, h, q)' /\ Forgotten(h, d)' = Forgotten(h, d)
    BY <2>3, <2>4, <2>5, Ids, ShapeKeepsStages
  <2>7. AllBut(up'[CONTROLLER_ID], Tells, Forgotten(h, d))
    <3>1. AllIn(up[CONTROLLER_ID], Tells) /\ up[CONTROLLER_ID] \in Seq(Responses)
      BY <1>7, <2>3 DEF Silent
    <3>2. AllBut(up[CONTROLLER_ID] \o ms, Tells, r)
      BY <1>3, <3>1, WrittenToQueue
    <3>3. up'[CONTROLLER_ID] = up[CONTROLLER_ID] \o ms
      BY <1>4, <1>7
    <3> QED
      BY <2>3, <3>2, <3>3
  <2>8. Silent({}, {}, {}, {CONTROLLER_ID})'
    <3>1. HubIdle(G)
      BY <1>5 DEF HubIdle
    <3>2. \A x \in Hubs : HubIdle(hub'[x])
      BY <2>3, <2>4, <3>1 DEF Silent
    <3>3. \A x \in Controls \ {CONTROLLER_ID} : up'[x] = up[x]
      BY <1>4, <1>7
    <3> QED
      BY <1>1, <1>6, <2>3, <3>2, <3>3 DEF Silent
  <2>9. Left(d, h, q)'
    BY <2>6, <2>7, <2>8 DEF Left
  <2> QED
    BY <2>6, <2>9, Ids DEF TwoLevels
<1> QED
  BY <1>8, <1>9

\* What a step of one hub leaves of everybody's order and places.
LEMMA OneHubMoves ==
    ASSUME TypeOK, TwoLevels, NEW h \in Hubs, NEW new, HubStep(h, new),
           NEW F, files' = [files EXCEPT ![h] = F],
           UNCHANGED <<peaceVars, routing_table, user_command, leaf>>,
           HubInOrder(h, hub[h])'
    PROVE  /\ InOrderAlways'
           /\ \A x \in Hubs : hub'[x] = IF x = h THEN new ELSE hub[x]
           /\ Known' = Known /\ Hosts' = Hosts /\ NoLinkTyped' = NoLinkTyped
           /\ \A x \in Leaves : (x \in Entered(h)' <=> x \in Entered(h)) =>
                 /\ Home(x) => Home(x)'
                 /\ \A own, known, hubs : At(x, own, known, hubs) => At(x, own, known, hubs)'
           /\ \A d \in Leaves : \A p, q :
                 /\ UnderWayTo(d, p, q)
                 /\ \A x \in Leaves \ {d} : x \in Entered(h)' <=> x \in Entered(h)
                 => UnderWayTo(d, p, q)'
           /\ Agreed({h}) => Agreed({h})'
<1>1. \A x \in Hubs : hub'[x] = IF x = h THEN new ELSE hub[x]
  BY DEF TypeOK, HubTypeOK, HubStep
<1>2. \A p \in Controls \ {h} : files'[p] = files[p]
  BY DEF TypeOK, PipesTypeOK
<1>3. h \in Controls /\ h # CONTROLLER_ID /\ CONTROLLER_ID \in Controls /\ Hubs \subseteq Controls
  BY Ids
<1>4. /\ UNCHANGED <<exit_code, fifos, exiting, blocked, hurried, interrupted>>
      /\ UNCHANGED <<signalled, pending_shutdown, force_exit, reaped>>
      /\ UNCHANGED <<routing_table, user_command, leaf>>
  BY DEF peaceVars, shutdownVars
<1>5. Known' = Known /\ Hosts' = Hosts /\ Absent' = Absent /\ NoLinkTyped' = NoLinkTyped
  BY <1>4 DEF Known, Hosts, Running, Absent, NoLinkTyped
<1>6. InOrderAlways'
  <2>1. InOrderAlways
    BY DEF TwoLevels
  <2>2. Peaceful'
    BY <1>4, <1>5, <2>1 DEF InOrderAlways, Peaceful
  <2>3. ControllerInOrder'
    BY <1>2, <1>3, <1>4, <1>5, <2>1 DEF InOrderAlways, ControllerInOrder, PipesOf, ChildrenOpen
  <2>4. ASSUME NEW x \in Hubs PROVE HubInOrder(x, hub[x])'
    <3>1. CASE x = h
      BY <3>1
    <3>2. CASE x # h
      BY <1>1, <1>2, <1>3, <2>1, <3>2 DEF InOrderAlways, HubInOrder, PipesOf, ChildrenOpen
    <3> QED
      BY <3>1, <3>2
  <2>5. \A x \in Leaves : LeafInOrder(x, leaf[x])'
    BY <1>4, <1>5, <2>1 DEF InOrderAlways, LeafInOrder
  <2> QED
    BY <2>2, <2>3, <2>4, <2>5 DEF InOrderAlways
<1>7. ASSUME NEW x \in Leaves, x \in Entered(h)' <=> x \in Entered(h)
      PROVE  /\ Home(x) => Home(x)'
             /\ \A own, known, hubs : At(x, own, known, hubs) => At(x, own, known, hubs)'
  <2>1. \A g \in Hubs : x \in Entered(g)' <=> x \in Entered(g)
    BY <1>1, <1>7 DEF Entered
  <2>2. \A own, known, hubs : At(x, own, known, hubs) => At(x, own, known, hubs)'
    BY <1>4, <1>5, <2>1 DEF At
  <2> QED
    BY <1>4, <2>2 DEF Home
<1>8. ASSUME NEW d \in Leaves, NEW p, NEW q, UnderWayTo(d, p, q),
             \A x \in Leaves \ {d} : x \in Entered(h)' <=> x \in Entered(h)
      PROVE  UnderWayTo(d, p, q)'
  BY <1>4, <1>5, <1>7, <1>8 DEF UnderWayTo
<1>9. Agreed({h}) => Agreed({h})'
  BY <1>1, <1>4, <1>5 DEF Agreed
<1> QED
  BY <1>1, <1>5, <1>6, <1>7, <1>8, <1>9

\* remove_child of one of the leaves next to a hub that has nobody else below it.
LEMMA RemovesLeaf ==
    ASSUME NEW h \in Hubs, NEW H, HubTyped(H), NEW F \in [Fds -> Ends],
           PipesOf(H.routing_table, h, F),
           \A x \in DOMAIN H.routing_table : x \in Leaves /\ H.routing_table[x].parent = h,
           H.children = Cardinality(DOMAIN H.routing_table),
           H.has_children <=> DOMAIN H.routing_table # {},
           NEW d \in DOMAIN H.routing_table
    PROVE  LET T == H.routing_table
               gone == RemoveChild(h, H, F, d, h)
               G == gone.hub
           IN  /\ gone.code = "OK" /\ gone.files = Close(F, T[d].fd)
               /\ HubTyped(G) /\ SameThread(G, H)
               /\ DOMAIN G.routing_table = DOMAIN T \ {d}
               /\ \A x \in DOMAIN G.routing_table :
                     G.routing_table[x].parent = h /\ G.routing_table[x].fd = T[x].fd
               /\ G.children = Cardinality(DOMAIN G.routing_table)
               /\ G.has_children <=> DOMAIN G.routing_table # {}
               /\ G.device_type = IF DOMAIN G.routing_table = {} THEN HUB_DEVICE
                                  ELSE H.device_type
               /\ G.parent_id = H.parent_id /\ G.parent_changed = H.parent_changed
               /\ G.force_exit = H.force_exit /\ G.snd = H.snd
               /\ G.bottom_pc = H.bottom_pc /\ G.pending = H.pending
<1> DEFINE T == H.routing_table
           entry == T[d]
           U == RemoveRoute(T, d, h)
           left == UpdateTypeToEmpty(U, entry.parent)
           n == (H.children - 1) % ChildrenModulus
           counted == ChildLost(H)
           removed == [counted EXCEPT !.routing_table = left]
           gone == RemoveChild(h, H, F, d, h)
<1>1. /\ IsTable(T, Hubs \cup Timers) /\ IsFiniteSet(DOMAIN T)
      /\ DOMAIN T \subseteq Leaves /\ entry.parent = h /\ h \notin Leaves
      /\ H.children \in 0 .. ChildrenModulus - 1
  BY HubFields, TableIs, Ids
<1>2. F[entry.fd] = Down(d) /\ IsOpen(F, entry.fd)
  BY <1>1, EndsDiffer DEF PipesOf, ChildrenOpen, Direct, IsOpen
<1>3. U = [x \in DOMAIN T \ {d} |-> T[x]]
  <2>1. \A x \in DOMAIN T : T[x].parent \in {} \cup {d} => x \in {}
    BY <1>1
  <2>2. \A S : (\A x \in DOMAIN T : T[x].parent \in S \cup {d} => x \in S)
                  => Below(T, d) \subseteq S
    BY <1>1, BelowIsLeast
  <2>3. Below(T, d) \subseteq {}
    BY <2>1, <2>2
  <2> QED
    BY <1>1, <2>3 DEF RemoveRoute
<1>4. IsTable(U, Hubs \cup Timers) /\ IsTable(left, Hubs \cup Timers) /\ IsRouting(U)
  <2>1. IsTable(U, Hubs \cup Timers)
    BY <1>1, RemoveRouteTyped
  <2>2. h \in Controls /\ Hubs \cup Timers \subseteq Controls
    BY Ids
  <2> HIDE DEF U
  <2> QED
    BY <1>1, <2>1, <2>2, ToEmptyTyped, TableIs
<1>5. /\ DOMAIN left = DOMAIN T \ {d}
      /\ \A x \in DOMAIN left : left[x].parent = h /\ left[x].fd = T[x].fd
  <2>1. /\ DOMAIN U = DOMAIN T \ {d}
        /\ \A x \in DOMAIN U : U[x].parent = h /\ U[x].fd = T[x].fd
    BY <1>3
  <2> HIDE DEF U
  <2> QED
    BY <1>4, <2>1, UpdateTypeToEmptyIs
<1>6. /\ Direct(left, h) \ {d} = DOMAIN left
      /\ \A x \in DOMAIN left : ~IsEmpty(left[x].type)
  <2>1. ASSUME NEW x \in DOMAIN left PROVE ~IsEmpty(left[x].type)
    <3>1. left[x].type \in OwnTypes(x) /\ x \in Leaves
      BY <1>1, <1>4, <1>5, TableIs
    <3>2. left[x].type \in {1, 2}
      BY <3>1, DevicesAssumption DEF OwnTypes, BULB, WINDOW
    <3> QED
      BY <3>2 DEF IsEmpty, ChildType
  <2> QED
    BY <1>5, <2>1 DEF Direct
<1>7. /\ n = Cardinality(DOMAIN left)
      /\ n # 0 <=> DOMAIN left # {}
  <2>1. /\ Cardinality(DOMAIN T \ {d}) = Cardinality(DOMAIN T) - 1
        /\ Cardinality(DOMAIN T) \in Nat
    BY <1>1, FS_RemoveElement, FS_CardinalityType
  <2>2. H.children - 1 \in 0 .. ChildrenModulus - 1
    <3>1. Cardinality(DOMAIN T) # 0
      BY <1>1, FS_EmptySet
    <3> QED
      BY <1>1, <2>1, <3>1, ChildrenModulusAssumption
  <2>3. n = H.children - 1
    BY <2>2, ChildrenModulusAssumption
  <2>4. IsFiniteSet(DOMAIN left)
    BY <1>1, <1>5, FS_Subset
  <2>5. Cardinality(DOMAIN left) = 0 <=> DOMAIN left = {}
    BY <2>4, FS_EmptySet
  <2> QED
    BY <1>5, <2>1, <2>3, <2>5
<1>8. /\ HubTyped(counted) /\ SameThread(counted, H) /\ counted.routing_table = T
      /\ counted = [H EXCEPT !.children = n, !.has_children = @ /\ n # 0]
  <2>1. counted = [H EXCEPT !.children = n, !.has_children = @ /\ n # 0]
    BY DEF ChildLost
  <2> HIDE DEF n, counted
  <2>2. HubTyped(counted) /\ SameThread(counted, H) /\ counted.routing_table = T
    BY ChildLostTyped DEF counted
  <2> QED
    BY <2>1, <2>2
<1> HIDE DEF left, n
<1>9. /\ counted.children = n
      /\ counted.has_children = (H.has_children /\ n # 0)
      /\ counted.device_type = H.device_type /\ counted.parent_id = H.parent_id
      /\ counted.parent_changed = H.parent_changed /\ counted.force_exit = H.force_exit
      /\ counted.snd = H.snd /\ counted.bottom_pc = H.bottom_pc
      /\ counted.pending = H.pending
  BY <1>8 DEF HubTyped
<1> HIDE DEF counted
<1>10. /\ HubTyped(removed) /\ SameThread(removed, counted)
       /\ removed.routing_table = left /\ removed.children = n
       /\ removed.has_children = counted.has_children
       /\ removed.device_type = H.device_type /\ removed.parent_id = H.parent_id
       /\ removed.parent_changed = H.parent_changed /\ removed.force_exit = H.force_exit
       /\ removed.snd = H.snd /\ removed.bottom_pc = H.bottom_pc
       /\ removed.pending = H.pending
  <2>1. HubTyped(removed) /\ SameThread(removed, counted)
    BY <1>4, <1>8, RetabledTyped
  <2> QED
    BY <1>8, <1>9, <2>1 DEF HubTyped
<1> DEFINE G == UpdateType(h, removed, d)
<1>11. gone = [code |-> "OK", hub |-> G, files |-> Close(F, entry.fd)]
  <2>1. gone = [code |-> "OK",
                hub |-> UpdateType(h, [counted EXCEPT !.routing_table =
                     UpdateTypeToEmpty(RemoveRoute(@, d, h), entry.parent)], d),
                files |-> Close(F, entry.fd)]
    BY <1>1, <1>2 DEF RemoveChild, counted
  <2> QED
    BY <1>8, <2>1 DEF left
<1>12. G = IF DOMAIN left = {} THEN [removed EXCEPT !.device_type = HUB_DEVICE] ELSE removed
  <2> HIDE DEF removed
  <2> QED
    BY <1>6, <1>10 DEF UpdateType
<1>13. HubTyped(G) /\ SameThread(G, H)
  <2> HIDE DEF removed
  <2>1. HubTyped(G) /\ SameThread(G, removed)
    BY <1>10, UpdateTypeTyped
  <2> HIDE DEF G
  <2> QED
    BY <1>8, <1>10, <2>1 DEF SameThread
<1>14. /\ G.routing_table = left /\ G.children = n
       /\ G.has_children = counted.has_children
       /\ G.device_type = IF DOMAIN left = {} THEN HUB_DEVICE ELSE H.device_type
       /\ G.parent_id = H.parent_id
       /\ G.parent_changed = H.parent_changed /\ G.force_exit = H.force_exit
       /\ G.snd = H.snd /\ G.bottom_pc = H.bottom_pc /\ G.pending = H.pending
  <2> HIDE DEF removed, G
  <2> QED
    BY <1>10, <1>12 DEF HubTyped
<1> HIDE DEF G, removed, gone
<1>15. G.has_children <=> DOMAIN left # {}
  BY <1>1, <1>5, <1>7, <1>9, <1>14
<1>16. gone.code = "OK" /\ gone.files = Close(F, entry.fd) /\ gone.hub = G
  BY <1>11
<1> QED
  BY <1>5, <1>7, <1>13, <1>14, <1>15, <1>16 DEF gone

\* The old parent closes the pipe of the leaf that has moved and forgets it.
LEMMA HubRemovesChildTwoLevels ==
    ASSUME TypeOK, TwoLevels, NEW h \in Hubs, HubRemovesChild(h),
           UNCHANGED <<controllerVars, leaf, histories>>
    PROVE  TwoLevels'
<1> DEFINE H == hub[h]
           T == H.routing_table
           F == files[h]
           gone == RemoveChild(h, H, F, H.request.arg, h)
           G == gone.hub
           new == [G EXCEPT !.pc = "type", !.remove_child_succeed = TRUE]
<1>1. /\ H.pc = "remove" /\ files' = [files EXCEPT ![h] = gone.files]
      /\ UNCHANGED <<down, up, exit_code, fifos>>
      /\ gone.code = "OK" => HubStep(h, new)
  BY DEF HubRemovesChild
<1>2. PICK d \in Leaves, q \in Controls : Removes(d, h, q)
  <2>1. ~HubIdle(H)
    BY <1>1 DEF HubIdle
  <2>2. \A d, q : ~(Routed(d, h, q) \/ Types(d, h, q) \/ Answering(d, h, q))
    BY <1>1 DEF Routed, Types, Answering
  <2> QED
    BY <2>1, <2>2, HubFound
<1>3. /\ Told(d, h, q) /\ Silent({}, {h}, {}, {}) /\ H.request = Forget(h, d)
  BY <1>2 DEF Removes
<1>4. /\ UnderWayTo(d, h, q) /\ At(d, q, q, {h, q}) /\ Agreed({}) /\ NoLinkTyped
      /\ d \in DOMAIN T /\ H.request.arg = d /\ h # q
  BY <1>3 DEF Told, At, Entered, Forget, UnderWayTo
<1>5. /\ HubTyped(H) /\ F \in [Fds -> Ends] /\ HubInOrder(h, H) /\ ~H.force_exit
      /\ H.children = Cardinality(DOMAIN T)
      /\ H.has_children <=> DOMAIN T # {}
      /\ \A x \in DOMAIN T : x \in Leaves /\ T[x].parent = h /\ H.device_type = HubOr(Kind[x])
      /\ PipesOf(T, h, F)
  BY HubOrderly DEF HubInOrder
<1>6. /\ gone.code = "OK" /\ gone.files = Close(F, T[d].fd)
      /\ HubTyped(G) /\ SameThread(G, H)
      /\ DOMAIN G.routing_table = DOMAIN T \ {d}
      /\ \A x \in DOMAIN G.routing_table :
            G.routing_table[x].parent = h /\ G.routing_table[x].fd = T[x].fd
      /\ G.children = Cardinality(DOMAIN G.routing_table)
      /\ G.has_children <=> DOMAIN G.routing_table # {}
      /\ G.device_type = IF DOMAIN G.routing_table = {} THEN HUB_DEVICE ELSE H.device_type
      /\ G.parent_id = H.parent_id /\ G.parent_changed = H.parent_changed
      /\ G.force_exit = H.force_exit /\ G.snd = H.snd
      /\ G.bottom_pc = H.bottom_pc /\ G.pending = H.pending
  BY <1>4, <1>5, RemovesLeaf, SMTT(30)
<1> HIDE DEF gone, G, T, F, H
<1>7. /\ new.pc = "type" /\ new.request = H.request /\ new.routing_table = G.routing_table
      /\ new.children = G.children /\ new.has_children = G.has_children
      /\ new.device_type = G.device_type /\ new.parent_id = H.parent_id
      /\ new.parent_changed = H.parent_changed /\ new.force_exit = H.force_exit
      /\ new.snd = H.snd /\ new.bottom_pc = H.bottom_pc /\ new.pending = H.pending
  BY <1>6 DEF HubTyped, SameThread
<1> HIDE DEF new
<1>8. HubStep(h, new)
  BY <1>1, <1>6
<1>9. hub'[h] = new /\ files'[h] = Close(F, T[d].fd)
  BY <1>1, <1>6, <1>8, HubOrderly DEF TypeOK, HubTypeOK, PipesTypeOK, HubStep
<1>10. T[d].fd \in Fds /\ F[T[d].fd] = Down(d) /\ IsTable(T, Hubs \cup Timers)
  <2>1. IsTable(T, Hubs \cup Timers)
    BY <1>5, HubFields DEF T
  <2>2. d \in Direct(T, h)
    BY <1>4, <1>5 DEF Direct
  <2> QED
    BY <1>4, <1>5, <2>1, <2>2, TableIs DEF PipesOf, ChildrenOpen
<1>11. \A f \in Fds : Close(F, T[d].fd)[f] = IF f = T[d].fd THEN Closed ELSE F[f]
  BY <1>5 DEF Close
<1>12. HubInOrder(h, hub[h])'
  <2> DEFINE R == new.routing_table
             E == files'[h]
  <2>1. /\ DOMAIN R = DOMAIN T \ {d}
        /\ \A x \in DOMAIN R : R[x].parent = h /\ R[x].fd = T[x].fd /\ x \in Leaves
        /\ \A f \in Fds : E[f] = IF f = T[d].fd THEN Closed ELSE F[f]
    BY <1>5, <1>6, <1>7, <1>9, <1>11
  <2> HIDE DEF R, E
  <2>2. ChildrenOpen(R, h, E)
    <3> SUFFICES ASSUME NEW x \in Direct(R, h) PROVE E[R[x].fd] = Down(x)
      BY DEF ChildrenOpen
    <3>1. x \in DOMAIN T /\ x # d /\ R[x].fd = T[x].fd /\ T[x].fd \in Fds
      BY <1>10, <2>1, TableIs DEF Direct
    <3>2. F[T[x].fd] = Down(x)
      BY <1>5, <3>1 DEF PipesOf, ChildrenOpen, Direct
    <3>3. T[x].fd # T[d].fd
      BY <1>10, <3>1, <3>2, EndsDiffer
    <3> QED
      BY <2>1, <3>1, <3>2, <3>3
  <2>3. \A f \in Fds : E[f].dir = "down" => \E x \in Direct(R, h) : R[x].fd = f
    <3> SUFFICES ASSUME NEW f \in Fds, E[f].dir = "down"
                 PROVE  \E x \in Direct(R, h) : R[x].fd = f
      OBVIOUS
    <3>1. f # T[d].fd /\ F[f].dir = "down"
      BY <2>1, EndsDiffer
    <3>2. PICK x \in Direct(T, h) : T[x].fd = f
      BY <1>5, <3>1 DEF PipesOf
    <3>3. x \in Direct(R, h) /\ R[x].fd = f
      BY <2>1, <3>1, <3>2 DEF Direct
    <3> QED
      BY <3>3
  <2>4. /\ new.snd # NoFd /\ E[new.snd] = Up(CONTROLLER_ID)
    <3>1. H.snd # NoFd /\ F[H.snd] = Up(CONTROLLER_ID)
      BY <1>5 DEF HubInOrder, F, H
    <3>2. H.snd \in Fds /\ H.snd # T[d].fd
      BY <1>5, <1>10, <3>1, HubFields, EndsDiffer
    <3> QED
      BY <1>7, <2>1, <3>1, <3>2
  <2>5. \A x \in DOMAIN R : new.device_type = HubOr(Kind[x])
    BY <1>5, <1>6, <1>7, <2>1 DEF R
  <2>6. /\ new.children = Cardinality(DOMAIN R)
        /\ new.has_children <=> DOMAIN R # {}
        /\ DOMAIN R = {} => new.device_type = HUB_DEVICE
    BY <1>6, <1>7 DEF R
  <2>7. /\ ~new.force_exit /\ ~new.parent_changed /\ new.parent_id = CONTROLLER_ID
        /\ new.bottom_pc = "read"
        /\ \A i \in DOMAIN new.pending : new.pending[i].cmd # "delete"
    BY <1>5, <1>7 DEF HubInOrder
  <2> QED
    BY <1>9, <2>1, <2>2, <2>3, <2>4, <2>5, <2>6, <2>7 DEF HubInOrder, PipesOf, R, E
<1>13. UNCHANGED <<peaceVars, routing_table, user_command, leaf, up, down>>
  BY <1>1 DEF peaceVars, controllerVars, histories
<1>14. Entered(h)' = Entered(h) \ {d}
  BY <1>6, <1>7, <1>9 DEF Entered, T, H
<1>15. /\ InOrderAlways'
       /\ \A x \in Hubs : hub'[x] = IF x = h THEN new ELSE hub[x]
       /\ Known' = Known /\ NoLinkTyped' = NoLinkTyped
       /\ UnderWayTo(d, h, q) => UnderWayTo(d, h, q)'
       /\ Agreed({h}) => Agreed({h})'
  <2>1. \A x \in Leaves \ {d} : x \in Entered(h)' <=> x \in Entered(h)
    BY <1>14
  <2> QED
    BY <1>1, <1>8, <1>12, <1>13, <2>1, OneHubMoves
<1>16. At(d, q, q, {q})'
  <2>1. \A g \in Hubs \ {h} : Entered(g)' = Entered(g)
    BY <1>15 DEF Entered
  <2> QED
    BY <1>4, <1>13, <1>14, <1>15, <2>1 DEF At
<1>17. Over(d, h, q)'
  BY <1>4, <1>15, <1>16 DEF Over, Agreed
<1>18. Silent({}, {h}, {}, {})'
  BY <1>3, <1>13, <1>15 DEF Silent
<1>19. Types(d, h, q)'
  BY <1>3, <1>7, <1>9, <1>17, <1>18 DEF Types, Forget
<1> QED
  BY <1>15, <1>19, Ids DEF TwoLevels

\* Every step of a hub's main thread.
LEMMA HubMainTwoLevels ==
    ASSUME TypeOK, TypeOK', TwoLevels, NEW h \in Hubs, HubMainThread(h)
    PROVE  TwoLevels'
<1>1. (HubTopDown(h) \/ HubExits(h)) /\ UNCHANGED <<controllerVars, leaf, histories>>
  BY DEF HubMainThread
<1>2. ~HubExits(h)
  BY HubOrderly DEF HubExits
<1>3. ~HubEndOfFile(h)
  BY HubOrderly, EveryoneHeld DEF HubEndOfFile
<1>4. \A m \in First(down[h]) : ~HubChangeParent(h, m)
  <2> SUFFICES ASSUME NEW m \in First(down[h]), HubChangeParent(h, m) PROVE FALSE
    OBVIOUS
  <2>1. TopDownReads(h, m) /\ m.dst = h /\ m.cmd = "change_parent" /\ m \notin Asks
    BY DEF HubChangeParent, Asks, Links
  <2>2. \/ \E d \in Leaves, q \in Controls : m = LinkTo(d, q)
        \/ \E d \in Leaves : m = Forget(h, d)
    BY <2>1, HubReads
  <2> QED
    BY <2>1, <2>2, Ids DEF LinkTo, Forget
<1> QED
  BY <1>1, <1>2, <1>3, <1>4, HubRequestTwoLevels, HubRoutesTwoLevels, HubSendsTwoLevels,
     HubRemovesTwoLevels, HubBroadcastsTwoLevels, HubRemovesChildTwoLevels, HubTypesTwoLevels,
     HubRepliesTwoLevels DEF HubTopDown

-----------------------------------------------------------------------------
(* The bottom-up thread of a hub.                                          *)

\* It reads an answer to an info or a switch and writes some.
LEMMA HubGathersAside ==
    ASSUME TypeOK, TwoLevels, NEW h \in Hubs, NEW r \in First(up[h]), r \in Tells,
           NEW G, G.force_exit = FALSE, HubTyped(G), SameHub(hub[h], G), SameThread(G, hub[h]),
           G.route = hub[h].route, G.remove_child_succeed = hub[h].remove_child_succeed,
           NEW ms \in Seq(Responses), AllIn(ms, Tells),
           BottomUp(h, r, G, files[h], ms), UNCHANGED <<controllerVars, leaf, histories>>
    PROVE  TwoLevels'
<1> DEFINE new == [G EXCEPT !.bottom_pc = IF @ = "read" /\ G.force_exit THEN "exit" ELSE @]
           q == [up EXCEPT ![h] = Tail(@)]
<1>1. /\ HubStep(h, new) /\ files' = [files EXCEPT ![h] = files[h]]
      /\ up' = WriteUp(files[h], G, q, ms) /\ UNCHANGED <<down, exit_code, fifos>>
  BY DEF BottomUp
<1>2. new = G
  BY DEF HubTyped
<1> HIDE DEF new
<1>3. h \in Controls /\ h # CONTROLLER_ID /\ CONTROLLER_ID \in Controls
      /\ files' = files /\ up \in [Controls -> Seq(Responses)]
  BY <1>1, Ids DEF TypeOK, PipesTypeOK
<1>4. QueueAside(up[h], Tail(up[h]), Tells) /\ up[h] # <<>>
  BY <1>3, ResponseRead
<1>5. q \in [Controls -> Seq(Responses)]
      /\ \A x \in Controls : QueueAside(up[x], q[x], Tells)
  <2>1. Tail(up[h]) \in Seq(Responses)
    BY <1>3, <1>4
  <2>2. \A x \in Controls : q[x] = IF x = h THEN Tail(up[h]) ELSE up[x]
    BY <1>3
  <2>3. q \in [Controls -> Seq(Responses)]
    BY <1>3, <2>1
  <2> HIDE DEF q
  <2> QED
    BY <1>4, <2>2, <2>3, AsideIsOrder
<1> HIDE DEF q
<1>6. up' = [q EXCEPT ![CONTROLLER_ID] = @ \o ms]
  <2>1. G.snd = hub[h].snd
    BY DEF SameHub
  <2>2. \A F : F[hub[h].snd] = files[h][hub[h].snd] =>
               WriteUp(F, G, q, ms) = [q EXCEPT ![CONTROLLER_ID] = @ \o ms]
    BY <2>1, HubWritesUp
  <2> QED
    BY <1>1, <2>2 DEF q
<1>7. \A x \in Controls : QueueAside(up[x], up'[x], Tells)
  <2>1. QueueAside(q[CONTROLLER_ID], q[CONTROLLER_ID] \o ms, Tells)
    BY <1>3, <1>5, WrittenToQueue DEF QueueAside
  <2>2. \A x \in Controls : QueueAside(q[x], up'[x], Tells)
    BY <1>5, <1>6, <2>1, AsideIsOrder
  <2> QED
    BY <1>5, <2>2, AsideIsOrder
<1>8. \A x \in Devices : QueueAside(down[x], down'[x], Asks)
  BY <1>1, AsideIsOrder
<1>9. HubAside(hub[h], G)
  BY DEF HubAside, HubIdle, SameThread
<1>10. UNCHANGED <<nonHubVars, leaf>>
  BY <1>1, <1>3 DEF nonHubVars, peaceVars, controllerVars, histories
<1> QED
  BY <1>1, <1>2, <1>7, <1>8, <1>9, <1>10, HubStepsAside

\* What it reads of a link is that a leaf has come, which it takes in; all else
\* goes by.
LEMMA HubGathersTwoLevels ==
    ASSUME TypeOK, TwoLevels, NEW h \in Hubs, NEW r \in First(up[h]),
           HubGarbled(h, r) \/ HubPendingAnswered(h, r) \/ HubPassesOn(h, r),
           UNCHANGED <<controllerVars, leaf, histories>>
    PROVE  TwoLevels'
<1> DEFINE H == hub[h]
           S == {p \in Pendings : p.cmd # "delete"}
<1>1. /\ HubTyped(H) /\ H.force_exit = FALSE /\ h \in Devices /\ h \in Controls
      /\ \A i \in DOMAIN H.pending : H.pending[i].cmd # "delete"
  BY HubOrderly, HubFields DEF HubInOrder
<1>2. H.pending \in Seq(S)
  BY <1>1, HubFields
<1>3. r \in Responses /\ (r \notin Tells => \E d \in Leaves : r = Joining(d, h))
  BY <1>1, ResponseRead, Ids
<1>4. r \in Tells
  <2> SUFFICES ASSUME NEW d \in Leaves, r = Joining(d, h) PROVE FALSE
    BY <1>3
  <2>1. r.cmd = "change_parent" /\ r.code = "OK" /\ r.args # <<>>
    BY DEF Joining, Response
  <2>2. r.cmd \in Links
    BY <2>1 DEF Links
  <2> QED
    BY <2>1, <2>2 DEF HubGarbled, HubPendingAnswered, HubPassesOn, Waiting, Parses
<1>5. SameHub(H, H) /\ SameThread(H, H) /\ r.cmd # "delete"
  BY <1>4, AsideIsOrder DEF SameThread, Tells
<1>6. ASSUME NEW m, m \in Tells PROVE <<m>> \in Seq(Responses) /\ AllIn(<<m>>, Tells)
  <2>1. m \in Responses
    BY <1>6 DEF Tells
  <2> QED
    BY <1>6, <2>1, OneIsSeq, OneWritten
<1>7. CASE HubGarbled(h, r)
  <2> DEFINE e == Response(h, "null", "RESPONSE_FORMAT_ERROR", <<>>)
  <2>1. e \in Responses
    <3>1. "null" \notin Links /\ "RESPONSE_FORMAT_ERROR" \in ErrorCodes
      BY DEF Links, ErrorCodes
    <3> QED
      BY <1>1, <3>1, EmptyResponse
  <2>2. e \in Tells
    BY <2>1 DEF Tells, Response
  <2>3. BottomUp(h, r, H, files[h], <<e>>)
    BY <1>7 DEF HubGarbled
  <2> HIDE DEF e
  <2> QED
    BY <1>1, <1>4, <1>5, <1>6, <2>2, <2>3, HubGathersAside
<1>8. CASE HubPassesOn(h, r)
  <2>1. BottomUp(h, r, H, files[h], <<r>>)
    BY <1>8 DEF HubPassesOn
  <2> QED
    BY <1>1, <1>4, <1>5, <1>6, <2>1, HubGathersAside
<1>9. CASE HubPendingAnswered(h, r)
  <2> DEFINE i == Waiting(h, r)
             p == UpdatePending(H, H.pending[i], r)
             G1 == [H EXCEPT !.pending[i] = p]
             G2 == [H EXCEPT !.pending = RemoveAt(@, i), !.force_exit = @ \/ r.cmd = "delete"]
             c == Collected(h, p, r.args)
  <2>1. i # 0 /\ (BottomUp(h, r, G1, files[h], <<>>) \/ BottomUp(h, r, G2, files[h], <<c>>))
    BY <1>9 DEF HubPendingAnswered
  <2>2. i \in DOMAIN H.pending
    <3> DEFINE found == {j \in DOMAIN H.pending : r.src \in H.pending[j].devices
                                                 /\ H.pending[j].cmd \in {r.cmd}}
    <3>1. found # {} /\ i = Min(found)
      BY <2>1, Zenon DEF Waiting, FindPending
    <3>2. found \in SUBSET Nat /\ found \subseteq DOMAIN H.pending
      <4> HIDE DEF S
      <4> QED
        BY <1>2
    <3> HIDE DEF found, i, H
    <3>3. Min(found) \in found
      BY <3>1, <3>2, MinIs
    <3> QED
      BY <3>1, <3>2, <3>3
  <2> HIDE DEF i
  <2>3. p \in S
    <3>1. H.pending[i] \in S
      BY <1>2, <2>2
    <3>2. p \in Pendings
      BY <1>3, <3>1, UpdatePendingTyped
    <3>3. p.cmd = H.pending[i].cmd
      <4> DEFINE o == H.pending[i]
      <4>1. o \in Pendings
        BY <3>1
      <4> HIDE DEF o
      <4>2. UpdatePending(H, o, r).cmd = o.cmd
        BY <4>1 DEF UpdatePending, Pendings
      <4> QED
        BY <4>2 DEF o
    <3> HIDE DEF p
    <3> QED
      BY <3>1, <3>2, <3>3
  <2> HIDE DEF p
  <2>4. /\ HubTyped(G1) /\ SameThread(G1, H) /\ SameHub(H, G1) /\ G1.force_exit = FALSE
        /\ G1.route = H.route /\ G1.remove_child_succeed = H.remove_child_succeed
    <3> DEFINE pending == [H.pending EXCEPT ![i] = p]
    <3>1. pending \in Seq(S)
      BY <1>2, <2>2, <2>3
    <3>2. G1 = [H EXCEPT !.pending = pending]
      BY <1>1 DEF HubTyped
    <3>3. pending \in Seq(Pendings) /\ \A j \in DOMAIN pending : pending[j].cmd # "delete"
      BY <3>1
    <3> HIDE DEF pending, G1, S
    <3> QED
      BY <1>1, <3>2, <3>3 DEF HubTyped, SameThread, SameHub
  <2>5. /\ HubTyped(G2) /\ SameThread(G2, H) /\ SameHub(H, G2) /\ G2.force_exit = FALSE
        /\ G2.route = H.route /\ G2.remove_child_succeed = H.remove_child_succeed
    <3> DEFINE pending == RemoveAt(H.pending, i)
    <3>1. pending \in Seq(S)
      BY <1>2, <2>2, RemoveAtIs
    <3>2. G2 = [H EXCEPT !.pending = pending, !.force_exit = FALSE]
      BY <1>1, <1>5 DEF HubTyped
    <3> HIDE DEF pending, G2
    <3>3. pending \in Seq(Pendings) /\ \A j \in DOMAIN pending : pending[j].cmd # "delete"
      BY <3>1
    <3> HIDE DEF S
    <3> QED
      BY <1>1, <3>2, <3>3 DEF HubTyped, SameThread, SameHub
  <2>6. c \in Tells
    <3>1. c \in Responses
      BY <1>3, <2>3, CollectedTyped, ResponseFields
    <3>2. c.cmd = p.cmd
      BY DEF Collected, Response
    <3>3. p.cmd # "delete" /\ p.cmd \notin Links
      BY <2>3, CollectableIs DEF Pendings
    <3> HIDE DEF c
    <3> QED
      BY <3>1, <3>2, <3>3 DEF Tells
  <2> HIDE DEF G1, G2, c
  <2>7. <<>> \in Seq(Responses) /\ AllIn(<<>>, Tells)
    BY DEF AllIn
  <2>8. CASE BottomUp(h, r, G1, files[h], <<>>)
    BY <1>4, <2>4, <2>7, <2>8, HubGathersAside
  <2>9. CASE BottomUp(h, r, G2, files[h], <<c>>)
    BY <1>4, <1>6, <2>5, <2>6, <2>9, HubGathersAside
  <2> QED
    BY <2>1, <2>8, <2>9
<1> QED
  BY <1>7, <1>8, <1>9

\* add_child of a leaf to a hub that has only such leaves below it.
LEMMA TakesLeaf ==
    ASSUME NEW h \in Hubs, NEW H, HubTyped(H), NEW F \in [Fds -> Ends], FreeFds(F) # {},
           PipesOf(H.routing_table, h, F),
           NEW d \in Leaves, d \notin DOMAIN H.routing_table,
           \A x \in DOMAIN H.routing_table :
              H.routing_table[x].parent = h /\ H.device_type = HubOr(Kind[x]) /\ Kind[x] = Kind[d],
           H.children = Cardinality(DOMAIN H.routing_table),
           H.has_children <=> DOMAIN H.routing_table # {},
           DOMAIN H.routing_table = {} => H.device_type = HUB_DEVICE,
           Cardinality(Devices) < ChildrenModulus
    PROVE  LET T == H.routing_table
               added == AddDirectChild(h, H, F, d, Kind[d])
               G == added.hub
           IN  /\ added.code = "OK" /\ added.files \in [Fds -> Ends]
               /\ HubTyped(G) /\ SameThread(G, H)
               /\ DOMAIN G.routing_table = DOMAIN T \cup {d}
               /\ \A x \in DOMAIN G.routing_table : G.routing_table[x].parent = h
               /\ PipesOf(G.routing_table, h, added.files)
               /\ \A f \in Fds : IsOpen(F, f) => added.files[f] = F[f]
               /\ G.children = Cardinality(DOMAIN G.routing_table)
               /\ G.has_children /\ G.device_type = HubOr(Kind[d])
               /\ H.device_type \in {HUB_DEVICE, HubOr(Kind[d])}
               /\ G.parent_id = H.parent_id /\ G.parent_changed = H.parent_changed
               /\ G.force_exit = H.force_exit /\ G.snd = H.snd
               /\ G.bottom_pc = H.bottom_pc /\ G.pending = H.pending
               /\ G.remove_child_succeed = H.remove_child_succeed
<1> DEFINE fd == LowestFree(F)
           T == H.routing_table
           R == InsertDirect(T, d, Kind[d], h, fd)
           E == OpenAt(F, fd, Down(d))
           type == IF H.device_type = HUB_DEVICE THEN HubOr(Kind[d]) ELSE H.device_type
           has == H.has_children \/ H.device_type = HUB_DEVICE
           n == (H.children + 1) % ChildrenModulus
           G == [H EXCEPT !.routing_table = R, !.has_children = has,
                          !.device_type = type, !.children = n]
           added == AddDirectChild(h, H, F, d, Kind[d])
<1>1. added = [hub |-> G, code |-> "OK", files |-> E]
  <2> DEFINE known == d \in DOMAIN H.routing_table /\ H.routing_table[d].parent = h
             old == H.routing_table[d].fd
             code == IF known /\ ~IsOpen(E, old) THEN "UNABLE_TO_CLOSE_PIPE" ELSE "OK"
             files2 == IF known THEN Close(E, old) ELSE E
  <2>1. added = [hub |-> G, code |-> code, files |-> files2]
    BY Zenon DEF AddDirectChild
  <2>2. ~known
    OBVIOUS
  <2>3. code = "OK" /\ files2 = E
    BY <2>2
  <2> HIDE DEF added, G, code, files2
  <2> QED
    BY <2>1, <2>3
<1>2. fd \in Fds /\ F[fd] = Closed
  BY LowestFreeIs
<1> HIDE DEF fd
<1>3. /\ IsTable(T, Hubs \cup Timers) /\ IsFiniteSet(DOMAIN T) /\ DOMAIN T \subseteq Devices
      /\ d \in Devices /\ IsFiniteSet(Devices) /\ Kind[d] \in OwnTypes(d) /\ Kind[d] \in {1, 2}
      /\ H.children \in 0 .. ChildrenModulus - 1 /\ H.has_children \in BOOLEAN
      /\ H.device_type \in 8 .. 15 /\ h \in Hubs \cup Timers
  <2>1. d \in Devices /\ IsFiniteSet(Devices) /\ Kind[d] \in OwnTypes(d) /\ Kind[d] \in {1, 2}
    BY Ids, OwnTypesAre
  <2>2. /\ H.children \in 0 .. ChildrenModulus - 1 /\ H.has_children \in BOOLEAN
        /\ H.device_type \in 8 .. 15 /\ IsTable(T, Hubs \cup Timers)
    BY HubFields
  <2>3. IsFiniteSet(DOMAIN T) /\ DOMAIN T \subseteq Devices
    BY <2>2, TableIs
  <2> QED
    BY <2>1, <2>2, <2>3
<1>4. DOMAIN R = DOMAIN T \cup {d}
  BY DEF InsertDirect, InsertRoute
<1>5. \A x \in DOMAIN R : R[x].parent = h /\ R[x].fd = IF x = d THEN fd ELSE T[x].fd
  <2> DEFINE entry == [type |-> Kind[d], parent |-> h, fd |-> fd]
  <2>1. R = [x \in DOMAIN T \cup {d} |-> IF x = d THEN entry ELSE T[x]]
    BY DEF InsertDirect, InsertRoute
  <2>2. entry.parent = h /\ entry.fd = fd
    OBVIOUS
  <2> HIDE DEF entry, R
  <2> QED
    BY <2>1, <2>2
<1> HIDE DEF R
<1>6. E \in [Fds -> Ends] /\ \A f \in Fds : E[f] = IF f = fd THEN Down(d) ELSE F[f]
  BY <1>2, <1>3, EndsAre DEF OpenAt
<1> HIDE DEF E
<1>7. PipesOf(R, h, E)
  <2>1. ASSUME NEW x \in Direct(R, h) PROVE E[R[x].fd] = Down(x)
    <3>1. CASE x = d
      BY <1>2, <1>4, <1>5, <1>6, <3>1
    <3>2. CASE x # d
      <4>1. x \in DOMAIN T /\ R[x].fd = T[x].fd /\ T[x].fd \in Fds
        BY <1>3, <1>4, <1>5, <3>2, TableIs DEF Direct
      <4>2. F[T[x].fd] = Down(x)
        BY <4>1 DEF PipesOf, ChildrenOpen, Direct
      <4> QED
        BY <1>2, <1>6, <4>1, <4>2, EndsDiffer
    <3> QED
      BY <3>1, <3>2
  <2>2. ASSUME NEW f \in Fds, E[f].dir = "down" PROVE \E x \in Direct(R, h) : R[x].fd = f
    <3>1. CASE f = fd
      BY <1>4, <1>5, <3>1 DEF Direct
    <3>2. CASE f # fd
      <4>1. PICK x \in Direct(T, h) : T[x].fd = f
        BY <1>6, <2>2, <3>2 DEF PipesOf
      <4> QED
        BY <1>4, <1>5, <4>1 DEF Direct
    <3> QED
      BY <3>1, <3>2
  <2> QED
    BY <2>1, <2>2 DEF PipesOf, ChildrenOpen
<1>8. n = Cardinality(DOMAIN R)
  <2>1. Cardinality(DOMAIN R) = Cardinality(DOMAIN T) + 1
    <3>1. Cardinality(DOMAIN T \cup {d}) = Cardinality(DOMAIN T) + 1
      <4> HIDE DEF T
      <4> QED
        BY <1>3, FS_AddElement DEF T
    <3> QED
      BY <1>4, <3>1
  <2>2. Cardinality(DOMAIN R) <= Cardinality(Devices)
    BY <1>3, <1>4, FS_Subset
  <2>3. Cardinality(Devices) \in Nat
    BY <1>3, FS_CardinalityType
  <2>4. H.children + 1 \in 0 .. ChildrenModulus - 1
    BY <1>3, <2>1, <2>2, <2>3, ChildrenModulusAssumption
  <2>5. n = H.children + 1
    BY <2>4, ChildrenModulusAssumption
  <2> QED
    BY <2>1, <2>5
<1>9. type = HubOr(Kind[d]) /\ H.device_type \in {HUB_DEVICE, HubOr(Kind[d])} /\ has = TRUE
  <2>1. HubOr(Kind[d]) # HUB_DEVICE
    BY <1>3 DEF HubOr, IsLeaf, HUB_DEVICE
  <2>2. CASE DOMAIN T = {}
    BY <2>2
  <2>3. CASE DOMAIN T # {}
    <3>1. PICK x \in DOMAIN T : H.device_type = HubOr(Kind[x]) /\ Kind[x] = Kind[d]
      BY <2>3
    <3>2. H.has_children = TRUE
      BY <1>3, <2>3
    <3> QED
      BY <2>1, <3>1, <3>2
  <2> QED
    BY <2>2, <2>3
<1>10. HubTyped(G) /\ SameThread(G, H)
  <2>1. HubTyped(added.hub) /\ SameThread(added.hub, H)
    BY <1>3, AddDirectChildTyped
  <2>2. added.hub = G
    BY <1>1
  <2> HIDE DEF added, G
  <2> QED
    BY <2>1, <2>2
<1>11. /\ G.routing_table = R /\ G.has_children = has /\ G.device_type = type /\ G.children = n
       /\ G.parent_id = H.parent_id /\ G.parent_changed = H.parent_changed
       /\ G.force_exit = H.force_exit /\ G.snd = H.snd
       /\ G.bottom_pc = H.bottom_pc /\ G.pending = H.pending
       /\ G.remove_child_succeed = H.remove_child_succeed
  <2> HIDE DEF type, has, n
  <2> QED
    BY DEF HubTyped
<1> HIDE DEF G, type, has, n
<1>12. added.hub = G /\ added.code = "OK" /\ added.files = E
  <2> HIDE DEF added
  <2> QED
    BY <1>1
<1>13. \A f \in Fds : IsOpen(F, f) => E[f] = F[f]
  BY <1>2, <1>6 DEF IsOpen
<1> HIDE DEF added
<1> QED
  BY <1>4, <1>5, <1>6, <1>7, <1>8, <1>9, <1>10, <1>11, <1>12, <1>13 DEF added

\* The new parent opens the pipe of the leaf that has moved and tells the controller.
LEMMA HubTakesInTwoLevels ==
    ASSUME TypeOK, TwoLevels, TwoLevelUser, NEW h \in Hubs, NEW r \in First(up[h]),
           HubDirectChildAdded(h, r), UNCHANGED <<controllerVars, leaf, histories>>
    PROVE  TwoLevels'
<1> DEFINE H == hub[h]
           T == H.routing_table
           F == files[h]
<1>1. /\ HubTyped(H) /\ F \in [Fds -> Ends] /\ HubInOrder(h, H) /\ H.force_exit = FALSE
      /\ H.children = Cardinality(DOMAIN T)
      /\ H.has_children <=> DOMAIN T # {}
      /\ DOMAIN T = {} => H.device_type = HUB_DEVICE
      /\ \A x \in DOMAIN T : x \in Leaves /\ T[x].parent = h /\ H.device_type = HubOr(Kind[x])
      /\ PipesOf(T, h, F)
      /\ h \in Devices /\ h \in Controls /\ h # CONTROLLER_ID /\ CONTROLLER_ID \in Controls
  BY HubOrderly, HubFields, Ids DEF HubInOrder
<1>2. r.cmd = "change_parent" /\ r.code = "OK" /\ r.args[1] = h
  BY DEF HubDirectChildAdded
<1>3. /\ r \in Responses /\ AllIn(Tail(up[h]), Tells)
      /\ \E d \in Leaves, p \in Controls : TellsNew(d, p, h) /\ r = Joining(d, h)
  <2>1. r \notin Tells
    BY <1>2 DEF Tells, Links
  <2> QED
    BY <1>1, <2>1, ResponseRead
<1>4. PICK d \in Leaves, p \in Controls : TellsNew(d, p, h) /\ r = Joining(d, h)
  BY <1>3
<1>5. /\ HasMoved(d, p, h) /\ Silent({}, {}, {}, {h})
      /\ r.src = d /\ r.args[2] = Kind[d] /\ [r EXCEPT !.code = "OK"] = r
  BY <1>4 DEF TellsNew, Joining, Response
<1>6. /\ UnderWayTo(d, p, h) /\ At(d, h, p, {p}) /\ Agreed({}) /\ MayTakeIn(d, h) /\ NoLinkTyped
      /\ d \in Known /\ h \in Known /\ p # h
  BY <1>1, <1>5 DEF HasMoved, UnderWayTo, Hosts
<1>7. /\ d \notin DOMAIN T /\ FreeFds(F) # {} /\ \A x \in DOMAIN T : Kind[x] = Kind[d]
  BY <1>6 DEF At, Entered, MayTakeIn
<1> DEFINE added == AddDirectChild(h, H, F, d, Kind[d])
           G == added.hub
           E == added.files
           new == [G EXCEPT !.bottom_pc = IF @ = "read" /\ G.force_exit THEN "exit" ELSE @]
           q == [up EXCEPT ![h] = Tail(@)]
<1>8. /\ added.code = "OK" /\ E \in [Fds -> Ends]
      /\ HubTyped(G) /\ SameThread(G, H)
      /\ DOMAIN G.routing_table = DOMAIN T \cup {d}
      /\ \A x \in DOMAIN G.routing_table : G.routing_table[x].parent = h
      /\ PipesOf(G.routing_table, h, E)
      /\ \A f \in Fds : IsOpen(F, f) => E[f] = F[f]
      /\ G.children = Cardinality(DOMAIN G.routing_table)
      /\ G.has_children /\ G.device_type = HubOr(Kind[d])
      /\ H.device_type \in {HUB_DEVICE, HubOr(Kind[d])}
      /\ G.parent_id = H.parent_id /\ G.parent_changed = H.parent_changed
      /\ G.force_exit = H.force_exit /\ G.snd = H.snd
      /\ G.bottom_pc = H.bottom_pc /\ G.pending = H.pending
      /\ G.remove_child_succeed = H.remove_child_succeed
  <2>1. Cardinality(Devices) < ChildrenModulus
    BY DEF TwoLevelUser
  <2> HIDE DEF H, T, F
  <2>2. FreeFds(F) # {} /\ PipesOf(H.routing_table, h, F) /\ d \notin DOMAIN H.routing_table
    BY <1>1, <1>7 DEF T
  <2>3. /\ \A x \in DOMAIN H.routing_table :
             H.routing_table[x].parent = h /\ H.device_type = HubOr(Kind[x]) /\ Kind[x] = Kind[d]
        /\ H.children = Cardinality(DOMAIN H.routing_table)
        /\ H.has_children <=> DOMAIN H.routing_table # {}
        /\ DOMAIN H.routing_table = {} => H.device_type = HUB_DEVICE
    BY <1>1, <1>7 DEF T
  <2>4. HubTyped(H) /\ F \in [Fds -> Ends] /\ d \in Leaves
    BY <1>1
  <2> USE DEF T
  <2> QED
    BY <2>1, <2>2, <2>3, <2>4, TakesLeaf, SMTT(30)
<1>9. BottomUp(h, r, G, E, <<r>>)
  <2>1. exit_code[d] # "absent" /\ d \in fifos
    BY <1>6 DEF TwoLevels, InOrderAlways, Peaceful, Absent
  <2>2. d \in Devices /\ Alive(d)
    BY <2>1, Ids DEF TwoLevels, InOrderAlways, Peaceful, Alive
  <2>3. ~OpenBlocks(d) /\ DownOpens(F, d)
    BY <1>7, <2>1, <2>2 DEF OpenBlocks, DownOpens
  <2>4. /\ AddDirectChild(h, hub[h], files[h], r.src, r.args[2]) = added
        /\ [r EXCEPT !.code = added.code] = r
    BY <1>5, <1>8
  <2> HIDE DEF added
  <2> QED
    BY <1>5, <2>3, <2>4, Zenon DEF HubDirectChildAdded
<1> HIDE DEF added, G, E
<1>10. new = G
  BY <1>1, <1>8 DEF HubTyped
<1>11. /\ HubStep(h, G) /\ files' = [files EXCEPT ![h] = E]
       /\ up' = WriteUp(E, G, q, <<r>>) /\ UNCHANGED <<down, exit_code, fifos>>
  BY <1>9, <1>10 DEF BottomUp
<1> HIDE DEF new
<1>12. /\ H.snd \in Fds /\ IsOpen(F, H.snd) /\ E[H.snd] = F[H.snd] /\ F[H.snd] = Up(CONTROLLER_ID)
       /\ H.snd # NoFd
  <2>1. H.snd # NoFd /\ F[H.snd] = Up(CONTROLLER_ID) /\ H.snd \in Fds
    BY <1>1, HubFields DEF HubInOrder
  <2> QED
    BY <1>8, <2>1, EndsDiffer DEF IsOpen
<1>13. up' = [q EXCEPT ![CONTROLLER_ID] = @ \o <<r>>]
  <2>1. \A M : E[hub[h].snd] = files[h][hub[h].snd] =>
               WriteUp(E, G, q, M) = [q EXCEPT ![CONTROLLER_ID] = @ \o M]
    <3> HIDE DEF q
    <3> QED
      BY <1>8, HubWritesUp
  <2> QED
    BY <1>11, <1>12, <2>1
<1>14. /\ up \in [Controls -> Seq(Responses)] /\ hub'[h] = G /\ files'[h] = E
  BY <1>1, <1>11 DEF TypeOK, PipesTypeOK, HubTypeOK, HubStep
<1>15. HubInOrder(h, hub[h])'
  <2>1. /\ ~G.force_exit /\ ~G.parent_changed /\ G.parent_id = CONTROLLER_ID
        /\ G.bottom_pc = "read" /\ G.snd # NoFd /\ E[G.snd] = Up(CONTROLLER_ID)
        /\ \A i \in DOMAIN G.pending : G.pending[i].cmd # "delete"
    BY <1>1, <1>8, <1>12 DEF HubInOrder
  <2>2. /\ \A x \in DOMAIN G.routing_table :
             x \in Leaves /\ G.routing_table[x].parent = h /\ G.device_type = HubOr(Kind[x])
        /\ G.has_children <=> DOMAIN G.routing_table # {}
        /\ DOMAIN G.routing_table # {}
    BY <1>1, <1>7, <1>8
  <2>3. /\ PipesOf(G.routing_table, h, E)
        /\ G.children = Cardinality(DOMAIN G.routing_table)
    BY <1>8
  <2>4. HubInOrder(h, hub[h])' <=>
           /\ ~G.force_exit /\ ~G.parent_changed /\ G.parent_id = CONTROLLER_ID
           /\ G.bottom_pc = "read" /\ G.snd # NoFd /\ E[G.snd] = Up(CONTROLLER_ID)
           /\ \A i \in DOMAIN G.pending : G.pending[i].cmd # "delete"
           /\ PipesOf(G.routing_table, h, E)
           /\ \A x \in DOMAIN G.routing_table :
                 x \in Leaves /\ G.routing_table[x].parent = h /\ G.device_type = HubOr(Kind[x])
           /\ G.children = Cardinality(DOMAIN G.routing_table)
           /\ (G.has_children <=> DOMAIN G.routing_table # {})
           /\ (DOMAIN G.routing_table = {} => G.device_type = HUB_DEVICE)
    BY <1>14, Zenon DEF HubInOrder
  <2> QED
    BY <2>1, <2>2, <2>3, <2>4
<1>16. UNCHANGED <<peaceVars, routing_table, user_command, leaf, down>>
  BY <1>11 DEF peaceVars, controllerVars, histories
<1>17. Entered(h)' = Entered(h) \cup {d}
  BY <1>8, <1>14 DEF Entered
<1>18. /\ InOrderAlways'
       /\ \A x \in Hubs : hub'[x] = IF x = h THEN G ELSE hub[x]
       /\ Known' = Known /\ NoLinkTyped' = NoLinkTyped
       /\ UnderWayTo(d, p, h) => UnderWayTo(d, p, h)'
       /\ Agreed({h}) => Agreed({h})'
  <2>1. \A x \in Leaves \ {d} : x \in Entered(h)' <=> x \in Entered(h)
    BY <1>17
  <2> QED
    BY <1>11, <1>15, <1>16, <2>1, OneHubMoves
<1>19. At(d, h, p, {p, h})'
  <2>1. \A g \in Hubs \ {h} : Entered(g)' = Entered(g)
    BY <1>18 DEF Entered
  <2> QED
    BY <1>6, <1>16, <1>17, <1>18, <2>1 DEF At
<1>20. Agreed({h})' /\ routing_table'[h].type \in {HUB_DEVICE, hub'[h].device_type}
  <2>1. Agreed({h}) /\ routing_table[h].type = H.device_type
    BY <1>6 DEF Agreed
  <2> QED
    BY <1>8, <1>14, <1>16, <1>18, <2>1
<1>21. \A x \in Controls : up'[x] = IF x = h THEN Tail(up[h])
                                    ELSE IF x = CONTROLLER_ID THEN up[x] \o <<r>> ELSE up[x]
  BY <1>1, <1>13, <1>14
<1>22. AllBut(up'[CONTROLLER_ID], Tells, Joining(d, h))
  <2>1. AllIn(up[CONTROLLER_ID], Tells)
    BY <1>1, <1>5 DEF Silent
  <2>2. AllBut(up[CONTROLLER_ID] \o <<r>>, Tells, r)
    BY <1>1, <1>3, <1>14, <2>1, OneWritten
  <2> QED
    BY <1>1, <1>4, <1>21, <2>2
<1>23. Silent({}, {}, {}, {CONTROLLER_ID})'
  <2>1. HubIdle(G)
    <3>1. HubIdle(H)
      BY <1>5 DEF Silent
    <3> HIDE DEF H
    <3> QED
      BY <1>8, <3>1 DEF SameThread, HubIdle
  <2>2. \A x \in Hubs : HubIdle(hub'[x])
    BY <1>5, <1>18, <2>1 DEF Silent
  <2>3. \A x \in Controls \ {CONTROLLER_ID} : AllIn(up'[x], Tells)
    BY <1>3, <1>5, <1>21 DEF Silent
  <2> QED
    BY <1>5, <1>16, <2>2, <2>3 DEF Silent
<1>24. Joined(d, p, h)'
  BY <1>18, <1>19, <1>20, <1>22, <1>23, <1>6 DEF Joined, Joining
<1> QED
  BY <1>1, <1>18, <1>24 DEF TwoLevels

\* Every step of a hub's bottom-up thread.
LEMMA HubGathers ==
    ASSUME TypeOK, TwoLevels, TwoLevelUser, NEW h \in Hubs, HubBottomUpThread(h)
    PROVE  TwoLevels'
<1>1. HubBottomUp(h) /\ UNCHANGED <<controllerVars, leaf, histories>>
  BY DEF HubBottomUpThread
<1>2. h \in Controls /\ h # CONTROLLER_ID
  BY Ids
<1>3. ASSUME NEW r \in First(up[h])
      PROVE  ~HubIndirectChildAdded(h, r) /\ ~HubChildForgotten(h, r) /\ ~HubChildDeleted(h, r)
  <2>1. r \in Tells \/ \E d \in Leaves : r = Joining(d, h)
    BY <1>2, ResponseRead
  <2>2. CASE r \in Tells
    BY <2>2 DEF Tells, Links, HubIndirectChildAdded, HubChildForgotten, HubChildDeleted
  <2>3. CASE \E d \in Leaves : r = Joining(d, h)
    <3>1. r.cmd = "change_parent" /\ r.args[1] = h
      BY <2>3 DEF Joining, Response
    <3> QED
      BY <3>1 DEF HubIndirectChildAdded, HubChildForgotten, HubChildDeleted
  <2> QED
    BY <2>1, <2>2, <2>3
<1> QED
  BY <1>1, <1>3, HubGathersTwoLevels, HubTakesInTwoLevels DEF HubBottomUp

-----------------------------------------------------------------------------
(* The table of the controller, of two levels.                             *)

\* Upwards from a device whose parent is not in the table there is nobody, and
\* from nobody nothing.
LEMMA UpwardsOfTop ==
    ASSUME NEW T, IsFiniteSet(DOMAIN T), NEW d
    PROVE  LET above == Upwards(T, d)
           IN  /\ d \notin DOMAIN T => DOMAIN above = {}
               /\ d \in DOMAIN T /\ T[d].parent \notin DOMAIN T => DOMAIN above = {1} /\ above[1] = d
<1> DEFINE above == Upwards(T, d)
<1>1. /\ DOMAIN above \subseteq Nat \ {0}
      /\ \A i \in DOMAIN above : above[i] \in DOMAIN T
      /\ d \in DOMAIN T <=> 1 \in DOMAIN above
      /\ 1 \in DOMAIN above => above[1] = d
      /\ \A i \in DOMAIN above : i > 1 => i - 1 \in DOMAIN above /\ above[i] = T[above[i - 1]].parent
  BY UpwardsListed
<1> HIDE DEF above
<1>2. ASSUME NEW k \in Nat, k \notin DOMAIN above, k > 0
      PROVE  \A i \in DOMAIN above : i < k
  <2> DEFINE P == {n \in Nat : k + n \notin DOMAIN above}
  <2>1. 0 \in P
    BY <1>2
  <2>2. ASSUME NEW n \in Nat, n \in P PROVE n + 1 \in P
    <3> SUFFICES ASSUME NEW i \in DOMAIN above, i = k + (n + 1) PROVE FALSE
      BY <2>2
    <3>1. i > 1 /\ i - 1 = k + n
      BY <1>2, <2>2
    <3>2. i - 1 \in DOMAIN above
      BY <1>1, <3>1
    <3> QED
      BY <2>2, <3>1, <3>2
  <2>3. Nat \subseteq P
    <3> HIDE DEF P
    <3> QED
      BY <2>1, <2>2, Induct
  <2>4. ASSUME NEW i \in DOMAIN above, i >= k PROVE FALSE
    <3>1. i - k \in P /\ k + (i - k) = i
      BY <1>1, <2>3, <2>4
    <3> QED
      BY <3>1
  <2> QED
    BY <1>1, <2>4
<1>3. d \notin DOMAIN T => DOMAIN above = {}
  <2> SUFFICES ASSUME d \notin DOMAIN T PROVE DOMAIN above = {}
    OBVIOUS
  <2>1. \A i \in DOMAIN above : i < 1
    BY <1>1, <1>2
  <2>2. \A i \in Nat \ {0} : ~(i < 1)
    OBVIOUS
  <2> QED
    BY <1>1, <2>1, <2>2
<1>4. d \in DOMAIN T /\ T[d].parent \notin DOMAIN T => DOMAIN above = {1} /\ above[1] = d
  <2> SUFFICES ASSUME d \in DOMAIN T, T[d].parent \notin DOMAIN T
               PROVE  DOMAIN above = {1} /\ above[1] = d
    OBVIOUS
  <2>1. 2 \notin DOMAIN above
    <3>1. 2 \in DOMAIN above => above[2] = T[above[1]].parent /\ above[2] \in DOMAIN T
      <4>1. 2 > 1 /\ 2 - 1 = 1
        OBVIOUS
      <4> QED
        BY <1>1, <4>1
    <3> QED
      BY <1>1, <3>1
  <2>2. \A i \in DOMAIN above : i < 2
    BY <1>2, <2>1
  <2> QED
    BY <1>1, <2>2
<1> QED
  BY <1>3, <1>4 DEF above

\* SetTypes of nobody changes nothing.
LEMMA NobodyRetyped ==
    ASSUME NEW T, T = [x \in DOMAIN T |-> T[x]], NEW c
    PROVE  SetTypes(T, {}, c) = T
  BY DEF SetTypes

\* update_type_to_empty of the controller itself.
LEMMA ControllerNeverEmpty ==
    ASSUME NEW T, IsTable(T, Controls)
    PROVE  UpdateTypeToEmpty(T, CONTROLLER_ID) = T
<1> DEFINE above == Upwards(T, CONTROLLER_ID)
           Empties(j) == /\ ~IsEmpty(T[above[j]].type)
                         /\ \A k \in Direct(T, above[j]) :
                               IsEmpty(T[k].type) \/ (j > 1 /\ k = above[j - 1])
           E == {above[i] : i \in {i \in DOMAIN above : \A j \in 1 .. i : Empties(j)}}
<1>1. /\ CONTROLLER_ID \notin DOMAIN T /\ IsFiniteSet(DOMAIN T)
      /\ T = [x \in DOMAIN T |-> T[x]]
  BY TableIs, Ids
<1>2. DOMAIN above = {}
  BY <1>1, UpwardsOfTop
<1>3. E = {}
  BY <1>2
<1>4. UpdateTypeToEmpty(T, CONTROLLER_ID) = SetTypes(T, E, 0)
  BY DEF UpdateTypeToEmpty
<1> QED
  BY <1>1, <1>3, <1>4, NobodyRetyped

\* The controller enters a leaf that has moved below one of its hubs: nobody else
\* moves, and of the types only that of the hub may change.
LEMMA MovesBelowHub ==
    ASSUME NEW T, IsTable(T, Controls), NEW d \in Leaves, d \in DOMAIN T,
           NEW q \in Hubs, q \in DOMAIN T, T[q].parent = CONTROLLER_ID
    PROVE  LET U == UpdateTypeToNotEmpty(InsertIndirect(T, d, T[d].type, q), d)
           IN  /\ DOMAIN U = DOMAIN T
               /\ \A x \in DOMAIN T \ {d} : U[x].parent = T[x].parent /\ U[x].fd = T[x].fd
               /\ U[d].parent = q /\ U[d].fd = T[q].fd
               /\ \A x \in DOMAIN T \ {q} : U[x].type = T[x].type
               /\ U[q].type = IF IsEmpty(T[q].type) THEN WithChildType(T[q].type, Kind[d])
                              ELSE T[q].type
<1> DEFINE M == InsertIndirect(T, d, T[d].type, q)
           entry == [type |-> T[d].type, parent |-> q, fd |-> T[q].fd]
           U == UpdateTypeToNotEmpty(M, d)
           above == Upwards(M, q)
           E == {above[i] : i \in {i \in DOMAIN above : \A j \in 1 .. i : IsEmpty(M[above[j]].type)}}
           c == Kind[d]
<1>1. /\ d \in Devices /\ T[d].type = c /\ c \in {1, 2} /\ q \in Controls /\ q # d
      /\ CONTROLLER_ID \notin DOMAIN T /\ T[d].type \in OwnTypes(d)
  BY TableIs, Ids, OwnTypesAre
<1>2. M = [x \in DOMAIN T \cup {d} |-> IF x = d THEN entry ELSE T[x]]
  BY DEF InsertIndirect, InsertRoute
<1>3. entry.type = c /\ entry.parent = q /\ entry.fd = T[q].fd
  BY <1>1
<1>4. IsTable(M, Controls)
  BY <1>1, InsertIndirectTyped
<1> HIDE DEF M, entry
<1>5. /\ DOMAIN M = DOMAIN T /\ M[d] = entry /\ \A x \in DOMAIN T \ {d} : M[x] = T[x]
  BY <1>2
<1>6. /\ IsRouting(M) /\ IsFiniteSet(DOMAIN M)
  BY <1>4, TableIs
<1>7. DOMAIN above = {1} /\ above[1] = q
  BY <1>1, <1>5, <1>6, UpwardsOfTop
<1> HIDE DEF above
<1>8. E = IF IsEmpty(M[q].type) THEN {q} ELSE {}
  <2>1. \A j \in 1 .. 1 : j = 1
    OBVIOUS
  <2>2. (\A j \in 1 .. 1 : IsEmpty(M[above[j]].type)) <=> IsEmpty(M[q].type)
    BY <1>7, <2>1
  <2> QED
    BY <1>7, <2>2
<1>9. ~IsEmpty(M[d].type) /\ ChildType(M[d].type) = c
  BY <1>1, <1>3, <1>5 DEF IsEmpty, ChildType
<1>10. U = SetTypes(M, E, c)
  BY <1>3, <1>5, <1>9 DEF UpdateTypeToNotEmpty, above
<1> HIDE DEF E
<1>11. /\ DOMAIN U = DOMAIN M
       /\ \A x \in DOMAIN M :
             /\ U[x].parent = M[x].parent /\ U[x].fd = M[x].fd
             /\ x \in E => U[x].type = WithChildType(M[x].type, c)
             /\ x \notin E => U[x].type = M[x].type
  <2>1. c \in 0 .. 3
    BY <1>1
  <2> HIDE DEF U, c
  <2> QED
    BY <1>6, <1>10, <2>1, SetTypesIs
<1> HIDE DEF U
<1> QED
  BY <1>1, <1>3, <1>5, <1>8, <1>11 DEF U, M

\* The same of one that has moved to the controller.
LEMMA MovesToTop ==
    ASSUME NEW T, IsTable(T, Controls), NEW d \in DOMAIN T, NEW fd \in Fds
    PROVE  LET U == UpdateTypeToNotEmpty(InsertDirect(T, d, T[d].type, CONTROLLER_ID, fd), d)
           IN  /\ DOMAIN U = DOMAIN T
               /\ \A x \in DOMAIN T \ {d} : U[x] = T[x]
               /\ U[d] = [type |-> T[d].type, parent |-> CONTROLLER_ID, fd |-> fd]
<1> DEFINE M == InsertDirect(T, d, T[d].type, CONTROLLER_ID, fd)
           entry == [type |-> T[d].type, parent |-> CONTROLLER_ID, fd |-> fd]
           above == Upwards(M, CONTROLLER_ID)
           E == {above[i] : i \in {i \in DOMAIN above : \A j \in 1 .. i : IsEmpty(M[above[j]].type)}}
<1>1. M = [x \in DOMAIN T \cup {d} |-> IF x = d THEN entry ELSE T[x]]
  BY DEF InsertDirect, InsertRoute
<1>2. entry.parent = CONTROLLER_ID
  OBVIOUS
<1> HIDE DEF entry
<1>3. /\ CONTROLLER_ID \notin DOMAIN T /\ IsFiniteSet(DOMAIN T)
  BY TableIs, Ids
<1> HIDE DEF M
<1>4. /\ DOMAIN M = DOMAIN T /\ M = [x \in DOMAIN M |-> M[x]]
      /\ M[d] = entry /\ \A x \in DOMAIN T \ {d} : M[x] = T[x]
  BY <1>1
<1>5. DOMAIN above = {}
  BY <1>3, <1>4, UpwardsOfTop
<1>6. E = {}
  BY <1>5
<1>7. UpdateTypeToNotEmpty(M, d) \in {M, SetTypes(M, E, ChildType(M[d].type))}
  BY <1>2, <1>4 DEF UpdateTypeToNotEmpty
<1>8. UpdateTypeToNotEmpty(M, d) = M
  <2> HIDE DEF E
  <2> QED
    BY <1>4, <1>6, <1>7, NobodyRetyped
<1> QED
  BY <1>4, <1>8 DEF M, entry

\* What the controller is, in order.
LEMMA ControllerOrderly ==
    ASSUME TypeOK, TwoLevels
    PROVE  /\ PipesTypeOK /\ ControllerTypeOK
           /\ IsTable(routing_table, Controls) /\ DOMAIN routing_table = Known
           /\ files[CONTROLLER_ID] \in [Fds -> Ends] /\ CONTROLLER_ID \in Controls
           /\ CONTROLLER_ID \notin Devices /\ Hubs \subseteq Controls /\ Known \subseteq Devices
           /\ PipesOf(routing_table, CONTROLLER_ID, files[CONTROLLER_ID])
           /\ \A h \in Hubs \cap Known : routing_table[h].parent = CONTROLLER_ID
           /\ \A d \in Known : routing_table[d].parent # CONTROLLER_ID =>
                 /\ d \in Leaves /\ routing_table[d].parent \in Hosts
                 /\ routing_table[d].parent \in Hubs \cap Known
                 /\ routing_table[d].fd = routing_table[routing_table[d].parent].fd
           /\ Alive(CONTROLLER_ID) /\ ~force_exit /\ Locks
<1>1. PipesTypeOK /\ ControllerTypeOK /\ DOMAIN routing_table = Known
  BY DEF TypeOK, Known
<1>2. files[CONTROLLER_ID] \in [Fds -> Ends] /\ IsTable(routing_table, Controls)
  BY <1>1, Ids DEF PipesTypeOK, ControllerTypeOK
<1>3. Known \subseteq Devices
  BY <1>1, <1>2, TableIs
<1>4. ControllerInOrder /\ Peaceful
  BY DEF TwoLevels, InOrderAlways
<1>5. \A d \in Known : routing_table[d].parent # CONTROLLER_ID =>
         /\ d \in Leaves /\ routing_table[d].parent \in Hosts
         /\ routing_table[d].fd = routing_table[routing_table[d].parent].fd
  BY <1>4 DEF ControllerInOrder
<1>6. Alive(CONTROLLER_ID) /\ ~force_exit /\ Locks
  BY <1>4 DEF Peaceful, Alive, Locks, MutexFree
<1> QED
  BY <1>1, <1>2, <1>3, <1>4, <1>5, <1>6, Ids DEF ControllerInOrder, Hosts

\* What a step of the controller that moves a leaf in its table leaves of
\* everybody's order and places.
LEMMA ControllerMoves ==
    ASSUME TypeOK, TwoLevels, NEW d \in Leaves, d \in Known,
           DOMAIN routing_table' = Known,
           \A x \in Known \ {d} : routing_table'[x].parent = routing_table[x].parent,
           NEW F, files' = [files EXCEPT ![CONTROLLER_ID] = F],
           UNCHANGED <<peaceVars, user_command, hub, leaf>>,
           ControllerInOrder'
    PROVE  /\ InOrderAlways'
           /\ Known' = Known /\ Hosts' = Hosts /\ NoLinkTyped' = NoLinkTyped
           /\ \A x \in Leaves \ {d} : Home(x) => Home(x)'
           /\ \A own, known, hubs, p : At(d, own, known, hubs) /\ routing_table'[d].parent = p
                 => At(d, own, p, hubs)'
           /\ \A p, q : UnderWayTo(d, p, q) => UnderWayTo(d, p, q)'
           /\ \A p, x : Forgotten(p, x)' = Forgotten(p, x)
<1>1. \A p \in Controls \ {CONTROLLER_ID} : files'[p] = files[p]
  BY DEF TypeOK, PipesTypeOK
<1>2. /\ UNCHANGED <<exit_code, fifos, exiting, blocked, hurried, interrupted>>
      /\ UNCHANGED <<signalled, pending_shutdown, force_exit, reaped>>
      /\ UNCHANGED <<user_command, hub, leaf>>
  BY DEF peaceVars, shutdownVars
<1>3. Known' = Known /\ Absent' = Absent /\ NoLinkTyped' = NoLinkTyped
  BY <1>2 DEF Known, Absent, NoLinkTyped
<1>4. Hosts' = Hosts /\ \A h \in Hubs : Entered(h)' = Entered(h)
  BY <1>2, <1>3 DEF Hosts, Running, Entered
<1>5. InOrderAlways
  BY DEF TwoLevels
<1>6. Peaceful'
  BY <1>2, <1>3, <1>5 DEF InOrderAlways, Peaceful
<1>7. ASSUME NEW h \in Hubs PROVE HubInOrder(h, hub[h])'
  <2>1. h \in Controls \ {CONTROLLER_ID}
    BY Ids
  <2> QED
    BY <1>1, <1>2, <1>5, <2>1 DEF InOrderAlways, HubInOrder, PipesOf, ChildrenOpen
<1>8. \A x \in Leaves : LeafInOrder(x, leaf[x])'
  BY <1>2, <1>3, <1>4, <1>5 DEF InOrderAlways, LeafInOrder
<1>9. InOrderAlways'
  BY <1>6, <1>7, <1>8 DEF InOrderAlways
<1>10. \A x \in Leaves \ {d} : Home(x) => Home(x)'
  BY <1>2, <1>3, <1>4 DEF Home, At, Known
<1>11. ASSUME NEW own, NEW known, NEW hubs, NEW p, At(d, own, known, hubs),
              routing_table'[d].parent = p
       PROVE  At(d, own, p, hubs)'
  <2>1. /\ leaf[d].parent_id = own
        /\ \A h \in Hubs : d \in Entered(h) <=> h \in hubs
    BY <1>11 DEF At
  <2>2. leaf'[d].parent_id = own
    BY <1>2, <2>1
  <2>3. \A h \in Hubs : d \in Entered(h)' <=> h \in hubs
    BY <1>4, <2>1
  <2> QED
    BY <1>11, <2>2, <2>3, Zenon DEF At
<1>12. \A p, q : UnderWayTo(d, p, q) => UnderWayTo(d, p, q)'
  BY <1>2, <1>3, <1>4, <1>10 DEF UnderWayTo
<1>13. \A p, x : Forgotten(p, x)' = Forgotten(p, x)
  BY <1>2 DEF Forgotten
<1> QED
  BY <1>3, <1>4, <1>9, <1>10, <1>11, <1>12, <1>13

\* The table of the controller once a leaf is below one of its hubs.
LEMMA MovedBelowInOrder ==
    ASSUME TypeOK, TwoLevels, NEW d \in Leaves, d \in Known,
           NEW q \in Hubs, q \in Hosts, Known' = Known, Hosts' = Hosts,
           \A x \in Known \ {d} : /\ routing_table'[x].parent = routing_table[x].parent
                                  /\ routing_table'[x].fd = routing_table[x].fd,
           routing_table'[d].parent = q, routing_table'[d].fd = routing_table[q].fd,
           NEW F, files' = [files EXCEPT ![CONTROLLER_ID] = F],
           F = IF routing_table[d].parent = CONTROLLER_ID
               THEN Close(files[CONTROLLER_ID], routing_table[d].fd) ELSE files[CONTROLLER_ID]
    PROVE  ControllerInOrder'
<1> DEFINE T == routing_table
           U == routing_table'
           E == files[CONTROLLER_ID]
<1>1. /\ IsTable(T, Controls) /\ DOMAIN T = Known /\ E \in [Fds -> Ends]
      /\ PipesOf(T, CONTROLLER_ID, E) /\ q # CONTROLLER_ID /\ q \in Known
      /\ CONTROLLER_ID \in Controls /\ T[q].parent = CONTROLLER_ID /\ q # d
      /\ files'[CONTROLLER_ID] = F /\ DOMAIN U = Known
  BY ControllerOrderly, Ids DEF Hosts, TypeOK, PipesTypeOK, Known
<1>2. /\ \A x \in Known : T[x].fd \in Fds /\ T[x].parent \in Controls
      /\ \A x \in Known : T[x].parent = CONTROLLER_ID => E[T[x].fd] = Down(x)
      /\ \A f \in Fds : E[f].dir = "down" => \E x \in Direct(T, CONTROLLER_ID) : T[x].fd = f
  BY <1>1, TableIs DEF PipesOf, ChildrenOpen, Direct
<1>3. \A f \in Fds : F[f] = IF T[d].parent = CONTROLLER_ID /\ f = T[d].fd THEN Closed ELSE E[f]
  BY <1>1 DEF Close
<1>4. \A x \in Known : T[x].parent # CONTROLLER_ID =>
          /\ x \in Leaves /\ T[x].parent \in Hosts /\ T[x].parent \in Hubs \cap Known
          /\ T[x].fd = T[T[x].parent].fd
  BY ControllerOrderly
<1> HIDE DEF T, U, E
<1>5. /\ \A x \in Known \ {d} : U[x].parent = T[x].parent /\ U[x].fd = T[x].fd
      /\ U[d].parent = q /\ U[d].fd = T[q].fd
  BY DEF T, U
<1>6. ChildrenOpen(U, CONTROLLER_ID, F)
  <2> SUFFICES ASSUME NEW x \in Direct(U, CONTROLLER_ID) PROVE F[U[x].fd] = Down(x)
    BY DEF ChildrenOpen
  <2>1. x \in Known /\ x # d /\ T[x].parent = CONTROLLER_ID /\ U[x].fd = T[x].fd
    BY <1>1, <1>5 DEF Direct
  <2>2. T[d].parent = CONTROLLER_ID => T[x].fd # T[d].fd
    BY <1>2, <2>1, EndsDiffer
  <2> QED
    BY <1>2, <1>3, <2>1, <2>2
<1>7. \A f \in Fds : F[f].dir = "down" => \E x \in Direct(U, CONTROLLER_ID) : U[x].fd = f
  <2> SUFFICES ASSUME NEW f \in Fds, F[f].dir = "down"
               PROVE  \E x \in Direct(U, CONTROLLER_ID) : U[x].fd = f
    OBVIOUS
  <2>1. E[f].dir = "down" /\ ~(T[d].parent = CONTROLLER_ID /\ f = T[d].fd)
    BY <1>3, EndsDiffer
  <2>2. PICK x \in Direct(T, CONTROLLER_ID) : T[x].fd = f
    BY <1>2, <2>1
  <2>3. x \in Known /\ T[x].parent = CONTROLLER_ID /\ x # d
    BY <1>1, <2>1, <2>2 DEF Direct
  <2>4. x \in Direct(U, CONTROLLER_ID) /\ U[x].fd = f
    BY <1>1, <1>5, <2>2, <2>3 DEF Direct
  <2> QED
    BY <2>4
<1>8. ASSUME NEW x \in Known, U[x].parent # CONTROLLER_ID
      PROVE  /\ x \in Leaves /\ U[x].parent \in Hosts
             /\ U[x].fd = U[U[x].parent].fd
  <2>1. CASE x = d
    BY <1>1, <1>5, <2>1
  <2>2. CASE x # d
    <3>1. T[x].parent # CONTROLLER_ID /\ T[x].parent # d
      BY <1>4, <1>5, <1>8, <2>2, Ids
    <3> QED
      BY <1>4, <1>5, <2>2, <3>1
  <2> QED
    BY <2>1, <2>2
<1>9. \A x \in Known' :
         LET p == routing_table'[x].parent
         IN  p # CONTROLLER_ID =>
                /\ x \in Leaves /\ p \in Hosts'
                /\ routing_table'[x].fd = routing_table'[p].fd
  BY <1>8 DEF U
<1>10. PipesOf(routing_table, CONTROLLER_ID, files[CONTROLLER_ID])'
  BY <1>1, <1>6, <1>7 DEF PipesOf, ChildrenOpen, U
<1> QED
  BY <1>9, <1>10 DEF ControllerInOrder

-----------------------------------------------------------------------------
(* The controller.                                                         *)

\* The controller or the user takes a step on infos and switches only.
LEMMA ControllerStepsAside ==
    ASSUME TwoLevels, UNCHANGED <<peaceVars, files, routing_table, hub, leaf>>,
           \/ user_command' = user_command
           \/ /\ NoLinkTyped /\ NoLinkTyped' /\ user_command' \in Offered \cup {NoRequest}
              /\ user_command.cmd # "add" /\ user_command'.cmd # "add",
           \A x \in Devices : QueueAside(down[x], down'[x], Asks),
           \A x \in Controls : QueueAside(up[x], up'[x], Tells)
    PROVE  TwoLevels'
<1>1. /\ \A h \in Hubs : SameHub(hub[h], hub'[h]) /\ HubAside(hub[h], hub'[h])
      /\ \A x \in Leaves : SameLeaf(leaf[x], leaf'[x]) /\ LeafAside(leaf[x], leaf'[x])
  BY AsideIsOrder
<1>2. user_command' \in Offered \cup {NoRequest}
  BY DEF TwoLevels, InOrderAlways, Peaceful
<1>3. SameShape
  BY <1>1, <1>2 DEF SameShape
<1>4. Aside
  BY <1>1, <1>3 DEF Aside
<1> QED
  BY <1>4, AsideKeeps

\* The responses thread reads an answer to an info or a switch, or what the link
\* under way is at.
LEMMA ControllerReceives ==
    ASSUME TypeOK, TwoLevels, NEW r \in First(up[CONTROLLER_ID]),
           NEW T, NEW F, NEW q, Receives(r, T, F, q),
           UNCHANGED <<exiting, blocked, force_exit, fifos, hub, leaf, histories>>
    PROVE  /\ r \in Responses
           /\ routing_table' = T /\ files' = [files EXCEPT ![CONTROLLER_ID] = F] /\ down' = q
           /\ UNCHANGED <<peaceVars, user_command, hub, leaf>>
           /\ r \in Tells => \A x \in Controls : QueueAside(up[x], up'[x], Tells)
           /\ r \notin Tells =>
                 /\ \A D, H, L, U : Silent(D, H, L, U) =>
                       \A x \in Controls \ (U \ {CONTROLLER_ID}) : AllIn(up'[x], Tells)
                 /\ \/ \E d \in Leaves, p \in Controls :
                          TellsNew(d, p, CONTROLLER_ID) /\ r = Joining(d, CONTROLLER_ID)
                    \/ \E d \in Leaves, p \in Controls, h \in Controls :
                          Joined(d, p, h) /\ r = Joining(d, h)
                    \/ \E d \in Leaves, p \in Controls, h \in Controls :
                          Left(d, p, h) /\ r = Forgotten(p, d)
<1>1. CONTROLLER_ID \in Controls
  BY Ids
<1>2. /\ routing_table' = T /\ files' = [files EXCEPT ![CONTROLLER_ID] = F] /\ down' = q
      /\ up' = [up EXCEPT ![CONTROLLER_ID] = Tail(@)]
      /\ UNCHANGED <<user_command, signalled, pending_shutdown, reaped, exit_code>>
  BY DEF Receives
<1>3. \A x \in Controls : up'[x] = IF x = CONTROLLER_ID THEN Tail(up[CONTROLLER_ID]) ELSE up[x]
  BY <1>2 DEF TypeOK, PipesTypeOK
<1>4. /\ r \in Responses
      /\ r \in Tells => QueueAside(up[CONTROLLER_ID], Tail(up[CONTROLLER_ID]), Tells)
      /\ r \notin Tells =>
            /\ AllIn(Tail(up[CONTROLLER_ID]), Tells)
            /\ \/ \E d \in Leaves, p \in Controls :
                     TellsNew(d, p, CONTROLLER_ID) /\ r = Joining(d, CONTROLLER_ID)
               \/ \E d \in Leaves, p \in Controls, h \in Controls :
                     Joined(d, p, h) /\ r = Joining(d, h)
               \/ \E d \in Leaves, p \in Controls, h \in Controls :
                     Left(d, p, h) /\ r = Forgotten(p, d)
  BY <1>1, ResponseRead
<1>5. UNCHANGED <<peaceVars, user_command, hub, leaf>>
  BY <1>2 DEF peaceVars, shutdownVars, histories
<1>6. r \in Tells => \A x \in Controls : QueueAside(up[x], up'[x], Tells)
  BY <1>3, <1>4, AsideIsOrder
<1>7. r \notin Tells => \A D, H, L, U : Silent(D, H, L, U) =>
                       \A x \in Controls \ (U \ {CONTROLLER_ID}) : AllIn(up'[x], Tells)
  BY <1>3, <1>4 DEF Silent
<1> QED
  BY <1>2, <1>4, <1>5, <1>6, <1>7

\* A response that changes nothing is none of a link, and one of a link is that
\* of the link under way.
LEMMA ControllerShows ==
    ASSUME TypeOK, TwoLevels, NEW r \in First(up[CONTROLLER_ID]), ShowResponse(r),
           UNCHANGED <<hub, leaf, histories>>
    PROVE  TwoLevels'
<1>1. /\ Receives(r, routing_table, files[CONTROLLER_ID], down)
      /\ UNCHANGED <<exiting, blocked, force_exit, fifos>>
      /\ ~Parses(r) \/ r.code # "OK" \/ r.cmd \notin Links \cup {"delete"}
  BY DEF ShowResponse, ChangesNothing
<1>2. /\ r \in Responses
      /\ routing_table' = routing_table /\ down' = down
      /\ files' = [files EXCEPT ![CONTROLLER_ID] = files[CONTROLLER_ID]]
      /\ UNCHANGED <<peaceVars, user_command, hub, leaf>>
      /\ r \in Tells => \A x \in Controls : QueueAside(up[x], up'[x], Tells)
      /\ r \notin Tells =>
            \/ \E d, h : r = Joining(d, h)
            \/ \E d, p : r = Forgotten(p, d)
  BY <1>1, ControllerReceives
<1>3. r \in Tells
  <2>1. \A d, h : /\ Joining(d, h).code = "OK" /\ Joining(d, h).cmd = "change_parent"
                  /\ Parses(Joining(d, h))
    BY DEF Joining, Response, Parses
  <2>2. \A p, d : /\ Forgotten(p, d).code = "OK" /\ Forgotten(p, d).cmd = "remove_child"
                  /\ Parses(Forgotten(p, d))
    BY DEF Forgotten, Response, Parses
  <2> QED
    BY <1>1, <1>2, <2>1, <2>2 DEF Links
<1>4. files' = files
  BY <1>2 DEF TypeOK, PipesTypeOK
<1>5. \A x \in Devices : QueueAside(down[x], down'[x], Asks)
  BY <1>2, AsideIsOrder
<1> QED
  BY <1>2, <1>3, <1>4, <1>5, ControllerStepsAside

\* The controller enters a leaf that one of its hubs has taken in.
LEMMA ControllerEnters ==
    ASSUME TypeOK, TwoLevels, NEW d \in Leaves, NEW p \in Controls, NEW q \in Controls,
           Joined(d, p, q), NEW r \in First(up[CONTROLLER_ID]), r = Joining(d, q),
           NEW F, NEW m,
           F = IF routing_table[d].parent = CONTROLLER_ID
               THEN Close(files[CONTROLLER_ID], routing_table[d].fd) ELSE files[CONTROLLER_ID],
           Receives(r, UpdateTypeToNotEmpty(
                          InsertIndirect(routing_table, d, routing_table[d].type, q), d), F, m),
           UNCHANGED <<exiting, blocked, force_exit, fifos, hub, leaf, histories>>
    PROVE  /\ InOrderAlways' /\ UnderWayTo(d, p, q)' /\ At(d, q, q, {p, q})' /\ Agreed({})'
           /\ NoLinkTyped' /\ \A x \in Leaves \ {d} : Home(x)'
           /\ down' = m /\ UNCHANGED <<hub, leaf, exit_code>>
           /\ \A x \in Controls : AllIn(up'[x], Tells)
<1> DEFINE T == routing_table
           U == UpdateTypeToNotEmpty(InsertIndirect(T, d, T[d].type, q), d)
<1>1. /\ UnderWayTo(d, p, q) /\ At(d, q, p, {p, q}) /\ Agreed({q}) /\ NoLinkTyped
      /\ q \in Hubs /\ routing_table[q].type \in {HUB_DEVICE, hub[q].device_type}
      /\ Silent({}, {}, {}, {CONTROLLER_ID})
  BY DEF Joined
<1>2. d \in Known /\ p \in Hosts /\ q \in Hosts /\ p # q /\ q \in Known
  BY <1>1, Ids DEF UnderWayTo, Hosts
<1>3. T[d].parent = p /\ d \in Entered(q)
  BY <1>1, <1>2 DEF At
<1>4. /\ routing_table' = U /\ files' = [files EXCEPT ![CONTROLLER_ID] = F] /\ down' = m
      /\ UNCHANGED <<peaceVars, user_command, hub, leaf>>
      /\ \A x \in Controls : AllIn(up'[x], Tells)
  <2>1. r \notin Tells
    BY LinkMessages
  <2> HIDE DEF T, U
  <2>2. \A V : Receives(r, V, F, m) =>
           /\ routing_table' = V /\ files' = [files EXCEPT ![CONTROLLER_ID] = F] /\ down' = m
           /\ UNCHANGED <<peaceVars, user_command, hub, leaf>>
           /\ \A D, H, L, X : Silent(D, H, L, X) =>
                 \A x \in Controls \ (X \ {CONTROLLER_ID}) : AllIn(up'[x], Tells)
    BY <2>1, ControllerReceives
  <2>3. Receives(r, U, F, m)
    BY DEF T, U
  <2> QED
    BY <1>1, <2>2, <2>3
<1>5. /\ IsTable(T, Controls) /\ DOMAIN T = Known /\ T[q].parent = CONTROLLER_ID
  BY <1>1, <1>2, ControllerOrderly
<1>6. /\ DOMAIN U = Known
      /\ \A x \in Known \ {d} : U[x].parent = T[x].parent /\ U[x].fd = T[x].fd
      /\ U[d].parent = q /\ U[d].fd = T[q].fd
      /\ \A x \in Known \ {q} : U[x].type = T[x].type
      /\ U[q].type = IF IsEmpty(T[q].type) THEN WithChildType(T[q].type, Kind[d])
                     ELSE T[q].type
  BY <1>1, <1>2, <1>5, MovesBelowHub
<1> HIDE DEF U
<1>7. Known' = Known /\ Hosts' = Hosts
  BY <1>4, <1>6 DEF Known, Hosts, Running, peaceVars
<1>8. ControllerInOrder'
  BY <1>1, <1>2, <1>4, <1>6, <1>7, MovedBelowInOrder
<1>9. /\ InOrderAlways' /\ NoLinkTyped' = NoLinkTyped
      /\ \A x \in Leaves \ {d} : Home(x) => Home(x)'
      /\ At(d, q, q, {p, q})'
      /\ UnderWayTo(d, p, q)'
  <2>1. DOMAIN routing_table' = Known /\ routing_table'[d].parent = q
    BY <1>4, <1>6
  <2>2. \A x \in Known \ {d} : routing_table'[x].parent = routing_table[x].parent
    BY <1>4, <1>6
  <2> HIDE DEF T
  <2>3. /\ InOrderAlways' /\ NoLinkTyped' = NoLinkTyped
        /\ \A x \in Leaves \ {d} : Home(x) => Home(x)'
        /\ \A own, known, hubs, g : At(d, own, known, hubs) /\ routing_table'[d].parent = g
                 => At(d, own, g, hubs)'
        /\ \A x, y : UnderWayTo(d, x, y) => UnderWayTo(d, x, y)'
    BY <1>2, <1>4, <1>8, <2>1, <2>2, ControllerMoves
  <2> QED
    BY <1>1, <2>1, <2>3
<1>10. Agreed({})'
  <2>1. hub[q].device_type = HubOr(Kind[d]) /\ Kind[d] \in {1, 2}
    <3>1. HubInOrder(q, hub[q])
      BY <1>1, HubOrderly
    <3> QED
      BY <1>3, <3>1, OwnTypesAre DEF HubInOrder, Entered
  <2>2. U[q].type = hub[q].device_type
    <3>1. \A k \in {1, 2} : /\ HubOr(k) = 8 + k /\ WithChildType(8, k) = 8 + k
                            /\ ~IsEmpty(8 + k) /\ IsEmpty(8)
      BY DEF HubOr, IsLeaf, HUB_DEVICE, WithChildType, IsEmpty, ChildType
    <3> QED
      BY <1>1, <1>6, <2>1, <3>1 DEF HUB_DEVICE
  <2>3. \A h \in Hubs \cap Known : U[h].type = hub[h].device_type
    <3>1. \A h \in (Hubs \cap Known) \ {q} : T[h].type = hub[h].device_type
      BY <1>1 DEF Agreed
    <3> QED
      BY <1>6, <2>2, <3>1
  <2> QED
    BY <1>4, <1>7, <2>3 DEF Agreed
<1> QED
  BY <1>1, <1>4, <1>9, <1>10 DEF UnderWayTo, peaceVars

\* MovedAway: the leaf was next to the controller, and the link has ended.
LEMMA MovedAwayTwoLevels ==
    ASSUME TypeOK, TwoLevels, NEW r \in First(up[CONTROLLER_ID]), MovedAway(r),
           UNCHANGED <<hub, leaf, histories>>
    PROVE  TwoLevels'
<1> DEFINE T == routing_table
           F == files[CONTROLLER_ID]
<1>1. /\ Moved(r) /\ T[r.src].parent = CONTROLLER_ID
      /\ UNCHANGED <<exiting, blocked, force_exit, fifos>>
      /\ IF IsOpen(F, T[r.src].fd)
         THEN Receives(r, UpdateTypeToNotEmpty(InsertIndirect(T, r.src, T[r.src].type, r.args[1]),
                                               r.src), Close(F, T[r.src].fd), down)
         ELSE ChangesNothing(r)
  BY Zenon DEF MovedAway
<1>2. PICK d \in Leaves, p \in Controls, q \in Controls :
         \/ TellsNew(d, p, q) /\ q = CONTROLLER_ID /\ r = Joining(d, q)
         \/ Joined(d, p, q) /\ r = Joining(d, q)
         \/ Left(d, p, q) /\ r = Forgotten(p, d)
  <2>1. r \notin Tells
    BY <1>1 DEF Moved, IsLinkUpdate, Tells, Links
  <2> QED
    BY <2>1, ResponseRead, Ids
<1>3. Joined(d, p, q) /\ r = Joining(d, q) /\ r.src = d /\ r.args[1] = q
  <2>1. r.cmd # "remove_child"
    BY <1>1 DEF Moved, IsLinkUpdate
  <2>2. TellsNew(d, p, q) /\ q = CONTROLLER_ID /\ r = Joining(d, q) => FALSE
    <3> SUFFICES ASSUME TellsNew(d, p, q), q = CONTROLLER_ID, r = Joining(d, q) PROVE FALSE
      OBVIOUS
    <3>1. T[d].parent = p /\ p # q
      BY DEF TellsNew, HasMoved, UnderWayTo, At
    <3> QED
      BY <1>1, <3>1 DEF Joining, Response
  <2>3. \A x, y : Joining(x, y).src = x /\ Joining(x, y).args[1] = y
    BY DEF Joining, Response
  <2>4. Forgotten(p, d).cmd = "remove_child"
    BY DEF Forgotten, Response
  <2> QED
    BY <1>2, <2>1, <2>2, <2>3, <2>4
<1>4. /\ UnderWayTo(d, p, q) /\ At(d, q, p, {p, q}) /\ Silent({}, {}, {}, {CONTROLLER_ID})
      /\ d \in Known
  BY <1>3 DEF Joined, UnderWayTo
<1>5. T[d].parent = CONTROLLER_ID /\ p = CONTROLLER_ID
  BY <1>1, <1>3, <1>4 DEF At
<1>6. IsOpen(F, T[d].fd)
  <2>1. F[T[d].fd] = Down(d)
    BY <1>4, <1>5, ControllerOrderly DEF PipesOf, ChildrenOpen, Direct
  <2> QED
    BY <2>1, EndsDiffer DEF IsOpen
<1>7. /\ InOrderAlways' /\ UnderWayTo(d, p, q)' /\ At(d, q, q, {p, q})' /\ Agreed({})'
      /\ NoLinkTyped' /\ \A x \in Leaves \ {d} : Home(x)'
      /\ down' = down /\ UNCHANGED <<hub, leaf, exit_code>>
      /\ \A x \in Controls : AllIn(up'[x], Tells)
  <2>1. Receives(r, UpdateTypeToNotEmpty(InsertIndirect(T, d, T[d].type, q), d),
                 Close(F, T[d].fd), down)
    BY <1>1, <1>3, <1>6
  <2> DEFINE U == UpdateTypeToNotEmpty(InsertIndirect(T, d, T[d].type, q), d)
  <2>2. \A E, m :
           /\ E = IF T[d].parent = CONTROLLER_ID THEN Close(F, T[d].fd) ELSE F
           /\ Receives(r, U, E, m)
           => /\ InOrderAlways' /\ UnderWayTo(d, p, q)' /\ At(d, q, q, {p, q})' /\ Agreed({})'
              /\ NoLinkTyped' /\ \A x \in Leaves \ {d} : Home(x)'
              /\ down' = m /\ UNCHANGED <<hub, leaf, exit_code>>
              /\ \A x \in Controls : AllIn(up'[x], Tells)
    BY <1>1, <1>3, ControllerEnters
  <2> HIDE DEF T, F, U
  <2>3. Receives(r, U, Close(F, T[d].fd), down)
    BY <2>1 DEF U
  <2> QED
    BY <1>5, <2>2, <2>3
<1>8. Home(d)'
  BY <1>5, <1>7, Ids DEF Home, At
<1>9. Silent({}, {}, {}, {})'
  BY <1>4, <1>7 DEF Silent
<1> QED
  BY <1>7, <1>8, <1>9 DEF TwoLevels, Still

\* The old parent, a hub, is told to remove the leaf.
LEMMA ToldIs ==
    ASSUME TypeOK, TwoLevels, NEW p \in Hubs, p \in Hosts, NEW d \in Leaves, NEW E,
           E[routing_table[p].fd] = Down(p)
    PROVE  LET m == ToldToRemove(E, p, d)
           IN  /\ \A x \in Devices \ {p} : m[x] = down[x]
               /\ AllIn(down[p], Asks) => AllBut(m[p], Asks, Forget(p, d))
<1> DEFINE k == [dst |-> p, cmd |-> "remove_child", arg |-> d]
<1>1. k \in Requests /\ k = Forget(p, d)
  BY Ids, RequestIs DEF Commands, Links, Registries, Forget
<1> HIDE DEF k
<1>2. p \in Devices /\ Alive(p) /\ Down(p).dir = "down" /\ Down(p).id = p
  BY Ids, HostsRun, EndsDiffer
<1>3. ToldToRemove(E, p, d) = SendDown(down, Down(p), k)
  BY DEF ToldToRemove, k
<1>4. SendDown(down, Down(p), k) = [down EXCEPT ![p] = Append(@, k)]
  BY <1>2 DEF SendDown
<1>5. down \in [Devices -> Seq(Requests)]
  BY DEF TypeOK, PipesTypeOK
<1>6. AllIn(down[p], Asks) => AllBut(Append(down[p], k), Asks, k)
  <2>1. down[p] \in Seq(Requests)
    BY <1>2, <1>5
  <2> QED
    BY <1>1, <2>1, AppendedToQueue
<1> QED
  BY <1>1, <1>2, <1>3, <1>4, <1>5, <1>6

\* Then the link is at that request.
LEMMA ToldOldFrom ==
    ASSUME TypeOK, TwoLevels, NEW d \in Leaves, NEW p \in Hubs, NEW q \in Controls, p \in Hosts,
           InOrderAlways', UnderWayTo(d, p, q)', At(d, q, q, {p, q})', Agreed({})', NoLinkTyped',
           NEW E, E[routing_table[p].fd] = Down(p), down' = ToldToRemove(E, p, d),
           UNCHANGED <<hub, leaf>>, \A x \in Controls : AllIn(up'[x], Tells),
           Silent({}, {}, {}, {CONTROLLER_ID})
    PROVE  TwoLevels'
<1>1. p \in Controls /\ p \in Devices
  BY Ids
<1>2. /\ \A x \in Devices \ {p} : down'[x] = down[x]
      /\ AllIn(down[p], Asks) => AllBut(down'[p], Asks, Forget(p, d))
  BY ToldIs
<1>3. \A x \in Devices : AllIn(down[x], Asks)
  BY DEF Silent
<1>4. Silent({p}, {}, {}, {})'
  BY <1>2, <1>3 DEF Silent
<1>5. AllBut(down[p], Asks, Forget(p, d))'
  BY <1>1, <1>2, <1>3 DEF Forget
<1>6. ToldOld(d, p, q)'
  BY <1>4, <1>5 DEF ToldOld, Told
<1> QED
  BY <1>1, <1>6 DEF TwoLevels

\* MovedBetweenDevices: the leaf was below another hub, which is told to remove it.
LEMMA MovedBetweenTwoLevels ==
    ASSUME TypeOK, TwoLevels, NEW r \in First(up[CONTROLLER_ID]), MovedBetweenDevices(r),
           UNCHANGED <<hub, leaf, histories>>
    PROVE  TwoLevels'
<1> DEFINE T == routing_table
           F == files[CONTROLLER_ID]
<1>1. /\ Moved(r) /\ T[r.src].parent # CONTROLLER_ID /\ r.args[1] # CONTROLLER_ID
      /\ UNCHANGED <<exiting, blocked, force_exit, fifos>>
      /\ IF T[r.src].parent \in DOMAIN T
         THEN Receives(r, UpdateTypeToNotEmpty(InsertIndirect(T, r.src, T[r.src].type, r.args[1]),
                                               r.src),
                       F, ToldToRemove(F, T[r.src].parent, r.src))
         ELSE ChangesNothing(r)
  BY Zenon DEF MovedBetweenDevices
<1>2. PICK d \in Leaves, p \in Controls, q \in Controls :
         \/ TellsNew(d, p, q) /\ q = CONTROLLER_ID /\ r = Joining(d, q)
         \/ Joined(d, p, q) /\ r = Joining(d, q)
         \/ Left(d, p, q) /\ r = Forgotten(p, d)
  <2>1. r \notin Tells
    BY <1>1 DEF Moved, IsLinkUpdate, Tells, Links
  <2> QED
    BY <2>1, ResponseRead, Ids
<1>3. Joined(d, p, q) /\ r = Joining(d, q) /\ r.src = d /\ r.args[1] = q
  <2>1. r.cmd # "remove_child"
    BY <1>1 DEF Moved, IsLinkUpdate
  <2>2. \A x, y : Joining(x, y).src = x /\ Joining(x, y).args[1] = y
    BY DEF Joining, Response
  <2>3. Forgotten(p, d).cmd = "remove_child"
    BY DEF Forgotten, Response
  <2> QED
    BY <1>1, <1>2, <2>1, <2>2, <2>3
<1>4. /\ UnderWayTo(d, p, q) /\ At(d, q, p, {p, q}) /\ Silent({}, {}, {}, {CONTROLLER_ID})
      /\ d \in Known
  BY <1>3 DEF Joined, UnderWayTo
<1>5. /\ T[d].parent = p /\ p # CONTROLLER_ID /\ p \in Hubs /\ p \in Known /\ p \in Hosts
      /\ T[p].parent = CONTROLLER_ID
  <2>1. T[d].parent = p
    BY <1>4 DEF At
  <2>2. p # CONTROLLER_ID
    BY <1>1, <1>3, <2>1
  <2> QED
    BY <1>4, <2>1, <2>2, ControllerOrderly DEF UnderWayTo, Hosts
<1>6. F[T[p].fd] = Down(p)
  BY <1>5, ControllerOrderly DEF PipesOf, ChildrenOpen, Direct
<1>7. /\ InOrderAlways' /\ UnderWayTo(d, p, q)' /\ At(d, q, q, {p, q})' /\ Agreed({})'
      /\ NoLinkTyped' /\ down' = ToldToRemove(F, p, d) /\ UNCHANGED <<hub, leaf>>
      /\ \A x \in Controls : AllIn(up'[x], Tells)
  <2> DEFINE U == UpdateTypeToNotEmpty(InsertIndirect(T, d, T[d].type, q), d)
  <2>1. Receives(r, U, F, ToldToRemove(F, p, d))
    BY <1>1, <1>3, <1>5 DEF Known
  <2>2. \A E, m :
           /\ E = IF T[d].parent = CONTROLLER_ID THEN Close(F, T[d].fd) ELSE F
           /\ Receives(r, U, E, m)
           => /\ InOrderAlways' /\ UnderWayTo(d, p, q)' /\ At(d, q, q, {p, q})' /\ Agreed({})'
              /\ NoLinkTyped' /\ \A x \in Leaves \ {d} : Home(x)'
              /\ down' = m /\ UNCHANGED <<hub, leaf, exit_code>>
              /\ \A x \in Controls : AllIn(up'[x], Tells)
    BY <1>1, <1>3, ControllerEnters
  <2> HIDE DEF T, F, U
  <2> QED
    BY <1>5, <2>1, <2>2
<1> QED
  BY <1>4, <1>5, <1>6, <1>7, ToldOldFrom

\* The table of the controller once a leaf that was below a hub is next to it.
LEMMA MovedToTopInOrder ==
    ASSUME TypeOK, TwoLevels, NEW d \in Leaves, d \in Known, FreeFds(files[CONTROLLER_ID]) # {},
           routing_table[d].parent # CONTROLLER_ID, Known' = Known, Hosts' = Hosts,
           \A x \in Known \ {d} : routing_table'[x] = routing_table[x],
           routing_table'[d].parent = CONTROLLER_ID,
           routing_table'[d].fd = LowestFree(files[CONTROLLER_ID]),
           files' = [files EXCEPT ![CONTROLLER_ID] =
                        OpenAt(@, LowestFree(@), Down(d))]
    PROVE  ControllerInOrder'
<1> DEFINE T == routing_table
           U == routing_table'
           E == files[CONTROLLER_ID]
           fd == LowestFree(E)
           F == OpenAt(E, fd, Down(d))
<1>1. /\ IsTable(T, Controls) /\ DOMAIN T = Known /\ E \in [Fds -> Ends]
      /\ PipesOf(T, CONTROLLER_ID, E) /\ CONTROLLER_ID \in Controls
      /\ files'[CONTROLLER_ID] = F /\ DOMAIN U = Known
  BY ControllerOrderly DEF TypeOK, PipesTypeOK, Known
<1>2. /\ \A x \in Known : T[x].fd \in Fds
      /\ \A x \in Known : T[x].parent = CONTROLLER_ID => E[T[x].fd] = Down(x)
      /\ \A f \in Fds : E[f].dir = "down" => \E x \in Direct(T, CONTROLLER_ID) : T[x].fd = f
  BY <1>1, TableIs DEF PipesOf, ChildrenOpen, Direct
<1>3. fd \in Fds /\ E[fd] = Closed
  BY LowestFreeIs
<1> HIDE DEF fd
<1>4. \A f \in Fds : F[f] = IF f = fd THEN Down(d) ELSE E[f]
  BY <1>1 DEF OpenAt
<1>5. \A x \in Known : T[x].parent # CONTROLLER_ID =>
          /\ x \in Leaves /\ T[x].parent \in Hosts /\ T[x].parent \in Hubs \cap Known
          /\ T[x].fd = T[T[x].parent].fd
  BY ControllerOrderly
<1>6. /\ \A x \in Known \ {d} : U[x] = T[x]
      /\ U[d].parent = CONTROLLER_ID /\ U[d].fd = fd
  BY DEF fd
<1> HIDE DEF T, U, E, F
<1>7. ChildrenOpen(U, CONTROLLER_ID, F)
  <2> SUFFICES ASSUME NEW x \in Direct(U, CONTROLLER_ID) PROVE F[U[x].fd] = Down(x)
    BY DEF ChildrenOpen
  <2>1. CASE x = d
    BY <1>3, <1>4, <1>6, <2>1
  <2>2. CASE x # d
    <3>1. x \in Known /\ T[x].parent = CONTROLLER_ID /\ U[x].fd = T[x].fd
      BY <1>1, <1>6, <2>2 DEF Direct
    <3>2. E[T[x].fd] = Down(x) /\ T[x].fd # fd
      BY <1>2, <1>3, <3>1, EndsDiffer
    <3> QED
      BY <1>2, <1>4, <3>1, <3>2
  <2> QED
    BY <2>1, <2>2
<1>8. \A f \in Fds : F[f].dir = "down" => \E x \in Direct(U, CONTROLLER_ID) : U[x].fd = f
  <2> SUFFICES ASSUME NEW f \in Fds, F[f].dir = "down"
               PROVE  \E x \in Direct(U, CONTROLLER_ID) : U[x].fd = f
    OBVIOUS
  <2>1. CASE f = fd
    <3>1. d \in Direct(U, CONTROLLER_ID) /\ U[d].fd = f
      BY <1>1, <1>6, <2>1 DEF Direct
    <3> QED
      BY <3>1
  <2>2. CASE f # fd
    <3>1. PICK x \in Direct(T, CONTROLLER_ID) : T[x].fd = f
      BY <1>2, <1>4, <2>2
    <3>2. x \in Known /\ x # d /\ T[x].parent = CONTROLLER_ID
      BY <1>1, <3>1 DEF Direct, T
    <3>3. x \in Direct(U, CONTROLLER_ID) /\ U[x].fd = f
      BY <1>1, <1>6, <3>1, <3>2 DEF Direct
    <3> QED
      BY <3>3
  <2> QED
    BY <2>1, <2>2
<1>9. ASSUME NEW x \in Known, U[x].parent # CONTROLLER_ID
      PROVE  /\ x \in Leaves /\ U[x].parent \in Hosts
             /\ U[x].fd = U[U[x].parent].fd
  <2>1. x # d
    BY <1>6, <1>9
  <2>2. T[x].parent # CONTROLLER_ID /\ T[x].parent # d
    BY <1>5, <1>6, <1>9, <2>1, Ids
  <2> QED
    BY <1>5, <1>6, <2>1, <2>2
<1>10. \A x \in Known' :
         LET p == routing_table'[x].parent
         IN  p # CONTROLLER_ID =>
                /\ x \in Leaves /\ p \in Hosts'
                /\ routing_table'[x].fd = routing_table'[p].fd
  BY <1>9 DEF U
<1>11. PipesOf(routing_table, CONTROLLER_ID, files[CONTROLLER_ID])'
  BY <1>1, <1>7, <1>8 DEF PipesOf, ChildrenOpen, U
<1> QED
  BY <1>10, <1>11 DEF ControllerInOrder

\* MovedToController: the leaf was below a hub, which is told to remove it.
LEMMA MovedToControllerTwoLevels ==
    ASSUME TypeOK, TwoLevels, NEW r \in First(up[CONTROLLER_ID]), MovedToController(r),
           UNCHANGED <<hub, leaf, histories>>
    PROVE  TwoLevels'
<1> DEFINE T == routing_table
           F == files[CONTROLLER_ID]
           fd == LowestFree(F)
<1>1. /\ Moved(r) /\ T[r.src].parent # CONTROLLER_ID /\ r.args[1] = CONTROLLER_ID
      /\ UNCHANGED <<exiting, force_exit, fifos>>
  BY DEF MovedToController
<1>2. PICK d \in Leaves, p \in Controls, q \in Controls :
         \/ TellsNew(d, p, q) /\ q = CONTROLLER_ID /\ r = Joining(d, q)
         \/ Joined(d, p, q) /\ r = Joining(d, q)
         \/ Left(d, p, q) /\ r = Forgotten(p, d)
  <2>1. r \notin Tells
    BY <1>1 DEF Moved, IsLinkUpdate, Tells, Links
  <2> QED
    BY <2>1, ResponseRead, Ids
<1>3. TellsNew(d, p, q) /\ q = CONTROLLER_ID /\ r = Joining(d, q) /\ r.src = d
  <2>1. r.cmd # "remove_child"
    BY <1>1 DEF Moved, IsLinkUpdate
  <2>2. \A x, y : Joining(x, y).src = x /\ Joining(x, y).args[1] = y
    BY DEF Joining, Response
  <2>3. Forgotten(p, d).cmd = "remove_child"
    BY DEF Forgotten, Response
  <2>4. Joined(d, p, q) => q # CONTROLLER_ID
    BY Ids DEF Joined
  <2> QED
    BY <1>1, <1>2, <2>1, <2>2, <2>3, <2>4
<1>4. /\ UnderWayTo(d, p, q) /\ At(d, q, p, {p}) /\ Silent({}, {}, {}, {CONTROLLER_ID})
      /\ Agreed({}) /\ MayTakeIn(d, q) /\ NoLinkTyped /\ d \in Known /\ p \in Hosts
  BY <1>3 DEF TellsNew, HasMoved, UnderWayTo
<1>5. /\ T[d].parent = p /\ p # CONTROLLER_ID /\ p \in Hubs /\ p \in Known
      /\ T[p].parent = CONTROLLER_ID /\ p # d
  <2>1. T[d].parent = p /\ p # CONTROLLER_ID
    BY <1>3, <1>4 DEF At, UnderWayTo
  <2> QED
    BY <1>4, <2>1, ControllerOrderly, Ids DEF Hosts
<1>6. FreeFds(F) # {}
  BY <1>3, <1>4 DEF MayTakeIn
<1>7. d \in fifos /\ Alive(d) /\ OpenReturns(d) /\ ~OpenBlocks(d) /\ DownOpens(F, d)
  <2>1. d \in fifos /\ d \in Devices
    BY <1>4, Ids DEF TwoLevels, InOrderAlways, Peaceful
  <2>2. Alive(d)
    BY <2>1 DEF TwoLevels, InOrderAlways, Peaceful, Absent, Alive
  <2> QED
    BY <1>6, <2>1, <2>2 DEF OpenReturns, OpenBlocks, DownOpens
<1> DEFINE opened == OpenAt(F, fd, Down(d))
           U == UpdateTypeToNotEmpty(InsertDirect(T, d, T[d].type, CONTROLLER_ID, fd), d)
<1>8. Receives(r, U, opened, ToldToRemove(opened, p, d)) /\ UNCHANGED blocked
  <2>1. /\ T[r.src] = T[d] /\ Down(r.src) = Down(d)
        /\ p \in DOMAIN T /\ OpenReturns(r.src) /\ ~OpenBlocks(r.src) /\ DownOpens(F, r.src)
    BY <1>3, <1>5, <1>7 DEF Known
  <2> QED
    BY <1>3, <1>5, <2>1, Zenon DEF MovedToController
<1>9. /\ routing_table' = U /\ files' = [files EXCEPT ![CONTROLLER_ID] = opened]
      /\ down' = ToldToRemove(opened, p, d)
      /\ UNCHANGED <<peaceVars, user_command, hub, leaf>>
      /\ \A x \in Controls : AllIn(up'[x], Tells)
  <2>1. r \notin Tells
    BY <1>3, LinkMessages
  <2>2. \A V, E, m : Receives(r, V, E, m) =>
           /\ routing_table' = V /\ files' = [files EXCEPT ![CONTROLLER_ID] = E] /\ down' = m
           /\ UNCHANGED <<peaceVars, user_command, hub, leaf>>
           /\ \A D, H, L, X : Silent(D, H, L, X) =>
                 \A x \in Controls \ (X \ {CONTROLLER_ID}) : AllIn(up'[x], Tells)
    BY <1>1, <1>8, <2>1, ControllerReceives
  <2> HIDE DEF U, opened
  <2> QED
    BY <1>4, <1>8, <2>2
<1>10. /\ IsTable(T, Controls) /\ DOMAIN T = Known /\ F \in [Fds -> Ends]
       /\ F[T[p].fd] = Down(p) /\ T[p].fd \in Fds
  BY <1>5, ControllerOrderly, TableIs DEF PipesOf, ChildrenOpen, Direct
<1>11. fd \in Fds /\ F[fd] = Closed
  BY <1>6, LowestFreeIs
<1> HIDE DEF fd
<1>12. /\ DOMAIN U = Known
       /\ \A x \in Known \ {d} : U[x] = T[x]
       /\ U[d].parent = CONTROLLER_ID /\ U[d].fd = fd
  <2>1. /\ DOMAIN U = DOMAIN T /\ \A x \in DOMAIN T \ {d} : U[x] = T[x]
        /\ U[d] = [type |-> T[d].type, parent |-> CONTROLLER_ID, fd |-> fd]
    <3>1. d \in DOMAIN T
      BY <1>4, <1>10
    <3> HIDE DEF T
    <3> QED
      BY <1>10, <1>11, <3>1, MovesToTop
  <2> HIDE DEF U
  <2> QED
    BY <1>10, <2>1
<1>13. opened[T[p].fd] = Down(p)
  BY <1>10, <1>11, EndsDiffer DEF OpenAt
<1> HIDE DEF U
<1>14. Known' = Known /\ Hosts' = Hosts
  BY <1>9, <1>12 DEF Known, Hosts, Running, peaceVars
<1>15. ControllerInOrder'
  <2>1. /\ \A x \in Known \ {d} : routing_table'[x] = routing_table[x]
        /\ routing_table'[d].parent = CONTROLLER_ID
        /\ routing_table'[d].fd = LowestFree(files[CONTROLLER_ID])
        /\ files' = [files EXCEPT ![CONTROLLER_ID] = OpenAt(@, LowestFree(@), Down(d))]
    BY <1>9, <1>12 DEF fd
  <2> QED
    BY <1>4, <1>5, <1>6, <1>14, <2>1, MovedToTopInOrder
<1>16. /\ InOrderAlways' /\ NoLinkTyped' = NoLinkTyped
       /\ At(d, q, q, {p})' /\ UnderWayTo(d, p, q)'
  <2>1. DOMAIN routing_table' = Known /\ routing_table'[d].parent = q
    BY <1>3, <1>9, <1>12
  <2>2. \A x \in Known \ {d} : routing_table'[x].parent = routing_table[x].parent
    BY <1>9, <1>12
  <2> HIDE DEF T, F, opened
  <2>3. /\ InOrderAlways' /\ NoLinkTyped' = NoLinkTyped
        /\ \A own, known, hubs, g : At(d, own, known, hubs) /\ routing_table'[d].parent = g
                 => At(d, own, g, hubs)'
        /\ \A x, y : UnderWayTo(d, x, y) => UnderWayTo(d, x, y)'
    BY <1>4, <1>9, <1>15, <2>1, <2>2, ControllerMoves
  <2> QED
    BY <1>4, <2>1, <2>3
<1>17. At(d, q, q, {p, q})'
  <2>1. q \notin Hubs
    BY <1>3, Ids
  <2> QED
    BY <1>16, <2>1 DEF At
<1>18. Agreed({})'
  <2>1. \A h \in Hubs \cap Known : h # d
    BY Ids
  <2> QED
    BY <1>4, <1>9, <1>12, <1>14, <2>1 DEF Agreed
<1> HIDE DEF opened
<1> QED
  BY <1>4, <1>5, <1>9, <1>13, <1>16, <1>17, <1>18, ToldOldFrom

\* ChildRemoved: the hub the leaf has left says what type that leaves it.
LEMMA ChildRemovedTwoLevels ==
    ASSUME TypeOK, TwoLevels, NEW r \in First(up[CONTROLLER_ID]), ChildRemoved(r),
           UNCHANGED <<hub, leaf, histories>>
    PROVE  TwoLevels'
<1> DEFINE T == routing_table
           F == files[CONTROLLER_ID]
<1>1. /\ r.cmd = "remove_child" /\ r.code = "OK"
      /\ UNCHANGED <<exiting, blocked, force_exit, fifos>>
      /\ r.src \in DOMAIN T =>
            Receives(r, UpdateTypeToEmpty([T EXCEPT ![r.src].type = r.args[2]], T[r.src].parent),
                     F, down)
  BY Zenon DEF ChildRemoved, IsLinkUpdate
<1>2. r \notin Tells
  BY <1>1 DEF Tells, Links
<1>3. PICK d \in Leaves, p \in Controls, q \in Controls : Left(d, p, q) /\ r = Forgotten(p, d)
  <2>1. \A x, y : Joining(x, y).cmd = "change_parent"
    BY DEF Joining, Response
  <2> QED
    BY <1>1, <1>2, <2>1, ResponseRead, Ids
<1>4. r.src = p /\ r.args[2] = hub[p].device_type
  BY <1>3 DEF Forgotten, Response
<1>5. /\ UnderWayTo(d, p, q) /\ At(d, q, q, {q}) /\ Agreed({p}) /\ NoLinkTyped /\ p \in Hubs
      /\ Silent({}, {}, {}, {CONTROLLER_ID}) /\ d \in Known /\ p \in Known
  BY <1>3, Ids DEF Left, Over, UnderWayTo, Hosts
<1>6. T[d].parent = q
  BY <1>5 DEF At
<1>7. /\ IsTable(T, Controls) /\ DOMAIN T = Known /\ F \in [Fds -> Ends]
      /\ T[p].parent = CONTROLLER_ID /\ PipesOf(T, CONTROLLER_ID, F) /\ PipesTypeOK
      /\ CONTROLLER_ID \in Controls
  BY <1>5, ControllerOrderly
<1> DEFINE U == [T EXCEPT ![p].type = hub[p].device_type]
<1>8. r \in Responses /\ hub[p].device_type \in OwnTypes(p)
  <2>1. r \in Responses
    BY <1>7, ResponseRead
  <2> QED
    BY <1>1, <1>4, <2>1, LinkIs DEF IsLinkUpdate, Links
<1>9. IsTable(U, Controls)
  BY <1>5, <1>7, <1>8, EntryChanged
<1>10. Receives(r, U, F, down)
  <2>1. UpdateTypeToEmpty(U, CONTROLLER_ID) = U
    <3> HIDE DEF U
    <3> QED
      BY <1>9, ControllerNeverEmpty
  <2> QED
    BY <1>1, <1>4, <1>5, <1>7, <2>1
<1>11. /\ DOMAIN U = Known
       /\ \A x \in Known : /\ U[x].parent = T[x].parent /\ U[x].fd = T[x].fd
                           /\ U[x].type = IF x = p THEN hub[p].device_type ELSE T[x].type
  <2> DEFINE t == hub[p].device_type
  <2> HIDE DEF t
  <2>1. \A x \in Known : T[x] \in [type : OwnTypes(x), parent : Controls, fd : Fds]
    BY <1>7, TableIs
  <2>2. DOMAIN U = Known /\ \A x \in Known : U[x] = IF x = p THEN [T[p] EXCEPT !.type = t] ELSE T[x]
    BY <1>5, <1>7 DEF t
  <2>3. LET e == [T[p] EXCEPT !.type = t]
        IN  e.parent = T[p].parent /\ e.fd = T[p].fd /\ e.type = t
    BY <1>5, <2>1
  <2> HIDE DEF U
  <2> QED
    BY <2>2, <2>3 DEF t
<1> HIDE DEF U
<1>12. /\ routing_table' = U /\ files' = [files EXCEPT ![CONTROLLER_ID] = F] /\ down' = down
       /\ UNCHANGED <<peaceVars, user_command, hub, leaf>>
       /\ \A x \in Controls : AllIn(up'[x], Tells)
  <2> HIDE DEF F
  <2>1. \A V, E, m : Receives(r, V, E, m) =>
           /\ routing_table' = V /\ files' = [files EXCEPT ![CONTROLLER_ID] = E] /\ down' = m
           /\ UNCHANGED <<peaceVars, user_command, hub, leaf>>
           /\ \A D, H, L, X : Silent(D, H, L, X) =>
                 \A x \in Controls \ (X \ {CONTROLLER_ID}) : AllIn(up'[x], Tells)
    BY <1>1, <1>2, ControllerReceives
  <2> QED
    BY <1>5, <1>10, <2>1
<1>13. /\ DOMAIN routing_table' = Known /\ Known' = Known /\ Hosts' = Hosts
       /\ files'[CONTROLLER_ID] = F
  BY <1>7, <1>11, <1>12 DEF Known, Hosts, Running, peaceVars, PipesTypeOK
<1>14. ControllerInOrder'
  <2>1. Direct(U, CONTROLLER_ID) = Direct(T, CONTROLLER_ID)
    BY <1>7, <1>11 DEF Direct
  <2>2. PipesOf(U, CONTROLLER_ID, F)
    BY <1>7, <1>11, <2>1 DEF PipesOf, ChildrenOpen, Direct
  <2>3. PipesOf(routing_table, CONTROLLER_ID, files[CONTROLLER_ID])'
    BY <1>12, <1>13, <2>2 DEF PipesOf, ChildrenOpen
  <2>4. \A x \in Known : T[x].parent # CONTROLLER_ID =>
          /\ x \in Leaves /\ T[x].parent \in Hosts /\ T[x].parent \in Known
          /\ T[x].fd = T[T[x].parent].fd
    BY ControllerOrderly
  <2>5. \A x \in Known : U[x].parent # CONTROLLER_ID =>
          /\ x \in Leaves /\ U[x].parent \in Hosts
          /\ U[x].fd = U[U[x].parent].fd
    BY <1>11, <2>4
  <2> QED
    BY <1>12, <1>13, <2>3, <2>5 DEF ControllerInOrder
<1>15. /\ InOrderAlways' /\ NoLinkTyped' = NoLinkTyped
       /\ \A x \in Leaves \ {d} : Home(x) => Home(x)'
       /\ At(d, q, q, {q})'
  <2>1. routing_table'[d].parent = q
    BY <1>5, <1>6, <1>11, <1>12
  <2>2. \A x \in Known \ {d} : routing_table'[x].parent = routing_table[x].parent
    BY <1>11, <1>12
  <2> HIDE DEF T, F
  <2>3. /\ InOrderAlways' /\ NoLinkTyped' = NoLinkTyped
        /\ \A x \in Leaves \ {d} : Home(x) => Home(x)'
        /\ \A own, known, hubs, g : At(d, own, known, hubs) /\ routing_table'[d].parent = g
                 => At(d, own, g, hubs)'
    BY <1>5, <1>12, <1>13, <1>14, <2>2, ControllerMoves
  <2> QED
    BY <1>5, <2>1, <2>3
<1>16. \A x \in Leaves : Home(x)'
  <2>1. Home(d)'
    BY <1>15 DEF Home, At
  <2> QED
    BY <1>5, <1>15, <2>1 DEF UnderWayTo
<1>17. Agreed({})'
  BY <1>5, <1>11, <1>12, <1>13 DEF Agreed
<1>18. Silent({}, {}, {}, {})'
  BY <1>5, <1>12 DEF Silent
<1> QED
  BY <1>5, <1>15, <1>16, <1>17, <1>18 DEF TwoLevels, Still

\* Every step of the responses thread.
LEMMA ReceiveTwoLevels ==
    ASSUME TypeOK, TwoLevels, ReceiveResponse, UNCHANGED <<hub, leaf, histories>>
    PROVE  TwoLevels'
<1> PICK r \in First(up[CONTROLLER_ID]) :
        \/ ShowResponse(r) \/ ChildRemoved(r) \/ RouteRefreshed(r) \/ MovedAway(r)
        \/ MovedToController(r) \/ MovedBetweenDevices(r) \/ DeviceDeleted(r)
  BY DEF ReceiveResponse
<1>1. ASSUME r \notin Tells
      PROVE  \/ r.cmd = "remove_child"
             \/ /\ r.src \in DOMAIN routing_table /\ r.cmd = "change_parent"
                /\ routing_table[r.src].parent # r.args[1]
  <2>1. PICK d \in Leaves, p \in Controls, q \in Controls :
         \/ TellsNew(d, p, q) /\ r = Joining(d, q)
         \/ Joined(d, p, q) /\ r = Joining(d, q)
         \/ Left(d, p, q) /\ r = Forgotten(p, d)
    BY <1>1, ResponseRead, Ids
  <2>2. Forgotten(p, d).cmd = "remove_child"
    BY DEF Forgotten, Response
  <2>3. Joining(d, q).cmd = "change_parent" /\ Joining(d, q).src = d /\ Joining(d, q).args[1] = q
    BY DEF Joining, Response
  <2>4. TellsNew(d, p, q) \/ Joined(d, p, q) => UnderWayTo(d, p, q) /\ \E own, S : At(d, own, p, S)
    BY DEF TellsNew, HasMoved, Joined
  <2>5. TellsNew(d, p, q) \/ Joined(d, p, q) =>
           d \in DOMAIN routing_table /\ routing_table[d].parent # q
    BY <2>4 DEF UnderWayTo, At, Known
  <2> QED
    BY <2>1, <2>2, <2>3, <2>5
<1>2. ~RouteRefreshed(r)
  <2>1. RouteRefreshed(r) => r \notin Tells /\ r.cmd = "change_parent"
           /\ (r.src \in DOMAIN routing_table => routing_table[r.src].parent = r.args[1])
    BY Zenon DEF RouteRefreshed, IsLinkUpdate, Tells, Links
  <2> QED
    BY <1>1, <2>1
<1>3. ~DeviceDeleted(r)
  <2>1. DeviceDeleted(r) => r \notin Tells /\ r.cmd = "delete"
    BY Zenon DEF DeviceDeleted, Tells
  <2> QED
    BY <1>1, <2>1
<1> QED
  BY <1>2, <1>3, ControllerShows, ChildRemovedTwoLevels, MovedAwayTwoLevels,
     MovedToControllerTwoLevels, MovedBetweenTwoLevels

\* A command the user may give is that of an info or a switch, a link of a leaf,
\* or an add.
LEMMA OfferedAre ==
    ASSUME TwoLevelUser, NEW c \in Offered
    PROVE  /\ c.cmd # "remove_child" /\ c.cmd # "delete"
           /\ c \in Requests => c.cmd # "add" /\ (c \in Asks \/ c.cmd = "change_parent")
           /\ c \notin Requests => \E d \in Devices : c = AddCommand(d)
           /\ c.cmd = "add" => \E d \in Devices : c = AddCommand(d)
           /\ c.cmd = "change_parent" =>
                 /\ c \in Requests /\ c.dst \in Leaves /\ c.arg \in Controls
                 /\ c = LinkTo(c.dst, c.arg)
<1>1. c \in UserCommands /\ c.cmd \notin {"delete", "exit", "end_of_file"}
      /\ (c.cmd = "change_parent" => c.dst \in Leaves)
  BY UserAssumption DEF TwoLevelUser
<1>2. \/ c \in Requests /\ c.cmd # "remove_child"
      \/ \E d \in Devices : c = AddCommand(d)
  BY <1>1 DEF UserCommands, ExitCommand, EndOfInput
<1>3. \A d : AddCommand(d).cmd = "add"
  BY DEF AddCommand
<1>4. \A m \in Requests : m.cmd \in Commands /\ (m.cmd = "change_parent" => m.arg \in Controls)
                          /\ m = [dst |-> m.dst, cmd |-> m.cmd, arg |-> m.arg]
  BY DEF Requests
<1>5. "add" \notin Commands
  BY DEF Commands, Switches, PowerSwitches, DoorSwitches, Links, Registries
<1> QED
  BY <1>1, <1>2, <1>3, <1>4, <1>5 DEF Asks, Links, LinkTo

\* A typed link that the controller has yet to send is the one under way.
LEMMA TypedIfPending ==
    ASSUME TwoLevels, ~NoLinkTyped
    PROVE  \E d \in Leaves, p \in Controls, q \in Controls : Typed(d, p, q)
<1>1. ~Still
  BY DEF Still
<1>2. PICK d \in Leaves, p \in Controls, q \in Controls :
             \/ Typed(d, p, q) \/ Sent(d, p, q, p) \/ Sent(d, p, q, d) \/ Routed(d, p, q)
             \/ Telling(d, p, q) \/ TellsNew(d, p, q) \/ Joined(d, p, q)
             \/ ToldOld(d, p, q) \/ Removes(d, p, q)
             \/ Types(d, p, q) \/ Answering(d, p, q) \/ Left(d, p, q)
  BY <1>1, Zenon DEF TwoLevels
<1>3. ~Sent(d, p, q, p) /\ ~Sent(d, p, q, d)
  BY Zenon DEF Sent
<1>4. ~Routed(d, p, q)
  BY Zenon DEF Routed
<1>5. ~Telling(d, p, q) /\ ~TellsNew(d, p, q)
  BY Zenon DEF Telling, TellsNew, HasMoved
<1>6. ~Joined(d, p, q)
  BY Zenon DEF Joined
<1>7. ~ToldOld(d, p, q) /\ ~Removes(d, p, q)
  BY Zenon DEF ToldOld, Removes, Told
<1>8. ~Types(d, p, q) /\ ~Answering(d, p, q) /\ ~Left(d, p, q)
  BY Zenon DEF Types, Answering, Left, Over
<1> QED
  BY <1>2, <1>3, <1>4, <1>5, <1>6, <1>7, <1>8

\* The command the controller has checked is sent off.
LEMMA ExecuteTwoLevels ==
    ASSUME TypeOK, TwoLevels, TwoLevelUser, ExecuteUserCommand, UNCHANGED <<hub, leaf, histories>>
    PROVE  TwoLevels'
<1> DEFINE c == user_command
           T == routing_table
           end == files[CONTROLLER_ID][T[c.dst].fd]
           sent == c.dst \in DOMAIN T /\ end.dir = "down" /\ Alive(end.id)
<1>1. /\ c \in Requests
      /\ down' = IF sent THEN SendDown(down, end, c) ELSE down
      /\ user_command' = NoRequest
      /\ UNCHANGED <<routing_table, exiting, blocked, shutdownVars, up, files, exit_code, fifos>>
  BY Zenon DEF ExecuteUserCommand
<1>2. c \in Offered
  <2>1. "null" \notin Commands
    BY DEF Commands, Switches, PowerSwitches, DoorSwitches, Links, Registries
  <2>2. NoRequest \notin Requests
    BY <2>1 DEF NoRequest, Requests
  <2> QED
    BY <1>1, <2>2 DEF TwoLevels, InOrderAlways, Peaceful
<1>3. c.cmd # "add" /\ (c \in Asks \/ c.cmd = "change_parent")
      /\ (c.cmd = "change_parent" => c = LinkTo(c.dst, c.arg))
  BY <1>1, <1>2, OfferedAre
<1>4. /\ UNCHANGED <<peaceVars, files, routing_table, hub, leaf>>
      /\ \A x \in Controls : QueueAside(up[x], up'[x], Tells)
      /\ NoLinkTyped' /\ user_command'.cmd # "add" /\ user_command' \in Offered \cup {NoRequest}
  BY <1>1, AsideIsOrder DEF peaceVars, histories, NoLinkTyped, NoRequest
<1>5. down \in [Devices -> Seq(Requests)]
  BY DEF TypeOK, PipesTypeOK
<1>6. CASE c.cmd # "change_parent"
  <2>1. NoLinkTyped /\ c \in Asks
    BY <1>3, <1>6 DEF NoLinkTyped
  <2>2. \A x \in Devices : QueueAside(down[x], down'[x], Asks)
    <3> HIDE DEF c, end, sent
    <3>1. \A e : \A x \in Devices : QueueAside(down[x], SendDown(down, e, c)[x], Asks)
      BY <1>5, <2>1, SendDownAside
    <3> QED
      BY <1>1, <3>1, AsideIsOrder
  <2> QED
    BY <1>3, <1>4, <2>1, <2>2, ControllerStepsAside
<1>7. CASE c.cmd = "change_parent"
  <2>1. PICK d \in Leaves, p \in Controls, q \in Controls : Typed(d, p, q)
    <3>1. ~NoLinkTyped
      BY <1>7 DEF NoLinkTyped
    <3> QED
      BY <3>1, TypedIfPending
  <2>2. /\ Asked(d, p, q) /\ c = LinkTo(d, q) /\ Silent({}, {}, {}, {}) /\ c.dst = d
        /\ d \in Known /\ T[d].parent = p /\ p \in Hosts
    BY <2>1 DEF Typed, LinkTo, Asked, UnderWayTo, At
  <2> DEFINE x == IF p = CONTROLLER_ID THEN d ELSE p
  <2>3. x \in Devices /\ x \in {p, d} \ {CONTROLLER_ID} /\ Alive(x)
    <3>1. d \in Devices /\ d # CONTROLLER_ID /\ (p # CONTROLLER_ID => p \in Hubs /\ p \in Devices)
      BY <2>2, Ids DEF Hosts
    <3>2. Alive(d)
      BY <2>2, <3>1 DEF TwoLevels, InOrderAlways, Peaceful, Absent, Alive
    <3>3. Alive(p)
      BY <2>2, HostsRun
    <3> QED
      BY <3>1, <3>2, <3>3
  <2>4. end = Down(x)
    <3>1. CASE p = CONTROLLER_ID
      BY <2>2, <3>1, ControllerOrderly DEF PipesOf, ChildrenOpen, Direct
    <3>2. CASE p # CONTROLLER_ID
      <4>1. T[d].fd = T[p].fd /\ p \in Known /\ T[p].parent = CONTROLLER_ID
        BY <2>2, <3>2, ControllerOrderly
      <4> QED
        BY <2>2, <3>2, <4>1, ControllerOrderly DEF PipesOf, ChildrenOpen, Direct
    <3> QED
      BY <3>1, <3>2
  <2> HIDE DEF x
  <2>5. down' = [down EXCEPT ![x] = Append(@, c)]
    <3>1. Down(x).dir = "down" /\ Down(x).id = x
      BY EndsDiffer
    <3>2. sent
      BY <2>2, <2>3, <2>4, <3>1 DEF Known
    <3>3. SendDown(down, Down(x), c) = [down EXCEPT ![x] = Append(@, c)]
      BY <2>3, <3>1 DEF SendDown
    <3> HIDE DEF c, sent, end
    <3> QED
      BY <1>1, <2>4, <3>2, <3>3
  <2>6. /\ \A y \in Devices \ {x} : down'[y] = down[y]
        /\ AllBut(down'[x], Asks, c)
    <3>1. AllIn(down[x], Asks) /\ down[x] \in Seq(Requests)
      BY <1>5, <2>2, <2>3 DEF Silent
    <3>2. AllBut(Append(down[x], c), Asks, c)
      <4> HIDE DEF c
      <4> QED
        BY <1>1, <3>1, AppendedToQueue
    <3> HIDE DEF c
    <3> QED
      BY <1>5, <2>3, <2>5, <3>2
  <2>7. SameShape
    BY <1>3, <1>4, AsideIsOrder DEF SameShape
  <2>8. InOrderAlways' /\ Asked(d, p, q)'
    <3>1. InOrderAlways
      BY DEF TwoLevels
    <3> QED
      BY <1>4, <2>2, <2>7, <3>1, SameShapeKeeps DEF Asked
  <2>9. Silent({x}, {}, {}, {})'
    BY <1>1, <1>4, <2>2, <2>6 DEF Silent
  <2>10. Sent(d, p, q, x)'
    BY <1>4, <2>2, <2>3, <2>6, <2>8, <2>9 DEF Sent, LinkTo
  <2> QED
    BY <2>3, <2>8, <2>10 DEF TwoLevels
<1> QED
  BY <1>6, <1>7

-----------------------------------------------------------------------------
(* Devices that are added.                                                 *)

\* Only who is in the controller's table has a writer.
LEMMA OnlyKnownHeld ==
    ASSUME TypeOK, TwoLevels, TwoLevelUser, NEW d \in Devices, HasWriter(d)
    PROVE  d \in Known
<1>1. PICK p \in Controls, f \in Fds : files[p][f] = Down(d)
  BY DEF HasWriter
<1>2. files[p][f].dir = "down" /\ files[p][f].id = d
  BY <1>1 DEF Down
<1>3. ASSUME NEW x \in Leaves, NEW h \in Hubs, x \in Entered(h)
      PROVE  x \in Known
  <2>1. Home(x) => leaf[x].parent_id = h
    BY <1>3 DEF Home, At
  <2>2. LeafInOrder(x, leaf[x]) /\ h # CONTROLLER_ID
    BY Ids DEF TwoLevels, InOrderAlways
  <2>3. Home(x) => x \in Known
    BY <2>1, <2>2 DEF LeafInOrder
  <2>4. Still => Home(x)
    BY DEF Still
  <2>5. ASSUME NEW y \in Leaves, NEW a \in Controls, NEW b \in Controls, UnderWayTo(y, a, b)
        PROVE  x \in Known
    BY <2>3, <2>5 DEF UnderWayTo
  <2>6. \A y, a, b : Typed(y, a, b) \/ Sent(y, a, b, a) \/ Sent(y, a, b, y) \/ Routed(y, a, b)
           => UnderWayTo(y, a, b)
    BY DEF Typed, Sent, Routed, Asked
  <2>7. \A y, a, b : Telling(y, a, b) \/ TellsNew(y, a, b) \/ Joined(y, a, b)
           \/ ToldOld(y, a, b) \/ Removes(y, a, b) => UnderWayTo(y, a, b)
    BY DEF Telling, TellsNew, HasMoved, Joined, ToldOld, Removes, Told
  <2>8. \A y, a, b : Types(y, a, b) \/ Answering(y, a, b) \/ Left(y, a, b) => UnderWayTo(y, a, b)
    BY DEF Types, Answering, Left, Over
  <2> QED
    BY <2>3, <2>4, <2>5, <2>6, <2>7, <2>8 DEF TwoLevels
<1>4. CASE p = CONTROLLER_ID
  <2>1. PICK x \in Direct(routing_table, CONTROLLER_ID) : routing_table[x].fd = f
    BY <1>2, <1>4, ControllerOrderly DEF PipesOf
  <2>2. files[CONTROLLER_ID][f] = Down(x) /\ x \in Known
    BY <2>1, ControllerOrderly DEF PipesOf, ChildrenOpen, Direct
  <2> QED
    BY <1>1, <1>4, <2>2 DEF Down
<1>5. CASE p # CONTROLLER_ID
  <2>1. p \in Hubs
    BY <1>5, Ids DEF TwoLevelUser
  <2>2. PipesOf(hub[p].routing_table, p, files[p])
        /\ \A x \in Entered(p) : x \in Leaves
    BY <2>1, HubOrderly DEF HubInOrder, Entered
  <2>3. PICK x \in Direct(hub[p].routing_table, p) : hub[p].routing_table[x].fd = f
    BY <1>2, <2>2 DEF PipesOf
  <2>4. files[p][f] = Down(x) /\ x \in Entered(p)
    BY <2>2, <2>3 DEF PipesOf, ChildrenOpen, Direct, Entered
  <2>5. x = d
    BY <1>1, <2>4 DEF Down
  <2> QED
    BY <1>3, <2>1, <2>2, <2>4, <2>5
<1> QED
  BY <1>4, <1>5

\* A step that only lets a device that is known start.
LEMMA StartsTwoLevels ==
    ASSUME TypeOK, TwoLevels, TwoLevelUser, NEW d \in ToAdd, DeviceStarts(d),
           UNCHANGED <<hub, timerVars, leaf, histories>>
    PROVE  TwoLevels'
<1>1. /\ exit_code[d] = "starting" /\ HasWriter(d)
      /\ exit_code' = [exit_code EXCEPT ![d] = "none"]
      /\ UNCHANGED <<controllerVars, down, up, files, fifos, hub, leaf, hurried, interrupted>>
  BY DEF DeviceStarts, histories
<1>2. d \in Devices /\ d \in Known /\ d # CONTROLLER_ID
  BY <1>1, OnlyKnownHeld, AddAssumption, Ids
<1>3. /\ UNCHANGED <<routing_table, user_command, exiting, blocked, signalled>>
      /\ UNCHANGED <<pending_shutdown, force_exit, reaped>>
  BY <1>1 DEF controllerVars, shutdownVars
<1>4. \A x \in Devices \cup {CONTROLLER_ID} : exit_code'[x] = IF x = d THEN "none" ELSE exit_code[x]
  BY <1>1 DEF TypeOK, PipesTypeOK
<1>5. /\ Known' = Known /\ Absent' = Absent /\ Hosts \subseteq Hosts'
      /\ \A h \in Hubs : Entered(h)' = Entered(h)
  BY <1>1, <1>3, <1>4, Ids DEF Known, Absent, Hosts, Running, Entered
<1>6. Peaceful'
  <2>1. Peaceful
    BY DEF TwoLevels, InOrderAlways
  <2> QED
    BY <1>1, <1>2, <1>3, <1>4, <1>5, <2>1, Ids DEF Peaceful
<1>7. ControllerInOrder'
  BY <1>1, <1>3, <1>5 DEF TwoLevels, InOrderAlways, ControllerInOrder, PipesOf, ChildrenOpen
<1>8. ASSUME NEW h \in Hubs PROVE HubInOrder(h, hub[h])'
  BY <1>1 DEF TwoLevels, InOrderAlways, HubInOrder, PipesOf, ChildrenOpen
<1>9. ASSUME NEW x \in Leaves PROVE LeafInOrder(x, leaf[x])'
  BY <1>1, <1>5 DEF TwoLevels, InOrderAlways, LeafInOrder
<1>10. InOrderAlways'
  BY <1>6, <1>7, <1>8, <1>9 DEF InOrderAlways
<1>11. \A x \in Leaves : \A own, known, hubs : At(x, own, known, hubs) => At(x, own, known, hubs)'
  BY <1>1, <1>3, <1>5 DEF At
<1>12. \A x \in Leaves : Home(x) => Home(x)'
  BY <1>1, <1>3, <1>5 DEF Home, At
<1>13. \A X : Agreed(X) => Agreed(X)'
  BY <1>1, <1>3, <1>5 DEF Agreed
<1>14. \A x \in Leaves, q \in Controls : MayTakeIn(x, q) => MayTakeIn(x, q)'
  BY <1>1, <1>3, <1>5 DEF MayTakeIn, FreeFds
<1>15. \A x \in Leaves : \A p, q : UnderWayTo(x, p, q) => UnderWayTo(x, p, q)'
  BY <1>3, <1>5, <1>12 DEF UnderWayTo
<1>16. \A D, H, L, U : Silent(D, H, L, U) => Silent(D, H, L, U)'
  BY <1>1 DEF Silent
<1>17. NoLinkTyped' = NoLinkTyped
  BY <1>3 DEF NoLinkTyped
<1>18. Still => Still'
  BY <1>12, <1>13, <1>16, <1>17 DEF Still
<1>19. ASSUME NEW x \in Leaves, NEW p \in Controls, NEW q \in Controls
       PROVE  /\ Asked(x, p, q) => Asked(x, p, q)'
              /\ HasMoved(x, p, q) => HasMoved(x, p, q)'
              /\ Told(x, p, q) => Told(x, p, q)'
              /\ Over(x, p, q) => Over(x, p, q)'
              /\ p \in Hubs => Forgotten(p, x)' = Forgotten(p, x)
  BY <1>1, <1>11, <1>13, <1>14, <1>15, <1>17 DEF Asked, HasMoved, Told, Over, Forgotten
<1>20. ASSUME NEW x \in Leaves, NEW p \in Controls, NEW q \in Controls
       PROVE  /\ Typed(x, p, q) => Typed(x, p, q)'
              /\ Sent(x, p, q, p) => Sent(x, p, q, p)'
              /\ Sent(x, p, q, x) => Sent(x, p, q, x)'
              /\ Routed(x, p, q) => Routed(x, p, q)'
  BY <1>1, <1>3, <1>16, <1>17, <1>19 DEF Typed, Sent, Routed
<1>21. ASSUME NEW x \in Leaves, NEW p \in Controls, NEW q \in Controls
       PROVE  /\ Telling(x, p, q) => Telling(x, p, q)'
              /\ TellsNew(x, p, q) => TellsNew(x, p, q)'
              /\ Joined(x, p, q) => Joined(x, p, q)'
              /\ ToldOld(x, p, q) => ToldOld(x, p, q)'
  BY <1>1, <1>3, <1>11, <1>13, <1>15, <1>16, <1>17, <1>19
     DEF Telling, TellsNew, Joined, ToldOld
<1>22. ASSUME NEW x \in Leaves, NEW p \in Controls, NEW q \in Controls
       PROVE  /\ Removes(x, p, q) => Removes(x, p, q)'
              /\ Types(x, p, q) => Types(x, p, q)'
              /\ Answering(x, p, q) => Answering(x, p, q)'
              /\ Left(x, p, q) => Left(x, p, q)'
  <2>1. \A h \in Hubs : hub'[h] = hub[h]
    BY <1>1
  <2>2. up'[CONTROLLER_ID] = up[CONTROLLER_ID]
    BY <1>1
  <2>3. Removes(x, p, q) => Removes(x, p, q)'
    BY <1>16, <1>19, <2>1 DEF Removes, Told
  <2>4. Types(x, p, q) => Types(x, p, q)'
    BY <1>16, <1>19, <2>1 DEF Types, Over
  <2>5. Answering(x, p, q) => Answering(x, p, q)'
    BY <1>16, <1>19, <2>1 DEF Answering, Over
  <2>6. Left(x, p, q) => Left(x, p, q)'
    BY <1>16, <1>19, <2>2 DEF Left, Over
  <2> QED
    BY <2>3, <2>4, <2>5, <2>6
<1> QED
  BY <1>10, <1>18, <1>20, <1>21, <1>22 DEF TwoLevels

\* While a device is being added no link is under way.
LEMMA StillWhileAdding ==
    ASSUME TwoLevels, user_command.cmd = "add"
    PROVE  Still
<1>1. \A y, a, b : Typed(y, a, b) \/ Sent(y, a, b, a) \/ Sent(y, a, b, y) \/ Routed(y, a, b)
         => UnderWayTo(y, a, b)
  BY DEF Typed, Sent, Routed, Asked
<1>2. \A y, a, b : Telling(y, a, b) \/ TellsNew(y, a, b) \/ Joined(y, a, b)
         \/ ToldOld(y, a, b) \/ Removes(y, a, b) => UnderWayTo(y, a, b)
  BY DEF Telling, TellsNew, HasMoved, Joined, ToldOld, Removes, Told
<1>3. \A y, a, b : Types(y, a, b) \/ Answering(y, a, b) \/ Left(y, a, b) => UnderWayTo(y, a, b)
  BY DEF Types, Answering, Left, Over
<1>4. \A y, a, b : ~UnderWayTo(y, a, b)
  BY DEF UnderWayTo
<1> QED
  BY <1>1, <1>2, <1>3, <1>4 DEF TwoLevels

\* The controller forks the device that is added.
LEMMA AddForksTwoLevels ==
    ASSUME TypeOK, TwoLevels, TwoLevelUser, AddForks, UNCHANGED <<hub, leaf, histories>>
    PROVE  TwoLevels'
<1> DEFINE d == user_command.dst
<1>1. user_command = AddCommand(d) /\ d \in Devices /\ user_command.cmd = "add"
  BY AddsADevice, OnlyAddsAdd DEF TypeOK
<1>2. Still /\ InOrderAlways /\ Peaceful
  BY <1>1, StillWhileAdding DEF TwoLevels, InOrderAlways
<1>3. /\ d \in Absent /\ fifos' = fifos \cup {d}
      /\ UNCHANGED <<routing_table, exiting, blocked, shutdownVars, awaited, down, up, files>>
      /\ \E forked \in BOOLEAN :
            /\ IF forked THEN ~(d \in fifos) ELSE d \in fifos \/ "fork" \in Faults
            /\ exit_code' = IF forked THEN [exit_code EXCEPT ![d] = "starting"] ELSE exit_code
            /\ user_command' = IF forked THEN user_command ELSE NoRequest
  BY Zenon DEF AddForks
<1> HIDE DEF d
<1>4. d \notin fifos /\ fifos = Devices \ Absent
  BY <1>2, <1>3 DEF Peaceful
<1>5. exit_code' = [exit_code EXCEPT ![d] = "starting"] /\ user_command' = user_command
  BY <1>3, <1>4 DEF TwoLevelUser
<1>6. \A x \in Devices \cup {CONTROLLER_ID} : exit_code'[x] = IF x = d THEN "starting" ELSE exit_code[x]
  BY <1>1, <1>5 DEF TypeOK, PipesTypeOK
<1>7. /\ UNCHANGED <<exiting, blocked, hurried, interrupted, routing_table, hub, leaf>>
      /\ UNCHANGED <<down, up, files, signalled, pending_shutdown, force_exit, reaped>>
  BY <1>3 DEF shutdownVars, histories
<1>8. exit_code[d] = "absent" /\ d # CONTROLLER_ID
  BY <1>1, <1>3, Ids DEF Absent
<1>9. /\ Known' = Known /\ Absent' = Absent \ {d} /\ Hosts' = Hosts
      /\ \A h \in Hubs : Entered(h)' = Entered(h)
  <2>1. Absent' = Absent \ {d}
    BY <1>1, <1>3, <1>6 DEF Absent
  <2>2. Hosts' = Hosts
    BY <1>6, <1>7, <1>8, Ids DEF Hosts, Running, Known
  <2> QED
    BY <1>7, <2>1, <2>2 DEF Known, Entered
<1>10. Peaceful'
  <2>1. fifos' = Devices \ Absent' /\ Known' \subseteq fifos'
    BY <1>1, <1>2, <1>3, <1>4, <1>9 DEF Peaceful
  <2>2. \A x \in fifos' \ Known' : user_command' = AddCommand(x) /\ exit_code'[x] = "starting"
    <3>1. ASSUME NEW x \in fifos \ Known PROVE x = d
      BY <1>1, <1>2, <3>1 DEF Peaceful, AddCommand
    <3> QED
      BY <1>1, <1>3, <1>4, <1>5, <1>6, <1>9, <3>1
  <2>3. exit_code'[CONTROLLER_ID] = "none"
        /\ \A x \in Devices : exit_code'[x] \in {"absent", "starting", "none"}
    BY <1>2, <1>6, <1>8 DEF Peaceful
  <2> QED
    BY <1>2, <1>5, <1>7, <1>9, <2>1, <2>2, <2>3 DEF Peaceful
<1>11. ControllerInOrder'
  BY <1>2, <1>7, <1>9 DEF InOrderAlways, ControllerInOrder, PipesOf, ChildrenOpen
<1>12. ASSUME NEW h \in Hubs PROVE HubInOrder(h, hub[h])'
  BY <1>2, <1>7 DEF InOrderAlways, HubInOrder, PipesOf, ChildrenOpen
<1>13. ASSUME NEW x \in Leaves PROVE LeafInOrder(x, leaf[x])'
  BY <1>2, <1>7, <1>9 DEF InOrderAlways, LeafInOrder
<1>14. Still'
  <2>1. \A x \in Leaves : Home(x) => Home(x)'
    BY <1>7, <1>9 DEF Home, At
  <2>2. Agreed({}) => Agreed({})'
    BY <1>7, <1>9 DEF Agreed
  <2>3. Silent({}, {}, {}, {}) => Silent({}, {}, {}, {})'
    BY <1>7 DEF Silent
  <2> QED
    BY <1>2, <1>5, <2>1, <2>2, <2>3 DEF Still, NoLinkTyped
<1> QED
  BY <1>10, <1>11, <1>12, <1>13, <1>14 DEF TwoLevels, InOrderAlways

\* The controller enters it, a child of its own.
LEMMA AddInsertsTwoLevels ==
    ASSUME TypeOK, TwoLevels, TwoLevelUser, AddInserts, UNCHANGED <<hub, leaf, histories>>
    PROVE  TwoLevels'
<1> DEFINE d == user_command.dst
           T == routing_table
           F == files[CONTROLLER_ID]
           fd == LowestFree(F)
           U == InsertDirect(T, d, TypeOf(d), CONTROLLER_ID, fd)
           G == OpenAt(F, fd, Down(d))
<1>1. /\ user_command.cmd = "add" /\ d \notin Absent /\ FreeFds(F) # {}
      /\ routing_table' = U /\ files' = [files EXCEPT ![CONTROLLER_ID] = G]
      /\ user_command' = NoRequest
      /\ UNCHANGED <<exiting, blocked, shutdownVars, awaited, down, up, exit_code, fifos>>
  BY Zenon DEF AddInserts
<1>2. Still /\ InOrderAlways /\ Peaceful
  BY <1>1, StillWhileAdding DEF TwoLevels, InOrderAlways
<1>3. user_command = AddCommand(d) /\ d \in Devices
  <2>1. user_command \in Offered \cup {NoRequest} /\ user_command # NoRequest
    BY <1>1, <1>2 DEF Peaceful, NoRequest
  <2>2. PICK x \in Devices : user_command = AddCommand(x)
    BY <1>1, <2>1, OfferedAre
  <2> QED
    BY <2>2, OnlyAddsAdd
<1>4. d \notin Known /\ d \in fifos
  BY <1>1, <1>2, <1>3 DEF Peaceful
<1>5. /\ IsTable(T, Controls) /\ F \in [Fds -> Ends] /\ DOMAIN T = Known
      /\ PipesOf(T, CONTROLLER_ID, F)
  BY ControllerOrderly
<1>6. fd \in Fds /\ F[fd] = Closed
  BY <1>1, LowestFreeIs
<1>7. /\ DOMAIN U = Known \cup {d}
      /\ \A x \in Known : U[x] = T[x]
      /\ U[d] = [type |-> TypeOf(d), parent |-> CONTROLLER_ID, fd |-> fd]
  BY <1>4, <1>5 DEF InsertDirect, InsertRoute
<1>8. U[d].type = TypeOf(d) /\ U[d].parent = CONTROLLER_ID /\ U[d].fd = fd
  BY <1>7
<1>9. ChildrenOpen(U, CONTROLLER_ID, G)
  BY <1>5, <1>6, InsertDirectOpens DEF PipesOf
<1>10. \A f \in Fds : G[f] = IF f = fd THEN Down(d) ELSE F[f]
  BY <1>5 DEF OpenAt
<1>11. /\ files'[CONTROLLER_ID] = G
       /\ \A p \in Controls \ {CONTROLLER_ID} : files'[p] = files[p]
  BY <1>1, Ids DEF TypeOK, PipesTypeOK
<1> HIDE DEF U, G, fd, d
<1>12. PipesOf(U, CONTROLLER_ID, G)
  <2> SUFFICES ASSUME NEW f \in Fds, G[f].dir = "down"
               PROVE  \E x \in Direct(U, CONTROLLER_ID) : U[x].fd = f
    BY <1>9 DEF PipesOf
  <2>1. CASE f = fd
    BY <1>7, <1>8, <2>1 DEF Direct
  <2>2. CASE f # fd
    <3>1. PICK x \in Direct(T, CONTROLLER_ID) : T[x].fd = f
      BY <1>5, <1>10, <2>2 DEF PipesOf
    <3> QED
      BY <1>5, <1>7, <3>1 DEF Direct
  <2> QED
    BY <2>1, <2>2
<1>13. /\ UNCHANGED <<exiting, blocked, hurried, interrupted, hub, leaf, exit_code, fifos>>
       /\ UNCHANGED <<down, up, signalled, pending_shutdown, force_exit, reaped>>
  BY <1>1 DEF shutdownVars, histories
<1>14. /\ Known' = Known \cup {d} /\ Absent' = Absent /\ Hosts \subseteq Hosts'
       /\ \A h \in Hubs : Entered(h)' = Entered(h)
  BY <1>1, <1>7, <1>13 DEF Known, Absent, Hosts, Running, Entered
<1>15. Peaceful'
  <2>1. ASSUME NEW x \in fifos \ Known PROVE x = d
    BY <1>2, <1>3, <2>1 DEF Peaceful, AddCommand
  <2>2. NoRequest.cmd # "add"
    BY DEF NoRequest
  <2> QED
    BY <1>1, <1>2, <1>4, <1>13, <1>14, <2>1, <2>2 DEF Peaceful
<1>16. ControllerInOrder'
  <2>1. ASSUME NEW x \in Known', routing_table'[x].parent # CONTROLLER_ID
        PROVE  LET p == routing_table'[x].parent
               IN  x \in Leaves /\ p \in Hosts' /\ routing_table'[x].fd = routing_table'[p].fd
    <3>1. x \in Known /\ routing_table'[x] = T[x]
      BY <1>1, <1>7, <1>8, <1>14, <2>1
    <3>2. /\ x \in Leaves /\ T[x].parent \in Hosts /\ T[x].parent \in Known
          /\ T[x].fd = T[T[x].parent].fd
      BY <2>1, <3>1, ControllerOrderly
    <3> QED
      BY <1>1, <1>7, <1>14, <3>1, <3>2
  <2>2. PipesOf(routing_table, CONTROLLER_ID, files[CONTROLLER_ID])'
    <3>1. PipesOf(routing_table', CONTROLLER_ID, files'[CONTROLLER_ID])
      BY <1>1, <1>11, <1>12
    <3> QED
      BY <3>1 DEF PipesOf, ChildrenOpen
  <2> QED
    BY <2>1, <2>2 DEF ControllerInOrder
<1>17. ASSUME NEW h \in Hubs PROVE HubInOrder(h, hub[h])'
  <2>1. files'[h] = files[h]
    BY <1>11, Ids
  <2> QED
    BY <1>2, <1>13, <2>1 DEF InOrderAlways, HubInOrder, PipesOf, ChildrenOpen
<1>18. ASSUME NEW x \in Leaves PROVE LeafInOrder(x, leaf[x])'
  BY <1>2, <1>13, <1>14 DEF InOrderAlways, LeafInOrder
<1>19. ASSUME NEW x \in Leaves PROVE Home(x)'
  <2>1. Home(x) /\ LeafInOrder(x, leaf[x])
    BY <1>2 DEF Still, InOrderAlways
  <2>2. x \in Known' => routing_table'[x].parent = leaf[x].parent_id
    BY <1>1, <1>4, <1>7, <1>8, <1>14, <2>1 DEF Home, At, LeafInOrder
  <2>3. \A h \in Hubs : x \in Entered(h)' <=> h \in {leaf[x].parent_id}
    BY <1>14, <2>1 DEF Home, At
  <2> QED
    BY <1>13, <2>2, <2>3 DEF Home, At
<1>20. Agreed({})'
  <2>1. ASSUME d \in Hubs PROVE hub[d].device_type = HUB_DEVICE /\ U[d].type = HUB_DEVICE
    <3>1. ASSUME NEW x \in Entered(d) PROVE FALSE
      <4>1. x \in Leaves
        BY <2>1, <3>1, HubOrderly DEF HubInOrder, Entered
      <4>2. leaf[x].parent_id = d
        BY <1>2, <2>1, <3>1, <4>1 DEF Still, Home, At
      <4>3. d \in Hosts
        BY <4>1, <4>2, LeafFields
      <4> QED
        BY <1>4, <2>1, <4>3, Ids DEF Hosts
    <3>2. Entered(d) = {}
      BY <3>1
    <3>3. HubInOrder(d, hub[d])
      BY <2>1, HubOrderly
    <3>4. hub[d].device_type = HUB_DEVICE
      BY <3>2, <3>3, Zenon DEF HubInOrder, Entered
    <3>5. TypeOf(d) = HUB_DEVICE
      BY <2>1, Ids DEF TypeOf
    <3> QED
      BY <1>8, <3>4, <3>5
  <2> QED
    BY <1>1, <1>2, <1>7, <1>13, <1>14, <2>1 DEF Still, Agreed
<1>21. Still'
  <2>1. Silent({}, {}, {}, {})'
    BY <1>2, <1>13 DEF Still, Silent
  <2> QED
    BY <1>1, <1>19, <1>20, <2>1 DEF Still, NoLinkTyped, NoRequest
<1> QED
  BY <1>15, <1>16, <1>17, <1>18, <1>21 DEF TwoLevels, InOrderAlways

-----------------------------------------------------------------------------
(* The user.                                                               *)

\* At rest no link is under way.
LEMMA StillAtRest ==
    ASSUME TypeOK, TwoLevels, AtRest
    PROVE  Still
<1>1. /\ user_command = NoRequest /\ up[CONTROLLER_ID] = <<>>
      /\ \A d \in Devices : Alive(d) =>
            /\ down[d] = <<>>
            /\ d \in Hubs => up[d] = <<>> /\ hub[d].pc = "read"
            /\ d \in Leaves => leaf[d].pc = "read"
  BY DEF AtRest
<1>2. \A x \in Known : x \in Devices /\ Alive(x)
  BY ControllerOrderly DEF TwoLevels, InOrderAlways, Peaceful, Absent, Alive
<1>3. \A x \in Hosts : x \in Hubs => Alive(x) /\ x \in Devices
  BY <1>2, Ids DEF Hosts
<1>4. \A S, m : ~AllBut(<<>>, S, m)
  BY DEF AllBut
<1>5. ASSUME NEW d \in Leaves, NEW p \in Controls, NEW q \in Controls, UnderWayTo(d, p, q)
      PROVE  /\ d \in Devices /\ Alive(d) /\ down[d] = <<>> /\ leaf[d].pc = "read"
             /\ p \in Hubs => down[p] = <<>> /\ hub[p].pc = "read"
             /\ p # CONTROLLER_ID => p \in Hubs /\ down[p] = <<>>
             /\ up[q] = <<>>
  <2>1. d \in Known /\ p \in Hosts /\ q \in Hosts
    BY <1>5 DEF UnderWayTo
  <2>2. p # CONTROLLER_ID => p \in Hubs
    BY <2>1 DEF Hosts
  <2>3. q # CONTROLLER_ID => q \in Hubs
    BY <2>1 DEF Hosts
  <2> QED
    BY <1>1, <1>2, <1>3, <2>1, <2>2, <2>3
<1>6. \A y \in Leaves, a \in Controls, b \in Controls : ~Typed(y, a, b)
  BY <1>1 DEF Typed, LinkTo, NoRequest
<1>7. \A y \in Leaves, a \in Controls, b \in Controls :
         ~Sent(y, a, b, a) /\ ~Sent(y, a, b, y) /\ ~Routed(y, a, b)
  BY <1>4, <1>5, Ids DEF Sent, Routed, Asked
<1>8. \A y \in Leaves, a \in Controls, b \in Controls :
         ~Telling(y, a, b) /\ ~TellsNew(y, a, b) /\ ~Joined(y, a, b)
  BY <1>1, <1>4, <1>5 DEF Telling, TellsNew, HasMoved, Joined
<1>9. \A y \in Leaves, a \in Controls, b \in Controls : ~ToldOld(y, a, b) /\ ~Removes(y, a, b)
  BY <1>4, <1>5 DEF ToldOld, Removes, Told
<1>10. \A y \in Leaves, a \in Controls, b \in Controls :
         ~Types(y, a, b) /\ ~Answering(y, a, b) /\ ~Left(y, a, b)
  BY <1>1, <1>4, <1>5 DEF Types, Answering, Left, Over
<1> QED
  BY <1>6, <1>7, <1>8, <1>9, <1>10 DEF TwoLevels

\* A link that passes the check can be carried out.
LEMMA LinkCanBeDone ==
    ASSUME TypeOK, TwoLevels, TwoLevelUser, Still, AtRest, DescriptorsLeft,
           NEW d \in Leaves, NEW q \in Controls, d \in DOMAIN routing_table,
           LinkAllowed(routing_table, LinkTo(d, q))
    PROVE  LET p == routing_table[d].parent
           IN  /\ d \in Known /\ p \in Hosts /\ q \in Hosts /\ p # q /\ p \in Controls
               /\ At(d, p, p, {p}) /\ MayTakeIn(d, q)
<1> DEFINE T == routing_table
           p == T[d].parent
           c == LinkTo(d, q)
           above == Upwards(T, q)
<1>1. c.dst = d /\ c.arg = q
  BY DEF LinkTo
<1> HIDE DEF c
<1>2. /\ d # q /\ p # q
      /\ q # CONTROLLER_ID =>
            /\ q \in DOMAIN T
            /\ \A x \in Range(above) : IsEmpty(T[d].type) \/ IsEmpty(T[x].type)
                                           \/ ChildType(T[d].type) = ChildType(T[x].type)
  BY <1>1 DEF LinkAllowed, c
<1>3. /\ d \in Known /\ IsTable(T, Controls) /\ DOMAIN T = Known /\ Known \subseteq Devices
      /\ \A h \in Hubs \cap Known : T[h].parent = CONTROLLER_ID
      /\ T[d].parent # CONTROLLER_ID => T[d].parent \in Hosts
  BY ControllerOrderly
<1>4. p \in Hosts
  BY <1>3 DEF Hosts
<1>5. At(d, p, p, {p})
  BY <1>3 DEF Still, Home, At
<1>6. q \in Hosts
  <2>1. CASE q = CONTROLLER_ID
    BY <2>1 DEF Hosts
  <2>2. CASE q # CONTROLLER_ID
    <3>1. q \in Hubs /\ q \in Known /\ q \in Devices
      BY <1>2, <1>3, <2>2, Ids DEF TwoLevelUser
    <3>2. Alive(q)
      BY <1>3, <3>1 DEF TwoLevels, InOrderAlways, Peaceful, Absent, Alive
    <3> QED
      BY <3>1, <3>2 DEF AtRest, Hosts
  <2> QED
    BY <2>1, <2>2
<1>7. FreeFds(files[q]) # {}
  <2>1. Alive(q)
    BY <1>6, HostsRun
  <2>2. Cardinality(FreeFds(files[q])) > LinksUnderWay
    BY <2>1 DEF DescriptorsLeft
  <2>3. LinksUnderWay \in Nat
    <3>1. awaited \in Seq(Requests)
      BY DEF TypeOK, ControllerTypeOK
    <3>2. DOMAIN awaited = 1 .. Len(awaited) /\ Len(awaited) \in Nat
      BY <3>1
    <3>3. IsFiniteSet(DOMAIN awaited)
      BY <3>2, FS_Interval
    <3>4. IsFiniteSet({i \in DOMAIN awaited : awaited[i].cmd = "change_parent"})
      BY <3>3, FS_Subset
    <3> QED
      BY <3>4, FS_CardinalityType DEF LinksUnderWay
  <2>4. Cardinality({}) = 0
    BY FS_EmptySet
  <2> QED
    BY <2>2, <2>3, <2>4
<1>8. ASSUME q \in Hubs, NEW x \in Entered(q) PROVE Kind[x] = Kind[d]
  <2>1. q # CONTROLLER_ID /\ q \in Hubs \cap Known /\ T[q].parent = CONTROLLER_ID
        /\ CONTROLLER_ID \notin DOMAIN T
    BY <1>2, <1>3, <1>8, Ids
  <2>2. IsFiniteSet(DOMAIN T)
    BY <1>3, TableIs
  <2>3. DOMAIN above = {1} /\ above[1] = q
    BY <1>3, <2>1, <2>2, UpwardsOfTop
  <2>4. q \in Range(above)
    BY <2>3 DEF Range
  <2>5. IsEmpty(T[d].type) \/ IsEmpty(T[q].type) \/ ChildType(T[d].type) = ChildType(T[q].type)
    BY <1>2, <2>1, <2>4
  <2>6. T[q].type = hub[q].device_type
    BY <2>1 DEF Still, Agreed
  <2>7. HubInOrder(q, hub[q]) /\ x \in DOMAIN hub[q].routing_table
    BY <1>8, HubOrderly DEF Entered
  <2>8. x \in Leaves /\ hub[q].device_type = HubOr(Kind[x])
    BY <2>7 DEF HubInOrder
  <2>9. Kind[x] \in {1, 2} /\ Kind[d] \in {1, 2}
    BY <2>8, OwnTypesAre
  <2>10. T[d].type = Kind[d]
    BY <1>3, OwnTypesAre DEF IsTable
  <2>11. HubOr(Kind[x]) = 8 + Kind[x]
    BY <2>9 DEF HubOr, IsLeaf, HUB_DEVICE
  <2>12. ~IsEmpty(T[d].type) /\ ~IsEmpty(T[q].type)
         /\ ChildType(T[d].type) = Kind[d] /\ ChildType(T[q].type) = Kind[x]
    BY <2>6, <2>8, <2>9, <2>10, <2>11 DEF IsEmpty, ChildType
  <2> QED
    BY <2>5, <2>12
<1> QED
  BY <1>2, <1>3, <1>4, <1>5, <1>6, <1>7, <1>8, Ids DEF MayTakeIn, Hosts

\* What the check of a command lets through.
LEMMA CheckedCommand ==
    ASSUME TwoLevelUser, NEW c \in Offered, CheckUserCommand(c), TypeOK, TwoLevels
    PROVE  /\ user_command = NoRequest /\ user_command' = c
           /\ UNCHANGED <<routing_table, exiting, blocked, shutdownVars, pipes>>
           /\ c.cmd = "add" => c.dst \in Absent /\ c.dst \notin Known
           /\ c.cmd = "change_parent" =>
                 c.dst \in DOMAIN routing_table /\ LinkAllowed(routing_table, c)
<1>1. /\ user_command = NoRequest /\ user_command' = c /\ CommandAllowed(routing_table, c)
      /\ UNCHANGED <<routing_table, exiting, blocked, shutdownVars, awaited, pipes>>
  BY DEF CheckUserCommand
<1>2. ExitCommand.cmd = "exit" /\ EndOfInput.cmd = "end_of_file"
      /\ \A d : AddCommand(d).cmd = "add" /\ AddCommand(d).dst = d
  BY DEF ExitCommand, EndOfInput, AddCommand
<1>3. "add" \notin Commands
  BY DEF Commands, Switches, PowerSwitches, DoorSwitches, Links, Registries
<1>4. c.cmd = "add" => Absent # {} /\ c.dst = Min(Absent)
  BY <1>1, <1>2, <1>3 DEF CommandAllowed
<1>5. c.cmd = "change_parent" => c.dst \in DOMAIN routing_table /\ LinkAllowed(routing_table, c)
  BY <1>1, <1>2 DEF CommandAllowed
<1>6. c.cmd = "add" => c.dst \in Absent
  <2>1. Absent \in SUBSET Nat
    BY Ids DEF Absent
  <2> QED
    BY <1>4, <2>1, MinIs
<1>7. Known \cap Absent = {}
  BY DEF TwoLevels, InOrderAlways, Peaceful
<1> QED
  BY <1>1, <1>5, <1>6, <1>7

\* The user types a command.
LEMMA UserTwoLevels ==
    ASSUME TypeOK, TwoLevels, TwoLevelUser, UserTypes
    PROVE  TwoLevels'
<1>1. PICK c \in Offered :
         /\ c \in Settled => AtRest
         /\ c.cmd \in {"change_parent", "add"} => DescriptorsLeft
         /\ hurried' = IF c.cmd = "change_parent" /\ (hurried > 0 \/ ~AtRest)
                       THEN hurried + 1 ELSE hurried
         /\ hurried' <= MaxHurried
         /\ CheckUserCommand(c)
  BY Zenon DEF UserTypes
<1>2. UNCHANGED <<hub, leaf, interrupted>>
  BY DEF UserTypes
<1>3. hurried = 0 /\ MaxHurried = 0
  BY DEF TwoLevels, InOrderAlways, Peaceful, TwoLevelUser
<1>4. hurried' = 0 /\ (c.cmd = "change_parent" => AtRest)
  BY <1>1, <1>3
<1>5. /\ user_command = NoRequest /\ user_command' = c
      /\ UNCHANGED <<routing_table, exiting, blocked, shutdownVars, pipes>>
      /\ c.cmd = "add" => c.dst \in Absent /\ c.dst \notin Known
      /\ c.cmd = "change_parent" =>
            c.dst \in DOMAIN routing_table /\ LinkAllowed(routing_table, c)
  BY <1>1, CheckedCommand
<1>6. UNCHANGED <<down, up, files, exit_code, fifos>>
  BY <1>5 DEF pipes
<1>7. UNCHANGED <<peaceVars, files, routing_table, hub, leaf>>
  BY <1>2, <1>3, <1>4, <1>5, <1>6 DEF peaceVars
<1>8. NoRequest.cmd = "null"
  BY DEF NoRequest
<1>9. CASE c.cmd \notin {"change_parent", "add"}
  <2>1. NoLinkTyped /\ NoLinkTyped' /\ user_command.cmd # "add" /\ user_command'.cmd # "add"
        /\ user_command' \in Offered \cup {NoRequest}
    BY <1>5, <1>8, <1>9 DEF NoLinkTyped
  <2>2. /\ \A x \in Devices : QueueAside(down[x], down'[x], Asks)
        /\ \A x \in Controls : QueueAside(up[x], up'[x], Tells)
    BY <1>6, AsideIsOrder
  <2> QED
    BY <1>7, <2>1, <2>2, ControllerStepsAside
<1>10. ASSUME c.cmd \in {"change_parent", "add"}
       PROVE  /\ Still /\ AtRest
              /\ InOrderAlways'
              /\ \A x \in Leaves : Home(x) => Home(x)'
              /\ Known' = Known /\ Hosts' = Hosts
              /\ \A x \in Leaves : \A own, known, hubs :
                    At(x, own, known, hubs) => At(x, own, known, hubs)'
              /\ Agreed({})' /\ Silent({}, {}, {}, {})'
              /\ \A d \in Leaves, q \in Controls : MayTakeIn(d, q) => MayTakeIn(d, q)'
  <2>1. AtRest
    BY <1>1, <1>4, <1>10 DEF TwoLevelUser
  <2>2. Still
    BY <2>1, StillAtRest
  <2>3. /\ UNCHANGED <<exiting, blocked, hurried, interrupted, routing_table, hub, leaf>>
        /\ UNCHANGED <<down, up, files, signalled, pending_shutdown, force_exit, reaped>>
        /\ UNCHANGED <<exit_code, fifos>>
    BY <1>2, <1>3, <1>4, <1>5, <1>6 DEF shutdownVars
  <2>4. /\ Known' = Known /\ Absent' = Absent /\ Hosts' = Hosts
        /\ \A h \in Hubs : Entered(h)' = Entered(h)
    BY <2>3 DEF Known, Absent, Hosts, Running, Entered
  <2>5. InOrderAlways
    BY DEF TwoLevels
  <2>6. Peaceful'
    <3>1. fifos \ Known = {}
      BY <1>5, <1>8, <2>5 DEF InOrderAlways, Peaceful, AddCommand
    <3> QED
      BY <1>5, <2>3, <2>4, <2>5, <3>1 DEF InOrderAlways, Peaceful
  <2>7. ControllerInOrder'
    BY <2>3, <2>4, <2>5 DEF InOrderAlways, ControllerInOrder, PipesOf, ChildrenOpen
  <2>8. ASSUME NEW h \in Hubs PROVE HubInOrder(h, hub[h])'
    BY <2>3, <2>5 DEF InOrderAlways, HubInOrder, PipesOf, ChildrenOpen
  <2>9. ASSUME NEW x \in Leaves PROVE LeafInOrder(x, leaf[x])'
    BY <2>3, <2>4, <2>5 DEF InOrderAlways, LeafInOrder
  <2>10. InOrderAlways'
    BY <2>6, <2>7, <2>8, <2>9 DEF InOrderAlways
  <2>11. \A x \in Leaves : \A own, known, hubs :
            At(x, own, known, hubs) => At(x, own, known, hubs)'
    BY <2>3, <2>4 DEF At
  <2>12. \A x \in Leaves : Home(x) => Home(x)'
    BY <2>3, <2>4 DEF Home, At
  <2>13. Agreed({})' /\ Silent({}, {}, {}, {})'
    BY <2>2, <2>3, <2>4 DEF Still, Agreed, Silent
  <2>14. \A d \in Leaves, q \in Controls : MayTakeIn(d, q) => MayTakeIn(d, q)'
    BY <2>3, <2>4 DEF MayTakeIn, FreeFds
  <2> QED
    BY <2>1, <2>2, <2>4, <2>10, <2>11, <2>12, <2>13, <2>14
<1>11. CASE c.cmd = "add"
  <2>1. Still'
    BY <1>5, <1>10, <1>11 DEF Still, NoLinkTyped
  <2> QED
    BY <1>10, <1>11, <2>1 DEF TwoLevels
<1>12. CASE c.cmd = "change_parent"
  <2>1. PICK d \in Leaves, q \in Controls : c = LinkTo(d, q) /\ c.dst = d
    BY <1>12, OfferedAre
  <2>2. Still /\ AtRest /\ DescriptorsLeft
    BY <1>1, <1>10, <1>12
  <2>3. d \in DOMAIN routing_table /\ LinkAllowed(routing_table, LinkTo(d, q))
    BY <1>5, <1>12, <2>1
  <2>4. PICK p \in Controls :
           /\ d \in Known /\ p \in Hosts /\ q \in Hosts /\ p # q
           /\ At(d, p, p, {p}) /\ MayTakeIn(d, q)
    BY <2>1, <2>2, <2>3, LinkCanBeDone
  <2>5. UnderWayTo(d, p, q)'
    BY <1>5, <1>10, <1>12, <2>1, <2>2, <2>4 DEF UnderWayTo, Still
  <2>6. Asked(d, p, q)'
    BY <1>10, <1>12, <2>1, <2>4, <2>5 DEF Asked
  <2>7. Typed(d, p, q)'
    BY <1>5, <1>10, <1>12, <2>1, <2>6 DEF Typed, LinkTo
  <2> QED
    BY <1>10, <1>12, <2>1, <2>4, <2>7 DEF TwoLevels
<1> QED
  BY <1>9, <1>11, <1>12

\* The manual interaction program asks a device for its state or switches it.
LEMMA ManualTwoLevels ==
    ASSUME TypeOK, TwoLevels, ManualInteraction
    PROVE  TwoLevels'
<1>1. PICK d \in fifos, cmd \in ManualCommands :
         down' = SendDown(down, Down(d), [dst |-> d, cmd |-> cmd, arg |-> CONTROLLER_ID])
  BY Zenon DEF ManualInteraction
<1>2. UNCHANGED <<up, files, exit_code, fifos, controllerVars, hub, leaf, hurried, interrupted>>
  BY DEF ManualInteraction
<1> DEFINE m == [dst |-> d, cmd |-> cmd, arg |-> CONTROLLER_ID]
<1>3. d \in Devices
  BY DEF TypeOK, PipesTypeOK
<1>4. cmd \in {"info"} \cup Switches
  BY UserAssumption
<1>5. m \in Asks
  <2>1. cmd \in Commands
    BY <1>4 DEF Commands
  <2>2. cmd \notin Links \cup Registries \cup {"delete"}
    BY <1>4 DEF Links, Registries, Switches, PowerSwitches, DoorSwitches
  <2>3. m \in Requests
    BY <1>3, <2>1, <2>2, RequestIs DEF Links
  <2> QED
    BY <2>2, <2>3 DEF Asks
<1>6. down \in [Devices -> Seq(Requests)]
  BY DEF TypeOK, PipesTypeOK
<1> HIDE DEF m
<1>7. \A e : \A x \in Devices : QueueAside(down[x], SendDown(down, e, m)[x], Asks)
  BY <1>5, <1>6, SendDownAside
<1>8. \A x \in Devices : QueueAside(down[x], down'[x], Asks)
  BY <1>1, <1>7 DEF m
<1>9. UNCHANGED <<routing_table, user_command, exiting, blocked, shutdownVars>>
  BY <1>2 DEF controllerVars
<1>10. UNCHANGED <<peaceVars, files, routing_table, hub, leaf>>
  BY <1>2, <1>9 DEF peaceVars
<1>11. \A x \in Controls : QueueAside(up[x], up'[x], Tells)
  BY <1>2, AsideIsOrder
<1> QED
  BY <1>8, <1>9, <1>10, <1>11, ControllerStepsAside

\* A minute goes by.
LEMMA ClockTwoLevels ==
    ASSUME TwoLevels, ClockTicks \/ UNCHANGED vars
    PROVE  TwoLevels'
<1>1. UNCHANGED <<pipes, controllerVars, hub, leaf, hurried, interrupted>>
  BY DEF ClockTicks, MinutePasses, vars, histories
<1>2. UNCHANGED <<down, up, files, exit_code, fifos>>
      /\ UNCHANGED <<routing_table, user_command, exiting, blocked, shutdownVars>>
  BY <1>1 DEF pipes, controllerVars
<1>3. UNCHANGED <<peaceVars, files, routing_table, hub, leaf>>
  BY <1>1, <1>2 DEF peaceVars
<1>4. /\ \A x \in Devices : QueueAside(down[x], down'[x], Asks)
      /\ \A x \in Controls : QueueAside(up[x], up'[x], Tells)
  BY <1>2, AsideIsOrder
<1> QED
  BY <1>2, <1>3, <1>4, ControllerStepsAside

-----------------------------------------------------------------------------
(* Always.                                                                 *)

\* Nobody dies, and nobody is told to: what deals with it is not done.
LEMMA NobodyDies ==
    ASSUME TypeOK, TwoLevels, TwoLevelUser
    PROVE  /\ ~DevicesReaped /\ ~SigchldRoutine /\ ~SigchldChecks
           /\ ~ExecuteExit /\ ~ControllerExits /\ ~InputEnds
           /\ \A d \in ToAdd : ~StartFails(d)
           /\ \A d \in signalled : ~Terminates(d)
           /\ \A p : ~Crashes(p)
<1>1. Peaceful
  BY DEF TwoLevels, InOrderAlways
<1>2. ~DevicesReaped /\ ~SigchldChecks /\ ~ControllerExits
  BY <1>1, Zenon DEF Peaceful, DevicesReaped, SigchldChecks, ControllerExits
<1>3. user_command # ExitCommand /\ user_command # EndOfInput
  <2>1. user_command \in Offered \cup {NoRequest}
    BY <1>1 DEF Peaceful
  <2> QED
    BY <2>1 DEF TwoLevelUser, ExitCommand, EndOfInput, NoRequest
<1>4. ~ExecuteExit /\ ~InputEnds
  BY <1>3, Zenon DEF ExecuteExit, InputEnds
<1>5. \A d \in Devices : ~DiedWithError(d)
  BY <1>1 DEF Peaceful, DiedWithError
<1>6. ~SigchldRoutine
  <2> DEFINE D == {d \in DOMAIN routing_table : DiedWithError(d)}
             unknown == {d \in Devices : user_command = AddCommand(d) /\ DiedWithError(d)}
  <2>1. SigchldRoutine => \E missed \in SUBSET unknown : InIdOrder(D) # <<>> \/ missed # {}
    BY Zenon DEF SigchldRoutine
  <2>2. unknown = {} /\ D = {}
    BY <1>5, ControllerOrderly
  <2>3. InIdOrder({}) = <<>>
    <3>1. Cardinality({}) = 0
      BY FS_EmptySet
    <3>2. 1 .. Cardinality({}) = {}
      BY <3>1
    <3> QED
      BY <3>2 DEF InIdOrder
  <2> HIDE DEF D, unknown
  <2> QED
    BY <2>1, <2>2, <2>3
<1>7. ASSUME NEW d \in ToAdd PROVE ~StartFails(d)
  <2>1. d \in Devices
    BY AddAssumption
  <2> QED
    BY <1>1, <2>1 DEF StartFails, Peaceful, Absent, TwoLevelUser
<1>8. \A d \in signalled : ~Terminates(d)
  BY <1>1 DEF Peaceful
<1>9. \A p : ~Crashes(p)
  <2>1. Crashed = {}
    BY <1>1, Ids DEF Crashed, Peaceful, TypeOK, PipesTypeOK
  <2>2. Cardinality(Crashed) = 0
    BY <2>1, FS_EmptySet
  <2> QED
    BY <2>2 DEF Crashes, TwoLevelUser
<1> QED
  BY <1>2, <1>4, <1>6, <1>7, <1>8, <1>9

\* Every device has one descriptor at the start.
LEMMA FdOfStarted ==
    ASSUME NEW n \in DOMAIN Started
    PROVE  FdOf(Started[n]) = n
<1> DEFINE S == Devices \ ToAdd
<1>1. S \in SUBSET Nat /\ IsFiniteSet(S)
  BY Ids, FS_Subset
<1> HIDE DEF S
<1>2. \A i, j \in DOMAIN InIdOrder(S) : i # j => InIdOrder(S)[i] # InIdOrder(S)[j]
  BY <1>1, InIdOrderIs
<1>3. \A i, j \in DOMAIN Started : i # j => Started[i] # Started[j]
  BY <1>2 DEF Started, S
<1>4. FdOf(Started[n]) \in DOMAIN Started /\ Started[FdOf(Started[n])] = Started[n]
  BY StartedIs
<1> QED
  BY <1>3, <1>4

\* It starts so.
LEMMA InitTwoLevels ==
    ASSUME Init, TwoLevelUser
    PROVE  TwoLevels
<1> DEFINE H == [device_type |-> HUB_DEVICE, routing_table |-> EmptyTable, children |-> 0,
                 has_children |-> FALSE, parent_id |-> CONTROLLER_ID,
                 parent_changed |-> FALSE, remove_child_succeed |-> FALSE,
                 force_exit |-> FALSE, pending |-> <<>>, snd |-> 1,
                 pc |-> "read", bottom_pc |-> "read",
                 request |-> NoRequest, response |-> NoResponse, route |-> NoFd]
           L == [state |-> STATE_OFF, parent_id |-> CONTROLLER_ID, force_exit |-> FALSE,
                 snd |-> CONTROLLER_ID, pc |-> "read", response |-> NoResponse]
           entry(d) == [type |-> TypeOf(d), parent |-> CONTROLLER_ID, fd |-> FdOf(d)]
<1>1. /\ down = [d \in Devices |-> <<>>] /\ up = [p \in Controls |-> <<>>]
      /\ files = [p \in Controls |-> [f \in Fds |->
            IF p = CONTROLLER_ID /\ f \in DOMAIN Started THEN Down(Started[f])
            ELSE IF p # CONTROLLER_ID /\ f = 1 THEN Up(CONTROLLER_ID) ELSE Closed]]
      /\ exit_code = [p \in Devices \cup {CONTROLLER_ID} |->
                        IF p \in ToAdd THEN "absent" ELSE "none"]
      /\ fifos = Devices \ ToAdd
      /\ routing_table = [d \in Devices \ ToAdd |-> entry(d)]
      /\ user_command = NoRequest /\ exiting = {} /\ signalled = {}
      /\ blocked = FALSE /\ pending_shutdown = FALSE /\ force_exit = FALSE /\ reaped = FALSE
      /\ hub = [h \in Hubs |-> H] /\ leaf = [d \in Leaves |-> L]
      /\ hurried = 0 /\ interrupted = FALSE
  BY DEF Init
<1>2. /\ H.device_type = HUB_DEVICE /\ H.routing_table = EmptyTable /\ H.children = 0
      /\ H.has_children = FALSE /\ H.parent_id = CONTROLLER_ID
      /\ H.parent_changed = FALSE /\ H.remove_child_succeed = FALSE
      /\ H.force_exit = FALSE /\ H.pending = <<>> /\ H.snd = 1
      /\ H.pc = "read" /\ H.bottom_pc = "read"
  OBVIOUS
<1>3. /\ L.parent_id = CONTROLLER_ID /\ L.force_exit = FALSE /\ L.snd = CONTROLLER_ID
      /\ L.pc = "read" /\ L.response.cmd = "null"
  BY DEF NoResponse
<1>4. \A d : entry(d).type = TypeOf(d) /\ entry(d).parent = CONTROLLER_ID /\ entry(d).fd = FdOf(d)
  OBVIOUS
<1> HIDE DEF H, L, entry
<1>5. /\ Known = Devices \ ToAdd /\ \A d \in Known : routing_table[d] = entry(d)
      /\ \A h \in Hubs : hub[h] = H /\ Entered(h) = {}
      /\ \A x \in Leaves : leaf[x] = L
      /\ DOMAIN EmptyTable = {}
  BY <1>1, <1>2 DEF Known, Entered, EmptyTable
<1>6. Absent = ToAdd
  <2>1. \A d \in Devices : exit_code[d] = IF d \in ToAdd THEN "absent" ELSE "none"
    BY <1>1
  <2>2. ToAdd \subseteq Devices
    BY AddAssumption
  <2> QED
    BY <2>1, <2>2 DEF Absent
<1>7. /\ \A x \in Devices : exit_code[x] = IF x \in ToAdd THEN "absent" ELSE "none"
      /\ exit_code[CONTROLLER_ID] = "none"
  BY <1>1, AddAssumption, Ids
<1>8. Peaceful
  <2>1. NoRequest.cmd = "null"
    BY DEF NoRequest
  <2>2. fifos = Devices \ Absent /\ fifos = Known
    BY <1>1, <1>5, <1>6
  <2>3. \A d \in Devices : exit_code[d] \in {"absent", "starting", "none"}
    BY <1>7
  <2> QED
    BY <1>1, <1>7, <2>1, <2>2, <2>3 DEF Peaceful
<1>9. CONTROLLER_ID \in Hosts
  BY DEF Hosts
<1>10. ControllerInOrder
  <2> DEFINE T == routing_table
             F == files[CONTROLLER_ID]
  <2>1. \A f \in Fds : F[f] = IF f \in DOMAIN Started THEN Down(Started[f]) ELSE Closed
    BY <1>1, Ids
  <2>2. ChildrenOpen(T, CONTROLLER_ID, F)
    <3> SUFFICES ASSUME NEW d \in Known PROVE F[T[d].fd] = Down(d)
      BY DEF ChildrenOpen, Direct, Known
    <3>1. T[d].fd = FdOf(d)
      BY <1>4, <1>5
    <3> QED
      BY <1>5, <2>1, <3>1, StartedIs
  <2>3. ASSUME NEW f \in Fds, F[f].dir = "down"
        PROVE  \E d \in Direct(T, CONTROLLER_ID) : T[d].fd = f
    <3>1. f \in DOMAIN Started /\ F[f] = Down(Started[f])
      BY <2>1, <2>3 DEF Closed
    <3>2. Started[f] \in Known /\ T[Started[f]].parent = CONTROLLER_ID
      BY <1>4, <1>5, <3>1, StartedIs
    <3>3. T[Started[f]].fd = f
      <4>1. T[Started[f]].fd = FdOf(Started[f])
        BY <1>4, <1>5, <3>2
      <4>2. FdOf(Started[f]) = f
        BY <3>1, FdOfStarted
      <4> QED
        BY <4>1, <4>2
    <3> QED
      BY <3>2, <3>3 DEF Direct, Known
  <2>4. \A d \in Known : T[d].parent = CONTROLLER_ID
    BY <1>4, <1>5
  <2> QED
    BY <2>2, <2>3, <2>4 DEF ControllerInOrder, PipesOf
<1>11. ASSUME NEW h \in Hubs PROVE HubInOrder(h, hub[h])
  <2> DEFINE F == files[h]
  <2>1. h \in Controls /\ h # CONTROLLER_ID
    BY Ids
  <2>2. \A f \in Fds : F[f] = IF f = 1 THEN Up(CONTROLLER_ID) ELSE Closed
    BY <1>1, <2>1
  <2>3. PipesOf(EmptyTable, h, F)
    BY <1>5, <2>2 DEF PipesOf, ChildrenOpen, Direct, Up, Closed
  <2>4. F[1] = Up(CONTROLLER_ID) /\ NoFd # 1
    BY <2>2, StartedIs DEF NoFd
  <2>5. \A i \in DOMAIN H.pending : FALSE
    BY <1>2
  <2>6. Cardinality(DOMAIN H.routing_table) = 0
    BY <1>2, <1>5, FS_EmptySet
  <2> HIDE DEF F
  <2>7. HubInOrder(h, H)
    BY <1>2, <1>5, <2>3, <2>4, <2>5, <2>6 DEF HubInOrder, F
  <2> QED
    BY <1>5, <2>7
<1>12. ASSUME NEW x \in Leaves PROVE LeafInOrder(x, leaf[x]) /\ Home(x)
  <2>1. LeafInOrder(x, leaf[x])
    BY <1>3, <1>5, <1>9 DEF LeafInOrder
  <2>2. \A h \in Hubs : h # CONTROLLER_ID
    BY Ids
  <2> QED
    BY <1>3, <1>4, <1>5, <2>1, <2>2 DEF Home, At
<1>13. Agreed({})
  <2>1. \A h \in Hubs : TypeOf(h) = HUB_DEVICE
    BY Ids DEF TypeOf
  <2> QED
    BY <1>2, <1>4, <1>5, <2>1 DEF Agreed
<1>14. Silent({}, {}, {}, {})
  <2>1. \A S : AllIn(<<>>, S)
    BY DEF AllIn
  <2>2. \A h \in Hubs : HubIdle(hub[h])
    BY <1>2, <1>5 DEF HubIdle
  <2>3. \A x \in Leaves : LeafIdle(leaf[x])
    BY <1>3, <1>5 DEF LeafIdle
  <2> QED
    BY <1>1, <2>1, <2>2, <2>3 DEF Silent
<1>15. NoLinkTyped
  BY <1>1 DEF NoLinkTyped, NoRequest
<1> QED
  BY <1>8, <1>10, <1>11, <1>12, <1>13, <1>14, <1>15 DEF TwoLevels, InOrderAlways, Still

\* And every step leaves it so.
LEMMA NextTwoLevels ==
    ASSUME TypeOK, TwoLevels, TwoLevelUser, [Next]_vars
    PROVE  TwoLevels'
<1>1. TypeOK'
  BY NextTyped
<1>2. CASE UserTypes
  BY <1>2, UserTwoLevels
<1>3. CASE ManualInteraction
  BY <1>3, ManualTwoLevels
<1>4. CASE ClockTicks \/ UNCHANGED vars
  BY <1>4, ClockTwoLevels
<1>5. CASE ControllerStep
  <2>1. UNCHANGED <<hub, leaf, histories>>
    BY <1>5 DEF ControllerStep
  <2>2. ExecuteUserCommand \/ ReceiveResponse \/ AddForks \/ AddInserts
    BY <1>5, NobodyDies DEF ControllerStep
  <2> QED
    BY <2>1, <2>2, ExecuteTwoLevels, ReceiveTwoLevels, AddForksTwoLevels, AddInsertsTwoLevels
<1>6. CASE SystemStep /\ ~ControllerStep
  <2>1. \/ \E d \in Leaves : LeafProcess(d)
        \/ \E h \in Hubs : HubMainThread(h) \/ HubBottomUpThread(h)
        \/ \E t \in Timers : TimerThreads(t)
        \/ \E d \in signalled : Terminates(d)
        \/ \E d \in ToAdd : Starting(d)
    BY <1>6 DEF SystemStep
  <2>2. CASE \E d \in Leaves : LeafProcess(d)
    BY <1>1, <2>2, LeafTwoLevels
  <2>3. CASE \E h \in Hubs : HubMainThread(h) \/ HubBottomUpThread(h)
    BY <1>1, <2>3, HubMainTwoLevels, HubGathers
  <2>4. CASE \E t \in Timers : TimerThreads(t)
    BY <2>4 DEF TwoLevelUser
  <2>5. CASE \E d \in signalled : Terminates(d)
    BY <2>5, NobodyDies
  <2>6. CASE \E d \in ToAdd : Starting(d)
    <3>1. PICK d \in ToAdd : (DeviceStarts(d) \/ StartFails(d))
                             /\ UNCHANGED <<hub, timerVars, leaf, histories>>
      BY <2>6 DEF Starting
    <3> QED
      BY <3>1, NobodyDies, StartsTwoLevels
  <2> QED
    BY <2>1, <2>2, <2>3, <2>4, <2>5, <2>6
<1> QED
  BY <1>2, <1>3, <1>4, <1>5, <1>6, NobodyDies DEF Next

\* Of a user who keeps to two levels the network is, at every moment, at one of
\* the stages of at most one link, and in order but for what that stage allows.
THEOREM TwoLevelsAlways == TwoLevelUser => (Spec => []TwoLevels)
<1> SUFFICES ASSUME TwoLevelUser PROVE Spec => []TwoLevels
  OBVIOUS
<1>1. Init => TwoLevels
  BY InitTwoLevels
<1>2. TypeOK /\ TwoLevels /\ [Next]_vars => TwoLevels'
  BY NextTwoLevels
<1> QED
  BY <1>1, <1>2, TypeCorrect, PTL DEF Spec

-----------------------------------------------------------------------------
(* What follows of it for the properties of the network.                   *)

\* A hub has only leaves below it, and a leaf nobody.
LEMMA ChildrenAre ==
    ASSUME TypeOK, TwoLevels, TwoLevelUser
    PROVE  /\ \A d \in Hubs : ParentOf(d) = CONTROLLER_ID
           /\ \A d \in Leaves : ParentOf(d) = leaf[d].parent_id /\ ParentOf(d) \in Hosts
           /\ \A d \in Devices : ParentOf(d) \in Hosts /\ ~ToldToExit(d)
           /\ \A p \in Devices : ChildrenOf(p) = {d \in Leaves : Alive(d) /\ leaf[d].parent_id = p}
           /\ \A p \in Leaves : ChildrenOf(p) = {}
           /\ \A d \in Devices : d \in Hubs \/ d \in Leaves
           /\ \A d \in Devices : Alive(d) <=> d \in fifos
           /\ Known \subseteq fifos
<1>1. \A d \in Devices : (d \in Hubs \/ d \in Leaves) /\ (d \in Hubs => d \notin Leaves)
  BY Ids DEF Devices, TwoLevelUser
<1>2. ASSUME NEW d \in Hubs
      PROVE  ParentOf(d) = CONTROLLER_ID /\ ~ToldToExit(d)
  <2>1. hub[d].parent_id = CONTROLLER_ID /\ ~hub[d].force_exit
    BY HubOrderly DEF HubInOrder
  <2>2. d \notin Timers /\ d \notin Leaves
    BY Ids
  <2> QED
    BY <2>1, <2>2 DEF ParentOf, ToldToExit
<1>3. ASSUME NEW d \in Leaves
      PROVE  ParentOf(d) = leaf[d].parent_id /\ ParentOf(d) \in Hosts /\ ~ToldToExit(d)
  <2>1. d \notin Hubs /\ d \notin Timers
    BY Ids
  <2> QED
    BY <2>1, LeafFields DEF ParentOf, ToldToExit
<1>4. CONTROLLER_ID \in Hosts /\ CONTROLLER_ID \notin Devices
  BY Ids DEF Hosts
<1>5. \A p \in Devices : ChildrenOf(p) = {d \in Leaves : Alive(d) /\ leaf[d].parent_id = p}
  <2> TAKE p \in Devices
  <2>1. ASSUME NEW d \in ChildrenOf(p) PROVE d \in Leaves /\ Alive(d) /\ leaf[d].parent_id = p
    BY <1>1, <1>2, <1>3, <1>4, <2>1 DEF ChildrenOf
  <2>2. \A d \in Leaves : Alive(d) /\ leaf[d].parent_id = p => d \in ChildrenOf(p)
    BY <1>3, Ids DEF ChildrenOf
  <2> QED
    BY <2>1, <2>2
<1>6. \A p \in Leaves : ChildrenOf(p) = {}
  <2>1. \A p \in Leaves : p \in Devices /\ p \notin Hosts
    BY Ids DEF Hosts
  <2> QED
    BY <1>3, <1>5, <2>1
<1>7. \A d \in Devices : Alive(d) <=> d \in fifos
  BY DEF TwoLevels, InOrderAlways, Peaceful, Absent, Alive
<1>8. Known \subseteq fifos
  BY DEF TwoLevels, InOrderAlways, Peaceful
<1> QED
  BY <1>1, <1>2, <1>3, <1>4, <1>5, <1>6, <1>7, <1>8

\* What is below a device are its children.
LEMMA BelowAreChildren ==
    ASSUME TypeOK, TwoLevels, TwoLevelUser, NEW p \in Devices
    PROVE  BelowOf(p) = ChildrenOf(p)
<1> DEFINE N == Cardinality(Devices)
           C == ChildrenOf(p)
           E(s) == UNION {ChildrenOf(d) : d \in s \cup {p}}
           D(h) == h = [n \in 0 .. N |-> IF n = 0 THEN {} ELSE E(h[n - 1])]
           f == CHOOSE h : D(h)
           g == [n \in 0 .. N |-> IF n = 0 THEN {} ELSE C]
<1>1. N \in Nat /\ N # 0
  <2>1. IsFiniteSet(Devices) /\ Devices # {}
    BY Ids
  <2> QED
    BY <2>1, FS_CardinalityType, FS_EmptySet
<1>2. BelowOf(p) = f[N]
  BY DEF BelowOf
<1>3. E({}) = C /\ E(C) = C
  <2>1. C \subseteq Leaves /\ \A d \in C : ChildrenOf(d) = {}
    BY ChildrenAre
  <2> QED
    BY <2>1
<1> HIDE DEF N, C, E
<1>4. \A n \in 1 .. N : g[n] = E(g[n - 1])
  <2> TAKE n \in 1 .. N
  <2>1. n \in 0 .. N /\ n - 1 \in 0 .. N /\ n # 0
    BY <1>1
  <2>2. g[n] = C /\ g[n - 1] \in {{}, C}
    BY <2>1
  <2> HIDE DEF g
  <2> QED
    BY <1>3, <2>2
<1>5. D(g)
  <2> SUFFICES \A n \in 0 .. N : (IF n = 0 THEN {} ELSE C) = IF n = 0 THEN {} ELSE E(g[n - 1])
    OBVIOUS
  <2> TAKE n \in 0 .. N
  <2>1. CASE n = 0
    BY <2>1
  <2>2. CASE n # 0
    <3>1. n \in 1 .. N
      BY <1>1, <2>2
    <3>2. g[n] = C
      BY <2>2
    <3> QED
      BY <1>4, <2>2, <3>1, <3>2
  <2> QED
    BY <2>1, <2>2
<1>6. D(f)
  <2> HIDE DEF D
  <2> QED
    BY <1>5
<1> HIDE DEF f, g
<1>7. \A n \in 0 .. N : f[n] = IF n = 0 THEN {} ELSE E(f[n - 1])
  BY <1>6
<1> DEFINE P == {n \in 0 .. N : f[n] = IF n = 0 THEN {} ELSE C}
<1>8. 0 \in P
  BY <1>1, <1>7
<1>9. ASSUME NEW n \in 1 .. N, n - 1 \in P PROVE n \in P
  <2>1. n \in 0 .. N /\ n # 0 /\ f[n - 1] \in {{}, C}
    BY <1>1, <1>9
  <2> QED
    BY <1>3, <1>7, <2>1
<1> HIDE DEF P
<1>10. 0 .. N \subseteq P
  BY <1>1, <1>8, <1>9, InductTo
<1>11. f[N] = C
  BY <1>1, <1>10 DEF P
<1> QED
  BY <1>2, <1>11 DEF C

\* A leaf is where it says, or on its way there and of the kind that is.
LEMMA LeavesOfOneKind ==
    ASSUME TypeOK, TwoLevels, TwoLevelUser, NEW h \in Hubs, NEW x \in Leaves, NEW y \in Leaves,
           leaf[x].parent_id = h, leaf[y].parent_id = h
    PROVE  Kind[x] = Kind[y]
<1> DEFINE Fitting(z) == \A w \in Entered(h) : Kind[w] = Kind[z]
<1>1. \A z \in Leaves : Home(z) /\ leaf[z].parent_id = h => z \in Entered(h)
  BY DEF Home, At
<1>2. \A z, w \in Entered(h) : z \in Leaves /\ w \in Leaves /\ Kind[z] = Kind[w]
  <2>1. \A z \in Entered(h) : z \in Leaves /\ hub[h].device_type = HubOr(Kind[z])
    BY HubOrderly DEF HubInOrder, Entered
  <2>2. \A z \in Leaves : Kind[z] \in {1, 2}
    BY OwnTypesAre
  <2>3. \A z \in Leaves : HubOr(Kind[z]) = 8 + Kind[z]
    BY <2>2 DEF HubOr, IsLeaf, HUB_DEVICE
  <2> QED
    BY <2>1, <2>2, <2>3
<1>3. \A z \in Entered(h) : Fitting(z)
  BY <1>2
<1>4. CASE Still
  BY <1>1, <1>3, <1>4 DEF Still
<1>5. ASSUME NEW d \in Leaves, NEW p \in Controls, NEW q \in Controls,
             Asked(d, p, q) \/ HasMoved(d, p, q) \/ Told(d, p, q) \/ Over(d, p, q)
                \/ Joined(d, p, q)
      PROVE  Kind[x] = Kind[y]
  <2>1. \A z \in Leaves \ {d} : Home(z)
    BY <1>5 DEF Asked, HasMoved, Told, Over, Joined, UnderWayTo
  <2>2. leaf[d].parent_id = h => d \in Entered(h) \/ Fitting(d)
    BY <1>5 DEF Asked, HasMoved, Told, Over, Joined, At, MayTakeIn
  <2>3. \A z \in {x, y} : z \in Entered(h) \/ (z = d /\ Fitting(z))
    BY <1>1, <2>1, <2>2
  <2> QED
    BY <1>2, <1>3, <2>3
<1>6. \A d, p, q : Typed(d, p, q) \/ Sent(d, p, q, p) \/ Sent(d, p, q, d) \/ Routed(d, p, q)
               \/ Telling(d, p, q) \/ TellsNew(d, p, q)
               \/ ToldOld(d, p, q) \/ Removes(d, p, q)
               \/ Types(d, p, q) \/ Answering(d, p, q) \/ Left(d, p, q)
           => Asked(d, p, q) \/ HasMoved(d, p, q) \/ Told(d, p, q) \/ Over(d, p, q)
  BY DEF Typed, Sent, Routed, Telling, TellsNew, ToldOld, Removes, Types, Answering, Left
<1> QED
  BY <1>4, <1>5, <1>6 DEF TwoLevels

\* A set of which all members are equal has at most one.
LEMMA AtMostOneMember ==
    ASSUME NEW S, \A x, y \in S : x = y
    PROVE  Cardinality(S) <= 1
<1>1. CASE S = {}
  BY <1>1, FS_EmptySet
<1>2. CASE S # {}
  <2>1. PICK x : S = {x}
    BY <1>2
  <2> QED
    BY <2>1, FS_Singleton
<1> QED
  BY <1>1, <1>2

\* All entries of a hub have its type, so their kinds are the same.
LEMMA OneKindThen ==
    ASSUME TypeOK, TwoLevels, TwoLevelUser
    PROVE  OneKindPerHub
<1> SUFFICES ASSUME NEW h \in Hubs PROVE Cardinality(LeafKinds(h)) <= 1
  BY DEF OneKindPerHub, TwoLevelUser
<1>1. h \in Devices
  BY Ids
<1>2. BelowOf(h) \subseteq {d \in Leaves : leaf[d].parent_id = h}
  BY <1>1, BelowAreChildren, ChildrenAre
<1>3. \A j, k \in LeafKinds(h) : j = k
  BY <1>2, LeavesOfOneKind DEF LeafKinds
<1> QED
  BY <1>3, AtMostOneMember

\* A hub counts exactly the entries of its table.
LEMMA CounterThen ==
    ASSUME TypeOK, TwoLevels
    PROVE  CounterCoversChildren
<1> SUFFICES ASSUME NEW h \in Hubs
             PROVE  Cardinality(Direct(hub[h].routing_table, h)) <= hub[h].children
  BY DEF CounterCoversChildren
<1>1. HubInOrder(h, hub[h]) /\ IsTable(hub[h].routing_table, Hubs \cup Timers)
  BY HubOrderly
<1>2. Direct(hub[h].routing_table, h) = DOMAIN hub[h].routing_table
  BY <1>1 DEF HubInOrder, Direct
<1>3. Cardinality(DOMAIN hub[h].routing_table) \in Nat
  BY <1>1, TableIs, FS_CardinalityType
<1>4. hub[h].children = Cardinality(DOMAIN hub[h].routing_table)
  BY <1>1 DEF HubInOrder
<1> QED
  BY <1>2, <1>3, <1>4

\* Some parent holds the down pipe of every device, at every stage of a link.
LEMMA NoDeviceStrandedThen ==
    ASSUME TypeOK, TwoLevels
    PROVE  NoDeviceStranded
  BY EveryoneHeld DEF NoDeviceStranded

\* Parents are the controller and the hubs, there being no timers.
LEMMA TableOfIs ==
    ASSUME TwoLevelUser, NEW p \in Controls
    PROVE  /\ p = CONTROLLER_ID => TableOf(p) = routing_table
           /\ p # CONTROLLER_ID => p \in Hubs /\ TableOf(p) = hub[p].routing_table
<1>1. CASE p = CONTROLLER_ID
  <2>1. p \notin Hubs /\ p \notin Timers
    BY <1>1, Ids
  <2> QED
    BY <1>1, <2>1 DEF TableOf
<1>2. CASE p # CONTROLLER_ID
  <2>1. p \in Hubs /\ p \notin Timers
    BY <1>2, Ids DEF TwoLevelUser
  <2> QED
    BY <1>2, <2>1 DEF TableOf
<1> QED
  BY <1>1, <1>2

\* Entries are at most two steps away from the controller.
LEMMA ReachableThen ==
    ASSUME TypeOK, TwoLevels, TwoLevelUser
    PROVE  NoRouteUnreachable
<1>1. ASSUME NEW d \in DOMAIN routing_table
      PROVE  d \in Below(routing_table, CONTROLLER_ID)
  <2>1. IsFiniteSet(DOMAIN routing_table)
    BY ControllerOrderly, TableIs
  <2>2. \A x \in DOMAIN routing_table :
            routing_table[x].parent \in Below(routing_table, CONTROLLER_ID) \cup {CONTROLLER_ID}
                => x \in Below(routing_table, CONTROLLER_ID)
    BY <2>1, BelowIsClosed
  <2>3. routing_table[d].parent # CONTROLLER_ID =>
            /\ routing_table[d].parent \in DOMAIN routing_table
            /\ routing_table[routing_table[d].parent].parent = CONTROLLER_ID
    BY <1>1, ControllerOrderly
  <2> QED
    BY <2>2, <2>3
<1>2. ASSUME NEW h \in Hubs, NEW d \in DOMAIN hub[h].routing_table
      PROVE  d \in Below(hub[h].routing_table, h)
  <2>1. HubInOrder(h, hub[h]) /\ IsFiniteSet(DOMAIN hub[h].routing_table)
    BY HubOrderly, TableIs
  <2>2. hub[h].routing_table[d].parent = h
    BY <1>2, <2>1 DEF HubInOrder
  <2> QED
    BY <1>2, <2>1, <2>2, BelowIsClosed
<1>3. ASSUME NEW p \in Controls, NEW d \in DOMAIN TableOf(p)
      PROVE  d \in Below(TableOf(p), p)
  BY <1>1, <1>2, <1>3, TableOfIs
<1> QED
  BY <1>3 DEF NoRouteUnreachable

\* At rest everybody knows where everybody is.
LEMMA KnownAtRest ==
    ASSUME TypeOK, TwoLevels, TwoLevelUser, AtRest
    PROVE  /\ Still /\ Known = fifos /\ Known = {d \in Devices : Alive(d)}
           /\ \A d \in Known : routing_table[d].parent = ParentOf(d)
           /\ \A h \in Hubs : /\ Entered(h) = ChildrenOf(h) /\ BelowOf(h) = ChildrenOf(h)
                              /\ Entered(h) \subseteq Leaves \cap Known
                              /\ \A x \in Entered(h) :
                                    hub[h].routing_table[x].parent = h /\ ParentOf(x) = h
<1>1. Still
  BY StillAtRest
<1>2. Known = fifos
  <2>1. user_command = NoRequest
    BY DEF AtRest
  <2>2. \A d : AddCommand(d) # NoRequest
    BY DEF AddCommand, NoRequest
  <2> QED
    BY <2>1, <2>2 DEF TwoLevels, InOrderAlways, Peaceful
<1>3. fifos \subseteq Devices
  BY DEF TypeOK, PipesTypeOK
<1>4. Known = {d \in Devices : Alive(d)}
  BY <1>2, <1>3, ChildrenAre
<1>5. ASSUME NEW d \in Known PROVE routing_table[d].parent = ParentOf(d)
  <2>1. d \in Devices
    BY <1>2, <1>3
  <2>2. CASE d \in Hubs
    BY <2>2, ControllerOrderly, ChildrenAre
  <2>3. CASE d \in Leaves
    BY <1>1, <2>3, ChildrenAre DEF Still, Home, At
  <2> QED
    BY <2>1, <2>2, <2>3, ChildrenAre
<1>6. ASSUME NEW h \in Hubs
      PROVE  /\ Entered(h) = ChildrenOf(h) /\ BelowOf(h) = ChildrenOf(h)
             /\ Entered(h) \subseteq Leaves \cap Known
             /\ \A x \in Entered(h) : hub[h].routing_table[x].parent = h /\ ParentOf(x) = h
  <2>1. h \in Devices /\ h # CONTROLLER_ID
    BY Ids
  <2>2. ChildrenOf(h) = {d \in Leaves : Alive(d) /\ leaf[d].parent_id = h}
        /\ BelowOf(h) = ChildrenOf(h)
    BY <2>1, ChildrenAre, BelowAreChildren
  <2>3. \A x \in Entered(h) : x \in Leaves /\ hub[h].routing_table[x].parent = h
    BY HubOrderly DEF HubInOrder, Entered
  <2>4. \A x \in Leaves : x \in Entered(h) <=> leaf[x].parent_id = h
    BY <1>1 DEF Still, Home, At
  <2>5. \A x \in Leaves : leaf[x].parent_id = h => x \in Known
    BY <2>1 DEF TwoLevels, InOrderAlways, LeafInOrder
  <2>6. \A x \in Leaves : ParentOf(x) = leaf[x].parent_id
    BY ChildrenAre
  <2>7. Entered(h) = ChildrenOf(h)
    BY <1>4, <2>2, <2>3, <2>4, <2>5
  <2> QED
    BY <2>2, <2>3, <2>4, <2>5, <2>6, <2>7
<1> QED
  BY <1>1, <1>2, <1>4, <1>5, <1>6

\* At rest the table of the controller is the topology ...
LEMMA TopologyKnownThen ==
    ASSUME TypeOK, TwoLevels, TwoLevelUser
    PROVE  ControllerKnowsTopology
  BY KnownAtRest DEF ControllerKnowsTopology, InOrder, Known

\* ... and that of a hub its branch ...
LEMMA BranchKnownThen ==
    ASSUME TypeOK, TwoLevels, TwoLevelUser
    PROVE  HubKnowsBranch
<1> SUFFICES ASSUME AtRest, NEW h \in Hubs
             PROVE  LET T == hub[h].routing_table
                    IN  /\ DOMAIN T = BelowOf(h)
                        /\ \A d \in DOMAIN T : T[d].parent = ParentOf(d)
                        /\ hub[h].children = Cardinality(ChildrenOf(h))
                        /\ hub[h].has_children <=> ChildrenOf(h) # {}
  BY DEF HubKnowsBranch, InOrder
<1>1. /\ Entered(h) = ChildrenOf(h) /\ BelowOf(h) = ChildrenOf(h)
      /\ \A x \in Entered(h) : hub[h].routing_table[x].parent = h /\ ParentOf(x) = h
  BY KnownAtRest
<1>2. /\ hub[h].children = Cardinality(Entered(h))
      /\ hub[h].has_children <=> Entered(h) # {}
  BY HubOrderly DEF HubInOrder, Entered
<1> QED
  BY <1>1, <1>2 DEF Entered

\* ... the route of an entry is the open pipe of the next hop ...
LEMMA RoutesThen ==
    ASSUME TypeOK, TwoLevels, TwoLevelUser
    PROVE  RoutesLeadThere
<1> SUFFICES ASSUME AtRest, NEW p \in Controls, NEW d \in DOMAIN TableOf(p)
             PROVE  \E c \in ChildrenOf(p) :
                       files[p][TableOf(p)[d].fd] = Down(c) /\ (c = d \/ d \in BelowOf(c))
  BY DEF RoutesLeadThere, InOrder
<1>1. CASE p # CONTROLLER_ID
  <2>1. p \in Hubs /\ TableOf(p) = hub[p].routing_table
    BY <1>1, TableOfIs
  <2>2. d \in ChildrenOf(p) /\ hub[p].routing_table[d].parent = p
    BY <2>1, KnownAtRest DEF Entered
  <2>3. ChildrenOpen(hub[p].routing_table, p, files[p])
    BY <2>1, HubOrderly DEF HubInOrder, PipesOf
  <2>4. files[p][hub[p].routing_table[d].fd] = Down(d)
    BY <2>1, <2>2, <2>3 DEF ChildrenOpen, Direct
  <2> QED
    BY <2>1, <2>2, <2>4
<1>2. CASE p = CONTROLLER_ID
  <2> DEFINE T == routing_table
             c == IF T[d].parent = CONTROLLER_ID THEN d ELSE T[d].parent
  <2>1. TableOf(p) = T /\ d \in Known
    BY <1>2, TableOfIs DEF Known
  <2>2. /\ c \in Known /\ T[c].parent = CONTROLLER_ID /\ T[d].fd = T[c].fd
    BY <2>1, ControllerOrderly
  <2>3. c \in ChildrenOf(CONTROLLER_ID)
    BY <2>2, KnownAtRest DEF ChildrenOf
  <2>4. files[CONTROLLER_ID][T[d].fd] = Down(c)
    BY <2>2, ControllerOrderly DEF PipesOf, ChildrenOpen, Direct
  <2>5. c = d \/ d \in BelowOf(c)
    <3> SUFFICES ASSUME T[d].parent # CONTROLLER_ID PROVE d \in BelowOf(T[d].parent)
      OBVIOUS
    <3>1. T[d].parent \in Hubs /\ d \in Devices /\ Alive(d) /\ ParentOf(d) = T[d].parent
      BY <2>1, ControllerOrderly, KnownAtRest
    <3>2. d \in ChildrenOf(T[d].parent)
      BY <3>1 DEF ChildrenOf
    <3> QED
      BY <3>1, <3>2, KnownAtRest
  <2> QED
    BY <1>2, <2>1, <2>3, <2>4, <2>5
<1> QED
  BY <1>1, <1>2

\* ... the types of hubs are those of their leaves ...
LEMMA TypesAgreeThen ==
    ASSUME TypeOK, TwoLevels, TwoLevelUser
    PROVE  TypesAgree
<1> SUFFICES ASSUME AtRest, NEW h \in Hubs, Alive(h)
             PROVE  /\ DeclaredType(h) = routing_table[h].type
                    /\ IF LeafKinds(h) = {} THEN IsEmpty(DeclaredType(h))
                       ELSE LeafKinds(h) = {ChildType(DeclaredType(h))}
  BY DEF TypesAgree, InOrder, TwoLevelUser
<1>1. DeclaredType(h) = hub[h].device_type
  BY DEF DeclaredType
<1>2. h \in Known /\ hub[h].device_type = routing_table[h].type
  BY KnownAtRest, Ids DEF Still, Agreed
<1>3. LeafKinds(h) = {Kind[x] : x \in Entered(h)}
  BY KnownAtRest DEF LeafKinds
<1>4. HubInOrder(h, hub[h])
  BY HubOrderly
<1>5. CASE Entered(h) = {}
  <2>1. hub[h].device_type = HUB_DEVICE
    BY <1>4, <1>5, Zenon DEF HubInOrder, Entered
  <2>2. IsEmpty(HUB_DEVICE)
    BY DEF IsEmpty, ChildType, HUB_DEVICE
  <2> QED
    BY <1>1, <1>2, <1>3, <1>5, <2>1, <2>2
<1>6. ASSUME NEW x \in Entered(h)
      PROVE  LeafKinds(h) = {ChildType(hub[h].device_type)}
  <2>1. \A y \in Entered(h) : y \in Leaves /\ hub[h].device_type = HubOr(Kind[y])
    BY <1>4 DEF HubInOrder, Entered
  <2>2. \A y \in Leaves : Kind[y] \in {1, 2}
    BY OwnTypesAre
  <2>3. \A y \in Leaves : HubOr(Kind[y]) = 8 + Kind[y] /\ ChildType(8 + Kind[y]) = Kind[y]
    BY <2>2 DEF HubOr, IsLeaf, HUB_DEVICE, ChildType
  <2>4. \A y \in Entered(h) : Kind[y] = ChildType(hub[h].device_type)
    BY <2>1, <2>3
  <2> QED
    BY <1>3, <1>6, <2>4
<1> QED
  BY <1>1, <1>2, <1>3, <1>5, <1>6

\* ... and only pipes of children are open.
LEMMA ClosedOnceLeftThen ==
    ASSUME TypeOK, TwoLevels, TwoLevelUser
    PROVE  ClosedOnceLeft
<1> SUFFICES ASSUME AtRest, NEW p \in Controls, NEW f \in Fds, files[p][f].dir = "down"
             PROVE  ParentOf(files[p][f].id) = p
  BY DEF ClosedOnceLeft, InOrder
<1>1. PipesOf(TableOf(p), p, files[p])
  <2>1. p \in Hubs => PipesOf(hub[p].routing_table, p, files[p])
    BY HubOrderly DEF HubInOrder
  <2> QED
    BY <2>1, ControllerOrderly, TableOfIs
<1>2. PICK d \in Direct(TableOf(p), p) : TableOf(p)[d].fd = f
  BY <1>1 DEF PipesOf
<1>3. files[p][f] = Down(d) /\ Down(d).id = d
  BY <1>1, <1>2 DEF PipesOf, ChildrenOpen, Down
<1>4. ParentOf(d) = p
  <2>1. CASE p = CONTROLLER_ID
    BY <1>2, <2>1, TableOfIs, KnownAtRest DEF Direct, Known
  <2>2. CASE p # CONTROLLER_ID
    BY <1>2, <2>2, TableOfIs, KnownAtRest DEF Direct, Entered
  <2> QED
    BY <2>1, <2>2
<1> QED
  BY <1>3, <1>4

-----------------------------------------------------------------------------
(* The topology is a tree that links move leaves in.                       *)

TreeOf == [d \in {d \in Devices : Alive(d) /\ ~ToldToExit(d)} |-> ParentOf(d)]

\* Who is in the tree, and who is a child in it.
LEMMA TreeIs ==
    ASSUME TypeOK, TwoLevels, TwoLevelUser
    PROVE  /\ TreeOf = [d \in fifos |-> ParentOf(d)]
           /\ fifos \subseteq Devices
           /\ Topology!Members = fifos
           /\ \A S : Topology!HasChildren(S) <=> \A x \in fifos : ParentOf(x) \in S => x \in S
<1>1. fifos \subseteq Devices
  BY DEF TypeOK, PipesTypeOK
<1>2. {d \in Devices : Alive(d) /\ ~ToldToExit(d)} = fifos
  BY <1>1, ChildrenAre
<1>3. TreeOf = [d \in fifos |-> ParentOf(d)]
  BY <1>2 DEF TreeOf
<1>4. Topology!Members = fifos
  BY <1>2 DEF Topology!Members
<1>5. \A S : Topology!HasChildren(S) <=> \A x \in fifos : ParentOf(x) \in S => x \in S
  BY <1>2 DEF Topology!HasChildren, Topology!Members
<1> QED
  BY <1>1, <1>3, <1>4, <1>5

\* The parents of the members, in this state as in the next.
LEMMA ParentsThen ==
    TypeOK /\ TwoLevels =>
        (TwoLevelUser =>
            /\ TreeOf = [d \in fifos |-> ParentOf(d)]
            /\ \A d \in Hubs : ParentOf(d) = CONTROLLER_ID
            /\ \A d \in Leaves : ParentOf(d) = leaf[d].parent_id)
  BY TreeIs, ChildrenAre

\* What the parents are after a step.
LEMMA NextParents ==
    ASSUME TypeOK', TwoLevels', TwoLevelUser
    PROVE  /\ TreeOf' = [d \in fifos' |-> ParentOf(d)']
           /\ \A d \in Hubs : ParentOf(d)' = CONTROLLER_ID
           /\ \A d \in Leaves : ParentOf(d)' = leaf'[d].parent_id
<1> DEFINE P == /\ TreeOf = [d \in fifos |-> ParentOf(d)]
                /\ \A d \in Hubs : ParentOf(d) = CONTROLLER_ID
                /\ \A d \in Leaves : ParentOf(d) = leaf[d].parent_id
<1>1. TypeOK /\ TwoLevels => (TwoLevelUser => P)
  BY ParentsThen
<1>2. (TypeOK /\ TwoLevels => (TwoLevelUser => P))'
  BY ParentsThen, PTL
<1>3. P'
  BY <1>2
<1> QED
  BY <1>3

\* Nobody is below a leaf in it, and only leaves are below a hub.
LEMMA BranchesAre ==
    ASSUME TypeOK, TwoLevels, TwoLevelUser
    PROVE  /\ \A d \in Leaves \cap fifos : Topology!Branch(d) \subseteq {d}
           /\ \A h \in Hubs \cap fifos :
                 Topology!Branch(h) \subseteq {h} \cup {x \in Leaves : leaf[x].parent_id = h}
<1>1. \A d : Topology!Branch(d) =
         {x \in fifos : \A S \in SUBSET fifos :
             d \in S /\ (\A y \in fifos : ParentOf(y) \in S => y \in S) => x \in S}
  <2>1. \A d : Topology!Branch(d) =
           {x \in Topology!Members : \A S \in SUBSET Topology!Members :
               d \in S /\ Topology!HasChildren(S) => x \in S}
    BY DEF Topology!Branch
  <2> QED
    BY <2>1, TreeIs
<1>2. \A d : \A S \in SUBSET fifos :
         d \in S /\ (\A y \in fifos : ParentOf(y) \in S => y \in S) => Topology!Branch(d) \subseteq S
  <2> TAKE d
  <2> TAKE S \in SUBSET fifos
  <2> HAVE d \in S /\ \A y \in fifos : ParentOf(y) \in S => y \in S
  <2> QED
    BY <1>1
<1>3. \A y \in fifos : ParentOf(y) \in Hosts /\ y \in Devices /\ (y \in Hubs \/ y \in Leaves)
  BY TreeIs, ChildrenAre
<1>4. ASSUME NEW d \in Leaves \cap fifos PROVE Topology!Branch(d) \subseteq {d}
  <2>1. d \notin Hosts
    BY <1>4, Ids DEF Hosts
  <2>2. \A y \in fifos : ParentOf(y) \in {d} => y \in {d}
    BY <1>3, <2>1
  <2>3. {d} \in SUBSET fifos /\ d \in {d}
    BY <1>4
  <2> DEFINE S == {d}
  <2>4. S \in SUBSET fifos /\ d \in S /\ \A y \in fifos : ParentOf(y) \in S => y \in S
    BY <2>2, <2>3
  <2> HIDE DEF S
  <2>5. Topology!Branch(d) \subseteq S
    BY <1>2, <2>4
  <2> QED
    BY <2>5 DEF S
<1>5. ASSUME NEW h \in Hubs \cap fifos
      PROVE  Topology!Branch(h) \subseteq {h} \cup {x \in Leaves : leaf[x].parent_id = h}
  <2> DEFINE S == {h} \cup {x \in Leaves \cap fifos : leaf[x].parent_id = h}
  <2>1. ASSUME NEW y \in fifos, ParentOf(y) \in S PROVE y \in S
    <3>1. ParentOf(y) \in Hosts
      BY <1>3
    <3>2. \A x \in Leaves : x \notin Hosts
      BY Ids DEF Hosts
    <3>3. ParentOf(y) = h
      BY <2>1, <3>1, <3>2
    <3>4. h # CONTROLLER_ID
      BY <1>5, Ids
    <3>5. y \in Leaves /\ leaf[y].parent_id = h
      BY <1>3, <3>3, <3>4, ChildrenAre
    <3> QED
      BY <3>5
  <2>2. S \in SUBSET fifos /\ h \in S
    BY <1>5
  <2> HIDE DEF S
  <2>3. Topology!Branch(h) \subseteq S
    BY <1>2, <2>1, <2>2
  <2> QED
    BY <2>3 DEF S
<1> QED
  BY <1>4, <1>5

\* What is a move in it, in the words of the network.
LEMMA MoveIs ==
    ASSUME TypeOK, TwoLevels, TwoLevelUser, NEW d \in fifos, NEW q \in Controls,
           TreeOf' = [TreeOf EXCEPT ![d] = q],
           q # CONTROLLER_ID => q \in fifos /\ q \notin Topology!Branch(d),
           \A a \in fifos : q \in Topology!Branch(a) =>
               Topology!AtMostOne(Topology!Kinds(Topology!Branch(a) \cup Topology!Branch(d)))
    PROVE  Topology!Move(d, q)
<1>1. Topology!Members = fifos /\ Topology!CONTROLLER_ID = CONTROLLER_ID
  BY TreeIs DEF Topology!CONTROLLER_ID, CONTROLLER_ID
<1>2. q \in Topology!Parents
  BY <1>1, Ids DEF Topology!Parents
<1>3. Topology!Move(d, q) <=>
      /\ d \in Topology!Members /\ q \in Topology!Parents
      /\ TreeOf' = [TreeOf EXCEPT ![d] = q]
      /\ q # Topology!CONTROLLER_ID => q \in Topology!Members /\ q \notin Topology!Branch(d)
      /\ \A a \in Topology!Members : q \in Topology!Branch(a) =>
            Topology!AtMostOne(Topology!Kinds(Topology!Branch(a) \cup Topology!Branch(d)))
  BY Zenon DEF Topology!Move, TreeOf
<1> QED
  BY <1>1, <1>2, <1>3

\* The link of a leaf is a move in it.
LEMMA LinkIsMove ==
    ASSUME TypeOK, TypeOK', TwoLevels, TwoLevels', TwoLevelUser, UNCHANGED <<fifos, hub>>,
           NEW d \in Leaves, NEW p \in Controls, NEW q \in Controls,
           Sent(d, p, q, d), Telling(d, p, q)',
           \A x \in Leaves \ {d} : leaf'[x] = leaf[x]
    PROVE  Topology!Move(d, q)
<1>1. /\ UnderWayTo(d, p, q) /\ MayTakeIn(d, q)
      /\ leaf'[d].parent_id = q
  BY DEF Sent, Asked, Telling, HasMoved, At
<1>2. /\ d \in Known /\ q \in Hosts /\ d \in fifos /\ fifos \subseteq Devices
      /\ \A x \in Leaves \ {d} : Home(x)
  BY <1>1, TreeIs, ChildrenAre DEF UnderWayTo
<1>3. TreeOf' = [TreeOf EXCEPT ![d] = q]
  <2>1. TreeOf' = [x \in fifos |-> ParentOf(x)']
    BY NextParents
  <2>2. TreeOf = [x \in fifos |-> ParentOf(x)]
    BY TreeIs
  <2>3. ParentOf(d)' = q
    BY <1>1, NextParents
  <2>4. ASSUME NEW x \in fifos, x # d PROVE ParentOf(x)' = ParentOf(x)
    <3>1. x \in Hubs => ParentOf(x) = CONTROLLER_ID /\ ParentOf(x)' = CONTROLLER_ID
      BY ChildrenAre, NextParents
    <3>2. x \in Leaves => ParentOf(x) = leaf[x].parent_id /\ ParentOf(x)' = leaf'[x].parent_id
      BY ChildrenAre, NextParents
    <3> QED
      BY <1>2, <2>4, <3>1, <3>2, ChildrenAre
  <2> QED
    BY <1>2, <2>1, <2>2, <2>3, <2>4
<1>4. d \in Devices /\ d \notin Controls /\ Topology!Branch(d) \subseteq {d}
  BY <1>2, BranchesAre, Ids
<1>5. q # CONTROLLER_ID => q \in fifos /\ q \notin Topology!Branch(d)
  <2>1. q # CONTROLLER_ID => q \in Known /\ q # d
    BY <1>2, <1>4 DEF Hosts
  <2> QED
    BY <1>4, <2>1, ChildrenAre
<1>6. \A x \in Leaves : leaf[x].parent_id = q /\ q \in Hubs => Kind[x] = Kind[d]
  <2> TAKE x \in Leaves
  <2>1. CASE x = d
    BY <2>1
  <2>2. ASSUME x # d, leaf[x].parent_id = q, q \in Hubs PROVE Kind[x] = Kind[d]
    <3>1. x \in Entered(q)
      BY <1>2, <2>2 DEF Home, At
    <3> QED
      BY <1>1, <2>2, <3>1 DEF MayTakeIn
  <2> QED
    BY <2>1, <2>2
<1>7. ASSUME NEW a \in fifos, q \in Topology!Branch(a)
      PROVE  Topology!AtMostOne(Topology!Kinds(Topology!Branch(a) \cup Topology!Branch(d)))
  <2>1. a \in Devices /\ (a \in Hubs \/ a \in Leaves)
    BY <1>2, ChildrenAre
  <2>2. q \notin Leaves
    BY Ids
  <2>3. a \in Hubs /\ q = a
    <3>1. a \in Leaves => q \in {a}
      BY <1>7, BranchesAre
    <3>2. a \in Hubs => q \in {a} \cup Leaves
      BY <1>7, BranchesAre
    <3> QED
      BY <2>1, <2>2, <3>1, <3>2
  <2>4. Topology!Branch(a) \subseteq {a} \cup {x \in Leaves : leaf[x].parent_id = a}
    BY <2>3, BranchesAre
  <2> DEFINE B == Topology!Branch(a) \cup Topology!Branch(d)
  <2>5. \A x \in B \cap Leaves : Kind[x] = Kind[d]
    BY <1>4, <1>6, <2>2, <2>3, <2>4
  <2> HIDE DEF B
  <2>6. \A j \in Topology!Kinds(B) : j = Kind[d]
    <3>1. Topology!Kinds(B) = {Kind[x] : x \in B \cap Leaves}
      BY DEF Topology!Kinds
    <3> QED
      BY <2>5, <3>1
  <2>7. Topology!AtMostOne(Topology!Kinds(B))
    BY <2>6 DEF Topology!AtMostOne
  <2> QED
    BY <2>7 DEF B
<1> QED
  BY <1>2, <1>3, <1>5, <1>7, MoveIs

\* Who keeps its parent keeps its place in it.
LEMMA TreeStays ==
    ASSUME TypeOK, TypeOK', TwoLevels, TwoLevels', TwoLevelUser, UNCHANGED fifos,
           \A x \in Leaves : leaf'[x].parent_id = leaf[x].parent_id
    PROVE  UNCHANGED TreeOf
<1>1. TreeOf' = [x \in fifos |-> ParentOf(x)'] /\ TreeOf = [x \in fifos |-> ParentOf(x)]
  BY NextParents, TreeIs
<1>2. ASSUME NEW x \in fifos PROVE ParentOf(x)' = ParentOf(x)
  <2>1. x \in Hubs \/ x \in Leaves
    BY TreeIs, ChildrenAre
  <2>2. x \in Hubs => ParentOf(x) = CONTROLLER_ID /\ ParentOf(x)' = CONTROLLER_ID
    BY ChildrenAre, NextParents
  <2>3. x \in Leaves => ParentOf(x) = leaf[x].parent_id /\ ParentOf(x)' = leaf'[x].parent_id
    BY ChildrenAre, NextParents
  <2> QED
    BY <2>1, <2>2, <2>3
<1> QED
  BY <1>1, <1>2

\* A leaf keeps its parent, but when it is told to move.
LEMMA OnlyLinksMove ==
    ASSUME TypeOK, NEW d \in Leaves, LeafStep(d),
           ~\E m \in First(down[d]) : LeafChangeParent(d, m)
    PROVE  \A x \in Leaves : leaf'[x].parent_id = leaf[x].parent_id
<1> DEFINE Stays == \A x \in Leaves : leaf'[x].parent_id = leaf[x].parent_id
           Own == leaf[d]
           Switched(s, r) == [Own EXCEPT !.pc = "reply", !.state = s, !.response = r]
           TellsToExit(r) == [Own EXCEPT !.pc = "reply", !.force_exit = TRUE, !.response = r]
           LeafRecord == [state : {STATE_OFF, STATE_ON}, parent_id : Controls, force_exit : BOOLEAN,
                          snd : Controls \cup {NoPipe}, pc : {"read", "reply", "blocked"},
                          response : Responses \cup
                              {[NoResponse EXCEPT !.cmd = c] : c \in Commands \cup {"null"}}]
<1>1. leaf = [x \in Leaves |-> leaf[x]] /\ Own \in LeafRecord
  BY DEF TypeOK, LeafTypeOK
<1>2. ASSUME NEW L, LeafSteps(d, L), L.parent_id = Own.parent_id PROVE Stays
  BY <1>1, <1>2 DEF LeafSteps
<1>3. \A p, r, s :
         /\ [Own EXCEPT !.pc = p].parent_id = Own.parent_id
         /\ [Own EXCEPT !.pc = p, !.response = r].parent_id = Own.parent_id
         /\ Switched(s, r).parent_id = Own.parent_id /\ TellsToExit(r).parent_id = Own.parent_id
  BY <1>1
<1> HIDE DEF Stays, LeafRecord
<1>4. \A L : LeafSteps(d, L) /\ L.parent_id = Own.parent_id => Stays
  BY <1>2
<1>5. ASSUME NEW m \in First(down[d]) PROVE LeafInfo(d, m) => Stays
  BY <1>3, <1>4, Zenon DEF LeafInfo
<1>6. ASSUME NEW m \in First(down[d]) PROVE LeafSwitch(d, m) => Stays
  <2>1. LeafSwitch(d, m) => LeafSteps(d, Switched(SwitchedState(d, m.cmd), Response(d, m.cmd, "OK", <<>>)))
    BY Zenon DEF LeafSwitch
  <2> HIDE DEF Switched, TellsToExit
  <2> QED
    BY <2>1, <1>3, <1>4
<1>7. ASSUME NEW m \in First(down[d]) PROVE LeafRefuses(d, m) => Stays
  BY <1>3, <1>4, Zenon DEF LeafRefuses
<1>8. ASSUME NEW m \in First(down[d]) PROVE LeafBlocks(d, m) => Stays
  BY <1>3, <1>4, Zenon DEF LeafBlocks
<1>9. ASSUME NEW m \in First(down[d]) PROVE LeafDelete(d, m) => Stays
  <2>1. LeafDelete(d, m) => LeafSteps(d, TellsToExit(Response(d, "delete", "OK", <<>>)))
    BY Zenon DEF LeafDelete
  <2> HIDE DEF Switched, TellsToExit
  <2> QED
    BY <2>1, <1>3, <1>4
<1>10. ASSUME NEW m \in First(down[d]) PROVE LeafMisrouted(d, m) => Stays
  BY <1>3, <1>4, Zenon DEF LeafMisrouted
<1>11. LeafEndOfFile(d) => Stays
  <2>1. LeafEndOfFile(d) => LeafSteps(d, TellsToExit(Response(d, "null", "UNEXPECTED_END_OF_FILE", <<>>)))
    BY Zenon DEF LeafEndOfFile
  <2> HIDE DEF Switched, TellsToExit
  <2> QED
    BY <2>1, <1>3, <1>4
<1>12. LeafReply(d) => Stays
  BY <1>3, <1>4, Zenon DEF LeafReply
<1>13. Stays
  BY <1>5, <1>6, <1>7, <1>8, <1>9, <1>10, <1>11, <1>12 DEF LeafStep
<1> QED
  BY <1>13 DEF Stays

\* What is a joining of it, in the words of the network: a device that is not
\* there yet has nobody below it.
LEMMA ForkIsJoin ==
    ASSUME TypeOK, TypeOK', TwoLevels, TwoLevels', TwoLevelUser, UNCHANGED leaf,
           NEW d \in Devices \ fifos, fifos' = fifos \cup {d}
    PROVE  Topology!Join(d)
<1>1. Topology!Members = fifos /\ Topology!CONTROLLER_ID = CONTROLLER_ID
      /\ Topology!Devices = Devices
  <2>1. Topology!Devices = (Hubs \cup Timers \cup Leaves) \ {CONTROLLER_ID}
    BY DEF Topology!Devices, Topology!CONTROLLER_ID, CONTROLLER_ID
  <2> QED
    BY <2>1, TreeIs, Ids DEF Topology!CONTROLLER_ID, CONTROLLER_ID, Devices
<1>2. \A x \in fifos : ParentOf(x) \in Hosts /\ ParentOf(x) # d
  <2>1. d \notin Hosts
    BY ChildrenAre, Ids DEF Hosts
  <2> QED
    BY <2>1, TreeIs, ChildrenAre
<1>3. ParentOf(d)' = CONTROLLER_ID
  <2>1. d \in Hubs \/ d \in Leaves
    BY ChildrenAre
  <2>2. CASE d \in Hubs
    BY <2>2, NextParents
  <2>3. CASE d \in Leaves
    <3>1. d \notin Known /\ LeafInOrder(d, leaf[d])
      BY <2>3, ChildrenAre DEF TwoLevels, InOrderAlways
    <3> QED
      BY <2>3, <3>1, NextParents DEF LeafInOrder
  <2> QED
    BY <2>1, <2>2, <2>3
<1>4. ASSUME NEW x \in fifos PROVE ParentOf(x)' = ParentOf(x)
  <2>1. x \in Hubs \/ x \in Leaves
    BY TreeIs, ChildrenAre
  <2>2. x \in Hubs => ParentOf(x) = CONTROLLER_ID /\ ParentOf(x)' = CONTROLLER_ID
    BY ChildrenAre, NextParents
  <2>3. x \in Leaves => ParentOf(x) = leaf[x].parent_id /\ ParentOf(x)' = leaf'[x].parent_id
    BY ChildrenAre, NextParents
  <2> QED
    BY <2>1, <2>2, <2>3
<1>5. TreeOf' = [x \in fifos \cup {d} |-> IF x = d THEN CONTROLLER_ID ELSE TreeOf[x]]
  <2>1. TreeOf' = [x \in fifos \cup {d} |-> ParentOf(x)'] /\ TreeOf = [x \in fifos |-> ParentOf(x)]
    BY NextParents, TreeIs
  <2> QED
    BY <1>3, <1>4, <2>1
<1>6. Topology!Join(d) <=>
      /\ d \in Topology!Devices \ Topology!Members
      /\ TreeOf' = [x \in Topology!Members \cup {d} |->
                       IF x = d THEN Topology!CONTROLLER_ID ELSE TreeOf[x]]
      /\ \A x \in Topology!Members : TreeOf[x] # d
  BY Zenon DEF Topology!Join, TreeOf
<1>7. \A x \in fifos : TreeOf[x] # d
  BY <1>2, TreeIs
<1> QED
  BY <1>1, <1>5, <1>6, <1>7

\* Only a leaf moves itself, and then no device joins.
LEMMA OnlyLeavesMove ==
    ASSUME TypeOK, TwoLevels, TwoLevelUser, [Next]_vars
    PROVE  UNCHANGED leaf \/ (UNCHANGED fifos /\ \E d \in Leaves : LeafProcess(d))
<1>1. CASE UserTypes \/ ManualInteraction \/ ClockTicks \/ UNCHANGED vars
  BY <1>1 DEF UserTypes, ManualInteraction, ClockTicks, vars
<1>2. CASE ControllerStep
  BY <1>2 DEF ControllerStep
<1>3. CASE SystemStep /\ ~ControllerStep
  <2>1. \/ \E d \in Leaves : LeafProcess(d)
        \/ \E h \in Hubs : HubMainThread(h) \/ HubBottomUpThread(h)
        \/ \E t \in Timers : TimerThreads(t)
        \/ \E d \in signalled : Terminates(d)
        \/ \E d \in ToAdd : Starting(d)
    BY <1>3 DEF SystemStep
  <2>2. ASSUME NEW d \in Leaves, LeafProcess(d) PROVE UNCHANGED fifos
    <3>1. \A m : (\/ LeafInfo(d, m) \/ LeafSwitch(d, m) \/ LeafRefuses(d, m)
                  \/ LeafChangeParent(d, m) \/ LeafBlocks(d, m) \/ LeafDelete(d, m)
                  \/ LeafMisrouted(d, m))
             => LeafTakes(d, m)
      BY Zenon DEF LeafInfo, LeafSwitch, LeafRefuses, LeafChangeParent, LeafBlocks, LeafDelete,
         LeafMisrouted
    <3>2. \A m : LeafTakes(d, m) => UNCHANGED fifos
      BY DEF LeafTakes
    <3>3. LeafReply(d) => UNCHANGED fifos
      BY Zenon DEF LeafReply
    <3>4. LeafEndOfFile(d) => UNCHANGED fifos
      BY DEF LeafEndOfFile, pipes
    <3>5. LeafStep(d)
      BY <2>2 DEF LeafProcess
    <3>6. \/ \E m : \/ LeafInfo(d, m) \/ LeafSwitch(d, m) \/ LeafRefuses(d, m)
                  \/ LeafChangeParent(d, m) \/ LeafBlocks(d, m) \/ LeafDelete(d, m)
                  \/ LeafMisrouted(d, m)
          \/ LeafEndOfFile(d)
          \/ LeafReply(d)
      BY <3>5, Zenon DEF LeafStep
    <3> QED
      BY <3>1, <3>2, <3>3, <3>4, <3>6
  <2>3. CASE \E h \in Hubs : HubMainThread(h) \/ HubBottomUpThread(h)
    BY <2>3 DEF HubMainThread, HubBottomUpThread
  <2>4. ~\E t \in Timers : TimerThreads(t)
    BY DEF TwoLevelUser
  <2>5. ~\E d \in signalled : Terminates(d)
    BY NobodyDies
  <2>6. CASE \E d \in ToAdd : Starting(d)
    BY <2>6 DEF Starting
  <2> QED
    BY <2>1, <2>2, <2>3, <2>4, <2>5, <2>6
<1> QED
  BY <1>1, <1>2, <1>3, NobodyDies DEF Next

\* Every step of the network is one of the tree, or none.
LEMMA NextInTree ==
    ASSUME TypeOK, TypeOK', TwoLevels, TwoLevels', TwoLevelUser, [Next]_vars
    PROVE  Topology!Next \/ UNCHANGED TreeOf
<1>1. CASE AddForks
  <2> DEFINE d == user_command.dst
  <2>1. d \in Devices /\ d \in Absent /\ fifos' = fifos \cup {d} /\ UNCHANGED leaf
    <3>1. d \in Absent /\ fifos' = fifos \cup {d}
      BY <1>1, Zenon DEF AddForks
    <3>2. d \in Devices /\ d \notin fifos
      BY <1>1, <3>1, AddsADevice DEF TypeOK, TwoLevels, InOrderAlways, Peaceful
    <3> QED
      BY <3>1, <3>2, OnlyLeavesMove
  <2> HIDE DEF d
  <2>2. d \in Devices \ fifos
    BY <2>1 DEF TwoLevels, InOrderAlways, Peaceful
  <2>3. Topology!Join(d)
    BY <2>1, <2>2, ForkIsJoin
  <2>4. d \in Topology!Devices
    BY <2>3, Zenon DEF Topology!Join
  <2> QED
    BY <2>3, <2>4, Zenon DEF Topology!Next
<1>2. CASE ~AddForks
  <2>1. fifos = Devices \ Absent /\ fifos' = Devices \ Absent'
    BY DEF TwoLevels, InOrderAlways, Peaceful
  <2>2. \A d \in Devices : exit_code'[d] = "absent" <=> exit_code[d] = "absent"
    BY <1>2, OnlyForksStart
  <2>3. UNCHANGED fifos
    BY <2>1, <2>2 DEF Absent
  <2>4. UNCHANGED leaf => UNCHANGED TreeOf
    BY <2>3, TreeStays
  <2>5. UNCHANGED leaf \/ \E d \in Leaves : LeafProcess(d)
    BY OnlyLeavesMove
  <2>6. ASSUME NEW d \in Leaves, LeafProcess(d)
        PROVE  Topology!Next \/ UNCHANGED TreeOf
    <3>1. LeafStep(d) /\ UNCHANGED <<controllerVars, hub, histories>>
      BY <2>6 DEF LeafProcess
    <3>2. CASE \E m \in First(down[d]) : LeafChangeParent(d, m)
      <4>1. /\ \E p \in Controls, q \in Controls : Sent(d, p, q, d) /\ Telling(d, p, q)'
            /\ \A x \in Leaves \ {d} : leaf'[x] = leaf[x]
        BY <3>1, <3>2, LeafMoves
      <4>2. PICK p \in Controls, q \in Controls : Sent(d, p, q, d) /\ Telling(d, p, q)'
        BY <4>1
      <4>3. Topology!Move(d, q)
        BY <2>3, <3>1, <4>1, <4>2, LinkIsMove
      <4>4. d \in Topology!Members /\ q \in Topology!Parents
        BY <4>3, Zenon DEF Topology!Move
      <4> QED
        BY <4>3, <4>4, Zenon DEF Topology!Next
    <3>3. CASE ~\E m \in First(down[d]) : LeafChangeParent(d, m)
      <4>1. \A x \in Leaves : leaf'[x].parent_id = leaf[x].parent_id
        BY <3>1, <3>3, OnlyLinksMove
      <4> QED
        BY <2>3, <4>1, TreeStays
    <3> QED
      BY <3>2, <3>3
  <2> QED
    BY <2>4, <2>5, <2>6
<1> QED
  BY <1>1, <1>2

\* At first all devices but those to be added are there, below the controller.
LEMMA InitInTree ==
    ASSUME Init, TypeOK, TwoLevels, TwoLevelUser
    PROVE  Topology!Init
<1>1. TreeOf = [d \in fifos |-> ParentOf(d)] /\ fifos \subseteq Devices
  BY TreeIs
<1>2. ASSUME NEW d \in fifos PROVE ParentOf(d) = CONTROLLER_ID
  <2>1. d \in Hubs \/ d \in Leaves
    BY <1>1, ChildrenAre
  <2>2. \A x \in Leaves : leaf[x].parent_id = CONTROLLER_ID
    BY DEF Init
  <2> QED
    BY <2>1, <2>2, ChildrenAre
<1>3. TreeOf = [d \in fifos |-> CONTROLLER_ID]
  BY <1>1, <1>2
<1>4. Topology!CONTROLLER_ID = CONTROLLER_ID /\ Topology!Devices = Devices
  <2>1. Topology!Devices = (Hubs \cup Timers \cup Leaves) \ {CONTROLLER_ID}
    BY DEF Topology!Devices, Topology!CONTROLLER_ID, CONTROLLER_ID
  <2> QED
    BY <2>1, Ids DEF Topology!CONTROLLER_ID, CONTROLLER_ID, Devices
<1>5. Topology!Init <=>
      \E S \in SUBSET Topology!Devices : TreeOf = [d \in S |-> Topology!CONTROLLER_ID]
  BY Zenon DEF Topology!Init, TreeOf
<1> QED
  BY <1>1, <1>3, <1>4, <1>5

\* Of a user who keeps to two levels the network is a tree at every moment, as
\* Tree describes it: a leaf that takes in its change parent request moves in
\* it, whatever the requests and answers under way, and nothing else does.
THEOREM ImplementsTree == TwoLevelUser => (Spec => RefinesTree)
<1> SUFFICES ASSUME TwoLevelUser PROVE Spec => RefinesTree
  OBVIOUS
<1>1. Init /\ TypeOK /\ TwoLevels => Topology!Init
  BY InitInTree
<1>2. /\ TypeOK /\ TypeOK' /\ TwoLevels /\ TwoLevels' /\ [Next]_vars
      => [Topology!Next]_TreeOf
  BY NextInTree
<1> QED
  BY <1>1, <1>2, TypeCorrect, TwoLevelsAlways, PTL DEF Spec, RefinesTree, Topology!Spec, TreeOf

-----------------------------------------------------------------------------
(* The properties of the network of a user who keeps to two levels.        *)

\* Whatever is moved and whatever the answers under way, some parent keeps the
\* down pipe of a device open: its read never returns an end of file, on which
\* the device would exit (UNEXPECTED_END_OF_FILE).
THEOREM StrandsNobody == TwoLevelUser => (Spec => []NoDeviceStranded)
<1> SUFFICES ASSUME TwoLevelUser PROVE Spec => []NoDeviceStranded
  OBVIOUS
<1>1. TypeOK /\ TwoLevels => NoDeviceStranded
  BY NoDeviceStrandedThen
<1> QED
  BY <1>1, TypeCorrect, TwoLevelsAlways, PTL

\* A hub never counts fewer children than are next to it in its table, so that
\* it never ends the wait of a broadcast before all of them have answered.
THEOREM CountersCover == TwoLevelUser => (Spec => []CounterCoversChildren)
<1> SUFFICES ASSUME TwoLevelUser PROVE Spec => []CounterCoversChildren
  OBVIOUS
<1>1. TypeOK /\ TwoLevels => CounterCoversChildren
  BY CounterThen
<1> QED
  BY <1>1, TypeCorrect, TwoLevelsAlways, PTL

\* No entry of the controller's table is out of reach of the walk up to the
\* controller, on which its search for a route relies to end.
THEOREM KeepsRoutes == TwoLevelUser => (Spec => []NoRouteUnreachable)
<1> SUFFICES ASSUME TwoLevelUser PROVE Spec => []NoRouteUnreachable
  OBVIOUS
<1>1. TypeOK /\ TwoLevels => NoRouteUnreachable
  BY ReachableThen
<1> QED
  BY <1>1, TypeCorrect, TwoLevelsAlways, PTL

\* The check of the types before a link is sent is enough: by the time the link
\* has been answered the hub still has leaves of that kind only.
THEOREM KindsNeverMix == TwoLevelUser => (Spec => []OneKindPerHub)
<1> SUFFICES ASSUME TwoLevelUser PROVE Spec => []OneKindPerHub
  OBVIOUS
<1>1. TypeOK /\ TwoLevels => OneKindPerHub
  BY OneKindThen
<1> QED
  BY <1>1, TypeCorrect, TwoLevelsAlways, PTL

\* When no answer is under way any more, the table of the controller, which is
\* all that the user sees and that links and exits are checked against, is the
\* topology: every device has its entry, with its parent.
THEOREM ControllerKnows == TwoLevelUser => (Spec => []ControllerKnowsTopology)
<1> SUFFICES ASSUME TwoLevelUser PROVE Spec => []ControllerKnowsTopology
  OBVIOUS
<1>1. TypeOK /\ TwoLevels => ControllerKnowsTopology
  BY TopologyKnownThen
<1> QED
  BY <1>1, TypeCorrect, TwoLevelsAlways, PTL

\* And what a hub knows, from the responses that went by and the remove child
\* requests it was sent, is what is below it: its table, its count of children
\* and whether it has any.
THEOREM HubsKnow == TwoLevelUser => (Spec => []HubKnowsBranch)
<1> SUFFICES ASSUME TwoLevelUser PROVE Spec => []HubKnowsBranch
  OBVIOUS
<1>1. TypeOK /\ TwoLevels => HubKnowsBranch
  BY BranchKnownThen
<1> QED
  BY <1>1, TypeCorrect, TwoLevelsAlways, PTL

\* And the descriptor in the entry of a device is the down pipe of the child by
\* way of which that device is reached, though the lowest free descriptor is used
\* again by whatever is opened next.
THEOREM RoutesLead == TwoLevelUser => (Spec => []RoutesLeadThere)
<1> SUFFICES ASSUME TwoLevelUser PROVE Spec => []RoutesLeadThere
  OBVIOUS
<1>1. TypeOK /\ TwoLevels => RoutesLeadThere
  BY RoutesThen
<1> QED
  BY <1>1, TypeCorrect, TwoLevelsAlways, PTL

\* And the type a hub answers for is the one the controller has for it and that
\* of the leaves below it: the remove child response carries what is left.
THEOREM TypesAlwaysAgree == TwoLevelUser => (Spec => []TypesAgree)
<1> SUFFICES ASSUME TwoLevelUser PROVE Spec => []TypesAgree
  OBVIOUS
<1>1. TypeOK /\ TwoLevels => TypesAgree
  BY TypesAgreeThen
<1> QED
  BY <1>1, TypeCorrect, TwoLevelsAlways, PTL

\* And nobody keeps a descriptor of a pipe of a device that is not its child any
\* more: what has been opened by a link is closed by the next.
THEOREM ClosesWhenLeft == TwoLevelUser => (Spec => []ClosedOnceLeft)
<1> SUFFICES ASSUME TwoLevelUser PROVE Spec => []ClosedOnceLeft
  OBVIOUS
<1>1. TypeOK /\ TwoLevels => ClosedOnceLeft
  BY ClosedOnceLeftThen
<1> QED
  BY <1>1, TypeCorrect, TwoLevelsAlways, PTL

=============================================================================
