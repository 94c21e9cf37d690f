------------------------------ MODULE HubProofs ------------------------------
(***************************************************************************)
(* Every step of a hub leaves it, its pipes and its descriptors typed: its *)
(* threads always have the request, the response and the route that their  *)
(* next step needs, and what it writes is a message the reader can take.   *)
(* No step resets force_exit: a hub that has to end will.                  *)
(***************************************************************************)
EXTENDS Hub, PipesProofs

\* G differs from H in nothing that the main thread's next step needs.
SameThread(G, H) == G.pc = H.pc /\ G.request = H.request /\ G.response = H.response

\* What touches only what the hub knows leaves its main thread ready.
LEMMA SameThreadReady ==
    ASSUME NEW H, HubReady(H), NEW G, SameThread(G, H)
    PROVE  HubReady(G)
  BY DEF SameThread, HubReady

\* A step of one hub leaves the others typed.
LEMMA HubStepTyped ==
    ASSUME HubTypeOK, NEW h \in Hubs, NEW new, HubTyped(new), HubReady(new), HubStep(h, new)
    PROVE  HubTypeOK'
<1>1. hub' = [g \in Hubs |-> IF g = h THEN new ELSE hub[g]]
  BY DEF HubTypeOK, HubStep
<1>2. \A g \in Hubs : HubTyped(hub[g]) /\ HubReady(hub[g])
  BY DEF HubTypeOK
<1>3. \A g \in Hubs : HubTyped(hub'[g]) /\ HubReady(hub'[g])
  BY <1>1, <1>2
<1>4. hub' = [g \in Hubs |-> hub'[g]]
  BY <1>1
<1> QED
  BY <1>3, <1>4 DEF HubTypeOK, HubTyped, HubReady

\* The fields of a hub.
LEMMA HubFields ==
    ASSUME NEW H, HubTyped(H)
    PROVE  /\ H.device_type \in 8 .. 15
           /\ H.children \in 0 .. ChildrenModulus - 1
           /\ {H.has_children, H.parent_changed, H.remove_child_succeed, H.force_exit} \subseteq BOOLEAN
           /\ H.parent_id \in Controls
           /\ H.pending \in Seq(Pendings) /\ H.snd \in Fds \cup {NoFd}
           /\ H.pc \in TopDownPcs /\ H.bottom_pc \in {"read", "exit", "blocked"}
           /\ H.request \in Requests \cup {NoRequest} /\ H.response \in Responses \cup {NoResponse}
           /\ H.route \in Fds \cup {NoFd}
           /\ IsTable(H.routing_table, Hubs \cup Timers)
  BY DEF HubTyped, HUB_DEVICE, TIMER_DEVICE

\* What a hub writes to its parent is responses.
LEMMA WriteUpIs ==
    ASSUME NEW F, NEW H, NEW q \in [Controls -> Seq(Responses)], NEW ms \in Seq(Responses)
    PROVE  WriteUp(F, H, q, ms) \in [Controls -> Seq(Responses)]
  BY SendUpIs DEF WriteUp

\* The bottom-up thread.
LEMMA BottomUpTyped ==
    ASSUME PipesTypeOK, HubTypeOK, NEW h \in Hubs, NEW r, NEW H, NEW F, NEW ms,
           HubTyped(H), HubReady(H), F \in [Fds -> Ends], ms \in Seq(Responses),
           BottomUp(h, r, H, F, ms)
    PROVE  PipesTypeOK' /\ HubTypeOK'
<1> DEFINE next == [H EXCEPT !.bottom_pc = IF @ = "read" /\ H.force_exit THEN "exit" ELSE @]
           q == [up EXCEPT ![h] = Tail(@)]
<1>1. HubTyped(next)
  BY DEF HubTyped
<1>2. SameThread(next, H)
  BY DEF HubTyped, SameThread
<1>3. HubReady(next)
  BY <1>2, SameThreadReady
<1>4. HubStep(h, next)
  BY DEF BottomUp
<1>5. HubTypeOK'
  <2> HIDE DEF next
  <2> QED
    BY <1>1, <1>3, <1>4, HubStepTyped
<1>6. h \in Controls /\ up[h] \in Seq(Responses) /\ up[h] # <<>>
  BY Ids DEF PipesTypeOK, BottomUp
<1>7. Tail(up[h]) \in Seq(Responses)
  BY <1>6, TailTyped
<1>8. q \in [Controls -> Seq(Responses)]
  BY <1>6, <1>7 DEF PipesTypeOK
<1>9. up' = WriteUp(F, H, q, ms)
  BY DEF BottomUp
<1>10. up' \in [Controls -> Seq(Responses)]
  <2> HIDE DEF q
  <2> QED
    BY <1>8, <1>9, WriteUpIs
<1>11. files' \in [Controls -> [Fds -> Ends]]
  BY DEF PipesTypeOK, BottomUp
<1>12. UNCHANGED <<down, exit_code, fifos>>
  BY DEF BottomUp
<1> QED
  BY <1>5, <1>10, <1>11, <1>12 DEF PipesTypeOK

-----------------------------------------------------------------------------
(* Pending responses.                                                      *)

LEMMA CollectableIs ==
    /\ Collectable \subseteq Commands /\ Collectable \cap Links = {}
    /\ Switches \subseteq Commands /\ Links \subseteq Commands /\ Registries \subseteq Commands
    /\ Switches \cap Links = {} /\ Registries \cap Links = {} /\ "info" \notin Switches
    /\ {"info", "delete"} \subseteq Commands
    /\ {"info", "delete"} \cap (Links \cup Registries \cup Switches) = {}
    /\ "null" \notin Commands
    /\ "OK" \in ErrorCodes
  BY DEF Collectable, Commands, Links, Switches, PowerSwitches, DoorSwitches, Registries, ErrorCodes

\* What a device answers a hub with, merged with what others have.
LEMMA MergedIs ==
    ASSUME NEW old \in STATE_OFF .. UNDEFINED_STATE, NEW new \in STATE_OFF .. UNDEFINED_STATE
    PROVE  Merged(old, new) \in STATE_OFF .. UNDEFINED_STATE
  BY DEF Merged, STATE_OFF, UNDEFINED_STATE, STATE_MANUAL_OVERRIDE

\* Ticking an answer off a pending response leaves a pending response.
LEMMA UpdatePendingTyped ==
    ASSUME NEW H, NEW p \in Pendings, NEW r \in Responses
    PROVE  UpdatePending(H, p, r) \in Pendings
<1> DEFINE state == IF r.cmd = "info" /\ r.args # <<>> THEN Merged(p.state, r.args[1]) ELSE p.state
           e == p.has_error \/ r.code # "OK"
                  \/ (/\ r.src \in DOMAIN H.routing_table
                      /\ IsHub(H.routing_table[r.src].type)
                      /\ Len(r.args) = IF r.cmd = "info" THEN 2 ELSE 1
                      /\ Last(r.args) = CHILD_ERROR)
<1>1. p \in [cmd : Collectable, devices : SUBSET Devices, has_error : BOOLEAN,
             state : STATE_OFF .. UNDEFINED_STATE]
  BY DEF Pendings
<1>2. state \in STATE_OFF .. UNDEFINED_STATE
  BY <1>1, ResponseFields, MergedIs
<1>3. e \in BOOLEAN
  OBVIOUS
<1>4. UpdatePending(H, p, r) =
          [p EXCEPT !.devices = p.devices \ {r.src}, !.state = state, !.has_error = e]
  BY Zenon DEF UpdatePending
<1> HIDE DEF state, e
<1> QED
  BY <1>1, <1>2, <1>3, <1>4 DEF Pendings

\* The answer to what a hub has collected is a response.
LEMMA CollectedTyped ==
    ASSUME NEW h \in Hubs, NEW p \in Pendings, NEW args \in Seq(Nat)
    PROVE  Collected(h, p, args) \in Responses
<1> DEFINE told == CASE p.cmd = "info" /\ p.has_error -> <<p.state, CHILD_ERROR>>
                     [] p.cmd = "info" /\ ~p.has_error -> <<p.state>>
                     [] p.cmd # "info" /\ p.has_error -> <<CHILD_ERROR>>
                     [] p.cmd = "delete" /\ ~p.has_error -> args
                     [] OTHER -> <<>>
<1>1. /\ p.cmd \in Collectable /\ p.has_error \in BOOLEAN
      /\ p.state \in STATE_OFF .. UNDEFINED_STATE /\ p.state \in Nat /\ CHILD_ERROR \in Nat
  BY DEF Pendings, STATE_OFF, UNDEFINED_STATE, CHILD_ERROR
<1>2. told \in Seq(Nat) /\ (p.cmd = "info" => told[1] = p.state)
  <2>1. <<p.state, CHILD_ERROR>> \in Seq(Nat) /\ <<p.state>> \in Seq(Nat)
        /\ <<CHILD_ERROR>> \in Seq(Nat) /\ <<>> \in Seq(Nat)
    BY <1>1
  <2>2. CASE p.cmd = "info" /\ p.has_error
    <3>1. told = <<p.state, CHILD_ERROR>>
      BY <2>2
    <3> QED
      BY <2>1, <3>1
  <2>3. CASE p.cmd = "info" /\ ~p.has_error
    <3>1. told = <<p.state>>
      BY <2>3
    <3> QED
      BY <2>1, <3>1
  <2>4. CASE p.cmd # "info" /\ p.has_error
    BY <2>1, <2>4
  <2>5. CASE p.cmd = "delete" /\ ~p.has_error
    BY <2>5
  <2>6. CASE p.cmd \notin {"info", "delete"} /\ ~p.has_error
    BY <2>1, <2>6
  <2> QED
    BY <1>1, <2>2, <2>3, <2>4, <2>5, <2>6
<1>3. Collected(h, p, args) = Response(h, p.cmd, "OK", told)
  BY DEF Collected
<1>4. h \in Devices
  BY Ids
<1> HIDE DEF told
<1> QED
  BY <1>1, <1>2, <1>3, <1>4, CollectableIs, PlainResponse

\* Some positions of a sequence are a sequence of its elements.
LEMMA ThoseAtTyped ==
    ASSUME NEW S, NEW s \in Seq(S), NEW I \in SUBSET DOMAIN s
    PROVE  ThoseAt(s, I) \in Seq(S)
<1> DEFINE order == InIdOrder(I)
<1>1. DOMAIN s = 1 .. Len(s) /\ Len(s) \in Nat
  OBVIOUS
<1>2. IsFiniteSet(I) /\ I \in SUBSET Nat
  <2>1. IsFiniteSet(1 .. Len(s))
    BY <1>1, FS_Interval
  <2> QED
    BY <1>1, <2>1, FS_Subset
<1>3. order \in [1 .. Cardinality(I) -> I] /\ Cardinality(I) \in Nat
  BY <1>2, InIdOrderIs
<1> HIDE DEF order
<1>4. \A n \in 1 .. Cardinality(I) : s[order[n]] \in S
  BY <1>3
<1>5. [n \in DOMAIN order |-> s[order[n]]] \in Seq(S)
  BY <1>3, <1>4
<1> QED
  BY <1>5 DEF ThoseAt, order

\* What check_complete_and_send makes of a hub and of what it still awaits.
LEMMA WaivedTyped ==
    ASSUME NEW H, HubTyped(H), NEW d
    PROVE  HubTyped(Waived(H, d)) /\ SameThread(Waived(H, d), H)
<1> DEFINE I == {i \in DOMAIN H.pending : H.pending[i].devices # {d}}
           kept == ThoseAt(H.pending, I)
           pending == [i \in DOMAIN kept |-> [kept[i] EXCEPT !.devices = @ \ {d}]]
           told == H.force_exit \/ \E p \in Range(H.pending) :
                                       p.cmd = "delete" /\ p.devices = {d}
<1>1. kept \in Seq(Pendings)
  BY HubFields, ThoseAtTyped
<1>2. Waived(H, d) = [H EXCEPT !.pending = pending, !.force_exit = told]
  BY DEF HubTyped, Waived
<1> HIDE DEF kept
<1>3. pending \in Seq(Pendings)
  <2>1. ASSUME NEW i \in DOMAIN kept
        PROVE  [kept[i] EXCEPT !.devices = @ \ {d}] \in Pendings
    <3> DEFINE p == kept[i]
    <3>1. p \in Pendings
      BY <1>1
    <3> HIDE DEF p
    <3>2. [p EXCEPT !.devices = @ \ {d}] \in Pendings
      BY <3>1 DEF Pendings
    <3> QED
      BY <3>2 DEF p
  <2> QED
    BY <1>1, <2>1
<1>4. told \in BOOLEAN
  BY HubFields
<1> HIDE DEF pending, told
<1> QED
  BY <1>2, <1>3, <1>4 DEF HubTyped, SameThread

\* What is complete once a device has left is responses, to commands that were
\* pending.
LEMMA WaivedResponsesTyped ==
    ASSUME NEW h \in Hubs, NEW H, HubTyped(H), NEW d, NEW args \in Seq(Nat)
    PROVE  /\ WaivedResponses(h, H, d, args) \in Seq(Responses)
           /\ \A S : H.pending \in Seq(S) =>
                 \A n \in DOMAIN WaivedResponses(h, H, d, args) :
                    \E p \in S : WaivedResponses(h, H, d, args)[n].cmd = p.cmd
<1> DEFINE done == ThoseAt(H.pending, {i \in DOMAIN H.pending : H.pending[i].devices = {d}})
           N == Len(done)
           base == Response(h, "null", "OK", args)
           E(n, r) == Collected(h, done[n], r.args)
           D(f) == f = [n \in 0 .. N |-> IF n = 0 THEN base ELSE E(n, f[n - 1])]
           answer == CHOOSE f : D(f)
           step == [n \in 1 .. N |-> [r \in Responses |-> E(n, r)]]
<1>1. done \in Seq(Pendings) /\ N \in Nat /\ DOMAIN done = 1 .. N
  BY HubFields, ThoseAtTyped
<1>2. WaivedResponses(h, H, d, args) = [n \in DOMAIN done |-> answer[n]]
  BY DEF WaivedResponses
<1>3. h \in Devices
  BY Ids
<1>4. \A S : H.pending \in Seq(S) => \A n \in DOMAIN done : done[n] \in S
  <2> SUFFICES ASSUME NEW S, H.pending \in Seq(S) PROVE \A n \in DOMAIN done : done[n] \in S
    OBVIOUS
  <2>1. done \in Seq(S)
    BY ThoseAtTyped
  <2> HIDE DEF done
  <2> QED
    BY <2>1
<1> HIDE DEF done
<1>5. base \in Responses
  BY <1>3, CollectableIs, PlainResponse
<1>6. \A n \in 1 .. N : \A r \in Responses : E(n, r) \in Responses
  <2> SUFFICES ASSUME NEW n \in 1 .. N, NEW r \in Responses PROVE E(n, r) \in Responses
    OBVIOUS
  <2>1. done[n] \in Pendings
    BY <1>1
  <2>2. r.args \in Seq(Nat)
    BY ResponseFields
  <2> QED
    BY <2>1, <2>2, CollectedTyped
<1>7. \A n \in 1 .. N : \A r : E(n, r).cmd = done[n].cmd
  BY DEF Collected, Response
<1> HIDE DEF N, base, E
<1>8. step \in [1 .. N -> [Responses -> Responses]]
  BY <1>6
<1>9. PICK g : IsIteration(g, N, Responses, base, step)
  <2> HIDE DEF step
  <2> QED
    BY <1>1, <1>5, <1>8, Iteration
<1>10. g \in [0 .. N -> Responses] /\ g[0] = base /\ \A n \in 1 .. N : g[n] = step[n][g[n - 1]]
  BY <1>9 DEF IsIteration
<1>11. \A n \in 1 .. N : g[n - 1] \in Responses
  <2>1. \A n \in 1 .. N : n - 1 \in 0 .. N
    BY <1>1
  <2> QED
    BY <1>10, <2>1
<1>12. D(g)
  <2>1. ASSUME NEW n \in 0 .. N
        PROVE  g[n] = IF n = 0 THEN base ELSE E(n, g[n - 1])
    <3>1. CASE n = 0
      BY <1>10, <3>1
    <3>2. CASE n # 0
      <4>1. n \in 1 .. N
        BY <1>1, <3>2
      <4>2. g[n] = step[n][g[n - 1]] /\ g[n - 1] \in Responses
        BY <1>10, <1>11, <4>1
      <4>3. g[n] = E(n, g[n - 1])
        BY <4>1, <4>2
      <4> QED
        BY <3>2, <4>3
    <3> QED
      BY <3>1, <3>2
  <2> HIDE DEF step
  <2> QED
    BY <1>10, <2>1
<1> HIDE DEF D
<1>13. D(answer)
  BY <1>12
<1> HIDE DEF answer
<1>14. answer = [n \in 0 .. N |-> IF n = 0 THEN base ELSE E(n, answer[n - 1])]
  BY <1>13 DEF D
<1> DEFINE P == {n \in 0 .. N : answer[n] \in Responses}
<1>15. 0 \in P
  BY <1>1, <1>5, <1>14
<1>16. \A n \in 1 .. N : n - 1 \in P => n \in P
  <2> SUFFICES ASSUME NEW n \in 1 .. N, n - 1 \in P PROVE n \in P
    OBVIOUS
  <2>1. n \in 0 .. N /\ n # 0
    BY <1>1
  <2>2. answer[n] = E(n, answer[n - 1])
    BY <1>14, <2>1
  <2> QED
    BY <1>6, <2>1, <2>2
<1>17. 0 .. N \subseteq P
  <2> HIDE DEF P
  <2> QED
    BY <1>1, <1>15, <1>16, InductTo
<1>18. \A n \in 1 .. N : answer[n] \in Responses
  BY <1>1, <1>17
<1>19. [n \in DOMAIN done |-> answer[n]] \in Seq(Responses)
  BY <1>1, <1>18
<1>20. \A n \in DOMAIN done : answer[n].cmd = done[n].cmd
  <2>1. \A n \in 1 .. N : n \in 0 .. N /\ n # 0
    BY <1>1
  <2>2. \A n \in 1 .. N : answer[n] = E(n, answer[n - 1])
    BY <1>14, <2>1
  <2> QED
    BY <1>1, <1>7, <2>2
<1> QED
  BY <1>2, <1>4, <1>19, <1>20

-----------------------------------------------------------------------------
(* The branch.                                                             *)

LEMMA UpdateTypeTyped ==
    ASSUME NEW h, NEW H, HubTyped(H), NEW d
    PROVE  HubTyped(UpdateType(h, H, d)) /\ SameThread(UpdateType(h, H, d), H)
  BY DEF UpdateType, HubTyped, SameThread, HUB_DEVICE, TIMER_DEVICE

\* The children counter stays within its width, wrapping or not.
LEMMA ChildLostTyped ==
    ASSUME NEW H, HubTyped(H)
    PROVE  HubTyped(ChildLost(H)) /\ SameThread(ChildLost(H), H)
           /\ ChildLost(H).routing_table = H.routing_table
<1> DEFINE left == (H.children - 1) % ChildrenModulus
<1>1. left \in 0 .. ChildrenModulus - 1
  BY HubFields, ChildrenModulusAssumption
<1>2. ChildLost(H) = [H EXCEPT !.children = left, !.has_children = @ /\ left # 0]
  BY DEF ChildLost
<1> HIDE DEF left
<1> QED
  BY <1>1, <1>2 DEF HubTyped, SameThread

\* A hub with another table.
LEMMA RetabledTyped ==
    ASSUME NEW H, HubTyped(H), NEW T, IsTable(T, Hubs \cup Timers)
    PROVE  LET G == [H EXCEPT !.routing_table = T]
           IN  HubTyped(G) /\ SameThread(G, H)
  BY DEF HubTyped, SameThread

\* remove_child keeps the hub typed; it can fail to find the child or its descriptor.
LEMMA RemoveChildTyped ==
    ASSUME NEW h, NEW H, HubTyped(H), NEW F \in [Fds -> Ends], NEW d, NEW via
    PROVE  LET gone == RemoveChild(h, H, F, d, via)
           IN  /\ HubTyped(gone.hub) /\ SameThread(gone.hub, H)
               /\ gone.files \in [Fds -> Ends]
               /\ gone.code \in {"OK", "CHILD_NOT_FOUND", "UNABLE_TO_CLOSE_PIPE"}
<1> DEFINE T == H.routing_table
           entry == T[d]
           counted == IF via = h THEN ChildLost(H) ELSE H
           left == UpdateTypeToEmpty(RemoveRoute(T, d, via), entry.parent)
           removed == [counted EXCEPT !.routing_table = left]
           gone == RemoveChild(h, H, F, d, via)
<1>1. HubTyped(counted) /\ SameThread(counted, H) /\ counted.routing_table = T
  BY ChildLostTyped DEF SameThread
<1>2. CASE d \notin DOMAIN T
  <2>1. gone = [code |-> "CHILD_NOT_FOUND", hub |-> H, files |-> F]
    BY <1>2 DEF RemoveChild
  <2> QED
    BY <2>1 DEF SameThread
<1>3. CASE d \in DOMAIN T /\ entry.parent = h /\ ~IsOpen(F, entry.fd)
  <2>1. gone = [code |-> "UNABLE_TO_CLOSE_PIPE", hub |-> counted, files |-> F]
    BY <1>3 DEF RemoveChild
  <2> QED
    BY <1>1, <2>1
<1>4. CASE d \in DOMAIN T /\ ~(entry.parent = h /\ ~IsOpen(F, entry.fd))
  <2> DEFINE files2 == IF entry.parent = h THEN Close(F, entry.fd) ELSE F
  <2>1. gone = [code |-> "OK", hub |-> UpdateType(h, removed, d), files |-> files2]
    <3>1. gone = [code |-> "OK",
                  hub |-> UpdateType(h, [counted EXCEPT !.routing_table =
                       UpdateTypeToEmpty(RemoveRoute(@, d, via), entry.parent)], d),
                  files |-> files2]
      BY <1>4 DEF RemoveChild
    <3> QED
      BY <1>1, <3>1
  <2>2. IsTable(T, Hubs \cup Timers) /\ Hubs \cup Timers \subseteq Controls
    BY HubFields, Ids
  <2>3. entry.parent \in Controls
    BY <1>4, <2>2, TableIs
  <2>4. IsTable(left, Hubs \cup Timers)
    <3> DEFINE U == RemoveRoute(T, d, via)
    <3>1. IsTable(U, Hubs \cup Timers)
      BY <2>2, RemoveRouteTyped
    <3> HIDE DEF U
    <3>2. IsTable(UpdateTypeToEmpty(U, entry.parent), Hubs \cup Timers)
      BY <2>2, <2>3, <3>1, ToEmptyTyped
    <3> QED
      BY <3>2 DEF U
  <2>5. HubTyped(removed) /\ SameThread(removed, H)
    <3> HIDE DEF counted, left
    <3>1. HubTyped(removed) /\ SameThread(removed, counted)
      BY <1>1, <2>4, RetabledTyped
    <3> HIDE DEF removed
    <3> QED
      BY <1>1, <3>1 DEF SameThread
  <2>6. files2 \in [Fds -> Ends]
    BY OpenAtIs, EndsAre
  <2>7. HubTyped(UpdateType(h, removed, d)) /\ SameThread(UpdateType(h, removed, d), H)
    <3> HIDE DEF removed
    <3>1. HubTyped(UpdateType(h, removed, d)) /\ SameThread(UpdateType(h, removed, d), removed)
      BY <2>5, UpdateTypeTyped
    <3> QED
      BY <2>5, <3>1 DEF SameThread
  <2> HIDE DEF gone, files2, removed
  <2> QED
    BY <2>1, <2>6, <2>7 DEF gone
<1> QED
  BY <1>2, <1>3, <1>4

\* The type a child gives its hub is a type of hubs.
LEMMA HubOrIs ==
    ASSUME NEW d \in Devices, NEW type \in OwnTypes(d)
    PROVE  HubOr(type) \in 8 .. 15
<1>1. type \in {1, 2} \cup (8 .. 15)
  BY OwnTypesAre DEF Devices
<1> QED
  BY <1>1 DEF HubOr, IsLeaf, HUB_DEVICE

\* add_child of a device that came to this hub keeps the hub typed.
LEMMA AddDirectChildTyped ==
    ASSUME NEW h \in Hubs, NEW H, HubTyped(H), NEW F \in [Fds -> Ends], FreeFds(F) # {},
           NEW d \in Devices, NEW type \in OwnTypes(d)
    PROVE  LET added == AddDirectChild(h, H, F, d, type)
           IN  /\ HubTyped(added.hub) /\ SameThread(added.hub, H)
               /\ added.files \in [Fds -> Ends]
               /\ added.code \in {"OK", "UNABLE_TO_CLOSE_PIPE"}
<1> DEFINE fd == LowestFree(F)
           T == InsertDirect(H.routing_table, d, type, h, fd)
           known == d \in DOMAIN H.routing_table /\ H.routing_table[d].parent = h
           opened == OpenAt(F, fd, Down(d))
           old == H.routing_table[d].fd
           files2 == IF known THEN Close(opened, old) ELSE opened
           code == IF known /\ ~IsOpen(opened, old) THEN "UNABLE_TO_CLOSE_PIPE" ELSE "OK"
           device_type == IF H.device_type = HUB_DEVICE THEN HubOr(type) ELSE H.device_type
           has_children == H.has_children \/ H.device_type = HUB_DEVICE
           children == (H.children + 1) % ChildrenModulus
           G == [H EXCEPT !.routing_table = T, !.has_children = has_children,
                          !.device_type = device_type, !.children = children]
<1>1. AddDirectChild(h, H, F, d, type) = [hub |-> G, code |-> code, files |-> files2]
  BY Zenon DEF AddDirectChild
<1>2. fd \in Fds
  BY LowestFreeIs
<1>3. IsTable(T, Hubs \cup Timers)
  <2> HIDE DEF fd
  <2> QED
    BY <1>2, HubFields, InsertDirectTyped
<1>4. device_type \in HUB_DEVICE .. TIMER_DEVICE + 3
  BY HubFields, HubOrIs DEF HUB_DEVICE, TIMER_DEVICE
<1>5. children \in 0 .. ChildrenModulus - 1
  BY HubFields, ChildrenModulusAssumption
<1>6. has_children \in BOOLEAN
  BY HubFields
<1>7. files2 \in [Fds -> Ends]
  <2> HIDE DEF old, known, fd
  <2>1. opened \in [Fds -> Ends]
    BY EndsAre, OpenAtIs
  <2> HIDE DEF opened
  <2>2. Close(opened, old) \in [Fds -> Ends]
    BY <2>1, EndsAre, OpenAtIs
  <2> QED
    BY <2>1, <2>2
<1>8. code \in {"OK", "UNABLE_TO_CLOSE_PIPE"}
  OBVIOUS
<1> HIDE DEF T, device_type, children, has_children, files2, code, known
<1>9. HubTyped(G) /\ SameThread(G, H)
  BY <1>3, <1>4, <1>5, <1>6 DEF HubTyped, SameThread
<1> HIDE DEF G
<1> QED
  BY <1>1, <1>7, <1>8, <1>9

\* add_child of a device that came to a descendant keeps the hub typed.
LEMMA AddIndirectChildTyped ==
    ASSUME NEW H, HubTyped(H), NEW d \in Devices, NEW type \in OwnTypes(d),
           NEW p \in Controls
    PROVE  /\ HubTyped(AddIndirectChild(H, d, type, p))
           /\ SameThread(AddIndirectChild(H, d, type, p), H)
<1> DEFINE U == InsertIndirect(H.routing_table, d, type, p)
           T == UpdateTypeToNotEmpty(U, d)
           device_type == IF H.device_type = HUB_DEVICE THEN HubOr(type) ELSE H.device_type
           G == [H EXCEPT !.routing_table = T, !.device_type = device_type]
<1>1. CASE p \in DOMAIN H.routing_table
  <2>1. AddIndirectChild(H, d, type, p) = G
    BY <1>1, Zenon DEF AddIndirectChild
  <2> DEFINE P == Hubs \cup Timers
  <2>2. IsTable(H.routing_table, P) /\ P \subseteq Controls
    BY HubFields, Ids
  <2>3. p \in P
    <3>1. p \in Devices
      BY <1>1, <2>2, TableIs
    <3> QED
      BY <3>1, Ids
  <2> HIDE DEF P
  <2>4. IsTable(U, P)
    BY <2>2, <2>3, InsertIndirectTyped
  <2>5. d \in DOMAIN U
    BY <1>1 DEF InsertIndirect, InsertRoute
  <2> HIDE DEF U
  <2>6. IsTable(T, P)
    BY <2>2, <2>4, <2>5, ToNotEmptyTyped
  <2>7. device_type \in HUB_DEVICE .. TIMER_DEVICE + 3
    BY HubFields, HubOrIs DEF HUB_DEVICE, TIMER_DEVICE
  <2> HIDE DEF T, device_type
  <2>8. HubTyped(G) /\ SameThread(G, H)
    BY <2>6, <2>7 DEF HubTyped, SameThread, P
  <2> HIDE DEF G
  <2> QED
    BY <2>1, <2>8
<1>2. CASE p \notin DOMAIN H.routing_table
  BY <1>2 DEF AddIndirectChild, SameThread
<1> QED
  BY <1>1, <1>2

\* Forgetting a device that left the branch keeps the hub typed.
LEMMA ForgetChildTyped ==
    ASSUME NEW h, NEW H, HubTyped(H), NEW d, NEW source \in Controls
    PROVE  HubTyped(ForgetChild(h, H, d, source)) /\ SameThread(ForgetChild(h, H, d, source), H)
<1> DEFINE U == RemoveRoute(H.routing_table, d, source)
           T == UpdateTypeToEmpty(U, source)
           G == [H EXCEPT !.routing_table = T]
<1>1. ForgetChild(h, H, d, source) = UpdateType(h, G, d)
  BY Zenon DEF ForgetChild
<1>2. IsTable(U, Hubs \cup Timers) /\ Hubs \cup Timers \subseteq Controls
  BY HubFields, RemoveRouteTyped, Ids
<1> HIDE DEF U
<1>3. IsTable(T, Hubs \cup Timers)
  BY <1>2, ToEmptyTyped
<1> HIDE DEF T
<1>4. HubTyped(G) /\ SameThread(G, H)
  BY <1>3, RetabledTyped
<1> HIDE DEF G
<1>5. HubTyped(UpdateType(h, G, d)) /\ SameThread(UpdateType(h, G, d), G)
  BY <1>4, UpdateTypeTyped
<1> QED
  BY <1>1, <1>4, <1>5 DEF SameThread

-----------------------------------------------------------------------------
(* The steps of the bottom-up thread.                                      *)

LEMMA OneIsSeq == ASSUME NEW S, NEW x \in S PROVE <<x>> \in Seq(S) /\ <<>> \in Seq(S)
  OBVIOUS

\* Every step of the bottom-up thread starts from a response, a typed hub and
\* typed descriptors.
LEMMA HubBottomUpStarts ==
    ASSUME PipesTypeOK, HubTypeOK, NEW h \in Hubs, NEW r \in First(up[h])
    PROVE  /\ r \in Responses /\ HubTyped(hub[h]) /\ HubReady(hub[h])
           /\ files[h] \in [Fds -> Ends] /\ h \in Devices /\ h \in Controls
<1>1. h \in Devices /\ h \in Controls
  BY Ids
<1>2. up[h] \in Seq(Responses) /\ files[h] \in [Fds -> Ends]
  BY <1>1 DEF PipesTypeOK
<1>3. r \in Responses
  BY <1>2, TailTyped DEF First
<1> QED
  BY <1>1, <1>2, <1>3 DEF HubTypeOK

\* A step of bottom_up_handler keeps pipes and hubs typed.
LEMMA HubBottomUpTyped ==
    ASSUME PipesTypeOK, HubTypeOK, NEW h \in Hubs, HubBottomUp(h)
    PROVE  PipesTypeOK' /\ HubTypeOK'
<1>1. PICK r \in First(up[h]) :
        \/ HubGarbled(h, r) \/ HubDirectChildAdded(h, r) \/ HubIndirectChildAdded(h, r)
        \/ HubChildForgotten(h, r) \/ HubPendingAnswered(h, r)
        \/ HubChildDeleted(h, r) \/ HubPassesOn(h, r)
  BY DEF HubBottomUp
<1> DEFINE H == hub[h]
           F == files[h]
<1>2. /\ r \in Responses /\ HubTyped(H) /\ HubReady(H)
      /\ F \in [Fds -> Ends] /\ h \in Devices /\ h \in Controls
  BY HubBottomUpStarts
<1>3. <<r>> \in Seq(Responses) /\ <<>> \in Seq(Responses)
  BY <1>2
<1>4. /\ r.src \in Devices /\ r.args \in Seq(Nat)
      /\ r.cmd \in Links /\ r.code = "OK" =>
            /\ r.args[2] \in OwnTypes(r.src)
            /\ r.cmd = "change_parent" => r.args[1] \in Controls
            /\ r.cmd = "remove_child" => r.src \in Controls
  BY <1>2, ResponseFields, Ids
<1>5. "change_parent" \in Links /\ "remove_child" \in Links
  BY DEF Links
<1>6. \A code \in {"UNABLE_TO_CLOSE_PIPE", "UNABLE_TO_OPEN_PIPE", "ROUTE_NOT_FOUND"} :
          <<[r EXCEPT !.code = code]>> \in Seq(Responses)
  <2> TAKE code \in {"UNABLE_TO_CLOSE_PIPE", "UNABLE_TO_OPEN_PIPE", "ROUTE_NOT_FOUND"}
  <2>1. code \in ErrorCodes /\ code # "OK"
    BY DEF ErrorCodes
  <2>2. [r EXCEPT !.code = code] \in Responses
    BY <1>2, <2>1, ResponseWithError
  <2> QED
    BY <2>2, OneIsSeq
<1>7. r.code = "OK" => <<[r EXCEPT !.code = "OK"]>> \in Seq(Responses)
  <2>1. r.code = "OK" => [r EXCEPT !.code = "OK"] = r
    BY <1>2, ResponseFields
  <2> QED
    BY <1>3, <2>1
<1>8. CASE HubGarbled(h, r)
  <2>1. Response(h, "null", "RESPONSE_FORMAT_ERROR", <<>>) \in Responses
    <3>1. "null" \notin Links /\ "RESPONSE_FORMAT_ERROR" \in ErrorCodes
      BY DEF Links, ErrorCodes
    <3> QED
      BY <1>2, <3>1, EmptyResponse
  <2> DEFINE ms == <<Response(h, "null", "RESPONSE_FORMAT_ERROR", <<>>)>>
  <2>2. ms \in Seq(Responses)
    BY <2>1, OneIsSeq
  <2>3. BottomUp(h, r, H, F, ms)
    BY <1>8 DEF HubGarbled
  <2> HIDE DEF ms
  <2> QED
    BY <1>2, <2>2, <2>3, BottomUpTyped
<1>9. CASE HubDirectChildAdded(h, r)
  <2> DEFINE added == AddDirectChild(h, H, F, r.src, r.args[2])
             waiting == [H EXCEPT !.bottom_pc = "blocked"]
             refused == <<[r EXCEPT !.code = "UNABLE_TO_OPEN_PIPE"]>>
             passed == <<[r EXCEPT !.code = added.code]>>
  <2>1. r.cmd = "change_parent" /\ r.code = "OK"
    BY <1>9 DEF HubDirectChildAdded
  <2>2. \/ BottomUp(h, r, waiting, F, <<>>)
        \/ DownOpens(F, r.src) /\ BottomUp(h, r, added.hub, added.files, passed)
        \/ BottomUp(h, r, H, F, refused)
    BY <1>9 DEF HubDirectChildAdded
  <2>3. CASE BottomUp(h, r, waiting, F, <<>>)
    <3>1. HubTyped(waiting) /\ SameThread(waiting, H)
      BY <1>2 DEF HubTyped, SameThread
    <3> HIDE DEF waiting
    <3>2. HubReady(waiting)
      BY <1>2, <3>1, SameThreadReady
    <3> QED
      BY <1>2, <1>3, <2>3, <3>1, <3>2, BottomUpTyped
  <2>4. CASE DownOpens(F, r.src) /\ BottomUp(h, r, added.hub, added.files, passed)
    <3>1. FreeFds(F) # {} /\ r.args[2] \in OwnTypes(r.src)
      BY <1>4, <1>5, <2>1, <2>4 DEF DownOpens
    <3>2. /\ HubTyped(added.hub) /\ SameThread(added.hub, H)
          /\ added.files \in [Fds -> Ends]
          /\ added.code \in {"OK", "UNABLE_TO_CLOSE_PIPE"}
      BY <1>2, <1>4, <3>1, AddDirectChildTyped, Zenon
    <3> HIDE DEF added
    <3>3. HubReady(added.hub)
      BY <1>2, <3>2, SameThreadReady
    <3>4. passed \in Seq(Responses)
      BY <1>6, <1>7, <2>1, <3>2
    <3> HIDE DEF passed
    <3> QED
      BY <2>4, <3>2, <3>3, <3>4, BottomUpTyped
  <2>5. CASE BottomUp(h, r, H, F, refused)
    <3>1. refused \in Seq(Responses)
      BY <1>6
    <3> HIDE DEF refused
    <3> QED
      BY <1>2, <2>5, <3>1, BottomUpTyped
  <2> QED
    BY <2>2, <2>3, <2>4, <2>5
<1>10. CASE HubIndirectChildAdded(h, r)
  <2> DEFINE code == IF r.args[1] \in DOMAIN H.routing_table THEN "OK" ELSE "ROUTE_NOT_FOUND"
             G == AddIndirectChild(H, r.src, r.args[2], r.args[1])
             ms == <<[r EXCEPT !.code = code]>>
  <2>1. r.cmd = "change_parent" /\ r.code = "OK" /\ BottomUp(h, r, G, F, ms)
    BY <1>10 DEF HubIndirectChildAdded
  <2>2. HubTyped(G) /\ SameThread(G, H)
    BY <1>2, <1>4, <1>5, <2>1, AddIndirectChildTyped
  <2> HIDE DEF G
  <2>3. HubReady(G)
    BY <1>2, <2>2, SameThreadReady
  <2>4. ms \in Seq(Responses)
    BY <1>6, <1>7, <2>1
  <2> HIDE DEF ms
  <2> QED
    BY <1>2, <2>1, <2>2, <2>3, <2>4, BottomUpTyped
<1>11. CASE HubChildForgotten(h, r)
  <2> DEFINE G == ForgetChild(h, H, r.args[1], r.src)
             refused == <<[r EXCEPT !.code = "ROUTE_NOT_FOUND"]>>
  <2>1. r.cmd = "remove_child" /\ r.code = "OK"
        /\ (BottomUp(h, r, G, F, <<r>>) \/ BottomUp(h, r, H, F, refused))
    BY <1>11 DEF HubChildForgotten
  <2>2. HubTyped(G) /\ SameThread(G, H)
    BY <1>2, <1>4, <1>5, <2>1, ForgetChildTyped
  <2> HIDE DEF G
  <2>3. HubReady(G)
    BY <1>2, <2>2, SameThreadReady
  <2>4. refused \in Seq(Responses)
    BY <1>6
  <2> HIDE DEF refused
  <2>5. CASE BottomUp(h, r, G, F, <<r>>)
    BY <1>2, <1>3, <2>2, <2>3, <2>5, BottomUpTyped
  <2>6. CASE BottomUp(h, r, H, F, refused)
    BY <1>2, <2>4, <2>6, BottomUpTyped
  <2> QED
    BY <2>1, <2>5, <2>6
<1>12. CASE HubPendingAnswered(h, r)
  <2> DEFINE i == Waiting(h, r)
             p == UpdatePending(H, H.pending[i], r)
             G1 == [H EXCEPT !.pending[i] = p]
             G2 == [H EXCEPT !.pending = RemoveAt(@, i), !.force_exit = @ \/ r.cmd = "delete"]
             ms == <<Collected(h, p, r.args)>>
  <2>1. i # 0 /\ (BottomUp(h, r, G1, F, <<>>) \/ BottomUp(h, r, G2, F, ms))
    BY <1>12 DEF HubPendingAnswered
  <2>2. H.pending \in Seq(Pendings)
    BY <1>2, HubFields
  <2>3. i \in DOMAIN H.pending
    <3> DEFINE found == {j \in DOMAIN H.pending : r.src \in H.pending[j].devices
                                                 /\ H.pending[j].cmd \in {r.cmd}}
    <3>1. found # {} /\ i = Min(found)
      BY <2>1 DEF Waiting, FindPending
    <3>2. found \in SUBSET Nat /\ found \subseteq DOMAIN H.pending
      BY <2>2
    <3> HIDE DEF found
    <3> QED
      BY <3>1, <3>2, MinIs
  <2> HIDE DEF i
  <2>4. H.pending[i] \in Pendings
    BY <2>2, <2>3
  <2>5. p \in Pendings
    BY <1>2, <2>4, UpdatePendingTyped
  <2> HIDE DEF p
  <2>6. HubTyped(G1) /\ SameThread(G1, H)
    <3> DEFINE pending == [H.pending EXCEPT ![i] = p]
    <3>1. pending \in Seq(Pendings)
      BY <2>2, <2>3, <2>5
    <3>2. G1 = [H EXCEPT !.pending = pending]
      BY <1>2 DEF HubTyped
    <3> HIDE DEF pending, G1
    <3> QED
      BY <1>2, <3>1, <3>2 DEF HubTyped, SameThread
  <2>7. HubTyped(G2) /\ SameThread(G2, H)
    <3> DEFINE pending == RemoveAt(H.pending, i)
    <3>1. pending \in Seq(Pendings)
      BY <2>2, <2>3, RemoveAtIs
    <3>2. G2 = [H EXCEPT !.pending = pending, !.force_exit = H.force_exit \/ r.cmd = "delete"]
      BY <1>2 DEF HubTyped
    <3> HIDE DEF pending, G2
    <3> QED
      BY <1>2, <3>1, <3>2 DEF HubTyped, SameThread
  <2>8. ms \in Seq(Responses)
    BY <1>4, <2>5, CollectedTyped, OneIsSeq
  <2> HIDE DEF G1, G2, ms
  <2>9. HubReady(G1) /\ HubReady(G2)
    BY <1>2, <2>6, <2>7, SameThreadReady
  <2>10. CASE BottomUp(h, r, G1, F, <<>>)
    BY <1>2, <1>3, <2>6, <2>9, <2>10, BottomUpTyped
  <2>11. CASE BottomUp(h, r, G2, F, ms)
    BY <1>2, <2>7, <2>8, <2>9, <2>11, BottomUpTyped
  <2> QED
    BY <2>1, <2>10, <2>11
<1>13. CASE HubChildDeleted(h, r)
  <2> DEFINE via == IF r.src \in DOMAIN H.routing_table
                    THEN H.routing_table[r.src].parent ELSE h
             gone == RemoveChild(h, H, F, r.src, via)
             G == Waived(gone.hub, r.src)
             ms == <<r>> \o WaivedResponses(h, gone.hub, r.src, r.args)
  <2>1. BottomUp(h, r, G, gone.files, ms)
    BY <1>13 DEF HubChildDeleted
  <2>2. /\ HubTyped(gone.hub) /\ SameThread(gone.hub, H)
        /\ gone.files \in [Fds -> Ends]
    <3> HIDE DEF via
    <3> QED
      BY <1>2, RemoveChildTyped, Zenon
  <2> HIDE DEF gone
  <2>3. HubTyped(G) /\ SameThread(G, H)
    BY <2>2, WaivedTyped DEF SameThread
  <2>4. ms \in Seq(Responses)
    BY <1>3, <1>4, <2>2, WaivedResponsesTyped, ConcatProperties
  <2> HIDE DEF G, ms
  <2>5. HubReady(G)
    BY <1>2, <2>3, SameThreadReady
  <2> QED
    BY <2>1, <2>2, <2>3, <2>4, <2>5, BottomUpTyped
<1>14. CASE HubPassesOn(h, r)
  <2>1. BottomUp(h, r, H, F, <<r>>)
    BY <1>14 DEF HubPassesOn
  <2> QED
    BY <1>2, <1>3, <2>1, BottomUpTyped
<1> QED
  BY <1>1, <1>8, <1>9, <1>10, <1>11, <1>12, <1>13, <1>14

-----------------------------------------------------------------------------
(* The steps of the main thread.                                           *)

LEMMA TopDownTyped ==
    ASSUME PipesTypeOK, HubTypeOK, NEW h \in Hubs, NEW new, HubTyped(new), HubReady(new),
           HubStep(h, new),
           down' \in [Devices -> Seq(Requests)], up' \in [Controls -> Seq(Responses)],
           files' \in [Controls -> [Fds -> Ends]], UNCHANGED <<exit_code, fifos>>
    PROVE  PipesTypeOK' /\ HubTypeOK'
<1>1. HubTypeOK'
  BY HubStepTyped
<1> QED
  BY <1>1 DEF PipesTypeOK

\* A hub that has a response to write is ready to.
LEMMA ReplyingTyped ==
    ASSUME NEW H, HubTyped(H), NEW r \in Responses
    PROVE  HubTyped(Replying(H, r)) /\ HubReady(Replying(H, r))
<1>1. "reply" \in TopDownPcs
  BY DEF TopDownPcs
<1> QED
  BY <1>1 DEF HubTyped, HubReady, Replying

\* A hub that reads on needs nothing.
LEMMA ResumedTyped ==
    ASSUME NEW H, HubTyped(H)
    PROVE  HubTyped(Resumed(H)) /\ HubReady(Resumed(H))
<1>1. "read" \in TopDownPcs /\ "exit" \in TopDownPcs
  BY DEF TopDownPcs
<1> QED
  BY <1>1 DEF HubTyped, HubReady, Resumed

\* The main thread on its way, with request m, to a step that needs it.
LEMMA OnItsWay ==
    ASSUME NEW H, HubTyped(H), NEW m \in Requests,
           NEW pc \in {"send", "forward", "remove", "type"},
           pc = "forward" => m.cmd \in Collectable,
           pc = "remove" => m.cmd = "remove_child",
           pc = "type" => m.cmd \in Links
    PROVE  LET G == [H EXCEPT !.pc = pc, !.request = m]
           IN  HubTyped(G) /\ HubReady(G)
<1>1. pc \in TopDownPcs
  BY DEF TopDownPcs
<1> QED
  BY <1>1 DEF HubTyped, HubReady

\* What the main thread has read.
LEMMA TopDownReadsTyped ==
    ASSUME PipesTypeOK, HubTypeOK, NEW h \in Hubs, NEW m, TopDownReads(h, m)
    PROVE  /\ m \in Requests /\ down' \in [Devices -> Seq(Requests)]
           /\ up' \in [Controls -> Seq(Responses)] /\ UNCHANGED <<exit_code, fifos>>
           /\ HubTyped(hub[h]) /\ HubReady(hub[h])
           /\ files[h] \in [Fds -> Ends] /\ files \in [Controls -> [Fds -> Ends]]
           /\ h \in Devices /\ h \in Controls
<1>1. h \in Devices /\ h \in Controls
  BY Ids
<1>2. down[h] \in Seq(Requests) /\ down[h] # <<>> /\ m = Head(down[h])
  BY <1>1 DEF PipesTypeOK, TopDownReads
<1>3. m \in Requests /\ Tail(down[h]) \in Seq(Requests)
  BY <1>2, TailTyped
<1>4. down' \in [Devices -> Seq(Requests)]
  BY <1>3 DEF PipesTypeOK, TopDownReads
<1>5. up' \in [Controls -> Seq(Responses)] /\ UNCHANGED <<exit_code, fifos>>
  BY DEF PipesTypeOK, TopDownReads
<1>6. HubTyped(hub[h]) /\ HubReady(hub[h])
  BY DEF HubTypeOK
<1>7. files[h] \in [Fds -> Ends] /\ files \in [Controls -> [Fds -> Ends]]
  BY <1>1 DEF PipesTypeOK
<1> QED
  BY <1>1, <1>3, <1>4, <1>5, <1>6, <1>7

\* link_change_parent keeps pipes and hubs typed.
LEMMA HubChangeParentTyped ==
    ASSUME PipesTypeOK, HubTypeOK, NEW h \in Hubs, NEW m, HubChangeParent(h, m)
    PROVE  PipesTypeOK' /\ HubTypeOK'
<1> DEFINE H == hub[h]
           F == files[h]
           moves == m.arg # H.parent_id
           opens == UpOpens(m.arg) /\ FreeFds(F) # {}
           closes == H.snd # NoFd /\ IsOpen(F, H.snd)
           fd == LowestFree(F)
           opened == OpenAt(F, fd, Up(m.arg))
           failed == Response(h, m.cmd, IF opens THEN "UNABLE_TO_CLOSE_PIPE"
                                                 ELSE "UNABLE_TO_OPEN_PIPE", <<>>)
           typed == [H EXCEPT !.pc = "type", !.request = m]
           G1 == [H EXCEPT !.pc = "blocked"]
           G2 == [Replying(H, failed) EXCEPT !.snd = NoFd]
           G3 == [Replying(H, failed) EXCEPT !.snd = fd]
           G4 == [typed EXCEPT !.snd = fd, !.parent_id = m.arg, !.parent_changed = TRUE]
<1>1. TopDownReads(h, m) /\ m.cmd = "change_parent"
  BY DEF HubChangeParent
<1>2. /\ m \in Requests /\ down' \in [Devices -> Seq(Requests)]
      /\ up' \in [Controls -> Seq(Responses)] /\ UNCHANGED <<exit_code, fifos>>
      /\ HubTyped(H) /\ HubReady(H)
      /\ F \in [Fds -> Ends] /\ files \in [Controls -> [Fds -> Ends]]
      /\ h \in Devices /\ h \in Controls
  BY <1>1, TopDownReadsTyped
<1>3. \/ HubStep(h, typed) /\ UNCHANGED files
      \/ HubStep(h, G1) /\ UNCHANGED files
      \/ HubStep(h, G2) /\ UNCHANGED files
      \/ opens /\ HubStep(h, G3) /\ files' = [files EXCEPT ![h] = opened]
      \/ opens /\ HubStep(h, G4) /\ files' = [files EXCEPT ![h] = Close(opened, H.snd)]
  BY Zenon DEF HubChangeParent
<1>4. HubTyped(typed) /\ HubReady(typed)
  <2>1. m.cmd \in Links
    BY <1>1 DEF Links
  <2> QED
    BY <1>2, <2>1, OnItsWay
<1>5. HubTyped(G1) /\ HubReady(G1)
  <2>1. "blocked" \in TopDownPcs
    BY DEF TopDownPcs
  <2> QED
    BY <1>2, <2>1 DEF HubTyped, HubReady
<1>6. failed \in Responses
  <2>1. "UNABLE_TO_CLOSE_PIPE" \in ErrorCodes /\ "UNABLE_TO_OPEN_PIPE" \in ErrorCodes
        /\ m.cmd \in Commands
    BY <1>2, RequestFields DEF ErrorCodes
  <2> HIDE DEF opens
  <2> QED
    BY <1>2, <2>1, EmptyResponse
<1>7. HubTyped(Replying(H, failed)) /\ HubReady(Replying(H, failed))
  <2> HIDE DEF failed
  <2> QED
    BY <1>2, <1>6, ReplyingTyped
<1>8. HubTyped(G2) /\ HubReady(G2)
  <2> DEFINE G == Replying(H, failed)
  <2> HIDE DEF G
  <2>1. HubTyped(G) /\ HubReady(G)
    BY <1>7 DEF G
  <2>2. HubTyped([G EXCEPT !.snd = NoFd]) /\ HubReady([G EXCEPT !.snd = NoFd])
    BY <2>1 DEF HubTyped, HubReady
  <2> QED
    BY <2>2 DEF G
<1>9. m.arg \in Controls
  BY <1>1, <1>2, RequestFields
<1>10. ASSUME opens
       PROVE  /\ HubTyped(G3) /\ HubReady(G3) /\ HubTyped(G4) /\ HubReady(G4)
              /\ opened \in [Fds -> Ends] /\ Close(opened, H.snd) \in [Fds -> Ends]
  <2>1. fd \in Fds
    BY <1>10, LowestFreeIs
  <2> HIDE DEF fd
  <2>2. HubTyped(G3) /\ HubReady(G3)
    <3> DEFINE G == Replying(H, failed)
    <3> HIDE DEF G
    <3>1. HubTyped(G) /\ HubReady(G)
      BY <1>7 DEF G
    <3>2. HubTyped([G EXCEPT !.snd = fd]) /\ HubReady([G EXCEPT !.snd = fd])
      BY <2>1, <3>1 DEF HubTyped, HubReady
    <3> QED
      BY <3>2 DEF G
  <2>3. HubTyped(G4) /\ HubReady(G4)
    <3> HIDE DEF typed
    <3> QED
      BY <1>4, <1>9, <2>1 DEF HubTyped, HubReady
  <2>4. opened \in [Fds -> Ends]
    BY <1>2, <1>9, EndsAre, OpenAtIs
  <2>5. Close(opened, H.snd) \in [Fds -> Ends]
    <3> HIDE DEF opened
    <3> QED
      BY <2>4, EndsAre, OpenAtIs
  <2> QED
    BY <2>2, <2>3, <2>4, <2>5
<1> HIDE DEF H, F, opens, fd, opened, failed, typed, G1, G2, G3, G4
<1>11. CASE HubStep(h, typed) /\ UNCHANGED files
  BY <1>2, <1>4, <1>11, TopDownTyped
<1>12. CASE HubStep(h, G1) /\ UNCHANGED files
  BY <1>2, <1>5, <1>12, TopDownTyped
<1>13. CASE HubStep(h, G2) /\ UNCHANGED files
  BY <1>2, <1>8, <1>13, TopDownTyped
<1>14. CASE opens /\ HubStep(h, G3) /\ files' = [files EXCEPT ![h] = opened]
  <2>1. files' \in [Controls -> [Fds -> Ends]]
    BY <1>2, <1>10, <1>14
  <2> QED
    BY <1>2, <1>10, <1>14, <2>1, TopDownTyped
<1>15. CASE opens /\ HubStep(h, G4) /\ files' = [files EXCEPT ![h] = Close(opened, H.snd)]
  <2>1. files' \in [Controls -> [Fds -> Ends]]
    BY <1>2, <1>10, <1>15
  <2> QED
    BY <1>2, <1>10, <1>15, <2>1, TopDownTyped
<1> QED
  BY <1>3, <1>11, <1>12, <1>13, <1>14, <1>15

\* What the main thread does with any other request for the hub.
LEMMA HubRequestTyped ==
    ASSUME PipesTypeOK, HubTypeOK, NEW h \in Hubs, NEW m,
           \/ HubForwards(h, m) \/ HubRemoves(h, m) \/ HubAnswersChildless(h, m)
           \/ HubRefuses(h, m)
    PROVE  PipesTypeOK' /\ HubTypeOK'
<1> DEFINE H == hub[h]
<1>1. TopDownReads(h, m) /\ UNCHANGED files
  BY DEF HubForwards, HubRemoves, HubAnswersChildless, HubRefuses
<1>2. /\ m \in Requests /\ down' \in [Devices -> Seq(Requests)]
      /\ up' \in [Controls -> Seq(Responses)] /\ UNCHANGED <<exit_code, fifos>>
      /\ HubTyped(H) /\ HubReady(H) /\ files' \in [Controls -> [Fds -> Ends]]
      /\ h \in Devices /\ h \in Controls
  BY <1>1, TopDownReadsTyped
<1>3. m.cmd \in Commands
  BY <1>2, RequestFields
<1>4. CASE HubForwards(h, m)
  <2> DEFINE G == [H EXCEPT !.pc = "forward", !.request = m]
  <2>1. HubStep(h, G) /\ m.cmd \in Collectable
    BY <1>4 DEF HubForwards, Fits, Collectable, Switches
  <2>2. HubTyped(G) /\ HubReady(G)
    BY <1>2, <2>1, OnItsWay
  <2> HIDE DEF G
  <2> QED
    BY <1>2, <2>1, <2>2, TopDownTyped
<1>5. CASE HubRemoves(h, m)
  <2> DEFINE G == [H EXCEPT !.pc = "remove", !.request = m]
  <2>1. HubStep(h, G) /\ m.cmd = "remove_child"
    BY <1>5 DEF HubRemoves
  <2>2. HubTyped(G) /\ HubReady(G)
    BY <1>2, <2>1, OnItsWay
  <2> HIDE DEF G
  <2> QED
    BY <1>2, <2>1, <2>2, TopDownTyped
<1>6. CASE HubAnswersChildless(h, m)
  <2> DEFINE args == IF m.cmd = "info" THEN <<UNDEFINED_STATE>> ELSE <<>>
             r == Response(h, m.cmd, "OK", args)
             leaving == H.force_exit \/ m.cmd = "delete"
             G == [Replying(H, r) EXCEPT !.force_exit = leaving]
  <2>1. HubStep(h, G) /\ m.cmd \in {"info", "delete"}
    <3>1. HubStep(h, [Replying(H, r) EXCEPT !.force_exit = @ \/ m.cmd = "delete"])
          /\ m.cmd \in {"info", "delete"}
      BY <1>6 DEF HubAnswersChildless
    <3>2. Replying(H, r).force_exit = H.force_exit
      BY <1>2 DEF HubTyped, Replying
    <3> QED
      BY <3>1, <3>2
  <2>2. r \in Responses
    <3>1. CASE m.cmd = "info"
      <4>1. args = <<UNDEFINED_STATE>> /\ args \in Seq(Nat)
            /\ args[1] \in STATE_OFF .. UNDEFINED_STATE
        BY <3>1 DEF STATE_OFF, UNDEFINED_STATE
      <4> HIDE DEF args
      <4> QED
        BY <1>2, <1>3, <3>1, <4>1, CollectableIs, PlainResponse
    <3>2. CASE m.cmd = "delete"
      <4>1. args = <<>> /\ m.cmd \notin Links
        BY <3>2, CollectableIs
      <4> HIDE DEF args
      <4> QED
        BY <1>2, <1>3, <4>1, CollectableIs, EmptyResponse
    <3> QED
      BY <2>1, <3>1, <3>2
  <2>3. leaving \in BOOLEAN
    OBVIOUS
  <2>4. HubTyped(G) /\ HubReady(G)
    <3> DEFINE G0 == Replying(H, r)
    <3> HIDE DEF r, leaving
    <3>1. HubTyped(G0) /\ HubReady(G0)
      BY <1>2, <2>2, ReplyingTyped
    <3> HIDE DEF G0
    <3>2. HubTyped([G0 EXCEPT !.force_exit = leaving]) /\ HubReady([G0 EXCEPT !.force_exit = leaving])
      BY <2>3, <3>1 DEF HubTyped, HubReady
    <3> QED
      BY <3>2 DEF G0
  <2> HIDE DEF G
  <2> QED
    BY <1>2, <2>1, <2>4, TopDownTyped
<1>7. CASE HubRefuses(h, m)
  <2> DEFINE r == Response(h, m.cmd, "UNEXPECTED_COMMAND", <<>>)
             G == Replying(H, r)
  <2>1. HubStep(h, G)
    BY <1>7 DEF HubRefuses
  <2>2. r \in Responses
    <3>1. "UNEXPECTED_COMMAND" \in ErrorCodes
      BY DEF ErrorCodes
    <3> QED
      BY <1>2, <1>3, <3>1, EmptyResponse
  <2> HIDE DEF r
  <2>3. HubTyped(G) /\ HubReady(G)
    BY <1>2, <2>2, ReplyingTyped
  <2> HIDE DEF G
  <2> QED
    BY <1>2, <2>1, <2>3, TopDownTyped
<1> QED
  BY <1>4, <1>5, <1>6, <1>7

\* A request for a device below, looked up and sent on.
LEMMA HubRoutingTyped ==
    ASSUME PipesTypeOK, HubTypeOK, NEW h \in Hubs,
           HubSends(h) \/ \E m : HubRoutes(h, m)
    PROVE  PipesTypeOK' /\ HubTypeOK'
<1> DEFINE H == hub[h]
<1>1. CASE HubSends(h)
  <2> DEFINE G == Resumed(H)
             end == files[h][H.route]
  <2>1. /\ HubStep(h, G) /\ H.pc = "send" /\ down' = SendDown(down, end, H.request)
        /\ UNCHANGED <<up, files, exit_code, fifos>>
    BY <1>1 DEF HubSends
  <2>2. HubTyped(H) /\ HubReady(H)
    BY DEF HubTypeOK
  <2>3. H.request \in Requests
    BY <2>1, <2>2 DEF HubReady
  <2>4. down' \in [Devices -> Seq(Requests)]
    <3> HIDE DEF H, end
    <3> QED
      BY <2>1, <2>3, SendDownIs DEF PipesTypeOK
  <2>5. HubTyped(G) /\ HubReady(G)
    BY <2>2, ResumedTyped
  <2> HIDE DEF G
  <2>6. up' \in [Controls -> Seq(Responses)] /\ files' \in [Controls -> [Fds -> Ends]]
    BY <2>1 DEF PipesTypeOK
  <2> QED
    BY <2>1, <2>4, <2>5, <2>6, TopDownTyped
<1>2. ASSUME NEW m, HubRoutes(h, m)
      PROVE  PipesTypeOK' /\ HubTypeOK'
  <2> DEFINE args == IF m.cmd = "info" THEN <<>> ELSE <<m.dst>>
             r == Response(h, m.cmd, "ROUTE_NOT_FOUND", args)
             route == H.routing_table[m.dst].fd
             G1 == [H EXCEPT !.pc = "send", !.request = m, !.route = route]
             G2 == Replying(H, r)
  <2>1. TopDownReads(h, m) /\ UNCHANGED files
        /\ IF m.dst \in DOMAIN H.routing_table THEN HubStep(h, G1) ELSE HubStep(h, G2)
    BY <1>2, Zenon DEF HubRoutes
  <2>2. /\ m \in Requests /\ down' \in [Devices -> Seq(Requests)]
        /\ up' \in [Controls -> Seq(Responses)] /\ UNCHANGED <<exit_code, fifos>>
        /\ HubTyped(H) /\ HubReady(H) /\ files' \in [Controls -> [Fds -> Ends]]
        /\ h \in Devices /\ h \in Controls
    BY <2>1, TopDownReadsTyped
  <2>3. CASE m.dst \in DOMAIN H.routing_table
    <3>1. route \in Fds
      BY <2>2, <2>3, HubFields, TableIs
    <3>2. "send" \in TopDownPcs
      BY DEF TopDownPcs
    <3> HIDE DEF route
    <3>3. HubTyped(G1) /\ HubReady(G1)
      BY <2>2, <3>1, <3>2 DEF HubTyped, HubReady
    <3> HIDE DEF G1
    <3> QED
      BY <2>1, <2>2, <2>3, <3>3, TopDownTyped
  <2>4. CASE m.dst \notin DOMAIN H.routing_table
    <3>1. m.dst \in Nat /\ m.cmd \in Commands /\ "ROUTE_NOT_FOUND" \in ErrorCodes
      BY <2>2, RequestFields, Ids DEF ErrorCodes
    <3>2. args \in Seq(Nat) /\ (m.cmd = "info" => args = <<>>)
      BY <3>1
    <3>3. r \in Responses
      <4> HIDE DEF args
      <4> QED
        BY <2>2, <3>1, <3>2, PlainResponse
    <3> HIDE DEF r
    <3>4. HubTyped(G2) /\ HubReady(G2)
      BY <2>2, <3>3, ReplyingTyped
    <3> HIDE DEF G2
    <3> QED
      BY <2>1, <2>2, <2>4, <3>4, TopDownTyped
  <2> QED
    BY <2>3, <2>4
<1> QED
  BY <1>1, <1>2

\* What forward_to_children leaves in the down pipes is in any set that the
\* copies to the devices do not lead out of.
LEMMA BroadcastWithin ==
    ASSUME PipesTypeOK, HubTypeOK, NEW h \in Hubs, HubBroadcasts(h),
           NEW S, down \in S,
           \A q \in S, d \in Devices : \A end :
              SendDown(q, end, [hub[h].request EXCEPT !.dst = d]) \in S
    PROVE  down' \in S
<1> DEFINE H == hub[h]
           T == H.routing_table
           children == InIdOrder(Direct(T, h))
           N == Len(children)
           E(n, q) == SendDown(q, files[h][T[children[n]].fd], [H.request EXCEPT !.dst = children[n]])
           D(f) == f = [n \in 0 .. N |-> IF n = 0 THEN down ELSE E(n, f[n - 1])]
           sent == CHOOSE f : D(f)
           step == [n \in 1 .. N |-> [q \in S |-> E(n, q)]]
<1>1. down' = sent[N]
  BY DEF HubBroadcasts
<1>2. HubTyped(H)
  BY DEF HubTypeOK
<1>3. /\ children \in Seq(Devices) /\ N \in Nat /\ DOMAIN children = 1 .. N
      /\ \A n \in 1 .. N : children[n] \in Devices
  <2>1. DOMAIN T \subseteq Devices /\ DOMAIN T \subseteq Nat /\ IsFiniteSet(DOMAIN T)
    BY <1>2, HubFields, TableIs
  <2>2. Direct(T, h) \in SUBSET Nat /\ IsFiniteSet(Direct(T, h)) /\ Direct(T, h) \subseteq Devices
    BY <2>1, FS_Subset DEF Direct
  <2>3. children \in Seq(Direct(T, h))
    BY <2>2, InIdOrderIs
  <2> HIDE DEF children
  <2>4. children \in Seq(Devices)
    BY <2>2, <2>3
  <2> QED
    BY <2>4
<1> HIDE DEF children
<1>4. \A n \in 1 .. N : \A q \in S : E(n, q) \in S
  BY <1>3
<1> HIDE DEF N, E
<1>5. step \in [1 .. N -> [S -> S]]
  BY <1>4
<1>6. PICK g : IsIteration(g, N, S, down, step)
  <2> HIDE DEF step
  <2> QED
    BY <1>3, <1>5, Iteration
<1>7. g \in [0 .. N -> S] /\ g[0] = down /\ \A n \in 1 .. N : g[n] = step[n][g[n - 1]]
  BY <1>6 DEF IsIteration
<1>8. \A n \in 1 .. N : g[n - 1] \in S
  <2>1. \A n \in 1 .. N : n - 1 \in 0 .. N
    BY <1>3
  <2> QED
    BY <1>7, <2>1
<1>9. D(g)
  <2>1. ASSUME NEW n \in 0 .. N
        PROVE  g[n] = IF n = 0 THEN down ELSE E(n, g[n - 1])
    <3>1. CASE n = 0
      BY <1>7, <3>1
    <3>2. CASE n # 0
      <4>1. n \in 1 .. N
        BY <1>3, <3>2
      <4>2. g[n] = step[n][g[n - 1]] /\ g[n - 1] \in S
        BY <1>7, <1>8, <4>1
      <4>3. g[n] = E(n, g[n - 1])
        BY <4>1, <4>2
      <4> QED
        BY <3>2, <4>3
    <3> QED
      BY <3>1, <3>2
  <2> HIDE DEF step
  <2> QED
    BY <1>7, <2>1
<1> HIDE DEF D
<1>10. D(sent)
  BY <1>9
<1> HIDE DEF sent
<1>11. sent = [n \in 0 .. N |-> IF n = 0 THEN down ELSE E(n, sent[n - 1])]
  BY <1>10 DEF D
<1> DEFINE P == {n \in 0 .. N : sent[n] \in S}
<1>12. 0 \in P
  BY <1>3, <1>11
<1>13. \A n \in 1 .. N : n - 1 \in P => n \in P
  <2> SUFFICES ASSUME NEW n \in 1 .. N, n - 1 \in P PROVE n \in P
    OBVIOUS
  <2>1. n \in 0 .. N /\ n # 0
    BY <1>3
  <2>2. sent[n] = E(n, sent[n - 1])
    BY <1>11, <2>1
  <2> QED
    BY <1>4, <2>1, <2>2
<1>14. 0 .. N \subseteq P
  <2> HIDE DEF P
  <2> QED
    BY <1>3, <1>12, <1>13, InductTo
<1>15. N \in 0 .. N
  BY <1>3
<1> QED
  BY <1>1, <1>14, <1>15

\* A copy to every direct child, and a response that waits for them all.
LEMMA HubBroadcastsTyped ==
    ASSUME PipesTypeOK, HubTypeOK, NEW h \in Hubs, HubBroadcasts(h)
    PROVE  PipesTypeOK' /\ HubTypeOK'
<1> DEFINE H == hub[h]
           children == InIdOrder(Direct(H.routing_table, h))
           S == [Devices -> Seq(Requests)]
           p == [cmd |-> H.request.cmd, devices |-> Range(children),
                 has_error |-> FALSE, state |-> UNDEFINED_STATE]
           G == [H EXCEPT !.pending = Append(@, p)]
<1>1. H.pc = "forward" /\ UNCHANGED <<up, files, exit_code, fifos>> /\ HubStep(h, Resumed(G))
  BY DEF HubBroadcasts
<1>2. HubTyped(H) /\ HubReady(H) /\ down \in S
  BY DEF HubTypeOK, PipesTypeOK
<1>3. H.request \in Requests /\ H.request.cmd \in Collectable
  BY <1>1, <1>2 DEF HubReady
<1>4. down' \in S
  <2>1. \A q \in S, d \in Devices : \A end : SendDown(q, end, [H.request EXCEPT !.dst = d]) \in S
    <3> SUFFICES ASSUME NEW q \in S, NEW d \in Devices, NEW end
                 PROVE  SendDown(q, end, [H.request EXCEPT !.dst = d]) \in S
      OBVIOUS
    <3> DEFINE m == [H.request EXCEPT !.dst = d]
    <3>1. m \in Requests
      BY <1>3, RequestFor
    <3> HIDE DEF m
    <3>2. SendDown(q, end, m) \in S
      BY <3>1, SendDownIs
    <3> QED
      BY <3>2 DEF m
  <2> HIDE DEF S
  <2> QED
    BY <1>2, <2>1, BroadcastWithin
<1>5. p \in Pendings
  <2>1. DOMAIN H.routing_table \subseteq Devices /\ DOMAIN H.routing_table \subseteq Nat
        /\ IsFiniteSet(DOMAIN H.routing_table)
    BY <1>2, HubFields, TableIs
  <2>2. /\ Direct(H.routing_table, h) \in SUBSET Nat
        /\ IsFiniteSet(Direct(H.routing_table, h))
        /\ Direct(H.routing_table, h) \subseteq Devices
    BY <2>1, FS_Subset DEF Direct
  <2>3. children \in Seq(Direct(H.routing_table, h))
    BY <2>2, InIdOrderIs
  <2> HIDE DEF children
  <2>4. Range(children) \subseteq Devices
    BY <2>2, <2>3 DEF Range
  <2>5. UNDEFINED_STATE \in STATE_OFF .. UNDEFINED_STATE
    BY DEF STATE_OFF, UNDEFINED_STATE
  <2> QED
    BY <1>3, <2>4, <2>5 DEF Pendings
<1>6. HubTyped(G)
  <2> HIDE DEF p
  <2>1. Append(H.pending, p) \in Seq(Pendings)
    BY <1>2, <1>5, HubFields, AppendProperties
  <2> QED
    BY <1>2, <2>1 DEF HubTyped
<1> HIDE DEF p
<1>7. HubTyped(Resumed(G)) /\ HubReady(Resumed(G))
  <2> HIDE DEF G
  <2> QED
    BY <1>6, ResumedTyped
<1> HIDE DEF G
<1>8. up' \in [Controls -> Seq(Responses)] /\ files' \in [Controls -> [Fds -> Ends]]
  BY <1>1 DEF PipesTypeOK
<1> QED
  BY <1>1, <1>4, <1>7, <1>8, TopDownTyped DEF S

\* link_remove_child, the part in the critical section, keeps pipes and hubs typed.
LEMMA HubRemovesChildTyped ==
    ASSUME PipesTypeOK, HubTypeOK, NEW h \in Hubs, HubRemovesChild(h)
    PROVE  PipesTypeOK' /\ HubTypeOK'
<1> DEFINE H == hub[h]
           gone == RemoveChild(h, H, files[h], H.request.arg, h)
           r == Response(h, "remove_child", gone.code, <<>>)
           G1 == [gone.hub EXCEPT !.pc = "type", !.remove_child_succeed = TRUE]
           G2 == Replying(gone.hub, r)
<1>1. /\ H.pc = "remove" /\ files' = [files EXCEPT ![h] = gone.files]
      /\ UNCHANGED <<down, up, exit_code, fifos>>
      /\ HubStep(h, IF gone.code = "OK" THEN G1 ELSE G2)
  BY DEF HubRemovesChild
<1>2. /\ HubTyped(H) /\ HubReady(H) /\ h \in Devices /\ h \in Controls
      /\ files[h] \in [Fds -> Ends]
  BY Ids DEF HubTypeOK, PipesTypeOK
<1>3. /\ HubTyped(gone.hub) /\ SameThread(gone.hub, H) /\ gone.files \in [Fds -> Ends]
      /\ gone.code \in {"OK", "CHILD_NOT_FOUND", "UNABLE_TO_CLOSE_PIPE"}
  BY <1>2, RemoveChildTyped, Zenon
<1>4. H.request \in Requests /\ H.request.cmd = "remove_child"
  BY <1>1, <1>2 DEF HubReady
<1> HIDE DEF gone
<1>5. HubTyped(G1) /\ HubReady(G1)
  <2>1. "type" \in TopDownPcs /\ "remove_child" \in Links
    BY DEF TopDownPcs, Links
  <2> QED
    BY <1>3, <1>4, <2>1 DEF HubTyped, HubReady, SameThread
<1>6. CASE gone.code = "OK"
  <2> HIDE DEF G1, G2
  <2>1. HubStep(h, G1)
    BY <1>1, <1>6
  <2>2. files' \in [Controls -> [Fds -> Ends]]
    BY <1>1, <1>3 DEF PipesTypeOK
  <2> QED
    BY <1>1, <1>5, <2>1, <2>2, TopDownTyped DEF PipesTypeOK
<1>7. CASE gone.code # "OK"
  <2>1. r \in Responses
    <3>1. gone.code \in ErrorCodes /\ "remove_child" \in Commands
      BY <1>3 DEF ErrorCodes, Commands, Links
    <3> QED
      BY <1>2, <1>7, <3>1, EmptyResponse
  <2> HIDE DEF r
  <2>2. HubTyped(G2) /\ HubReady(G2)
    BY <1>3, <2>1, ReplyingTyped
  <2> HIDE DEF G1, G2
  <2>3. HubStep(h, G2)
    BY <1>1, <1>7
  <2>4. files' \in [Controls -> [Fds -> Ends]]
    BY <1>1, <1>3 DEF PipesTypeOK
  <2> QED
    BY <1>1, <2>2, <2>3, <2>4, TopDownTyped DEF PipesTypeOK
<1> QED
  BY <1>6, <1>7

\* Reading device_type for the answer to a link keeps pipes and hubs typed.
LEMMA HubTypesTyped ==
    ASSUME PipesTypeOK, HubTypeOK, NEW h \in Hubs, HubTypes(h)
    PROVE  PipesTypeOK' /\ HubTypeOK'
<1> DEFINE H == hub[h]
           m == H.request
           r == Response(h, m.cmd, "OK", <<m.arg, H.device_type>>)
           G == Replying(H, r)
<1>1. H.pc = "type" /\ HubStep(h, G) /\ UNCHANGED <<down, up, files, exit_code, fifos>>
  BY DEF HubTypes, pipes
<1>2. HubTyped(H) /\ HubReady(H) /\ h \in Devices /\ h \notin Leaves
  BY Ids DEF HubTypeOK
<1>3. m \in Requests /\ m.cmd \in Links
  BY <1>1, <1>2 DEF HubReady
<1>4. r \in Responses
  <2>1. m.arg \in Nat
    BY <1>3, RequestFields, Ids DEF CONTROLLER_ID
  <2>2. m.cmd = "change_parent" => m.arg \in Controls
    BY <1>3, RequestFields
  <2>3. m.cmd = "remove_child" => m.arg \in Devices
    BY <1>3, RequestFields
  <2>4. H.device_type \in OwnTypes(h)
    BY <1>2, HubFields, OwnTypesAre
  <2> HIDE DEF H, m
  <2> QED
    BY <1>2, <1>3, <2>1, <2>2, <2>3, <2>4, CollectableIs, LinkResponse
<1> HIDE DEF r
<1>5. HubTyped(G) /\ HubReady(G)
  BY <1>2, <1>4, ReplyingTyped
<1> HIDE DEF G
<1> QED
  BY <1>1, <1>5, TopDownTyped DEF PipesTypeOK

\* Writing the answer to the parent keeps pipes and hubs typed.
LEMMA HubRepliesTyped ==
    ASSUME PipesTypeOK, HubTypeOK, NEW h \in Hubs, HubReplies(h)
    PROVE  PipesTypeOK' /\ HubTypeOK'
<1> DEFINE H == hub[h]
           r == H.response
           history == IF H.parent_changed THEN History(H, h) ELSE <<>>
           waived == IF H.remove_child_succeed
                     THEN WaivedResponses(h, H, H.request.arg, r.args) ELSE <<>>
           left == IF H.remove_child_succeed THEN Waived(H, H.request.arg) ELSE H
           G == [left EXCEPT !.parent_changed = FALSE, !.remove_child_succeed = FALSE]
           ms == <<r>> \o history \o waived
<1>1. /\ H.pc = "reply" /\ HubStep(h, Resumed(G)) /\ up' = WriteUp(files[h], H, up, ms)
      /\ UNCHANGED <<down, files, exit_code, fifos>>
  BY DEF HubReplies
<1>2. HubTyped(H) /\ HubReady(H)
  BY DEF HubTypeOK
<1>3. r \in Responses /\ r.args \in Seq(Nat)
  BY <1>1, <1>2, ResponseFields DEF HubReady
<1>4. history \in Seq(Responses)
  <2>1. History(H, h) \in Seq(Responses)
    <3>1. IsTable(H.routing_table, Hubs \cup Timers) /\ Hubs \cup Timers \subseteq Controls
      BY <1>2, HubFields, Ids
    <3> QED
      BY <3>1, HistoryTyped, Zenon DEF History
  <2> QED
    BY <2>1
<1>5. waived \in Seq(Responses)
  <2>1. WaivedResponses(h, H, H.request.arg, r.args) \in Seq(Responses)
    BY <1>2, <1>3, WaivedResponsesTyped
  <2> QED
    BY <2>1
<1>6. ms \in Seq(Responses)
  <2> HIDE DEF r, history, waived
  <2>1. <<r>> \o history \in Seq(Responses)
    BY <1>3, <1>4, OneIsSeq, ConcatProperties
  <2> QED
    BY <1>5, <2>1, ConcatProperties
<1>7. HubTyped(left)
  BY <1>2, WaivedTyped
<1>8. HubTyped(G)
  <2> HIDE DEF left
  <2> QED
    BY <1>7 DEF HubTyped
<1>9. HubTyped(Resumed(G)) /\ HubReady(Resumed(G))
  <2> HIDE DEF G
  <2> QED
    BY <1>8, ResumedTyped
<1>10. up' \in [Controls -> Seq(Responses)]
  <2> HIDE DEF ms
  <2> QED
    BY <1>1, <1>6, WriteUpIs DEF PipesTypeOK
<1> HIDE DEF G
<1> QED
  BY <1>1, <1>9, <1>10, TopDownTyped DEF PipesTypeOK

\* The end of file of the hub's own pipe keeps pipes and hubs typed.
LEMMA HubEndOfFileTyped ==
    ASSUME PipesTypeOK, HubTypeOK, NEW h \in Hubs, HubEndOfFile(h)
    PROVE  PipesTypeOK' /\ HubTypeOK'
<1> DEFINE H == hub[h]
           r == Response(h, "null", "UNEXPECTED_END_OF_FILE", <<>>)
           G0 == Replying(H, r)
           G == [G0 EXCEPT !.force_exit = TRUE]
<1>1. HubStep(h, G) /\ UNCHANGED <<down, up, files, exit_code, fifos>>
  BY DEF HubEndOfFile, pipes
<1>2. HubTyped(H) /\ h \in Devices
  BY Ids DEF HubTypeOK
<1>3. r \in Responses
  <2>1. "null" \notin Links /\ "UNEXPECTED_END_OF_FILE" \in ErrorCodes
    BY DEF Links, ErrorCodes
  <2> QED
    BY <1>2, <2>1, EmptyResponse
<1> HIDE DEF r
<1>4. HubTyped(G0) /\ HubReady(G0)
  BY <1>2, <1>3, ReplyingTyped
<1> HIDE DEF G0
<1>5. HubTyped(G) /\ HubReady(G)
  BY <1>4 DEF HubTyped, HubReady
<1> HIDE DEF G
<1> QED
  BY <1>1, <1>5, TopDownTyped DEF PipesTypeOK

\* A hub keeps its type in every step of its main thread, in its exit and when
\* it is terminated.
LEMMA HubTopDownTyped ==
    ASSUME PipesTypeOK, HubTypeOK, NEW h \in Hubs,
           HubTopDown(h) \/ HubExits(h) \/ HubTerminates(h)
    PROVE  PipesTypeOK' /\ HubTypeOK'
<1>1. CASE HubTopDown(h)
  <2>1. \/ \E m : \/ HubChangeParent(h, m)
                  \/ HubForwards(h, m) \/ HubRemoves(h, m) \/ HubAnswersChildless(h, m)
                        \/ HubRefuses(h, m)
                  \/ HubRoutes(h, m)
        \/ HubSends(h) \/ HubBroadcasts(h) \/ HubRemovesChild(h)
        \/ HubTypes(h) \/ HubReplies(h) \/ HubEndOfFile(h)
    BY <1>1, Zenon DEF HubTopDown
  <2> QED
    BY <2>1, HubChangeParentTyped, HubRequestTyped, HubRoutingTyped, HubBroadcastsTyped,
       HubRemovesChildTyped, HubTypesTyped, HubRepliesTyped, HubEndOfFileTyped
<1>2. CASE HubExits(h) \/ HubTerminates(h)
  <2>1. /\ \E code \in {"OK", "error"} : Exits(h, code, up)
        /\ UNCHANGED <<hub, fifos>>
    BY <1>2 DEF HubExits, HubTerminates, HubExitCode
  <2>2. PipesTypeOK'
    <3>1. PICK code \in {"OK", "error"} : Exits(h, code, up)
      BY <2>1
    <3>2. up \in [Controls -> Seq(Responses)] /\ fifos' \subseteq Devices
      BY <2>1 DEF PipesTypeOK
    <3>3. code \in {"OK", "error", "signal"}
      BY <3>1
    <3> QED
      BY <3>1, <3>2, <3>3, ExitsTyped, Zenon
  <2>3. HubTypeOK'
    BY <2>1 DEF HubTypeOK, HubTyped, HubReady
  <2> QED
    BY <2>2, <2>3
<1> QED
  BY <1>1, <1>2

-----------------------------------------------------------------------------
(* A hub that is on its way out stays so.                                  *)

\* The steps on a hub's globals, none of which touches force_exit or resets it.
LEMMA HubOperatorsPersist ==
    ASSUME NEW h, NEW H, "force_exit" \in DOMAIN H
    PROVE  /\ Persists(H, H)
           /\ \A r : Persists(H, Replying(H, r))
           /\ Persists(H, Resumed(H))
           /\ \A d : Persists(H, Waived(H, d))
           /\ \A d : Persists(H, UpdateType(h, H, d))
           /\ Persists(H, ChildLost(H))
           /\ \A x : Persists(H, [H EXCEPT !.routing_table = x])
           /\ \A x : Persists(H, [H EXCEPT !.bottom_pc = x])
           /\ \A x : Persists(H, [H EXCEPT !.pending = x])
<1>1. Persists(H, H)
  BY DEF Persists
<1>2. \A r : Persists(H, Replying(H, r))
  BY DEF Persists, Replying
<1>3. Persists(H, Resumed(H))
  BY DEF Persists, Resumed
<1>4. \A d : Persists(H, Waived(H, d))
  BY DEF Persists, Waived
<1>5. \A d : Persists(H, UpdateType(h, H, d))
  BY DEF Persists, UpdateType
<1>6. Persists(H, ChildLost(H))
  BY DEF Persists, ChildLost
<1>7. /\ \A x : Persists(H, [H EXCEPT !.routing_table = x])
      /\ \A x : Persists(H, [H EXCEPT !.bottom_pc = x])
      /\ \A x : Persists(H, [H EXCEPT !.pending = x])
  BY DEF Persists
<1> QED
  BY <1>1, <1>2, <1>3, <1>4, <1>5, <1>6, <1>7

\* remove_child never takes the end of the hub back.
LEMMA RemoveChildPersists ==
    ASSUME NEW h, NEW H, NEW F, NEW d, NEW via, "force_exit" \in DOMAIN H
    PROVE  Persists(H, RemoveChild(h, H, F, d, via).hub)
<1> DEFINE counted == IF via = h THEN ChildLost(H) ELSE H
           removed == [counted EXCEPT !.routing_table =
                          UpdateTypeToEmpty(RemoveRoute(@, d, via), H.routing_table[d].parent)]
<1>1. Persists(H, counted)
  BY HubOperatorsPersist
<1>2. Persists(H, removed)
  <2>1. "force_exit" \in DOMAIN counted
    BY <1>1 DEF Persists
  <2> HIDE DEF counted
  <2>2. Persists(counted, removed)
    BY <2>1, HubOperatorsPersist
  <2> QED
    BY <1>1, <2>2, PersistsOn
<1>3. Persists(H, UpdateType(h, removed, d))
  <2>1. "force_exit" \in DOMAIN removed
    BY <1>2 DEF Persists
  <2> HIDE DEF removed
  <2>2. Persists(removed, UpdateType(h, removed, d))
    BY <2>1, HubOperatorsPersist
  <2> QED
    BY <1>2, <2>2, PersistsOn
<1>4. Persists(H, H)
  BY HubOperatorsPersist
<1>5. RemoveChild(h, H, F, d, via).hub \in {H, counted, UpdateType(h, removed, d)}
  BY DEF RemoveChild
<1> HIDE DEF counted, removed
<1> QED
  BY <1>1, <1>3, <1>4, <1>5

\* What an added child makes of the hub.
LEMMA AddChildPersists ==
    ASSUME NEW h, NEW H, NEW F, NEW d, NEW type, NEW p, "force_exit" \in DOMAIN H
    PROVE  /\ Persists(H, AddDirectChild(h, H, F, d, type).hub)
           /\ Persists(H, AddIndirectChild(H, d, type, p))
<1>1. Persists(H, AddDirectChild(h, H, F, d, type).hub)
  BY DEF Persists, AddDirectChild
<1>2. Persists(H, AddIndirectChild(H, d, type, p))
  BY DEF Persists, AddIndirectChild
<1> QED
  BY <1>1, <1>2

\* What a child that a hub below has lost makes of it.
LEMMA ForgetChildPersists ==
    ASSUME NEW h, NEW H, NEW d, NEW source, "force_exit" \in DOMAIN H
    PROVE  Persists(H, ForgetChild(h, H, d, source))
<1> DEFINE G == [H EXCEPT !.routing_table =
                     UpdateTypeToEmpty(RemoveRoute(@, d, source), source)]
<1>1. Persists(H, G)
  BY HubOperatorsPersist
<1>2. "force_exit" \in DOMAIN G
  BY <1>1 DEF Persists
<1>3. ForgetChild(h, H, d, source) = UpdateType(h, G, d)
  BY DEF ForgetChild
<1> HIDE DEF G
<1>4. Persists(G, UpdateType(h, G, d))
  BY <1>2, HubOperatorsPersist
<1> QED
  BY <1>1, <1>3, <1>4, PersistsOn

\* A step of one hub that persists lets none forget that it has been told to exit.
LEMMA HubStepPersists ==
    ASSUME HubTypeOK, NEW h \in Hubs, NEW new, HubStep(h, new),
           "force_exit" \in DOMAIN hub[h] => Persists(hub[h], new)
    PROVE  \A g \in Hubs : hub[g].force_exit => hub'[g].force_exit
<1>1. hub' = [g \in Hubs |-> IF g = h THEN new ELSE hub[g]]
  BY DEF HubTypeOK, HubStep
<1>2. "force_exit" \in DOMAIN hub[h]
  BY DEF HubTypeOK, HubTyped
<1> QED
  BY <1>1, <1>2 DEF Persists

\* No step of bottom_up_handler resets force_exit of any hub.
LEMMA HubBottomUpPersists ==
    ASSUME HubTypeOK, NEW h \in Hubs, HubBottomUp(h)
    PROVE  \A g \in Hubs : hub[g].force_exit => hub'[g].force_exit
<1> DEFINE H == hub[h]
<1>1. "force_exit" \in DOMAIN H
  BY DEF HubTypeOK, HubTyped
<1>2. ASSUME NEW r, NEW G, NEW F, NEW ms, BottomUp(h, r, G, F, ms), Persists(H, G)
      PROVE  \A g \in Hubs : hub[g].force_exit => hub'[g].force_exit
  <2> DEFINE next == [G EXCEPT !.bottom_pc = IF @ = "read" /\ G.force_exit THEN "exit" ELSE @]
  <2>1. HubStep(h, next)
    BY <1>2 DEF BottomUp
  <2>2. "force_exit" \in DOMAIN G
    BY <1>2 DEF Persists
  <2>3. Persists(G, next)
    BY <2>2, HubOperatorsPersist
  <2>4. Persists(H, next)
    BY <1>2, <2>3, PersistsOn
  <2> HIDE DEF next
  <2> QED
    BY <2>1, <2>4, HubStepPersists
<1>3. Persists(H, H)
  BY <1>1, HubOperatorsPersist
<1>4. PICK r \in First(up[h]) :
          \/ HubGarbled(h, r) \/ HubDirectChildAdded(h, r) \/ HubIndirectChildAdded(h, r)
          \/ HubChildForgotten(h, r) \/ HubPendingAnswered(h, r)
          \/ HubChildDeleted(h, r) \/ HubPassesOn(h, r)
  BY DEF HubBottomUp
<1>5. CASE HubGarbled(h, r)
  BY <1>2, <1>3, <1>5 DEF HubGarbled
<1>6. CASE HubDirectChildAdded(h, r)
  <2> DEFINE added == AddDirectChild(h, H, files[h], r.src, r.args[2])
             waits == [H EXCEPT !.bottom_pc = "blocked"]
  <2>1. Persists(H, added.hub)
    BY <1>1, AddChildPersists
  <2>2. Persists(H, waits)
    BY <1>1, HubOperatorsPersist
  <2>3. \/ BottomUp(h, r, waits, files[h], <<>>)
        \/ BottomUp(h, r, added.hub, added.files, <<[r EXCEPT !.code = added.code]>>)
        \/ BottomUp(h, r, H, files[h], <<[r EXCEPT !.code = "UNABLE_TO_OPEN_PIPE"]>>)
    BY <1>6 DEF HubDirectChildAdded
  <2> HIDE DEF H, added, waits
  <2> QED
    BY <1>2, <1>3, <2>1, <2>2, <2>3
<1>7. CASE HubIndirectChildAdded(h, r)
  <2> DEFINE added == AddIndirectChild(H, r.src, r.args[2], r.args[1])
  <2>1. Persists(H, added)
    BY <1>1, AddChildPersists
  <2> QED
    BY <1>2, <1>7, <2>1 DEF HubIndirectChildAdded
<1>8. CASE HubChildForgotten(h, r)
  <2>1. Persists(H, ForgetChild(h, H, r.args[1], r.src))
    BY <1>1, ForgetChildPersists
  <2> QED
    BY <1>2, <1>3, <1>8, <2>1 DEF HubChildForgotten
<1>9. CASE HubPendingAnswered(h, r)
  <2> DEFINE i == Waiting(h, r)
             p == UpdatePending(H, H.pending[i], r)
             still == [H EXCEPT !.pending[i] = p]
             done == [H EXCEPT !.pending = RemoveAt(@, i), !.force_exit = @ \/ r.cmd = "delete"]
  <2>1. Persists(H, still)
    BY <1>1 DEF Persists
  <2>2. Persists(H, done)
    BY <1>1 DEF Persists
  <2>3. \/ BottomUp(h, r, still, files[h], <<>>)
        \/ BottomUp(h, r, done, files[h], <<Collected(h, p, r.args)>>)
    BY <1>9 DEF HubPendingAnswered
  <2> HIDE DEF still, done, H
  <2> QED
    BY <1>2, <2>1, <2>2, <2>3
<1>10. CASE HubChildDeleted(h, r)
  <2> DEFINE via == IF r.src \in DOMAIN H.routing_table
                    THEN H.routing_table[r.src].parent ELSE h
             gone == RemoveChild(h, H, files[h], r.src, via)
  <2>1. Persists(H, gone.hub)
    BY <1>1, RemoveChildPersists
  <2>2. "force_exit" \in DOMAIN gone.hub
    BY <2>1 DEF Persists
  <2>3. BottomUp(h, r, Waived(gone.hub, r.src), gone.files,
                 <<r>> \o WaivedResponses(h, gone.hub, r.src, r.args))
    BY <1>10 DEF HubChildDeleted
  <2> HIDE DEF gone
  <2>4. Persists(gone.hub, Waived(gone.hub, r.src))
    BY <2>2, HubOperatorsPersist
  <2>5. Persists(H, Waived(gone.hub, r.src))
    BY <2>1, <2>4, PersistsOn
  <2> QED
    BY <1>2, <2>3, <2>5
<1>11. CASE HubPassesOn(h, r)
  BY <1>2, <1>3, <1>11 DEF HubPassesOn
<1> QED
  BY <1>4, <1>5, <1>6, <1>7, <1>8, <1>9, <1>10, <1>11
\* The main thread takes a request in.
LEMMA HubTakesPersists ==
    ASSUME HubTypeOK, NEW h \in Hubs, NEW m,
           HubChangeParent(h, m) \/ HubForwards(h, m) \/ HubRemoves(h, m)
             \/ HubAnswersChildless(h, m) \/ HubRefuses(h, m) \/ HubRoutes(h, m)
    PROVE  \A g \in Hubs : hub[g].force_exit => hub'[g].force_exit
<1> DEFINE H == hub[h]
<1>1. "force_exit" \in DOMAIN H
  BY DEF HubTypeOK, HubTyped
<1>2. ASSUME NEW G, HubStep(h, G), Persists(H, G)
      PROVE  \A g \in Hubs : hub[g].force_exit => hub'[g].force_exit
  BY <1>2, HubStepPersists
<1>3. CASE HubChangeParent(h, m)
  <2> DEFINE F == files[h]
             fd == LowestFree(F)
             typed == [H EXCEPT !.pc = "type", !.request = m]
             waits == [H EXCEPT !.pc = "blocked"]
             moved == [typed EXCEPT !.snd = fd, !.parent_id = m.arg, !.parent_changed = TRUE]
  <2>1. Persists(H, typed) /\ Persists(H, waits) /\ Persists(H, moved)
    BY <1>1 DEF Persists
  <2>2. \A r : /\ Persists(H, [Replying(H, r) EXCEPT !.snd = NoFd])
               /\ Persists(H, [Replying(H, r) EXCEPT !.snd = fd])
    BY <1>1 DEF Persists, Replying
  <2>3. \/ HubStep(h, typed) \/ HubStep(h, waits) \/ HubStep(h, moved)
        \/ \E r : \/ HubStep(h, [Replying(H, r) EXCEPT !.snd = NoFd])
                  \/ HubStep(h, [Replying(H, r) EXCEPT !.snd = fd])
    BY <1>3, Zenon DEF HubChangeParent
  <2> HIDE DEF H, typed, waits, moved, fd
  <2> QED
    BY <1>2, <2>1, <2>2, <2>3
<1>4. CASE HubForwards(h, m) \/ HubRemoves(h, m)
  <2>1. \E pc : HubStep(h, [H EXCEPT !.pc = pc, !.request = m])
    BY <1>4 DEF HubForwards, HubRemoves
  <2>2. \A pc : Persists(H, [H EXCEPT !.pc = pc, !.request = m])
    BY <1>1 DEF Persists
  <2> QED
    BY <1>2, <2>1, <2>2
<1>5. CASE HubAnswersChildless(h, m)
  <2>1. PICK r : HubStep(h, [Replying(H, r) EXCEPT !.force_exit = @ \/ m.cmd = "delete"])
    BY <1>5 DEF HubAnswersChildless
  <2>2. Persists(H, [Replying(H, r) EXCEPT !.force_exit = @ \/ m.cmd = "delete"])
    BY <1>1 DEF Persists, Replying
  <2> QED
    BY <1>2, <2>1, <2>2
<1>6. CASE HubRefuses(h, m)
  <2>1. \E r : HubStep(h, Replying(H, r))
    BY <1>6 DEF HubRefuses
  <2> QED
    BY <1>1, <1>2, <2>1, HubOperatorsPersist
<1>7. CASE HubRoutes(h, m)
  <2>1. \/ \E r : HubStep(h, Replying(H, r))
        \/ \E fd : HubStep(h, [H EXCEPT !.pc = "send", !.request = m, !.route = fd])
    BY <1>7 DEF HubRoutes
  <2>2. \A fd : Persists(H, [H EXCEPT !.pc = "send", !.request = m, !.route = fd])
    BY <1>1 DEF Persists
  <2> QED
    BY <1>1, <1>2, <2>1, <2>2, HubOperatorsPersist
<1> QED
  BY <1>3, <1>4, <1>5, <1>6, <1>7

\* The main thread does what it has taken in, or ends.
LEMMA HubTopDownPersists ==
    ASSUME HubTypeOK, NEW h \in Hubs, HubTopDown(h) \/ HubExits(h) \/ HubTerminates(h)
    PROVE  \A g \in Hubs : hub[g].force_exit => hub'[g].force_exit
<1> DEFINE H == hub[h]
<1>1. "force_exit" \in DOMAIN H
  BY DEF HubTypeOK, HubTyped
<1>2. ASSUME NEW G, HubStep(h, G), Persists(H, G)
      PROVE  \A g \in Hubs : hub[g].force_exit => hub'[g].force_exit
  BY <1>2, HubStepPersists
<1>3. ASSUME NEW G, HubStep(h, Resumed(G)), Persists(H, G)
      PROVE  \A g \in Hubs : hub[g].force_exit => hub'[g].force_exit
  <2>1. "force_exit" \in DOMAIN G
    BY <1>3 DEF Persists
  <2>2. Persists(G, Resumed(G))
    BY <2>1, HubOperatorsPersist
  <2> QED
    BY <1>2, <1>3, <2>2, PersistsOn
<1>4. Persists(H, H)
  BY <1>1, HubOperatorsPersist
<1>5. CASE HubSends(h)
  BY <1>3, <1>4, <1>5 DEF HubSends
<1>6. CASE HubBroadcasts(h)
  <2>1. PICK p : HubStep(h, Resumed([H EXCEPT !.pending = Append(@, p)]))
    BY <1>6 DEF HubBroadcasts
  <2>2. Persists(H, [H EXCEPT !.pending = Append(@, p)])
    BY <1>1, HubOperatorsPersist
  <2> QED
    BY <1>3, <2>1, <2>2
<1>7. CASE HubRemovesChild(h)
  <2> DEFINE gone == RemoveChild(h, H, files[h], H.request.arg, h)
             typed == [gone.hub EXCEPT !.pc = "type", !.remove_child_succeed = TRUE]
  <2>1. Persists(H, gone.hub)
    BY <1>1, RemoveChildPersists
  <2>2. "force_exit" \in DOMAIN gone.hub
    BY <2>1 DEF Persists
  <2>3. HubStep(h, typed) \/ \E r : HubStep(h, Replying(gone.hub, r))
    BY <1>7 DEF HubRemovesChild
  <2> HIDE DEF gone
  <2>4. Persists(gone.hub, typed) /\ \A r : Persists(gone.hub, Replying(gone.hub, r))
    BY <2>2 DEF Persists, Replying
  <2>5. Persists(H, typed) /\ \A r : Persists(H, Replying(gone.hub, r))
    BY <2>1, <2>4, PersistsOn
  <2> QED
    BY <1>2, <2>3, <2>5
<1>8. CASE HubTypes(h)
  <2>1. \E r : HubStep(h, Replying(H, r))
    BY <1>8 DEF HubTypes
  <2> QED
    BY <1>1, <1>2, <2>1, HubOperatorsPersist
<1>9. CASE HubReplies(h)
  <2> DEFINE left == IF H.remove_child_succeed THEN Waived(H, H.request.arg) ELSE H
             done == [left EXCEPT !.parent_changed = FALSE, !.remove_child_succeed = FALSE]
  <2>1. Persists(H, left)
    BY <1>1, <1>4, HubOperatorsPersist
  <2>2. "force_exit" \in DOMAIN left
    BY <2>1 DEF Persists
  <2>3. HubStep(h, Resumed(done))
    BY <1>9 DEF HubReplies
  <2> HIDE DEF left
  <2>4. Persists(left, done)
    BY <2>2 DEF Persists
  <2>5. Persists(H, done)
    BY <2>1, <2>4, PersistsOn
  <2> QED
    BY <1>3, <2>3, <2>5
<1>10. CASE HubEndOfFile(h)
  <2>1. PICK r : HubStep(h, [Replying(H, r) EXCEPT !.force_exit = TRUE])
    BY <1>10 DEF HubEndOfFile
  <2>2. Persists(H, [Replying(H, r) EXCEPT !.force_exit = TRUE])
    BY <1>1 DEF Persists, Replying
  <2> QED
    BY <1>2, <2>1, <2>2
<1>11. CASE HubExits(h) \/ HubTerminates(h)
  BY <1>11 DEF HubExits, HubTerminates
<1>12. ASSUME NEW m,
              HubChangeParent(h, m) \/ HubForwards(h, m) \/ HubRemoves(h, m)
                \/ HubAnswersChildless(h, m) \/ HubRefuses(h, m) \/ HubRoutes(h, m)
       PROVE  \A g \in Hubs : hub[g].force_exit => hub'[g].force_exit
  BY <1>12, HubTakesPersists
<1> QED
  BY <1>5, <1>6, <1>7, <1>8, <1>9, <1>10, <1>11, <1>12 DEF HubTopDown

-----------------------------------------------------------------------------
(* What a hub takes for open is.                                           *)

\* A hub G takes no more for open than H does.
HubKeeps(h, H, G) ==
    /\ {"routing_table", "snd"} \subseteq DOMAIN H \cap DOMAIN G
    /\ DirectKept(H.routing_table, G.routing_table, h)
    /\ G.snd = H.snd

\* One change of a hub's globals after another.
LEMMA HubKeepsOn ==
    ASSUME NEW h, NEW H, NEW G, NEW K, HubKeeps(h, H, G), HubKeeps(h, G, K)
    PROVE  HubKeeps(h, H, K)
  BY DEF HubKeeps, DirectKept

\* A hub that takes no more for open holds what it took.
LEMMA HubKeepsHolds ==
    ASSUME NEW h, NEW H, NEW G, NEW F, HubHolds(h, H, F), HubKeeps(h, H, G)
    PROVE  HubHolds(h, G, F)
  BY KeptAreOpen DEF HubKeeps, HubHolds

\* The steps on a hub's globals that neither enter nor remove a route.
LEMMA HubOperatorsKeep ==
    ASSUME NEW h, NEW H, {"routing_table", "snd"} \subseteq DOMAIN H
    PROVE  /\ HubKeeps(h, H, H)
           /\ \A r : HubKeeps(h, H, Replying(H, r))
           /\ HubKeeps(h, H, Resumed(H))
           /\ \A d : HubKeeps(h, H, Waived(H, d))
           /\ \A d : HubKeeps(h, H, UpdateType(h, H, d))
           /\ HubKeeps(h, H, ChildLost(H))
           /\ \A x : HubKeeps(h, H, [H EXCEPT !.bottom_pc = x])
           /\ \A x : HubKeeps(h, H, [H EXCEPT !.pending = x])
           /\ \A x : DirectKept(H.routing_table, x, h) =>
                        HubKeeps(h, H, [H EXCEPT !.routing_table = x])
<1>1. \A T : DirectKept(T, T, h)
  BY DEF DirectKept
<1>2. HubKeeps(h, H, H)
  BY <1>1 DEF HubKeeps
<1>3. \A r : HubKeeps(h, H, Replying(H, r))
  BY <1>1 DEF HubKeeps, Replying
<1>4. HubKeeps(h, H, Resumed(H))
  BY <1>1 DEF HubKeeps, Resumed
<1>5. \A d : HubKeeps(h, H, Waived(H, d))
  BY <1>1 DEF HubKeeps, Waived
<1>6. \A d : HubKeeps(h, H, UpdateType(h, H, d))
  BY <1>1 DEF HubKeeps, UpdateType
<1>7. HubKeeps(h, H, ChildLost(H))
  BY <1>1 DEF HubKeeps, ChildLost
<1>8. /\ \A x : HubKeeps(h, H, [H EXCEPT !.bottom_pc = x])
      /\ \A x : HubKeeps(h, H, [H EXCEPT !.pending = x])
      /\ \A x : DirectKept(H.routing_table, x, h) =>
                   HubKeeps(h, H, [H EXCEPT !.routing_table = x])
  BY <1>1 DEF HubKeeps
<1> QED
  BY <1>2, <1>3, <1>4, <1>5, <1>6, <1>7, <1>8

\* The fields of a typed hub.
LEMMA HubHasFields ==
    ASSUME NEW H, HubTyped(H)
    PROVE  {"routing_table", "snd", "pending", "pc", "bottom_pc"} \subseteq DOMAIN H
  BY DEF HubTyped

\* A device taken out of a table: whoever is next to h in what is left was so.
LEMMA RemovedKeeps ==
    ASSUME NEW h, NEW H, HubTyped(H), NEW d, NEW q, NEW a
    PROVE  LET T == UpdateTypeToEmpty(RemoveRoute(H.routing_table, d, q), a)
           IN  /\ DirectKept(H.routing_table, T, h)
               /\ DirectKept(RemoveRoute(H.routing_table, d, q), T, h)
<1> DEFINE U == RemoveRoute(H.routing_table, d, q)
<1>1. IsTable(U, Hubs \cup Timers)
  BY HubFields, RemoveRouteTyped
<1>2. DirectKept(H.routing_table, U, h)
  BY RemoveRouteKeeps
<1> HIDE DEF U
<1>3. DirectKept(U, UpdateTypeToEmpty(U, a), h)
  BY <1>1, RetypingKeeps
<1>4. DirectKept(H.routing_table, UpdateTypeToEmpty(U, a), h)
  BY <1>2, <1>3, KeptOn
<1> QED
  BY <1>3, <1>4 DEF U

\* remove_child: a direct child goes with its route and its descriptor, and the
\* descriptor is always open: its close does not fail.
LEMMA RemoveChildHolds ==
    ASSUME NEW h, NEW H, HubTyped(H), NEW F \in [Fds -> Ends], HubHolds(h, H, F),
           NEW d, NEW via,
           d \in DOMAIN H.routing_table /\ H.routing_table[d].parent = h => via = h
    PROVE  LET gone == RemoveChild(h, H, F, d, via)
           IN  /\ HubHolds(h, gone.hub, gone.files)
               /\ {"routing_table", "snd"} \subseteq DOMAIN gone.hub
               /\ gone.code # "UNABLE_TO_CLOSE_PIPE"
<1> DEFINE T == H.routing_table
           entry == T[d]
           counted == IF via = h THEN ChildLost(H) ELSE H
           left == UpdateTypeToEmpty(RemoveRoute(T, d, via), entry.parent)
           removed == [counted EXCEPT !.routing_table = left]
           gone == RemoveChild(h, H, F, d, via)
<1>1. IsTable(T, Hubs \cup Timers) /\ H.snd \in Fds \cup {NoFd}
  BY HubFields
<1>2. CASE d \notin DOMAIN T
  <2>1. gone = [code |-> "CHILD_NOT_FOUND", hub |-> H, files |-> F]
    BY <1>2 DEF RemoveChild
  <2> QED
    BY <2>1, HubHasFields
<1>3. CASE d \in DOMAIN T
  <2> DEFINE files2 == IF entry.parent = h THEN Close(F, entry.fd) ELSE F
  <2>1. counted.routing_table = T /\ HubKeeps(h, H, counted)
    <3>1. ChildLost(H).routing_table = T
      BY HubHasFields DEF ChildLost
    <3> QED
      BY <3>1, HubHasFields, HubOperatorsKeep
  <2>2. entry.parent = h => d \in Direct(T, h) /\ entry.fd \in Fds /\ F[entry.fd] = Down(d)
    BY <1>1, <1>3, TableIs DEF Direct, HubHolds, ChildrenOpen
  <2>3. gone = [code |-> "OK", hub |-> UpdateType(h, removed, d), files |-> files2]
    <3>1. ~(entry.parent = h /\ ~IsOpen(F, entry.fd))
      BY <2>2, EndsDiffer DEF IsOpen
    <3>2. gone = [code |-> "OK",
                  hub |-> UpdateType(h, [counted EXCEPT !.routing_table =
                       UpdateTypeToEmpty(RemoveRoute(@, d, via), entry.parent)], d),
                  files |-> files2]
      BY <1>3, <3>1 DEF RemoveChild
    <3> QED
      BY <2>1, <3>2
  <2>4. DirectKept(T, left, h)
    BY RemovedKeeps
  <2>5. HubKeeps(h, counted, removed) /\ removed.routing_table = left /\ removed.snd = H.snd
    <3> HIDE DEF counted, left
    <3>1. {"routing_table", "snd"} \subseteq DOMAIN counted
      BY <2>1 DEF HubKeeps
    <3> QED
      BY <2>1, <2>4, <3>1, HubOperatorsKeep DEF HubKeeps
  <2>6. HubHolds(h, removed, F)
    <3> HIDE DEF counted, removed
    <3> QED
      BY <2>1, <2>5, HubKeepsHolds
  <2>7. entry.parent = h => d \notin Direct(left, h)
    <3> DEFINE U == RemoveRoute(T, d, via)
    <3>1. entry.parent = h => d \notin DOMAIN U
      BY <1>3 DEF RemoveRoute
    <3>2. DirectKept(U, UpdateTypeToEmpty(U, entry.parent), h)
      BY RemovedKeeps
    <3> HIDE DEF U
    <3>3. entry.parent = h => d \notin Direct(UpdateTypeToEmpty(U, entry.parent), h)
      BY <3>1, <3>2 DEF DirectKept, Direct
    <3> QED
      BY <3>3 DEF U
  <2>8. HubHolds(h, removed, files2)
    <3> HIDE DEF removed, left
    <3>1. CASE entry.parent = h
      <4>1. \A c \in Direct(left, h) : left[c].fd # entry.fd
        BY <2>2, <2>5, <2>6, <2>7, <3>1, EndsDiffer DEF HubHolds, ChildrenOpen
      <4>2. removed.snd # entry.fd
        BY <1>1, <2>2, <2>5, <2>6, <3>1, EndsDiffer, Ids DEF HubHolds, NoFd
      <4>3. \A fd : fd # entry.fd => Close(F, entry.fd)[fd] = F[fd]
        BY DEF Close
      <4> QED
        BY <2>5, <2>6, <3>1, <4>1, <4>2, <4>3 DEF HubHolds, ChildrenOpen
    <3>2. CASE entry.parent # h
      BY <2>6, <3>2
    <3> QED
      BY <3>1, <3>2
  <2> HIDE DEF gone, files2, removed
  <2>9. HubKeeps(h, removed, UpdateType(h, removed, d))
    <3>1. {"routing_table", "snd"} \subseteq DOMAIN removed
      BY <2>5 DEF HubKeeps
    <3> QED
      BY <3>1, HubOperatorsKeep
  <2>10. HubHolds(h, UpdateType(h, removed, d), files2)
    BY <2>8, <2>9, HubKeepsHolds
  <2> QED
    BY <2>3, <2>9, <2>10 DEF gone, HubKeeps
<1> QED
  BY <1>2, <1>3

\* add_child of a child whose pipe opens: the descriptor of its old route, if it
\* was a child already, is open and is closed.
LEMMA AddDirectChildHolds ==
    ASSUME NEW h, NEW H, HubTyped(H), NEW F \in [Fds -> Ends], FreeFds(F) # {},
           HubHolds(h, H, F), NEW d, NEW type
    PROVE  LET added == AddDirectChild(h, H, F, d, type)
           IN  /\ HubHolds(h, added.hub, added.files)
               /\ {"routing_table", "snd"} \subseteq DOMAIN added.hub
               /\ added.code = "OK"
<1> DEFINE fd == LowestFree(F)
           R == H.routing_table
           T == InsertDirect(R, d, type, h, fd)
           known == d \in DOMAIN R /\ R[d].parent = h
           opened == OpenAt(F, fd, Down(d))
           old == R[d].fd
           files2 == IF known THEN Close(opened, old) ELSE opened
           code == IF known /\ ~IsOpen(opened, old) THEN "UNABLE_TO_CLOSE_PIPE" ELSE "OK"
           device_type == IF H.device_type = HUB_DEVICE THEN HubOr(type) ELSE H.device_type
           has_children == H.has_children \/ H.device_type = HUB_DEVICE
           children == (H.children + 1) % ChildrenModulus
           G == [H EXCEPT !.routing_table = T, !.has_children = has_children,
                          !.device_type = device_type, !.children = children]
<1>1. AddDirectChild(h, H, F, d, type) = [hub |-> G, code |-> code, files |-> files2]
  BY Zenon DEF AddDirectChild
<1>2. fd \in Fds /\ F[fd] = Closed
  BY LowestFreeIs
<1>3. IsTable(R, Hubs \cup Timers) /\ H.snd \in Fds \cup {NoFd} /\ ChildrenOpen(R, h, F)
  BY HubFields DEF HubHolds
<1>4. /\ ChildrenOpen(T, h, opened)
      /\ known => IsOpen(opened, old) /\ ChildrenOpen(T, h, Close(opened, old))
  <2> HIDE DEF fd, R
  <2> QED
    BY <1>2, <1>3, InsertDirectOpens
<1>5. known => F[old].dir = "down"
  BY <1>3, EndsDiffer DEF ChildrenOpen, Direct
<1>6. H.snd # NoFd => files2[H.snd].dir = "up"
  <2>1. H.snd # NoFd => F[H.snd].dir = "up"
    BY DEF HubHolds
  <2>2. \A x : /\ x # fd => opened[x] = F[x]
               /\ x # old => Close(opened, old)[x] = opened[x]
      <3>1. /\ \A x : x # fd => OpenAt(F, fd, Down(d))[x] = F[x]
            /\ \A K, x : x # old => Close(K, old)[x] = K[x]
        BY DEF OpenAt, Close
      <3> QED
        BY <3>1
  <2> HIDE DEF fd, old, known, opened
  <2> QED
    BY <1>2, <1>5, <2>1, <2>2, EndsDiffer
<1>7. G.routing_table = T /\ G.snd = H.snd /\ {"routing_table", "snd"} \subseteq DOMAIN G
  <2> HIDE DEF T, device_type, has_children, children
  <2> QED
    BY HubHasFields
<1>8. code = "OK" /\ ChildrenOpen(T, h, files2)
  BY <1>4
<1> HIDE DEF T, G, files2, code
<1>9. HubHolds(h, G, files2)
  BY <1>6, <1>7, <1>8 DEF HubHolds
<1> QED
  BY <1>1, <1>7, <1>8, <1>9

\* add_child of a device below a child enters nobody next to the hub, and
\* whoever a hub below has lost goes with its route.
LEMMA BelowKeeps ==
    ASSUME NEW h, NEW H, HubTyped(H), NEW d \in Devices
    PROVE  /\ \A type \in OwnTypes(d), p \in Controls :
                 p # h => HubKeeps(h, H, AddIndirectChild(H, d, type, p))
           /\ \A q : HubKeeps(h, H, ForgetChild(h, H, d, q))
<1> DEFINE R == H.routing_table
           P == Hubs \cup Timers
<1>1. IsTable(R, P) /\ P \subseteq Controls
  BY HubFields, Ids
<1>2. {"routing_table", "snd"} \subseteq DOMAIN H
  BY HubHasFields
<1>3. ASSUME NEW type \in OwnTypes(d), NEW p \in Controls, p # h
      PROVE  HubKeeps(h, H, AddIndirectChild(H, d, type, p))
  <2> DEFINE U == InsertIndirect(R, d, type, p)
             T == UpdateTypeToNotEmpty(U, d)
             device_type == IF H.device_type = HUB_DEVICE THEN HubOr(type) ELSE H.device_type
             G == [H EXCEPT !.routing_table = T, !.device_type = device_type]
  <2>1. CASE p \in DOMAIN R
    <3>1. AddIndirectChild(H, d, type, p) = G
      BY <2>1, Zenon DEF AddIndirectChild
    <3>2. DirectKept(R, U, h)
      BY <1>3, InsertIndirectKeeps
    <3>3. p \in P
      <4>1. p \in Devices
        BY <1>1, <2>1, TableIs
      <4> QED
        BY <1>3, <4>1, Ids
    <3> HIDE DEF P
    <3>4. IsTable(U, P)
      BY <1>1, <1>3, <3>3, InsertIndirectTyped
    <3>5. d \in DOMAIN U
      BY <2>1 DEF InsertIndirect, InsertRoute
    <3> HIDE DEF U
    <3>6. DirectKept(U, T, h)
      BY <3>4, <3>5, RetypingKeeps
    <3>7. DirectKept(R, T, h)
      BY <3>2, <3>6, KeptOn
    <3> HIDE DEF T, device_type
    <3>8. HubKeeps(h, H, G)
      BY <1>2, <3>7 DEF HubKeeps
    <3> QED
      BY <3>1, <3>8
  <2>2. CASE p \notin DOMAIN R
    <3>1. AddIndirectChild(H, d, type, p) = H
      BY <2>2 DEF AddIndirectChild
    <3> QED
      BY <1>2, <3>1, HubOperatorsKeep
  <2> QED
    BY <2>1, <2>2
<1>4. ASSUME NEW q PROVE HubKeeps(h, H, ForgetChild(h, H, d, q))
  <2> DEFINE T == UpdateTypeToEmpty(RemoveRoute(R, d, q), q)
             G == [H EXCEPT !.routing_table = T]
  <2>1. ForgetChild(h, H, d, q) = UpdateType(h, G, d)
    BY Zenon DEF ForgetChild
  <2>2. DirectKept(R, T, h)
    BY RemovedKeeps
  <2> HIDE DEF T
  <2>3. HubKeeps(h, H, G)
    BY <1>2, <2>2, HubOperatorsKeep
  <2> HIDE DEF G
  <2>4. HubKeeps(h, G, UpdateType(h, G, d))
    <3>1. {"routing_table", "snd"} \subseteq DOMAIN G
      BY <2>3 DEF HubKeeps
    <3> QED
      BY <3>1, HubOperatorsKeep
  <2> QED
    BY <2>1, <2>3, <2>4, HubKeepsOn
<1> QED
  BY <1>3, <1>4

\* What a step of hub h leaves: what it takes for open is, and nobody else's
\* descriptors or globals have changed.
HubStays(h) ==
    /\ HubHolds(h, hub'[h], files'[h])
    /\ OnlyFilesOf(h)
    /\ \A g \in Hubs \ {h} : hub'[g] = hub[g]

\* A step to globals that hold what they take for open, with the hub's own
\* descriptors as they are then.
LEMMA HubStepStays ==
    ASSUME PipesTypeOK, HubTypeOK, NEW h \in Hubs, NEW G, HubStep(h, G)
    PROVE  /\ \A F : HubHolds(h, G, F) /\ files' = [files EXCEPT ![h] = F] => HubStays(h)
           /\ /\ HubHolds(h, hub[h], files[h]) /\ HubKeeps(h, hub[h], G)
              /\ UNCHANGED files
              => HubStays(h)
<1>1. hub' = [g \in Hubs |-> IF g = h THEN G ELSE hub[g]]
  BY DEF HubTypeOK, HubStep
<1>2. hub'[h] = G /\ \A g \in Hubs \ {h} : hub'[g] = hub[g]
  BY <1>1
<1>3. \A F : files' = [files EXCEPT ![h] = F] => files'[h] = F /\ OnlyFilesOf(h)
  BY OwnFilesOnly, Ids DEF PipesTypeOK
<1>4. UNCHANGED files => OnlyFilesOf(h)
  BY DEF OnlyFilesOf
<1> QED
  BY <1>2, <1>3, <1>4, HubKeepsHolds DEF HubStays

\* The same of a step of the child-responses thread.
LEMMA BottomUpStays ==
    ASSUME PipesTypeOK, HubTypeOK, NEW h \in Hubs, NEW r, NEW G, NEW F, NEW ms,
           BottomUp(h, r, G, F, ms), HubHolds(h, G, F),
           {"routing_table", "snd"} \subseteq DOMAIN G
    PROVE  HubStays(h)
<1> DEFINE next == [G EXCEPT !.bottom_pc = IF @ = "read" /\ G.force_exit THEN "exit" ELSE @]
<1>1. HubStep(h, next) /\ files' = [files EXCEPT ![h] = F]
  BY DEF BottomUp
<1>2. HubKeeps(h, G, next)
  BY HubOperatorsKeep
<1> HIDE DEF next
<1>3. HubHolds(h, next, F)
  BY <1>2, HubKeepsHolds
<1> QED
  BY <1>1, <1>3, HubStepStays

\* What the bottom-up thread of a hub takes for open is.
LEMMA HubBottomUpHolds ==
    ASSUME PipesTypeOK, HubTypeOK, NEW h \in Hubs, HubHolds(h, hub[h], files[h]), HubBottomUp(h)
    PROVE  HubStays(h)
<1> DEFINE H == hub[h]
           F == files[h]
<1>1. PICK r \in First(up[h]) :
        \/ HubGarbled(h, r) \/ HubDirectChildAdded(h, r) \/ HubIndirectChildAdded(h, r)
        \/ HubChildForgotten(h, r) \/ HubPendingAnswered(h, r)
        \/ HubChildDeleted(h, r) \/ HubPassesOn(h, r)
  BY DEF HubBottomUp
<1>2. r \in Responses /\ HubTyped(H) /\ F \in [Fds -> Ends]
  BY HubBottomUpStarts
<1>3. {"routing_table", "snd"} \subseteq DOMAIN H
  BY <1>2, HubHasFields
<1>4. ASSUME NEW G, HubKeeps(h, H, G), NEW ms, BottomUp(h, r, G, F, ms)
      PROVE  HubStays(h)
  <2>1. HubHolds(h, G, F) /\ {"routing_table", "snd"} \subseteq DOMAIN G
    BY <1>4, HubKeepsHolds DEF HubKeeps
  <2> HIDE DEF F
  <2> QED
    BY <1>4, <2>1, BottomUpStays
<1>5. HubKeeps(h, H, H)
  BY <1>3, HubOperatorsKeep
<1>6. /\ r.src \in Devices
      /\ r.cmd \in Links /\ r.code = "OK" =>
            /\ r.args[2] \in OwnTypes(r.src)
            /\ r.cmd = "change_parent" => r.args[1] \in Controls
            /\ r.cmd = "remove_child" => r.args[1] \in Devices
  BY <1>2, ResponseFields
<1>7. "change_parent" \in Links /\ "remove_child" \in Links
  BY DEF Links
<1>8. CASE HubGarbled(h, r)
  BY <1>4, <1>5, <1>8 DEF HubGarbled
<1>9. CASE HubDirectChildAdded(h, r)
  <2> DEFINE added == AddDirectChild(h, H, F, r.src, r.args[2])
             waits == [H EXCEPT !.bottom_pc = "blocked"]
  <2>1. \/ BottomUp(h, r, waits, F, <<>>)
        \/ DownOpens(F, r.src)
           /\ BottomUp(h, r, added.hub, added.files, <<[r EXCEPT !.code = added.code]>>)
        \/ BottomUp(h, r, H, F, <<[r EXCEPT !.code = "UNABLE_TO_OPEN_PIPE"]>>)
    BY <1>9 DEF HubDirectChildAdded
  <2>2. HubKeeps(h, H, waits)
    BY <1>3, HubOperatorsKeep
  <2>3. ASSUME DownOpens(F, r.src)
        PROVE  HubHolds(h, added.hub, added.files)
               /\ {"routing_table", "snd"} \subseteq DOMAIN added.hub
    <3>1. FreeFds(F) # {}
      BY <2>3 DEF DownOpens
    <3> HIDE DEF H, F
    <3> QED
      BY <1>2, <3>1, AddDirectChildHolds DEF H, F
  <2> HIDE DEF waits, added
  <2> QED
    BY <1>4, <1>5, <2>1, <2>2, <2>3, BottomUpStays
<1>10. CASE HubIndirectChildAdded(h, r)
  <2> DEFINE added == AddIndirectChild(H, r.src, r.args[2], r.args[1])
  <2>1. /\ r.cmd = "change_parent" /\ r.code = "OK" /\ r.args[1] # h
        /\ \E ms : BottomUp(h, r, added, F, ms)
    BY <1>10 DEF HubIndirectChildAdded
  <2>2. HubKeeps(h, H, added)
    <3> HIDE DEF H
    <3> QED
      BY <1>2, <1>6, <1>7, <2>1, BelowKeeps
  <2> HIDE DEF added
  <2> QED
    BY <1>4, <2>1, <2>2
<1>11. CASE HubChildForgotten(h, r)
  <2> DEFINE left == ForgetChild(h, H, r.args[1], r.src)
  <2>1. /\ r.cmd = "remove_child" /\ r.code = "OK"
        /\ \E ms : BottomUp(h, r, left, F, ms) \/ BottomUp(h, r, H, F, ms)
    BY <1>11 DEF HubChildForgotten
  <2>2. HubKeeps(h, H, left)
    <3> HIDE DEF H
    <3> QED
      BY <1>2, <1>6, <1>7, <2>1, BelowKeeps
  <2> HIDE DEF left
  <2> QED
    BY <1>4, <1>5, <2>1, <2>2
<1>12. CASE HubPendingAnswered(h, r)
  <2> DEFINE i == Waiting(h, r)
             p == UpdatePending(H, H.pending[i], r)
             still == [H EXCEPT !.pending[i] = p]
             done == [H EXCEPT !.pending = RemoveAt(@, i), !.force_exit = @ \/ r.cmd = "delete"]
  <2>1. HubKeeps(h, H, still)
    BY <1>3, <1>5 DEF HubKeeps
  <2>2. HubKeeps(h, H, done)
    BY <1>3, <1>5 DEF HubKeeps
  <2>3. \/ BottomUp(h, r, still, F, <<>>)
        \/ BottomUp(h, r, done, F, <<Collected(h, p, r.args)>>)
    BY <1>12 DEF HubPendingAnswered
  <2> HIDE DEF still, done, H, F
  <2> QED
    BY <1>4, <2>1, <2>2, <2>3
<1>13. CASE HubChildDeleted(h, r)
  <2> DEFINE via == IF r.src \in DOMAIN H.routing_table
                    THEN H.routing_table[r.src].parent ELSE h
             gone == RemoveChild(h, H, F, r.src, via)
             waived == Waived(gone.hub, r.src)
  <2>1. BottomUp(h, r, waived, gone.files,
                 <<r>> \o WaivedResponses(h, gone.hub, r.src, r.args))
    BY <1>13 DEF HubChildDeleted
  <2>2. HubHolds(h, gone.hub, gone.files) /\ {"routing_table", "snd"} \subseteq DOMAIN gone.hub
    <3>1. r.src \in DOMAIN H.routing_table /\ H.routing_table[r.src].parent = h => via = h
      OBVIOUS
    <3> HIDE DEF via, H, F
    <3> QED
      BY <1>2, <3>1, RemoveChildHolds DEF H, F
  <2> HIDE DEF gone
  <2>3. HubKeeps(h, gone.hub, waived)
    BY <2>2, HubOperatorsKeep
  <2> HIDE DEF waived
  <2>4. HubHolds(h, waived, gone.files) /\ {"routing_table", "snd"} \subseteq DOMAIN waived
    BY <2>2, <2>3, HubKeepsHolds DEF HubKeeps
  <2> QED
    BY <2>1, <2>4, BottomUpStays
<1>14. CASE HubPassesOn(h, r)
  BY <1>4, <1>5, <1>14 DEF HubPassesOn
<1> QED
  BY <1>1, <1>8, <1>9, <1>10, <1>11, <1>12, <1>13, <1>14

\* change_snd_responses_pipe: the new descriptor is that of the new parent, the
\* old one was none of a child's.
LEMMA HubChangeParentHolds ==
    ASSUME PipesTypeOK, HubTypeOK, NEW h \in Hubs, HubHolds(h, hub[h], files[h]),
           NEW m, HubChangeParent(h, m)
    PROVE  HubStays(h)
<1> DEFINE H == hub[h]
           F == files[h]
           fd == LowestFree(F)
           opened == OpenAt(F, fd, Up(m.arg))
           typed == [H EXCEPT !.pc = "type", !.request = m]
           waits == [H EXCEPT !.pc = "blocked"]
           moved == [typed EXCEPT !.snd = fd, !.parent_id = m.arg, !.parent_changed = TRUE]
           Without(r) == [Replying(H, r) EXCEPT !.snd = NoFd]
           With(r) == [Replying(H, r) EXCEPT !.snd = fd]
<1>1. HubTyped(H) /\ F \in [Fds -> Ends]
  BY Ids DEF HubTypeOK, PipesTypeOK
<1>2. {"routing_table", "snd"} \subseteq DOMAIN H
  BY <1>1, HubHasFields
<1>3. \/ HubStep(h, typed) /\ UNCHANGED files
      \/ HubStep(h, waits) /\ UNCHANGED files
      \/ UNCHANGED files /\ \E r : HubStep(h, Without(r))
      \/ /\ FreeFds(F) # {}
         /\ \/ files' = [files EXCEPT ![h] = opened] /\ \E r : HubStep(h, With(r))
            \/ /\ H.snd # NoFd /\ files' = [files EXCEPT ![h] = Close(opened, H.snd)]
               /\ HubStep(h, moved)
  BY Zenon DEF HubChangeParent
<1>4. HubKeeps(h, H, typed) /\ HubKeeps(h, H, waits)
  BY <1>2 DEF HubKeeps, DirectKept
<1>5. ChildrenOpen(H.routing_table, h, F) /\ IsTable(H.routing_table, Hubs \cup Timers)
      /\ (H.snd # NoFd => F[H.snd].dir = "up") /\ H.snd \in Fds \cup {NoFd}
  BY <1>1, HubFields DEF HubHolds
<1>6. \A r : HubHolds(h, Without(r), F)
  <2>1. \A r : Without(r).routing_table = H.routing_table /\ Without(r).snd = NoFd
    BY <1>2 DEF Replying
  <2> HIDE DEF Without
  <2> QED
    BY <1>5, <2>1 DEF HubHolds
<1>7. ASSUME FreeFds(F) # {}
      PROVE  /\ \A r : HubHolds(h, With(r), opened)
             /\ H.snd # NoFd => HubHolds(h, moved, Close(opened, H.snd))
  <2>1. fd \in Fds /\ F[fd] = Closed
    BY <1>7, LowestFreeIs
  <2>2. /\ \A r : With(r).routing_table = H.routing_table /\ With(r).snd = fd
        /\ moved.routing_table = H.routing_table /\ moved.snd = fd
    <3> HIDE DEF fd
    <3> QED
      BY <1>2 DEF Replying
  <2>3. ChildrenOpen(H.routing_table, h, opened)
    <3> HIDE DEF fd, H, F
    <3> QED
      BY <1>1, <1>5, <2>1, OthersStayOpen
  <2>4. opened \in [Fds -> [dir : {"up", "down", "closed"}, id : Nat]]
        /\ opened[fd] = Up(m.arg) /\ \A x : x # fd => opened[x] = F[x]
    <3>1. m.arg \in Controls
      <4>1. TopDownReads(h, m) /\ m.cmd = "change_parent"
        BY DEF HubChangeParent
      <4> QED
        BY <4>1, TopDownReadsTyped, RequestFields
    <3>2. opened \in [Fds -> Ends]
      <4> HIDE DEF fd
      <4> QED
        BY <1>1, <3>1, EndsAre, OpenAtIs
    <3>3. Ends \subseteq [dir : {"up", "down", "closed"}, id : Nat]
      BY Ids DEF Ends, Down, Up, Closed, CONTROLLER_ID
    <3> HIDE DEF fd
    <3> QED
      BY <1>1, <2>1, <3>2, <3>3 DEF OpenAt
  <2> HIDE DEF moved, With, opened, fd, H, F
  <2>5. \A r : HubHolds(h, With(r), opened)
    BY <2>2, <2>3, <2>4, EndsDiffer DEF HubHolds
  <2>6. ASSUME H.snd # NoFd PROVE HubHolds(h, moved, Close(opened, H.snd))
    <3>1. H.snd # fd
      BY <1>5, <2>1, <2>6, EndsDiffer
    <3>2. \A x : x # H.snd => Close(opened, H.snd)[x] = opened[x]
      BY DEF Close
    <3>3. \A d \in Direct(H.routing_table, h) : H.routing_table[d].fd # H.snd
      BY <1>5, <2>6, EndsDiffer DEF ChildrenOpen
    <3> QED
      BY <2>2, <2>3, <2>4, <3>1, <3>2, <3>3, EndsDiffer DEF HubHolds, ChildrenOpen
  <2> QED
    BY <2>5, <2>6
<1> HIDE DEF H, F, opened, typed, waits, moved, Without, With
<1>8. CASE UNCHANGED files /\ (HubStep(h, typed) \/ HubStep(h, waits))
  BY <1>4, <1>8, HubStepStays DEF H
<1>9. CASE UNCHANGED files /\ \E r : HubStep(h, Without(r))
  <2>1. files' = [files EXCEPT ![h] = F]
    BY <1>9, Ids DEF PipesTypeOK, F
  <2> QED
    BY <1>6, <1>9, <2>1, HubStepStays
<1>10. CASE FreeFds(F) # {} /\ files' = [files EXCEPT ![h] = opened]
              /\ \E r : HubStep(h, With(r))
  BY <1>7, <1>10, HubStepStays
<1>11. CASE FreeFds(F) # {} /\ H.snd # NoFd
              /\ files' = [files EXCEPT ![h] = Close(opened, H.snd)] /\ HubStep(h, moved)
  BY <1>7, <1>11, HubStepStays
<1> QED
  BY <1>3, <1>8, <1>9, <1>10, <1>11

\* What the main thread of a hub takes for open is.
LEMMA HubTopDownHolds ==
    ASSUME PipesTypeOK, HubTypeOK, NEW h \in Hubs, HubHolds(h, hub[h], files[h]), HubTopDown(h)
    PROVE  HubStays(h)
<1> DEFINE H == hub[h]
           F == files[h]
<1>1. HubTyped(H) /\ F \in [Fds -> Ends]
  BY Ids DEF HubTypeOK, PipesTypeOK
<1>2. {"routing_table", "snd"} \subseteq DOMAIN H
  BY <1>1, HubHasFields
<1>3. HubKeeps(h, H, H)
  BY <1>2, HubOperatorsKeep
<1>4. ASSUME NEW G, HubStep(h, G), HubKeeps(h, H, G), UNCHANGED files
      PROVE  HubStays(h)
  BY <1>4, HubStepStays
<1>5. ASSUME NEW G, HubStep(h, Resumed(G)), HubKeeps(h, H, G), UNCHANGED files
      PROVE  HubStays(h)
  <2>1. HubKeeps(h, G, Resumed(G))
    BY <1>5, HubOperatorsKeep DEF HubKeeps
  <2> HIDE DEF H
  <2> QED
    BY <1>4, <1>5, <2>1, HubKeepsOn
<1>6. \A r : HubKeeps(h, H, Replying(H, r))
  BY <1>2, HubOperatorsKeep
<1>7. ASSUME NEW m, HubChangeParent(h, m) PROVE HubStays(h)
  BY <1>7, HubChangeParentHolds
<1>8. ASSUME NEW m, HubForwards(h, m) \/ HubRemoves(h, m) \/ HubAnswersChildless(h, m)
                      \/ HubRefuses(h, m) \/ HubRoutes(h, m)
      PROVE  HubStays(h)
  <2>1. /\ UNCHANGED files
        /\ \/ \E pc : HubStep(h, [H EXCEPT !.pc = pc, !.request = m])
           \/ \E r, x : HubStep(h, [Replying(H, r) EXCEPT !.force_exit = x])
           \/ \E r : HubStep(h, Replying(H, r))
           \/ \E fd : HubStep(h, [H EXCEPT !.pc = "send", !.request = m, !.route = fd])
    BY <1>8 DEF HubForwards, HubRemoves, HubAnswersChildless, HubRefuses, HubRoutes
  <2>2. /\ \A pc : HubKeeps(h, H, [H EXCEPT !.pc = pc, !.request = m])
        /\ \A r, x : HubKeeps(h, H, [Replying(H, r) EXCEPT !.force_exit = x])
        /\ \A fd : HubKeeps(h, H, [H EXCEPT !.pc = "send", !.request = m, !.route = fd])
    BY <1>2, <1>3 DEF HubKeeps, Replying
  <2> HIDE DEF H
  <2> QED
    BY <1>4, <1>6, <2>1, <2>2
<1>9. CASE HubSends(h)
  BY <1>3, <1>5, <1>9 DEF HubSends
<1>10. CASE HubBroadcasts(h)
  <2>1. PICK p : HubStep(h, Resumed([H EXCEPT !.pending = Append(@, p)])) /\ UNCHANGED files
    BY <1>10 DEF HubBroadcasts
  <2>2. HubKeeps(h, H, [H EXCEPT !.pending = Append(@, p)])
    BY <1>2, HubOperatorsKeep
  <2> QED
    BY <1>5, <2>1, <2>2
<1>11. CASE HubRemovesChild(h)
  <2> DEFINE gone == RemoveChild(h, H, F, H.request.arg, h)
             typed == [gone.hub EXCEPT !.pc = "type", !.remove_child_succeed = TRUE]
  <2>1. /\ HubStep(h, typed) \/ \E r : HubStep(h, Replying(gone.hub, r))
        /\ files' = [files EXCEPT ![h] = gone.files]
    BY <1>11 DEF HubRemovesChild
  <2>2. HubHolds(h, gone.hub, gone.files) /\ {"routing_table", "snd"} \subseteq DOMAIN gone.hub
    <3> HIDE DEF H, F
    <3> QED
      BY <1>1, RemoveChildHolds DEF H, F
  <2> HIDE DEF gone
  <2>3. /\ HubKeeps(h, gone.hub, typed)
        /\ \A r : HubKeeps(h, gone.hub, Replying(gone.hub, r))
    BY <2>2, HubOperatorsKeep DEF HubKeeps
  <2> HIDE DEF typed
  <2>4. /\ HubHolds(h, typed, gone.files)
        /\ \A r : HubHolds(h, Replying(gone.hub, r), gone.files)
    BY <2>2, <2>3, HubKeepsHolds
  <2> QED
    BY <2>1, <2>4, HubStepStays
<1>12. CASE HubTypes(h)
  <2>1. UNCHANGED files /\ \E r : HubStep(h, Replying(H, r))
    BY <1>12 DEF HubTypes, pipes
  <2> QED
    BY <1>4, <1>6, <2>1
<1>13. CASE HubReplies(h)
  <2> DEFINE left == IF H.remove_child_succeed THEN Waived(H, H.request.arg) ELSE H
             done == [left EXCEPT !.parent_changed = FALSE, !.remove_child_succeed = FALSE]
  <2>1. HubKeeps(h, H, left)
    BY <1>2, <1>3, HubOperatorsKeep
  <2>2. HubStep(h, Resumed(done)) /\ UNCHANGED files
    BY <1>13 DEF HubReplies
  <2> HIDE DEF left, H
  <2>3. HubKeeps(h, left, done)
    BY <2>1 DEF HubKeeps, DirectKept
  <2> HIDE DEF done
  <2>4. HubKeeps(h, H, done)
    BY <2>1, <2>3, HubKeepsOn
  <2> QED
    BY <1>5, <2>2, <2>4
<1>14. CASE HubEndOfFile(h)
  <2>1. PICK r : HubStep(h, [Replying(H, r) EXCEPT !.force_exit = TRUE]) /\ UNCHANGED files
    BY <1>14 DEF HubEndOfFile, pipes
  <2>2. HubKeeps(h, H, [Replying(H, r) EXCEPT !.force_exit = TRUE])
    BY <1>2, <1>3 DEF HubKeeps, Replying
  <2> QED
    BY <1>4, <2>1, <2>2
<1> QED
  BY <1>7, <1>8, <1>9, <1>10, <1>11, <1>12, <1>13, <1>14, Zenon DEF HubTopDown

=============================================================================
