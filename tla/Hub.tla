-------------------------------- MODULE Hub --------------------------------
(***************************************************************************)
(* A Hub (src/code/src/hub.c).  The main thread reads requests from the    *)
(* hub's down pipe and executes them, forwards them to the direct children *)
(* or routes them to a descendant; the bottom-up thread reads what the     *)
(* children write to the hub's up pipe, learns from it how the branch      *)
(* below has changed and passes it on to the parent.                       *)
(*                                                                         *)
(* A critical section of data_mutex is one action: it neither waits nor    *)
(* fails, apart from the open of a child's pipe.  What the code reads      *)
(* without the mutex (has_children, device_type, a next_hop_fd already     *)
(* looked up) is read by an action of its own.  Failing mutex calls and    *)
(* allocations are left out.                                               *)
(***************************************************************************)
EXTENDS Pipes

CONSTANT ChildrenModulus    \* children is unsigned and wraps (2^32 in the code)

ASSUME ChildrenModulusAssumption == ChildrenModulus \in Nat \ {0}

VARIABLE hub    \* of every hub, its globals and the locals of its main thread:
    \*   device_type, routing_table, children, has_children, parent_id,
    \*   parent_changed, remove_child_succeed, force_exit
    \*   pending    pending_responses: [cmd, devices, has_error, state],
    \*              devices being the direct children still to answer
    \*   snd        snd_responses_parent_fd, or NoFd (-1)
    \*   pc         where the main thread is; bottom_pc: the bottom-up thread
    \*   request, response, route

TopDownPcs == {"read", "forward", "remove", "type", "send", "reply", "exit", "blocked"}

\* What a hub asks all its children at once.
Collectable == {"info", "delete"} \cup Switches

Pendings == [cmd : Collectable, devices : SUBSET Devices, has_error : BOOLEAN,
             state : STATE_OFF .. UNDEFINED_STATE]

HubTyped(H) ==
    /\ H \in [device_type : HUB_DEVICE .. TIMER_DEVICE + 3, routing_table : {H.routing_table},
              children : 0 .. ChildrenModulus - 1, has_children : BOOLEAN,
              parent_id : Controls, parent_changed : BOOLEAN, remove_child_succeed : BOOLEAN,
              force_exit : BOOLEAN, pending : Seq(Pendings), snd : Fds \cup {NoFd},
              pc : TopDownPcs, bottom_pc : {"read", "exit", "blocked"},
              request : Requests \cup {NoRequest}, response : Responses \cup {NoResponse},
              route : Fds \cup {NoFd}]
    /\ IsTable(H.routing_table, Hubs \cup Timers)

\* The main thread has what its next step needs.
HubReady(H) ==
    /\ H.pc \in {"send", "forward", "remove", "type"} => H.request \in Requests
    /\ H.pc = "forward" => H.request.cmd \in Collectable
    /\ H.pc = "remove" => H.request.cmd = "remove_child"
    /\ H.pc = "type" => H.request.cmd \in Links
    /\ H.pc = "reply" => H.response \in Responses

HubTypeOK ==
    /\ hub = [h \in Hubs |-> hub[h]]
    /\ \A h \in Hubs : HubTyped(hub[h]) /\ HubReady(hub[h])

\* What the hub takes for open is: the pipes of its direct children, and that of
\* a parent, which is not parent_id's when the old one could not be closed.
HubHolds(h, H, F) ==
    /\ ChildrenOpen(H.routing_table, h, F)
    /\ H.snd # NoFd => F[H.snd].dir = "up"

HubStep(h, new) == hub' = [hub EXCEPT ![h] = new]

\* data_mutex can be taken: no thread waits in an open with it.
Unlocked(h) == "blocked" \notin {hub[h].pc, hub[h].bottom_pc}

\* write_pipe_response, of several responses in order.
WriteUp(F, H, q, ms) == IF H.snd = NoFd THEN q ELSE SendUp(q, F[H.snd], ms)

-----------------------------------------------------------------------------
(* Pending responses.                                                      *)

\* check_pending: the first pending response that waits for device d, among
\* those for the given commands; 0 if there is none.
FindPending(pending, d, cmds) ==
    LET found == {i \in DOMAIN pending : d \in pending[i].devices /\ pending[i].cmd \in cmds}
    IN  IF found = {} THEN 0 ELSE Min(found)

\* Mutant: the last state wins.
MergedLast(old, new) == new

Merged(old, new) ==
    CASE old = UNDEFINED_STATE -> new
      [] old # UNDEFINED_STATE /\ new \in {old, UNDEFINED_STATE} -> old
      [] OTHER -> STATE_MANUAL_OVERRIDE

\* Mutant: the first answer completes the pending response.
AnsweredByFirst(H, p, r) == [p EXCEPT !.devices = {}]

\* update_pending, once check_pending has ticked the source of r off.
UpdatePending(H, p, r) ==
    LET from_hub == /\ r.src \in DOMAIN H.routing_table
                    /\ IsHub(H.routing_table[r.src].type)
        reported == /\ Len(r.args) = IF r.cmd = "info" THEN 2 ELSE 1
                    /\ Last(r.args) = CHILD_ERROR
    IN  [p EXCEPT !.devices = @ \ {r.src},
                  !.state = IF r.cmd = "info" /\ r.args # <<>>
                            THEN Merged(@, r.args[1]) ELSE @,
                  !.has_error = @ \/ r.code # "OK" \/ (from_hub /\ reported)]

\* format_response_type: what the parent is told when p is complete.  A delete
\* without errors keeps the arguments of the response that completed it.
Collected(h, p, args) ==
    Response(h, p.cmd, "OK",
        CASE p.cmd = "info" /\ p.has_error -> <<p.state, CHILD_ERROR>>
          [] p.cmd = "info" /\ ~p.has_error -> <<p.state>>
          [] p.cmd # "info" /\ p.has_error -> <<CHILD_ERROR>>
          [] p.cmd = "delete" /\ ~p.has_error -> args
          [] OTHER -> <<>>)

\* The elements of s at the positions I, in their order.
ThoseAt(s, I) ==
    LET order == InIdOrder(I) IN [n \in DOMAIN order |-> s[order[n]]]

\* Mutant: what was expected of a device that has left still is.
NothingWaived(H, d) == H

\* check_complete_and_send: device d has left, whatever was expected of it is
\* no longer; what becomes complete is sent.
Waived(H, d) ==
    LET kept == ThoseAt(H.pending, {i \in DOMAIN H.pending : H.pending[i].devices # {d}})
    IN  [H EXCEPT
            !.pending = [i \in DOMAIN kept |-> [kept[i] EXCEPT !.devices = @ \ {d}]],
            !.force_exit = @ \/ \E p \in Range(H.pending) :
                                    p.cmd = "delete" /\ p.devices = {d}]

WaivedResponses(h, H, d, args) ==
    LET done == ThoseAt(H.pending, {i \in DOMAIN H.pending : H.pending[i].devices = {d}})
        answer[n \in 0 .. Len(done)] ==
            IF n = 0 THEN Response(h, "null", "OK", args)
            ELSE Collected(h, done[n], answer[n - 1].args)
    IN  [n \in DOMAIN done |-> answer[n]]

-----------------------------------------------------------------------------
(* What a hub knows of its branch.                                         *)

\* update_type: the direct children other than d decide whether it has a type.
UpdateType(h, H, d) ==
    IF \A k \in Direct(H.routing_table, h) \ {d} : IsEmpty(H.routing_table[k].type)
    THEN [H EXCEPT !.device_type = HUB_DEVICE] ELSE H

\* Mutant: the counter starts again.
AllChildrenLost(H) == [H EXCEPT !.children = 0, !.has_children = FALSE]

\* A child counted by add_child is no longer.
ChildLost(H) ==
    LET left == (H.children - 1) % ChildrenModulus
    IN  [H EXCEPT !.children = left, !.has_children = @ /\ left # 0]

\* remove_child, asked for by the parent (via is the hub itself) or because
\* the child has been deleted (via is the parent the table gives it).
RemoveChild(h, H, F, d, via) ==
    LET entry == H.routing_table[d]
        counted == IF via = h THEN ChildLost(H) ELSE H
        removed == [counted EXCEPT !.routing_table =
                       UpdateTypeToEmpty(RemoveRoute(@, d, via), entry.parent)]
    IN  CASE d \notin DOMAIN H.routing_table ->
               [code |-> "CHILD_NOT_FOUND", hub |-> H, files |-> F]
          [] d \in DOMAIN H.routing_table /\ entry.parent = h /\ ~IsOpen(F, entry.fd) ->
               [code |-> "UNABLE_TO_CLOSE_PIPE", hub |-> counted, files |-> F]
          [] OTHER ->
               [code |-> "OK", hub |-> UpdateType(h, removed, d),
                files |-> IF entry.parent = h THEN Close(F, entry.fd) ELSE F]

\* add_child, of a child that is now direct; its pipe opens.
AddDirectChild(h, H, F, d, type) ==
    LET fd == LowestFree(F)
        known == d \in DOMAIN H.routing_table /\ H.routing_table[d].parent = h
        opened == OpenAt(F, fd, Down(d))
        old == H.routing_table[d].fd
    IN  [hub |-> [H EXCEPT
            !.routing_table = InsertDirect(@, d, type, h, fd),
            !.has_children = @ \/ H.device_type = HUB_DEVICE,
            !.device_type = IF @ = HUB_DEVICE THEN HubOr(type) ELSE @,
            !.children = (@ + 1) % ChildrenModulus],
         code |-> IF known /\ ~IsOpen(opened, old) THEN "UNABLE_TO_CLOSE_PIPE" ELSE "OK",
         files |-> IF known THEN Close(opened, old) ELSE opened]

\* add_child, of a device below one of the children.
AddIndirectChild(H, d, type, parent) ==
    IF parent \in DOMAIN H.routing_table
    THEN [H EXCEPT
            !.routing_table = UpdateTypeToNotEmpty(InsertIndirect(@, d, type, parent), d),
            !.device_type = IF @ = HUB_DEVICE THEN HubOr(type) ELSE @]
    ELSE H

\* Mutant: only the type is brought up to date.
OnlyTypeUpdated(h, H, d, source) == UpdateType(h, H, d)

\* link_remove_child_received: hub source has lost child d.
ForgetChild(h, H, d, source) ==
    UpdateType(h, [H EXCEPT !.routing_table =
                      UpdateTypeToEmpty(RemoveRoute(@, d, source), source)], d)

-----------------------------------------------------------------------------
(* The bottom-up thread.                                                   *)

\* It reads response r, answers the parent with ms and goes back to reading.
BottomUp(h, r, H, F, ms) ==
    /\ Running(h) /\ Unlocked(h) /\ hub[h].bottom_pc = "read" /\ up[h] # <<>>
    /\ r = Head(up[h])
    /\ HubStep(h, [H EXCEPT !.bottom_pc = IF @ = "read" /\ H.force_exit THEN "exit" ELSE @])
    /\ files' = [files EXCEPT ![h] = F]
    /\ up' = WriteUp(F, H, [up EXCEPT ![h] = Tail(@)], ms)
    /\ UNCHANGED <<down, exit_code, fifos>>

HubGarbled(h, r) ==
    /\ ~Parses(r)
    /\ BottomUp(h, r, hub[h], files[h],
                <<Response(h, "null", "RESPONSE_FORMAT_ERROR", <<>>)>>)

HubDirectChildAdded(h, r) ==
    LET added == AddDirectChild(h, hub[h], files[h], r.src, r.args[2])
    IN  /\ r.cmd = "change_parent" /\ r.code = "OK" /\ r.args[1] = h
        /\ \/ /\ OpenBlocks(r.src)
              /\ BottomUp(h, r, [hub[h] EXCEPT !.bottom_pc = "blocked"], files[h], <<>>)
           \/ /\ OpenReturns(r.src) /\ DownOpens(files[h], r.src)
              /\ BottomUp(h, r, added.hub, added.files, <<[r EXCEPT !.code = added.code]>>)
           \/ /\ OpenReturns(r.src) /\ ~DownOpens(files[h], r.src)
              /\ BottomUp(h, r, hub[h], files[h], <<[r EXCEPT !.code = "UNABLE_TO_OPEN_PIPE"]>>)

HubIndirectChildAdded(h, r) ==
    LET code == IF r.args[1] \in DOMAIN hub[h].routing_table
                THEN "OK" ELSE "ROUTE_NOT_FOUND"
    IN  /\ r.cmd = "change_parent" /\ r.code = "OK" /\ r.args[1] # h
        /\ BottomUp(h, r, AddIndirectChild(hub[h], r.src, r.args[2], r.args[1]),
                    files[h], <<[r EXCEPT !.code = code]>>)

HubChildForgotten(h, r) ==
    /\ r.cmd = "remove_child" /\ r.code = "OK"
    /\ IF r.args[1] \in DOMAIN hub[h].routing_table
       THEN BottomUp(h, r, ForgetChild(h, hub[h], r.args[1], r.src), files[h], <<r>>)
       ELSE BottomUp(h, r, hub[h], files[h], <<[r EXCEPT !.code = "ROUTE_NOT_FOUND"]>>)

\* Mutant: no response is looked for.
NotLookedFor(h, r) == 0

\* Any other response is first looked for among the pending ones.
Waiting(h, r) ==
    IF Parses(r) /\ ~(r.cmd \in Links /\ r.code = "OK")
    THEN FindPending(hub[h].pending, r.src, {r.cmd}) ELSE 0

HubPendingAnswered(h, r) ==
    LET H == hub[h]
        i == Waiting(h, r)
        p == UpdatePending(H, H.pending[i], r)
    IN  /\ i # 0
        /\ IF p.devices # {}
           THEN BottomUp(h, r, [H EXCEPT !.pending[i] = p], files[h], <<>>)
           ELSE BottomUp(h, r, [H EXCEPT !.pending = RemoveAt(@, i),
                                         !.force_exit = @ \/ r.cmd = "delete"],
                         files[h], <<Collected(h, p, r.args)>>)

\* A delete the hub did not collect is taken for the end of its source,
\* whatever its code says.
HubChildDeleted(h, r) ==
    LET H == hub[h]
        via == IF r.src \in DOMAIN H.routing_table
               THEN H.routing_table[r.src].parent ELSE h
        gone == RemoveChild(h, H, files[h], r.src, via)
    IN  /\ r.cmd = "delete" /\ Waiting(h, r) = 0
        /\ BottomUp(h, r, Waived(gone.hub, r.src), gone.files,
                    <<r>> \o WaivedResponses(h, gone.hub, r.src, r.args))

HubPassesOn(h, r) ==
    /\ Parses(r) /\ r.cmd # "delete" /\ ~(r.cmd \in Links /\ r.code = "OK")
    /\ Waiting(h, r) = 0
    /\ BottomUp(h, r, hub[h], files[h], <<r>>)

-----------------------------------------------------------------------------
(* The main thread.                                                        *)

\* It reads request m.
TopDownReads(h, m) ==
    /\ Running(h) /\ hub[h].pc = "read" /\ down[h] # <<>>
    /\ m = Head(down[h])
    /\ down' = [down EXCEPT ![h] = Tail(@)]
    /\ UNCHANGED <<up, exit_code, fifos>>

Replying(H, r) == [H EXCEPT !.pc = "reply", !.response = r]

\* Back to the head of the loop, or out of it.
Resumed(H) ==
    [H EXCEPT !.pc = IF H.force_exit THEN "exit" ELSE "read",
              !.request = NoRequest, !.route = NoFd,
              !.response = IF H.force_exit THEN @ ELSE NoResponse]

\* change_snd_responses_pipe under the mutex, unless the parent is the same.
HubChangeParent(h, m) ==
    LET H == hub[h]
        F == files[h]
        moves == m.arg # H.parent_id
        opens == UpOpens(m.arg) /\ FreeFds(F) # {}
        closes == H.snd # NoFd /\ IsOpen(F, H.snd)
        fd == LowestFree(F)
        opened == OpenAt(F, fd, Up(m.arg))
        failed == Response(h, m.cmd, IF opens THEN "UNABLE_TO_CLOSE_PIPE"
                                              ELSE "UNABLE_TO_OPEN_PIPE", <<>>)
        typed == [H EXCEPT !.pc = "type", !.request = m]
    IN  /\ TopDownReads(h, m) /\ m.dst = h /\ m.cmd = "change_parent"
        /\ moves => Unlocked(h)
        /\ CASE ~moves -> HubStep(h, typed) /\ UNCHANGED files
             [] moves /\ ~UpOpenReturns(m.arg) ->
                  HubStep(h, [H EXCEPT !.pc = "blocked"]) /\ UNCHANGED files
             [] moves /\ UpOpenReturns(m.arg) /\ ~opens ->
                  HubStep(h, [Replying(H, failed) EXCEPT !.snd = NoFd]) /\ UNCHANGED files
             [] moves /\ opens /\ ~closes ->
                  /\ HubStep(h, [Replying(H, failed) EXCEPT !.snd = fd])
                  /\ files' = [files EXCEPT ![h] = opened]
             [] moves /\ opens /\ closes ->
                  /\ HubStep(h, [typed EXCEPT !.snd = fd, !.parent_id = m.arg,
                                              !.parent_changed = TRUE])
                  /\ files' = [files EXCEPT ![h] = Close(opened, H.snd)]

\* has_children and device_type are read here, without the mutex, and decide
\* what the hub does about a request for itself.
HubForwards(h, m) ==
    /\ TopDownReads(h, m) /\ m.dst = h
    /\ hub[h].has_children
    /\ m.cmd \in {"info", "delete"} \/ Fits(m.cmd, hub[h].device_type)
    /\ HubStep(h, [hub[h] EXCEPT !.pc = "forward", !.request = m])
    /\ UNCHANGED files

HubRemoves(h, m) ==
    /\ TopDownReads(h, m) /\ m.dst = h /\ m.cmd = "remove_child"
    /\ hub[h].has_children
    /\ HubStep(h, [hub[h] EXCEPT !.pc = "remove", !.request = m])
    /\ UNCHANGED files

\* Mutant: a hub told to delete leaves its children behind.
HubLeavesAtOnce(h, m) ==
    /\ TopDownReads(h, m) /\ m.dst = h /\ m.cmd \in {"info", "delete"}
    /\ HubStep(h, [Replying(hub[h], Response(h, m.cmd, "OK",
                        IF m.cmd = "info" THEN <<UNDEFINED_STATE>> ELSE <<>>))
                    EXCEPT !.force_exit = @ \/ m.cmd = "delete"])
    /\ UNCHANGED files

HubAnswersChildless(h, m) ==
    /\ TopDownReads(h, m) /\ m.dst = h
    /\ ~hub[h].has_children /\ m.cmd \in {"info", "delete"}
    /\ HubStep(h, [Replying(hub[h], Response(h, m.cmd, "OK",
                        IF m.cmd = "info" THEN <<UNDEFINED_STATE>> ELSE <<>>))
                    EXCEPT !.force_exit = @ \/ m.cmd = "delete"])
    /\ UNCHANGED files

HubRefuses(h, m) ==
    /\ TopDownReads(h, m) /\ m.dst = h
    /\ \/ m.cmd \in Switches /\ ~(hub[h].has_children /\ Fits(m.cmd, hub[h].device_type))
       \/ m.cmd = "remove_child" /\ ~hub[h].has_children
       \/ m.cmd \in Registries
    /\ HubStep(h, Replying(hub[h], Response(h, m.cmd, "UNEXPECTED_COMMAND", <<>>)))
    /\ UNCHANGED files

\* A request for a device below: the route is looked up under the mutex.  The
\* arguments of an info that failed are not read back by parse_response.
HubRoutes(h, m) ==
    /\ TopDownReads(h, m) /\ m.dst # h /\ Unlocked(h)
    /\ IF m.dst \in DOMAIN hub[h].routing_table
       THEN HubStep(h, [hub[h] EXCEPT !.pc = "send", !.request = m,
                            !.route = hub[h].routing_table[m.dst].fd])
       ELSE HubStep(h, Replying(hub[h], Response(h, m.cmd, "ROUTE_NOT_FOUND",
                        IF m.cmd = "info" THEN <<>> ELSE <<m.dst>>)))
    /\ UNCHANGED files

\* The request leaves by the descriptor looked up, without the mutex.
HubSends(h) ==
    /\ Running(h) /\ hub[h].pc = "send"
    /\ down' = SendDown(down, files[h][hub[h].route], hub[h].request)
    /\ HubStep(h, Resumed(hub[h]))
    /\ UNCHANGED <<up, files, exit_code, fifos>>

\* Mutant: nothing is kept of what the children are to answer.
HubForwardsOnly(h) ==
    LET H == hub[h]
        children == InIdOrder(Direct(H.routing_table, h))
        sent[n \in 0 .. Len(children)] ==
            IF n = 0 THEN down
            ELSE SendDown(sent[n - 1], files[h][H.routing_table[children[n]].fd],
                          [H.request EXCEPT !.dst = children[n]])
    IN  /\ Running(h) /\ Unlocked(h) /\ H.pc = "forward"
        /\ down' = sent[Len(children)]
        /\ HubStep(h, Resumed(H))
        /\ UNCHANGED <<up, files, exit_code, fifos>>

\* forward_to_children: one copy to each direct child, one pending response.
HubBroadcasts(h) ==
    LET H == hub[h]
        children == InIdOrder(Direct(H.routing_table, h))
        sent[n \in 0 .. Len(children)] ==
            IF n = 0 THEN down
            ELSE SendDown(sent[n - 1], files[h][H.routing_table[children[n]].fd],
                          [H.request EXCEPT !.dst = children[n]])
        p == [cmd |-> H.request.cmd, devices |-> Range(children),
              has_error |-> FALSE, state |-> UNDEFINED_STATE]
    IN  /\ Running(h) /\ Unlocked(h) /\ H.pc = "forward"
        /\ down' = sent[Len(children)]
        /\ HubStep(h, Resumed([H EXCEPT !.pending = Append(@, p)]))
        /\ UNCHANGED <<up, files, exit_code, fifos>>

HubRemovesChild(h) ==
    LET H == hub[h]
        gone == RemoveChild(h, H, files[h], H.request.arg, h)
    IN  /\ Running(h) /\ Unlocked(h) /\ H.pc = "remove"
        /\ HubStep(h, IF gone.code = "OK"
                      THEN [gone.hub EXCEPT !.pc = "type", !.remove_child_succeed = TRUE]
                      ELSE Replying(gone.hub,
                               Response(h, "remove_child", gone.code, <<>>)))
        /\ files' = [files EXCEPT ![h] = gone.files]
        /\ UNCHANGED <<down, up, exit_code, fifos>>

\* The answer to a link carries device_type, read without the mutex.
HubTypes(h) ==
    /\ Running(h) /\ hub[h].pc = "type"
    /\ HubStep(h, Replying(hub[h], Response(h, hub[h].request.cmd, "OK",
                               <<hub[h].request.arg, hub[h].device_type>>)))
    /\ UNCHANGED pipes

\* Mutant: a new parent is told of the hub alone.
NoHistory(H, h) == <<>>

\* replay_history: a change parent response for every device of the branch.
History(H, h) ==
    LET devices == Walk(H.routing_table, h)
    IN  [n \in DOMAIN devices |->
            Response(devices[n], "change_parent", "OK",
                     <<H.routing_table[devices[n]].parent, H.routing_table[devices[n]].type>>)]

\* After the processing time, in one critical section: the answer, then the
\* history if the parent changed, then what a removed child leaves complete.
HubReplies(h) ==
    LET H == hub[h]
        r == H.response
        history == IF H.parent_changed THEN History(H, h) ELSE <<>>
        waived == IF H.remove_child_succeed
                  THEN WaivedResponses(h, H, H.request.arg, r.args) ELSE <<>>
        left == IF H.remove_child_succeed THEN Waived(H, H.request.arg) ELSE H
    IN  /\ Running(h) /\ Unlocked(h) /\ H.pc = "reply"
        /\ up' = WriteUp(files[h], H, up, <<r>> \o history \o waived)
        /\ HubStep(h, Resumed([left EXCEPT !.parent_changed = FALSE,
                                           !.remove_child_succeed = FALSE]))
        /\ UNCHANGED <<down, files, exit_code, fifos>>

\* Mutant: a hub without a parent goes on.
HubCarriesOn(h) ==
    /\ Running(h) /\ hub[h].pc = "read" /\ down[h] = <<>> /\ ~HasWriter(h)
    /\ HubStep(h, Replying(hub[h], Response(h, "null", "UNEXPECTED_END_OF_FILE", <<>>)))
    /\ UNCHANGED pipes

HubEndOfFile(h) ==
    /\ Running(h) /\ hub[h].pc = "read" /\ down[h] = <<>> /\ ~HasWriter(h)
    /\ HubStep(h, [Replying(hub[h], Response(h, "null", "UNEXPECTED_END_OF_FILE", <<>>))
                    EXCEPT !.force_exit = TRUE])
    /\ UNCHANGED pipes

-----------------------------------------------------------------------------
\* The bottom-up thread ends with OK, the main thread with its last answer.
HubExitCode(h) ==
    IF hub[h].snd # NoFd /\ (hub[h].pc = "exit" => hub[h].response.code = "OK")
    THEN "OK" ELSE "error"

\* Mutant: the process waits for both threads, one of them in a read.
HubExitsAfterBoth(h) ==
    /\ Running(h) /\ {"exit"} = {hub[h].pc, hub[h].bottom_pc}
    /\ Exits(h, HubExitCode(h), up)
    /\ UNCHANGED <<hub, fifos>>

\* handle_shutdown, by the thread that left its loop first: every descriptor
\* is closed and the process exits.
HubExits(h) ==
    /\ Running(h) /\ "exit" \in {hub[h].pc, hub[h].bottom_pc}
    /\ Exits(h, HubExitCode(h), up)
    /\ UNCHANGED <<hub, fifos>>

\* SIGTERM, handled by the main thread, which cancels and joins the other: that
\* one dies in its read or open, but never if it waits for the mutex.
HubTerminates(h) ==
    /\ hub[h].pc = "blocked" => up[h] = <<>>
    /\ Exits(h, "error", up)
    /\ UNCHANGED <<hub, fifos>>

HubTopDown(h) ==
    \/ \E m \in First(down[h]) :
          HubChangeParent(h, m) \/ HubForwards(h, m) \/ HubRemoves(h, m)
             \/ HubAnswersChildless(h, m) \/ HubRefuses(h, m) \/ HubRoutes(h, m)
    \/ HubSends(h) \/ HubBroadcasts(h) \/ HubRemovesChild(h)
    \/ HubTypes(h) \/ HubReplies(h) \/ HubEndOfFile(h)

HubBottomUp(h) ==
    \E r \in First(up[h]) :
        \/ HubGarbled(h, r) \/ HubDirectChildAdded(h, r) \/ HubIndirectChildAdded(h, r)
        \/ HubChildForgotten(h, r) \/ HubPendingAnswered(h, r)
        \/ HubChildDeleted(h, r) \/ HubPassesOn(h, r)

=============================================================================
