------------------------------- MODULE Timer -------------------------------
(***************************************************************************)
(* A Timer (src/code/src/timer.c).  It controls a single child, a leaf or  *)
(* a control device with a branch below it.  The main thread reads         *)
(* requests and asks the child what it is asked itself; the child-responses*)
(* thread passes on what the child writes, as the timer's own answer if    *)
(* the timer was waiting for one of that kind; the schedule thread         *)
(* switches the child on at begin and off at end.                          *)
(*                                                                         *)
(* A critical section of data_mutex is one action.  Threads are cancelled  *)
(* in read, sleep, write and close; one that is cancelled in a call it     *)
(* makes with the mutex locked leaves it locked for ever.  Failing mutex   *)
(* calls, thread creation and allocations are left out.                    *)
(***************************************************************************)
EXTENDS Pipes

VARIABLES
    timer,      \* of every timer, its globals and the locals of its threads:
    \*   device_type, state, begin, end, parent_id, parent_changed, force_exit
    \*   failed         the process ends with an error
    \*   has_child, child_id, child_type, child_fd (snd_requests_child_fd)
    \*   routing_table  the branch of a child that is a control device
    \*   pending        pending_commands, the commands the child is to answer
    \*   snd            snd_responses_fd
    \*   locked         data_mutex was locked by a thread that is no more
    \*   pc, request, response, route            of the main thread
    \*   bottom_pc, answer, last                 of the child-responses thread
    \*   schedule_pc, left, activate, due        of the schedule thread: the
    \*                  minutes it sleeps, what it then does, to which child
    now         \* minutes since midnight

timerVars == <<timer, now>>

DEFAULT_BEGIN == 0
DEFAULT_END == MINUTES_IN_A_DAY - 1

Dues == [dst : Devices \cup {0}, type : DeviceTypes \cup {0}, fd : Fds \cup {NoFd}]
NotDue == [dst |-> 0, type |-> 0, fd |-> NoFd]

\* Where each of the threads may be.
TimerPcs == {"read", "forward", "unreachable", "reschedule", "reply", "replay",
             "replay_child", "replay_branch", "announce", "exit", "exiting", "blocked"}
BottomPcs == {"read", "own", "write", "exit", "ended", "blocked"}
SchedulePcs == {"start", "asleep", "switch", "unreachable", "update", "ended"}

TimerTyped(H) ==
    /\ H \in [device_type : TIMER_DEVICE .. TIMER_DEVICE + 3, state : {STATE_OFF, STATE_ON},
              begin : Minutes, end : Minutes, parent_id : Controls,
              parent_changed : BOOLEAN, force_exit : BOOLEAN, failed : BOOLEAN,
              has_child : BOOLEAN, child_id : Devices \cup {0},
              child_type : DeviceTypes \cup {0}, child_fd : Fds \cup {NoFd},
              routing_table : {H.routing_table}, pending : Seq(Commands),
              snd : Fds \cup {NoFd}, locked : BOOLEAN,
              pc : TimerPcs,
              request : Requests \cup {NoRequest}, response : Responses \cup {NoResponse},
              route : Fds \cup {NoFd},
              bottom_pc : BottomPcs,
              answer : Responses \cup {NoResponse}, last : BOOLEAN,
              schedule_pc : SchedulePcs,
              left : 0 .. MINUTES_IN_A_DAY, activate : BOOLEAN, due : Dues]
    /\ IsTable(H.routing_table, Hubs \cup Timers)

\* Each thread has what its next step needs, and the child is one there is.
TimerReady(H) ==
    /\ H.begin <= H.end
    /\ H.has_child => H.child_id \in Devices /\ H.child_type \in OwnTypes(H.child_id)
    /\ H.pc \in {"forward", "unreachable"} => H.request \in Requests
    /\ H.pc \in {"reschedule", "reply", "announce"} => H.response \in Responses
    /\ H.bottom_pc \in {"own", "write"} => H.answer \in Responses
    /\ H.bottom_pc = "own" => H.answer.cmd = "delete"
    /\ H.schedule_pc = "switch" => H.due.dst \in Devices

TimerTypeOK ==
    /\ now \in Minutes
    /\ timer = [t \in Timers |-> timer[t]]
    /\ \A t \in Timers : TimerTyped(timer[t]) /\ TimerReady(timer[t])

\* What the timer takes for open is: the pipes of its child, of the entries of
\* its table that are next to it, and of its parent.
TimerHolds(t, H, F) ==
    /\ H.has_child => H.child_fd \in Fds /\ F[H.child_fd] = Down(H.child_id)
    /\ ChildrenOpen(H.routing_table, t, F)
    /\ H.snd # NoFd => F[H.snd] = Up(H.parent_id)

TimerInit ==
    /\ timer = [t \in Timers |->
          [device_type |-> TIMER_DEVICE, state |-> STATE_OFF,
           begin |-> DEFAULT_BEGIN, end |-> DEFAULT_END,
           parent_id |-> CONTROLLER_ID, parent_changed |-> FALSE, force_exit |-> FALSE, failed |-> FALSE,
           has_child |-> FALSE, child_id |-> 0, child_type |-> 0, child_fd |-> NoFd,
           routing_table |-> EmptyTable, pending |-> <<>>, snd |-> 1, locked |-> FALSE,
           pc |-> "read", request |-> NoRequest, response |-> NoResponse, route |-> NoFd,
           bottom_pc |-> "read", answer |-> NoResponse, last |-> FALSE,
           schedule_pc |-> "start", left |-> 0, activate |-> FALSE, due |-> NotDue]]
    /\ now \in Minutes

\* A step of timer t that takes data_mutex, and one that does not.
TimerStep(t, new) == Running(t) /\ timer' = [timer EXCEPT ![t] = new] /\ UNCHANGED now
Locking(t, new) == ~timer[t].locked /\ TimerStep(t, new)

\* write to the parent or to the child; without a reader it fails.
ParentReads(t) == timer[t].snd # NoFd /\ UpExists(files[t][timer[t].snd].id)
ChildReads(t, fd) ==
    IsOpen(files[t], fd) /\ (files[t][fd].dir = "down" => Alive(files[t][fd].id))

\* write_to_parent of responses ms; H is the timer after it, or failed when
\* the parent does not read.
TellsParent(t, ms, H, failed) ==
    /\ IF ParentReads(t)
       THEN up' = SendUp(up, files[t][timer[t].snd], ms) /\ Locking(t, H)
       ELSE Locking(t, failed) /\ UNCHANGED up
    /\ UNCHANGED <<down, files, exit_code, fifos>>

-----------------------------------------------------------------------------
(* What the timer keeps.                                                   *)

\* take_pending: the oldest command of the same kind, if any, was awaited.
TakePending(pending, cmd) ==
    LET same == {i \in DOMAIN pending : Masked(pending[i]) = Masked(cmd)}
    IN  IF same = {} THEN [ours |-> FALSE, left |-> pending]
        ELSE [ours |-> TRUE, left |-> RemoveAt(pending, Min(same))]

\* Mutant: the declared type is not brought up to date.
TypeNotRefreshed(H) == H

\* Mutant: the child's type is added with its control bits.
TypeAdded(H) ==
    LET type == IF H.child_id \in DOMAIN H.routing_table
                THEN H.routing_table[H.child_id].type ELSE H.child_type
    IN  [H EXCEPT !.child_type = type, !.device_type = TIMER_DEVICE + type]

\* refresh_child_type.
Refreshed(H) ==
    LET type == IF H.child_id \in DOMAIN H.routing_table
                THEN H.routing_table[H.child_id].type ELSE H.child_type
    IN  [H EXCEPT !.child_type = type, !.device_type = TIMER_DEVICE + ChildType(type)]

RefreshedIfChild(H) == IF H.has_child THEN Refreshed(H) ELSE H

\* Mutant: the timer still believes in its child.
ChildNotForgotten(t, H) == [H EXCEPT !.device_type = TIMER_DEVICE]

\* drop_child; the descriptor is closed too, by WithoutChild.
DropChild(t, H) ==
    [H EXCEPT !.routing_table = RemoveRoute(@, H.child_id, t),
              !.has_child = FALSE, !.device_type = TIMER_DEVICE]

WithoutChild(t) == [files EXCEPT ![t] = Close(@, timer[t].child_fd)]

\* What the label of a switch makes of the state.
Commanded(cmd, old) ==
    CASE cmd \in {"power_on", "open_on"} -> STATE_ON
      [] cmd \in {"power_off", "close_on"} -> STATE_OFF
      [] OTHER -> old

-----------------------------------------------------------------------------
(* The main thread.                                                        *)

TimerReads(t, m) ==
    /\ timer[t].pc = "read" /\ down[t] # <<>>
    /\ m = Head(down[t])

Taken(t) == [down EXCEPT ![t] = Tail(@)]

TimerReplying(H, r) == [H EXCEPT !.pc = "reply", !.response = r]

TimerResumed(H) ==
    [H EXCEPT !.pc = IF H.force_exit THEN "exit" ELSE "read", !.parent_changed = FALSE,
              !.request = NoRequest, !.response = NoResponse, !.route = NoFd]

\* A request for another device: the child is looked up under the mutex ...
TimerForwards(t, m) ==
    /\ TimerReads(t, m) /\ m.dst # t
    /\ Locking(t, IF timer[t].has_child
           THEN [timer[t] EXCEPT !.pc = "forward", !.request = m, 
                                          !.route = timer[t].child_fd]
           ELSE TimerReplying(timer[t], Response(t, "null", "DEVICE_NOT_FOUND", <<>>)))
    /\ down' = Taken(t)
    /\ UNCHANGED <<up, files, exit_code, fifos>>

\* ... and written to without it.
TimerWritesOn(t) ==
    /\ timer[t].pc = "forward"
    /\ IF ChildReads(t, timer[t].route)
       THEN /\ down' = SendDown(down, files[t][timer[t].route], timer[t].request)
            /\ TimerStep(t, TimerResumed(timer[t]))
       ELSE /\ TimerStep(t, [timer[t] EXCEPT !.pc = "unreachable"])
            /\ UNCHANGED down
    /\ UNCHANGED <<up, files, exit_code, fifos>>

\* release_unreachable_child, in the main thread.
TimerReleasesChild(t) ==
    LET refused == Response(t, "null", "UNABLE_TO_WRITE_PIPE", <<>>)
    IN  /\ timer[t].pc = "unreachable"
        /\ Locking(t, TimerReplying(
               IF timer[t].has_child THEN DropChild(t, timer[t]) ELSE timer[t], refused))
        /\ files' = IF timer[t].has_child THEN WithoutChild(t) ELSE files
        /\ UNCHANGED <<down, up, exit_code, fifos>>

\* A request for the timer that the child is to answer is written to it under
\* the mutex, the answer being awaited from then on; H is what a command that
\* has left makes of the timer, lost what one that could not.
AsksChild(t, m, H, lost, F) ==
    IF ChildReads(t, timer[t].child_fd)
    THEN /\ down' = SendDown(Taken(t), files[t][timer[t].child_fd],
                             [m EXCEPT !.dst = timer[t].child_id])
         /\ Locking(t, TimerResumed([H EXCEPT !.pending = Append(@, m.cmd)]))
         /\ UNCHANGED <<up, files, exit_code, fifos>>
    ELSE /\ down' = Taken(t)
         /\ Locking(t, TimerReplying(
                [lost EXCEPT !.pending = TakePending(Append(@, m.cmd), m.cmd).left],
                Response(t, m.cmd, "UNABLE_TO_WRITE_PIPE", <<>>)))
         /\ files' = F
         /\ UNCHANGED <<up, exit_code, fifos>>

\* The timer answers r itself.
AnswersItself(t, H, r) ==
    /\ Locking(t, TimerReplying(H, r))
    /\ down' = Taken(t)
    /\ UNCHANGED <<up, files, exit_code, fifos>>

TimerInfo(t, m) ==
    LET H == timer[t]
    IN  /\ TimerReads(t, m) /\ m.dst = t /\ m.cmd = "info"
        /\ IF H.has_child
           THEN AsksChild(t, m, H, DropChild(t, H), WithoutChild(t))
           ELSE AnswersItself(t, H, Response(t, "info", "OK", <<UNDEFINED_STATE>>))

TimerSwitch(t, m) ==
    LET H == timer[t]
    IN  /\ TimerReads(t, m) /\ m.dst = t /\ m.cmd \in Switches
        /\ CASE ~H.has_child ->
                  AnswersItself(t, H, Response(t, m.cmd, "DEVICE_NOT_FOUND", <<>>))
             [] H.has_child /\ ~Fits(m.cmd, H.child_type) ->
                  AnswersItself(t, H, Response(t, m.cmd, "UNEXPECTED_COMMAND", <<>>))
             [] H.has_child /\ Fits(m.cmd, H.child_type) ->
                  AsksChild(t, m, [H EXCEPT !.state = Commanded(m.cmd, @)],
                            DropChild(t, H), WithoutChild(t))

\* Without a child to confirm it, or to reach, the timer exits once it has
\* answered.
TimerDelete(t, m) ==
    LET H == timer[t]
        last == [H EXCEPT !.force_exit = TRUE]
    IN  /\ TimerReads(t, m) /\ m.dst = t /\ m.cmd = "delete"
        /\ IF H.has_child
           THEN AsksChild(t, m, H, last, files)
           ELSE AnswersItself(t, last, Response(t, "delete", "OK", <<>>))

\* change_snd_responses_pipe opens the new pipe before it closes the old one.
TimerChangeParent(t, m) ==
    LET H == timer[t]
        F == files[t]
        opens == UpOpens(m.arg) /\ FreeFds(F) # {}
        answer(code) == Response(t, m.cmd, code, <<m.arg, H.device_type>>)
    IN  /\ TimerReads(t, m) /\ m.dst = t /\ m.cmd = "change_parent"
        /\ CASE m.arg = H.parent_id ->
                  /\ Locking(t, TimerReplying(H, answer("OK")))
                  /\ UNCHANGED files
             [] m.arg # H.parent_id /\ ~UpOpenReturns(m.arg) ->
                  /\ Locking(t, [H EXCEPT !.pc = "blocked", !.locked = TRUE])
                  /\ UNCHANGED files
             [] m.arg # H.parent_id /\ UpOpenReturns(m.arg) /\ ~opens ->
                  /\ Locking(t, [TimerReplying(H, answer("UNABLE_TO_OPEN_PIPE"))
                                    EXCEPT !.snd = NoFd])
                  /\ UNCHANGED files
             [] m.arg # H.parent_id /\ opens ->
                  /\ Locking(t, [TimerReplying(H, answer("OK"))
                                    EXCEPT !.snd = LowestFree(F), !.parent_id = m.arg,
                                           !.parent_changed = TRUE])
                  /\ files' = [files EXCEPT ![t] =
                         Close(OpenAt(F, LowestFree(F), Up(m.arg)), H.snd)]
        /\ down' = Taken(t)
        /\ UNCHANGED <<up, exit_code, fifos>>

TimerRemoveChild(t, m) ==
    LET H == timer[t]
        known == H.has_child /\ m.arg = H.child_id
        code == CASE ~known -> "DEVICE_NOT_FOUND"
                  [] known /\ IsOpen(files[t], H.child_fd) -> "OK"
                  [] OTHER -> "UNABLE_TO_CLOSE_PIPE"
        left == IF known THEN DropChild(t, H) ELSE H
    IN  /\ TimerReads(t, m) /\ m.dst = t /\ m.cmd = "remove_child"
        /\ Locking(t, TimerReplying(left,
               Response(t, m.cmd, code, <<m.arg, left.device_type>>)))
        /\ files' = IF known THEN WithoutChild(t) ELSE files
        /\ down' = Taken(t)
        /\ UNCHANGED <<up, exit_code, fifos>>

\* Mutant: the schedule thread is left to wait for what it waited for.
NotRescheduled(t, m) ==
    LET H == timer[t]
        valid == IF m.cmd = "set_begin" THEN m.arg <= H.end ELSE m.arg >= H.begin
        code == IF valid THEN "OK" ELSE "INVALID_REQUEST_ARGUMENT"
        set == IF m.cmd = "set_begin" THEN [H EXCEPT !.begin = m.arg]
                                      ELSE [H EXCEPT !.end = m.arg]
    IN  /\ TimerReads(t, m) /\ m.dst = t /\ m.cmd \in Registries
        /\ Locking(t, TimerReplying(IF valid THEN set ELSE H,
                                   Response(t, m.cmd, code, <<m.arg>>)))
        /\ down' = Taken(t)
        /\ UNCHANGED <<up, files, exit_code, fifos>>

\* begin may not come after end; the schedule thread is started anew.
TimerRegistry(t, m) ==
    LET H == timer[t]
        valid == IF m.cmd = "set_begin" THEN m.arg <= H.end ELSE m.arg >= H.begin
        code == IF valid THEN "OK" ELSE "INVALID_REQUEST_ARGUMENT"
        set == IF m.cmd = "set_begin" THEN [H EXCEPT !.begin = m.arg]
                                      ELSE [H EXCEPT !.end = m.arg]
        answering == TimerReplying(IF valid THEN set ELSE H,
                                   Response(t, m.cmd, code, <<m.arg>>))
    IN  /\ TimerReads(t, m) /\ m.dst = t /\ m.cmd \in Registries
        /\ Locking(t, IF valid THEN [answering EXCEPT !.pc = "reschedule"] ELSE answering)
        /\ down' = Taken(t)
        /\ UNCHANGED <<up, files, exit_code, fifos>>

\* Where a cancelled schedule thread ends: in its sleep or its write, at once
\* or after the critical section before; or in the close of the child's pipe,
\* with the mutex locked.
ClosingChild(H) == H.schedule_pc = "unreachable" /\ H.has_child

\* The old schedule thread is cancelled and joined, a new one created.
TimerReschedules(t) ==
    LET H == timer[t]
        dropped == [H EXCEPT !.routing_table = RemoveRoute(@, H.child_id, t),
                             !.locked = TRUE]
        updated == IF H.schedule_pc = "update"
                   THEN [H EXCEPT !.state = IF H.activate THEN STATE_ON ELSE STATE_OFF]
                   ELSE H
    IN  /\ timer[t].pc = "reschedule"
        /\ TimerStep(t, [(IF ClosingChild(H) THEN dropped ELSE updated)
               EXCEPT !.pc = "reply", !.schedule_pc = "start", !.left = 0,
                      !.activate = FALSE, !.due = NotDue])
        /\ UNCHANGED pipes

MainExits(t) == [timer[t] EXCEPT !.pc = "exit", !.failed = TRUE]

\* The answer, after the processing time.
TimerReplies(t) ==
    /\ timer[t].pc = "reply"
    /\ TellsParent(t, <<timer[t].response>>,
           IF timer[t].parent_changed THEN [timer[t] EXCEPT !.pc = "replay"]
                                      ELSE TimerResumed(timer[t]), MainExits(t))

\* Mutant: a child that has a branch is announced without it.
ReplaysChildOnly(t) ==
    /\ timer[t].pc = "replay"
    /\ Locking(t, [timer[t] EXCEPT !.pc = "replay_child"])
    /\ UNCHANGED pipes

\* To a new parent the branch is announced, entry by entry, if the child is a
\* control device; else the child alone.
TimerReplays(t) ==
    /\ timer[t].pc = "replay"
    /\ Locking(t, [timer[t] EXCEPT !.pc =
           IF timer[t].has_child /\ ~IsLeaf(timer[t].child_type)
           THEN "replay_branch" ELSE "replay_child"])
    /\ UNCHANGED pipes

TimerReplaysBranch(t) ==
    LET T == timer[t].routing_table
        devices == Walk(T, t)
    IN  /\ timer[t].pc = "replay_branch"
        /\ TellsParent(t, [n \in DOMAIN devices |->
               Response(devices[n], "change_parent", "OK",
                        <<T[devices[n]].parent, T[devices[n]].type>>)],
               TimerResumed(timer[t]), MainExits(t))

TimerReplaysChild(t) ==
    LET H == timer[t]
    IN  /\ H.pc = "replay_child"
        /\ Locking(t, IF H.has_child
               THEN [H EXCEPT !.pc = "announce", !.response =
                        Response(H.child_id, "change_parent", "OK", <<t, H.child_type>>)]
               ELSE TimerResumed(H))
        /\ UNCHANGED pipes

TimerAnnounces(t) ==
    /\ timer[t].pc = "announce"
    /\ TellsParent(t, <<timer[t].response>>, TimerResumed(timer[t]), MainExits(t))

TimerEndOfFile(t) ==
    /\ timer[t].pc = "read" /\ down[t] = <<>> /\ ~HasWriter(t)
    /\ TimerStep(t, [TimerReplying(timer[t], Response(t, "null", "UNEXPECTED_END_OF_FILE", <<>>))
                        EXCEPT !.force_exit = TRUE, !.failed = TRUE])
    /\ UNCHANGED pipes

-----------------------------------------------------------------------------
(* The child-responses thread.                                             *)

\* It reads response r, in one step with the critical section it enters next.
Bottom(t, r, H, next) ==
    /\ timer[t].bottom_pc = "read" /\ up[t] # <<>>
    /\ r = Head(up[t])
    /\ Locking(t, [H EXCEPT !.bottom_pc = next, !.answer = r])
    /\ up' = [up EXCEPT ![t] = Tail(@)]
    /\ UNCHANGED <<down, exit_code, fifos>>

TimerPassesGarbled(t, r) ==
    /\ ~Parses(r)
    /\ Bottom(t, r, timer[t], "write")
    /\ UNCHANGED files

\* acquire_child: the pipe is opened before the mutex is taken.
TimerChildAcquired(t, r) ==
    LET F == files[t]
        fd == LowestFree(F)
        child == [timer[t] EXCEPT
            !.child_id = r.src, !.child_type = r.args[2], !.child_fd = fd,
            !.has_child = TRUE,
            !.routing_table = IF IsLeaf(r.args[2]) THEN @
                              ELSE InsertDirect(@, r.src, r.args[2], t, fd)]
    IN  /\ r.cmd = "change_parent" /\ r.code = "OK" /\ r.args[1] = t
        /\ \/ /\ OpenBlocks(r.src)
              /\ Bottom(t, r, timer[t], "blocked")
              /\ UNCHANGED files
           \/ /\ OpenReturns(r.src) /\ DownOpens(F, r.src)
              /\ Bottom(t, r, Refreshed(child), "write")
              /\ files' = [files EXCEPT ![t] = OpenAt(F, fd, Down(r.src))]
           \/ /\ OpenReturns(r.src) /\ ~DownOpens(F, r.src)
              /\ Bottom(t, r, timer[t], "write")
              /\ UNCHANGED files

\* acquire_descendant.
TimerDescendantAcquired(t, r) ==
    LET T == timer[t].routing_table
        entered == InsertIndirect(T, r.src, r.args[2], r.args[1])
    IN  /\ r.cmd = "change_parent" /\ r.code = "OK" /\ r.args[1] # t
        /\ Bottom(t, r,
               IF r.args[1] \in DOMAIN T
               THEN RefreshedIfChild([timer[t] EXCEPT !.routing_table =
                        UpdateTypeToNotEmpty(entered, r.src)])
               ELSE timer[t], "write")
        /\ UNCHANGED files

\* release_removed_descendant: a hub below has lost a child.
TimerDescendantRemoved(t, r) ==
    LET T == timer[t].routing_table
    IN  /\ r.cmd = "remove_child" /\ r.code = "OK"
        /\ Bottom(t, r,
               IF r.args[1] \in DOMAIN T /\ T[r.args[1]].parent = r.src
               THEN RefreshedIfChild([timer[t] EXCEPT !.routing_table =
                        UpdateTypeToEmpty(RemoveRoute(@, r.args[1], r.src), r.src)])
               ELSE timer[t], "write")
        /\ UNCHANGED files

\* release_child: whatever the code of a delete response says.
TimerChildDeleted(t, r) ==
    LET H == timer[t]
        direct == H.has_child /\ r.src = H.child_id
        T == H.routing_table
        via == T[r.src].parent
    IN  /\ r.cmd = "delete"
        /\ Bottom(t, r,
               CASE direct -> DropChild(t, H)
                 [] ~direct /\ r.src \in DOMAIN T ->
                      RefreshedIfChild([H EXCEPT !.routing_table =
                          UpdateTypeToEmpty(RemoveRoute(@, r.src, via), via)])
                 [] OTHER -> H, "own")
        /\ files' = IF direct THEN WithoutChild(t) ELSE files

\* handle_own_reply: what the child answers to a command the timer awaits
\* becomes the timer's answer.  An info that failed has no arguments; the code sends
\* what is left in the buffer from an earlier answer, which nobody reads.
OwnReply(t, r) ==
    LET shown == IF r.args # <<>> /\ r.args[1] \notin {timer[t].state, UNDEFINED_STATE}
                 THEN STATE_MANUAL_OVERRIDE ELSE r.args[1]
    IN  [r EXCEPT !.src = t,
                  !.args = IF r.cmd = "info" /\ r.args # <<>> THEN <<shown>> ELSE <<>>]

TimerMirrors(t, r) ==
    LET taken == TakePending(timer[t].pending, r.cmd)
    IN  /\ Parses(r) /\ r.cmd # "delete" /\ ~(r.cmd \in Links /\ r.code = "OK")
        /\ timer[t].bottom_pc = "read" /\ up[t] # <<>> /\ r = Head(up[t])
        /\ Locking(t, [timer[t] EXCEPT !.pending = taken.left, !.bottom_pc = "write",
                           !.answer = IF taken.ours THEN OwnReply(t, r) ELSE r])
        /\ up' = [up EXCEPT ![t] = Tail(@)]
        /\ UNCHANGED <<down, files, exit_code, fifos>>

TimerMirrorsDelete(t) ==
    LET taken == TakePending(timer[t].pending, "delete")
    IN  /\ timer[t].bottom_pc = "own"
        /\ Locking(t, [timer[t] EXCEPT !.pending = taken.left, !.bottom_pc = "write",
                           !.answer = IF taken.ours THEN OwnReply(t, @) ELSE @,
                           !.last = taken.ours])
        /\ UNCHANGED pipes

\* The deletion of the child ends the timer that awaited it.
AfterWrite(H) ==
    CASE H.last -> "exit"
      [] ~H.last /\ H.force_exit -> "ended"
      [] OTHER -> "read"

TimerWritesUp(t) ==
    LET H == timer[t]
    IN  /\ H.bottom_pc = "write"
        /\ TellsParent(t, <<H.answer>>,
               [H EXCEPT !.bottom_pc = AfterWrite(H), !.answer = NoResponse,
                         !.force_exit = @ \/ H.last],
               [H EXCEPT !.bottom_pc = "exit", !.failed = TRUE])

-----------------------------------------------------------------------------
(* The schedule thread.                                                    *)

\* What it waits for, and how long.
NextTarget(H) ==
    CASE now < H.begin -> [activate |-> TRUE, left |-> H.begin - now]
      [] now >= H.begin /\ now < H.end -> [activate |-> FALSE, left |-> H.end - now]
      [] OTHER -> [activate |-> TRUE, left |-> H.begin + MINUTES_IN_A_DAY - now]

ScheduleSleeps(t) ==
    LET target == NextTarget(timer[t])
    IN  /\ timer[t].schedule_pc = "start"
        /\ Locking(t, [timer[t] EXCEPT
               !.schedule_pc = IF timer[t].force_exit THEN "ended" ELSE "asleep",
               !.left = target.left, !.activate = target.activate])
        /\ UNCHANGED pipes

\* send_child_switch looks the child up ...
ScheduleWakes(t) ==
    LET H == timer[t]
    IN  /\ H.schedule_pc = "asleep" /\ H.left = 0
        /\ Locking(t, IF H.has_child
               THEN [H EXCEPT !.schedule_pc = "switch", !.due =
                        [dst |-> H.child_id, type |-> H.child_type, fd |-> H.child_fd]]
               ELSE [H EXCEPT !.schedule_pc = "start"])
        /\ UNCHANGED pipes

DueSwitch(H) ==
    IF ChildType(H.due.type) = BULB
    THEN IF H.activate THEN "power_on" ELSE "power_off"
    ELSE IF H.activate THEN "open_on" ELSE "close_on"

\* ... and writes to it without the mutex.
ScheduleSwitches(t) ==
    LET H == timer[t]
        m == [dst |-> H.due.dst, cmd |-> DueSwitch(H), arg |-> CONTROLLER_ID]
    IN  /\ H.schedule_pc = "switch"
        /\ IF ChildReads(t, H.due.fd)
           THEN /\ down' = SendDown(down, files[t][H.due.fd], m)
                /\ TimerStep(t, [H EXCEPT !.schedule_pc = "update", !.due = NotDue])
           ELSE /\ TimerStep(t, [H EXCEPT !.schedule_pc = "unreachable", !.due = NotDue])
                /\ UNCHANGED down
        /\ UNCHANGED <<up, files, exit_code, fifos>>

ScheduleUpdates(t) ==
    /\ timer[t].schedule_pc = "update"
    /\ Locking(t, [timer[t] EXCEPT !.schedule_pc = "start",
           !.state = IF timer[t].activate THEN STATE_ON ELSE STATE_OFF])
    /\ UNCHANGED pipes

ScheduleReleasesChild(t) ==
    /\ timer[t].schedule_pc = "unreachable"
    /\ Locking(t, [(IF timer[t].has_child THEN DropChild(t, timer[t]) ELSE timer[t])
                      EXCEPT !.schedule_pc = "start"])
    /\ files' = IF timer[t].has_child THEN WithoutChild(t) ELSE files
    /\ UNCHANGED <<down, up, exit_code, fifos>>

\* A minute goes by, with no schedule thread in the middle of something.
MinutePasses ==
    /\ \A t \in Timers : Running(t) => timer[t].schedule_pc = "asleep" /\ timer[t].left > 0
    /\ now' = (now + 1) % MINUTES_IN_A_DAY
    /\ timer' = [t \in Timers |->
           IF Running(t) THEN [timer[t] EXCEPT !.left = @ - 1] ELSE timer[t]]
    /\ UNCHANGED pipes

-----------------------------------------------------------------------------
(* handle_shutdown.                                                        *)

\* The main thread cancels the child-responses thread and joins it: it dies in
\* its read or open, in its next write with the mutex locked, or never if it
\* waits for the mutex.
TimerCancelsResponses(t, failed) ==
    /\ timer[t].locked => up[t] = <<>> /\ timer[t].bottom_pc \notin {"own", "write"}
    /\ TimerStep(t, [timer[t] EXCEPT !.pc = "exiting", !.bottom_pc = "ended",
                        !.failed = @ \/ failed,
                        !.locked = @ \/ timer[t].bottom_pc \in {"own", "write"}])
    /\ UNCHANGED pipes

TimerLeaves(t) == timer[t].pc = "exit" /\ TimerCancelsResponses(t, FALSE)

\* SIGTERM, handled by the main thread; a shutdown under way goes on.
TimerTerminates(t) ==
    /\ timer[t].pc \notin {"exit", "exiting"} /\ timer[t].bottom_pc # "exit"
    /\ TimerCancelsResponses(t, TRUE)

\* The schedule thread, cancelled, dies too unless it waits for the mutex.
ScheduleDies(t) ==
    ~timer[t].locked \/ timer[t].schedule_pc \in {"asleep", "switch", "ended"}

TimerExits(t) ==
    /\ Running(t) /\ (timer[t].pc = "exiting" \/ timer[t].bottom_pc = "exit")
    /\ ScheduleDies(t)
    /\ Exits(t, IF timer[t].failed \/ timer[t].snd = NoFd THEN "error" ELSE "OK", up)
    /\ UNCHANGED <<timerVars, fifos>>

TimerMain(t) ==
    \/ \E m \in First(down[t]) :
          \/ TimerForwards(t, m) \/ TimerInfo(t, m) \/ TimerSwitch(t, m)
          \/ TimerDelete(t, m) \/ TimerChangeParent(t, m) \/ TimerRemoveChild(t, m)
          \/ TimerRegistry(t, m)
    \/ TimerWritesOn(t) \/ TimerReleasesChild(t) \/ TimerReschedules(t)
    \/ TimerReplies(t) \/ TimerReplays(t) \/ TimerReplaysBranch(t)
    \/ TimerReplaysChild(t) \/ TimerAnnounces(t) \/ TimerEndOfFile(t)
    \/ TimerLeaves(t) \/ TimerExits(t)

TimerBottomUp(t) ==
    \/ \E r \in First(up[t]) :
          \/ TimerPassesGarbled(t, r) \/ TimerChildAcquired(t, r)
          \/ TimerDescendantAcquired(t, r) \/ TimerDescendantRemoved(t, r)
          \/ TimerChildDeleted(t, r) \/ TimerMirrors(t, r)
    \/ TimerMirrorsDelete(t) \/ TimerWritesUp(t)

TimerSchedule(t) ==
    ScheduleSleeps(t) \/ ScheduleWakes(t) \/ ScheduleSwitches(t)
       \/ ScheduleUpdates(t) \/ ScheduleReleasesChild(t)

=============================================================================
