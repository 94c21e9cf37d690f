----------------------------- MODULE Controller -----------------------------
(***************************************************************************)
(* The Controller (src/code/src/controller.c): the main thread checks a    *)
(* user command against the routing table and, in a second critical        *)
(* section, sends the request it stands for; the responses thread brings   *)
(* the table up to date with what the devices answer, and asks the old     *)
(* parent of a moved device to forget it.  A SIGCHLD thread removes what   *)
(* has died; on exit every direct child is deleted, and the process ends   *)
(* once they all have.                                                     *)
(*                                                                         *)
(* Left out here: switch main, SIGTERM, and the files the table is         *)
(* exported to.                                                            *)
(***************************************************************************)
EXTENDS Pipes

CONSTANTS
    ToAdd,      \* devices that the user has still to add
    Faults      \* may fail: "fork" of a new device, its "start"

ASSUME AddAssumption ==
    /\ ToAdd \subseteq Devices /\ \A d \in ToAdd, e \in Devices \ ToAdd : e < d
    /\ Faults \subseteq {"fork", "start"}

VARIABLES
    routing_table,
    user_command,   \* checked and not yet executed, or NoRequest
    exiting,        \* deleted devices waitpid has still to see exit; meanwhile
                    \* the responses thread holds data_mutex
    blocked,        \* it waits in an open, with data_mutex, for ever
    signalled,      \* devices SIGTERM has been sent to
    pending_shutdown, force_exit,
    reaped,         \* a SIGCHLD thread has released data_mutex and has still to
                    \* see whether the exit is complete
    awaited         \* history: the requests sent whose answer has not come

shutdownVars == <<signalled, pending_shutdown, force_exit, reaped>>
controllerVars == <<routing_table, user_command, exiting, blocked, shutdownVars, awaited>>

\* "add" of the type that device d has, "exit", and the end of the user's
\* input, as commands.
AddCommand(d) == [dst |-> d, cmd |-> "add", arg |-> CONTROLLER_ID]
ExitCommand == [dst |-> CONTROLLER_ID, cmd |-> "exit", arg |-> 0]
EndOfInput == [dst |-> CONTROLLER_ID, cmd |-> "end_of_file", arg |-> 0]
UserCommands ==
    {c \in Requests : c.cmd # "remove_child"} \cup {AddCommand(d) : d \in Devices}
        \cup {ExitCommand, EndOfInput}

ControllerTypeOK ==
    /\ IsTable(routing_table, Controls)
    /\ user_command \in UserCommands \cup {NoRequest}
    /\ exiting \subseteq Devices /\ signalled \subseteq Devices
    /\ {blocked, pending_shutdown, force_exit, reaped} \subseteq BOOLEAN
    /\ awaited \in Seq(Requests)

MutexFree == exiting = {} /\ ~blocked

\* A thread of the controller that is not on its way out takes the mutex.
Locks == Alive(CONTROLLER_ID) /\ ~force_exit /\ MutexFree

-----------------------------------------------------------------------------
\* Mutant: a device may go below itself.
LinkOfAncestorAllowed(T, c) ==
    LET above == Range(Upwards(T, c.arg))
    IN  /\ c.dst # c.arg
        /\ T[c.dst].parent # c.arg
        /\ c.arg # CONTROLLER_ID =>
              /\ c.arg \in DOMAIN T
              /\ ~IsLeaf(T[c.arg].type)
              /\ \A p \in above :
                    \/ IsEmpty(T[c.dst].type) \/ IsEmpty(T[p].type)
                    \/ ChildType(T[c.dst].type) = ChildType(T[p].type)

\* Mutant: the types are not compared.
LinkOfAnyTypeAllowed(T, c) ==
    /\ c.dst # c.arg
    /\ T[c.dst].parent # c.arg
    /\ c.arg # CONTROLLER_ID =>
          /\ c.arg \in DOMAIN T
          /\ ~IsLeaf(T[c.arg].type)
          /\ \A p \in Range(Upwards(T, c.arg)) : T[p].parent # c.dst

\* check_user_command, for "link c.dst to c.arg" against the table T.
LinkAllowed(T, c) ==
    LET above == Range(Upwards(T, c.arg))
    IN  /\ c.dst # c.arg
        /\ T[c.dst].parent # c.arg
        /\ c.arg # CONTROLLER_ID =>
              /\ c.arg \in DOMAIN T
              /\ ~IsLeaf(T[c.arg].type)
              /\ IsTimer(T[c.arg].type) => Direct(T, c.arg) = {}
              /\ \A p \in above :
                    /\ T[p].parent # c.dst
                    /\ \/ IsEmpty(T[c.dst].type) \/ IsEmpty(T[p].type)
                       \/ ChildType(T[c.dst].type) = ChildType(T[p].type)

\* The devices not added yet; the least is the next the user can add.
Absent == {d \in Devices : exit_code[d] = "absent"}

CommandAllowed(T, c) ==
    \/ c \in {ExitCommand, EndOfInput}
    \/ Absent # {} /\ c = AddCommand(Min(Absent))
    \/ /\ c.cmd \in Commands /\ c.dst \in DOMAIN T
       /\ c.cmd \in Switches => Fits(c.cmd, T[c.dst].type)
       /\ c.cmd \in Registries => IsTimer(T[c.dst].type)
       /\ c.cmd = "change_parent" => LinkAllowed(T, c)

\* A command that passes the check; one that does not changes nothing.
CheckUserCommand(c) ==
    /\ Locks /\ user_command = NoRequest
    /\ CommandAllowed(routing_table, c)
    /\ user_command' = c
    /\ UNCHANGED <<routing_table, exiting, blocked, shutdownVars, awaited, pipes>>

\* The request is written to the route found now, if there is still one.
ExecuteUserCommand ==
    LET T == routing_table
        c == user_command
        end == files[CONTROLLER_ID][T[c.dst].fd]
        sent == /\ c.dst \in DOMAIN T
                /\ end.dir = "down"
                /\ Alive(end.id)
    IN  /\ Locks /\ c \in Requests
        /\ IF sent
           THEN /\ down' = SendDown(down, end, c)
                /\ awaited' = Append(awaited, c)
           ELSE UNCHANGED <<down, awaited>>
        /\ user_command' = NoRequest
        /\ UNCHANGED <<routing_table, exiting, blocked, shutdownVars, up, files, exit_code, fifos>>

-----------------------------------------------------------------------------
(* execute_add_command.                                                    *)

\* mkfifo fails if a failed add has left the name; a fork that fails leaves it.
AddForks ==
    LET d == user_command.dst
        named == d \in fifos
    IN  /\ Alive(CONTROLLER_ID) /\ user_command.cmd = "add" /\ d \in Absent
        /\ \E forked \in BOOLEAN :
              /\ IF forked THEN ~named ELSE named \/ "fork" \in Faults
              /\ exit_code' = IF forked THEN [exit_code EXCEPT ![d] = "starting"] ELSE exit_code
              /\ user_command' = IF forked THEN user_command ELSE NoRequest
        /\ fifos' = fifos \cup {d}
        /\ UNCHANGED <<routing_table, exiting, blocked, shutdownVars, awaited, down, up, files>>

\* The parent's side of the fork opens the pipe and enters the device, which
\* may have died by then.  Bound: a descriptor is left for the pipe.
AddInserts ==
    LET d == user_command.dst
        F == files[CONTROLLER_ID]
        fd == LowestFree(F)
    IN  /\ Locks /\ user_command.cmd = "add" /\ d \notin Absent /\ FreeFds(F) # {}
        /\ routing_table' = InsertDirect(routing_table, d, TypeOf(d), CONTROLLER_ID, fd)
        /\ files' = [files EXCEPT ![CONTROLLER_ID] = OpenAt(F, fd, Down(d))]
        /\ user_command' = NoRequest
        /\ UNCHANGED <<exiting, blocked, shutdownVars, awaited, down, up, exit_code, fifos>>

\* start_device_fifos, in the new process: its down pipe, for which it waits,
\* the controller's up pipe, and the one it makes itself.
DeviceStarts(d) ==
    /\ exit_code[d] = "starting" /\ HasWriter(d) /\ d \in fifos /\ UpExists(CONTROLLER_ID)
    /\ exit_code' = [exit_code EXCEPT ![d] = "none"]
    /\ UNCHANGED <<controllerVars, down, up, files, fifos>>

\* execv or one of these opens fails, or SIGTERM comes first.
StartFails(d) ==
    /\ exit_code[d] = "starting"
    /\ "start" \in Faults \/ d \notin fifos \/ exit_code[CONTROLLER_ID] = "OK"
          \/ d \in signalled
    /\ Exits(d, "error", up)
    /\ UNCHANGED <<controllerVars, fifos>>

-----------------------------------------------------------------------------
\* Does response r answer request c?
Answers(r, c) ==
    /\ r.cmd = c.cmd
    /\ \/ r.src = c.dst
       \/ r.code = "ROUTE_NOT_FOUND" /\ (r.cmd = "info" \/ r.args = <<c.dst>>)

StillAwaited(r) ==
    LET matching == {i \in DOMAIN awaited : Answers(r, awaited[i])}
    IN  IF matching = {} THEN awaited ELSE RemoveAt(awaited, Min(matching))

\* The responses thread reads response r and, under the mutex, updates the
\* table to T, its descriptors to F and the down pipes to q.
Receives(r, T, F, q) ==
    /\ Locks /\ up[CONTROLLER_ID] # <<>>
    /\ r = Head(up[CONTROLLER_ID])
    /\ up' = [up EXCEPT ![CONTROLLER_ID] = Tail(@)]
    /\ routing_table' = T
    /\ files' = [files EXCEPT ![CONTROLLER_ID] = F]
    /\ down' = q
    /\ awaited' = IF Parses(r) THEN StillAwaited(r) ELSE awaited
    /\ UNCHANGED <<user_command, signalled, pending_shutdown, reaped, exit_code>>

ChangesNothing(r) == Receives(r, routing_table, files[CONTROLLER_ID], down)

\* Errors, and answers that say nothing of the topology, are only shown.
ShowResponse(r) ==
    /\ ~Parses(r) \/ r.code # "OK" \/ r.cmd \notin Links \cup {"delete"}
    /\ ChangesNothing(r)
    /\ UNCHANGED <<exiting, blocked, force_exit, fifos>>

IsLinkUpdate(r, cmd) == r.cmd = cmd /\ r.code = "OK"

\* A hub has forgotten a child and says what type that leaves it.
ChildRemoved(r) ==
    LET T == routing_table
        typed == [T EXCEPT ![r.src].type = r.args[2]]
    IN  /\ IsLinkUpdate(r, "remove_child")
        /\ IF r.src \in DOMAIN T
           THEN Receives(r, UpdateTypeToEmpty(typed, T[r.src].parent),
                         files[CONTROLLER_ID], down)
           ELSE ChangesNothing(r)
        /\ UNCHANGED <<exiting, blocked, force_exit, fifos>>

\* Mutant: the route is left as it was.
RouteKept(r) ==
    /\ IsLinkUpdate(r, "change_parent")
    /\ r.src \in DOMAIN routing_table => routing_table[r.src].parent = r.args[1]
    /\ ChangesNothing(r)
    /\ UNCHANGED <<exiting, blocked, force_exit, fifos>>

\* The parent of the source is the one the table has: a device of a branch
\* that has moved, whose route may be another now.
RouteRefreshed(r) ==
    LET T == routing_table
        parent == T[r.src].parent
    IN  /\ IsLinkUpdate(r, "change_parent")
        /\ r.src \in DOMAIN T => parent = r.args[1]
        /\ IF r.src \in DOMAIN T /\ parent \in DOMAIN T
           THEN Receives(r, [T EXCEPT ![r.src].fd = T[parent].fd],
                         files[CONTROLLER_ID], down)
           ELSE ChangesNothing(r)
        /\ UNCHANGED <<exiting, blocked, force_exit, fifos>>

Moved(r) ==
    /\ IsLinkUpdate(r, "change_parent")
    /\ r.src \in DOMAIN routing_table /\ routing_table[r.src].parent # r.args[1]

\* Mutant: the pipe of the child that has moved stays open.
MovedAwayUnclosed(r) ==
    LET T == routing_table
        entry == T[r.src]
        moved == InsertIndirect(T, r.src, entry.type, r.args[1])
    IN  /\ Moved(r) /\ entry.parent = CONTROLLER_ID
        /\ Receives(r, UpdateTypeToNotEmpty(moved, r.src), files[CONTROLLER_ID], down)
        /\ UNCHANGED <<exiting, blocked, force_exit, fifos>>

\* The device was a child of the controller: its pipe is closed.
MovedAway(r) ==
    LET T == routing_table
        F == files[CONTROLLER_ID]
        entry == T[r.src]
        moved == InsertIndirect(T, r.src, entry.type, r.args[1])
    IN  /\ Moved(r) /\ entry.parent = CONTROLLER_ID
        /\ IF IsOpen(F, entry.fd)
           THEN Receives(r, UpdateTypeToNotEmpty(moved, r.src), Close(F, entry.fd), down)
           ELSE ChangesNothing(r)
        /\ UNCHANGED <<exiting, blocked, force_exit, fifos>>

\* The old parent is told to remove the device from its children.
ToldToRemove(F, old, d) ==
    SendDown(down, F[routing_table[old].fd],
             [dst |-> old, cmd |-> "remove_child", arg |-> d])

\* Mutant: the pipe of the new child is not opened.
MovedToControllerUnopened(r) ==
    LET T == routing_table
        entry == T[r.src]
        moved == InsertDirect(T, r.src, entry.type, CONTROLLER_ID,
                              LowestFree(files[CONTROLLER_ID]))
    IN  /\ IsLinkUpdate(r, "change_parent") /\ r.src \in DOMAIN T
        /\ entry.parent # CONTROLLER_ID /\ r.args[1] = CONTROLLER_ID
        /\ IF entry.parent \in DOMAIN T
           THEN Receives(r, UpdateTypeToNotEmpty(moved, r.src), files[CONTROLLER_ID],
                         ToldToRemove(files[CONTROLLER_ID], entry.parent, r.src))
           ELSE ChangesNothing(r)
        /\ UNCHANGED <<exiting, blocked, force_exit, fifos>>

MovedToController(r) ==
    LET T == routing_table
        F == files[CONTROLLER_ID]
        entry == T[r.src]
        fd == LowestFree(F)
        opened == OpenAt(F, fd, Down(r.src))
        moved == InsertDirect(T, r.src, entry.type, CONTROLLER_ID, fd)
    IN  /\ Moved(r) /\ entry.parent # CONTROLLER_ID /\ r.args[1] = CONTROLLER_ID
        /\ \/ /\ entry.parent \in DOMAIN T /\ OpenBlocks(r.src)
              /\ ChangesNothing(r) /\ blocked' = TRUE
           \/ /\ entry.parent \in DOMAIN T /\ OpenReturns(r.src) /\ DownOpens(F, r.src)
              /\ Receives(r, UpdateTypeToNotEmpty(moved, r.src),
                          opened, ToldToRemove(opened, entry.parent, r.src))
              /\ UNCHANGED blocked
           \/ /\ entry.parent \in DOMAIN T => OpenReturns(r.src) /\ ~DownOpens(F, r.src)
              /\ ChangesNothing(r) /\ UNCHANGED blocked
        /\ UNCHANGED <<exiting, force_exit, fifos>>

MovedBetweenDevices(r) ==
    LET T == routing_table
        entry == T[r.src]
        moved == InsertIndirect(T, r.src, entry.type, r.args[1])
    IN  /\ Moved(r) /\ entry.parent # CONTROLLER_ID /\ r.args[1] # CONTROLLER_ID
        /\ IF entry.parent \in DOMAIN T
           THEN Receives(r, UpdateTypeToNotEmpty(moved, r.src), files[CONTROLLER_ID],
                         ToldToRemove(files[CONTROLLER_ID], entry.parent, r.src))
           ELSE ChangesNothing(r)
        /\ UNCHANGED <<exiting, blocked, force_exit, fifos>>

\* update_with_delete_response: the device, and everything the table has below
\* it, loses its pipes and its entry and is waited for.
DeviceDeleted(r) ==
    LET T == routing_table
        F == files[CONTROLLER_ID]
        entry == T[r.src]
        gone == {r.src} \cup Below(T, r.src)
        left == UpdateTypeToEmpty(RemoveRoute(T, r.src, entry.parent), entry.parent)
    IN  /\ r.cmd = "delete" /\ r.code = "OK"
        /\ IF r.src \in DOMAIN T
           THEN /\ Receives(r, left, IF entry.parent = CONTROLLER_ID
                                     THEN Close(F, entry.fd) ELSE F, down)
                /\ fifos' = fifos \ gone
                /\ exiting' = {d \in gone : Alive(d)}
                /\ force_exit' = (pending_shutdown /\ Direct(left, CONTROLLER_ID) = {})
           ELSE ChangesNothing(r) /\ UNCHANGED <<exiting, force_exit, fifos>>
        /\ UNCHANGED blocked

\* waitpid has returned for all of them.
DevicesReaped ==
    /\ Alive(CONTROLLER_ID) /\ exiting # {} /\ \A d \in exiting : ~Alive(d)
    /\ exiting' = {}
    /\ UNCHANGED <<routing_table, user_command, blocked, shutdownVars, awaited, pipes>>

ReceiveResponse ==
    \E r \in First(up[CONTROLLER_ID]) :
        \/ ShowResponse(r) \/ ChildRemoved(r) \/ RouteRefreshed(r) \/ MovedAway(r)
        \/ MovedToController(r) \/ MovedBetweenDevices(r) \/ DeviceDeleted(r)

-----------------------------------------------------------------------------
(* Dead devices.                                                           *)

\* Mutant: a device that exits with an error is taken for deleted.
CrashedOnly(d) == exit_code[d] = "signal"

DiedWithError(d) == exit_code[d] \in {"error", "signal"}

\* Mutant: the parent of a dead device is not told.
Unannounced(S, d) ==
    LET entry == S.table[d]
        below == Below(S.table, d)
        left == [x \in DOMAIN S.table \ {d} |-> S.table[x]]
    IN  [table |-> UpdateTypeToEmpty(left, entry.parent),
         files |-> IF entry.parent = CONTROLLER_ID THEN Close(S.files, entry.fd) ELSE S.files,
         down |-> S.down,
         fifos |-> S.fifos \ ({d} \cup below),
         signalled |-> S.signalled \cup {x \in below : Alive(x)}]

\* Mutant: what was below a dead device goes from the table with it.
BranchForgotten(S, d) ==
    LET entry == S.table[d]
        gone == {d} \cup Below(S.table, d)
        left == [x \in DOMAIN S.table \ gone |-> S.table[x]]
    IN  [table |-> UpdateTypeToEmpty(left, entry.parent),
         files |-> IF entry.parent = CONTROLLER_ID THEN Close(S.files, entry.fd) ELSE S.files,
         down |-> S.down,
         fifos |-> S.fifos \ gone,
         signalled |-> S.signalled]

\* What the death of d makes of the controller S: its parent, if there still is
\* one, is told to remove it, what was below it is terminated and loses its
\* names, and only its own entry goes.
Buried(S, d) ==
    LET T == S.table
        entry == T[d]
        below == Below(T, d)
        left == [x \in DOMAIN T \ {d} |-> T[x]]
    IN  [table |-> UpdateTypeToEmpty(left, entry.parent),
         files |-> IF entry.parent = CONTROLLER_ID THEN Close(S.files, entry.fd) ELSE S.files,
         down |-> IF entry.parent \in DOMAIN T
                  THEN SendDown(S.down, S.files[entry.fd],
                           [dst |-> entry.parent, cmd |-> "remove_child", arg |-> d])
                  ELSE S.down,
         fifos |-> S.fifos \ ({d} \cup below),
         signalled |-> S.signalled \cup {x \in below : Alive(x)}]

\* sigchld_routine: every device of the table that has died, unless it exited
\* with OK; the table is visited in the order of the ids.  One that dies before
\* its add has entered it may be missed.
\* V binds the state before, which is then evaluated once.
SigchldRoutine ==
    LET dead == InIdOrder({d \in DOMAIN routing_table : DiedWithError(d)})
        found == [table |-> routing_table, files |-> files[CONTROLLER_ID],
                  down |-> down, fifos |-> fifos, signalled |-> signalled]
        buried[n \in 0 .. Len(dead)] ==
            IF n = 0 THEN found
            ELSE CHOOSE R \in {Buried(V, dead[n]) : V \in {buried[n - 1]}} : TRUE
        S == buried[Len(dead)]
        unknown == {d \in Devices : user_command = AddCommand(d) /\ DiedWithError(d)}
    IN  /\ Locks
        /\ \E missed \in SUBSET unknown :
              /\ dead # <<>> \/ missed # {}
              /\ exit_code' = [p \in DOMAIN exit_code |->
                                  IF p \in missed THEN "missed" ELSE exit_code[p]]
        /\ routing_table' = S.table
        /\ files' = [files EXCEPT ![CONTROLLER_ID] = S.files]
        /\ down' = S.down
        /\ fifos' = S.fifos
        /\ signalled' = S.signalled
        /\ reaped' = TRUE
        /\ UNCHANGED <<user_command, exiting, blocked, pending_shutdown, force_exit,
                       awaited, up>>

-----------------------------------------------------------------------------
(* Exit.                                                                   *)

\* execute_exit_command: the direct children are deleted, and the controller
\* exits when they have gone.
ExecuteExit ==
    LET children == InIdOrder(Direct(routing_table, CONTROLLER_ID))
        sent[n \in 0 .. Len(children)] ==
            IF n = 0 THEN down
            ELSE SendDown(sent[n - 1],
                     files[CONTROLLER_ID][routing_table[children[n]].fd],
                     [dst |-> children[n], cmd |-> "delete", arg |-> CONTROLLER_ID])
    IN  /\ Locks /\ user_command = ExitCommand
        /\ down' = sent[Len(children)]
        /\ force_exit' = (children = <<>>)
        /\ pending_shutdown' = (pending_shutdown \/ children # <<>>)
        /\ user_command' = NoRequest
        /\ UNCHANGED <<routing_table, exiting, blocked, signalled, reaped, awaited,
                       up, files, exit_code, fifos>>

\* Mutant: only the direct children are terminated.
ShutdownOfChildren ==
    LET devices == Direct(routing_table, CONTROLLER_ID)
    IN  /\ Alive(CONTROLLER_ID)
        /\ Exits(CONTROLLER_ID, "OK", up)
        /\ fifos' = fifos \ devices
        /\ signalled' = signalled \cup {d \in devices : Alive(d)}
        /\ UNCHANGED <<routing_table, exiting, blocked, pending_shutdown, force_exit, awaited>>

\* handle_shutdown: what the table still has is terminated and the process
\* ends; neither waits for the mutex.
Shutdown ==
    LET devices == Range(Walk(routing_table, CONTROLLER_ID))
    IN  /\ Alive(CONTROLLER_ID)
        /\ Exits(CONTROLLER_ID, "OK", up)
        /\ fifos' = fifos \ devices
        /\ signalled' = signalled \cup {d \in devices : Alive(d)}
        /\ UNCHANGED <<routing_table, exiting, blocked, pending_shutdown, force_exit, awaited>>

\* The last device has gone, or there was none.
ControllerExits ==
    /\ force_exit /\ exiting = {}
    /\ Shutdown
    /\ UNCHANGED <<user_command, reaped>>

\* The input ends: the controller waits for nothing, unless it has been told to
\* exit.
InputEnds ==
    /\ user_command = EndOfInput /\ ~pending_shutdown /\ ~force_exit
    /\ Shutdown
    /\ user_command' = NoRequest
    /\ UNCHANGED reaped

\* Mutant: the SIGCHLD thread leaves the exit to the responses thread.
SigchldOnlyReaps ==
    /\ Alive(CONTROLLER_ID) /\ ~force_exit /\ reaped
    /\ reaped' = FALSE
    /\ UNCHANGED <<routing_table, user_command, exiting, blocked, signalled,
                   pending_shutdown, force_exit, awaited, pipes>>

\* The SIGCHLD thread, after its unlock, looks whether the exit is complete.
SigchldChecks ==
    /\ Alive(CONTROLLER_ID) /\ ~force_exit /\ reaped
    /\ reaped' = FALSE
    /\ IF pending_shutdown /\ Direct(routing_table, CONTROLLER_ID) = {}
       THEN Shutdown /\ UNCHANGED user_command
       ELSE UNCHANGED <<routing_table, user_command, exiting, blocked, signalled,
                        pending_shutdown, force_exit, awaited, pipes>>

=============================================================================
