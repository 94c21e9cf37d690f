------------------------------- MODULE Pipes -------------------------------
(***************************************************************************)
(* The named pipes of a network of leaf devices, hubs, timers and the      *)
(* controller, and the descriptors by which the control processes hold     *)
(* them open (src/code/src/utils.c and the open, close, read and write     *)
(* calls of the processes).                                                *)
(*                                                                         *)
(* Every device reads requests from its "down" pipe, every control process *)
(* reads responses from its "up" pipe.  A down pipe whose last writer has  *)
(* closed it gives end of file; an up pipe never does, its reader opens it *)
(* read-write.  A write to a pipe that has lost its reader is lost.        *)
(*                                                                         *)
(* open returns the lowest free descriptor, so a descriptor that was       *)
(* closed and is still remembered may name another pipe later.             *)
(***************************************************************************)
EXTENDS RoutingTable

CONSTANTS
    Hubs, Timers, Leaves,   \* device ids
    Kind,               \* of every leaf: BULB or WINDOW
    MaxFd,              \* descriptors of a control process
    MINUTES_IN_A_DAY    \* 1440 in the code

Devices == Hubs \cup Timers \cup Leaves
Controls == Hubs \cup Timers \cup {CONTROLLER_ID}
Minutes == 0 .. MINUTES_IN_A_DAY - 1
Fds == 1 .. MaxFd

ASSUME DevicesAssumption ==
    /\ IsFiniteSet(Devices) /\ Devices \subseteq 1 .. 15
    /\ Hubs \cap Leaves = {} /\ Timers \cap (Hubs \cup Leaves) = {}
    /\ Kind \in [Leaves -> {BULB, WINDOW}]
ASSUME MaxFdAssumption == MaxFd \in Nat /\ MaxFd > Cardinality(Devices)
ASSUME MinutesAssumption == MINUTES_IN_A_DAY \in Nat \ {0}

VARIABLES
    down,       \* requests under way to a device
    up,         \* responses under way to a control process
    files,      \* what the descriptors of a control process name
    exit_code,  \* of every process: "absent" until it is added; "starting" until
                \* it has opened its pipes; "none" while it runs; how it exited,
                \* "OK" or "error"; "signal", it crashed; or "missed", it has
                \* exited with an error and every SIGCHLD thread is done
    fifos       \* devices whose names, "<id>_down.fifo" and that of the up
                \* pipe, the controller has made and not removed

pipes == <<down, up, files, exit_code, fifos>>

\* The types that device d may be given: a leaf is of its kind for good, a timer
\* a timer, and a hub may take itself for one (HubOr).
OwnTypes(d) ==
    CASE d \in Leaves -> {Kind[d]}
      [] d \in Timers -> TIMER_DEVICE .. TIMER_DEVICE + 3
      [] d \in Hubs -> HUB_DEVICE .. TIMER_DEVICE + 3

\* What a request asks for exists.
Requests ==
    {c \in [dst : Devices, cmd : Commands, arg : Devices \cup {CONTROLLER_ID} \cup Minutes] :
        /\ c.cmd = "change_parent" => c.arg \in Controls
        /\ c.cmd = "remove_child" => c.arg \in Devices
        /\ c.cmd \in Registries => c.arg \in Minutes}

\* What a response that succeeded says of a link is a parent or a child, and
\* the type of its source; an info begins with a state.
Responses ==
    {r \in [src : Devices, cmd : Commands \cup {"null"}, code : ErrorCodes, args : Seq(Nat)] :
        /\ r.cmd \in Links /\ r.code = "OK" =>
              /\ Len(r.args) = 2 /\ r.args[2] \in OwnTypes(r.src)
              /\ r.cmd = "change_parent" => r.args[1] \in Controls
              /\ r.cmd = "remove_child" => r.args[1] \in Devices /\ r.src \notin Leaves
        /\ r.cmd = "info" /\ r.args # <<>> => r.args[1] \in STATE_OFF .. UNDEFINED_STATE}

\* A routing table whose entries have such parents.
IsTable(T, parents) ==
    /\ DOMAIN T \subseteq Devices
    /\ T \in [DOMAIN T -> [type : DeviceTypes, parent : parents, fd : Fds]]
    /\ \A d \in DOMAIN T : T[d].type \in OwnTypes(d)

TypeOf(d) ==
    CASE d \in Hubs -> HUB_DEVICE
      [] d \in Timers -> TIMER_DEVICE
      [] d \in Leaves -> Kind[d]

NoRequest == [dst |-> 0, cmd |-> "null", arg |-> 0]
NoResponse == [src |-> 0, cmd |-> "null", code |-> "OK", args |-> <<>>]

Down(d) == [dir |-> "down", id |-> d]
Up(p) == [dir |-> "up", id |-> p]
Closed == [dir |-> "closed", id |-> 0]
Ends == {Closed} \cup {Down(d) : d \in Devices} \cup {Up(p) : p \in Controls}

Running(p) == exit_code[p] = "none"
Alive(p) == exit_code[p] \in {"none", "starting"}

PipesTypeOK ==
    /\ down \in [Devices -> Seq(Requests)]
    /\ up \in [Controls -> Seq(Responses)]
    /\ files \in [Controls -> [Fds -> Ends]]
    /\ exit_code \in [Devices \cup {CONTROLLER_ID} ->
                         {"absent", "starting", "none", "OK", "error", "signal", "missed"}]
    /\ fifos \subseteq Devices

-----------------------------------------------------------------------------
\* On a process's own table of descriptors F.
NoFd == -1
FreeFds(F) == {f \in Fds : F[f] = Closed}
LowestFree(F) == Min(FreeFds(F))
IsOpen(F, fd) == F[fd] # Closed
OpenAt(F, fd, end) == [F EXCEPT ![fd] = end]
Close(F, fd) == [F EXCEPT ![fd] = Closed]

\* Whoever is next to p in its table T has its pipe open under its descriptor.
ChildrenOpen(T, p, F) == \A d \in Direct(T, p) : F[T[d].fd] = Down(d)

\* Is an up pipe read?  Its reader makes it when it starts and holds it open
\* for as long as it lives.
UpExists(p) == Running(p)

\* open(O_WRONLY) of an up pipe fails once its name is gone, and blocks when
\* the reader has crashed, which leaves the name to the controller to remove; a
\* process that exits removes the name of its up pipe.
UpOpens(p) == UpExists(p) /\ (p \in Devices => p \in fifos)
UpOpenReturns(p) == p \in fifos \cup {CONTROLLER_ID} => exit_code[p] # "signal"

\* open(O_WRONLY) of a down pipe blocks for as long as nobody reads it, and
\* fails when the name is gone or no descriptor is left.  The controller's
\* descriptor of a dead device reads too if it is the one "add" has opened,
\* and not a later one; which it is, is left open.
OpenBlocks(d) == d \in fifos /\ ~Alive(d)
OpenReturns(d) == OpenBlocks(d) => \E f \in Fds : files[CONTROLLER_ID][f] = Down(d)
DownOpens(F, d) == d \in fifos /\ FreeFds(F) # {}

HasWriter(d) ==
    \E p \in Controls : Alive(p) /\ \E f \in Fds : files[p][f] = Down(d)

\* What a read of the pipe q returns, if it returns.
First(q) == IF q = <<>> THEN {} ELSE {Head(q)}

\* The down pipes q after request m is written to an end.
SendDown(q, end, m) ==
    IF end.dir = "down" /\ Alive(end.id) THEN [q EXCEPT ![end.id] = Append(@, m)] ELSE q

\* The up pipes q after responses ms are written, in this order, to an end.
SendUp(q, end, ms) ==
    IF end.dir = "up" /\ Alive(end.id) THEN [q EXCEPT ![end.id] = @ \o ms] ELSE q

\* Process p ends, the up pipes being q by then: its descriptors are closed,
\* what it has not read is lost, and a SIGCHLD thread looks for the dead.
Exits(p, code, q) ==
    /\ exit_code' = [r \in DOMAIN exit_code |->
          CASE r = p -> code
            [] r # p /\ exit_code[r] = "missed" -> "error"
            [] OTHER -> exit_code[r]]
    /\ down' = [d \in Devices |-> IF d = p THEN <<>> ELSE down[d]]
    /\ up' = [r \in Controls |-> IF r = p THEN <<>> ELSE q[r]]
    /\ files' = [r \in Controls |-> IF r = p THEN [f \in Fds |-> Closed] ELSE files[r]]

=============================================================================
