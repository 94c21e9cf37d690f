------------------------------ MODULE Network ------------------------------
(***************************************************************************)
(* Controller, hubs, timers and leaf devices exchanging messages over      *)
(* their pipes.  The network starts as "add" commands leave it, every      *)
(* device a child of the controller; links then shape it, and more devices *)
(* may be added.                                                           *)
(*                                                                         *)
(* How the user behaves is a parameter.  The controller takes a command at *)
(* any time; a command in Settled is one the user only gives once whatever *)
(* was under way has ended, and at most MaxAwaited are under way.          *)
(***************************************************************************)
EXTENDS Controller, Hub, Timer, Leaf

CONSTANTS
    Offered,        \* the user's commands, as the requests they stand for
    Settled,        \* those given only to a network at rest
    ManualCommands, \* given by the manual interaction program
    MaxAwaited,     \* bound on the requests under way
    MaxHurried,     \* bound on the links from the first that did not wait for
                    \* the network to be at rest
    MaxCrashes,     \* bound on the processes that crash
    CrashMeets      \* the requests a crash may come in the middle of

ASSUME UserAssumption ==
    /\ Offered \subseteq UserCommands
    /\ Settled \subseteq Offered
    /\ ManualCommands \subseteq {"info"} \cup Switches
    /\ MaxAwaited \in Nat \ {0}
    /\ MaxHurried \in Nat /\ MaxCrashes \in Nat
    /\ CrashMeets \subseteq Commands \cup {"add"}

VARIABLES
    hurried,        \* history: the number of those links
    scheduled,      \* history: of every timer, the state its begin or end,
                    \* whichever came last, has given its child;
                    \* UNDEFINED_STATE once anything else may have
    interrupted     \* history: a process has crashed in the middle of a link

histories == <<hurried, scheduled, interrupted>>

vars == <<pipes, controllerVars, hub, timerVars, leaf, histories>>

-----------------------------------------------------------------------------
Started == InIdOrder(Devices \ ToAdd)
FdOf(d) == CHOOSE n \in DOMAIN Started : Started[n] = d

Init ==
    /\ down = [d \in Devices |-> <<>>]
    /\ up = [p \in Controls |-> <<>>]
    /\ files = [p \in Controls |-> [f \in Fds |->
          IF p = CONTROLLER_ID /\ f \in DOMAIN Started THEN Down(Started[f])
          ELSE IF p # CONTROLLER_ID /\ f = 1 THEN Up(CONTROLLER_ID) ELSE Closed]]
    /\ exit_code = [p \in Devices \cup {CONTROLLER_ID} |->
                      IF p \in ToAdd THEN "absent" ELSE "none"]
    /\ fifos = Devices \ ToAdd
    /\ routing_table = [d \in Devices \ ToAdd |->
          [type |-> TypeOf(d), parent |-> CONTROLLER_ID, fd |-> FdOf(d)]]
    /\ user_command = NoRequest
    /\ exiting = {} /\ signalled = {}
    /\ blocked = FALSE /\ pending_shutdown = FALSE /\ force_exit = FALSE /\ reaped = FALSE
    /\ awaited = <<>>
    /\ hub = [h \in Hubs |->
          [device_type |-> HUB_DEVICE, routing_table |-> EmptyTable, children |-> 0,
           has_children |-> FALSE, parent_id |-> CONTROLLER_ID,
           parent_changed |-> FALSE, remove_child_succeed |-> FALSE,
           force_exit |-> FALSE, pending |-> <<>>, snd |-> 1,
           pc |-> "read", bottom_pc |-> "read",
           request |-> NoRequest, response |-> NoResponse, route |-> NoFd]]
    /\ TimerInit
    /\ leaf = [d \in Leaves |->
          [state |-> STATE_OFF, parent_id |-> CONTROLLER_ID, force_exit |-> FALSE,
           snd |-> CONTROLLER_ID, pc |-> "read", response |-> NoResponse]]
    /\ hurried = 0
    /\ scheduled = [t \in Timers |-> UNDEFINED_STATE]
    /\ interrupted = FALSE

-----------------------------------------------------------------------------
\* Nothing is under way: a device that is alive waits for a request, and what
\* has died is no longer in the controller's table.
AtRest ==
    /\ Locks /\ user_command = NoRequest /\ ~reaped
    /\ up[CONTROLLER_ID] = <<>>
    /\ \A d \in DOMAIN routing_table : ~DiedWithError(d)
    /\ \A d \in signalled : ~Alive(d)
    /\ \A d \in Devices : Alive(d) =>
          /\ Running(d) /\ down[d] = <<>> /\ HasWriter(d)
          /\ d \in Hubs => up[d] = <<>> /\ hub[d].pc = "read" /\ hub[d].bottom_pc = "read"
          /\ d \in Timers =>
                /\ up[d] = <<>> /\ timer[d].pc = "read" /\ timer[d].bottom_pc = "read"
                /\ timer[d].schedule_pc = "asleep" /\ timer[d].left > 0
          /\ d \in Leaves => leaf[d].pc = "read"

\* What holds of a network at rest is not claimed for one in which a process
\* has crashed in the middle of a link, or a death has been missed: nothing in
\* the code puts the one right, and only another death the other.
InOrder == AtRest /\ ~interrupted /\ \A d \in Devices : exit_code[d] # "missed"

\* Bounds: a link or an add is given only while every control process that is alive has
\* descriptors left for it and for the links under way; what a dead device has
\* been asked it is not asked again.
StillAnswering == SelectSeq(awaited, LAMBDA c : Alive(c.dst))
LinksUnderWay == Cardinality({i \in DOMAIN awaited : awaited[i].cmd = "change_parent"})
DescriptorsLeft ==
    \A p \in Controls : Alive(p) => Cardinality(FreeFds(files[p])) > LinksUnderWay

\* Bound: links are hurried or processes crash, not both.
Crashed == {p \in DOMAIN exit_code : exit_code[p] = "signal"}

UserTypes ==
    /\ Len(StillAnswering) < MaxAwaited
    /\ \E c \in Offered :
          /\ c \in Settled => AtRest
          /\ c.cmd \in {"change_parent", "add"} => DescriptorsLeft
          /\ c \in Range(awaited) => Alive(c.dst)
          /\ hurried' = IF c.cmd = "change_parent" /\ (hurried > 0 \/ ~AtRest)
                        THEN hurried + 1 ELSE hurried
          /\ hurried' <= MaxHurried
          /\ hurried' > 0 => Crashed = {}
          /\ scheduled' = IF \/ c.cmd \in Switches \cup {"delete", "exit"}
                             \/ c.cmd = "change_parent" /\ c.dst \notin Timers
                          THEN [t \in Timers |-> UNDEFINED_STATE] ELSE scheduled
          /\ CheckUserCommand(c)
    /\ UNCHANGED <<hub, timerVars, leaf, interrupted>>

\* manual_interaction checks the type in the exported registry and writes to
\* the device's own pipe.  Bound: only when nothing else is under way; the
\* commands that meet it come after.
ManualInteraction ==
    /\ AtRest
    /\ \E d \in fifos, cmd \in ManualCommands :
          /\ Alive(d) /\ d \in DOMAIN routing_table
          /\ cmd \in Switches => Fits(cmd, routing_table[d].type)
          /\ down' = SendDown(down, Down(d), [dst |-> d, cmd |-> cmd, arg |-> CONTROLLER_ID])
          /\ scheduled' = IF cmd \in Switches THEN [t \in Timers |-> UNDEFINED_STATE]
                          ELSE scheduled
    /\ UNCHANGED <<up, files, exit_code, fifos, controllerVars, hub, timerVars, leaf,
                   hurried, interrupted>>

ControllerStep ==
    /\ \/ ExecuteUserCommand \/ ReceiveResponse \/ DevicesReaped
       \/ AddForks \/ AddInserts \/ SigchldRoutine \/ SigchldChecks
       \/ ExecuteExit \/ ControllerExits \/ InputEnds
    /\ UNCHANGED <<hub, timerVars, leaf, histories>>

LeafProcess(d) == LeafStep(d) /\ UNCHANGED <<controllerVars, hub, timerVars, histories>>

HubMainThread(h) ==
    (HubTopDown(h) \/ HubExits(h)) /\ UNCHANGED <<controllerVars, timerVars, leaf, histories>>

HubBottomUpThread(h) ==
    HubBottomUp(h) /\ UNCHANGED <<controllerVars, timerVars, leaf, histories>>

TimerThreads(t) ==
    /\ TimerMain(t) \/ TimerBottomUp(t) \/ TimerSchedule(t)
    /\ UNCHANGED <<controllerVars, hub, leaf, histories>>

\* A minute is long: it only goes by once everything under way has ended.
\* Bound: the clock stops while a hub waits for a child that is no more, as it
\* may for ever.
ClockTicks ==
    /\ AtRest /\ MinutePasses
    /\ \A h \in Hubs : Alive(h) => hub[h].pending = <<>>
    /\ scheduled' = [t \in Timers |->
          CASE ~Alive(t) \/ ~timer[t].has_child -> UNDEFINED_STATE
            [] now' = timer[t].begin -> STATE_ON
            [] now' = timer[t].end -> STATE_OFF
            [] OTHER -> scheduled[t]]
    /\ UNCHANGED <<controllerVars, hub, leaf, hurried, interrupted>>

Starting(d) ==
    (DeviceStarts(d) \/ StartFails(d)) /\ UNCHANGED <<hub, timerVars, leaf, histories>>

\* SIGTERM reaches a device the controller has sent it to.
Terminates(d) ==
    /\ d \in signalled /\ Running(d)
    /\ \/ d \in Leaves /\ LeafTerminates(d) /\ UNCHANGED <<hub, timerVars>>
       \/ d \in Hubs /\ HubTerminates(d) /\ UNCHANGED <<leaf, timerVars>>
       \/ d \in Timers /\ TimerTerminates(d) /\ UNCHANGED <<leaf, hub>>
    /\ UNCHANGED <<controllerVars, histories>>

\* What the user has asked for and is not answered yet, and the links of which
\* some message is still to be taken in, and the device being added.
UnderWay ==
    LET messages == UNION ({Range(down[d]) : d \in Devices} \cup {Range(up[p]) : p \in Controls}
                           \cup {{hub[h].request, hub[h].response} : h \in Hubs}
                           \cup {{timer[t].request, timer[t].response, timer[t].answer} :
                                    t \in Timers})
    IN  {c.cmd : c \in {c \in Range(awaited) \cup {user_command} : ~DiedWithError(c.dst)}}
            \cup ({m.cmd : m \in messages} \cap Links)
            \cup {"add" : d \in {d \in Devices : exit_code[d] = "starting"}}

\* A process crashes.
Crashes(p) ==
    /\ Running(p)
    /\ Cardinality(Crashed) < MaxCrashes /\ hurried = 0
    /\ UnderWay \cap (Commands \cup {"add"}) \subseteq CrashMeets
    /\ Exits(p, "signal", up)
    /\ interrupted' = (interrupted \/ UnderWay \cap Links # {})
    /\ UNCHANGED <<fifos, controllerVars, hub, timerVars, leaf, hurried, scheduled>>

\* The system at work on what it has been asked.
SystemStep ==
    \/ ControllerStep
    \/ \E d \in Leaves : LeafProcess(d)
    \/ \E h \in Hubs : HubMainThread(h) \/ HubBottomUpThread(h)
    \/ \E t \in Timers : TimerThreads(t)
    \/ \E d \in signalled : Terminates(d)
    \/ \E d \in ToAdd : Starting(d)

Next ==
    \/ UserTypes \/ ManualInteraction \/ ClockTicks \/ SystemStep
    \/ \E p \in DOMAIN exit_code : Crashes(p)

Spec == Init /\ [][Next]_vars

\* As long as some thread can run, one does: less than the operating system
\* grants, which runs each of them.
Fairness == WF_vars(SystemStep)

FairSpec == Spec /\ Fairness

TypeOK ==
    /\ PipesTypeOK /\ LeafTypeOK /\ HubTypeOK /\ TimerTypeOK /\ ControllerTypeOK
    /\ hurried \in 0 .. MaxHurried
    /\ scheduled \in [Timers -> {STATE_OFF, STATE_ON, UNDEFINED_STATE}]
    /\ interrupted \in BOOLEAN

-----------------------------------------------------------------------------
(* Properties.                                                             *)

\* Where the processes themselves think they are.
ParentOf(d) ==
    CASE d \in Hubs -> hub[d].parent_id
      [] d \in Timers -> timer[d].parent_id
      [] d \in Leaves -> leaf[d].parent_id
ChildrenOf(p) == {d \in Devices : Alive(d) /\ ParentOf(d) = p}
BelowOf(p) ==
    LET below[n \in 0 .. Cardinality(Devices)] ==
            IF n = 0 THEN {} ELSE UNION {ChildrenOf(d) : d \in below[n - 1] \cup {p}}
    IN  below[Cardinality(Devices)]

\* A device that has not been told to exit, and whose parent is alive, keeps a
\* writer on its down pipe through every move: its old and its new parent never
\* both have it closed.
ToldToExit(d) ==
    CASE d \in Hubs -> hub[d].force_exit
      [] d \in Timers -> timer[d].force_exit
      [] d \in Leaves -> leaf[d].force_exit

NoDeviceStranded ==
    \A d \in Devices :
        Running(d) /\ ~ToldToExit(d) /\ Alive(ParentOf(d)) /\ ~interrupted => HasWriter(d)

\* A device that runs and is not in the controller's table, which is all that an
\* exit terminates, has been told to end or is still being added.
NobodyForgotten ==
    \A d \in Devices : Alive(d) /\ d \notin DOMAIN routing_table =>
        ToldToExit(d) \/ d \in signalled \cup exiting \/ user_command = AddCommand(d)

\* At rest the controller has heard of every death: that of a device that could
\* not start, as that of any other, is then detected with SIGCHLD.
DeathsDetected == AtRest => \A d \in DOMAIN routing_table : Alive(d)

\* At rest the named pipes that exist are those of the devices in the table, and
\* none is left once the controller has exited, but for a name that a fork which
\* failed has left.
NamesRemoved ==
    /\ InOrder => fifos \ Absent = DOMAIN routing_table
    /\ exit_code[CONTROLLER_ID] = "OK" => fifos \subseteq Absent

\* At rest the controller's table is the topology the devices are in.
ControllerKnowsTopology ==
    InOrder => /\ DOMAIN routing_table = {d \in Devices : Alive(d)}
               /\ \A d \in DOMAIN routing_table : routing_table[d].parent = ParentOf(d)

\* At rest a hub's table is the branch below it, and its counter the number
\* of its direct children.
HubKnowsBranch ==
    InOrder => \A h \in Hubs : Alive(h) =>
        LET T == hub[h].routing_table
        IN  /\ DOMAIN T = BelowOf(h)
            /\ \A d \in DOMAIN T : T[d].parent = ParentOf(d)
            /\ hub[h].children = Cardinality(ChildrenOf(h))
            /\ hub[h].has_children <=> ChildrenOf(h) # {}

TableOf(p) ==
    CASE p = CONTROLLER_ID -> routing_table
      [] p \in Hubs -> hub[p].routing_table
      [] p \in Timers -> timer[p].routing_table

\* At rest the next hop of every route is the direct child on the way there.
RoutesLeadThere ==
    InOrder => \A p \in Controls : Alive(p) =>
        LET T == TableOf(p)
        IN  \A d \in DOMAIN T : \E c \in ChildrenOf(p) :
                files[p][T[d].fd] = Down(c) /\ (c = d \/ d \in BelowOf(c))

\* At rest every command to a device that still exists has been answered, and
\* no hub or timer waits for a child.
EverythingAnswered ==
    InOrder => /\ \A c \in Range(awaited) : ~Alive(c.dst)
               /\ \A h \in Hubs : Alive(h) => hub[h].pending = <<>>
               /\ \A t \in Timers : Alive(t) => timer[t].pending = <<>>

\* At rest a timer knows its child, its only one, and the branch of a child
\* that is a control device.
TimerKnowsBranch ==
    InOrder => \A t \in Timers : Alive(t) =>
        LET H == timer[t]
            T == H.routing_table
        IN  /\ ChildrenOf(t) = IF H.has_child THEN {H.child_id} ELSE {}
            /\ H.has_child => files[t][H.child_fd] = Down(H.child_id)
            /\ DOMAIN T = IF ChildrenOf(t) \subseteq Leaves THEN {} ELSE BelowOf(t)
            /\ \A d \in DOMAIN T : T[d].parent = ParentOf(d)

\* At rest the leaves below a timer are in the state its begin or end has given
\* them, unless something else may have changed it since, or its child.
ScheduleObeyed ==
    InOrder => \A t \in Timers : Alive(t) /\ scheduled[t] # UNDEFINED_STATE =>
        \A d \in BelowOf(t) \cap Leaves : leaf[d].state = scheduled[t]

\* At rest a hub or timer has the type of the leaves below it, in its own eyes
\* and in the controller's.
LeafKinds(h) == {Kind[d] : d \in BelowOf(h) \cap Leaves}
DeclaredType(h) == IF h \in Hubs THEN hub[h].device_type ELSE timer[h].device_type
TypesAgree ==
    InOrder => \A h \in Hubs \cup Timers : Alive(h) =>
        /\ DeclaredType(h) = routing_table[h].type
        /\ IF LeafKinds(h) = {} THEN IsEmpty(DeclaredType(h))
           ELSE LeafKinds(h) = {ChildType(DeclaredType(h))}

\* What an info should say: a leaf's state; of a hub or a timer, the state all
\* the leaves below it are in, undefined without leaves, manual override if they
\* differ, or if it is not the state a timer on the way has given.
Shown(d) ==
    LET shown[n \in 0 .. Cardinality(Devices), x \in Devices] ==
            LET states == IF n = 0 THEN {}
                          ELSE {shown[n - 1, y] : y \in ChildrenOf(x)} \ {UNDEFINED_STATE}
            IN  CASE x \in Leaves -> leaf[x].state
                  [] x \notin Leaves /\ states = {} -> UNDEFINED_STATE
                  [] x \in Hubs /\ Cardinality(states) = 1 -> CHOOSE s \in states : TRUE
                  [] x \in Timers /\ states = {timer[x].state} -> timer[x].state
                  [] OTHER -> STATE_MANUAL_OVERRIDE
    IN  shown[Cardinality(Devices), d]

InfoIsTruthful ==
    \A p \in Controls : \A r \in Range(up[p]) :
        r.cmd = "info" /\ r.code = "OK" => r.args = <<Shown(r.src)>>

SwitchReachesAll ==
    \A p \in Controls : \A r \in Range(up[p]) :
        r.cmd \in Switches /\ r.code = "OK" =>
            \A d \in ({r.src} \cup BelowOf(r.src)) \cap Leaves :
                leaf[d].state = SwitchedState(d, r.cmd)

\* All the leaves below a hub or a timer are of one kind.
OneKindPerHub == \A h \in Hubs \cup Timers : Alive(h) => Cardinality(LeafKinds(h)) <= 1

\* The network is a tree at every moment, links move branches as a whole and
\* a hub only exits after all that was below it.
Topology == INSTANCE Tree WITH
    Hubs <- Hubs \cup Timers,
    parent <- [d \in {d \in Devices : Alive(d) /\ ~ToldToExit(d)} |-> ParentOf(d)]
RefinesTree == Topology!Spec
NeverCyclic == Topology!Acyclic

\* Whatever the user asks for, the network comes to rest with it answered: no
\* thread waits for another for ever and no answer goes round in circles.
ComesToRest ==
    (user_command # NoRequest) ~>
        (~Alive(CONTROLLER_ID) \/ (AtRest /\ StillAnswering = <<>>))

\* Once told to exit the controller does, whoever dies meanwhile.
ExitEnds == pending_shutdown ~> ~Alive(CONTROLLER_ID)

\* The controller, whether it exits or crashes, leaves no process behind.
NothingLeftBehind == ~Alive(CONTROLLER_ID) ~> \A d \in Devices : ~Alive(d)

\* No more answers to a switch come up than were asked for: what the children
\* of a hub answer is collected, never passed on as well.  (A leaf that moves with
\* its old hub's copy of a switch behind it answers that to its new parent, which
\* has not asked: leaves count that are offered no other hub.)
HubsFor(d) == {c.arg : c \in {c \in Offered : c.cmd = "change_parent" /\ c.dst = d}} \cap Hubs
AnsweredOnce ==
    LET answers(r) == Cardinality({i \in DOMAIN up[CONTROLLER_ID] :
                          up[CONTROLLER_ID][i].src = r.src /\ up[CONTROLLER_ID][i].cmd = r.cmd})
        requests(r) == Cardinality({i \in DOMAIN awaited : Answers(r, awaited[i])})
    IN  \A r \in Range(up[CONTROLLER_ID]) :
            r.cmd \in Switches /\ (r.src \in Hubs \/ HubsFor(r.src) = {ParentOf(r.src)})
                => answers(r) <= requests(r)

\* A response never overruns the array it is counted in: a hub never has more
\* direct children in its table than its counter says, in the middle of a move
\* either.
CounterCoversChildren ==
    \A h \in Hubs : Alive(h) =>
        Cardinality(Direct(hub[h].routing_table, h)) <= hub[h].children

\* Walking down a table from its owner, as an export and a replay do, meets
\* every entry, whatever comes in whatever order; but for what was below a dead
\* device, which is dead or has been told to end.
NoRouteUnreachable ==
    \A p \in Controls : Alive(p) /\ ~interrupted =>
        \A d \in DOMAIN TableOf(p) \ Below(TableOf(p), p) : Alive(d) => d \in signalled

\* What a hub or timer takes for open is, and names whom it takes it to name,
\* through every move, lost open and dropped child: no request for one child
\* goes to another, and no close meets a descriptor that is closed.
OwnPipesOpen ==
    /\ \A h \in Hubs : Running(h) => HubHolds(h, hub[h], files[h])
    /\ \A t \in Timers : Running(t) => TimerHolds(t, timer[t], files[t])

\* At rest a control process has only the pipes of its direct children open.
ClosedOnceLeft ==
    InOrder => \A p \in Controls : Alive(p) => \A f \in Fds :
        files[p][f].dir = "down" => ParentOf(files[p][f].id) = p

=============================================================================
