# OS-Domotics: specifications, model checking and proofs

OS-Domotics simulates a home: every device is a Unix process, and the
processes talk through named pipes.  This directory holds TLA+ specifications
of those processes, configurations that check them with TLC on small
instances, and proofs that the TLA+ proof system (TLAPS) checks for instances
of any size.  Line numbers below are those of `src/code/src/`.

- [1 The system](#1-the-system): components, state, operations, interactions
- [2 Modules](#2-modules): which module models what, and how
- [3 Runs](#3-runs): what TLC checks, on which instance, under which fairness
- [4 Findings](#4-findings): where the code does not do what its documents say
- [5 Proofs](#5-proofs): what holds for any number of devices or threads
- [6 Limits](#6-limits): what is not claimed or not modelled
- [7 Plan](#7-plan): what comes next

## 1 The system

### Components

| component | process and threads | state | operations |
|---|---|---|---|
| controller (`controller.c`) | user (main) thread, `responses_routine`, one detached thread per SIGCHLD, a reader of standard error | routing table of every device, descriptors of its direct children, the next id | `add`, `del`, `link`, `switch`, `set`, `info`, `list`, `sleep`, `exit`; responses update the table and make further messages |
| hub (`hub.c`) | top-down (main) thread, bottom-up thread, `data_mutex` | `device_type`, routing table of its branch, number of children, queue of pending responses, parent and its pipe | routes requests down, merges answers of its children, keeps its table by the link responses that pass through it, moves below another parent |
| timer (`timer.c`) | main thread, child-responses thread, schedule thread, `data_mutex` | one child and the table of its branch, begin and end of the schedule, the commands the child has still to answer | asks its child what it is asked, mirrors the answer as its own, switches the child by the clock, moves with its branch |
| bulb, window (`bulb.c`, `window.c`) | one thread | state, last times on and off, parent | switch, info, change parent, delete |
| fridge (`fridge.c`) | main thread, a detached thread per opening, `data_mutex` | door, delay, thermostat, filling, parent | like a window; opening starts a thread that closes the door after the delay |
| manual interaction (`manual_interaction.c`) | a program of one command | none (reads the exported registry) | writes `info`, `switch` or `set` to a device's own pipe |
| routing table (`routing.c`) | a library | 16 buckets of entries `type, parent, next_hop_fd` | insert, remove with everything below, find, update types, export |
| messages (`messages.c`), pipes (`utils.c`) | libraries | none | text to message and back; make, open, move and close a named pipe |

### How they interact

Every device reads requests from `<id>_down.fifo`; the controller, every hub and
every timer read responses from `<id>_up.fifo`.  A request goes down the tree,
each control process looking up the next hop; a response goes up, hop by hop.
A `link` is a conversation of three parties: the device is told its new parent
(`change parent`) and answers on the new parent's pipe; whoever sees that answer
on its way up adds the branch; the controller, when it hears it, tells the old
parent to `remove child`, whose answer removes the branch from every table on
its way.  A hub that moves sends a *history* of its whole table (every entry as
a link response of its own) so that its new ancestors learn of its branch.
`delete` goes to every leaf below a hub first; the last answer to it makes the
hub exit.

### What is hard

- **Two threads per hub, two per controller** share the table; some reads are
  made before the mutex is taken (`hub.c:124`) or used after it is given back
  (`hub.c:283`).
- **Messages of one link take different ways**: the new parent's and the old
  parent's branches learn of a move in either order, and an answer sent before
  a move may come in after it.
- **Descriptors are small reused integers** kept in tables; a closed one that is
  still remembered names another pipe later.
- **Answers carry no identity of the request**; hubs match them by command.
- **Cancellation**: a fridge cancels a thread that may be inside its critical
  section, a timer two, one of them anew with every `set`.
- **Deaths**: a device may crash, or fail to start, at any moment.  A SIGCHLD
  thread of the controller then tells its parent, terminates what was below it and
  takes it out of the table, while messages of the dead are still under way and
  others wait for answers that will not come.  `exit` waits for every direct child.
- **Opens that wait**: opening a named pipe blocks until the other end is open,
  some of it under a mutex.
- **A schedule** that meets commands, moves and the death of the child.
- **Commands in haste**: the controller checks a command against a table that
  does not know of the commands under way.

### What makes each part correct

| component | correct means | stated as |
|---|---|---|
| fridge | every opening has its own timer and a closed door none, and an open door closes; not before its delay is over, which the code does not keep (section 6); the mutex protects what it should; every request is answered, which it does not keep either (`fridge_deadlock`) | `OneTimerPerOpening`, `DoorCloses`, `EarlyCloseIsLast`, `MutexDiscipline`, `OpenTimeIsDuration`, `AnsweredOrStuck`, `AlwaysAnswered` |
| links | the devices are a tree at every moment, branches move whole, nothing is cut off, every table comes to agree with the tree | `RefinesTree`, `NeverCyclic`, `NoDeviceStranded`, `ControllerKnowsTopology`, `HubKnowsBranch`, `TimerKnowsBranch`, `RoutesLeadThere`, `NoRouteUnreachable`, `CounterCoversChildren` |
| commands | every command is answered, once; a switch reaches all the leaves below, an info says what they are in | `EverythingAnswered`, `AnsweredOnce`, `ComesToRest`, `SwitchReachesAll`, `InfoIsTruthful` |
| descriptors | what a hub or timer takes for the open pipe of a child or parent is that pipe, though small numbers are reused | `OwnPipesOpen`, `ClosedOnceLeft`, `RoutesLeadThere` |
| types | the leaves of a hub or timer are of one kind and its type is that kind | `OneKindPerHub`, `TypesAgree` |
| timer | it knows its child, and the leaves below do what the schedule says | `TimerKnowsBranch`, `ScheduleObeyed` |
| deaths | every table forgets the dead, nobody runs on unknown, no name is left | `NobodyForgotten`, `NamesRemoved`, `DeathsDetected`, `ControllerKnowsTopology` |
| exit | the controller ends whoever dies meanwhile, and no process outlives it | `ExitEnds`, `NothingLeftBehind` |

The hazards of the code are listed in `PROJECT.json`, each at its line with the
properties that would catch it; where no property does, or only for a user who waits, a note
says so, and section 6 what goes wrong.

## 2 Modules

```
Fridge ── FridgeProofs                        Tree ── TreeProofs
   └── MC_Fridge                                ▲ refines (RefinesTree)
Devices ── RoutingTable ── Pipes ─┬─ Leaf ───────┐
                                  ├─ Hub ────────┤            ┌── MC_Network ──┐
                                  ├─ Timer ──────┼── Network ─┤                ├── MC_TwoLevels
                                  └─ Controller ─┘            └── TwoLevels ───┘

PipesProofs ─┬─ HubProofs ────────┐
             ├─ TimerProofs ──────┼── NetworkProofs ── TwoLevelsProofs
             └─ ControllerProofs ─┘
```

Each `XProofs` extends `X` as well, and `PipesProofs` has the lemmas about
`RoutingTable` too; section 5 says what is proved in which.

`Fridge` models one process in full, with its threads, its environment being any
sequence of requests.  `Network` composes the controller, hubs, timers, bulbs and
windows.  A definition named `Mutant` in its comment is not part of a
specification: it is what a plausible mistake would make of the definition after
it, and is used to show that a property can fail.

**Fridge** (`fridge.c`).  `MainRead` to `MainShutdown` are the steps of `main`:
read, lock, execute and unlock, write.  `create_switch_response`,
`create_info_response`, `create_link_response` and so on are the functions of
those names; `OpenDoor` and `CloseDoor` are `set_state`.  An autoclose thread is a
slot of `Threads` with a program counter of its own: `Sleep`, `WakeUp`,
`AutoClose` (the lock and `set_state`), `Notify` (the write), `Release`; `Die` is a
pending cancellation acting in `sleep` or `write`, the cancellation points it
passes; waiting for the mutex is none.  A mutex whose holder died is `"orphaned"` for
ever; `Lost` is one whose holder has died or must.  `delay` is what each thread sleeps,
the `autoclose_delay` of the moment it started, and a slot is `"failed"` when its
thread could not lock the mutex.  A change of parent opens the new parent's pipe in
`create_link_response`, which succeeds or fails, or in `MainBlocks`, which never returns: that
parent has crashed and its name is still there (`utils.c:127`).  `Faults` says which
system calls may fail and whether such an open may block.  Time is a clock of a few
ticks, read by `now`.

**Devices** (`devices.h`, `messages.c`).  Types are the numbers of the code, so
that `HubOr` and `WithChildType` are its bit operations.  A message is a record;
`Parses` says which responses a reader can parse back: a link response without
arguments it cannot (`messages.c:125`).

**RoutingTable** (`routing.c`).  A table is a function from ids to entries.
`Walk` keeps the order in which the recursive searches return entries, because
a history is sent in that order; its depth is bounded, that of the searches is not, which
differs only where a device is below itself (section 5); `InIdOrder` lists the children of one device as
the loops over the buckets meet them, by id.  The buckets are abstracted.

**Pipes** (`utils.c`).  `down` and `up` are the contents of the pipes, `files` what
each descriptor of a control process names, `fifos` whose names exist, `exit_code`
what has become of each process.  `LowestFree` is what `open` returns, so stale
descriptors behave as in the program.  A down pipe whose last writer has closed it
reads as end of file; opening one that nobody reads blocks (`OpenBlocks`), one whose
name is gone fails.  `Exits` is the end of a process, however it comes.
`ChildrenOpen` says of a table and the descriptors of a process that each direct
child's is open and names that child's pipe.

**Leaf** (`bulb.c`, `window.c`).  One action per request handler, and `LeafReply`
that writes the answer; end of file, a broken pipe and SIGTERM end the process.

**Hub** (`hub.c`).  The two threads have program counters.  A bottom-up message is
handled in one step when the code handles it under the mutex
(`HubDirectChildAdded`, `HubIndirectChildAdded`, `HubChildForgotten`,
`HubPendingAnswered`, `HubChildDeleted`, `HubPassesOn`).  The top-down thread's steps
end where it takes or gives back the mutex: for instance `HubForwards` (the
unlocked test of `has_children`), then `HubBroadcasts` (queue the pending response
and write to all children); `HubRoutes` (find the route), then `HubSends` (use the
descriptor).  `HubExits` is `handle_shutdown` by whichever thread comes to it first,
`HubTerminates` by the signal handler.

**Timer** (`timer.c`).  Three threads with program counters of their own.  The main
thread: `TimerInfo`, `TimerSwitch`, `TimerDelete`, `TimerChangeParent`,
`TimerRemoveChild` and `TimerRegistry` are the requests to itself, `TimerForwards` and
`TimerWritesOn` one for a device below, `TimerReplies` the answer, and
`TimerReplays`, `TimerReplaysBranch`, `TimerReplaysChild` and `TimerAnnounces` what a timer
that has moved tells its new parent.  The child-responses thread takes in the
branch (`TimerChildAcquired`, `TimerDescendantAcquired`, `TimerDescendantRemoved`,
`TimerChildDeleted`) and mirrors answers the timer waits for (`TimerMirrors`, by
`TakePending`).  The schedule thread sleeps until the next begin or end
(`ScheduleSleeps`, `NextTarget`), looks up the child under the mutex (`ScheduleWakes`),
writes to it without (`ScheduleSwitches`), and goes on (`ScheduleUpdates`);
`TimerReschedules` cancels it and starts another.  `locked` says that a thread was cancelled
in a call it made with the mutex locked, for then nobody takes the mutex any more.
`MinutePasses` is the clock.

**Controller** (`controller.c`).  `CheckUserCommand` is `check_user_command`,
`ExecuteUserCommand` the write after it; the window between the two is a window
of the code.  `AddForks` and `AddInserts` are the two halves of
`execute_add_command`, on either side of the fork; `DeviceStarts` is
`start_device_fifos` in the new process, `StartFails` its end if that or `execv`
fails.  `ReceiveResponse` is `responses_routine` with one alternative per kind of
response: `ShowResponse`, `ChildRemoved`, `RouteRefreshed`, `MovedAway`,
`MovedToController`, `MovedBetweenDevices`, `DeviceDeleted`; `DevicesReaped` is the
`waitpid` of deleted processes, made under the mutex.  `SigchldRoutine` is
`sigchld_routine` up to its unlock, with `Buried` for each dead device,
`SigchldChecks` what comes after.  `ExecuteExit` is `execute_exit_command`, and
`Shutdown` is `handle_shutdown`, reached by `ControllerExits`, `SigchldChecks` and
`InputEnds`.

**Network** composes them, adds the user, the manual interaction program, the clock
(`ClockTicks`), crashes (`Crashes`) and the delivery of SIGTERM (`Terminates`), states
fairness and the properties.  `HubTypeOK`, `TimerTypeOK` and so on are the components'
parts of `TypeOK`; `HubTyped` says what one hub's fields hold, `HubReady` what the
next step of each of its threads finds in them.  `AtRest` says that nothing is under way; `InOrder`, that
moreover no process has crashed in the middle of a link and no death has been missed.

**TwoLevels** says what holds of the network at every moment, if the user keeps to
hubs below the controller and leaves below either, and waits for links
(`TwoLevelUser`).  It adds no behaviour to `Network`: it is the invariant its proofs
rest on (section 5).  `HubInOrder`, `LeafInOrder` and `ControllerInOrder` are what
each process always keeps to; `Typed` to `Left` are the stages of a link, each of which
says where its message is and who knows of the move by then.

**Tree** is the abstract specification of what adds, links and deletes promise:
devices are a tree, a new one is a child of the controller, a move takes a branch as
a whole to a place not inside itself and only among leaves of its kind, and only what
has nothing below it leaves.
`Network!RefinesTree` maps it to the `parent_id`s of the processes that have not
been told to exit.

## 3 Runs

| run | instance | shows |
|---|---|---|
| `fridge` | 2 threads, clock 0..3, delays 1 and 2, two parents; opens that fail or block, mutex and signal faults | `TypeOK`, `OneTimerPerOpening`, `MutexDiscipline`, `OpenTimeIsDuration`: one timer per opening in every interleaving of cancellation, wake-up and request; `EarlyCloseIsLast`: an automatic close comes at its time, or from a cancelled thread, and then it is the last thing the fridge does |
| `fridge_live` | 2 threads, clock 0..2, one delay, two parents; thread creation, locks and unlocks that fail, opens that block | `AnsweredOrStuck`: the main thread hangs only when a cancelled thread has died with the mutex or an open does not return; `DoorCloses`: an open door stays so only when its thread could not lock the mutex, or the main thread keeps the mutex in such an open |
| `links` | hubs 1, 2, bulb 3, which is added meanwhile; any device may be linked anywhere, one command under way | `RefinesTree`, `NoDeviceStranded`, `CounterCoversChildren` at every moment; `ControllerKnowsTopology`, `HubKnowsBranch`, `RoutesLeadThere` whenever the network is at rest |
| `use` | hubs 1, 2, timer 5 between them, bulbs 3, 4, window 6, a day of 2 minutes; the tree of `commands.scenario` is built, used, timed and taken down | `SwitchReachesAll`, `InfoIsTruthful`, `ScheduleObeyed`, `HubKnowsBranch`, `TimerKnowsBranch`, `OneKindPerHub`, `RefinesTree`: answers are collected and mirrored truly through four levels, and a timer moves with its branch |
| `pipelined` | hubs 1, 2, bulbs 3, 4, the second of which is added; leaves move between hubs while switches and manual infos are under way; two commands at a time | `EverythingAnswered`, `AnsweredOnce`: infos and switches that overlap each other and a link are collected and answered, once; `TwoLevels`: the inductive invariant of section 5 |
| `hasty` | hub 1, timer 5, which is added, window 3; the hub goes below the timer, the window below the hub and back; a link that waits neither for another nor for the timer to start, or one crash in the middle of a link | `TypeOK`, `NoRouteUnreachable`: the error paths are taken, no process leaves the states the model gives it, and no table loses an entry from its tree |
| `exit` | hubs 1, 2, bulb 3, which is added; deletes, exit, the end of the input, the crash of any one process, the controller too | under fairness `ComesToRest`, `ExitEnds`, `NothingLeftBehind`; at rest `EverythingAnswered`, `TypesAgree`, `ClosedOnceLeft` |
| `crash` | timer 1 and bulb 2 are added, a day of 3 minutes; every command, manual switches, a fork or a start that fails, one crash in the middle of anything but an add or a delete | `NobodyForgotten`, `NoDeviceStranded`, `OwnPipesOpen` at every moment; `NamesRemoved`, `ControllerKnowsTopology`, `TimerKnowsBranch`, `RoutesLeadThere`, `ClosedOnceLeft`, `TypesAgree` at rest |
| `fridge_deadlock`, `hubtype`, `cycle`, `missed` | the same models | violations, see Findings |

**Bounds, and why they are enough.**
*Fridge*: at most two autoclose threads are in play, that of the last opening and a
cancelled one that has not died; two slots hold both, and creation waits for a
slot.  Three ticks are the longest delay and one more, so that a thread can oversleep a close and
a new opening; `EarlyCloseIsLast` judges the openings whose sleep the clock has
room for.  The fill percentage, which nothing depends on, is 0 only.  `fridge_live` has one
delay and two ticks: a sleep that ends, and one more in which an opening can follow a close.
The `fridge` run leaves out failures of `pthread_create`: after one, `last_opened` is
later than `last_closed` and an info would report a wrapped duration, which
`fridge.c:230` admits and nothing else depends on.
*Network*: two hubs are the least with a sub-hub, a move across branches and a
move of a branch; `use` has a timer between two hubs and leaves of two kinds.
`MaxFd` descriptors are more than are ever open (`DescriptorsLeft` keeps `MaxFd` from
being what fails), `ChildrenModulus` (16) is where the children counter wraps in the
model; the instances stay below it.  A day of two minutes has a begin and an end,
one of three a minute besides in which nothing is due; the clock starts anywhere in the day.
`MaxAwaited` bounds the commands under way, `MaxHurried` the links from the first
that did not wait for the network to be at rest, `MaxCrashes` the crashes: one, for
after a second one most of what can go wrong is what the first has left.
`CrashMeets` names the requests a crash may come in the middle of.  Links are hurried
or processes crash, never both in one behaviour.
In `links` one command at a time is the discipline of a user who waits for the
answer; the messages the command sets off still interleave in every way.
In `pipelined` the links are as many as the user likes, but wait for the
network to be at rest, as `MaxHurried = 0` says; infos and switches do not wait.  Two hubs
and two bulbs are the least in which a leaf goes from one hub to another while a hub is
asked, and all stages of `TwoLevels` occur.
In `exit`, `crash` and `use` the commands are given at rest (`Settled`), but for the end of the
input, which comes at any time; the crash, the exit of the controller and what they
set off interleave with all that is under way.  In `hasty` the link of the hub to the timer does not wait.
A minute is long: the clock ticks only at rest, and stops while a hub waits for
a child that is no more.

**Deadlock** is not checked: every instance may stop, when the user gives no more
commands or everything has been deleted.  `ComesToRest`, `ExitEnds` and
`AnsweredOrStuck` say what may stop half-way and that nothing else does.

**Fairness.**  *Network*: `WF_vars(SystemStep)`, as long as some thread can run one
does; the scheduler of the operating system runs every one of them, which is
more.  The user is not fair: commands need not
come, nor crashes; the clock does not tick unless it does.  The `exit` run uses it.
*Fridge*: weak fairness of the main thread's steps after a request is read, of the
clock and of every thread (`Runs`), and strong fairness of `MainLock` and `AutoClose`, the
two places that wait for the mutex.  Nothing has to fail: a lock that fails or an open
that blocks is none of these steps, so fairness never takes one for progress.  A pthread mutex that is freed again and again
is given to a waiter in the end, though POSIX does not say in which order; reading
a request has no fairness.

## 4 Findings

Each is a run that checks one sentence of the repository and ends in a
counterexample.

- `fridge_deadlock`, `AlwaysAnswered` (`report.typ:10`): `set_state` cancels an
  autoclose thread that waits for `data_mutex`; it takes the mutex next and dies in
  `write` (`fridge.c:270`) holding it, and the main thread never gets it again.
- `hubtype`, `TypesAgree` (`report.typ:42`): a leaf moves from a sub-hub to the hub
  above.  The hub adds it and later hears that it left the sub-hub; `update_type`
  (`hub.c:639-654`, called from `hub.c:670`) skips the moved id, which is now its own child, and
  the hub becomes an empty hub with a bulb below it.
- `cycle`, `NeverCyclic` (`headers/controller.h:77`): link 1 to 2 and link 2 to 1, the
  second typed before the first is answered, both pass the check of cycles.
- `missed`, `DeathsDetected` (`controller.c:573`): a new process that fails in `execv` or
  `start_device_fifos` may be dead, and looked for by the SIGCHLD thread, before the
  main thread has entered it (`controller.c:543-546`).  It stays in the table until
  another process ends, and an exit given meanwhile waits for it.

## 5 Proofs

All proofs are checked by `tlapm` with Z3, Zenon and LS4.

**FridgeProofs**, for any delays, thermostats, number of threads, clock bound and
set of faults, from the assumptions named in `Fridge`:
`TypeCorrect` (`[]TypeOK`), `OneTimerPerOpenDoor` (`[]OneTimerPerOpening`),
`MutexIsDisciplined` (`[]MutexDiscipline`).  The inductive invariant `IInv` has the two
halves of `OneTimerPerOpening`, that of the open door (`ArmedWhileOpen`) and that of
the closed one (`NoTimerWhileClosed`: without it opening the door would make two), and what
they lean on: a thread past its last cancellation point has no cancellation pending
(`EndedNotCancelled`: otherwise a new thread in its slot would be born cancelled); while a
thread holds the mutex the door is closed (`ClosedWhileHeld`: so nobody is armed when it
dies); and no thread outlives the process (`NothingAfterExit`).  `Invariance`
is `Spec => []IInv`; the step has one case per action, split into typing
(`ExecuteType`, `TypeStep`) and safety (`ExecuteSafety`, `ThreadSafety`, `SafetyStep`).

Two more theorems rest on that invariant.  `OpenTimeNeverWraps` is
`[]OpenTimeIsDuration` for a fridge whose thread creation does not fail, the one
assumption without which the code does otherwise (`fridge.c:230`): its
strengthening is that a closed door was closed no earlier than it was last opened
(`ClosedAfterOpened`).  `EarlyOnlyOnce` is the action property `EarlyCloseIsLast`.  An
uncancelled thread that wakes has slept its delay since the present opening
(`ClosesInTime`), which set commands and manual closes in between do not change; a
cancelled one that takes the mutex has a cancellation pending inside the critical section, so
the mutex is lost with that step, and a lost mutex stays lost and the door closed
(`LostForEver`).  That there are such early closes is not denied: section 6.

**TreeProofs**, for any hubs and leaves: `TypeCorrect`, `NeverItsOwnAncestor`
(`[]Acyclic`) and `HubsOfOneKind` (`[]OneKind`).  Sets take the place of paths: a branch
is the least set that holds its device and the children of all it holds
(`BranchIsClosed`, `BranchIsLeast`), and a forest is acyclic when no set but the empty
one holds the parents of all its members.  A move changes one edge, so a branch
without the new parent can only lose devices and any other gains at most the branch
that moves (`MovedBranches`); a set that would be a cycle after the move has to
contain the device that moved and, outside that device's branch, a cycle that was
there before (`AcyclicMove`).  This is why checking only the branch that moves and
the ancestors of its new place, as `check_user_command` does, suffices.  What joins has
nothing below it (`JoinedBranches`), and what leaves takes nothing with it (`LeftBranches`).

These theorems concern `Tree`.  That the network of processes implements `Tree` is
proved for a user who keeps to two levels (`ImplementsTree`, below) and checked by TLC
for one who waits for links (`RefinesTree` in `links` and `use`); with the theorems
about `Tree` it says that such a network never has a cycle or a hub of two kinds.

**PipesProofs**, for tables of any size and shape.  `Below`, `Walk` and `Upwards`
are recursive functions; what they compute is shown without an induction theorem,
by the least counterexample there could be (`Least`, `Induct`, `Iteration`).
`WalkIsTheSearch`: from a device that is not below itself, the search down a table lists each
child and then all that is below that child, and so all that is below the device and
nothing else; so histories and registries are complete.  `Walk` has a bound on the depth,
for a definition has to end; the theorem says that the bound never cuts the search.  The
code's search has none, and on a table where the device is below itself (`cycle` makes one)
it does not end: such tables are outside the hypothesis.  `RemoveRouteIs`: a removal takes out the
branch and leaves no entry hanging on what has gone.  A table is *sound* (`IsSound`) when it
is a tree with the process at its root and every entry that has a type gives it to what is
above it; `RemovalKeepsSound` and `MoveKeepsSound` say that a removal with
`update_type_to_empty`, and a move with `update_type_to_not_empty`, keep it so.

The module also has what the rest shares: the types of what the pipe and table operators
give, and that small descriptors which `open` reuses do not take one away that is in
use (`OthersStayOpen`, `InsertDirectOpens`).

**HubProofs**, **TimerProofs** and **ControllerProofs** prove of each step of a component
that it leaves its component, the pipes and its descriptors typed (lemmas named
`...Typed`), that it never takes back that somebody has to exit (`...Persists`), and that
it keeps what it takes for open (`...Holds`).  Results on their own:
`NextTargetIs` and `MinutePassesTyped` (a schedule thread never waits for nothing nor for
longer than a day, and the day ends at `MINUTES_IN_A_DAY`);
`AllowedLinkKeepsSound` and `ResponsesKeepSound` (a link that passes
`check_user_command`, entered into the table it was checked against, and the deletion of a
device at any time, leave the controller's table sound: no cycle, no orphan, no hub of two
kinds); `ResponsesDropNobody` (a device leaves the table by a response only if it, or what
it was below, was deleted, and is then waited for) and `SigchldBuries` (the loop of the SIGCHLD thread,
one dead device after the other, takes from the table exactly those that died with an error).
The first two of the controller stop where `cycle` goes wrong: a link that is
allowed when it is checked and not any more when it is answered is outside their hypothesis.

**NetworkProofs** puts the components together, for any devices, faults, offered
commands and crashes.  The assumptions are those named in the modules: ids are at most 15
(so that the order of ids is that of the buckets, which no proof uses), a device has the type of
one kind, new ids are larger than old ones, and there are more descriptors than devices.

- `TypeCorrect` (`[]TypeOK`).  `TypeOK` is inductive as it stands, because it says what every
  thread's next step finds (`HubReady`, `TimerReady`): a route before it is written to,
  a response before it is sent, a waiting time within the day.
- `NeverForgotten` (`[]NobodyForgotten`): a device that runs is in the controller's table, or
  has been told to exit, or is being added.  It is inductive once `TypeOK` holds, by
  four facts: `force_exit` is never reset (`NeverToldOtherwise`, itself the action
  property), only the fork of an `add` brings a device to life (`OnlyForksStart`, whence
  `NeverRevived`), a response drops nobody who is not waited for, and a SIGCHLD
  thread buries only the dead.
- `OwnPipes` (`[]OwnPipesOpen`): in every hub and timer that runs, the descriptor kept for
  a direct child is open and names that child's pipe.  The property alone is not inductive:
  a device that starts must find things in order, so `PipesHeld` says the same of
  every hub and timer that has not ended, those not yet added too; that one which
  has ended never runs again is `EndedForGood`.  Each step is then local: whoever moves
  changes no descriptors but its own (`OwnFilesOnly`), and of its own only ones it has taken out
  of its table in the same step.
- `NoNameUnknown` (`[]NamesKnown`): every named pipe is that of a device in the controller's
  table, of the one being added, or of an add whose fork failed.  It is one half of `NamesRemoved`,
  which speaks of rest only, proved at every moment; the names follow the table because
  `ResponsesDropNobody` and `SigchldBuries` speak of the names too.  The other half, that
  what is in the table has a name, is not true in general: when a hub crashes with the delete response
  of a child still to pass on, the child keeps its entry (section 6).

**TwoLevelsProofs** proves what the network as a whole promises, of the user
`TwoLevelUser` describes: no timers, faults, crashes, deletes or exit; only leaves are
linked, to hubs or the controller; a link is typed when the network is at rest, an
add too; infos and switches, typed or of the manual interaction, come at any
time, and there are fewer devices than the counter of children can count.  Hubs, leaves,
descriptors and the commands under way are any number.

The properties that speak of a network at rest, or that hold at every moment because a
user waits, are far from inductive: between two moments of rest a link is under
way, and nothing in them says how far.  The inductive invariant, `TwoLevels`, does.
In it every process is in order (`InOrderAlways`), and either no link is under way
(`Still`) or exactly one is, at one of twelve stages.  A stage says where the one
message of the link is (typed, in a pipe, in a thread that has read it), that all other
messages are infos, switches and their answers (`Silent`), what the leaf, the controller
and each hub take for its parent (`At`), whose types the controller has yet to
hear (`Agreed`), and, until the leaf is taken in, that the new parent has room and only
leaves of its kind (`MayTakeIn`).  The proof has three parts.

- Steps of infos and switches are *aside* (`Aside`): they may add to any queue, take from
  it and change pending responses, but leave every stage what it is (`AsideKeeps`).  Each
  of the threads' actions that is not one of a link is shown to be one
  (`ControllerStepsAside`, and the like for hubs and leaves).
- The steps that read a message of the link take it from its stage to the next
  (`LeafMoves`, `HubTakesInTwoLevels`, `ControllerEnters`, `MovedBetweenTwoLevels`,
  `MovedToControllerTwoLevels`, `MovedAwayTwoLevels`, `ChildRemovedTwoLevels`).
- A link begins at rest, where `TwoLevels` leaves only `Still` (`StillAtRest`), and what
  `CheckUserCommand` has let through can be carried out (`LinkCanBeDone`); an add takes
  place while no link is under way (`StillWhileAdding`).

From `TwoLevelsAlways` (`[]TwoLevels`) follow, each a theorem `TwoLevelUser => (Spec => []P)`:
`StrandsNobody` (`NoDeviceStranded`), `CountersCover` (`CounterCoversChildren`),
`KeepsRoutes` (`NoRouteUnreachable`), `KindsNeverMix` (`OneKindPerHub`) at every moment, and at
rest `ControllerKnows` (`ControllerKnowsTopology`), `HubsKnow` (`HubKnowsBranch`), `RoutesLead`
(`RoutesLeadThere`), `TypesAlwaysAgree` (`TypesAgree`) and `ClosesWhenLeft` (`ClosedOnceLeft`).
`ImplementsTree` is `Spec => RefinesTree`: the step in which a leaf takes its
`change_parent` in is a `Move` of the tree (`LinkIsMove`), the fork of an add a `Join`
(`ForkIsJoin`), and every other step leaves the tree alone (`OnlyLeavesMove`,
`OnlyLinksMove`).  That the move is allowed is `MayTakeIn`, still true when the leaf reads
the request that was checked when the user typed it.

The hypothesis is what the code needs or what the proof can afford.  Without the
waiting most of it is false (section 6), and a hub whose leaf moves to the hub above
it disagrees about types (`hubtype`).  Hubs below hubs would move whole
branches with their histories, and faults, deaths and deletes end conversations in the
middle; the invariant for those is several times as long and was not attempted.

**Checked by TLC only.**  Everything under fairness (`DoorCloses`, `AnsweredOrStuck`,
`ComesToRest`, `ExitEnds`, `NothingLeftBehind`) is beyond the proof system.
Of the other properties of `Network`:
- Those of the list above, and `RefinesTree`, where hubs or timers are below each other,
  devices are deleted or crash, or the controller exits: the runs `links`, `use`, `crash`
  and `exit` check them there.
- `EverythingAnswered`, `AnsweredOnce`, `InfoIsTruthful` and `SwitchReachesAll` say what a
  whole conversation has done.  They need an invariant over `awaited` that says
  of every copy of a request in a pipe for which answer it counts.
- `TimerKnowsBranch` and `ScheduleObeyed` need one like `TwoLevels` for timers.
- `NamesRemoved`, of which one half is proved, as `NoNameUnknown`.
- `NoRouteUnreachable` fails where a cycle is made (`cycle`), so outside `TwoLevelUser` it needs the
  bounds of its run.  For one operation on a table it is what `RemoveRouteIs` and
  `MoveKeepsSound` prove.

## 6 Limits

**Haste.**  When links do not wait for the network to come to rest, most of the
guarantees of `links` fail, and are not claimed: a device may be cut off (link it
away and back before the first `remove child` arrives, `hub.c:617`), tables may stay
wrong, a closed descriptor may come to name another child's pipe, the children
counter may fall below the number of children, a hub may be deleted while a leaf is
on its way to it.  A link to a hub or timer that has not made its up pipe yet, or
that has died, leaves the device mute (`utils.c:127`).  `hasty` claims only what does
hold.  A leaf that moves with its old hub's copy of a switch still in its pipe answers
it to its new parent, which has not asked: the controller then hears of the switch
twice.  `AnsweredOnce` leaves out a leaf that is next to the controller or offered
another hub than its own.

**Where the code goes wrong and no run claims otherwise.**
- A fridge's autoclose thread that is cancelled while it waits for `data_mutex`
  (`fridge.c:254`, no cancellation point) may take the mutex after the next opening: it
  closes that door at once, whatever its delay (`report.typ:22`), and dies in its write with the mutex.
  `EarlyCloseIsLast` allows this one early close and shows that the fridge does nothing
  after it; the cause is that of `fridge_deadlock`.
- A fridge that is linked to a parent that has crashed, whose name is still there, waits in
  the open of its pipe for ever, with `data_mutex` held (`fridge.c:128`, `utils.c:127`):
  it answers nothing any more, and its autoclose thread cannot close the door.
- An autoclose thread whose `pthread_mutex_lock` fails ends (`fridge.c:254`), and the door stays open;
  a close request then fails as well, as there is no thread to cancel.
- An info or a delete of a hub that meets the removal of its last child between the
  test of `has_children` (`hub.c:124`) and the broadcast waits for nobody and is never
  answered; an exit right after a delete may therefore not end (`report.typ:204`).
- A direct child that moves below a sub-hub of its hub leaves its descriptor open
  (`hub.c:546`, `report.typ:167`): `ClosedOnceLeft` is claimed where this move is not made.
- A hub with a timer below it has the type bits of a timer (`HUB_DEVICE | type`,
  `hub.c:540`): `TypesAgree` is claimed for hubs without timers.
- A timer keeps its pending commands when its child dies (`timer.c:395`): what was asked
  is never answered, and the next child's answer completes it.
- A crash in the middle of a link leaves tables that nothing puts right (`interrupted`): the
  SIGCHLD thread sends `remove child` by a route that may not lead to the parent any
  more (`controller.c:1235`), and whoever opens the pipe of a device that has just
  crashed may wait for ever, the controller with its mutex locked (`controller.c:754`).
- A link whose new parent dies, and is taken out of the table, before the controller
  reads the answer of the device that moved: `controller.c:725` closes the device's pipe
  and then finds no parent to enter the new route by, so the table keeps a direct entry
  with a closed descriptor, which a later open may give to another pipe.  `OwnPipesOpen` is
  claimed, and proved, for hubs and timers.
- A crash of a hub with the delete response of a child still to pass on leaves the child
  in the controller's table for ever (`controller.c:1206-1217`).
- A crash of the controller while a device starts leaves that device waiting in an open;
  so does its exit between the fork and the insert of an `add` given after `exit`.
- A fork that fails leaves the name of the pipe, and every later `add` fails in `mkfifo`
  (`controller.c:523`).

**Abstractions.**  An info that a timer answers with an error carries no arguments in
`OwnReply`; the code sends those its buffer has from an earlier answer
(`timer.c:447-467`), which nobody reads.  The text of messages, the times and registries in infos, the names
shown to the user.  `DeviceDeleted` removes all the names of a branch in one step, where
the code waits for each process in between, with the mutex held and reading nothing.
A failed mutex call, allocation or thread creation is modelled in the fridge only, a
failed `fork` in `add`.  Every death is looked for by a SIGCHLD thread in the end; one that
comes before its `add` has ended may be missed.  The descriptor `add` opens is
read-write and a later one of the controller's is not: which it is, is not kept, so
that an open of a dead device's pipe may block or return while the controller has the pipe open, and a
write to it is taken for one that fails.  A manual command is written when nothing
else is under way; what comes after meets it at any stage.

**Not modelled.**  SIGTERM in the middle of a critical section, and to the controller;
`switch` of the controller itself, `list`, `sleep` and `info` of the controller; the exported
registry files; manual `set` commands, and manual commands that meet a link; fridges in
the network and their temperature; the buckets of the routing table; the text of
messages and its parsing; timers and hubs in one instance with an exit, whose
schedules make the state space too large for liveness.  The user interface and the
scenario reader are input and output without protocol state and stay out.

## 7 Plan

What is left, in order:

1. `RoutingBuckets`, 16 lists and 16-bit ids, refining `RoutingTable`; lemmas on
   inserting and removing routes, proved for any table.
2. `Messages`: format and parse as functions over bounded inputs; parse of format is
   what `Devices` says it is.
3. Fridges and `set` commands of the manual interaction in `Network`; manual commands
   that meet a link or a delete; the temperature as a function of the times.
4. An instance of `exit` with a timer, its clock stopped.
5. Proofs: a hub or timer that ends with `OK` had been told to exit or had failed;
   the mutex discipline of the timer's three threads; what a hub's merged answer is
   of the answers it was made of.

To repeat the checks: `tlc -config MC_Network_links.cfg MC_Network`, and so on for the
other configurations, and `tlapm` on each of `FridgeProofs`, `TreeProofs`,
`PipesProofs`, `HubProofs`, `TimerProofs`, `ControllerProofs`, `NetworkProofs` and
`TwoLevelsProofs`.
