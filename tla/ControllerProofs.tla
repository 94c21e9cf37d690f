-------------------------- MODULE ControllerProofs --------------------------
(***************************************************************************)
(* The controller (src/code/src/controller.c): each of its steps leaves    *)
(* its table, its pipes and its descriptors typed, and what                *)
(* check_user_command lets pass never makes its table cyclic nor puts a    *)
(* kind of leaf below a hub of another.                                    *)
(***************************************************************************)
EXTENDS Controller, PipesProofs

\* What the controller has before a step.
LEMMA ControllerStarts ==
    ASSUME PipesTypeOK, ControllerTypeOK
    PROVE  /\ IsTable(routing_table, Controls)
           /\ DOMAIN routing_table \subseteq Devices
           /\ files[CONTROLLER_ID] \in [Fds -> Ends] /\ files \in [Controls -> [Fds -> Ends]]
           /\ down \in [Devices -> Seq(Requests)] /\ up \in [Controls -> Seq(Responses)]
           /\ up[CONTROLLER_ID] \in Seq(Responses)
           /\ exit_code \in [Devices \cup {CONTROLLER_ID} ->
                 {"absent", "starting", "none", "OK", "error", "signal", "missed"}]
           /\ fifos \subseteq Devices /\ signalled \subseteq Devices /\ exiting \subseteq Devices
           /\ user_command \in UserCommands \cup {NoRequest}
           /\ {blocked, pending_shutdown, force_exit, reaped} \subseteq BOOLEAN
           /\ awaited \in Seq(Requests)
<1>1. IsTable(routing_table, Controls)
  BY DEF ControllerTypeOK
<1>2. DOMAIN routing_table \subseteq Devices
  BY <1>1, TableIs
<1>3. CONTROLLER_ID \in Controls
  BY Ids
<1> QED
  BY <1>1, <1>2, <1>3 DEF ControllerTypeOK, PipesTypeOK

\* The user's commands, and the requests among them.
LEMMA UserCommandsAre ==
    /\ \A c \in UserCommands : c.dst \in Devices \cup {CONTROLLER_ID}
    /\ \A c \in UserCommands : c.cmd = "add" => c.dst \in Devices
    /\ \A c \in UserCommands : c.cmd \in Commands => c \in Requests
    /\ NoRequest.cmd = "null" /\ NoRequest \notin Requests
<1>1. \A c \in Requests : c.dst \in Devices /\ c.cmd \in Commands
  BY RequestFields
<1>2. "add" \notin Commands /\ "exit" \notin Commands /\ "end_of_file" \notin Commands
      /\ "null" \notin Commands
  BY DEF Commands, Switches, PowerSwitches, DoorSwitches, Links, Registries
<1>3. NoRequest.cmd = "null"
  BY DEF NoRequest
<1> QED
  BY <1>1, <1>2, <1>3 DEF UserCommands, AddCommand, ExitCommand, EndOfInput

-----------------------------------------------------------------------------
(* Commands.                                                               *)

\* The checked command is one of the user's.
LEMMA CheckUserCommandTyped ==
    ASSUME PipesTypeOK, ControllerTypeOK, NEW c \in UserCommands, CheckUserCommand(c)
    PROVE  PipesTypeOK' /\ ControllerTypeOK'
  BY DEF CheckUserCommand, PipesTypeOK, ControllerTypeOK, pipes, shutdownVars, IsTable

\* execute_user_command, whichever command it is, keeps pipes and controller typed.
LEMMA ExecuteUserCommandTyped ==
    ASSUME PipesTypeOK, ControllerTypeOK, ExecuteUserCommand
    PROVE  PipesTypeOK' /\ ControllerTypeOK'
<1> DEFINE end == files[CONTROLLER_ID][routing_table[user_command.dst].fd]
<1>1. user_command \in Requests
  BY DEF ExecuteUserCommand
<1>2. SendDown(down, end, user_command) \in [Devices -> Seq(Requests)]
  <2> HIDE DEF end
  <2> QED
    BY <1>1, ControllerStarts, SendDownIs
<1>3. Append(awaited, user_command) \in Seq(Requests)
  BY <1>1, ControllerStarts, AppendProperties
<1>4. down' \in [Devices -> Seq(Requests)] /\ awaited' \in Seq(Requests)
  BY <1>2, <1>3, ControllerStarts DEF ExecuteUserCommand
<1>5. /\ user_command' = NoRequest
      /\ UNCHANGED <<routing_table, exiting, blocked, shutdownVars, up, files, exit_code, fifos>>
  BY DEF ExecuteUserCommand
<1> HIDE DEF end
<1> QED
  BY <1>4, <1>5 DEF PipesTypeOK, ControllerTypeOK, shutdownVars, IsTable

\* The fork of an add keeps pipes and controller typed.
LEMMA AddForksTyped ==
    ASSUME PipesTypeOK, ControllerTypeOK, AddForks
    PROVE  PipesTypeOK' /\ ControllerTypeOK'
<1> DEFINE d == user_command.dst
<1>1. d \in Devices
  BY DEF AddForks, Absent
<1>2. PICK forked \in BOOLEAN :
          /\ exit_code' = IF forked THEN [exit_code EXCEPT ![d] = "starting"] ELSE exit_code
          /\ user_command' = IF forked THEN user_command ELSE NoRequest
  BY DEF AddForks
<1>3. /\ fifos' = fifos \cup {d}
      /\ UNCHANGED <<routing_table, exiting, blocked, shutdownVars, awaited, down, up, files>>
  BY DEF AddForks
<1> HIDE DEF d
<1>4. exit_code' \in [Devices \cup {CONTROLLER_ID} ->
                 {"absent", "starting", "none", "OK", "error", "signal", "missed"}]
  BY <1>1, <1>2, ControllerStarts
<1>5. fifos' \subseteq Devices /\ user_command' \in UserCommands \cup {NoRequest}
  BY <1>1, <1>2, <1>3, ControllerStarts
<1> QED
  BY <1>3, <1>4, <1>5 DEF PipesTypeOK, ControllerTypeOK, shutdownVars, IsTable

\* The new device is a child of the controller, of its own type.
LEMMA AddInsertsTyped ==
    ASSUME PipesTypeOK, ControllerTypeOK, AddInserts
    PROVE  PipesTypeOK' /\ ControllerTypeOK'
<1> DEFINE d == user_command.dst
           F == files[CONTROLLER_ID]
           fd == LowestFree(F)
           type == TypeOf(d)
<1>1. user_command.cmd = "add" /\ FreeFds(F) # {}
  BY DEF AddInserts
<1>2. d \in Devices
  BY <1>1, UserCommandsAre, ControllerStarts
<1>3. /\ routing_table' = InsertDirect(routing_table, d, type, CONTROLLER_ID, fd)
      /\ files' = [files EXCEPT ![CONTROLLER_ID] = OpenAt(F, fd, Down(d))]
      /\ user_command' = NoRequest
      /\ UNCHANGED <<exiting, blocked, shutdownVars, awaited, down, up, exit_code, fifos>>
  BY DEF AddInserts
<1>4. fd \in Fds /\ type \in OwnTypes(d) /\ CONTROLLER_ID \in Controls /\ Down(d) \in Ends
      /\ F \in [Fds -> Ends]
  BY <1>1, <1>2, LowestFreeIs, OwnTypesAre, Ids, EndsAre, ControllerStarts
<1> HIDE DEF d, F, fd, type
<1>5. IsTable(routing_table', Controls)
  BY <1>2, <1>3, <1>4, ControllerStarts, InsertDirectTyped
<1>6. files' \in [Controls -> [Fds -> Ends]]
  <2>1. OpenAt(F, fd, Down(d)) \in [Fds -> Ends]
    BY <1>4, OpenAtIs
  <2> QED
    BY <1>3, <2>1, ControllerStarts
<1> QED
  BY <1>3, <1>5, <1>6 DEF PipesTypeOK, ControllerTypeOK, shutdownVars

\* A device that starts keeps pipes and controller typed.
LEMMA DeviceStartsTyped ==
    ASSUME PipesTypeOK, ControllerTypeOK, NEW d \in Devices, DeviceStarts(d)
    PROVE  PipesTypeOK' /\ ControllerTypeOK'
<1>1. /\ exit_code' = [exit_code EXCEPT ![d] = "none"]
      /\ UNCHANGED <<controllerVars, down, up, files, fifos>>
  BY DEF DeviceStarts
<1> QED
  BY <1>1 DEF PipesTypeOK, ControllerTypeOK, controllerVars, shutdownVars, IsTable

\* A device that fails to start keeps pipes and controller typed.
LEMMA StartFailsTyped ==
    ASSUME PipesTypeOK, ControllerTypeOK, NEW d \in Devices, StartFails(d)
    PROVE  PipesTypeOK' /\ ControllerTypeOK'
<1>1. Exits(d, "error", up) /\ UNCHANGED <<controllerVars, fifos>>
  BY DEF StartFails
<1>2. fifos' \subseteq Devices
  BY <1>1, ControllerStarts
<1>3. PipesTypeOK'
  BY <1>1, <1>2, ControllerStarts, ExitsTyped
<1> QED
  BY <1>1, <1>3 DEF ControllerTypeOK, controllerVars, shutdownVars, IsTable

-----------------------------------------------------------------------------
(* Responses.                                                              *)

\* What is left of the requests awaited are requests.
LEMMA StillAwaitedTyped ==
    ASSUME PipesTypeOK, ControllerTypeOK, NEW r
    PROVE  StillAwaited(r) \in Seq(Requests)
<1> DEFINE matching == {i \in DOMAIN awaited : Answers(r, awaited[i])}
<1>1. awaited \in Seq(Requests) /\ matching \subseteq DOMAIN awaited
  BY ControllerStarts
<1>2. DOMAIN awaited \subseteq Nat
  BY <1>1
<1>3. StillAwaited(r) = IF matching = {} THEN awaited ELSE RemoveAt(awaited, Min(matching))
  BY DEF StillAwaited
<1> HIDE DEF matching
<1>4. ASSUME matching # {}
      PROVE  RemoveAt(awaited, Min(matching)) \in Seq(Requests)
  <2>1. Min(matching) \in DOMAIN awaited
    BY <1>1, <1>2, <1>4, MinIs
  <2> QED
    BY <1>1, <2>1, RemoveAtIs
<1> QED
  BY <1>1, <1>3, <1>4

\* A response read leaves the controller typed if what it makes of the table,
\* the descriptors and the pipes is.
LEMMA ReceivesTyped ==
    ASSUME PipesTypeOK, ControllerTypeOK, NEW r, NEW T, NEW F, NEW q, Receives(r, T, F, q),
           IsTable(T, Controls), F \in [Fds -> Ends], q \in [Devices -> Seq(Requests)],
           exiting' \subseteq Devices, blocked' \in BOOLEAN, force_exit' \in BOOLEAN,
           fifos' \subseteq Devices
    PROVE  PipesTypeOK' /\ ControllerTypeOK'
<1>1. /\ up[CONTROLLER_ID] # <<>>
      /\ up' = [up EXCEPT ![CONTROLLER_ID] = Tail(@)]
      /\ routing_table' = T
      /\ files' = [files EXCEPT ![CONTROLLER_ID] = F]
      /\ down' = q
      /\ awaited' = IF Parses(r) THEN StillAwaited(r) ELSE awaited
      /\ UNCHANGED <<user_command, signalled, pending_shutdown, reaped, exit_code>>
  BY DEF Receives
<1>2. awaited' \in Seq(Requests)
  BY <1>1, StillAwaitedTyped, ControllerStarts
<1>3. up' \in [Controls -> Seq(Responses)]
  <2>1. Tail(up[CONTROLLER_ID]) \in Seq(Responses)
    BY <1>1, ControllerStarts, TailTyped
  <2> QED
    BY <1>1, <2>1, ControllerStarts
<1>4. files' \in [Controls -> [Fds -> Ends]]
  BY <1>1, ControllerStarts
<1> QED
  BY <1>1, <1>2, <1>3, <1>4 DEF PipesTypeOK, ControllerTypeOK

\* A response that changes no table keeps pipes and controller typed.
LEMMA ChangesNothingTyped ==
    ASSUME PipesTypeOK, ControllerTypeOK, NEW r, ChangesNothing(r),
           exiting' \subseteq Devices, blocked' \in BOOLEAN, force_exit' \in BOOLEAN,
           fifos' \subseteq Devices
    PROVE  PipesTypeOK' /\ ControllerTypeOK'
<1>1. Receives(r, routing_table, files[CONTROLLER_ID], down)
  BY DEF ChangesNothing
<1> QED
  BY <1>1, ReceivesTyped, ControllerStarts

\* What leaves the exit and the names as they are leaves them typed.
LEMMA UnchangedExit ==
    ASSUME PipesTypeOK, ControllerTypeOK
    PROVE  /\ UNCHANGED exiting => exiting' \subseteq Devices
           /\ UNCHANGED blocked => blocked' \in BOOLEAN
           /\ UNCHANGED force_exit => force_exit' \in BOOLEAN
           /\ UNCHANGED fifos => fifos' \subseteq Devices
  BY ControllerStarts

\* A response that is read is one.
LEMMA ReadIsResponse ==
    ASSUME PipesTypeOK, ControllerTypeOK, NEW r \in First(up[CONTROLLER_ID])
    PROVE  r \in Responses
<1>1. r = Head(up[CONTROLLER_ID]) /\ up[CONTROLLER_ID] # <<>>
  BY DEF First
<1> QED
  BY <1>1, ControllerStarts, TailTyped

\* A response that is only shown keeps pipes and controller typed.
LEMMA ShowResponseTyped ==
    ASSUME PipesTypeOK, ControllerTypeOK, NEW r, ShowResponse(r)
    PROVE  PipesTypeOK' /\ ControllerTypeOK'
<1>1. ChangesNothing(r) /\ UNCHANGED <<exiting, blocked, force_exit, fifos>>
  BY DEF ShowResponse
<1> QED
  BY <1>1, ChangesNothingTyped, UnchangedExit

\* What is said of a link.
LEMMA LinkIs ==
    ASSUME NEW r \in Responses, NEW cmd \in Links, IsLinkUpdate(r, cmd)
    PROVE  /\ r.src \in Devices /\ r.args[2] \in OwnTypes(r.src)
           /\ cmd = "change_parent" => r.args[1] \in Controls
<1>1. r.cmd = cmd /\ r.code = "OK"
  BY DEF IsLinkUpdate
<1> QED
  BY <1>1, ResponseFields

\* An entry of which one field is another.
LEMMA EntryChanged ==
    ASSUME NEW P, NEW T, IsTable(T, P), NEW d \in DOMAIN T
    PROVE  /\ \A t \in OwnTypes(d) : IsTable([T EXCEPT ![d].type = t], P)
           /\ \A fd \in Fds : IsTable([T EXCEPT ![d].fd = fd], P)
<1>1. /\ DOMAIN T \subseteq Devices /\ T = [x \in DOMAIN T |-> T[x]]
      /\ \A x \in DOMAIN T : T[x] \in [type : OwnTypes(x), parent : P, fd : Fds]
  BY TableIs
<1>2. ASSUME NEW t \in OwnTypes(d)
      PROVE  IsTable([T EXCEPT ![d].type = t], P)
  <2> DEFINE U == [T EXCEPT ![d].type = t]
  <2>1. DOMAIN U = DOMAIN T /\ U = [x \in DOMAIN U |-> U[x]]
    BY <1>1
  <2>2. \A x \in DOMAIN U : U[x] \in [type : OwnTypes(x), parent : P, fd : Fds]
    BY <1>1
  <2> HIDE DEF U
  <2>3. IsTable(U, P)
    BY <1>1, <2>1, <2>2, MakesTable
  <2> QED
    BY <2>3 DEF U
<1>3. ASSUME NEW fd \in Fds
      PROVE  IsTable([T EXCEPT ![d].fd = fd], P)
  <2> DEFINE U == [T EXCEPT ![d].fd = fd]
  <2>1. DOMAIN U = DOMAIN T /\ U = [x \in DOMAIN U |-> U[x]]
    BY <1>1
  <2>2. \A x \in DOMAIN U : U[x] \in [type : OwnTypes(x), parent : P, fd : Fds]
    BY <1>1
  <2> HIDE DEF U
  <2>3. IsTable(U, P)
    BY <1>1, <2>1, <2>2, MakesTable
  <2> QED
    BY <2>3 DEF U
<1> QED
  BY <1>2, <1>3

\* The answer to remove child keeps pipes and controller typed.
LEMMA ChildRemovedTyped ==
    ASSUME PipesTypeOK, ControllerTypeOK, NEW r \in Responses, ChildRemoved(r)
    PROVE  PipesTypeOK' /\ ControllerTypeOK'
<1> DEFINE T == routing_table
           typed == [T EXCEPT ![r.src].type = r.args[2]]
           left == UpdateTypeToEmpty(typed, T[r.src].parent)
<1>1. UNCHANGED <<exiting, blocked, force_exit, fifos>>
  BY DEF ChildRemoved
<1>2. CASE r.src \notin DOMAIN T
  <2>1. ChangesNothing(r)
    BY <1>2 DEF ChildRemoved
  <2> QED
    BY <1>1, <2>1, ChangesNothingTyped, UnchangedExit
<1>3. CASE r.src \in DOMAIN T
  <2>1. Receives(r, left, files[CONTROLLER_ID], down) /\ IsLinkUpdate(r, "remove_child")
    BY <1>3 DEF ChildRemoved
  <2>2. IsTable(T, Controls)
    BY ControllerStarts
  <2>3. r.args[2] \in OwnTypes(r.src)
    BY <2>1, LinkIs DEF Links
  <2>4. IsTable(typed, Controls) /\ T[r.src].parent \in Controls
    <3>1. T[r.src].parent \in Controls
      BY <1>3, <2>2, TableIs
    <3> HIDE DEF T
    <3> QED
      BY <1>3, <2>2, <2>3, <3>1, EntryChanged
  <2> HIDE DEF T, typed
  <2>5. IsTable(left, Controls)
    BY <2>4, ToEmptyTyped
  <2> HIDE DEF left
  <2> QED
    BY <1>1, <2>1, <2>5, ReceivesTyped, UnchangedExit, ControllerStarts
<1> QED
  BY <1>2, <1>3

\* The answer to add child keeps pipes and controller typed.
LEMMA RouteRefreshedTyped ==
    ASSUME PipesTypeOK, ControllerTypeOK, NEW r \in Responses, RouteRefreshed(r)
    PROVE  PipesTypeOK' /\ ControllerTypeOK'
<1> DEFINE T == routing_table
           parent == T[r.src].parent
           U == [T EXCEPT ![r.src].fd = T[parent].fd]
<1>1. UNCHANGED <<exiting, blocked, force_exit, fifos>>
  BY DEF RouteRefreshed
<1>2. CASE ~(r.src \in DOMAIN T /\ parent \in DOMAIN T)
  <2>1. ChangesNothing(r)
    BY <1>2 DEF RouteRefreshed
  <2> QED
    BY <1>1, <2>1, ChangesNothingTyped, UnchangedExit
<1>3. CASE r.src \in DOMAIN T /\ parent \in DOMAIN T
  <2>1. Receives(r, U, files[CONTROLLER_ID], down)
    BY <1>3 DEF RouteRefreshed
  <2>2. IsTable(T, Controls)
    BY ControllerStarts
  <2>3. T[parent].fd \in Fds
    BY <1>3, <2>2, TableIs
  <2> HIDE DEF T, parent
  <2>4. IsTable(U, Controls)
    BY <1>3, <2>2, <2>3, EntryChanged
  <2> HIDE DEF U
  <2> QED
    BY <1>1, <2>1, <2>4, ReceivesTyped, UnchangedExit, ControllerStarts
<1> QED
  BY <1>2, <1>3

\* A device that has moved is entered below its new parent, and what is above
\* takes its type.
LEMMA MovedIsTable ==
    ASSUME NEW T, IsTable(T, Controls), NEW d \in DOMAIN T, NEW p \in Controls
    PROVE  IsTable(UpdateTypeToNotEmpty(InsertIndirect(T, d, T[d].type, p), d), Controls)
<1> DEFINE U == InsertIndirect(T, d, T[d].type, p)
<1>1. T[d].type \in OwnTypes(d) /\ d \in Devices
  BY TableIs
<1>2. IsTable(U, Controls)
  BY <1>1, InsertIndirectTyped
<1>3. d \in DOMAIN U
  BY DEF InsertIndirect, InsertRoute
<1> HIDE DEF U
<1>4. IsTable(UpdateTypeToNotEmpty(U, d), Controls)
  BY <1>2, <1>3, ToNotEmptyTyped
<1> QED
  BY <1>4 DEF U

\* The same below the controller.
LEMMA MovedDirectIsTable ==
    ASSUME NEW T, IsTable(T, Controls), NEW d \in DOMAIN T, NEW fd \in Fds
    PROVE  IsTable(UpdateTypeToNotEmpty(InsertDirect(T, d, T[d].type, CONTROLLER_ID, fd), d),
                   Controls)
<1> DEFINE U == InsertDirect(T, d, T[d].type, CONTROLLER_ID, fd)
<1>1. T[d].type \in OwnTypes(d) /\ d \in Devices /\ CONTROLLER_ID \in Controls
  BY TableIs, Ids
<1>2. IsTable(U, Controls)
  BY <1>1, InsertDirectTyped
<1>3. d \in DOMAIN U
  BY DEF InsertDirect, InsertRoute
<1> HIDE DEF U
<1>4. IsTable(UpdateTypeToNotEmpty(U, d), Controls)
  BY <1>2, <1>3, ToNotEmptyTyped
<1> QED
  BY <1>4 DEF U

\* What the old parent is told is a request.
LEMMA ToldToRemoveTyped ==
    ASSUME PipesTypeOK, NEW F, NEW old \in Devices, NEW d \in Devices
    PROVE  ToldToRemove(F, old, d) \in [Devices -> Seq(Requests)]
<1> DEFINE end == F[routing_table[old].fd]
           m == [dst |-> old, cmd |-> "remove_child", arg |-> d]
<1>1. m \in Requests
  BY RequestIs DEF Commands, Links, Registries
<1>2. ToldToRemove(F, old, d) = SendDown(down, end, m)
  BY DEF ToldToRemove
<1>3. down \in [Devices -> Seq(Requests)]
  BY DEF PipesTypeOK
<1> HIDE DEF end, m
<1> QED
  BY <1>1, <1>2, <1>3, SendDownIs

\* What the answer to change parent names: a device of the table and its new parent.
LEMMA MovedIs ==
    ASSUME PipesTypeOK, ControllerTypeOK, NEW r \in Responses, Moved(r)
    PROVE  /\ r.src \in DOMAIN routing_table /\ r.src \in Devices
           /\ r.args[1] \in Controls
           /\ routing_table[r.src].fd \in Fds
           /\ routing_table[r.src].parent \in Controls
<1>1. IsLinkUpdate(r, "change_parent") /\ r.src \in DOMAIN routing_table
  BY DEF Moved
<1>2. r.args[1] \in Controls
  BY <1>1, LinkIs DEF Links
<1> QED
  BY <1>1, <1>2, ControllerStarts, TableIs

\* A device that left the controller for another keeps pipes and controller typed.
LEMMA MovedAwayTyped ==
    ASSUME PipesTypeOK, ControllerTypeOK, NEW r \in Responses, MovedAway(r)
    PROVE  PipesTypeOK' /\ ControllerTypeOK'
<1> DEFINE T == routing_table
           F == files[CONTROLLER_ID]
           left == UpdateTypeToNotEmpty(InsertIndirect(T, r.src, T[r.src].type, r.args[1]),
                                        r.src)
           closed == Close(F, T[r.src].fd)
<1>1. UNCHANGED <<exiting, blocked, force_exit, fifos>> /\ Moved(r)
  BY DEF MovedAway
<1>2. CASE ~IsOpen(F, T[r.src].fd)
  <2>1. ChangesNothing(r)
    BY <1>2 DEF MovedAway
  <2> QED
    BY <1>1, <2>1, ChangesNothingTyped, UnchangedExit
<1>3. CASE IsOpen(F, T[r.src].fd)
  <2>1. Receives(r, left, closed, down)
    BY <1>3 DEF MovedAway
  <2>2. IsTable(left, Controls)
    BY <1>1, MovedIs, MovedIsTable, ControllerStarts
  <2>3. closed \in [Fds -> Ends]
    BY ControllerStarts, OpenAtIs, EndsAre
  <2> HIDE DEF left, closed
  <2> QED
    BY <1>1, <2>1, <2>2, <2>3, ReceivesTyped, UnchangedExit, ControllerStarts
<1> QED
  BY <1>2, <1>3

\* A device that came back to the controller keeps pipes and controller typed.
LEMMA MovedToControllerTyped ==
    ASSUME PipesTypeOK, ControllerTypeOK, NEW r \in Responses, MovedToController(r)
    PROVE  PipesTypeOK' /\ ControllerTypeOK'
<1> DEFINE T == routing_table
           F == files[CONTROLLER_ID]
           fd == LowestFree(F)
           old == T[r.src].parent
           left == UpdateTypeToNotEmpty(
                       InsertDirect(T, r.src, T[r.src].type, CONTROLLER_ID, fd), r.src)
           opened == OpenAt(F, fd, Down(r.src))
           q == ToldToRemove(opened, old, r.src)
<1>1. UNCHANGED <<exiting, force_exit, fifos>> /\ Moved(r)
  BY DEF MovedToController
<1>2. \/ ChangesNothing(r) /\ (blocked' = TRUE \/ UNCHANGED blocked)
      \/ /\ old \in DOMAIN T /\ DownOpens(F, r.src)
         /\ Receives(r, left, opened, q)
         /\ UNCHANGED blocked
  BY Zenon DEF MovedToController
<1>3. CASE ChangesNothing(r) /\ (blocked' = TRUE \/ UNCHANGED blocked)
  <2>1. blocked' \in BOOLEAN
    BY <1>3, UnchangedExit
  <2> QED
    BY <1>1, <1>3, <2>1, ChangesNothingTyped, UnchangedExit
<1>4. CASE /\ old \in DOMAIN T /\ DownOpens(F, r.src)
           /\ Receives(r, left, opened, q)
           /\ UNCHANGED blocked
  <2>1. fd \in Fds /\ r.src \in DOMAIN T /\ r.src \in Devices /\ old \in Devices
        /\ IsTable(T, Controls)
    <3>1. fd \in Fds
      BY <1>4, LowestFreeIs DEF DownOpens
    <3> QED
      BY <1>1, <1>4, <3>1, MovedIs, ControllerStarts
  <2>2. IsTable(left, Controls)
    <3> HIDE DEF fd, T
    <3> QED
      BY <2>1, MovedDirectIsTable
  <2>3. opened \in [Fds -> Ends]
    BY <2>1, ControllerStarts, OpenAtIs, EndsAre
  <2>4. q \in [Devices -> Seq(Requests)]
    <3> HIDE DEF opened, old
    <3> QED
      BY <2>1, ToldToRemoveTyped
  <2> HIDE DEF left, opened, q
  <2> QED
    BY <1>1, <1>4, <2>2, <2>3, <2>4, ReceivesTyped, UnchangedExit, ControllerStarts
<1> QED
  BY <1>2, <1>3, <1>4

\* A device that moved between two others keeps pipes and controller typed.
LEMMA MovedBetweenDevicesTyped ==
    ASSUME PipesTypeOK, ControllerTypeOK, NEW r \in Responses, MovedBetweenDevices(r)
    PROVE  PipesTypeOK' /\ ControllerTypeOK'
<1> DEFINE T == routing_table
           F == files[CONTROLLER_ID]
           old == T[r.src].parent
           left == UpdateTypeToNotEmpty(InsertIndirect(T, r.src, T[r.src].type, r.args[1]),
                                        r.src)
           q == ToldToRemove(F, old, r.src)
<1>1. UNCHANGED <<exiting, blocked, force_exit, fifos>> /\ Moved(r)
  BY DEF MovedBetweenDevices
<1>2. CASE old \notin DOMAIN T
  <2>1. ChangesNothing(r)
    BY <1>2 DEF MovedBetweenDevices
  <2> QED
    BY <1>1, <2>1, ChangesNothingTyped, UnchangedExit
<1>3. CASE old \in DOMAIN T
  <2>1. Receives(r, left, F, q)
    BY <1>3 DEF MovedBetweenDevices
  <2>2. IsTable(left, Controls)
    BY <1>1, MovedIs, MovedIsTable, ControllerStarts
  <2>3. F \in [Fds -> Ends]
    BY ControllerStarts
  <2>4. q \in [Devices -> Seq(Requests)]
    BY <1>1, <1>3, MovedIs, ControllerStarts, ToldToRemoveTyped
  <2> HIDE DEF left, F, q
  <2> QED
    BY <1>1, <2>1, <2>2, <2>3, <2>4, ReceivesTyped, UnchangedExit
<1> QED
  BY <1>2, <1>3

\* What is waited for after a deletion are devices.
LEMMA DeviceDeletedTyped ==
    ASSUME PipesTypeOK, ControllerTypeOK, NEW r \in Responses, DeviceDeleted(r)
    PROVE  PipesTypeOK' /\ ControllerTypeOK'
<1> DEFINE T == routing_table
           F == files[CONTROLLER_ID]
           entry == T[r.src]
           gone == {r.src} \cup Below(T, r.src)
           left == UpdateTypeToEmpty(RemoveRoute(T, r.src, entry.parent), entry.parent)
           G == IF entry.parent = CONTROLLER_ID THEN Close(F, entry.fd) ELSE F
<1>1. UNCHANGED blocked
  BY DEF DeviceDeleted
<1>2. CASE r.src \notin DOMAIN T
  <2>1. ChangesNothing(r) /\ UNCHANGED <<exiting, force_exit, fifos>>
    BY <1>2 DEF DeviceDeleted
  <2> QED
    BY <1>1, <2>1, ChangesNothingTyped, UnchangedExit
<1>3. CASE r.src \in DOMAIN T
  <2>1. /\ Receives(r, left, G, down)
        /\ fifos' = fifos \ gone
        /\ exiting' = {d \in gone : Alive(d)}
        /\ force_exit' = (pending_shutdown /\ Direct(left, CONTROLLER_ID) = {})
    BY <1>3, Zenon DEF DeviceDeleted
  <2>2. IsTable(T, Controls) /\ entry.parent \in Controls
    BY <1>3, ControllerStarts, TableIs
  <2>3. gone \subseteq Devices
    <3>1. DOMAIN T \subseteq Devices /\ IsFiniteSet(DOMAIN T)
      BY <2>2, TableIs
    <3>2. Below(T, r.src) \subseteq DOMAIN T
      BY <3>1, BelowIsClosed
    <3> HIDE DEF T
    <3> QED
      BY <1>3, <3>1, <3>2
  <2>4. G \in [Fds -> Ends]
    BY ControllerStarts, OpenAtIs, EndsAre
  <2>5. IsTable(left, Controls)
    <3> DEFINE U == RemoveRoute(T, r.src, entry.parent)
    <3>1. IsTable(U, Controls)
      BY <2>2, RemoveRouteTyped
    <3> HIDE DEF U
    <3>2. IsTable(UpdateTypeToEmpty(U, entry.parent), Controls)
      BY <2>2, <3>1, ToEmptyTyped
    <3> QED
      BY <3>2 DEF U
  <2>6. exiting' \subseteq Devices /\ force_exit' \in BOOLEAN /\ fifos' \subseteq Devices
    <3> HIDE DEF gone, left
    <3> QED
      BY <2>1, <2>3, ControllerStarts
  <2> HIDE DEF left, G
  <2> QED
    BY <1>1, <2>1, <2>4, <2>5, <2>6, ReceivesTyped, UnchangedExit, ControllerStarts
<1> QED
  BY <1>2, <1>3

\* A turn of responses_routine keeps pipes and controller typed.
LEMMA ReceiveResponseTyped ==
    ASSUME PipesTypeOK, ControllerTypeOK, ReceiveResponse
    PROVE  PipesTypeOK' /\ ControllerTypeOK'
<1>1. PICK r \in First(up[CONTROLLER_ID]) :
          \/ ShowResponse(r) \/ ChildRemoved(r) \/ RouteRefreshed(r) \/ MovedAway(r)
          \/ MovedToController(r) \/ MovedBetweenDevices(r) \/ DeviceDeleted(r)
  BY DEF ReceiveResponse
<1>2. r \in Responses
  BY ReadIsResponse
<1> QED
  BY <1>1, <1>2, ShowResponseTyped, ChildRemovedTyped, RouteRefreshedTyped, MovedAwayTyped,
     MovedToControllerTyped, MovedBetweenDevicesTyped, DeviceDeletedTyped

\* waitpid of the exited devices keeps pipes and controller typed.
LEMMA DevicesReapedTyped ==
    ASSUME PipesTypeOK, ControllerTypeOK, DevicesReaped
    PROVE  PipesTypeOK' /\ ControllerTypeOK'
  BY DEF DevicesReaped, PipesTypeOK, ControllerTypeOK, pipes, shutdownVars, IsTable

-----------------------------------------------------------------------------
(* Dead devices.                                                           *)

\* The states a burial goes through: the tables, as a set.
Tables ==
    {T \in UNION {[D -> [type : DeviceTypes, parent : Controls, fd : Fds]] :
                     D \in SUBSET Devices} : IsTable(T, Controls)}
Burials ==
    [table : Tables, files : [Fds -> Ends], down : [Devices -> Seq(Requests)],
     fifos : SUBSET Devices, signalled : SUBSET Devices]

\* The tables of the controller, as a set and as a predicate.
LEMMA TablesAre == \A T : T \in Tables <=> IsTable(T, Controls)
  BY DEF Tables, IsTable

\* One death takes the entry of the device and no other from the table, its
\* names and perhaps others' with it, and adds to the devices that have been
\* told to end.
LEMMA BuriedTyped ==
    ASSUME NEW V \in Burials, NEW d \in DOMAIN V.table
    PROVE  /\ Buried(V, d) \in Burials
           /\ DOMAIN Buried(V, d).table = DOMAIN V.table \ {d}
           /\ Buried(V, d).fifos \subseteq V.fifos \ {d}
           /\ V.signalled \subseteq Buried(V, d).signalled
<1> DEFINE T == V.table
           p == T[d].parent
           below == Below(T, d)
           left == [x \in DOMAIN T \ {d} |-> T[x]]
           U == UpdateTypeToEmpty(left, p)
           F == IF p = CONTROLLER_ID THEN Close(V.files, T[d].fd) ELSE V.files
           m == [dst |-> p, cmd |-> "remove_child", arg |-> d]
           q == IF p \in DOMAIN T THEN SendDown(V.down, V.files[T[d].fd], m) ELSE V.down
           n == V.fifos \ ({d} \cup below)
           s == V.signalled \cup {x \in below : Alive(x)}
<1>1. Buried(V, d) = [table |-> U, files |-> F, down |-> q, fifos |-> n, signalled |-> s]
  BY DEF Buried
<1>2. /\ V.files \in [Fds -> Ends] /\ V.down \in [Devices -> Seq(Requests)]
      /\ V.fifos \subseteq Devices /\ V.signalled \subseteq Devices
  BY DEF Burials
<1>3. IsTable(T, Controls)
  BY TablesAre DEF Burials
<1>4. /\ DOMAIN T \subseteq Devices /\ IsFiniteSet(DOMAIN T) /\ d \in Devices
      /\ p \in Controls
  BY <1>3, TableIs
<1>5. below \subseteq Devices
  <2>1. below \subseteq DOMAIN T
    BY <1>4, BelowIsClosed
  <2> HIDE DEF below
  <2> QED
    BY <1>4, <2>1
<1>6. IsTable(U, Controls) /\ DOMAIN U = DOMAIN T \ {d}
  <2>1. IsTable(left, Controls)
    <3> HIDE DEF T
    <3> QED
      BY <1>3, RestrictedIsTable
  <2>2. DOMAIN left = DOMAIN T \ {d}
    OBVIOUS
  <2> HIDE DEF left
  <2>3. IsTable(U, Controls) /\ DOMAIN U = DOMAIN left
    BY <1>4, <2>1, ToEmptyTyped
  <2> HIDE DEF U
  <2> QED
    BY <2>2, <2>3
<1>7. F \in [Fds -> Ends]
  BY <1>2, OpenAtIs, EndsAre
<1>8. q \in [Devices -> Seq(Requests)]
  <2>1. CASE p \in DOMAIN T
    <3>1. m \in Requests
      <4> HIDE DEF p
      <4> QED
        BY <1>4, <2>1, RequestIs DEF Commands, Links, Registries
    <3> DEFINE end == V.files[T[d].fd]
    <3>2. q = SendDown(V.down, end, m)
      BY <2>1
    <3> HIDE DEF end, m, q
    <3> QED
      BY <1>2, <3>1, <3>2, SendDownIs
  <2>2. CASE p \notin DOMAIN T
    BY <1>2, <2>2
  <2> QED
    BY <2>1, <2>2
<1>9. /\ n \subseteq Devices /\ s \subseteq Devices /\ V.signalled \subseteq s
      /\ n \subseteq V.fifos \ {d}
  <2> HIDE DEF below
  <2> QED
    BY <1>2, <1>5
<1>10. U \in Tables
  <2> HIDE DEF U
  <2> QED
    BY <1>6, TablesAre
<1> HIDE DEF U, F, q, n, s
<1> QED
  BY <1>1, <1>6, <1>7, <1>8, <1>9, <1>10 DEF Burials

\* The devices that have died, in the order of their ids.
LEMMA DeadAre ==
    ASSUME PipesTypeOK, ControllerTypeOK
    PROVE  LET D == {d \in DOMAIN routing_table : DiedWithError(d)}
               dead == InIdOrder(D)
           IN  /\ Len(dead) \in Nat /\ DOMAIN dead = 1 .. Len(dead)
               /\ \A n \in 1 .. Len(dead) : dead[n] \in D
               /\ \A i, j \in 1 .. Len(dead) : i # j => dead[i] # dead[j]
               /\ \A d \in D : \E n \in 1 .. Len(dead) : dead[n] = d
<1> DEFINE D == {d \in DOMAIN routing_table : DiedWithError(d)}
           dead == InIdOrder(D)
<1>1. DOMAIN routing_table \subseteq Nat /\ IsFiniteSet(DOMAIN routing_table)
  BY ControllerStarts, TableIs
<1>2. D \in SUBSET Nat /\ IsFiniteSet(D)
  BY <1>1, FS_Subset
<1> HIDE DEF D
<1>3. /\ dead \in Seq(D)
      /\ \A i, j \in DOMAIN dead : i # j => dead[i] # dead[j]
      /\ \A x \in D : \E i \in DOMAIN dead : dead[i] = x
  BY <1>2, InIdOrderIs
<1> HIDE DEF dead
<1>4. Len(dead) \in Nat /\ DOMAIN dead = 1 .. Len(dead)
  BY <1>3
<1>5. \A n \in 1 .. Len(dead) : dead[n] \in D
  BY <1>3, <1>4
<1>6. /\ Len(dead) \in Nat /\ DOMAIN dead = 1 .. Len(dead)
      /\ \A n \in 1 .. Len(dead) : dead[n] \in D
      /\ \A i, j \in 1 .. Len(dead) : i # j => dead[i] # dead[j]
      /\ \A d \in D : \E n \in 1 .. Len(dead) : dead[n] = d
  BY <1>3, <1>4, <1>5
<1> QED
  BY <1>6 DEF dead, D

\* A SIGCHLD thread takes the dead from the table and nothing else, and leaves
\* the names of none of them.
THEOREM SigchldBuries ==
    ASSUME PipesTypeOK, ControllerTypeOK, SigchldRoutine
    PROVE  /\ IsTable(routing_table', Controls)
           /\ DOMAIN routing_table' = {d \in DOMAIN routing_table : ~DiedWithError(d)}
           /\ files' = [files EXCEPT ![CONTROLLER_ID] = files'[CONTROLLER_ID]]
           /\ files'[CONTROLLER_ID] \in [Fds -> Ends]
           /\ down' \in [Devices -> Seq(Requests)]
           /\ fifos' \subseteq Devices /\ signalled \subseteq signalled'
           /\ signalled' \subseteq Devices
           /\ fifos' \subseteq fifos
           /\ fifos' \cap DOMAIN routing_table \subseteq DOMAIN routing_table'
<1> DEFINE T == routing_table
           dead == InIdOrder({d \in DOMAIN T : DiedWithError(d)})
           N == Len(dead)
           found == [table |-> T, files |-> files[CONTROLLER_ID],
                     down |-> down, fifos |-> fifos, signalled |-> signalled]
           E(n, s) == CHOOSE R \in {Buried(V, dead[n]) : V \in {s}} : TRUE
           D(f) == f = [n \in 0 .. N |-> IF n = 0 THEN found ELSE E(n, f[n - 1])]
           buried == CHOOSE f : D(f)
           step == [n \in 1 .. N |-> [V \in Burials |->
                       IF dead[n] \in DOMAIN V.table THEN Buried(V, dead[n]) ELSE V]]
           gone(n) == {dead[i] : i \in 1 .. n}
<1>1. /\ routing_table' = buried[N].table
      /\ files' = [files EXCEPT ![CONTROLLER_ID] = buried[N].files]
      /\ down' = buried[N].down
      /\ fifos' = buried[N].fifos
      /\ signalled' = buried[N].signalled
  BY DEF SigchldRoutine
<1>2. /\ N \in Nat
      /\ \A n \in 1 .. N : dead[n] \in DOMAIN T /\ DiedWithError(dead[n])
      /\ \A i, j \in 1 .. N : i # j => dead[i] # dead[j]
      /\ \A d \in DOMAIN T : DiedWithError(d) => \E n \in 1 .. N : dead[n] = d
  BY DeadAre
<1>3. \A n, s : E(n, s) = Buried(s, dead[n])
  OBVIOUS
<1>4. found \in Burials /\ found.table = T /\ found.fifos = fifos /\ found.signalled = signalled
  <2>1. T \in Tables
    BY ControllerStarts, TablesAre
  <2> QED
    BY <2>1, ControllerStarts DEF Burials
<1> HIDE DEF dead, N, found, E, T
<1>5. step \in [1 .. N -> [Burials -> Burials]]
  <2>1. ASSUME NEW n \in 1 .. N, NEW V \in Burials, dead[n] \in DOMAIN V.table
        PROVE  Buried(V, dead[n]) \in Burials
    BY <2>1, BuriedTyped
  <2> QED
    BY <2>1
<1>6. PICK g : IsIteration(g, N, Burials, found, step)
  <2> HIDE DEF step
  <2> QED
    BY <1>2, <1>4, <1>5, Iteration
<1>7. g \in [0 .. N -> Burials] /\ g[0] = found /\ \A n \in 1 .. N : g[n] = step[n][g[n - 1]]
  BY <1>6 DEF IsIteration
<1>8. \A n \in 1 .. N : g[n - 1] \in Burials
  <2>1. \A n \in 1 .. N : n - 1 \in 0 .. N
    BY <1>2
  <2> QED
    BY <1>7, <2>1
<1> DEFINE P == {n \in 0 .. N : /\ DOMAIN g[n].table = DOMAIN T \ gone(n)
                                /\ g[n].fifos \subseteq fifos \ gone(n)
                                /\ signalled \subseteq g[n].signalled}
<1>9. 0 \in P
  <2>1. gone(0) = {} /\ 0 \in 0 .. N
    BY <1>2
  <2> HIDE DEF gone
  <2> QED
    BY <1>4, <1>7, <2>1
<1>10. ASSUME NEW n \in 1 .. N, n - 1 \in P
       PROVE  n \in P /\ g[n] = Buried(g[n - 1], dead[n])
  <2>1. n \in 0 .. N /\ n - 1 \in 0 .. N /\ n \in Nat
    BY <1>2
  <2>2. /\ DOMAIN g[n - 1].table = DOMAIN T \ gone(n - 1)
        /\ g[n - 1].fifos \subseteq fifos \ gone(n - 1)
        /\ signalled \subseteq g[n - 1].signalled
    BY <1>10
  <2>3. dead[n] \notin gone(n - 1)
    BY <1>2, <2>1
  <2>4. dead[n] \in DOMAIN g[n - 1].table
    <3> HIDE DEF gone
    <3> QED
      BY <1>2, <2>2, <2>3
  <2>5. g[n] = Buried(g[n - 1], dead[n])
    BY <1>7, <1>8, <2>4
  <2>6. /\ DOMAIN Buried(g[n - 1], dead[n]).table = DOMAIN g[n - 1].table \ {dead[n]}
        /\ Buried(g[n - 1], dead[n]).fifos \subseteq g[n - 1].fifos \ {dead[n]}
        /\ g[n - 1].signalled \subseteq Buried(g[n - 1], dead[n]).signalled
    BY <1>8, <2>4, BuriedTyped
  <2>7. gone(n) = gone(n - 1) \cup {dead[n]}
    <3>1. 1 .. n = (1 .. n - 1) \cup {n}
      BY <2>1
    <3> QED
      BY <3>1
  <2> HIDE DEF gone, step
  <2> QED
    BY <2>1, <2>2, <2>5, <2>6, <2>7
<1>11. 0 .. N \subseteq P
  <2> HIDE DEF P
  <2> QED
    BY <1>2, <1>9, <1>10, InductTo
<1>12. \A n \in 1 .. N : n - 1 \in P
  <2>1. \A n \in 1 .. N : n - 1 \in 0 .. N
    BY <1>2
  <2> HIDE DEF P
  <2> QED
    BY <1>11, <2>1
<1>13. \A n \in 1 .. N : g[n] = E(n, g[n - 1])
  <2> HIDE DEF P
  <2> QED
    BY <1>3, <1>10, <1>12
<1>14. D(g)
  <2>1. ASSUME NEW n \in 0 .. N
        PROVE  g[n] = IF n = 0 THEN found ELSE E(n, g[n - 1])
    <3>1. CASE n = 0
      BY <1>7, <3>1
    <3>2. CASE n # 0
      <4>1. n \in 1 .. N
        BY <1>2, <3>2
      <4> QED
        BY <1>13, <3>2, <4>1
    <3> QED
      BY <3>1, <3>2
  <2> HIDE DEF step, P
  <2> QED
    BY <1>7, <2>1
<1> HIDE DEF D, P, gone, step
<1>15. D(buried)
  BY <1>14
<1> HIDE DEF buried
<1>16. buried = [n \in 0 .. N |-> IF n = 0 THEN found ELSE E(n, buried[n - 1])]
  BY <1>15 DEF D
<1> DEFINE Q == {n \in 0 .. N : buried[n] = g[n]}
<1>17. 0 \in Q
  BY <1>2, <1>7, <1>16
<1>18. \A n \in 1 .. N : n - 1 \in Q => n \in Q
  <2> SUFFICES ASSUME NEW n \in 1 .. N, n - 1 \in Q PROVE n \in Q
    OBVIOUS
  <2>1. n \in 0 .. N /\ n # 0
    BY <1>2
  <2>2. buried[n] = E(n, buried[n - 1])
    BY <1>16, <2>1
  <2> QED
    BY <1>13, <2>1, <2>2
<1>19. 0 .. N \subseteq Q
  <2> HIDE DEF Q
  <2> QED
    BY <1>2, <1>17, <1>18, InductTo
<1>20. N \in 0 .. N
  BY <1>2
<1>21. buried[N] = g[N] /\ g[N] \in Burials
  BY <1>7, <1>19, <1>20
<1>22. /\ DOMAIN g[N].table = DOMAIN T \ gone(N) /\ signalled \subseteq g[N].signalled
       /\ g[N].fifos \subseteq fifos \ gone(N)
  BY <1>11, <1>20 DEF P
<1>23. DOMAIN T \ gone(N) = {d \in DOMAIN T : ~DiedWithError(d)}
  BY <1>2 DEF gone
<1> HIDE DEF Q
<1>24. /\ IsTable(buried[N].table, Controls) /\ buried[N].files \in [Fds -> Ends]
       /\ buried[N].down \in [Devices -> Seq(Requests)]
       /\ buried[N].fifos \subseteq Devices /\ buried[N].signalled \subseteq Devices
  <2>1. buried[N].table \in Tables
    BY <1>21 DEF Burials
  <2> QED
    BY <1>21, <2>1, TablesAre DEF Burials
<1>25. files'[CONTROLLER_ID] = buried[N].files
  BY <1>1, ControllerStarts, Ids
<1>26. DOMAIN routing_table' = {d \in DOMAIN routing_table : ~DiedWithError(d)}
  BY <1>1, <1>21, <1>22, <1>23 DEF T
<1>27. fifos' \subseteq fifos /\ fifos' \cap DOMAIN routing_table \subseteq DOMAIN routing_table'
  BY <1>1, <1>21, <1>22 DEF T
<1> QED
  BY <1>1, <1>21, <1>22, <1>24, <1>25, <1>26, <1>27

\* A turn of sigchld_routine keeps pipes and controller typed.
LEMMA SigchldRoutineTyped ==
    ASSUME PipesTypeOK, ControllerTypeOK, SigchldRoutine
    PROVE  PipesTypeOK' /\ ControllerTypeOK'
<1>1. PICK missed :
          exit_code' = [p \in DOMAIN exit_code |-> IF p \in missed THEN "missed" ELSE exit_code[p]]
  BY DEF SigchldRoutine
<1>2. reaped' = TRUE
      /\ UNCHANGED <<user_command, exiting, blocked, pending_shutdown, force_exit, awaited, up>>
  BY DEF SigchldRoutine
<1>3. exit_code' \in [Devices \cup {CONTROLLER_ID} ->
                 {"absent", "starting", "none", "OK", "error", "signal", "missed"}]
  BY <1>1, ControllerStarts
<1>4. files' \in [Controls -> [Fds -> Ends]]
  BY SigchldBuries, ControllerStarts
<1> QED
  BY <1>2, <1>3, <1>4, SigchldBuries DEF PipesTypeOK, ControllerTypeOK

-----------------------------------------------------------------------------
(* Exit.                                                                   *)

\* Every direct child is sent a delete request.
LEMMA ExecuteExitTyped ==
    ASSUME PipesTypeOK, ControllerTypeOK, ExecuteExit
    PROVE  PipesTypeOK' /\ ControllerTypeOK'
<1> DEFINE T == routing_table
           children == InIdOrder(Direct(T, CONTROLLER_ID))
           N == Len(children)
           S == [Devices -> Seq(Requests)]
           E(n, q) == SendDown(q, files[CONTROLLER_ID][T[children[n]].fd],
                         [dst |-> children[n], cmd |-> "delete", arg |-> CONTROLLER_ID])
           D(f) == f = [n \in 0 .. N |-> IF n = 0 THEN down ELSE E(n, f[n - 1])]
           sent == CHOOSE f : D(f)
           step == [n \in 1 .. N |-> [q \in S |-> E(n, q)]]
<1>1. /\ down' = sent[N]
      /\ force_exit' = (children = <<>>)
      /\ pending_shutdown' = (pending_shutdown \/ children # <<>>)
      /\ user_command' = NoRequest
      /\ UNCHANGED <<routing_table, exiting, blocked, signalled, reaped, awaited,
                     up, files, exit_code, fifos>>
  BY DEF ExecuteExit
<1>2. N \in Nat /\ \A n \in 1 .. N : children[n] \in Devices
  <2>1. DOMAIN T \subseteq Devices /\ DOMAIN T \subseteq Nat /\ IsFiniteSet(DOMAIN T)
    BY ControllerStarts, TableIs
  <2>2. Direct(T, CONTROLLER_ID) \in SUBSET Nat /\ IsFiniteSet(Direct(T, CONTROLLER_ID))
        /\ Direct(T, CONTROLLER_ID) \subseteq Devices
    BY <2>1, FS_Subset DEF Direct
  <2>3. children \in Seq(Direct(T, CONTROLLER_ID))
    BY <2>2, InIdOrderIs
  <2> HIDE DEF children
  <2>4. children \in Seq(Devices)
    BY <2>2, <2>3
  <2> QED
    BY <2>4
<1>3. force_exit' \in BOOLEAN /\ pending_shutdown' \in BOOLEAN
  <2>1. pending_shutdown \in BOOLEAN
    BY ControllerStarts
  <2> HIDE DEF children
  <2> QED
    BY <1>1, <2>1
<1> HIDE DEF children
<1>4. \A n \in 1 .. N : \A q \in S : E(n, q) \in S
  <2> SUFFICES ASSUME NEW n \in 1 .. N, NEW q \in S PROVE E(n, q) \in S
    OBVIOUS
  <2> DEFINE m == [dst |-> children[n], cmd |-> "delete", arg |-> CONTROLLER_ID]
             end == files[CONTROLLER_ID][T[children[n]].fd]
  <2>1. m \in Requests
    BY <1>2, RequestIs DEF Commands, Links, Registries
  <2> HIDE DEF m, end
  <2>2. SendDown(q, end, m) \in S
    BY <2>1, SendDownIs
  <2> QED
    BY <2>2 DEF m, end
<1>5. down \in S
  BY ControllerStarts
<1> HIDE DEF N, E, S
<1>6. step \in [1 .. N -> [S -> S]]
  BY <1>4
<1>7. PICK g : IsIteration(g, N, S, down, step)
  <2> HIDE DEF step
  <2> QED
    BY <1>2, <1>5, <1>6, Iteration
<1>8. g \in [0 .. N -> S] /\ g[0] = down /\ \A n \in 1 .. N : g[n] = step[n][g[n - 1]]
  BY <1>7 DEF IsIteration
<1>9. \A n \in 1 .. N : g[n - 1] \in S
  <2>1. \A n \in 1 .. N : n - 1 \in 0 .. N
    BY <1>2
  <2> QED
    BY <1>8, <2>1
<1>10. D(g)
  <2>1. ASSUME NEW n \in 0 .. N
        PROVE  g[n] = IF n = 0 THEN down ELSE E(n, g[n - 1])
    <3>1. CASE n = 0
      BY <1>8, <3>1
    <3>2. CASE n # 0
      <4>1. n \in 1 .. N
        BY <1>2, <3>2
      <4>2. g[n] = step[n][g[n - 1]] /\ g[n - 1] \in S
        BY <1>8, <1>9, <4>1
      <4>3. g[n] = E(n, g[n - 1])
        BY <4>1, <4>2
      <4> QED
        BY <3>2, <4>3
    <3> QED
      BY <3>1, <3>2
  <2> HIDE DEF step
  <2> QED
    BY <1>8, <2>1
<1> HIDE DEF D
<1>11. D(sent)
  BY <1>10
<1> HIDE DEF sent
<1>12. sent = [n \in 0 .. N |-> IF n = 0 THEN down ELSE E(n, sent[n - 1])]
  BY <1>11 DEF D
<1> DEFINE P == {n \in 0 .. N : sent[n] \in S}
<1>13. 0 \in P
  BY <1>2, <1>5, <1>12
<1>14. \A n \in 1 .. N : n - 1 \in P => n \in P
  <2> SUFFICES ASSUME NEW n \in 1 .. N, n - 1 \in P PROVE n \in P
    OBVIOUS
  <2>1. n \in 0 .. N /\ n # 0
    BY <1>2
  <2>2. sent[n] = E(n, sent[n - 1])
    BY <1>12, <2>1
  <2> QED
    BY <1>4, <2>1, <2>2
<1>15. 0 .. N \subseteq P
  <2> HIDE DEF P
  <2> QED
    BY <1>2, <1>13, <1>14, InductTo
<1>16. N \in 0 .. N
  BY <1>2
<1>17. down' \in S
  BY <1>1, <1>15, <1>16
<1> HIDE DEF P
<1> QED
  BY <1>1, <1>3, <1>17 DEF S, PipesTypeOK, ControllerTypeOK, IsTable

\* What an exit terminates, and takes the names of, are devices.
LEMMA ShutdownTyped ==
    ASSUME PipesTypeOK, ControllerTypeOK, Shutdown,
           UNCHANGED user_command \/ user_command' = NoRequest, reaped' \in BOOLEAN
    PROVE  PipesTypeOK' /\ ControllerTypeOK'
<1> DEFINE devices == Range(Walk(routing_table, CONTROLLER_ID))
<1>1. devices \subseteq Devices
  <2>1. Range(Walk(routing_table, CONTROLLER_ID)) = Below(routing_table, CONTROLLER_ID)
    BY ControllerStarts, TableIs, WalkListsBelow
  <2>2. Below(routing_table, CONTROLLER_ID) \subseteq DOMAIN routing_table
    BY ControllerStarts, TableIs, BelowIsClosed
  <2> QED
    BY <2>1, <2>2, ControllerStarts
<1>2. /\ Exits(CONTROLLER_ID, "OK", up)
      /\ fifos' = fifos \ devices
      /\ signalled' = signalled \cup {d \in devices : Alive(d)}
      /\ UNCHANGED <<routing_table, exiting, blocked, pending_shutdown, force_exit, awaited>>
  BY DEF Shutdown
<1> HIDE DEF devices
<1>3. fifos' \subseteq Devices /\ signalled' \subseteq Devices
  BY <1>1, <1>2, ControllerStarts
<1>4. PipesTypeOK'
  BY <1>2, <1>3, ControllerStarts, ExitsTyped
<1> QED
  BY <1>2, <1>3, <1>4 DEF ControllerTypeOK, IsTable

\* The end of the controller keeps pipes and controller typed.
LEMMA ControllerExitsTyped ==
    ASSUME PipesTypeOK, ControllerTypeOK, ControllerExits
    PROVE  PipesTypeOK' /\ ControllerTypeOK'
<1>1. Shutdown /\ UNCHANGED <<user_command, reaped>>
  BY DEF ControllerExits
<1> QED
  BY <1>1, ShutdownTyped, ControllerStarts

\* The end of the input keeps pipes and controller typed.
LEMMA InputEndsTyped ==
    ASSUME PipesTypeOK, ControllerTypeOK, InputEnds
    PROVE  PipesTypeOK' /\ ControllerTypeOK'
<1>1. Shutdown /\ user_command' = NoRequest /\ UNCHANGED reaped
  BY DEF InputEnds
<1> QED
  BY <1>1, ShutdownTyped, ControllerStarts

\* Taking stock of the devices at a SIGCHLD keeps pipes and controller typed.
LEMMA SigchldChecksTyped ==
    ASSUME PipesTypeOK, ControllerTypeOK, SigchldChecks
    PROVE  PipesTypeOK' /\ ControllerTypeOK'
<1>1. reaped' = FALSE
  BY DEF SigchldChecks
<1>2. CASE Shutdown /\ UNCHANGED user_command
  BY <1>1, <1>2, ShutdownTyped
<1>3. CASE UNCHANGED <<routing_table, user_command, exiting, blocked, signalled,
                       pending_shutdown, force_exit, awaited, pipes>>
  BY <1>1, <1>3 DEF PipesTypeOK, ControllerTypeOK, pipes, IsTable
<1> QED
  BY <1>2, <1>3 DEF SigchldChecks

-----------------------------------------------------------------------------
(* What the check of a link is for.                                        *)

\* check_user_command lets a link pass only if the branch may move there.
LEMMA AllowedMayMove ==
    ASSUME NEW T, NEW c, LinkAllowed(T, c)
    PROVE  MayMove(T, CONTROLLER_ID, c.dst, c.arg)
<1>1. /\ c.dst # c.arg
      /\ c.arg # CONTROLLER_ID =>
            /\ c.arg \in DOMAIN T
            /\ \A p \in Range(Upwards(T, c.arg)) :
                  /\ T[p].parent # c.dst
                  /\ \/ IsEmpty(T[c.dst].type) \/ IsEmpty(T[p].type)
                     \/ ChildType(T[c.dst].type) = ChildType(T[p].type)
  BY DEF LinkAllowed
<1> QED
  BY <1>1 DEF MayMove

\* A link that check_user_command lets pass, entered into the table it was
\* checked against as update_with_change_parent_response does, leaves every
\* entry to be found by walking down from the controller, and of the type of
\* what is above it: no cycle, no orphan and no hub of two kinds of leaves.
THEOREM AllowedLinkKeepsSound ==
    ASSUME NEW T, IsTable(T, Controls), IsSound(T, CONTROLLER_ID),
           NEW c, c.dst \in DOMAIN T, c.arg \in Controls, LinkAllowed(T, c),
           NEW fd \in Fds
    PROVE  LET type == T[c.dst].type
               direct == InsertDirect(T, c.dst, type, CONTROLLER_ID, fd)
               indirect == InsertIndirect(T, c.dst, type, c.arg)
           IN  /\ c.arg = CONTROLLER_ID =>
                     IsSound(UpdateTypeToNotEmpty(direct, c.dst), CONTROLLER_ID)
               /\ c.arg # CONTROLLER_ID =>
                     IsSound(UpdateTypeToNotEmpty(indirect, c.dst), CONTROLLER_ID)
<1> DEFINE d == c.dst
           a == c.arg
           direct == InsertDirect(T, d, T[d].type, CONTROLLER_ID, fd)
           indirect == InsertIndirect(T, d, T[d].type, a)
<1>1. IsRouting(T) /\ CONTROLLER_ID \notin DOMAIN T /\ d \in Devices /\ T[d].type \in OwnTypes(d)
  BY TableIs, Ids
<1>2. MayMove(T, CONTROLLER_ID, d, a)
  BY AllowedMayMove
<1>3. ASSUME NEW U, IsTable(U, Controls), NEW n \in Fds,
             U = InsertRoute(T, d, [type |-> T[d].type, parent |-> a, fd |-> n])
      PROVE  IsSound(UpdateTypeToNotEmpty(U, d), CONTROLLER_ID)
  <2>1. DOMAIN U = DOMAIN T
    BY <1>3 DEF InsertRoute
  <2>2. \A x \in DOMAIN T \ {d} : U[x].parent = T[x].parent /\ U[x].type = T[x].type
    BY <1>3 DEF InsertRoute
  <2>3. U[d].parent = a /\ U[d].type = T[d].type
    BY <1>3 DEF InsertRoute
  <2>4. IsRouting(U)
    BY <1>3, TableIs
  <2> HIDE DEF d, a
  <2> QED
    BY <1>1, <1>2, <2>1, <2>2, <2>3, <2>4, MoveKeepsSound DEF d, a
<1>4. ASSUME a = CONTROLLER_ID
      PROVE  IsSound(UpdateTypeToNotEmpty(direct, d), CONTROLLER_ID)
  <2>1. IsTable(direct, Controls)
    BY <1>1, Ids, InsertDirectTyped
  <2>2. direct = InsertRoute(T, d, [type |-> T[d].type, parent |-> a, fd |-> fd])
    BY <1>4 DEF InsertDirect
  <2> HIDE DEF direct, d, a
  <2> QED
    BY <1>3, <2>1, <2>2
<1>5. ASSUME a # CONTROLLER_ID
      PROVE  IsSound(UpdateTypeToNotEmpty(indirect, d), CONTROLLER_ID)
  <2>1. IsTable(indirect, Controls)
    BY <1>1, InsertIndirectTyped
  <2>2. a \in DOMAIN T
    BY <1>2, <1>5 DEF MayMove
  <2>3. T[a].fd \in Fds
    BY <2>2, TableIs
  <2>4. indirect = InsertRoute(T, d, [type |-> T[d].type, parent |-> a, fd |-> T[a].fd])
    BY <2>2 DEF InsertIndirect
  <2> HIDE DEF indirect, d, a
  <2> QED
    BY <1>3, <2>1, <2>3, <2>4
<1> QED
  BY <1>4, <1>5

\* The answer to a link that the controller's table still allows, and the
\* deletion of a device at any time, leave that table sound.
THEOREM ResponsesKeepSound ==
    ASSUME PipesTypeOK, ControllerTypeOK, IsSound(routing_table, CONTROLLER_ID),
           NEW r \in Responses
    PROVE  /\ /\ MovedAway(r) \/ MovedToController(r) \/ MovedBetweenDevices(r)
              /\ LinkAllowed(routing_table,
                     [dst |-> r.src, cmd |-> "change_parent", arg |-> r.args[1]])
              => IsSound(routing_table, CONTROLLER_ID)'
           /\ DeviceDeleted(r) => IsSound(routing_table, CONTROLLER_ID)'
<1> DEFINE T == routing_table
           d == r.src
           a == r.args[1]
           c == [dst |-> d, cmd |-> "change_parent", arg |-> a]
           fd == LowestFree(files[CONTROLLER_ID])
           direct == UpdateTypeToNotEmpty(
                         InsertDirect(T, d, T[d].type, CONTROLLER_ID, fd), d)
           indirect == UpdateTypeToNotEmpty(InsertIndirect(T, d, T[d].type, a), d)
<1>1. IsTable(T, Controls)
  BY ControllerStarts
<1>2. ASSUME MovedAway(r) \/ MovedToController(r) \/ MovedBetweenDevices(r)
      PROVE  \/ routing_table' = T
             \/ routing_table' = direct /\ a = CONTROLLER_ID /\ fd \in Fds
             \/ routing_table' = indirect /\ a # CONTROLLER_ID
  <2>1. CASE MovedAway(r)
    <3>1. Moved(r) /\ T[d].parent = CONTROLLER_ID
      BY <2>1 DEF MovedAway
    <3>2. a # CONTROLLER_ID
      BY <3>1 DEF Moved
    <3>3. routing_table' = T \/ routing_table' = indirect
      BY <2>1 DEF MovedAway, ChangesNothing, Receives
    <3> QED
      BY <3>2, <3>3
  <2>2. CASE MovedToController(r)
    <3>1. a = CONTROLLER_ID
      BY <2>2 DEF MovedToController
    <3>2. routing_table' = T \/ (routing_table' = direct /\ DownOpens(files[CONTROLLER_ID], d))
      BY <2>2 DEF MovedToController, ChangesNothing, Receives
    <3>3. DownOpens(files[CONTROLLER_ID], d) => fd \in Fds
      BY LowestFreeIs DEF DownOpens
    <3> QED
      BY <3>1, <3>2, <3>3
  <2>3. CASE MovedBetweenDevices(r)
    <3>1. a # CONTROLLER_ID
      BY <2>3 DEF MovedBetweenDevices
    <3>2. routing_table' = T \/ routing_table' = indirect
      BY <2>3 DEF MovedBetweenDevices, ChangesNothing, Receives
    <3> QED
      BY <3>1, <3>2
  <2> QED
    BY <1>2, <2>1, <2>2, <2>3
<1>3. ASSUME MovedAway(r) \/ MovedToController(r) \/ MovedBetweenDevices(r),
             LinkAllowed(T, c)
      PROVE  IsSound(routing_table', CONTROLLER_ID)
  <2>1. Moved(r)
    BY <1>3 DEF MovedAway, MovedToController, MovedBetweenDevices
  <2>2. d \in DOMAIN T /\ a \in Controls
    BY <2>1, MovedIs
  <2>3. CASE routing_table' = T
    BY <2>3
  <2>4. CASE routing_table' = direct /\ a = CONTROLLER_ID /\ fd \in Fds
    <3>1. c.dst = d /\ c.arg = a
      OBVIOUS
    <3> HIDE DEF c, d, a, fd, T
    <3>2. IsSound(UpdateTypeToNotEmpty(
                      InsertDirect(T, d, T[d].type, CONTROLLER_ID, fd), d), CONTROLLER_ID)
      BY <1>1, <1>3, <2>2, <2>4, <3>1, AllowedLinkKeepsSound DEF T
    <3> QED
      BY <2>4, <3>2
  <2>5. CASE routing_table' = indirect /\ a # CONTROLLER_ID
    <3>1. c.dst = d /\ c.arg = a
      OBVIOUS
    <3>2. T[d].fd \in Fds
      BY <1>1, <2>2, TableIs
    <3> HIDE DEF c, d, a, fd, T
    <3>3. IsSound(UpdateTypeToNotEmpty(
                      InsertIndirect(T, d, T[d].type, a), d), CONTROLLER_ID)
      BY <1>1, <1>3, <2>2, <2>5, <3>1, <3>2, AllowedLinkKeepsSound DEF T
    <3> QED
      BY <2>5, <3>3
  <2> QED
    BY <1>2, <1>3, <2>3, <2>4, <2>5
<1>4. ASSUME DeviceDeleted(r)
      PROVE  IsSound(routing_table', CONTROLLER_ID)
  <2> DEFINE p == T[d].parent
             left == UpdateTypeToEmpty(RemoveRoute(T, d, p), p)
  <2>1. CASE d \notin DOMAIN T
    BY <1>4, <2>1 DEF DeviceDeleted, ChangesNothing, Receives
  <2>2. CASE d \in DOMAIN T
    <3>1. routing_table' = left
      BY <1>4, <2>2 DEF DeviceDeleted, Receives
    <3>2. IsRouting(T)
      BY <1>1, TableIs
    <3>3. IsSound(left, CONTROLLER_ID)
      BY <2>2, <3>2, RemovalKeepsSound
    <3> QED
      BY <3>1, <3>3
  <2> QED
    BY <2>1, <2>2
<1>5. ASSUME IsSound(routing_table', CONTROLLER_ID) PROVE IsSound(routing_table, CONTROLLER_ID)'
  BY <1>5 DEF IsSound, TypesFlowUp, TypeFlows
<1> QED
  BY <1>3, <1>4, <1>5

-----------------------------------------------------------------------------
(* Nobody drops out of the table unseen.                                   *)

\* What the operations on a table make of the devices in it.
LEMMA DomainsKept ==
    ASSUME NEW T, NEW d
    PROVE  /\ DOMAIN UpdateTypeToEmpty(T, d) = DOMAIN T
           /\ DOMAIN UpdateTypeToNotEmpty(T, d) = DOMAIN T
           /\ \A type, p, fd : DOMAIN InsertDirect(T, d, type, p, fd) = DOMAIN T \cup {d}
           /\ \A type, p : DOMAIN T \subseteq DOMAIN InsertIndirect(T, d, type, p)
<1>1. DOMAIN UpdateTypeToEmpty(T, d) = DOMAIN T
  BY DEF UpdateTypeToEmpty, SetTypes
<1>2. DOMAIN UpdateTypeToNotEmpty(T, d) = DOMAIN T
  BY DEF UpdateTypeToNotEmpty, SetTypes
<1>3. \A type, p, fd : DOMAIN InsertDirect(T, d, type, p, fd) = DOMAIN T \cup {d}
  BY DEF InsertDirect, InsertRoute
<1>4. \A type, p : DOMAIN T \subseteq DOMAIN InsertIndirect(T, d, type, p)
  BY DEF InsertIndirect, InsertRoute
<1> QED
  BY <1>1, <1>2, <1>3, <1>4

\* An answer takes devices out of the table only when it is that of a deleted
\* one, with all their names, and then the responses thread waits for all of
\* them that still run.
THEOREM ResponsesDropNobody ==
    ASSUME PipesTypeOK, ControllerTypeOK, ReceiveResponse
    PROVE  /\ exiting = {}
           /\ UNCHANGED <<signalled, user_command, exit_code>>
           /\ \A d \in DOMAIN routing_table : Alive(d) =>
                 d \in DOMAIN routing_table' \cup exiting'
           /\ fifos' \subseteq fifos
           /\ fifos' \cap DOMAIN routing_table \subseteq DOMAIN routing_table'
<1> DEFINE T == routing_table
<1>1. PICK r \in First(up[CONTROLLER_ID]) :
          \/ ShowResponse(r) \/ ChildRemoved(r) \/ RouteRefreshed(r) \/ MovedAway(r)
          \/ MovedToController(r) \/ MovedBetweenDevices(r) \/ DeviceDeleted(r)
  BY DEF ReceiveResponse
<1>2. ASSUME NEW U, NEW F, NEW q, Receives(r, U, F, q)
      PROVE  /\ exiting = {} /\ UNCHANGED <<signalled, user_command, exit_code>>
             /\ routing_table' = U
  BY <1>2 DEF Receives, Locks, MutexFree
<1>3. ASSUME NEW U, NEW F, NEW q, Receives(r, U, F, q), DOMAIN T \subseteq DOMAIN U, UNCHANGED fifos
      PROVE  /\ exiting = {} /\ UNCHANGED <<signalled, user_command, exit_code, fifos>>
             /\ DOMAIN T \subseteq DOMAIN routing_table'
  BY <1>2, <1>3
<1>4. ASSUME ChangesNothing(r), UNCHANGED fifos
      PROVE  /\ exiting = {} /\ UNCHANGED <<signalled, user_command, exit_code, fifos>>
             /\ DOMAIN T \subseteq DOMAIN routing_table'
  BY <1>3, <1>4 DEF ChangesNothing
<1>5. CASE ShowResponse(r)
  BY <1>4, <1>5 DEF ShowResponse
<1>6. CASE ChildRemoved(r)
  <2> DEFINE typed == [T EXCEPT ![r.src].type = r.args[2]]
             left == UpdateTypeToEmpty(typed, T[r.src].parent)
  <2>1. /\ ChangesNothing(r) \/ Receives(r, left, files[CONTROLLER_ID], down)
        /\ UNCHANGED fifos
    BY <1>6 DEF ChildRemoved
  <2>2. DOMAIN typed = DOMAIN T
    OBVIOUS
  <2> HIDE DEF typed
  <2>3. DOMAIN left = DOMAIN T
    BY <2>2, DomainsKept
  <2> HIDE DEF left
  <2> QED
    BY <1>3, <1>4, <2>1, <2>3
<1>7. CASE RouteRefreshed(r)
  <2> DEFINE left == [T EXCEPT ![r.src].fd = T[T[r.src].parent].fd]
  <2>1. /\ ChangesNothing(r) \/ Receives(r, left, files[CONTROLLER_ID], down)
        /\ UNCHANGED fifos
    BY <1>7 DEF RouteRefreshed
  <2>2. DOMAIN left = DOMAIN T
    OBVIOUS
  <2> HIDE DEF left
  <2> QED
    BY <1>3, <1>4, <2>1, <2>2
<1>8. CASE MovedAway(r) \/ MovedBetweenDevices(r)
  <2> DEFINE moved == InsertIndirect(T, r.src, T[r.src].type, r.args[1])
             left == UpdateTypeToNotEmpty(moved, r.src)
  <2>1. UNCHANGED fifos /\ (ChangesNothing(r) \/ \E F, q : Receives(r, left, F, q))
    BY <1>8, Zenon DEF MovedAway, MovedBetweenDevices
  <2>2. DOMAIN T \subseteq DOMAIN moved
    BY DomainsKept
  <2> HIDE DEF moved
  <2>3. DOMAIN T \subseteq DOMAIN left
    BY <2>2, DomainsKept
  <2> HIDE DEF left
  <2> QED
    BY <1>3, <1>4, <2>1, <2>3
<1>9. CASE MovedToController(r)
  <2> DEFINE moved == InsertDirect(T, r.src, T[r.src].type, CONTROLLER_ID,
                                   LowestFree(files[CONTROLLER_ID]))
             left == UpdateTypeToNotEmpty(moved, r.src)
  <2>1. UNCHANGED fifos /\ (ChangesNothing(r) \/ \E F, q : Receives(r, left, F, q))
    BY <1>9, Zenon DEF MovedToController
  <2>2. DOMAIN T \subseteq DOMAIN moved
    BY DEF InsertDirect, InsertRoute
  <2> HIDE DEF moved
  <2>3. DOMAIN T \subseteq DOMAIN left
    BY <2>2, DomainsKept
  <2> HIDE DEF left
  <2> QED
    BY <1>3, <1>4, <2>1, <2>3
<1>10. CASE DeviceDeleted(r)
  <2> DEFINE p == T[r.src].parent
             gone == {r.src} \cup Below(T, r.src)
             removed == RemoveRoute(T, r.src, p)
             left == UpdateTypeToEmpty(removed, p)
  <2>1. CASE r.src \notin DOMAIN T
    BY <1>4, <1>10, <2>1 DEF DeviceDeleted
  <2>2. CASE r.src \in DOMAIN T
    <3>1. /\ exiting' = {d \in gone : Alive(d)} /\ fifos' = fifos \ gone
          /\ \E F, q : Receives(r, left, F, q)
      BY <1>10, <2>2, Zenon DEF DeviceDeleted
    <3>2. DOMAIN left = DOMAIN removed
      BY DomainsKept
    <3>3. DOMAIN removed = DOMAIN T \ gone
      BY <2>2 DEF RemoveRoute
    <3> HIDE DEF left, removed, gone
    <3>4. /\ exiting = {} /\ UNCHANGED <<signalled, user_command, exit_code>>
          /\ routing_table' = left
      BY <1>2, <3>1
    <3> QED
      BY <3>1, <3>2, <3>3, <3>4
  <2> QED
    BY <2>1, <2>2
<1> QED
  BY <1>1, <1>5, <1>6, <1>7, <1>8, <1>9, <1>10

=============================================================================
