---------------------------- MODULE NetworkProofs ----------------------------
(***************************************************************************)
(* The network: its type invariant, which is inductive, from what its      *)
(* components' steps are proved to keep, and, from it, the properties of   *)
(* the network that hold whatever the user asks for.                       *)
(***************************************************************************)
EXTENDS Network, ControllerProofs, HubProofs, TimerProofs

-----------------------------------------------------------------------------
(* Leaf devices.                                                           *)

\* A response of which only the command is known.
Blanks == {[NoResponse EXCEPT !.cmd = c] : c \in Commands \cup {"null"}}

\* A leaf with an answer to give has one.
LeafGood(H) ==
    /\ H \in [state : {STATE_OFF, STATE_ON}, parent_id : Controls, force_exit : BOOLEAN,
              snd : Controls \cup {NoPipe}, pc : {"read", "reply", "blocked"},
              response : Responses \cup Blanks]
    /\ H.pc = "reply" => H.response \in Responses

\* A step to a well typed leaf keeps the leaves typed.
LEMMA LeafStepTyped ==
    ASSUME LeafTypeOK, NEW d \in Leaves, NEW new, LeafGood(new), LeafSteps(d, new)
    PROVE  LeafTypeOK'
  BY DEF LeafTypeOK, LeafGood, LeafSteps, Blanks

\* What a leaf and its pipe have before it takes a request in.
LEMMA LeafTakesTyped ==
    ASSUME PipesTypeOK, LeafTypeOK, NEW d \in Leaves, NEW m, LeafTakes(d, m)
    PROVE  /\ PipesTypeOK' /\ m \in Requests
           /\ LeafGood(leaf[d]) /\ d \in Devices
           /\ leaf[d].response.cmd \in Commands \cup {"null"}
<1>1. d \in Devices
  BY Ids
<1>2. down[d] \in Seq(Requests) /\ down \in [Devices -> Seq(Requests)]
  BY <1>1 DEF PipesTypeOK
<1>3. /\ down[d] # <<>> /\ m = Head(down[d])
      /\ down' = [down EXCEPT ![d] = Tail(@)]
      /\ UNCHANGED <<up, files, exit_code, fifos>>
  BY DEF LeafTakes
<1>4. m \in Requests /\ Tail(down[d]) \in Seq(Requests)
  BY <1>2, <1>3, TailTyped
<1>5. PipesTypeOK'
  <2>1. down' \in [Devices -> Seq(Requests)]
    BY <1>2, <1>3, <1>4
  <2> QED
    BY <1>3, <2>1 DEF PipesTypeOK
<1>6. LeafGood(leaf[d])
  BY DEF LeafTypeOK, LeafGood, Blanks
<1>7. leaf[d].response.cmd \in Commands \cup {"null"}
  <2>1. \A r \in Responses : r.cmd \in Commands \cup {"null"}
    BY ResponseFields
  <2>2. \A r \in Blanks : r.cmd \in Commands \cup {"null"}
    BY DEF Blanks, NoResponse
  <2> QED
    BY <1>6, <2>1, <2>2 DEF LeafGood
<1> QED
  BY <1>1, <1>4, <1>5, <1>6, <1>7

\* A request to a leaf, any but one to change parent, keeps pipes and leaves typed.
LEMMA LeafRequestTyped ==
    ASSUME PipesTypeOK, LeafTypeOK, NEW d \in Leaves, NEW m,
           \/ LeafInfo(d, m) \/ LeafSwitch(d, m) \/ LeafRefuses(d, m)
           \/ LeafDelete(d, m) \/ LeafMisrouted(d, m)
    PROVE  PipesTypeOK' /\ LeafTypeOK'
<1> DEFINE H == leaf[d]
<1>1. LeafTakes(d, m)
  BY DEF LeafInfo, LeafSwitch, LeafRefuses, LeafDelete, LeafMisrouted
<1>2. /\ PipesTypeOK' /\ m \in Requests /\ LeafGood(H) /\ d \in Devices
      /\ H.response.cmd \in Commands \cup {"null"}
  BY <1>1, LeafTakesTyped
<1>3. m.cmd \in Commands
  BY <1>2, RequestFields
<1>4. ASSUME NEW r \in Responses, NEW s \in {STATE_OFF, STATE_ON}, NEW f \in BOOLEAN,
             LeafSteps(d, [H EXCEPT !.pc = "reply", !.state = s, !.force_exit = f,
                                    !.response = r])
      PROVE  LeafTypeOK'
  <2> DEFINE G == [H EXCEPT !.pc = "reply", !.state = s, !.force_exit = f, !.response = r]
  <2>1. LeafGood(G)
    BY <1>2 DEF LeafGood
  <2> HIDE DEF G
  <2> QED
    BY <1>4, <2>1, LeafStepTyped DEF G
<1>5. H.state \in {STATE_OFF, STATE_ON} /\ H.force_exit \in BOOLEAN
  BY <1>2 DEF LeafGood
<1>6. ASSUME NEW r \in Responses,
             LeafSteps(d, [H EXCEPT !.pc = "reply", !.response = r])
      PROVE  LeafTypeOK'
  <2>1. [H EXCEPT !.pc = "reply", !.response = r]
            = [H EXCEPT !.pc = "reply", !.state = H.state, !.force_exit = H.force_exit,
                        !.response = r]
    BY <1>2 DEF LeafGood
  <2>2. LeafSteps(d, [H EXCEPT !.pc = "reply", !.state = H.state,
                               !.force_exit = H.force_exit, !.response = r])
    BY <1>6, <2>1
  <2> QED
    BY <1>4, <1>5, <2>2
<1>7. CASE LeafInfo(d, m)
  <2> DEFINE r == Response(d, "info", "OK", <<H.state>>)
  <2>1. H.state \in Nat /\ H.state \in STATE_OFF .. UNDEFINED_STATE
    <3> HIDE DEF H
    <3> QED
      BY <1>5 DEF STATE_OFF, STATE_ON, UNDEFINED_STATE
  <2>2. <<H.state>> \in Seq(Nat) /\ <<H.state>>[1] = H.state
    BY <2>1
  <2>3. "info" \in Commands /\ "OK" \in ErrorCodes /\ "info" \notin Links
    BY DEF Commands, ErrorCodes, Links
  <2>4. r \in Responses
    BY <1>2, <2>1, <2>2, <2>3, PlainResponse
  <2>5. LeafSteps(d, [H EXCEPT !.pc = "reply", !.response = r])
    BY <1>7 DEF LeafInfo
  <2> HIDE DEF r
  <2> QED
    BY <1>2, <1>6, <2>4, <2>5
<1>8. CASE LeafSwitch(d, m)
  <2> DEFINE r == Response(d, m.cmd, "OK", <<>>)
             s == SwitchedState(d, m.cmd)
  <2>1. m.cmd \notin Links /\ "OK" \in ErrorCodes
    BY <1>8 DEF LeafSwitch, Links, Switches, PowerSwitches, DoorSwitches, ErrorCodes
  <2>2. r \in Responses
    BY <1>2, <1>3, <2>1, EmptyResponse
  <2>3. s \in {STATE_OFF, STATE_ON}
    BY <1>5 DEF SwitchedState
  <2>4. LeafSteps(d, [H EXCEPT !.pc = "reply", !.state = s, !.response = r])
    BY <1>8 DEF LeafSwitch
  <2> HIDE DEF r, s
  <2>5. [H EXCEPT !.pc = "reply", !.state = s, !.response = r]
            = [H EXCEPT !.pc = "reply", !.state = s, !.force_exit = H.force_exit,
                        !.response = r]
    BY <1>2 DEF LeafGood
  <2>6. LeafSteps(d, [H EXCEPT !.pc = "reply", !.state = s,
                               !.force_exit = H.force_exit, !.response = r])
    BY <2>4, <2>5
  <2> QED
    BY <1>2, <1>4, <1>5, <2>2, <2>3, <2>6
<1>9. CASE LeafRefuses(d, m)
  <2> DEFINE r == Response(d, m.cmd, "UNEXPECTED_COMMAND", <<>>)
  <2>1. "UNEXPECTED_COMMAND" \in ErrorCodes
    BY DEF ErrorCodes
  <2>2. r \in Responses
    BY <1>2, <1>3, <2>1, EmptyResponse
  <2>3. LeafSteps(d, [H EXCEPT !.pc = "reply", !.response = r])
    BY <1>9 DEF LeafRefuses
  <2> HIDE DEF r
  <2> QED
    BY <1>2, <1>6, <2>2, <2>3
<1>10. CASE LeafDelete(d, m)
  <2> DEFINE r == Response(d, "delete", "OK", <<>>)
  <2>1. "OK" \in ErrorCodes /\ "delete" \in Commands /\ "delete" \notin Links
    BY DEF ErrorCodes, Commands, Links
  <2>2. r \in Responses
    BY <1>2, <2>1, EmptyResponse
  <2>3. LeafSteps(d, [H EXCEPT !.pc = "reply", !.force_exit = TRUE, !.response = r])
    BY <1>10 DEF LeafDelete
  <2> HIDE DEF r
  <2>4. [H EXCEPT !.pc = "reply", !.force_exit = TRUE, !.response = r]
            = [H EXCEPT !.pc = "reply", !.state = H.state, !.force_exit = TRUE,
                        !.response = r]
    BY <1>2 DEF LeafGood
  <2>5. LeafSteps(d, [H EXCEPT !.pc = "reply", !.state = H.state,
                               !.force_exit = TRUE, !.response = r])
    BY <2>3, <2>4
  <2> QED
    BY <1>2, <1>4, <1>5, <2>2, <2>5
<1>11. CASE LeafMisrouted(d, m)
  <2> DEFINE r == Response(d, H.response.cmd, "DESTINATION_ID_MISMATCH", <<>>)
  <2>1. "DESTINATION_ID_MISMATCH" \in ErrorCodes
    BY DEF ErrorCodes
  <2>2. r \in Responses
    BY <1>2, <2>1, EmptyResponse
  <2>3. LeafSteps(d, [H EXCEPT !.pc = "reply", !.response = r])
    BY <1>2, <1>11 DEF LeafMisrouted, LeafGood
  <2> HIDE DEF r
  <2> QED
    BY <1>2, <1>6, <2>2, <2>3
<1> QED
  BY <1>7, <1>8, <1>9, <1>10, <1>11

\* A request to a leaf to change parent keeps pipes and leaves typed.
LEMMA LeafChangeParentTyped ==
    ASSUME PipesTypeOK, LeafTypeOK, NEW d \in Leaves, NEW m,
           LeafChangeParent(d, m) \/ LeafBlocks(d, m)
    PROVE  PipesTypeOK' /\ LeafTypeOK'
<1> DEFINE H == leaf[d]
<1>1. LeafTakes(d, m) /\ m.cmd = "change_parent"
  BY DEF LeafChangeParent, LeafBlocks
<1>2. /\ PipesTypeOK' /\ m \in Requests /\ LeafGood(H) /\ d \in Devices
  BY <1>1, LeafTakesTyped
<1>3. m.arg \in Controls
  BY <1>1, <1>2, RequestFields
<1>4. CASE LeafBlocks(d, m)
  <2> DEFINE G == [H EXCEPT !.pc = "blocked"]
  <2>1. LeafGood(G)
    BY <1>2 DEF LeafGood
  <2>2. LeafSteps(d, G)
    BY <1>4 DEF LeafBlocks
  <2> HIDE DEF G
  <2> QED
    BY <1>2, <2>1, <2>2, LeafStepTyped
<1>5. CASE LeafChangeParent(d, m)
  <2> DEFINE code == CASE m.arg = H.parent_id -> "OK"
                       [] ~UpOpens(m.arg) -> "UNABLE_TO_OPEN_PIPE"
                       [] H.snd = NoPipe -> "UNABLE_TO_CLOSE_PIPE"
                       [] OTHER -> "OK"
             snd == CASE m.arg = H.parent_id -> H.snd
                      [] ~UpOpens(m.arg) -> NoPipe
                      [] OTHER -> m.arg
             parent == IF code = "OK" THEN m.arg ELSE H.parent_id
             r == Response(d, m.cmd, code, <<m.arg, Kind[d]>>)
             G == [H EXCEPT !.pc = "reply", !.snd = snd, !.parent_id = parent, !.response = r]
  <2>1. LeafSteps(d, G)
    BY <1>2, <1>5 DEF LeafChangeParent, LeafGood
  <2>2. code \in {"OK", "UNABLE_TO_OPEN_PIPE", "UNABLE_TO_CLOSE_PIPE"}
    OBVIOUS
  <2>3. code \in ErrorCodes
    <3> HIDE DEF code
    <3> QED
      BY <2>2 DEF ErrorCodes
  <2>4. snd \in Controls \cup {NoPipe}
    BY <1>2, <1>3 DEF LeafGood
  <2> HIDE DEF code
  <2>5. parent \in Controls
    BY <1>2, <1>3 DEF LeafGood
  <2>6. r \in Responses
    <3>1. Kind[d] \in OwnTypes(d) /\ m.arg \in Nat
      BY <1>3, OwnTypesAre, Ids
    <3>2. m.cmd \in Links /\ m.cmd # "remove_child"
      BY <1>1 DEF Links
    <3> QED
      BY <1>2, <1>3, <2>3, <3>1, <3>2, LinkResponse
  <2> HIDE DEF snd, parent, r
  <2>7. LeafGood(G)
    BY <1>2, <2>4, <2>5, <2>6 DEF LeafGood
  <2> HIDE DEF G
  <2> QED
    BY <1>2, <2>1, <2>7, LeafStepTyped
<1> QED
  BY <1>4, <1>5

\* The end of file of a leaf's own pipe keeps pipes and leaves typed.
LEMMA LeafEndOfFileTyped ==
    ASSUME PipesTypeOK, LeafTypeOK, NEW d \in Leaves, LeafEndOfFile(d)
    PROVE  PipesTypeOK' /\ LeafTypeOK'
<1> DEFINE H == leaf[d]
           r == Response(d, "null", "UNEXPECTED_END_OF_FILE", <<>>)
           G == [H EXCEPT !.pc = "reply", !.force_exit = TRUE, !.response = r]
<1>1. LeafSteps(d, G) /\ UNCHANGED pipes
  BY DEF LeafEndOfFile
<1>2. LeafGood(H) /\ d \in Devices
  BY Ids DEF LeafTypeOK, LeafGood, Blanks
<1>3. r \in Responses
  BY <1>2, EmptyResponse DEF ErrorCodes, Links
<1> HIDE DEF r
<1>4. LeafGood(G)
  BY <1>2, <1>3 DEF LeafGood
<1> HIDE DEF G
<1>5. LeafTypeOK'
  BY <1>1, <1>4, LeafStepTyped
<1> QED
  BY <1>1, <1>5 DEF PipesTypeOK, pipes

\* The answer of a leaf keeps pipes and leaves typed.
LEMMA LeafReplyTyped ==
    ASSUME PipesTypeOK, LeafTypeOK, NEW d \in Leaves, LeafReply(d)
    PROVE  PipesTypeOK' /\ LeafTypeOK'
<1> DEFINE H == leaf[d]
           kept == IF Kind[d] = WINDOW THEN H.response.cmd ELSE "null"
           blank == [NoResponse EXCEPT !.cmd = kept]
           sent == IF H.snd = NoPipe THEN up ELSE SendUp(up, Up(H.snd), <<H.response>>)
           G == [H EXCEPT !.pc = "read", !.response = blank]
<1>1. H.pc = "reply" /\ LeafSteps(d, G) /\ UNCHANGED fifos
  BY DEF LeafReply
<1>2. \/ \E code \in {"OK", "error"} : Exits(d, code, sent)
      \/ up' = sent /\ UNCHANGED <<down, files, exit_code>>
  BY DEF LeafReply
<1>3. LeafGood(H)
  BY DEF LeafTypeOK, LeafGood, Blanks
<1>4. H.response \in Responses /\ H.response.cmd \in Commands \cup {"null"}
  BY <1>1, <1>3, ResponseFields DEF LeafGood
<1>5. blank \in Blanks
  BY <1>4 DEF Blanks
<1>6. sent \in [Controls -> Seq(Responses)]
  <2>1. up \in [Controls -> Seq(Responses)] /\ <<H.response>> \in Seq(Responses)
    BY <1>4 DEF PipesTypeOK
  <2> QED
    BY <2>1, SendUpIs
<1> HIDE DEF sent, blank
<1>7. LeafGood(G)
  BY <1>3, <1>5 DEF LeafGood
<1> HIDE DEF G
<1>8. LeafTypeOK'
  BY <1>1, <1>7, LeafStepTyped
<1>9. PipesTypeOK'
  <2>1. fifos' \subseteq Devices
    BY <1>1 DEF PipesTypeOK
  <2>2. CASE \E code \in {"OK", "error"} : Exits(d, code, sent)
    BY <1>6, <2>1, <2>2, ExitsTyped
  <2>3. CASE up' = sent /\ UNCHANGED <<down, files, exit_code>>
    BY <1>6, <2>1, <2>3 DEF PipesTypeOK
  <2> QED
    BY <1>2, <2>2, <2>3
<1> QED
  BY <1>8, <1>9

\* Every step of a leaf leaves it and the pipes typed.
LEMMA LeafTyped ==
    ASSUME PipesTypeOK, LeafTypeOK, NEW d \in Leaves, LeafStep(d) \/ LeafTerminates(d)
    PROVE  PipesTypeOK' /\ LeafTypeOK'
<1>1. CASE LeafTerminates(d)
  <2>1. Exits(d, "error", up) /\ UNCHANGED <<leaf, fifos>>
    BY <1>1 DEF LeafTerminates
  <2>2. PipesTypeOK'
    <3>1. up \in [Controls -> Seq(Responses)] /\ fifos' \subseteq Devices
      BY <2>1 DEF PipesTypeOK
    <3> QED
      BY <2>1, <3>1, ExitsTyped
  <2> QED
    BY <2>1, <2>2 DEF LeafTypeOK
<1>2. CASE LeafStep(d)
  BY <1>2, LeafRequestTyped, LeafChangeParentTyped, LeafEndOfFileTyped, LeafReplyTyped
     DEF LeafStep
<1> QED
  BY <1>1, <1>2

-----------------------------------------------------------------------------
(* The initial states.                                                     *)

\* The descriptors an initial network has open.
LEMMA StartedIs ==
    /\ \A n \in DOMAIN Started : n \in Fds /\ Started[n] \in Devices \ ToAdd
    /\ \A d \in Devices \ ToAdd : FdOf(d) \in DOMAIN Started /\ Started[FdOf(d)] = d
    /\ 1 \in Fds
<1> DEFINE S == Devices \ ToAdd
<1>1. S \in SUBSET Nat /\ IsFiniteSet(S) /\ Cardinality(S) <= Cardinality(Devices)
      /\ Cardinality(Devices) \in Nat
  BY Ids, FS_Subset, FS_CardinalityType
<1>2. /\ Started \in [1 .. Cardinality(S) -> S] /\ Cardinality(S) \in Nat
      /\ \A x \in S : \E i \in DOMAIN Started : Started[i] = x
  <2> HIDE DEF S
  <2>1. /\ InIdOrder(S) \in [1 .. Cardinality(S) -> S] /\ Cardinality(S) \in Nat
        /\ \A x \in S : \E i \in DOMAIN InIdOrder(S) : InIdOrder(S)[i] = x
    BY <1>1, InIdOrderIs
  <2> QED
    BY <2>1 DEF Started, S
<1>3. MaxFd \in Nat /\ MaxFd > Cardinality(Devices)
  BY MaxFdAssumption
<1> HIDE DEF S
<1>4. \A n \in DOMAIN Started : n \in Fds /\ Started[n] \in S
  BY <1>1, <1>2, <1>3 DEF Fds
<1>5. 1 \in Fds
  BY <1>1, <1>3 DEF Fds
<1>6. \A d \in S : FdOf(d) \in DOMAIN Started /\ Started[FdOf(d)] = d
  BY <1>2 DEF FdOf
<1> QED
  BY <1>4, <1>5, <1>6 DEF S

\* The pipes are well typed at the start.
LEMMA PipesInitTyped ==
    ASSUME Init
    PROVE  PipesTypeOK
<1>1. /\ down = [d \in Devices |-> <<>>]
      /\ up = [p \in Controls |-> <<>>]
      /\ files = [p \in Controls |-> [f \in Fds |->
            IF p = CONTROLLER_ID /\ f \in DOMAIN Started THEN Down(Started[f])
            ELSE IF p # CONTROLLER_ID /\ f = 1 THEN Up(CONTROLLER_ID) ELSE Closed]]
      /\ exit_code = [p \in Devices \cup {CONTROLLER_ID} |->
                        IF p \in ToAdd THEN "absent" ELSE "none"]
      /\ fifos = Devices \ ToAdd
  BY DEF Init
<1>2. \A f \in DOMAIN Started : Down(Started[f]) \in Ends
  BY StartedIs, EndsAre
<1>3. Closed \in Ends /\ Up(CONTROLLER_ID) \in Ends
  BY EndsAre, Ids
<1>4. files \in [Controls -> [Fds -> Ends]]
  BY <1>1, <1>2, <1>3
<1>5. down \in [Devices -> Seq(Requests)] /\ up \in [Controls -> Seq(Responses)]
  BY <1>1
<1>6. exit_code \in [Devices \cup {CONTROLLER_ID} ->
          {"absent", "starting", "none", "OK", "error", "signal", "missed"}]
  BY <1>1
<1> QED
  BY <1>1, <1>4, <1>5, <1>6 DEF PipesTypeOK

\* The controller is well typed at the start.
LEMMA ControllerInitTyped ==
    ASSUME Init
    PROVE  ControllerTypeOK
<1>1. /\ routing_table = [d \in Devices \ ToAdd |->
            [type |-> TypeOf(d), parent |-> CONTROLLER_ID, fd |-> FdOf(d)]]
      /\ user_command = NoRequest
      /\ exiting = {} /\ signalled = {}
      /\ blocked = FALSE /\ pending_shutdown = FALSE /\ force_exit = FALSE /\ reaped = FALSE
      /\ awaited = <<>>
  BY DEF Init
<1>2. \A d \in Devices \ ToAdd :
          [type |-> TypeOf(d), parent |-> CONTROLLER_ID, fd |-> FdOf(d)]
              \in [type : OwnTypes(d), parent : Controls, fd : Fds]
  BY StartedIs, OwnTypesAre, Ids
<1>3. IsTable(routing_table, Controls)
  <2>1. DOMAIN routing_table = Devices \ ToAdd /\ routing_table = [x \in DOMAIN routing_table |-> routing_table[x]]
    BY <1>1
  <2>2. \A x \in DOMAIN routing_table :
            routing_table[x] \in [type : OwnTypes(x), parent : Controls, fd : Fds]
    BY <1>1, <1>2
  <2> QED
    BY <2>1, <2>2, MakesTable
<1>4. /\ user_command = NoRequest /\ exiting = {} /\ signalled = {}
      /\ blocked = FALSE /\ pending_shutdown = FALSE /\ force_exit = FALSE /\ reaped = FALSE
      /\ awaited = <<>>
  BY <1>1
<1>5. {blocked, pending_shutdown, force_exit, reaped} \subseteq BOOLEAN
  BY <1>4
<1>6. awaited \in Seq(Requests) /\ exiting \subseteq Devices /\ signalled \subseteq Devices
  BY <1>4
<1> QED
  BY <1>3, <1>4, <1>5, <1>6 DEF ControllerTypeOK

\* The hubs are well typed at the start.
LEMMA HubInitTyped ==
    ASSUME Init
    PROVE  HubTypeOK
<1> DEFINE H == [device_type |-> HUB_DEVICE, routing_table |-> EmptyTable, children |-> 0,
                 has_children |-> FALSE, parent_id |-> CONTROLLER_ID,
                 parent_changed |-> FALSE, remove_child_succeed |-> FALSE,
                 force_exit |-> FALSE, pending |-> <<>>, snd |-> 1,
                 pc |-> "read", bottom_pc |-> "read",
                 request |-> NoRequest, response |-> NoResponse, route |-> NoFd]
<1>1. hub = [h \in Hubs |-> H]
  BY DEF Init
<1>2. IsTable(H.routing_table, Hubs \cup Timers)
  BY EmptyIsTable
<1>3. HubTyped(H)
  <2>1. HUB_DEVICE \in HUB_DEVICE .. TIMER_DEVICE + 3 /\ 0 \in 0 .. ChildrenModulus - 1
    BY ChildrenModulusAssumption DEF HUB_DEVICE, TIMER_DEVICE
  <2>2. CONTROLLER_ID \in Controls /\ 1 \in Fds
    BY Ids, StartedIs
  <2>3. "read" \in TopDownPcs
    BY DEF TopDownPcs
  <2> QED
    BY <1>2, <2>1, <2>2, <2>3 DEF HubTyped
<1>4. HubReady(H)
  BY DEF HubReady
<1> HIDE DEF H
<1> QED
  BY <1>1, <1>3, <1>4 DEF HubTypeOK

\* The leaves are well typed at the start.
LEMMA LeafInitTyped ==
    ASSUME Init
    PROVE  LeafTypeOK
<1> DEFINE H == [state |-> STATE_OFF, parent_id |-> CONTROLLER_ID, force_exit |-> FALSE,
                 snd |-> CONTROLLER_ID, pc |-> "read", response |-> NoResponse]
<1>1. leaf = [d \in Leaves |-> H]
  BY DEF Init
<1>2. NoResponse \in Blanks
  <2>1. NoResponse = [NoResponse EXCEPT !.cmd = "null"]
    BY DEF NoResponse
  <2> QED
    BY <2>1 DEF Blanks
<1>3. LeafGood(H)
  BY <1>2, Ids DEF LeafGood
<1> HIDE DEF H
<1> QED
  BY <1>1, <1>3 DEF LeafTypeOK, LeafGood, Blanks

\* The network is well typed at the start.
LEMMA InitTyped ==
    ASSUME Init
    PROVE  TypeOK
<1>1. TimerTypeOK
  BY TimerInitTyped DEF Init
<1>2. hurried \in 0 .. MaxHurried
  BY UserAssumption DEF Init
<1>3. scheduled \in [Timers -> {STATE_OFF, STATE_ON, UNDEFINED_STATE}] /\ interrupted \in BOOLEAN
  BY DEF Init
<1> QED
  BY <1>1, <1>2, <1>3, PipesInitTyped, ControllerInitTyped, HubInitTyped, LeafInitTyped
     DEF TypeOK

-----------------------------------------------------------------------------
(* The type invariant.                                                     *)

\* What a component does not write stays typed.
LEMMA StillTyped ==
    /\ PipesTypeOK /\ UNCHANGED pipes => PipesTypeOK'
    /\ LeafTypeOK /\ UNCHANGED leaf => LeafTypeOK'
    /\ HubTypeOK /\ UNCHANGED hub => HubTypeOK'
    /\ TimerTypeOK /\ UNCHANGED timerVars => TimerTypeOK'
    /\ ControllerTypeOK /\ UNCHANGED controllerVars => ControllerTypeOK'
<1>1. PipesTypeOK /\ UNCHANGED pipes => PipesTypeOK'
  BY DEF PipesTypeOK, pipes
<1>2. LeafTypeOK /\ UNCHANGED leaf => LeafTypeOK'
  BY DEF LeafTypeOK
<1>3. HubTypeOK /\ UNCHANGED hub => HubTypeOK'
  BY DEF HubTypeOK, HubTyped, HubReady, IsTable
<1>4. TimerTypeOK /\ UNCHANGED timerVars => TimerTypeOK'
  BY DEF TimerTypeOK, TimerTyped, TimerReady, timerVars, IsTable
<1>5. ControllerTypeOK /\ UNCHANGED controllerVars => ControllerTypeOK'
  BY DEF ControllerTypeOK, controllerVars, shutdownVars, IsTable
<1> QED
  BY <1>1, <1>2, <1>3, <1>4, <1>5

\* What the histories are.
HistoriesTyped ==
    /\ hurried \in 0 .. MaxHurried
    /\ scheduled \in [Timers -> {STATE_OFF, STATE_ON, UNDEFINED_STATE}]
    /\ interrupted \in BOOLEAN

\* Histories that do not change stay typed.
LEMMA HistoriesStillTyped == HistoriesTyped /\ UNCHANGED histories => HistoriesTyped'
  BY DEF HistoriesTyped, histories

\* Every step of the controller's threads keeps pipes and controller typed.
LEMMA ControllerStepTyped ==
    ASSUME TypeOK, ControllerStep
    PROVE  PipesTypeOK' /\ ControllerTypeOK'
<1>1. PipesTypeOK /\ ControllerTypeOK
  BY DEF TypeOK
<1>2. \/ ExecuteUserCommand \/ ReceiveResponse \/ DevicesReaped
      \/ AddForks \/ AddInserts \/ SigchldRoutine \/ SigchldChecks
      \/ ExecuteExit \/ ControllerExits \/ InputEnds
  BY DEF ControllerStep
<1> QED
  BY <1>1, <1>2, ExecuteUserCommandTyped, ReceiveResponseTyped, DevicesReapedTyped,
     AddForksTyped, AddInsertsTyped, SigchldRoutineTyped, SigchldChecksTyped,
     ExecuteExitTyped, ControllerExitsTyped, InputEndsTyped

\* A command the user types, and what the manual interaction program writes.
LEMMA UserTyped ==
    ASSUME TypeOK, UserTypes \/ ManualInteraction
    PROVE  TypeOK'
<1> USE DEF HistoriesTyped
<1>1. /\ PipesTypeOK /\ LeafTypeOK /\ HubTypeOK /\ TimerTypeOK /\ ControllerTypeOK
      /\ HistoriesTyped
  BY DEF TypeOK
<1>2. CASE UserTypes
  <2>1. PICK c \in Offered :
            /\ hurried' = IF c.cmd = "change_parent" /\ (hurried > 0 \/ ~AtRest)
                          THEN hurried + 1 ELSE hurried
            /\ hurried' <= MaxHurried
            /\ scheduled' = IF \/ c.cmd \in Switches \cup {"delete", "exit"}
                               \/ c.cmd = "change_parent" /\ c.dst \notin Timers
                            THEN [t \in Timers |-> UNDEFINED_STATE] ELSE scheduled
            /\ CheckUserCommand(c)
    BY <1>2 DEF UserTypes
  <2>2. UNCHANGED <<hub, timerVars, leaf, interrupted>>
    BY <1>2 DEF UserTypes
  <2>3. PipesTypeOK' /\ ControllerTypeOK'
    BY <1>1, <2>1, UserAssumption, CheckUserCommandTyped
  <2>4. hurried' \in 0 .. MaxHurried
    BY <1>1, <2>1, UserAssumption
  <2>5. scheduled' \in [Timers -> {STATE_OFF, STATE_ON, UNDEFINED_STATE}]
    BY <1>1, <2>1
  <2>6. LeafTypeOK' /\ HubTypeOK' /\ TimerTypeOK'
    BY <1>1, <2>2, StillTyped
  <2> QED
    BY <1>1, <2>2, <2>3, <2>4, <2>5, <2>6 DEF TypeOK
<1>3. CASE ManualInteraction
  <2>1. PICK d \in fifos, cmd \in ManualCommands :
            /\ down' = SendDown(down, Down(d), [dst |-> d, cmd |-> cmd, arg |-> CONTROLLER_ID])
            /\ scheduled' = IF cmd \in Switches THEN [t \in Timers |-> UNDEFINED_STATE]
                            ELSE scheduled
    BY <1>3 DEF ManualInteraction
  <2>2. UNCHANGED <<up, files, exit_code, fifos, controllerVars, hub, timerVars, leaf,
                    hurried, interrupted>>
    BY <1>3 DEF ManualInteraction
  <2> DEFINE m == [dst |-> d, cmd |-> cmd, arg |-> CONTROLLER_ID]
  <2>3. m \in Requests
    <3>1. d \in Devices
      BY <1>1 DEF PipesTypeOK
    <3>2. cmd \in Commands /\ cmd \notin Links \cup Registries
      BY UserAssumption DEF Commands, Switches, PowerSwitches, DoorSwitches, Links, Registries
    <3> QED
      BY <3>1, <3>2, RequestIs DEF Links
  <2>4. down' \in [Devices -> Seq(Requests)]
    <3> HIDE DEF m
    <3>1. down \in [Devices -> Seq(Requests)]
      BY <1>1 DEF PipesTypeOK
    <3>2. SendDown(down, Down(d), m) \in [Devices -> Seq(Requests)]
      BY <2>3, <3>1, SendDownIs
    <3> QED
      BY <2>1, <3>2 DEF m
  <2>5. PipesTypeOK'
    BY <1>1, <2>2, <2>4 DEF PipesTypeOK
  <2>6. LeafTypeOK' /\ HubTypeOK' /\ TimerTypeOK' /\ ControllerTypeOK'
    BY <1>1, <2>2, StillTyped
  <2>7. scheduled' \in [Timers -> {STATE_OFF, STATE_ON, UNDEFINED_STATE}]
    BY <1>1, <2>1
  <2> QED
    BY <1>1, <2>2, <2>5, <2>6, <2>7 DEF TypeOK
<1> QED
  BY <1>2, <1>3

\* A minute that passes keeps the network typed.
LEMMA ClockTyped ==
    ASSUME TypeOK, ClockTicks
    PROVE  TypeOK'
<1>1. /\ PipesTypeOK /\ LeafTypeOK /\ HubTypeOK /\ TimerTypeOK /\ ControllerTypeOK
      /\ HistoriesTyped
  BY DEF TypeOK, HistoriesTyped
<1>2. /\ MinutePasses
      /\ scheduled' = [t \in Timers |->
            CASE ~Alive(t) \/ ~timer[t].has_child -> UNDEFINED_STATE
              [] now' = timer[t].begin -> STATE_ON
              [] now' = timer[t].end -> STATE_OFF
              [] OTHER -> scheduled[t]]
      /\ UNCHANGED <<controllerVars, hub, leaf, hurried, interrupted>>
  BY DEF ClockTicks
<1>3. PipesTypeOK' /\ TimerTypeOK'
  BY <1>1, <1>2, MinutePassesTyped
<1>4. LeafTypeOK' /\ HubTypeOK' /\ ControllerTypeOK'
  BY <1>1, <1>2, StillTyped
<1>5. \A t \in Timers : scheduled[t] \in {STATE_OFF, STATE_ON, UNDEFINED_STATE}
  BY <1>1 DEF HistoriesTyped
<1>6. scheduled' \in [Timers -> {STATE_OFF, STATE_ON, UNDEFINED_STATE}]
  BY <1>2, <1>5
<1> QED
  BY <1>1, <1>2, <1>3, <1>4, <1>6 DEF TypeOK, HistoriesTyped

\* Every step of the program's own processes keeps the network typed.
LEMMA SystemStepTyped ==
    ASSUME TypeOK, SystemStep
    PROVE  TypeOK'
<1>1. /\ PipesTypeOK /\ LeafTypeOK /\ HubTypeOK /\ TimerTypeOK /\ ControllerTypeOK
      /\ HistoriesTyped
  BY DEF TypeOK, HistoriesTyped
<1>2. SUFFICES /\ PipesTypeOK' /\ LeafTypeOK' /\ HubTypeOK' /\ TimerTypeOK'
               /\ ControllerTypeOK' /\ HistoriesTyped'
  BY DEF TypeOK, HistoriesTyped
<1>3. CASE ControllerStep
  <2>1. UNCHANGED <<hub, timerVars, leaf, histories>>
    BY <1>3 DEF ControllerStep
  <2> QED
    BY <1>1, <1>3, <2>1, ControllerStepTyped, StillTyped, HistoriesStillTyped
<1>4. ASSUME NEW d \in Leaves, LeafProcess(d)
      PROVE  /\ PipesTypeOK' /\ LeafTypeOK' /\ HubTypeOK' /\ TimerTypeOK'
             /\ ControllerTypeOK' /\ HistoriesTyped'
  <2>1. LeafStep(d) /\ UNCHANGED <<controllerVars, hub, timerVars, histories>>
    BY <1>4 DEF LeafProcess
  <2> QED
    BY <1>1, <2>1, LeafTyped, StillTyped, HistoriesStillTyped
<1>5. ASSUME NEW h \in Hubs, HubMainThread(h) \/ HubBottomUpThread(h)
      PROVE  /\ PipesTypeOK' /\ LeafTypeOK' /\ HubTypeOK' /\ TimerTypeOK'
             /\ ControllerTypeOK' /\ HistoriesTyped'
  <2>1. /\ HubTopDown(h) \/ HubExits(h) \/ HubBottomUp(h)
        /\ UNCHANGED <<controllerVars, timerVars, leaf, histories>>
    BY <1>5 DEF HubMainThread, HubBottomUpThread
  <2>2. PipesTypeOK' /\ HubTypeOK'
    BY <1>1, <2>1, HubTopDownTyped, HubBottomUpTyped
  <2> QED
    BY <1>1, <2>1, <2>2, StillTyped, HistoriesStillTyped
<1>6. ASSUME NEW t \in Timers, TimerThreads(t)
      PROVE  /\ PipesTypeOK' /\ LeafTypeOK' /\ HubTypeOK' /\ TimerTypeOK'
             /\ ControllerTypeOK' /\ HistoriesTyped'
  <2>1. /\ TimerMain(t) \/ TimerBottomUp(t) \/ TimerSchedule(t)
        /\ UNCHANGED <<controllerVars, hub, leaf, histories>>
    BY <1>6 DEF TimerThreads
  <2>2. PipesTypeOK' /\ TimerTypeOK'
    BY <1>1, <2>1, TimerMainTyped, TimerBottomUpTyped, TimerScheduleTyped
  <2> QED
    BY <1>1, <2>1, <2>2, StillTyped, HistoriesStillTyped
<1>7. ASSUME NEW d, Terminates(d)
      PROVE  /\ PipesTypeOK' /\ LeafTypeOK' /\ HubTypeOK' /\ TimerTypeOK'
             /\ ControllerTypeOK' /\ HistoriesTyped'
  <2>1. UNCHANGED <<controllerVars, histories>>
    BY <1>7 DEF Terminates
  <2>2. CASE d \in Leaves /\ LeafTerminates(d) /\ UNCHANGED <<hub, timerVars>>
    BY <1>1, <2>1, <2>2, LeafTyped, StillTyped, HistoriesStillTyped
  <2>3. CASE d \in Hubs /\ HubTerminates(d) /\ UNCHANGED <<leaf, timerVars>>
    BY <1>1, <2>1, <2>3, HubTopDownTyped, StillTyped, HistoriesStillTyped
  <2>4. CASE d \in Timers /\ TimerTerminates(d) /\ UNCHANGED <<leaf, hub>>
    BY <1>1, <2>1, <2>4, TimerMainTyped, StillTyped, HistoriesStillTyped
  <2> QED
    BY <1>7, <2>2, <2>3, <2>4 DEF Terminates
<1>8. ASSUME NEW d \in ToAdd, Starting(d)
      PROVE  /\ PipesTypeOK' /\ LeafTypeOK' /\ HubTypeOK' /\ TimerTypeOK'
             /\ ControllerTypeOK' /\ HistoriesTyped'
  <2>1. DeviceStarts(d) \/ StartFails(d)
    BY <1>8 DEF Starting
  <2>2. UNCHANGED <<hub, timerVars, leaf, histories>>
    BY <1>8 DEF Starting
  <2>3. d \in Devices
    BY AddAssumption
  <2> QED
    BY <1>1, <2>1, <2>2, <2>3, DeviceStartsTyped, StartFailsTyped, StillTyped,
       HistoriesStillTyped
<1> QED
  BY <1>3, <1>4, <1>5, <1>6, <1>7, <1>8 DEF SystemStep

\* A crash of any process keeps the network typed.
LEMMA CrashTyped ==
    ASSUME TypeOK, NEW p, Crashes(p)
    PROVE  TypeOK'
<1>1. /\ PipesTypeOK /\ LeafTypeOK /\ HubTypeOK /\ TimerTypeOK /\ ControllerTypeOK
      /\ HistoriesTyped
  BY DEF TypeOK, HistoriesTyped
<1>2. /\ Exits(p, "signal", up)
      /\ interrupted' = (interrupted \/ UnderWay \cap Links # {})
      /\ UNCHANGED <<fifos, controllerVars, hub, timerVars, leaf, hurried, scheduled>>
  BY DEF Crashes
<1>3. PipesTypeOK'
  <2>1. up \in [Controls -> Seq(Responses)] /\ fifos' \subseteq Devices
    BY <1>1, <1>2 DEF PipesTypeOK
  <2> QED
    BY <1>1, <1>2, <2>1, ExitsTyped
<1>4. LeafTypeOK' /\ HubTypeOK' /\ TimerTypeOK' /\ ControllerTypeOK'
  BY <1>1, <1>2, StillTyped
<1>5. interrupted' \in BOOLEAN
  BY <1>1, <1>2 DEF HistoriesTyped
<1> QED
  BY <1>1, <1>2, <1>3, <1>4, <1>5 DEF TypeOK, HistoriesTyped

\* Type correctness is inductive: every step of the network keeps it.
LEMMA NextTyped == TypeOK /\ [Next]_vars => TypeOK'
<1> SUFFICES ASSUME TypeOK, [Next]_vars PROVE TypeOK'
  OBVIOUS
<1>1. CASE UNCHANGED vars
  <2>1. UNCHANGED <<pipes, controllerVars, hub, timerVars, leaf, histories>>
    BY <1>1 DEF vars
  <2>2. /\ PipesTypeOK /\ LeafTypeOK /\ HubTypeOK /\ TimerTypeOK /\ ControllerTypeOK
        /\ HistoriesTyped
    BY DEF TypeOK, HistoriesTyped
  <2>3. /\ PipesTypeOK' /\ LeafTypeOK' /\ HubTypeOK' /\ TimerTypeOK' /\ ControllerTypeOK'
        /\ HistoriesTyped'
    BY <2>1, <2>2, StillTyped, HistoriesStillTyped
  <2> QED
    BY <2>3 DEF TypeOK, HistoriesTyped
<1>2. CASE Next
  BY <1>2, UserTyped, ClockTyped, SystemStepTyped, CrashTyped DEF Next
<1> QED
  BY <1>1, <1>2

\* Whatever the user asks for and whoever dies, what the processes keep and what
\* is under way in the pipes is what the code declares it to be: no request or
\* response of an unknown device, no descriptor out of range, no type a device
\* cannot have, and no thread that waits to answer without an answer.
THEOREM TypeCorrect == Spec => []TypeOK
<1>1. Init => TypeOK
  BY InitTyped
<1> QED
  BY <1>1, NextTyped, PTL DEF Spec

-----------------------------------------------------------------------------
(* Nobody is forgotten.                                                    *)

LEMMA LeafPersists ==
    ASSUME LeafTypeOK, NEW d \in Leaves, LeafStep(d) \/ LeafTerminates(d)
    PROVE  \A g \in Leaves : leaf[g].force_exit => leaf'[g].force_exit
<1> DEFINE H == leaf[d]
<1>1. \A g \in Leaves : g \in DOMAIN leaf /\ "force_exit" \in DOMAIN leaf[g]
  BY DEF LeafTypeOK
<1>2. ASSUME NEW G, LeafSteps(d, G), Persists(H, G)
      PROVE  \A g \in Leaves : leaf[g].force_exit => leaf'[g].force_exit
  BY <1>1, <1>2 DEF LeafSteps, Persists
<1>3. ASSUME NEW m, LeafInfo(d, m) \/ LeafSwitch(d, m) \/ LeafRefuses(d, m)
                      \/ LeafDelete(d, m) \/ LeafMisrouted(d, m)
      PROVE  \A g \in Leaves : leaf[g].force_exit => leaf'[g].force_exit
  <2>1. \E r : \/ LeafSteps(d, [H EXCEPT !.pc = "reply", !.response = r])
               \/ \E s : LeafSteps(d, [H EXCEPT !.pc = "reply", !.state = s, !.response = r])
               \/ LeafSteps(d, [H EXCEPT !.pc = "reply", !.force_exit = TRUE, !.response = r])
               \/ LeafSteps(d, [H EXCEPT !.pc = "reply",
                                         !.response = Response(d, @.cmd, r, <<>>)])
    BY <1>3 DEF LeafInfo, LeafSwitch, LeafRefuses, LeafDelete, LeafMisrouted
  <2>2. \A r : /\ Persists(H, [H EXCEPT !.pc = "reply", !.response = r])
               /\ \A s : Persists(H, [H EXCEPT !.pc = "reply", !.state = s, !.response = r])
               /\ Persists(H, [H EXCEPT !.pc = "reply", !.force_exit = TRUE, !.response = r])
               /\ Persists(H, [H EXCEPT !.pc = "reply",
                                        !.response = Response(d, @.cmd, r, <<>>)])
    BY <1>1 DEF Persists
  <2> HIDE DEF H
  <2> QED
    BY <1>2, <2>1, <2>2
<1>4. ASSUME NEW m, LeafChangeParent(d, m) \/ LeafBlocks(d, m)
      PROVE  \A g \in Leaves : leaf[g].force_exit => leaf'[g].force_exit
  <2>1. \/ \E s, p, r : LeafSteps(d, [H EXCEPT !.pc = "reply", !.snd = s, !.parent_id = p,
                                               !.response = r])
        \/ LeafSteps(d, [H EXCEPT !.pc = "blocked"])
    BY <1>4 DEF LeafChangeParent, LeafBlocks
  <2>2. /\ \A s, p, r : Persists(H, [H EXCEPT !.pc = "reply", !.snd = s, !.parent_id = p,
                                              !.response = r])
        /\ Persists(H, [H EXCEPT !.pc = "blocked"])
    BY <1>1 DEF Persists
  <2> HIDE DEF H
  <2> QED
    BY <1>2, <2>1, <2>2
<1>5. CASE LeafEndOfFile(d) \/ LeafReply(d)
  <2>1. \E r : \/ LeafSteps(d, [H EXCEPT !.pc = "reply", !.force_exit = TRUE, !.response = r])
               \/ LeafSteps(d, [H EXCEPT !.pc = "read", !.response = r])
    BY <1>5 DEF LeafEndOfFile, LeafReply
  <2>2. \A r : /\ Persists(H, [H EXCEPT !.pc = "reply", !.force_exit = TRUE, !.response = r])
               /\ Persists(H, [H EXCEPT !.pc = "read", !.response = r])
    BY <1>1 DEF Persists
  <2> HIDE DEF H
  <2> QED
    BY <1>2, <2>1, <2>2
<1>6. CASE LeafTerminates(d)
  BY <1>6 DEF LeafTerminates
<1> QED
  BY <1>3, <1>4, <1>5, <1>6 DEF LeafStep

\* A device that has been told to exit is never told otherwise, nor forgets it.
LEMMA ToldForGood ==
    ASSUME TypeOK, [Next]_vars
    PROVE  \A d \in Devices : ToldToExit(d) => ToldToExit(d)'
<1> DEFINE HubsTold == \A h \in Hubs : hub[h].force_exit => hub'[h].force_exit
           TimersTold == \A t \in Timers : timer[t].force_exit => timer'[t].force_exit
           LeavesTold == \A d \in Leaves : leaf[d].force_exit => leaf'[d].force_exit
<1>1. PipesTypeOK /\ LeafTypeOK /\ HubTypeOK /\ TimerTypeOK
  BY DEF TypeOK
<1>2. SUFFICES HubsTold /\ TimersTold /\ LeavesTold
  BY Ids DEF ToldToExit
<1>3. /\ UNCHANGED hub => HubsTold
      /\ UNCHANGED timerVars => TimersTold
      /\ UNCHANGED leaf => LeavesTold
  BY DEF timerVars
<1> HIDE DEF HubsTold, TimersTold, LeavesTold
<1>4. CASE UNCHANGED vars
  BY <1>3, <1>4 DEF vars
<1>5. CASE UserTypes \/ ManualInteraction \/ \E p \in DOMAIN exit_code : Crashes(p)
  BY <1>3, <1>5 DEF UserTypes, ManualInteraction, Crashes
<1>6. CASE ClockTicks
  <2>1. MinutePasses /\ UNCHANGED <<hub, leaf>>
    BY <1>6 DEF ClockTicks
  <2>2. TimersTold
    BY <1>1, <2>1, TimerSchedulePersists DEF TimersTold
  <2> QED
    BY <1>3, <2>1, <2>2
<1>7. CASE ControllerStep
  BY <1>3, <1>7 DEF ControllerStep
<1>8. ASSUME NEW d \in Leaves, LeafProcess(d)
      PROVE  HubsTold /\ TimersTold /\ LeavesTold
  <2>1. LeafStep(d) /\ UNCHANGED <<hub, timerVars>>
    BY <1>8 DEF LeafProcess
  <2>2. LeavesTold
    BY <1>1, <2>1, LeafPersists DEF LeavesTold
  <2> QED
    BY <1>3, <2>1, <2>2
<1>9. ASSUME NEW h \in Hubs, HubMainThread(h) \/ HubBottomUpThread(h)
      PROVE  HubsTold /\ TimersTold /\ LeavesTold
  <2>1. /\ HubTopDown(h) \/ HubExits(h) \/ HubBottomUp(h)
        /\ UNCHANGED <<timerVars, leaf>>
    BY <1>9 DEF HubMainThread, HubBottomUpThread
  <2>2. HubsTold
    BY <1>1, <2>1, HubTopDownPersists, HubBottomUpPersists DEF HubsTold
  <2> QED
    BY <1>3, <2>1, <2>2
<1>10. ASSUME NEW t \in Timers, TimerThreads(t)
       PROVE  HubsTold /\ TimersTold /\ LeavesTold
  <2>1. /\ TimerMain(t) \/ TimerBottomUp(t) \/ TimerSchedule(t)
        /\ UNCHANGED <<hub, leaf>>
    BY <1>10 DEF TimerThreads
  <2>2. TimersTold
    BY <1>1, <2>1, TimerMainPersists, TimerBottomUpPersists, TimerSchedulePersists
       DEF TimersTold
  <2> QED
    BY <1>3, <2>1, <2>2
<1>11. ASSUME NEW d, Terminates(d)
       PROVE  HubsTold /\ TimersTold /\ LeavesTold
  <2>1. CASE d \in Leaves /\ LeafTerminates(d) /\ UNCHANGED <<hub, timerVars>>
    <3>1. LeavesTold
      BY <1>1, <2>1, LeafPersists DEF LeavesTold
    <3> QED
      BY <1>3, <2>1, <3>1
  <2>2. CASE d \in Hubs /\ HubTerminates(d) /\ UNCHANGED <<leaf, timerVars>>
    <3>1. HubsTold
      BY <1>1, <2>2, HubTopDownPersists DEF HubsTold
    <3> QED
      BY <1>3, <2>2, <3>1
  <2>3. CASE d \in Timers /\ TimerTerminates(d) /\ UNCHANGED <<leaf, hub>>
    <3>1. TimersTold
      BY <1>1, <2>3, TimerMainPersists DEF TimersTold
    <3> QED
      BY <1>3, <2>3, <3>1
  <2> QED
    BY <1>11, <2>1, <2>2, <2>3 DEF Terminates
<1>12. ASSUME NEW d \in ToAdd, Starting(d)
       PROVE  HubsTold /\ TimersTold /\ LeavesTold
  BY <1>3, <1>12 DEF Starting
<1> QED
  BY <1>4, <1>5, <1>6, <1>7, <1>8, <1>9, <1>10, <1>11, <1>12 DEF Next, SystemStep

\* An exit is the end of one process and the start of none.
LEMMA ExitsOnlyEnds ==
    ASSUME PipesTypeOK, NEW p, Alive(p), NEW code \in {"OK", "error", "signal"}, NEW q,
           Exits(p, code, q)
    PROVE  \A d \in Devices : /\ Alive(d)' => Alive(d)
                              /\ exit_code'[d] = "absent" <=> exit_code[d] = "absent"
  BY DEF PipesTypeOK, Exits, Alive

\* Only the controller's fork brings a device to life, no device that was there
\* becomes one that never was, and only the controller makes and removes names.
LEMMA OnlyForksStart ==
    ASSUME TypeOK, [Next]_vars, ~AddForks
    PROVE  /\ \A d \in Devices : /\ Alive(d)' => Alive(d)
                                 /\ exit_code'[d] = "absent" <=> exit_code[d] = "absent"
           /\ ControllerStep \/ UNCHANGED fifos
<1> DEFINE Named == ControllerStep \/ UNCHANGED fifos
           OnlyEnds == /\ Named
                       /\ \A d \in Devices : /\ Alive(d)' => Alive(d)
                                             /\ exit_code'[d] = "absent" <=> exit_code[d] = "absent"
<1>0. (UNCHANGED fifos => Named) /\ (ControllerStep => Named)
  OBVIOUS
<1>1. PipesTypeOK
  BY DEF TypeOK
<1>2. UNCHANGED exit_code /\ Named => OnlyEnds
  BY DEF Alive
<1>3. ASSUME NEW p, NEW code \in {"OK", "error", "signal"}, NEW q, Exits(p, code, q),
             Alive(p), Named
      PROVE  OnlyEnds
  BY <1>1, <1>3, ExitsOnlyEnds
<1> SUFFICES OnlyEnds
  OBVIOUS
<1> HIDE DEF OnlyEnds, Named
<1>4. CASE UNCHANGED vars
  BY <1>0, <1>2, <1>4 DEF vars, pipes
<1>5. CASE UserTypes
  BY <1>0, <1>2, <1>5 DEF UserTypes, CheckUserCommand, pipes
<1>6. CASE ManualInteraction
  BY <1>0, <1>2, <1>6 DEF ManualInteraction
<1>7. CASE ClockTicks
  BY <1>0, <1>2, <1>7 DEF ClockTicks, MinutePasses, pipes
<1>8. ASSUME NEW p, Crashes(p) PROVE OnlyEnds
  BY <1>0, <1>3, <1>8 DEF Crashes, Running, Alive
<1>9. CASE ControllerStep
  <2>0. Named
    BY <1>0, <1>9
  <2>1. CASE ExecuteUserCommand \/ DevicesReaped \/ AddInserts \/ ExecuteExit
    BY <2>0, <1>2, <2>1 DEF ExecuteUserCommand, DevicesReaped, AddInserts, ExecuteExit, pipes
  <2>2. CASE ReceiveResponse
    <3>1. ControllerTypeOK
      BY DEF TypeOK
    <3> QED
      BY <1>1, <1>2, <2>0, <2>2, <3>1, ResponsesDropNobody
  <2>3. CASE SigchldRoutine
    <3>1. \E missed \in SUBSET {d \in Devices : DiedWithError(d)} : exit_code' = [p \in DOMAIN exit_code |->
                                       IF p \in missed THEN "missed" ELSE exit_code[p]]
      BY <2>3 DEF SigchldRoutine
    <3> QED
      BY <1>1, <2>0, <3>1 DEF PipesTypeOK, Alive, OnlyEnds, DiedWithError
  <2>4. CASE SigchldChecks \/ ControllerExits \/ InputEnds
    <3>1. UNCHANGED pipes \/ (Alive(CONTROLLER_ID) /\ Exits(CONTROLLER_ID, "OK", up))
      BY <2>4 DEF SigchldChecks, ControllerExits, InputEnds, Shutdown
    <3> QED
      BY <2>0, <1>2, <1>3, <3>1 DEF pipes
  <2> QED
    BY <1>9, <2>1, <2>2, <2>3, <2>4 DEF ControllerStep
<1>10. ASSUME NEW d \in Leaves, LeafProcess(d) PROVE OnlyEnds
  <2>1. /\ UNCHANGED fifos
        /\ \/ UNCHANGED exit_code
           \/ Alive(d) /\ \E q : \E code \in {"OK", "error"} : Exits(d, code, q)
    BY <1>10 DEF LeafProcess, LeafStep, LeafInfo, LeafSwitch, LeafRefuses, LeafChangeParent,
       LeafBlocks, LeafDelete, LeafMisrouted, LeafTakes, LeafEndOfFile, LeafReply, pipes
  <2> QED
    BY <1>0, <1>2, <1>3, <2>1
<1>11. ASSUME NEW h \in Hubs, HubMainThread(h) \/ HubBottomUpThread(h) PROVE OnlyEnds
  <2>1. HubTopDown(h) \/ HubExits(h) \/ HubBottomUp(h)
    BY <1>11 DEF HubMainThread, HubBottomUpThread
  <2>2. CASE HubTopDown(h)
    <3>1. UNCHANGED <<exit_code, fifos>>
      BY <2>2 DEF HubTopDown, HubChangeParent, HubForwards, HubRemoves, HubAnswersChildless,
         HubRefuses, HubRoutes, TopDownReads, HubSends, HubBroadcasts, HubRemovesChild,
         HubTypes, HubReplies, HubEndOfFile, pipes
    <3> QED
      BY <1>0, <1>2, <3>1
  <2>3. CASE HubBottomUp(h)
    <3>1. UNCHANGED <<exit_code, fifos>>
      BY <2>3 DEF HubBottomUp, HubGarbled, HubDirectChildAdded, HubIndirectChildAdded,
         HubChildForgotten, HubPendingAnswered, HubChildDeleted, HubPassesOn, BottomUp
    <3> QED
      BY <1>0, <1>2, <3>1
  <2>4. CASE HubExits(h)
    <3>1. HubExitCode(h) \in {"OK", "error", "signal"}
      BY DEF HubExitCode
    <3> QED
      BY <1>0, <1>3, <2>4, <3>1 DEF HubExits, Running, Alive
  <2> QED
    BY <2>1, <2>2, <2>3, <2>4
<1>12. ASSUME NEW t \in Timers, TimerThreads(t) PROVE OnlyEnds
  <2>1. TimerMain(t) \/ TimerBottomUp(t) \/ TimerSchedule(t)
    BY <1>12 DEF TimerThreads
  <2>2. ASSUME NEW m, NEW H, NEW lost, NEW F, AsksChild(t, m, H, lost, F)
        PROVE  UNCHANGED <<exit_code, fifos>>
    BY <2>2 DEF AsksChild
  <2>3. ASSUME NEW m,
               \/ TimerForwards(t, m) \/ TimerInfo(t, m) \/ TimerSwitch(t, m)
               \/ TimerDelete(t, m) \/ TimerChangeParent(t, m) \/ TimerRemoveChild(t, m)
               \/ TimerRegistry(t, m)
        PROVE  UNCHANGED <<exit_code, fifos>>
    <3>1. CASE TimerForwards(t, m) \/ TimerChangeParent(t, m) \/ TimerRemoveChild(t, m)
                 \/ TimerRegistry(t, m)
      BY <3>1 DEF TimerForwards, TimerChangeParent, TimerRemoveChild, TimerRegistry
    <3>2. CASE TimerInfo(t, m)
      BY <2>2, <3>2 DEF TimerInfo, AnswersItself
    <3>3. CASE TimerSwitch(t, m)
      BY <2>2, <3>3 DEF TimerSwitch, AnswersItself
    <3>4. CASE TimerDelete(t, m)
      BY <2>2, <3>4 DEF TimerDelete, AnswersItself
    <3> QED
      BY <2>3, <3>1, <3>2, <3>3, <3>4
  <2>4. CASE TimerWritesOn(t) \/ TimerReleasesChild(t) \/ TimerReschedules(t)
               \/ TimerReplies(t) \/ TimerReplays(t) \/ TimerReplaysBranch(t)
               \/ TimerReplaysChild(t) \/ TimerAnnounces(t) \/ TimerEndOfFile(t)
               \/ TimerLeaves(t)
    <3>1. UNCHANGED <<exit_code, fifos>>
      BY <2>4 DEF TimerWritesOn, TimerReleasesChild, TimerReschedules, TimerReplies,
         TimerReplays, TimerReplaysBranch, TimerReplaysChild, TimerAnnounces, TimerEndOfFile,
         TimerLeaves, TimerCancelsResponses, TellsParent, pipes
    <3> QED
      BY <1>0, <1>2, <3>1
  <2>5. CASE TimerExits(t)
    BY <1>0, <1>3, <2>5 DEF TimerExits, Running, Alive
  <2>6. CASE TimerBottomUp(t)
    <3>1. UNCHANGED <<exit_code, fifos>>
      BY <2>6 DEF TimerBottomUp, TimerPassesGarbled, TimerChildAcquired,
         TimerDescendantAcquired, TimerDescendantRemoved, TimerChildDeleted, TimerMirrors,
         TimerMirrorsDelete, TimerWritesUp, Bottom, TellsParent, pipes
    <3> QED
      BY <1>0, <1>2, <3>1
  <2>7. CASE TimerSchedule(t)
    <3>1. UNCHANGED <<exit_code, fifos>>
      BY <2>7 DEF TimerSchedule, ScheduleSleeps, ScheduleWakes, ScheduleSwitches,
         ScheduleUpdates, ScheduleReleasesChild, pipes
    <3> QED
      BY <1>0, <1>2, <3>1
  <2> QED
    BY <1>0, <1>2, <2>1, <2>3, <2>4, <2>5, <2>6, <2>7 DEF TimerMain
<1>13. ASSUME NEW d, Terminates(d) PROVE OnlyEnds
  BY <1>0, <1>2, <1>3, <1>13 DEF Terminates, LeafTerminates, HubTerminates, TimerTerminates,
     TimerCancelsResponses, Running, Alive, pipes
<1>14. ASSUME NEW d \in ToAdd, Starting(d) PROVE OnlyEnds
  <2>1. CASE DeviceStarts(d)
    BY <1>0, <1>1, <2>1 DEF DeviceStarts, PipesTypeOK, Alive, OnlyEnds
  <2>2. CASE StartFails(d)
    BY <1>0, <1>3, <2>2 DEF StartFails, Alive
  <2> QED
    BY <1>14, <2>1, <2>2 DEF Starting
<1> QED
  BY <1>4, <1>5, <1>6, <1>7, <1>8, <1>9, <1>10, <1>11, <1>12, <1>13, <1>14
     DEF Next, SystemStep

\* What a step must not do for nobody to be forgotten: whoever is alive after
\* it, and was in the table, waited for, terminated or being added, still is one
\* of them.
LEMMA StillRemembered ==
    ASSUME NobodyForgotten,
           \A d \in Devices : ToldToExit(d) => ToldToExit(d)',
           \A d \in Devices : Alive(d)' => Alive(d) \/ user_command' = AddCommand(d),
           \A d \in Devices : Alive(d)' /\ d \in DOMAIN routing_table =>
               d \in DOMAIN routing_table' \cup signalled' \cup exiting',
           \A d \in Devices : Alive(d)' /\ d \in signalled \cup exiting =>
               d \in signalled' \cup exiting',
           \A d \in Devices : Alive(d)' /\ user_command = AddCommand(d) =>
               d \in DOMAIN routing_table' \/ user_command' = AddCommand(d)
    PROVE  NobodyForgotten'
<1>1. SUFFICES ASSUME NEW d \in Devices, Alive(d)', d \notin DOMAIN routing_table'
               PROVE  \/ ToldToExit(d)' \/ d \in signalled' \cup exiting'
                      \/ user_command' = AddCommand(d)
  BY DEF NobodyForgotten, AddCommand
<1>2. CASE ToldToExit(d)
  BY <1>2
<1>3. CASE d \in signalled \cup exiting
  BY <1>1, <1>3
<1>4. CASE user_command = AddCommand(d)
  BY <1>1, <1>4
<1>5. CASE d \in DOMAIN routing_table
  BY <1>1, <1>5
<1>6. CASE ~Alive(d)
  BY <1>1, <1>6
<1> QED
  BY <1>2, <1>3, <1>4, <1>5, <1>6 DEF NobodyForgotten

\* Of all the commands only an add is one.
LEMMA OnlyAddsAdd ==
    ASSUME NEW c, NEW d, c = AddCommand(d)
    PROVE  c.cmd = "add" /\ c.dst = d /\ c # NoRequest /\ c # ExitCommand /\ c # EndOfInput
           /\ c \notin Requests
<1>1. c.cmd = "add" /\ c.dst = d
  BY DEF AddCommand
<1>2. c # NoRequest /\ c # ExitCommand /\ c # EndOfInput
  BY <1>1 DEF NoRequest, ExitCommand, EndOfInput
<1>3. "add" \notin Commands
  BY DEF Commands, Switches, PowerSwitches, DoorSwitches, Links, Registries
<1>4. c \notin Requests
  BY <1>1, <1>3, RequestFields
<1> QED
  BY <1>1, <1>2, <1>4

\* What a fork is for.
LEMMA AddsADevice ==
    ASSUME ControllerTypeOK, AddForks
    PROVE  user_command = AddCommand(user_command.dst) /\ user_command.dst \in Devices
<1>1. user_command.cmd = "add"
  BY DEF AddForks
<1>2. user_command \in UserCommands
  BY <1>1, UserCommandsAre DEF ControllerTypeOK
<1>3. user_command \notin Requests
  BY <1>1, RequestFields DEF Commands, Switches, PowerSwitches, DoorSwitches, Links,
     Registries
<1>4. user_command # ExitCommand /\ user_command # EndOfInput
  BY <1>1 DEF ExitCommand, EndOfInput
<1>5. PICK d \in Devices : user_command = AddCommand(d)
  BY <1>2, <1>3, <1>4 DEF UserCommands
<1> QED
  BY <1>5, OnlyAddsAdd

\* The add of a device: from its fork until its entry it is remembered as the
\* command under way.
LEMMA AddRemembers ==
    ASSUME TypeOK, NobodyForgotten, [Next]_vars, AddForks \/ AddInserts
    PROVE  NobodyForgotten'
<1>1. PipesTypeOK /\ ControllerTypeOK
  BY DEF TypeOK
<1>2. \A d \in Devices : ToldToExit(d) => ToldToExit(d)'
  BY ToldForGood
<1> DEFINE x == user_command.dst
<1>3. CASE AddForks
  <2>1. user_command = AddCommand(x) /\ x \in Devices
    BY <1>1, <1>3, AddsADevice
  <2>2. /\ x \in Absent
        /\ \E forked \in BOOLEAN :
              /\ exit_code' = IF forked THEN [exit_code EXCEPT ![x] = "starting"] ELSE exit_code
              /\ user_command' = IF forked THEN user_command ELSE NoRequest
        /\ UNCHANGED <<routing_table, exiting, signalled>>
    BY <1>3 DEF AddForks, shutdownVars
  <2>3. \A d \in Devices : Alive(d)' => Alive(d) \/ user_command' = AddCommand(d)
    BY <1>1, <2>1, <2>2 DEF PipesTypeOK, Alive
  <2>4. \A d \in Devices : Alive(d)' /\ user_command = AddCommand(d) =>
            d \in DOMAIN routing_table' \/ user_command' = AddCommand(d)
    <3>1. \A d \in Devices : user_command = AddCommand(d) => d = x
      BY OnlyAddsAdd
    <3>2. ~Alive(x)
      BY <2>2 DEF Absent, Alive
    <3> QED
      BY <2>3, <3>1, <3>2
  <2> QED
    BY <1>2, <2>2, <2>3, <2>4, StillRemembered
<1>4. CASE AddInserts
  <2>1. /\ routing_table' = InsertDirect(routing_table, x, TypeOf(x), CONTROLLER_ID,
                                         LowestFree(files[CONTROLLER_ID]))
        /\ UNCHANGED <<exiting, signalled, exit_code>>
    BY <1>4 DEF AddInserts, shutdownVars
  <2>2. DOMAIN routing_table' = DOMAIN routing_table \cup {x}
    BY <2>1 DEF InsertDirect, InsertRoute
  <2>3. \A d \in Devices : Alive(d)' => Alive(d)
    BY <2>1 DEF Alive
  <2>4. \A d \in Devices : user_command = AddCommand(d) => d \in DOMAIN routing_table'
    BY <2>2, OnlyAddsAdd
  <2> QED
    BY <1>2, <2>1, <2>2, <2>3, <2>4, StillRemembered
<1> QED
  BY <1>3, <1>4

\* A SIGCHLD thread takes out the dead, an answer those that are waited for, and
\* the end of the controller terminates who is left.
LEMMA ControllerRemembers ==
    ASSUME TypeOK, NobodyForgotten, [Next]_vars, ControllerStep, ~AddForks, ~AddInserts
    PROVE  NobodyForgotten'
<1>1. PipesTypeOK /\ ControllerTypeOK
  BY DEF TypeOK
<1>2. \A d \in Devices : ToldToExit(d) => ToldToExit(d)'
  BY ToldForGood
<1>3. \A d \in Devices : Alive(d)' => Alive(d)
  BY OnlyForksStart
<1>4. ASSUME \A d \in Devices : Alive(d)' /\ d \in DOMAIN routing_table =>
                 d \in DOMAIN routing_table' \cup signalled' \cup exiting',
             \A d \in Devices : Alive(d)' /\ d \in signalled \cup exiting =>
                 d \in signalled' \cup exiting',
             \A d \in Devices : user_command = AddCommand(d) => user_command' = user_command
      PROVE  NobodyForgotten'
  BY <1>2, <1>3, <1>4, StillRemembered
<1>5. CASE ExecuteUserCommand
  <2>1. UNCHANGED <<routing_table, exiting, signalled>> /\ user_command \in Requests
    BY <1>5 DEF ExecuteUserCommand, shutdownVars
  <2> QED
    BY <1>4, <2>1, OnlyAddsAdd
<1>6. CASE ReceiveResponse
  <2>1. /\ exiting = {} /\ UNCHANGED <<signalled, user_command>>
        /\ \A d \in DOMAIN routing_table : Alive(d) =>
              d \in DOMAIN routing_table' \cup exiting'
    BY <1>1, <1>6, ResponsesDropNobody
  <2> QED
    BY <1>3, <1>4, <2>1
<1>7. CASE DevicesReaped
  <2>1. /\ UNCHANGED <<routing_table, user_command, signalled, exit_code>>
        /\ \A d \in exiting : ~Alive(d)
    BY <1>7 DEF DevicesReaped, shutdownVars, pipes
  <2> QED
    BY <1>3, <1>4, <2>1
<1>8. CASE SigchldRoutine
  <2>1. /\ DOMAIN routing_table' = {d \in DOMAIN routing_table : ~DiedWithError(d)}
        /\ signalled \subseteq signalled'
    BY <1>1, <1>8, SigchldBuries
  <2>2. UNCHANGED <<user_command, exiting>>
    BY <1>8, Zenon DEF SigchldRoutine
  <2>3. \A d : DiedWithError(d) => ~Alive(d)
    BY DEF DiedWithError, Alive
  <2> QED
    BY <1>3, <1>4, <2>1, <2>2, <2>3
<1>9. CASE ExecuteExit
  <2>1. UNCHANGED <<routing_table, exiting, signalled>> /\ user_command = ExitCommand
    BY <1>9, Zenon DEF ExecuteExit
  <2> QED
    BY <1>4, <2>1, OnlyAddsAdd
<1>10. ASSUME Shutdown PROVE UNCHANGED <<routing_table, exiting>> /\ signalled \subseteq signalled'
  BY <1>10 DEF Shutdown
<1>11. CASE SigchldChecks \/ ControllerExits
  <2>1. /\ UNCHANGED user_command
        /\ Shutdown \/ UNCHANGED <<routing_table, exiting, signalled>>
    BY <1>11 DEF SigchldChecks, ControllerExits
  <2> QED
    BY <1>4, <1>10, <2>1
<1>12. CASE InputEnds
  <2>1. user_command = EndOfInput /\ Shutdown
    BY <1>12 DEF InputEnds
  <2> QED
    BY <1>4, <1>10, <2>1, OnlyAddsAdd
<1> QED
  BY <1>5, <1>6, <1>7, <1>8, <1>9, <1>11, <1>12 DEF ControllerStep

\* What the controller knows is its own and its user's.
LEMMA OthersWriteNoTable ==
    ASSUME [Next]_vars
    PROVE  ControllerStep \/ UserTypes \/ UNCHANGED controllerVars
<1>1. CASE UNCHANGED vars
  BY <1>1 DEF vars
<1>2. CASE ManualInteraction \/ ClockTicks
  BY <1>2 DEF ManualInteraction, ClockTicks
<1>3. CASE \E p \in DOMAIN exit_code : Crashes(p)
  BY <1>3 DEF Crashes
<1>4. CASE SystemStep
  BY <1>4 DEF SystemStep, LeafProcess, HubMainThread, HubBottomUpThread, TimerThreads,
     Terminates, Starting, DeviceStarts, StartFails
<1> QED
  BY <1>1, <1>2, <1>3, <1>4 DEF Next

\* No other step writes the table or what the controller waits for.
LEMMA NextRemembers ==
    ASSUME TypeOK, NobodyForgotten, [Next]_vars
    PROVE  NobodyForgotten'
<1>1. CASE ControllerStep
  BY <1>1, AddRemembers, ControllerRemembers
<1>2. CASE ~ControllerStep /\ UNCHANGED controllerVars
  <2>1. UNCHANGED <<routing_table, exiting, signalled, user_command>>
    BY <1>2 DEF controllerVars, shutdownVars
  <2>2. \A d \in Devices : ToldToExit(d) => ToldToExit(d)'
    BY ToldForGood
  <2>3. CASE AddForks
    BY <2>3, AddRemembers
  <2>4. CASE ~AddForks
    <3>1. \A d \in Devices : Alive(d)' => Alive(d)
      BY <2>4, OnlyForksStart
    <3> QED
      BY <2>1, <2>2, <3>1, StillRemembered
  <2> QED
    BY <2>3, <2>4
<1>3. CASE UserTypes
  <2>1. PICK c : CheckUserCommand(c)
    BY <1>3 DEF UserTypes
  <2>2. /\ UNCHANGED <<routing_table, exiting, signalled, exit_code>>
        /\ user_command = NoRequest
    BY <2>1 DEF CheckUserCommand, shutdownVars, pipes
  <2>3. \A d \in Devices : ToldToExit(d) => ToldToExit(d)'
    BY ToldForGood
  <2>4. \A d \in Devices : Alive(d)' => Alive(d)
    BY <2>2 DEF Alive
  <2> QED
    BY <2>2, <2>3, <2>4, OnlyAddsAdd, StillRemembered
<1> QED
  BY <1>1, <1>2, <1>3, OthersWriteNoTable

\* Whatever the user asks for and whoever dies, a device that runs and is not
\* in the controller's table, which is all that an exit terminates, has been told
\* to end, is waited for, or is still being added.
THEOREM NeverForgotten == Spec => []NobodyForgotten
<1>1. Init => NobodyForgotten
  <2> SUFFICES ASSUME Init PROVE NobodyForgotten
    OBVIOUS
  <2>1. /\ DOMAIN routing_table = Devices \ ToAdd
        /\ exit_code = [p \in Devices \cup {CONTROLLER_ID} |->
                            IF p \in ToAdd THEN "absent" ELSE "none"]
    BY DEF Init
  <2> QED
    BY <2>1 DEF NobodyForgotten, Alive
<1>2. TypeOK /\ NobodyForgotten /\ [Next]_vars => NobodyForgotten'
  BY NextRemembers
<1> QED
  BY <1>1, <1>2, TypeCorrect, PTL DEF Spec

\* force_exit is never reset: a device that has been told to exit stays told,
\* whatever is linked, deleted, lost or killed meanwhile.
THEOREM NeverToldOtherwise == Spec => [][\A d \in Devices : ToldToExit(d) => ToldToExit(d)']_vars
<1>1. TypeOK /\ [Next]_vars => \A d \in Devices : ToldToExit(d) => ToldToExit(d)'
  BY ToldForGood
<1> QED
  BY <1>1, TypeCorrect, PTL DEF Spec

\* The device's process has ended.
Ended(d) == ~Alive(d) /\ d \notin Absent

\* Nobody is forked twice.
LEMMA EndedForGood ==
    ASSUME TypeOK, [Next]_vars
    PROVE  \A d \in Devices : Ended(d) => Ended(d)'
<1> SUFFICES ASSUME NEW d \in Devices, Ended(d)
             PROVE  Ended(d)'
  OBVIOUS
<1>1. CASE AddForks
  BY <1>1 DEF TypeOK, PipesTypeOK, AddForks, Ended, Absent, Alive
<1>2. CASE ~AddForks
  BY <1>2, OnlyForksStart DEF Ended, Absent
<1> QED
  BY <1>1, <1>2

\* A device that has ended stays so: an id is given to one process only.
THEOREM NeverRevived == Spec => [][\A d \in Devices : Ended(d) => Ended(d)']_vars
<1>1. TypeOK /\ [Next]_vars => \A d \in Devices : Ended(d) => Ended(d)'
  BY EndedForGood
<1> QED
  BY <1>1, TypeCorrect, PTL DEF Spec

-----------------------------------------------------------------------------
(* No name is left of a device that the controller does not know.          *)

\* Every name is that of a device in the table, of the one being added, or of
\* one that was never forked, which a failed fork has left.
NamesKnown ==
    \A d \in fifos : \/ d \in DOMAIN routing_table \/ d \in Absent
                     \/ user_command = AddCommand(d)

\* A step that makes no name and takes away that of each device it drops.
LEMMA NamesStayKnown ==
    ASSUME NamesKnown,
           fifos' \subseteq fifos, fifos' \cap DOMAIN routing_table \subseteq DOMAIN routing_table',
           Absent \subseteq Absent',
           \A d \in fifos : user_command = AddCommand(d) =>
               d \in DOMAIN routing_table' \/ user_command' = AddCommand(d)
    PROVE  NamesKnown'
<1>1. \A d : AddCommand(d)' = AddCommand(d)
  BY DEF AddCommand
<1> QED
  BY <1>1 DEF NamesKnown

\* Names come with a fork, and go with the entry or before it.
LEMMA NextKnowsNames ==
    ASSUME TypeOK, NamesKnown, [Next]_vars
    PROVE  NamesKnown'
<1> DEFINE x == user_command.dst
<1>1. PipesTypeOK /\ ControllerTypeOK
  BY DEF TypeOK
<1>2. CASE AddForks
  <2>1. /\ x \in Absent /\ UNCHANGED routing_table /\ fifos' = fifos \cup {x}
        /\ \E forked \in BOOLEAN :
              /\ exit_code' = IF forked THEN [exit_code EXCEPT ![x] = "starting"] ELSE exit_code
              /\ user_command' = IF forked THEN user_command ELSE NoRequest
    BY <1>2 DEF AddForks
  <2>2. user_command = AddCommand(x)
    BY <1>1, <1>2, AddsADevice
  <2>3. \A d : user_command = AddCommand(d) => d = x
    BY OnlyAddsAdd
  <2>4. \A d \in Absent : d # x => d \in Absent'
    BY <1>1, <2>1 DEF Absent, PipesTypeOK
  <2>5. x \in Absent' \/ user_command' = AddCommand(x)
    BY <2>1, <2>2 DEF Absent
  <2>6. \A d : AddCommand(d)' = AddCommand(d)
    BY DEF AddCommand
  <2> HIDE DEF x
  <2> QED
    BY <2>1, <2>3, <2>4, <2>5, <2>6 DEF NamesKnown
<1>3. CASE ~AddForks /\ ControllerStep
  <2>1. Absent \subseteq Absent'
    BY <1>3, OnlyForksStart DEF Absent
  <2>2. ASSUME fifos' \subseteq fifos,
               fifos' \cap DOMAIN routing_table \subseteq DOMAIN routing_table',
               \A d \in fifos : user_command = AddCommand(d) => user_command' = user_command
        PROVE  NamesKnown'
    BY <2>1, <2>2, NamesStayKnown
  <2>3. CASE AddInserts
    <3>1. /\ routing_table' = InsertDirect(routing_table, x, TypeOf(x), CONTROLLER_ID,
                                           LowestFree(files[CONTROLLER_ID]))
          /\ UNCHANGED fifos
      BY <2>3 DEF AddInserts
    <3>2. DOMAIN routing_table' = DOMAIN routing_table \cup {x}
      BY <3>1 DEF InsertDirect, InsertRoute
    <3>3. \A d : user_command = AddCommand(d) => d \in DOMAIN routing_table'
      BY <3>2, OnlyAddsAdd
    <3> QED
      BY <2>1, <3>1, <3>2, <3>3, NamesStayKnown
  <2>4. CASE ExecuteUserCommand
    <3>1. UNCHANGED <<routing_table, fifos>> /\ user_command \in Requests
      BY <2>4 DEF ExecuteUserCommand
    <3> QED
      BY <2>2, <3>1, OnlyAddsAdd
  <2>5. CASE ReceiveResponse
    BY <1>1, <2>2, <2>5, ResponsesDropNobody
  <2>6. CASE DevicesReaped
    BY <2>2, <2>6 DEF DevicesReaped, pipes
  <2>7. CASE SigchldRoutine
    <3>1. UNCHANGED user_command
      BY <2>7, Zenon DEF SigchldRoutine
    <3> QED
      BY <1>1, <2>2, <2>7, <3>1, SigchldBuries
  <2>8. CASE ExecuteExit
    <3>1. UNCHANGED <<routing_table, fifos>> /\ user_command = ExitCommand
      BY <2>8, Zenon DEF ExecuteExit
    <3> QED
      BY <2>2, <3>1, OnlyAddsAdd
  <2>9. Shutdown => UNCHANGED routing_table /\ fifos' \subseteq fifos
    BY DEF Shutdown
  <2>10. CASE SigchldChecks \/ ControllerExits
    <3>1. UNCHANGED user_command /\ (Shutdown \/ UNCHANGED <<routing_table, fifos>>)
      BY <2>10 DEF SigchldChecks, ControllerExits, pipes
    <3> QED
      BY <2>2, <2>9, <3>1
  <2>11. CASE InputEnds
    <3>1. user_command = EndOfInput /\ Shutdown
      BY <2>11 DEF InputEnds
    <3> QED
      BY <2>2, <2>9, <3>1, OnlyAddsAdd
  <2> QED
    BY <1>3, <2>3, <2>4, <2>5, <2>6, <2>7, <2>8, <2>10, <2>11 DEF ControllerStep
<1>4. CASE ~AddForks /\ ~ControllerStep
  <2>1. Absent \subseteq Absent' /\ UNCHANGED fifos
    BY <1>4, OnlyForksStart DEF Absent
  <2>2. CASE UNCHANGED controllerVars
    BY <2>1, <2>2, NamesStayKnown DEF controllerVars
  <2>3. CASE UserTypes
    <3>1. UNCHANGED routing_table /\ user_command = NoRequest
      BY <2>3 DEF UserTypes, CheckUserCommand
    <3> QED
      BY <2>1, <3>1, OnlyAddsAdd, NamesStayKnown
  <2> QED
    BY <1>4, <2>2, <2>3, OthersWriteNoTable
<1> QED
  BY <1>2, <1>3, <1>4

\* No add, delete, death, crash or exit leaves a named pipe of a device that has
\* neither an entry nor is being given one, except that of an add whose fork has
\* failed: half of NamesRemoved, and at every moment.
THEOREM NoNameUnknown == Spec => []NamesKnown
<1>1. Init => NamesKnown
  BY DEF Init, NamesKnown
<1>2. TypeOK /\ NamesKnown /\ [Next]_vars => NamesKnown'
  BY NextKnowsNames
<1> QED
  BY <1>1, <1>2, TypeCorrect, PTL DEF Spec

-----------------------------------------------------------------------------
(* The pipes the control processes take for open.                          *)

\* Every hub and timer that has not ended holds what it takes for open; one that
\* is not added yet is as it will be when it starts.
PipesHeld ==
    /\ \A h \in Hubs : ~Ended(h) => HubHolds(h, hub[h], files[h])
    /\ \A t \in Timers : ~Ended(t) => TimerHolds(t, timer[t], files[t])

\* A step of the network leaves every hub or timer that has not ended by then
\* what it holds.
StillHeld ==
    /\ \A h \in Hubs : ~Ended(h) /\ ~Ended(h)' /\ HubHolds(h, hub[h], files[h])
                           => HubHolds(h, hub'[h], files'[h])
    /\ \A t \in Timers : ~Ended(t) /\ ~Ended(t)' /\ TimerHolds(t, timer[t], files[t])
                             => TimerHolds(t, timer'[t], files'[t])

\* The steps that change none of what hubs and timers take for open or have.
LEMMA OthersStillHeld ==
    ASSUME UNCHANGED hub, UNCHANGED timer, OnlyFilesOf(CONTROLLER_ID)
    PROVE  StillHeld
<1>1. \A p \in Hubs \cup Timers : files'[p] = files[p]
  BY Ids DEF OnlyFilesOf
<1> QED
  BY <1>1 DEF StillHeld

\* A process that ends takes its own pipes with it, and nobody else's.
LEMMA ExitsStillHeld ==
    ASSUME PipesTypeOK, NEW p \in Devices \cup {CONTROLLER_ID},
           NEW code \in {"OK", "error", "signal"}, NEW q, Exits(p, code, q),
           UNCHANGED hub, UNCHANGED timer
    PROVE  StillHeld
<1>1. \A d \in Devices : d = p => Ended(d)'
  BY DEF Exits, PipesTypeOK, Ended, Absent, Alive
<1>2. \A r \in Hubs \cup Timers : r # p => files'[r] = files[r]
  BY Ids DEF Exits
<1> QED
  BY <1>1, <1>2, Ids DEF StillHeld

\* A hub's or a timer's own step that keeps what it holds keeps what all do.
LEMMA OwnStillHeld ==
    ASSUME \/ \E h \in Hubs : HubStays(h) /\ UNCHANGED timer
           \/ \E t \in Timers : TimerStays(t) /\ UNCHANGED hub
    PROVE  StillHeld
<1>1. ASSUME NEW h \in Hubs, HubStays(h), UNCHANGED timer PROVE StillHeld
  <2>1. \A p \in Hubs \cup Timers : p # h => files'[p] = files[p]
    BY <1>1, Ids DEF HubStays, OnlyFilesOf
  <2> QED
    BY <1>1, <2>1, Ids DEF HubStays, StillHeld
<1>2. ASSUME NEW t \in Timers, TimerStays(t), UNCHANGED hub PROVE StillHeld
  <2>1. \A p \in Hubs \cup Timers : p # t => files'[p] = files[p]
    BY <1>2, Ids DEF TimerStays, OnlyFilesOf
  <2> QED
    BY <1>2, <2>1, Ids DEF TimerStays, StillHeld
<1> QED
  BY <1>1, <1>2

\* The controller opens and closes pipes of its own, and its end closes all.
LEMMA ControllerStillHeld ==
    ASSUME PipesTypeOK, ControllerTypeOK, ControllerStep
    PROVE  StillHeld
<1>1. UNCHANGED hub /\ UNCHANGED timer
  BY DEF ControllerStep, timerVars
<1>2. UNCHANGED files => OnlyFilesOf(CONTROLLER_ID)
  BY DEF OnlyFilesOf
<1>3. \A F : files' = [files EXCEPT ![CONTROLLER_ID] = F] => OnlyFilesOf(CONTROLLER_ID)
  BY OwnFilesOnly
<1>4. CASE ExecuteUserCommand \/ DevicesReaped \/ AddForks \/ AddInserts \/ ExecuteExit
  <2>1. UNCHANGED files \/ \E F : files' = [files EXCEPT ![CONTROLLER_ID] = F]
    BY <1>4 DEF ExecuteUserCommand, DevicesReaped, AddForks, AddInserts, ExecuteExit, pipes
  <2> QED
    BY <1>1, <1>2, <1>3, <2>1, OthersStillHeld
<1>5. CASE ReceiveResponse
  <2>1. PICK r : \/ ShowResponse(r) \/ ChildRemoved(r) \/ RouteRefreshed(r) \/ MovedAway(r)
                 \/ MovedToController(r) \/ MovedBetweenDevices(r) \/ DeviceDeleted(r)
    BY <1>5 DEF ReceiveResponse
  <2>2. ChangesNothing(r) \/ \E T, F, q : Receives(r, T, F, q)
    BY <2>1, Zenon DEF ShowResponse, ChildRemoved, RouteRefreshed, MovedAway,
       MovedToController, MovedBetweenDevices, DeviceDeleted
  <2>3. \E F : files' = [files EXCEPT ![CONTROLLER_ID] = F]
    BY <2>2, Zenon DEF ChangesNothing, Receives
  <2> QED
    BY <1>1, <1>3, <2>3, OthersStillHeld
<1>6. CASE SigchldRoutine
  <2>1. files' = [files EXCEPT ![CONTROLLER_ID] = files'[CONTROLLER_ID]]
    BY <1>6, SigchldBuries
  <2> QED
    BY <1>1, <1>3, <2>1, OthersStillHeld
<1>7. CASE SigchldChecks \/ ControllerExits \/ InputEnds
  <2>1. UNCHANGED files \/ Exits(CONTROLLER_ID, "OK", up)
    BY <1>7 DEF SigchldChecks, ControllerExits, InputEnds, Shutdown, pipes
  <2>2. CASE UNCHANGED files
    BY <1>1, <1>2, <2>2, OthersStillHeld
  <2>3. CASE Exits(CONTROLLER_ID, "OK", up)
    BY <1>1, <2>3, ExitsStillHeld
  <2> QED
    BY <2>1, <2>2, <2>3
<1> QED
  BY <1>4, <1>5, <1>6, <1>7 DEF ControllerStep

\* A hub that takes a step keeps what it holds; one that exits has ended.
LEMMA HubStillHeld ==
    ASSUME PipesTypeOK, HubTypeOK, PipesHeld, UNCHANGED timer, NEW h \in Hubs,
           HubTopDown(h) \/ HubBottomUp(h) \/ HubExits(h) \/ HubTerminates(h)
    PROVE  StillHeld
<1>1. CASE HubExits(h) \/ HubTerminates(h)
  <2>1. HubExitCode(h) \in {"OK", "error", "signal"}
    BY DEF HubExitCode
  <2>2. UNCHANGED hub /\ \E code \in {"OK", "error", "signal"} : Exits(h, code, up)
    BY <1>1, <2>1 DEF HubExits, HubTerminates
  <2> QED
    BY <2>2, ExitsStillHeld, Ids
<1>2. CASE HubTopDown(h) \/ HubBottomUp(h)
  <2>1. Running(h)
    <3>1. ASSUME HubTopDown(h) PROVE Running(h)
      BY <3>1 DEF HubTopDown, HubChangeParent, HubForwards, HubRemoves,
         HubAnswersChildless, HubRefuses, HubRoutes, TopDownReads, HubSends,
         HubBroadcasts, HubRemovesChild, HubTypes, HubReplies, HubEndOfFile
    <3>2. ASSUME HubBottomUp(h) PROVE Running(h)
      BY <3>2 DEF HubBottomUp, HubGarbled, HubDirectChildAdded, HubIndirectChildAdded,
         HubChildForgotten, HubPendingAnswered, HubChildDeleted, HubPassesOn, BottomUp
    <3> QED
      BY <1>2, <3>1, <3>2
  <2>2. HubHolds(h, hub[h], files[h])
    BY <2>1 DEF PipesHeld, Ended, Alive, Running
  <2>3. HubStays(h)
    BY <1>2, <2>2, HubTopDownHolds, HubBottomUpHolds
  <2> QED
    BY <2>3, OwnStillHeld
<1> QED
  BY <1>1, <1>2

\* A timer that takes a step keeps what it holds; one that exits has ended.
LEMMA TimerStillHeld ==
    ASSUME PipesTypeOK, TimerTypeOK, PipesHeld, UNCHANGED hub, NEW t \in Timers, Running(t),
           TimerMain(t) \/ TimerTerminates(t) \/ TimerBottomUp(t) \/ TimerSchedule(t)
    PROVE  StillHeld
<1>1. CASE TimerExits(t)
  <2>1. UNCHANGED timer /\ \E code \in {"OK", "error", "signal"} : Exits(t, code, up)
    BY <1>1 DEF TimerExits, timerVars
  <2> QED
    BY <2>1, ExitsStillHeld, Ids
<1>2. CASE ~TimerExits(t)
  <2>1. TimerHolds(t, timer[t], files[t])
    BY DEF PipesHeld, Ended, Alive, Running
  <2>2. TimerStays(t)
    BY <1>2, <2>1, TimerMainHolds, TimerBottomUpHolds, TimerScheduleHolds
  <2> QED
    BY <2>2, OwnStillHeld
<1> QED
  BY <1>1, <1>2

\* Only a timer that runs takes a step.
LEMMA TimerRuns ==
    ASSUME NEW t \in Timers, TimerMain(t) \/ TimerBottomUp(t) \/ TimerSchedule(t)
    PROVE  Running(t)
<1>1. ASSUME NEW new, TimerStep(t, new) \/ Locking(t, new)
      PROVE  Running(t)
  BY <1>1 DEF Locking, TimerStep
<1>2. ASSUME NEW m, NEW H, NEW lost, NEW F, AsksChild(t, m, H, lost, F) \/ AnswersItself(t, H, lost)
      PROVE  Running(t)
  <2>1. \E new : Locking(t, new)
    BY <1>2 DEF AsksChild, AnswersItself
  <2> QED
    BY <1>1, <2>1
<1>3. ASSUME NEW m, TimerInfo(t, m) \/ TimerSwitch(t, m) \/ TimerDelete(t, m)
      PROVE  Running(t)
  <2>1. \E H, lost, F : AsksChild(t, m, H, lost, F) \/ AnswersItself(t, H, lost)
    BY <1>3 DEF TimerInfo, TimerSwitch, TimerDelete
  <2> QED
    BY <1>2, <2>1
<1>4. ASSUME NEW m,
             \/ TimerForwards(t, m) \/ TimerChangeParent(t, m) \/ TimerRemoveChild(t, m)
             \/ TimerRegistry(t, m)
      PROVE  Running(t)
  <2>1. \E new : Locking(t, new)
    BY <1>4 DEF TimerForwards, TimerChangeParent, UpOpens, TimerRemoveChild, TimerRegistry
  <2> QED
    BY <1>1, <2>1
<1>5. CASE TimerMain(t)
  <2>1. CASE \/ TimerWritesOn(t) \/ TimerReleasesChild(t) \/ TimerReschedules(t)
             \/ TimerReplies(t) \/ TimerReplays(t) \/ TimerReplaysBranch(t)
             \/ TimerReplaysChild(t) \/ TimerAnnounces(t) \/ TimerEndOfFile(t)
             \/ TimerLeaves(t)
    <3>1. \E new : TimerStep(t, new) \/ Locking(t, new)
      BY <2>1 DEF TimerWritesOn, TimerReleasesChild, TimerReschedules, TimerReplies,
         TimerReplays, TimerReplaysBranch, TimerReplaysChild, TimerAnnounces, TimerEndOfFile,
         TimerLeaves, TimerCancelsResponses, TellsParent
    <3> QED
      BY <1>1, <3>1
  <2>2. CASE TimerExits(t)
    BY <2>2 DEF TimerExits
  <2> QED
    BY <1>3, <1>4, <1>5, <2>1, <2>2 DEF TimerMain
<1>6. CASE TimerBottomUp(t)
  <2>1. ASSUME NEW r, NEW H, NEW next, Bottom(t, r, H, next) PROVE Running(t)
    BY <1>1, <2>1 DEF Bottom
  <2>2. \/ \E r, H, next : Bottom(t, r, H, next)
        \/ \E new : Locking(t, new)
    BY <1>6, Zenon DEF TimerBottomUp, TimerPassesGarbled, TimerChildAcquired,
       TimerDescendantAcquired, TimerDescendantRemoved, TimerChildDeleted, TimerMirrors,
       TimerMirrorsDelete, TimerWritesUp, TellsParent
  <2> QED
    BY <1>1, <2>1, <2>2
<1>7. CASE TimerSchedule(t)
  <2>1. \E new : TimerStep(t, new) \/ Locking(t, new)
    BY <1>7 DEF TimerSchedule, ScheduleSleeps, ScheduleWakes, ScheduleSwitches,
       ScheduleUpdates, ScheduleReleasesChild
  <2> QED
    BY <1>1, <2>1
<1> QED
  BY <1>5, <1>6, <1>7

\* No step of the network takes from a hub or timer that goes on what it holds.
LEMMA NextStillHeld ==
    ASSUME TypeOK, PipesHeld, [Next]_vars
    PROVE  StillHeld
<1>1. PipesTypeOK /\ HubTypeOK /\ TimerTypeOK /\ ControllerTypeOK
  BY DEF TypeOK
<1>2. ASSUME UNCHANGED files, UNCHANGED hub, UNCHANGED timer PROVE StillHeld
  BY <1>2, OthersStillHeld DEF OnlyFilesOf
<1>3. ASSUME NEW p \in Devices \cup {CONTROLLER_ID}, NEW q, UNCHANGED hub, UNCHANGED timer,
             \E code \in {"OK", "error", "signal"} : Exits(p, code, q)
      PROVE  StillHeld
  BY <1>1, <1>3, ExitsStillHeld
<1>4. CASE UNCHANGED vars \/ UserTypes \/ ManualInteraction
  BY <1>2, <1>4 DEF vars, UserTypes, CheckUserCommand, ManualInteraction, timerVars, pipes
<1>5. CASE ClockTicks
  <2>1. MinutePasses /\ UNCHANGED hub
    BY <1>5 DEF ClockTicks
  <2>2. UNCHANGED files
    BY <2>1 DEF MinutePasses, pipes
  <2>3. \A t \in Timers : TimerHolds(t, timer[t], files[t])
                             => TimerHolds(t, timer'[t], files'[t])
    BY <1>1, <2>1, MinutePassesHolds
  <2> QED
    BY <2>1, <2>2, <2>3 DEF StillHeld
<1>6. ASSUME NEW p \in DOMAIN exit_code, Crashes(p) PROVE StillHeld
  <2>1. p \in Devices \cup {CONTROLLER_ID}
    BY <1>1 DEF PipesTypeOK
  <2>2. Exits(p, "signal", up) /\ UNCHANGED hub /\ UNCHANGED timer
    BY <1>6 DEF Crashes, timerVars
  <2> QED
    BY <1>3, <2>1, <2>2
<1>7. CASE ControllerStep
  BY <1>1, <1>7, ControllerStillHeld
<1>8. ASSUME NEW d \in Leaves, LeafProcess(d) PROVE StillHeld
  <2>1. /\ UNCHANGED hub /\ UNCHANGED timer
        /\ UNCHANGED files \/ \E q : \E code \in {"OK", "error", "signal"} : Exits(d, code, q)
    BY <1>8 DEF LeafProcess, LeafStep, LeafInfo, LeafSwitch, LeafRefuses, LeafChangeParent,
       LeafBlocks, LeafDelete, LeafMisrouted, LeafTakes, LeafEndOfFile, LeafReply, pipes,
       timerVars
  <2> QED
    BY <1>2, <1>3, <2>1, Ids
<1>9. ASSUME NEW h \in Hubs, HubMainThread(h) \/ HubBottomUpThread(h) PROVE StillHeld
  <2>1. (HubTopDown(h) \/ HubExits(h) \/ HubBottomUp(h)) /\ UNCHANGED timer
    BY <1>9 DEF HubMainThread, HubBottomUpThread, timerVars
  <2> QED
    BY <1>1, <2>1, HubStillHeld
<1>10. ASSUME NEW t \in Timers, TimerThreads(t) PROVE StillHeld
  <2>1. (TimerMain(t) \/ TimerBottomUp(t) \/ TimerSchedule(t)) /\ UNCHANGED hub
    BY <1>10 DEF TimerThreads
  <2> QED
    BY <1>1, <2>1, TimerRuns, TimerStillHeld
<1>11. ASSUME NEW d \in signalled, Terminates(d) PROVE StillHeld
  <2>1. /\ Running(d)
        /\ \/ d \in Leaves /\ LeafTerminates(d) /\ UNCHANGED <<hub, timerVars>>
           \/ d \in Hubs /\ HubTerminates(d) /\ UNCHANGED <<leaf, timerVars>>
           \/ d \in Timers /\ TimerTerminates(d) /\ UNCHANGED <<leaf, hub>>
    BY <1>11 DEF Terminates
  <2>2. CASE d \in Leaves /\ LeafTerminates(d) /\ UNCHANGED <<hub, timerVars>>
    BY <1>3, <2>2, Ids DEF LeafTerminates, timerVars
  <2>3. CASE d \in Hubs /\ HubTerminates(d) /\ UNCHANGED <<leaf, timerVars>>
    BY <1>1, <2>3, HubStillHeld DEF timerVars
  <2>4. CASE d \in Timers /\ TimerTerminates(d) /\ UNCHANGED <<leaf, hub>>
    BY <1>1, <2>1, <2>4, TimerStillHeld
  <2> QED
    BY <2>1, <2>2, <2>3, <2>4
<1>12. ASSUME NEW d \in ToAdd, Starting(d) PROVE StillHeld
  <2>1. UNCHANGED hub /\ UNCHANGED timer
    BY <1>12 DEF Starting, timerVars
  <2>2. CASE DeviceStarts(d)
    BY <1>2, <2>1, <2>2 DEF DeviceStarts
  <2>3. CASE StartFails(d)
    <3>1. d \in Devices
      BY AddAssumption
    <3> QED
      BY <1>3, <2>1, <2>3, <3>1 DEF StartFails
  <2> QED
    BY <1>12, <2>2, <2>3 DEF Starting
<1> QED
  BY <1>4, <1>5, <1>6, <1>7, <1>8, <1>9, <1>10, <1>11, <1>12 DEF Next, SystemStep

\* The pipes held are an inductive invariant of the network: at the start every
\* hub and timer has its parent's open, a step keeps what all hold, and what has
\* ended stays so.
LEMMA PipesHeldAlways == Spec => []PipesHeld
<1>1. Init => PipesHeld
  <2> SUFFICES ASSUME Init PROVE PipesHeld
    OBVIOUS
  <2>1. \A p \in Hubs \cup Timers : files[p][1] = Up(CONTROLLER_ID)
    BY Ids, StartedIs DEF Init
  <2>2. \A d \in Devices : Direct(EmptyTable, d) = {}
    BY DEF Direct, EmptyTable
  <2>3. ASSUME NEW h \in Hubs PROVE HubHolds(h, hub[h], files[h])
    <3>1. hub[h].routing_table = EmptyTable /\ hub[h].snd = 1
      BY DEF Init
    <3>2. files[h][1].dir = "up"
      BY <2>1, EndsDiffer
    <3>3. ChildrenOpen(EmptyTable, h, files[h])
      BY <2>2, Ids DEF ChildrenOpen
    <3> QED
      BY <3>1, <3>2, <3>3 DEF HubHolds
  <2>4. ASSUME NEW t \in Timers PROVE TimerHolds(t, timer[t], files[t])
    <3>1. /\ timer[t].routing_table = EmptyTable /\ timer[t].snd = 1
          /\ timer[t].parent_id = CONTROLLER_ID /\ ~timer[t].has_child
      BY DEF Init, TimerInit
    <3> QED
      BY <2>1, <2>2, <3>1, Ids DEF TimerHolds, ChildrenOpen
  <2> QED
    BY <2>3, <2>4 DEF PipesHeld
<1>2. TypeOK /\ PipesHeld /\ [Next]_vars => PipesHeld'
  <2> SUFFICES ASSUME TypeOK, PipesHeld, [Next]_vars PROVE PipesHeld'
    OBVIOUS
  <2>1. StillHeld
    BY NextStillHeld
  <2>2. \A d \in Devices : Ended(d) => Ended(d)'
    BY EndedForGood
  <2> QED
    BY <2>1, <2>2, Ids DEF PipesHeld, StillHeld
<1> QED
  BY <1>1, <1>2, TypeCorrect, PTL DEF Spec

\* Through every move, lost open and dropped child, and whoever crashes: the
\* descriptors of a hub's or a timer's children and of its parent are open and
\* name whom it takes them to name.
THEOREM OwnPipes == Spec => []OwnPipesOpen
<1>1. PipesHeld => OwnPipesOpen
  BY DEF PipesHeld, OwnPipesOpen, Ended, Alive, Running
<1> QED
  BY <1>1, PipesHeldAlways, PTL

=============================================================================
