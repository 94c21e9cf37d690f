----------------------------- MODULE TimerProofs -----------------------------
(***************************************************************************)
(* Every step of a timer (src/code/src/timer.c) leaves it, its pipes and   *)
(* its descriptors typed: each of its three threads has what its next step *)
(* needs, begin never comes after end, and the schedule thread never waits *)
(* for longer than a day.                                                  *)
(***************************************************************************)
EXTENDS Timer, PipesProofs

\* A timer that is typed and whose threads are ready.
TimerGood(H) == TimerTyped(H) /\ TimerReady(H)

\* A step of one timer leaves the others as they are.
LEMMA TimerStepTyped ==
    ASSUME TimerTypeOK, NEW t \in Timers, NEW new, TimerGood(new), TimerStep(t, new)
    PROVE  TimerTypeOK'
<1>1. timer' = [g \in Timers |-> IF g = t THEN new ELSE timer[g]] /\ now' = now
  BY DEF TimerTypeOK, TimerStep
<1>2. \A g \in Timers : TimerGood(timer[g])
  BY DEF TimerTypeOK, TimerGood
<1>3. \A g \in Timers : TimerGood(timer'[g])
  BY <1>1, <1>2
<1>4. timer' = [g \in Timers |-> timer'[g]]
  BY <1>1
<1>5. now \in Minutes
  BY DEF TimerTypeOK
<1> QED
  BY <1>1, <1>3, <1>4, <1>5 DEF TimerTypeOK, TimerGood, TimerTyped, TimerReady

\* A step of a timer that writes to its pipes and opens or closes its own.
LEMMA TimerStepDone ==
    ASSUME PipesTypeOK, TimerTypeOK, NEW t \in Timers, NEW new, TimerGood(new),
           TimerStep(t, new),
           down' \in [Devices -> Seq(Requests)], up' \in [Controls -> Seq(Responses)],
           files' \in [Controls -> [Fds -> Ends]], UNCHANGED <<exit_code, fifos>>
    PROVE  PipesTypeOK' /\ TimerTypeOK'
<1>1. TimerTypeOK'
  BY TimerStepTyped
<1> QED
  BY <1>1 DEF PipesTypeOK

\* The fields of a timer.
LEMMA TimerFields ==
    ASSUME NEW H, TimerGood(H)
    PROVE  /\ H.device_type \in TIMER_DEVICE .. TIMER_DEVICE + 3
           /\ H.state \in {STATE_OFF, STATE_ON}
           /\ H.begin \in Minutes /\ H.end \in Minutes /\ H.begin <= H.end
           /\ H.parent_id \in Controls
           /\ {H.parent_changed, H.force_exit, H.failed, H.has_child, H.locked, H.last,
               H.activate} \subseteq BOOLEAN
           /\ H.child_id \in Devices \cup {0} /\ H.child_type \in DeviceTypes \cup {0}
           /\ H.has_child => H.child_id \in Devices /\ H.child_type \in OwnTypes(H.child_id)
           /\ H.child_fd \in Fds \cup {NoFd} /\ H.snd \in Fds \cup {NoFd}
           /\ H.pending \in Seq(Commands)
           /\ H.request \in Requests \cup {NoRequest}
           /\ H.response \in Responses \cup {NoResponse}
           /\ H.answer \in Responses \cup {NoResponse}
           /\ H.pc \in {"forward", "unreachable"} => H.request \in Requests
           /\ H.pc \in {"reschedule", "reply", "announce"} => H.response \in Responses
           /\ H.bottom_pc \in {"own", "write"} => H.answer \in Responses
           /\ H.bottom_pc = "own" => H.answer.cmd = "delete"
           /\ H.schedule_pc = "switch" => H.due.dst \in Devices
           /\ H.left \in 0 .. MINUTES_IN_A_DAY
           /\ IsTable(H.routing_table, Hubs \cup Timers)
  BY DEF TimerGood, TimerTyped, TimerReady

\* A timer, its pipes and its descriptors before a step of its own.
LEMMA TimerStarts ==
    ASSUME PipesTypeOK, TimerTypeOK, NEW t \in Timers
    PROVE  /\ TimerGood(timer[t])
           /\ t \in Devices /\ t \in Controls /\ t \in Hubs \cup Timers
           /\ files[t] \in [Fds -> Ends] /\ files \in [Controls -> [Fds -> Ends]]
           /\ down \in [Devices -> Seq(Requests)] /\ up \in [Controls -> Seq(Responses)]
<1>1. t \in Devices /\ t \in Controls
  BY Ids
<1> QED
  BY <1>1 DEF PipesTypeOK, TimerTypeOK, TimerGood

\* The globals of a timer may take any value of their types.
LEMMA TimerWithGlobals ==
    ASSUME NEW H, TimerTyped(H)
    PROVE  /\ \A v \in TIMER_DEVICE .. TIMER_DEVICE + 3 : TimerTyped([H EXCEPT !.device_type = v])
           /\ \A v \in {STATE_OFF, STATE_ON} : TimerTyped([H EXCEPT !.state = v])
           /\ \A v \in Minutes : TimerTyped([H EXCEPT !.begin = v])
           /\ \A v \in Minutes : TimerTyped([H EXCEPT !.end = v])
           /\ \A v \in Controls : TimerTyped([H EXCEPT !.parent_id = v])
           /\ \A v \in BOOLEAN : TimerTyped([H EXCEPT !.parent_changed = v])
           /\ \A v \in BOOLEAN : TimerTyped([H EXCEPT !.force_exit = v])
           /\ \A v \in BOOLEAN : TimerTyped([H EXCEPT !.failed = v])
           /\ \A v \in Seq(Commands) : TimerTyped([H EXCEPT !.pending = v])
           /\ \A v \in Fds \cup {NoFd} : TimerTyped([H EXCEPT !.snd = v])
           /\ \A v \in BOOLEAN : TimerTyped([H EXCEPT !.locked = v])
<1>1. ASSUME NEW v \in TIMER_DEVICE .. TIMER_DEVICE + 3 PROVE TimerTyped([H EXCEPT !.device_type = v])
  BY DEF TimerTyped
<1>2. ASSUME NEW v \in {STATE_OFF, STATE_ON} PROVE TimerTyped([H EXCEPT !.state = v])
  BY DEF TimerTyped
<1>3. ASSUME NEW v \in Minutes PROVE TimerTyped([H EXCEPT !.begin = v])
  BY DEF TimerTyped
<1>4. ASSUME NEW v \in Minutes PROVE TimerTyped([H EXCEPT !.end = v])
  BY DEF TimerTyped
<1>5. ASSUME NEW v \in Controls PROVE TimerTyped([H EXCEPT !.parent_id = v])
  BY DEF TimerTyped
<1>6. ASSUME NEW v \in BOOLEAN PROVE TimerTyped([H EXCEPT !.parent_changed = v])
  BY DEF TimerTyped
<1>7. ASSUME NEW v \in BOOLEAN PROVE TimerTyped([H EXCEPT !.force_exit = v])
  BY DEF TimerTyped
<1>8. ASSUME NEW v \in BOOLEAN PROVE TimerTyped([H EXCEPT !.failed = v])
  BY DEF TimerTyped
<1>9. ASSUME NEW v \in Seq(Commands) PROVE TimerTyped([H EXCEPT !.pending = v])
  BY DEF TimerTyped
<1>10. ASSUME NEW v \in Fds \cup {NoFd} PROVE TimerTyped([H EXCEPT !.snd = v])
  BY DEF TimerTyped
<1>11. ASSUME NEW v \in BOOLEAN PROVE TimerTyped([H EXCEPT !.locked = v])
  BY DEF TimerTyped
<1> QED
  BY <1>1, <1>2, <1>3, <1>4, <1>5, <1>6, <1>7, <1>8, <1>9, <1>10, <1>11

\* So may what a timer knows of its child.
LEMMA TimerWithChild ==
    ASSUME NEW H, TimerTyped(H)
    PROVE  /\ \A v \in BOOLEAN : TimerTyped([H EXCEPT !.has_child = v])
           /\ \A v \in Devices \cup {0} : TimerTyped([H EXCEPT !.child_id = v])
           /\ \A v \in DeviceTypes \cup {0} : TimerTyped([H EXCEPT !.child_type = v])
           /\ \A v \in Fds \cup {NoFd} : TimerTyped([H EXCEPT !.child_fd = v])
           /\ \A v : IsTable(v, Hubs \cup Timers) =>
                 TimerTyped([H EXCEPT !.routing_table = v])
<1>1. ASSUME NEW v \in BOOLEAN PROVE TimerTyped([H EXCEPT !.has_child = v])
  BY DEF TimerTyped
<1>2. ASSUME NEW v \in Devices \cup {0} PROVE TimerTyped([H EXCEPT !.child_id = v])
  BY DEF TimerTyped
<1>3. ASSUME NEW v \in DeviceTypes \cup {0} PROVE TimerTyped([H EXCEPT !.child_type = v])
  BY DEF TimerTyped
<1>4. ASSUME NEW v \in Fds \cup {NoFd} PROVE TimerTyped([H EXCEPT !.child_fd = v])
  BY DEF TimerTyped
<1>5. ASSUME NEW v, IsTable(v, Hubs \cup Timers)
      PROVE  TimerTyped([H EXCEPT !.routing_table = v])
  BY <1>5 DEF TimerTyped
<1> QED
  BY <1>1, <1>2, <1>3, <1>4, <1>5

\* So may the locals of the main thread.
LEMMA TimerWithMain ==
    ASSUME NEW H, TimerTyped(H)
    PROVE  /\ \A v \in TimerPcs : TimerTyped([H EXCEPT !.pc = v])
           /\ \A v \in Requests \cup {NoRequest} : TimerTyped([H EXCEPT !.request = v])
           /\ \A v \in Responses \cup {NoResponse} : TimerTyped([H EXCEPT !.response = v])
           /\ \A v \in Fds \cup {NoFd} : TimerTyped([H EXCEPT !.route = v])
<1>1. ASSUME NEW v \in TimerPcs PROVE TimerTyped([H EXCEPT !.pc = v])
  BY DEF TimerTyped
<1>2. ASSUME NEW v \in Requests \cup {NoRequest} PROVE TimerTyped([H EXCEPT !.request = v])
  BY DEF TimerTyped
<1>3. ASSUME NEW v \in Responses \cup {NoResponse} PROVE TimerTyped([H EXCEPT !.response = v])
  BY DEF TimerTyped
<1>4. ASSUME NEW v \in Fds \cup {NoFd} PROVE TimerTyped([H EXCEPT !.route = v])
  BY DEF TimerTyped
<1> QED
  BY <1>1, <1>2, <1>3, <1>4

\* So may those of the other threads.
LEMMA TimerWithOthers ==
    ASSUME NEW H, TimerTyped(H)
    PROVE  /\ \A v \in BottomPcs : TimerTyped([H EXCEPT !.bottom_pc = v])
           /\ \A v \in Responses \cup {NoResponse} : TimerTyped([H EXCEPT !.answer = v])
           /\ \A v \in BOOLEAN : TimerTyped([H EXCEPT !.last = v])
           /\ \A v \in SchedulePcs : TimerTyped([H EXCEPT !.schedule_pc = v])
           /\ \A v \in 0 .. MINUTES_IN_A_DAY : TimerTyped([H EXCEPT !.left = v])
           /\ \A v \in BOOLEAN : TimerTyped([H EXCEPT !.activate = v])
           /\ \A v \in Dues : TimerTyped([H EXCEPT !.due = v])
<1>1. ASSUME NEW v \in BottomPcs PROVE TimerTyped([H EXCEPT !.bottom_pc = v])
  BY DEF TimerTyped
<1>2. ASSUME NEW v \in Responses \cup {NoResponse} PROVE TimerTyped([H EXCEPT !.answer = v])
  BY DEF TimerTyped
<1>3. ASSUME NEW v \in BOOLEAN PROVE TimerTyped([H EXCEPT !.last = v])
  BY DEF TimerTyped
<1>4. ASSUME NEW v \in SchedulePcs PROVE TimerTyped([H EXCEPT !.schedule_pc = v])
  BY DEF TimerTyped
<1>5. ASSUME NEW v \in 0 .. MINUTES_IN_A_DAY PROVE TimerTyped([H EXCEPT !.left = v])
  BY DEF TimerTyped
<1>6. ASSUME NEW v \in BOOLEAN PROVE TimerTyped([H EXCEPT !.activate = v])
  BY DEF TimerTyped
<1>7. ASSUME NEW v \in Dues PROVE TimerTyped([H EXCEPT !.due = v])
  BY DEF TimerTyped
<1> QED
  BY <1>1, <1>2, <1>3, <1>4, <1>5, <1>6, <1>7

\* Where the threads may be.
LEMMA TimerPcsAre ==
    /\ TimerPcs = {"read", "forward", "unreachable", "reschedule", "reply", "replay",
                    "replay_child", "replay_branch", "announce", "exit", "exiting", "blocked"}
    /\ BottomPcs = {"read", "own", "write", "exit", "ended", "blocked"}
    /\ SchedulePcs = {"start", "asleep", "switch", "unreachable", "update", "ended"}
  BY DEF TimerPcs, BottomPcs, SchedulePcs

-----------------------------------------------------------------------------
(* What the timer keeps.                                                   *)

\* The table may be any other.
LEMMA TimerRetabled ==
    ASSUME NEW H, TimerGood(H), NEW U, IsTable(U, Hubs \cup Timers)
    PROVE  TimerGood([H EXCEPT !.routing_table = U])
<1>1. TimerTyped([H EXCEPT !.routing_table = U])
  BY TimerWithChild DEF TimerGood
<1> QED
  BY <1>1 DEF TimerGood, TimerTyped, TimerReady

\* The child type is what the table says, or what it was.
LEMMA RefreshedTyped ==
    ASSUME NEW H, TimerGood(H)
    PROVE  TimerGood(RefreshedIfChild(H))
<1>1. CASE ~H.has_child
  BY <1>1 DEF RefreshedIfChild
<1>2. CASE H.has_child
  <2> DEFINE type == IF H.child_id \in DOMAIN H.routing_table
                     THEN H.routing_table[H.child_id].type ELSE H.child_type
             d == TIMER_DEVICE + ChildType(type)
  <2>1. H.child_id \in Devices /\ H.child_type \in OwnTypes(H.child_id)
        /\ IsTable(H.routing_table, Hubs \cup Timers)
    BY <1>2, TimerFields
  <2>2. type \in OwnTypes(H.child_id)
    BY <2>1 DEF IsTable
  <2>3. type \in DeviceTypes /\ type \in Nat
    BY <2>1, <2>2, OwnTypesAre
  <2>4. RefreshedIfChild(H) = [H EXCEPT !.child_type = type, !.device_type = d]
    BY <1>2, Zenon DEF RefreshedIfChild, Refreshed
  <2> HIDE DEF type
  <2>5. d \in TIMER_DEVICE .. TIMER_DEVICE + 3
    BY <2>3 DEF TIMER_DEVICE, ChildType
  <2> HIDE DEF d
  <2>6. TimerTyped([H EXCEPT !.child_type = type, !.device_type = d])
    <3>1. TimerTyped(H) /\ type \in DeviceTypes \cup {0}
      BY <2>3 DEF TimerGood
    <3> QED
      BY <2>5, <3>1, TimerWithGlobals, TimerWithChild, ZenonT(20)
  <2>7. TimerReady([H EXCEPT !.child_type = type, !.device_type = d])
    BY <2>2 DEF TimerGood, TimerTyped, TimerReady
  <2> QED
    BY <2>4, <2>6, <2>7 DEF TimerGood
<1> QED
  BY <1>1, <1>2, TimerFields

\* The child leaves.
LEMMA DropChildTyped ==
    ASSUME NEW H, TimerGood(H), NEW t
    PROVE  TimerGood(DropChild(t, H))
<1> DEFINE U == RemoveRoute(H.routing_table, H.child_id, t)
<1>1. IsTable(U, Hubs \cup Timers)
  BY TimerFields, RemoveRouteTyped
<1>2. DropChild(t, H) = [H EXCEPT !.routing_table = U, !.has_child = FALSE,
                                  !.device_type = TIMER_DEVICE]
  BY DEF DropChild
<1>3. TIMER_DEVICE \in TIMER_DEVICE .. TIMER_DEVICE + 3 /\ FALSE \in BOOLEAN /\ TimerTyped(H)
  BY DEF TIMER_DEVICE, TimerGood
<1> HIDE DEF U
<1>4. TimerTyped(DropChild(t, H))
  <2> DEFINE G == [H EXCEPT !.routing_table = U]
  <2>1. TimerTyped(G)
    BY <1>1, <1>3, TimerWithChild
  <2>2. DropChild(t, H) = [G EXCEPT !.has_child = FALSE, !.device_type = TIMER_DEVICE]
    BY <1>2
  <2> HIDE DEF G
  <2>3. TimerTyped([G EXCEPT !.has_child = FALSE, !.device_type = TIMER_DEVICE])
    BY <1>3, <2>1, TimerWithGlobals, TimerWithChild, ZenonT(20)
  <2> QED
    BY <2>2, <2>3
<1>5. TimerReady(DropChild(t, H))
  BY <1>2 DEF TimerGood, TimerTyped, TimerReady
<1> QED
  BY <1>4, <1>5 DEF TimerGood

\* The commands that are left are commands.
LEMMA TakePendingTyped ==
    ASSUME NEW pending \in Seq(Commands), NEW cmd
    PROVE  /\ TakePending(pending, cmd).left \in Seq(Commands)
           /\ TakePending(pending, cmd).ours \in BOOLEAN
<1> DEFINE same == {i \in DOMAIN pending : Masked(pending[i]) = Masked(cmd)}
<1>1. CASE same = {}
  BY <1>1 DEF TakePending
<1>2. CASE same # {}
  <2>1. same \subseteq DOMAIN pending /\ DOMAIN pending \subseteq Nat
    OBVIOUS
  <2>2. TakePending(pending, cmd) = [ours |-> TRUE, left |-> RemoveAt(pending, Min(same))]
    BY <1>2, Zenon DEF TakePending
  <2> HIDE DEF same
  <2>3. Min(same) \in DOMAIN pending
    BY <1>2, <2>1, MinIs
  <2>4. RemoveAt(pending, Min(same)) \in Seq(Commands)
    BY <2>3, RemoveAtIs
  <2> QED
    BY <2>2, <2>4
<1> QED
  BY <1>1, <1>2

\* What the child has answered, as the timer's own answer.
LEMMA OwnReplyTyped ==
    ASSUME NEW t \in Timers, NEW r \in Responses, ~(r.cmd \in Links /\ r.code = "OK")
    PROVE  OwnReply(t, r) \in Responses
<1> DEFINE shown == IF r.args # <<>> /\ r.args[1] \notin {timer[t].state, UNDEFINED_STATE}
                    THEN STATE_MANUAL_OVERRIDE ELSE r.args[1]
           args == IF r.cmd = "info" /\ r.args # <<>> THEN <<shown>> ELSE <<>>
<1>1. /\ r \in [src : Devices, cmd : Commands \cup {"null"}, code : ErrorCodes, args : Seq(Nat)]
      /\ r.cmd = "info" /\ r.args # <<>> => r.args[1] \in STATE_OFF .. UNDEFINED_STATE
      /\ t \in Devices
  BY ResponseFields, Ids
<1>2. OwnReply(t, r) = [r EXCEPT !.src = t, !.args = args]
  BY DEF OwnReply
<1>3. args \in Seq(Nat) /\ (r.cmd = "info" /\ args # <<>> => args[1] \in STATE_OFF .. UNDEFINED_STATE)
  <2>1. CASE r.cmd = "info" /\ r.args # <<>>
    <3>1. shown \in STATE_OFF .. UNDEFINED_STATE
      BY <1>1, <2>1 DEF STATE_OFF, UNDEFINED_STATE, STATE_MANUAL_OVERRIDE
    <3>2. shown \in Nat /\ args = <<shown>>
      BY <2>1, <3>1 DEF STATE_OFF, UNDEFINED_STATE
    <3> HIDE DEF shown
    <3> QED
      BY <3>1, <3>2
  <2>2. CASE ~(r.cmd = "info" /\ r.args # <<>>)
    BY <2>2
  <2> QED
    BY <2>1, <2>2
<1> HIDE DEF args
<1> QED
  BY <1>1, <1>2, <1>3 DEF Responses

\* The main thread on its way to answer.
LEMMA TimerReplyingTyped ==
    ASSUME NEW H, TimerGood(H), NEW r \in Responses
    PROVE  TimerGood(TimerReplying(H, r))
<1>1. "reply" \in TimerPcs /\ r \in Responses \cup {NoResponse} /\ TimerTyped(H)
  BY TimerPcsAre DEF TimerGood
<1>2. TimerTyped(TimerReplying(H, r))
  BY <1>1, TimerWithMain, ZenonT(20) DEF TimerReplying
<1>3. TimerReady(TimerReplying(H, r))
  BY DEF TimerGood, TimerTyped, TimerReady, TimerReplying
<1> QED
  BY <1>2, <1>3 DEF TimerGood

\* The main thread back at the head of its loop.
LEMMA TimerResumedTyped ==
    ASSUME NEW H, TimerGood(H)
    PROVE  TimerGood(TimerResumed(H))
<1> DEFINE pc == IF H.force_exit THEN "exit" ELSE "read"
           G == [H EXCEPT !.pc = pc, !.parent_changed = FALSE, !.request = NoRequest,
                          !.response = NoResponse, !.route = NoFd]
<1>1. pc \in {"read", "exit"}
  OBVIOUS
<1>2. TimerResumed(H) = G
  BY DEF TimerResumed
<1> HIDE DEF pc
<1>3. TimerTyped(G)
  <2>1. /\ pc \in TimerPcs /\ FALSE \in BOOLEAN /\ NoFd \in Fds \cup {NoFd} /\ TimerTyped(H)
        /\ NoRequest \in Requests \cup {NoRequest} /\ NoResponse \in Responses \cup {NoResponse}
    BY <1>1, TimerPcsAre DEF TimerGood
  <2> QED
    BY <2>1, TimerWithGlobals, TimerWithMain, ZenonT(20)
<1>4. TimerReady(G)
  BY <1>1 DEF TimerGood, TimerTyped, TimerReady
<1> QED
  BY <1>2, <1>3, <1>4 DEF TimerGood

-----------------------------------------------------------------------------
(* The main thread.                                                        *)

\* What it reads is a request, and the rest of the pipe too.
LEMMA TimerReadsTyped ==
    ASSUME PipesTypeOK, TimerTypeOK, NEW t \in Timers, NEW m, TimerReads(t, m)
    PROVE  /\ m \in Requests /\ m.cmd \in Commands
           /\ Taken(t) \in [Devices -> Seq(Requests)]
<1>1. t \in Devices /\ down \in [Devices -> Seq(Requests)]
  BY TimerStarts
<1>2. down[t] \in Seq(Requests) /\ down[t] # <<>> /\ m = Head(down[t])
  BY <1>1 DEF TimerReads
<1>3. m \in Requests /\ Tail(down[t]) \in Seq(Requests)
  BY <1>2, TailTyped
<1>4. Taken(t) \in [Devices -> Seq(Requests)]
  BY <1>1, <1>3 DEF Taken
<1> QED
  BY <1>3, <1>4, RequestFields

\* A step of the main thread that only answers.
LEMMA AnswersItselfTyped ==
    ASSUME PipesTypeOK, TimerTypeOK, NEW t \in Timers, NEW m, TimerReads(t, m),
           NEW H, TimerGood(H), NEW r \in Responses, AnswersItself(t, H, r)
    PROVE  PipesTypeOK' /\ TimerTypeOK'
<1> DEFINE G == TimerReplying(H, r)
<1>1. TimerGood(G)
  BY TimerReplyingTyped
<1>2. TimerStep(t, G) /\ down' = Taken(t) /\ UNCHANGED <<up, files, exit_code, fifos>>
  BY DEF AnswersItself, Locking
<1>3. Taken(t) \in [Devices -> Seq(Requests)]
  BY TimerReadsTyped
<1> HIDE DEF G
<1> QED
  BY <1>1, <1>2, <1>3, TimerStarts, TimerStepDone

\* A command the child is asked to answer leaves for it, or is given up.
LEMMA AsksChildTyped ==
    ASSUME PipesTypeOK, TimerTypeOK, NEW t \in Timers, NEW m, TimerReads(t, m),
           m.cmd \notin Links \cup Registries, timer[t].has_child,
           NEW H, TimerGood(H), NEW lost, TimerGood(lost),
           NEW F \in [Controls -> [Fds -> Ends]], AsksChild(t, m, H, lost, F)
    PROVE  PipesTypeOK' /\ TimerTypeOK'
<1> DEFINE child == timer[t].child_id
           asked == [m EXCEPT !.dst = child]
           G1 == [H EXCEPT !.pending = Append(@, m.cmd)]
           rest == TakePending(Append(lost.pending, m.cmd), m.cmd).left
           G2 == [lost EXCEPT !.pending = rest]
           r == Response(t, m.cmd, "UNABLE_TO_WRITE_PIPE", <<>>)
<1>1. /\ m \in Requests /\ m.cmd \in Commands /\ Taken(t) \in [Devices -> Seq(Requests)]
      /\ t \in Devices /\ child \in Devices
      /\ files \in [Controls -> [Fds -> Ends]] /\ up \in [Controls -> Seq(Responses)]
  BY TimerReadsTyped, TimerStarts, TimerFields
<1>2. CASE ChildReads(t, timer[t].child_fd)
  <2> DEFINE G == TimerResumed(G1)
             end == files[t][timer[t].child_fd]
  <2>1. /\ TimerStep(t, G) /\ down' = SendDown(Taken(t), end, asked)
        /\ UNCHANGED <<up, files, exit_code, fifos>>
    BY <1>2 DEF AsksChild, Locking
  <2>2. Append(H.pending, m.cmd) \in Seq(Commands)
    BY <1>1, TimerFields
  <2>3. TimerGood(G1)
    <3> DEFINE p == Append(H.pending, m.cmd)
    <3> HIDE DEF p
    <3>1. TimerTyped([H EXCEPT !.pending = p])
      BY <2>2, TimerWithGlobals DEF TimerGood, p
    <3>2. TimerReady([H EXCEPT !.pending = p])
      BY DEF TimerGood, TimerTyped, TimerReady
    <3> QED
      BY <3>1, <3>2 DEF TimerGood, p
  <2> HIDE DEF G1
  <2>4. TimerGood(G)
    BY <2>3, TimerResumedTyped
  <2> HIDE DEF G
  <2>5. asked \in Requests
    <3> HIDE DEF child
    <3> QED
      BY <1>1, RequestFor
  <2> HIDE DEF asked, end
  <2>6. down' \in [Devices -> Seq(Requests)]
    BY <1>1, <2>1, <2>5, SendDownIs
  <2> QED
    BY <1>1, <2>1, <2>4, <2>6, TimerStepDone
<1>3. CASE ~ChildReads(t, timer[t].child_fd)
  <2> DEFINE G == TimerReplying(G2, r)
  <2>1. /\ TimerStep(t, G) /\ down' = Taken(t) /\ files' = F
        /\ UNCHANGED <<up, exit_code, fifos>>
    BY <1>3 DEF AsksChild, Locking
  <2>2. Append(lost.pending, m.cmd) \in Seq(Commands)
    BY <1>1, TimerFields
  <2>3. rest \in Seq(Commands)
    BY <2>2, TakePendingTyped
  <2> HIDE DEF rest
  <2>4. TimerGood(G2)
    <3>1. TimerTyped([lost EXCEPT !.pending = rest])
      BY <2>3, TimerWithGlobals DEF TimerGood
    <3>2. TimerReady([lost EXCEPT !.pending = rest])
      BY DEF TimerGood, TimerTyped, TimerReady
    <3> QED
      BY <3>1, <3>2 DEF TimerGood
  <2>5. r \in Responses
    <3>1. "UNABLE_TO_WRITE_PIPE" \in ErrorCodes
      BY DEF ErrorCodes
    <3> QED
      BY <1>1, <3>1, EmptyResponse
  <2> HIDE DEF G2, r
  <2>6. TimerGood(G)
    BY <2>4, <2>5, TimerReplyingTyped
  <2> HIDE DEF G
  <2> QED
    BY <1>1, <2>1, <2>6, TimerStepDone
<1> QED
  BY <1>2, <1>3

\* A request for another device goes to the child, or is answered.
LEMMA TimerForwardsTyped ==
    ASSUME PipesTypeOK, TimerTypeOK, NEW t \in Timers, NEW m, TimerForwards(t, m)
    PROVE  PipesTypeOK' /\ TimerTypeOK'
<1> DEFINE H == timer[t]
           r == Response(t, "null", "DEVICE_NOT_FOUND", <<>>)
           G1 == [H EXCEPT !.pc = "forward", !.request = m, !.route = H.child_fd]
           G2 == TimerReplying(H, r)
           G == IF H.has_child THEN G1 ELSE G2
<1>1. TimerReads(t, m) /\ TimerStep(t, G) /\ down' = Taken(t)
      /\ UNCHANGED <<up, files, exit_code, fifos>>
  BY DEF TimerForwards, Locking
<1>2. /\ m \in Requests /\ Taken(t) \in [Devices -> Seq(Requests)]
      /\ TimerGood(H) /\ t \in Devices
      /\ files \in [Controls -> [Fds -> Ends]] /\ up \in [Controls -> Seq(Responses)]
  BY <1>1, TimerReadsTyped, TimerStarts
<1>3. TimerGood(G1)
  <2>1. /\ TimerTyped(H) /\ "forward" \in TimerPcs /\ m \in Requests \cup {NoRequest}
        /\ H.child_fd \in Fds \cup {NoFd}
    BY <1>2, TimerPcsAre, TimerFields DEF TimerGood
  <2>2. TimerTyped(G1)
    BY <2>1, TimerWithMain, ZenonT(20)
  <2>3. TimerReady(G1)
    BY <1>2 DEF TimerGood, TimerTyped, TimerReady
  <2> QED
    BY <2>2, <2>3 DEF TimerGood
<1>4. r \in Responses
  <2>1. "null" \notin Links /\ "DEVICE_NOT_FOUND" \in ErrorCodes
    BY DEF Links, ErrorCodes
  <2> QED
    BY <1>2, <2>1, EmptyResponse
<1> HIDE DEF r
<1>5. TimerGood(G2)
  BY <1>2, <1>4, TimerReplyingTyped
<1> HIDE DEF G1, G2
<1>6. TimerGood(G)
  BY <1>3, <1>5
<1> HIDE DEF G
<1> QED
  BY <1>1, <1>2, <1>6, TimerStepDone

\* It is written by the descriptor looked up before.
LEMMA TimerWritesOnTyped ==
    ASSUME PipesTypeOK, TimerTypeOK, NEW t \in Timers, TimerWritesOn(t)
    PROVE  PipesTypeOK' /\ TimerTypeOK'
<1> DEFINE H == timer[t]
           G1 == TimerResumed(H)
           G2 == [H EXCEPT !.pc = "unreachable"]
           end == files[t][H.route]
<1>1. /\ H.pc = "forward" /\ UNCHANGED <<up, files, exit_code, fifos>>
      /\ \/ down' = SendDown(down, end, H.request) /\ TimerStep(t, G1)
         \/ TimerStep(t, G2) /\ UNCHANGED down
  BY DEF TimerWritesOn
<1>2. /\ TimerGood(H) /\ down \in [Devices -> Seq(Requests)]
      /\ files \in [Controls -> [Fds -> Ends]] /\ up \in [Controls -> Seq(Responses)]
  BY TimerStarts
<1>3. H.request \in Requests
  BY <1>1, <1>2, TimerFields
<1>4. TimerGood(G1)
  BY <1>2, TimerResumedTyped
<1>5. TimerGood(G2)
  <2>1. TimerTyped(G2)
    BY <1>2, TimerPcsAre, TimerWithMain DEF TimerGood
  <2>2. TimerReady(G2)
    BY <1>2, <1>3 DEF TimerGood, TimerTyped, TimerReady
  <2> QED
    BY <2>1, <2>2 DEF TimerGood
<1>6. SendDown(down, end, H.request) \in [Devices -> Seq(Requests)]
  <2> HIDE DEF end
  <2> QED
    BY <1>2, <1>3, SendDownIs
<1> HIDE DEF H, G1, G2, end
<1> QED
  BY <1>1, <1>2, <1>4, <1>5, <1>6, TimerStepDone

\* The descriptors without the child's.
LEMMA WithoutChildTyped ==
    ASSUME PipesTypeOK, TimerTypeOK, NEW t \in Timers
    PROVE  WithoutChild(t) \in [Controls -> [Fds -> Ends]]
<1>1. Close(files[t], timer[t].child_fd) \in [Fds -> Ends]
  BY TimerStarts, EndsAre, OpenAtIs
<1> QED
  BY <1>1, TimerStarts DEF WithoutChild

\* A child that cannot be reached is released by the main thread.
LEMMA TimerReleasesChildTyped ==
    ASSUME PipesTypeOK, TimerTypeOK, NEW t \in Timers, TimerReleasesChild(t)
    PROVE  PipesTypeOK' /\ TimerTypeOK'
<1> DEFINE H == timer[t]
           r == Response(t, "null", "UNABLE_TO_WRITE_PIPE", <<>>)
           left == IF H.has_child THEN DropChild(t, H) ELSE H
           G == TimerReplying(left, r)
<1>1. /\ TimerStep(t, G) /\ files' = IF H.has_child THEN WithoutChild(t) ELSE files
      /\ UNCHANGED <<down, up, exit_code, fifos>>
  BY DEF TimerReleasesChild, Locking
<1>2. /\ TimerGood(H) /\ t \in Devices /\ down \in [Devices -> Seq(Requests)]
      /\ files \in [Controls -> [Fds -> Ends]] /\ up \in [Controls -> Seq(Responses)]
  BY TimerStarts
<1>3. r \in Responses
  <2>1. "null" \notin Links /\ "UNABLE_TO_WRITE_PIPE" \in ErrorCodes
    BY DEF Links, ErrorCodes
  <2> QED
    BY <1>2, <2>1, EmptyResponse
<1>4. TimerGood(left)
  BY <1>2, DropChildTyped
<1> HIDE DEF r, left
<1>5. TimerGood(G)
  BY <1>3, <1>4, TimerReplyingTyped
<1> HIDE DEF G
<1> QED
  BY <1>1, <1>2, <1>5, WithoutChildTyped, TimerStepDone

\* What a timer is asked itself and its child is to answer.
LEMMA TimerAskedTyped ==
    ASSUME PipesTypeOK, TimerTypeOK, NEW t \in Timers, NEW m,
           TimerInfo(t, m) \/ TimerSwitch(t, m) \/ TimerDelete(t, m)
    PROVE  PipesTypeOK' /\ TimerTypeOK'
<1> DEFINE H == timer[t]
<1>1. TimerReads(t, m)
  BY DEF TimerInfo, TimerSwitch, TimerDelete
<1>2. /\ TimerGood(H) /\ TimerGood(DropChild(t, H)) /\ t \in Devices
      /\ files \in [Controls -> [Fds -> Ends]] /\ WithoutChild(t) \in [Controls -> [Fds -> Ends]]
      /\ m.cmd \in Commands
  BY <1>1, TimerStarts, DropChildTyped, WithoutChildTyped, TimerReadsTyped
<1>3. CASE TimerInfo(t, m)
  <2> DEFINE r == Response(t, "info", "OK", <<UNDEFINED_STATE>>)
  <2>1. /\ m.cmd = "info" /\ m.cmd \notin Links \cup Registries
        /\ \/ H.has_child /\ AsksChild(t, m, H, DropChild(t, H), WithoutChild(t))
           \/ AnswersItself(t, H, r)
    BY <1>3 DEF TimerInfo, Links, Registries
  <2>2. r \in Responses
    <3> DEFINE args == <<UNDEFINED_STATE>>
    <3>1. /\ "info" \in Commands /\ "info" \notin Links /\ "OK" \in ErrorCodes
          /\ args \in Seq(Nat) /\ args[1] \in STATE_OFF .. UNDEFINED_STATE
      BY DEF Commands, Links, ErrorCodes, STATE_OFF, UNDEFINED_STATE
    <3> HIDE DEF args
    <3>2. Response(t, "info", "OK", args) \in Responses
      BY <1>2, <3>1, PlainResponse
    <3> QED
      BY <3>2 DEF args
  <2> HIDE DEF r
  <2> QED
    BY <1>1, <1>2, <2>1, <2>2, AsksChildTyped, AnswersItselfTyped
<1>4. CASE TimerSwitch(t, m)
  <2> DEFINE state == Commanded(m.cmd, H.state)
             G == [H EXCEPT !.state = state]
             r1 == Response(t, m.cmd, "DEVICE_NOT_FOUND", <<>>)
             r2 == Response(t, m.cmd, "UNEXPECTED_COMMAND", <<>>)
  <2>1. /\ m.cmd \in Switches
        /\ \/ AnswersItself(t, H, r1) \/ AnswersItself(t, H, r2)
           \/ H.has_child /\ AsksChild(t, m, G, DropChild(t, H), WithoutChild(t))
    BY <1>4 DEF TimerSwitch
  <2>2. m.cmd \notin Links \cup Registries
    BY <2>1 DEF Switches, PowerSwitches, DoorSwitches, Links, Registries
  <2>3. r1 \in Responses /\ r2 \in Responses
    <3>1. "DEVICE_NOT_FOUND" \in ErrorCodes /\ "UNEXPECTED_COMMAND" \in ErrorCodes
      BY DEF ErrorCodes
    <3> QED
      BY <1>2, <2>2, <3>1, EmptyResponse
  <2>4. state \in {STATE_OFF, STATE_ON}
    BY <1>2, TimerFields DEF Commanded
  <2> HIDE DEF state, r1, r2
  <2>5. TimerGood(G)
    <3>1. TimerTyped(G)
      BY <1>2, <2>4, TimerWithGlobals DEF TimerGood
    <3>2. TimerReady(G)
      BY <1>2 DEF TimerGood, TimerTyped, TimerReady
    <3> QED
      BY <3>1, <3>2 DEF TimerGood
  <2> HIDE DEF G
  <2> QED
    BY <1>1, <1>2, <2>1, <2>2, <2>3, <2>5, AsksChildTyped, AnswersItselfTyped
<1>5. CASE TimerDelete(t, m)
  <2> DEFINE last == [H EXCEPT !.force_exit = TRUE]
             r == Response(t, "delete", "OK", <<>>)
  <2>1. /\ m.cmd = "delete" /\ m.cmd \notin Links \cup Registries
        /\ \/ H.has_child /\ AsksChild(t, m, H, last, files)
           \/ AnswersItself(t, last, r)
    BY <1>5 DEF TimerDelete, Links, Registries
  <2>2. r \in Responses
    <3>1. "delete" \in Commands /\ "delete" \notin Links /\ "OK" \in ErrorCodes
      BY DEF Commands, Links, ErrorCodes
    <3> QED
      BY <1>2, <3>1, EmptyResponse
  <2>3. TimerGood(last)
    <3>1. TimerTyped(last)
      BY <1>2, TimerWithGlobals DEF TimerGood
    <3>2. TimerReady(last)
      BY <1>2 DEF TimerGood, TimerTyped, TimerReady
    <3> QED
      BY <3>1, <3>2 DEF TimerGood
  <2> HIDE DEF r, last
  <2> QED
    BY <1>1, <1>2, <2>1, <2>2, <2>3, AsksChildTyped, AnswersItselfTyped
<1> QED
  BY <1>3, <1>4, <1>5

\* A timer changes its parent, or waits for ever in an open.
LEMMA TimerChangeParentTyped ==
    ASSUME PipesTypeOK, TimerTypeOK, NEW t \in Timers, NEW m, TimerChangeParent(t, m)
    PROVE  PipesTypeOK' /\ TimerTypeOK'
<1> DEFINE H == timer[t]
           F == files[t]
           opens == UpOpens(m.arg) /\ FreeFds(F) # {}
           fd == LowestFree(F)
           answer(code) == Response(t, m.cmd, code, <<m.arg, H.device_type>>)
           ok == answer("OK")
           refused == answer("UNABLE_TO_OPEN_PIPE")
           closing == Close(OpenAt(F, fd, Up(m.arg)), H.snd)
           G1 == TimerReplying(H, ok)
           G2 == [H EXCEPT !.pc = "blocked", !.locked = TRUE]
           R == TimerReplying(H, refused)
           G3 == [R EXCEPT !.snd = NoFd]
           G4 == [G1 EXCEPT !.snd = fd, !.parent_id = m.arg, !.parent_changed = TRUE]
<1>1. /\ TimerReads(t, m) /\ m.cmd = "change_parent" /\ down' = Taken(t)
      /\ UNCHANGED <<up, exit_code, fifos>>
      /\ \/ TimerStep(t, G1) /\ UNCHANGED files
         \/ TimerStep(t, G2) /\ UNCHANGED files
         \/ TimerStep(t, G3) /\ UNCHANGED files
         \/ opens /\ TimerStep(t, G4) /\ files' = [files EXCEPT ![t] = closing]
  BY DEF TimerChangeParent, Locking
<1>2. /\ TimerGood(H) /\ t \in Devices /\ t \in Controls /\ F \in [Fds -> Ends]
      /\ files \in [Controls -> [Fds -> Ends]] /\ up \in [Controls -> Seq(Responses)]
      /\ m \in Requests /\ Taken(t) \in [Devices -> Seq(Requests)]
  BY <1>1, TimerStarts, TimerReadsTyped
<1>3. m.arg \in Controls /\ m.arg \in Nat /\ m.cmd \in Links
  BY <1>1, <1>2, RequestFields, Ids DEF Links
<1>4. H.device_type \in OwnTypes(t)
  BY <1>2, TimerFields, OwnTypesAre DEF TIMER_DEVICE
<1>5. ok \in Responses /\ refused \in Responses
  <2>1. "OK" \in ErrorCodes /\ "UNABLE_TO_OPEN_PIPE" \in ErrorCodes /\ m.cmd # "remove_child"
    BY <1>1 DEF ErrorCodes
  <2> QED
    BY <1>2, <1>3, <1>4, <2>1, LinkResponse
<1> HIDE DEF answer, ok, refused
<1>6. TimerGood(G1) /\ TimerGood(R)
  BY <1>2, <1>5, TimerReplyingTyped
<1>7. TimerGood(G2)
  <2>1. TimerTyped(H) /\ "blocked" \in TimerPcs
    BY <1>2, TimerPcsAre DEF TimerGood
  <2>2. TimerTyped(G2)
    BY <2>1, TimerWithMain, TimerWithGlobals, ZenonT(20)
  <2>3. TimerReady(G2)
    BY <1>2 DEF TimerGood, TimerTyped, TimerReady
  <2> QED
    BY <2>2, <2>3 DEF TimerGood
<1> HIDE DEF R, G1
<1>8. TimerGood(G3)
  <2>1. TimerTyped(G3)
    BY <1>6, TimerWithGlobals DEF TimerGood
  <2>2. TimerReady(G3)
    BY <1>6 DEF TimerGood, TimerTyped, TimerReady
  <2> QED
    BY <2>1, <2>2 DEF TimerGood
<1>9. ASSUME opens
      PROVE  TimerGood(G4) /\ closing \in [Fds -> Ends]
  <2>1. fd \in Fds /\ fd \in Fds \cup {NoFd}
    BY <1>9, LowestFreeIs
  <2> HIDE DEF fd
  <2>2. TimerGood(G4)
    <3>1. TimerTyped(G1)
      BY <1>6 DEF TimerGood
    <3>2. TimerTyped(G4)
      BY <1>3, <2>1, <3>1, TimerWithGlobals, ZenonT(20)
    <3>3. TimerReady(G4)
      BY <1>6 DEF TimerGood, TimerTyped, TimerReady
    <3> QED
      BY <3>2, <3>3 DEF TimerGood
  <2>3. OpenAt(F, fd, Up(m.arg)) \in [Fds -> Ends]
    BY <1>2, <1>3, EndsAre, OpenAtIs
  <2>4. closing \in [Fds -> Ends]
    <3> DEFINE opened == OpenAt(F, fd, Up(m.arg))
    <3> HIDE DEF opened
    <3>1. Close(opened, H.snd) \in [Fds -> Ends]
      BY <2>3, EndsAre, OpenAtIs DEF opened
    <3> QED
      BY <3>1 DEF opened
  <2> QED
    BY <2>2, <2>4
<1> HIDE DEF H, F, opens, fd, closing, G2, G3, G4
<1>10. CASE opens /\ TimerStep(t, G4) /\ files' = [files EXCEPT ![t] = closing]
  <2>1. files' \in [Controls -> [Fds -> Ends]]
    BY <1>2, <1>9, <1>10
  <2> QED
    BY <1>1, <1>2, <1>9, <1>10, <2>1, TimerStepDone
<1>11. CASE TimerStep(t, G1) /\ UNCHANGED files
  BY <1>1, <1>2, <1>6, <1>11, TimerStepDone
<1>12. CASE TimerStep(t, G2) /\ UNCHANGED files
  BY <1>1, <1>2, <1>7, <1>12, TimerStepDone
<1>13. CASE TimerStep(t, G3) /\ UNCHANGED files
  BY <1>1, <1>2, <1>8, <1>13, TimerStepDone
<1> QED
  BY <1>1, <1>10, <1>11, <1>12, <1>13

\* A timer is asked to remove its child.
LEMMA TimerRemoveChildTyped ==
    ASSUME PipesTypeOK, TimerTypeOK, NEW t \in Timers, NEW m, TimerRemoveChild(t, m)
    PROVE  PipesTypeOK' /\ TimerTypeOK'
<1> DEFINE H == timer[t]
           known == H.has_child /\ m.arg = H.child_id
           code == CASE ~known -> "DEVICE_NOT_FOUND"
                     [] known /\ IsOpen(files[t], H.child_fd) -> "OK"
                     [] OTHER -> "UNABLE_TO_CLOSE_PIPE"
           left == IF known THEN DropChild(t, H) ELSE H
           r == Response(t, m.cmd, code, <<m.arg, left.device_type>>)
           G == TimerReplying(left, r)
<1>1. /\ TimerReads(t, m) /\ m.cmd = "remove_child" /\ down' = Taken(t)
      /\ UNCHANGED <<up, exit_code, fifos>> /\ TimerStep(t, G)
      /\ files' = IF known THEN WithoutChild(t) ELSE files
  BY DEF TimerRemoveChild, Locking
<1>2. /\ TimerGood(H) /\ t \in Devices /\ t \notin Leaves
      /\ files \in [Controls -> [Fds -> Ends]] /\ up \in [Controls -> Seq(Responses)]
      /\ m \in Requests /\ Taken(t) \in [Devices -> Seq(Requests)]
      /\ WithoutChild(t) \in [Controls -> [Fds -> Ends]]
  BY <1>1, TimerStarts, TimerReadsTyped, WithoutChildTyped, Ids
<1>3. m.arg \in Devices /\ m.arg \in Nat /\ m.cmd \in Links /\ m.cmd # "change_parent"
  BY <1>1, <1>2, RequestFields, Ids DEF Links
<1>4. TimerGood(left)
  BY <1>2, DropChildTyped
<1>5. code \in ErrorCodes
  BY DEF ErrorCodes
<1> HIDE DEF left, code
<1>6. left.device_type \in OwnTypes(t)
  BY <1>4, TimerFields, OwnTypesAre DEF TIMER_DEVICE
<1>7. r \in Responses
  BY <1>2, <1>3, <1>5, <1>6, LinkResponse
<1> HIDE DEF r
<1>8. TimerGood(G)
  BY <1>4, <1>7, TimerReplyingTyped
<1> HIDE DEF G
<1> QED
  BY <1>1, <1>2, <1>8, TimerStepDone

\* begin or end is set, never begin after end.
LEMMA TimerRegistryTyped ==
    ASSUME PipesTypeOK, TimerTypeOK, NEW t \in Timers, NEW m, TimerRegistry(t, m)
    PROVE  PipesTypeOK' /\ TimerTypeOK'
<1> DEFINE H == timer[t]
           valid == IF m.cmd = "set_begin" THEN m.arg <= H.end ELSE m.arg >= H.begin
           code == IF valid THEN "OK" ELSE "INVALID_REQUEST_ARGUMENT"
           set == IF m.cmd = "set_begin" THEN [H EXCEPT !.begin = m.arg]
                                         ELSE [H EXCEPT !.end = m.arg]
           r == Response(t, m.cmd, code, <<m.arg>>)
           left == IF valid THEN set ELSE H
           A == TimerReplying(left, r)
           G1 == [A EXCEPT !.pc = "reschedule"]
           G == IF valid THEN G1 ELSE A
<1>1. /\ TimerReads(t, m) /\ m.cmd \in Registries /\ down' = Taken(t)
      /\ UNCHANGED <<up, files, exit_code, fifos>> /\ TimerStep(t, G)
  BY DEF TimerRegistry, Locking
<1>2. /\ TimerGood(H) /\ t \in Devices
      /\ files \in [Controls -> [Fds -> Ends]] /\ up \in [Controls -> Seq(Responses)]
      /\ m \in Requests /\ m.cmd \in Commands /\ Taken(t) \in [Devices -> Seq(Requests)]
  BY <1>1, TimerStarts, TimerReadsTyped
<1>3. m.arg \in Minutes /\ m.arg \in Nat
  BY <1>1, <1>2, RequestFields, Ids
<1>4. ASSUME valid PROVE TimerGood(set)
  <2>1. TimerTyped(set)
    BY <1>2, <1>3, TimerWithGlobals DEF TimerGood
  <2>2. TimerReady(set)
    <3>1. CASE m.cmd = "set_begin"
      <4>1. TimerReady([H EXCEPT !.begin = m.arg])
        BY <1>2, <1>4, <3>1 DEF TimerGood, TimerTyped, TimerReady
      <4> QED
        BY <3>1, <4>1
    <3>2. CASE m.cmd # "set_begin"
      <4>1. H.begin <= m.arg
        BY <1>2, <1>3, <1>4, <3>2, TimerFields DEF Minutes
      <4>2. TimerReady([H EXCEPT !.end = m.arg])
        BY <1>2, <4>1 DEF TimerGood, TimerTyped, TimerReady
      <4> QED
        BY <3>2, <4>2
    <3> QED
      BY <3>1, <3>2
  <2> QED
    BY <2>1, <2>2 DEF TimerGood
<1>5. TimerGood(left)
  BY <1>2, <1>4
<1>6. r \in Responses
  <2> DEFINE args == <<m.arg>>
  <2>1. /\ code \in ErrorCodes /\ m.cmd \notin Links /\ m.cmd # "info" /\ args \in Seq(Nat)
    BY <1>1, <1>3 DEF ErrorCodes, Registries, Links
  <2> HIDE DEF args, code
  <2>2. Response(t, m.cmd, code, args) \in Responses
    BY <1>2, <2>1, PlainResponse
  <2> QED
    BY <2>2 DEF args
<1> HIDE DEF left, r, valid
<1>7. TimerGood(A)
  BY <1>5, <1>6, TimerReplyingTyped
<1>8. A.pc = "reply"
  BY <1>5 DEF TimerGood, TimerTyped, TimerReplying
<1> HIDE DEF A
<1>9. TimerGood(G1)
  <2>1. TimerTyped(G1)
    BY <1>7, TimerPcsAre, TimerWithMain DEF TimerGood
  <2>2. TimerReady(G1)
    BY <1>7, <1>8 DEF TimerGood, TimerTyped, TimerReady
  <2> QED
    BY <2>1, <2>2 DEF TimerGood
<1>10. TimerGood(G)
  BY <1>7, <1>9
<1> HIDE DEF G
<1> QED
  BY <1>1, <1>2, <1>10, TimerStepDone

\* The schedule thread is started anew.
LEMMA TimerReschedulesTyped ==
    ASSUME PipesTypeOK, TimerTypeOK, NEW t \in Timers, TimerReschedules(t)
    PROVE  PipesTypeOK' /\ TimerTypeOK'
<1> DEFINE H == timer[t]
           U == RemoveRoute(H.routing_table, H.child_id, t)
           dropped == [H EXCEPT !.routing_table = U, !.locked = TRUE]
           state == IF H.activate THEN STATE_ON ELSE STATE_OFF
           updated == IF H.schedule_pc = "update" THEN [H EXCEPT !.state = state] ELSE H
           K == IF ClosingChild(H) THEN dropped ELSE updated
           G == [K EXCEPT !.pc = "reply", !.schedule_pc = "start", !.left = 0,
                          !.activate = FALSE, !.due = NotDue]
<1>1. H.pc = "reschedule" /\ TimerStep(t, G) /\ UNCHANGED pipes
  BY DEF TimerReschedules
<1>2. TimerGood(H) /\ H.response \in Responses
  BY <1>1, TimerStarts, TimerFields
<1>3. IsTable(U, Hubs \cup Timers)
  BY <1>2, TimerFields, RemoveRouteTyped
<1>4. TimerGood(dropped) /\ dropped.response = H.response
  <2> DEFINE D == [H EXCEPT !.routing_table = U]
  <2> HIDE DEF U
  <2>1. TimerGood(D) /\ D.response = H.response
    <3>1. TimerGood(D)
      BY <1>2, <1>3, TimerRetabled
    <3>2. D.response = H.response
      BY <1>2 DEF TimerGood, TimerTyped
    <3> QED
      BY <3>1, <3>2
  <2> HIDE DEF D
  <2>2. TimerTyped([D EXCEPT !.locked = TRUE])
    BY <2>1, TimerWithGlobals DEF TimerGood
  <2>3. TimerReady([D EXCEPT !.locked = TRUE])
        /\ [D EXCEPT !.locked = TRUE].response = D.response
    BY <2>1 DEF TimerGood, TimerTyped, TimerReady
  <2>4. dropped = [D EXCEPT !.locked = TRUE]
    BY DEF D
  <2> QED
    BY <2>1, <2>2, <2>3, <2>4 DEF TimerGood
<1>5. TimerGood(updated) /\ updated.response = H.response
  <2>1. state \in {STATE_OFF, STATE_ON}
    OBVIOUS
  <2> HIDE DEF state
  <2>2. TimerTyped([H EXCEPT !.state = state])
    BY <1>2, <2>1, TimerWithGlobals DEF TimerGood
  <2>3. TimerReady([H EXCEPT !.state = state]) /\ [H EXCEPT !.state = state].response = H.response
    BY <1>2 DEF TimerGood, TimerTyped, TimerReady
  <2> QED
    BY <1>2, <2>2, <2>3 DEF TimerGood
<1> HIDE DEF dropped, updated
<1>6. TimerGood(K) /\ K.response \in Responses
  BY <1>2, <1>4, <1>5
<1> HIDE DEF K
<1>7. TimerGood(G)
  <2>1. /\ TimerTyped(K) /\ "reply" \in TimerPcs /\ "start" \in SchedulePcs
        /\ 0 \in 0 .. MINUTES_IN_A_DAY /\ FALSE \in BOOLEAN
    BY <1>6, TimerPcsAre, MinutesAssumption DEF TimerGood
  <2>2. NotDue \in Dues
    BY DEF NotDue, Dues
  <2>3. TimerTyped(G)
    BY <2>1, <2>2, TimerWithMain, TimerWithOthers, ZenonT(20)
  <2>4. TimerReady(G)
    BY <1>6 DEF TimerGood, TimerTyped, TimerReady
  <2> QED
    BY <2>3, <2>4 DEF TimerGood
<1> HIDE DEF G
<1> QED
  BY <1>1, <1>7, TimerStepTyped DEF pipes, PipesTypeOK

\* A step that touches no pipe.
LEMMA TimerAloneTyped ==
    ASSUME PipesTypeOK, TimerTypeOK, NEW t \in Timers, NEW G, TimerGood(G),
           TimerStep(t, G), UNCHANGED pipes
    PROVE  PipesTypeOK' /\ TimerTypeOK'
<1>1. TimerTypeOK'
  BY TimerStepTyped
<1> QED
  BY <1>1 DEF pipes, PipesTypeOK

\* A step that tells the parent responses, if it reads.
LEMMA TellsParentTyped ==
    ASSUME PipesTypeOK, TimerTypeOK, NEW t \in Timers, NEW ms \in Seq(Responses),
           NEW H, TimerGood(H), NEW failed, TimerGood(failed), TellsParent(t, ms, H, failed)
    PROVE  PipesTypeOK' /\ TimerTypeOK'
<1> DEFINE end == files[t][timer[t].snd]
<1>1. /\ \/ up' = SendUp(up, end, ms) /\ TimerStep(t, H)
         \/ TimerStep(t, failed) /\ UNCHANGED up
      /\ UNCHANGED <<down, files, exit_code, fifos>>
  BY DEF TellsParent, Locking
<1>2. /\ down \in [Devices -> Seq(Requests)]
      /\ files \in [Controls -> [Fds -> Ends]] /\ up \in [Controls -> Seq(Responses)]
  BY TimerStarts
<1> HIDE DEF end
<1>3. SendUp(up, end, ms) \in [Controls -> Seq(Responses)]
  BY <1>2, SendUpIs
<1> QED
  BY <1>1, <1>2, <1>3, TimerStepDone

\* The main thread leaves, or waits for another step of its own.
LEMMA TimerMainAt ==
    ASSUME NEW H, TimerGood(H), NEW pc \in {"exit", "replay", "replay_child", "replay_branch"}
    PROVE  TimerGood([H EXCEPT !.pc = pc])
<1>1. TimerTyped([H EXCEPT !.pc = pc])
  BY TimerPcsAre, TimerWithMain DEF TimerGood
<1>2. TimerReady([H EXCEPT !.pc = pc])
  BY DEF TimerGood, TimerTyped, TimerReady
<1> QED
  BY <1>1, <1>2 DEF TimerGood

\* ... after a failure.
LEMMA MainExitsTyped ==
    ASSUME TimerTypeOK, NEW t \in Timers
    PROVE  TimerGood(MainExits(t))
<1> DEFINE H == timer[t]
           D == [H EXCEPT !.pc = "exit"]
<1>1. TimerGood(H)
  BY DEF TimerTypeOK, TimerGood
<1>2. TimerGood(D)
  BY <1>1, TimerMainAt
<1>3. MainExits(t) = [D EXCEPT !.failed = TRUE]
  BY DEF MainExits
<1> HIDE DEF D
<1>4. TimerTyped([D EXCEPT !.failed = TRUE])
  BY <1>2, TimerWithGlobals DEF TimerGood
<1>5. TimerReady([D EXCEPT !.failed = TRUE])
  BY <1>2 DEF TimerGood, TimerTyped, TimerReady
<1> QED
  BY <1>3, <1>4, <1>5 DEF TimerGood

\* The answer, and after it what a new parent is told.
LEMMA TimerRepliesTyped ==
    ASSUME PipesTypeOK, TimerTypeOK, NEW t \in Timers,
           \/ TimerReplies(t) \/ TimerReplays(t) \/ TimerReplaysBranch(t)
           \/ TimerReplaysChild(t) \/ TimerAnnounces(t)
    PROVE  PipesTypeOK' /\ TimerTypeOK'
<1> DEFINE H == timer[t]
<1>1. /\ TimerGood(H) /\ t \in Devices /\ t \in Controls /\ TimerGood(MainExits(t))
      /\ TimerGood(TimerResumed(H))
  BY TimerStarts, MainExitsTyped, TimerResumedTyped
<1>2. CASE TimerReplies(t) \/ TimerAnnounces(t)
  <2> DEFINE D == [H EXCEPT !.pc = "replay"]
             G == IF TimerReplies(t) /\ H.parent_changed THEN D ELSE TimerResumed(H)
  <2>1. H.pc \in {"reply", "announce"} /\ TellsParent(t, <<H.response>>, G, MainExits(t))
    BY <1>2 DEF TimerReplies, TimerAnnounces
  <2>2. H.response \in Responses
    BY <1>1, <2>1, TimerFields
  <2>3. <<H.response>> \in Seq(Responses)
    BY <2>2
  <2>4. TimerGood(D)
    BY <1>1, TimerMainAt
  <2> HIDE DEF D
  <2>5. TimerGood(G)
    BY <1>1, <2>4
  <2> HIDE DEF G
  <2> QED
    BY <1>1, <2>1, <2>3, <2>5, TellsParentTyped
<1>3. CASE TimerReplays(t)
  <2> DEFINE pc == IF H.has_child /\ ~IsLeaf(H.child_type) THEN "replay_branch" ELSE "replay_child"
             G == [H EXCEPT !.pc = pc]
  <2>1. TimerStep(t, G) /\ UNCHANGED pipes
    BY <1>3 DEF TimerReplays, Locking
  <2>2. pc \in {"exit", "replay", "replay_child", "replay_branch"}
    OBVIOUS
  <2> HIDE DEF pc
  <2>3. TimerGood(G)
    BY <1>1, <2>2, TimerMainAt
  <2> HIDE DEF G
  <2> QED
    BY <2>1, <2>3, TimerAloneTyped
<1>4. CASE TimerReplaysBranch(t)
  <2> DEFINE T == H.routing_table
             devices == Walk(T, t)
             ms == [n \in DOMAIN devices |->
                       Response(devices[n], "change_parent", "OK",
                                <<T[devices[n]].parent, T[devices[n]].type>>)]
  <2>1. TellsParent(t, ms, TimerResumed(H), MainExits(t))
    BY <1>4 DEF TimerReplaysBranch
  <2>2. IsTable(T, Hubs \cup Timers) /\ Hubs \cup Timers \subseteq Controls
    BY <1>1, TimerFields, Ids
  <2> HIDE DEF T
  <2>3. ms \in Seq(Responses)
    BY <2>2, HistoryTyped
  <2> HIDE DEF ms
  <2> QED
    BY <1>1, <2>1, <2>3, TellsParentTyped
<1>5. CASE TimerReplaysChild(t)
  <2> DEFINE r == Response(H.child_id, "change_parent", "OK", <<t, H.child_type>>)
             D == [H EXCEPT !.pc = "announce", !.response = r]
             G == IF H.has_child THEN D ELSE TimerResumed(H)
  <2>1. TimerStep(t, G) /\ UNCHANGED pipes
    BY <1>5 DEF TimerReplaysChild, Locking
  <2>2. ASSUME H.has_child PROVE TimerGood(D)
    <3>1. r \in Responses
      <4>1. /\ H.child_id \in Devices /\ H.child_type \in OwnTypes(H.child_id)
            /\ "change_parent" \in Links /\ "OK" \in ErrorCodes /\ t \in Nat
        BY <1>1, <2>2, TimerFields, Ids DEF Links, ErrorCodes
      <4> QED
        BY <1>1, <4>1, LinkResponse
    <3> HIDE DEF r
    <3>2. TimerTyped(H) /\ "announce" \in TimerPcs /\ r \in Responses \cup {NoResponse}
      BY <1>1, <3>1, TimerPcsAre DEF TimerGood
    <3>3. TimerTyped(D)
      BY <3>2, TimerWithMain, ZenonT(20)
    <3>4. TimerReady(D)
      BY <1>1, <3>1 DEF TimerGood, TimerTyped, TimerReady
    <3> QED
      BY <3>3, <3>4 DEF TimerGood
  <2> HIDE DEF D
  <2>3. TimerGood(G)
    BY <1>1, <2>2
  <2> HIDE DEF G
  <2> QED
    BY <2>1, <2>3, TimerAloneTyped
<1> QED
  BY <1>2, <1>3, <1>4, <1>5

\* Without a writer on its pipe a timer answers once more, and exits.
LEMMA TimerEndOfFileTyped ==
    ASSUME PipesTypeOK, TimerTypeOK, NEW t \in Timers, TimerEndOfFile(t)
    PROVE  PipesTypeOK' /\ TimerTypeOK'
<1> DEFINE r == Response(t, "null", "UNEXPECTED_END_OF_FILE", <<>>)
           A == TimerReplying(timer[t], r)
           G == [A EXCEPT !.force_exit = TRUE, !.failed = TRUE]
<1>1. TimerStep(t, G) /\ UNCHANGED pipes
  BY DEF TimerEndOfFile
<1>2. r \in Responses
  <2>1. "null" \notin Links /\ "UNEXPECTED_END_OF_FILE" \in ErrorCodes /\ t \in Devices
    BY Ids DEF Links, ErrorCodes
  <2> QED
    BY <2>1, EmptyResponse
<1> HIDE DEF r
<1>3. TimerGood(A)
  BY <1>2, TimerStarts, TimerReplyingTyped
<1> HIDE DEF A
<1>4. TimerGood(G)
  <2>1. TimerTyped(G)
    BY <1>3, TimerWithGlobals, ZenonT(20) DEF TimerGood
  <2>2. TimerReady(G)
    BY <1>3 DEF TimerGood, TimerTyped, TimerReady
  <2> QED
    BY <2>1, <2>2 DEF TimerGood
<1> HIDE DEF G
<1> QED
  BY <1>1, <1>4, TimerAloneTyped

\* The child-responses thread is cancelled.
LEMMA TimerCancelsResponsesTyped ==
    ASSUME PipesTypeOK, TimerTypeOK, NEW t \in Timers, NEW failed \in BOOLEAN,
           TimerCancelsResponses(t, failed)
    PROVE  PipesTypeOK' /\ TimerTypeOK'
<1> DEFINE H == timer[t]
           f == H.failed \/ failed
           locked == H.locked \/ H.bottom_pc \in {"own", "write"}
           G == [H EXCEPT !.pc = "exiting", !.bottom_pc = "ended", !.failed = f,
                          !.locked = locked]
<1>1. TimerStep(t, G) /\ UNCHANGED pipes
  BY DEF TimerCancelsResponses
<1>2. TimerGood(H)
  BY TimerStarts
<1>3. /\ TimerTyped(H) /\ f \in BOOLEAN /\ locked \in BOOLEAN
      /\ "exiting" \in TimerPcs /\ "ended" \in BottomPcs
  BY <1>2, TimerPcsAre DEF TimerGood
<1> HIDE DEF f, locked
<1>4. TimerTyped(G)
  BY <1>3, TimerWithGlobals, TimerWithMain, TimerWithOthers, ZenonT(20)
<1>5. TimerReady(G)
  BY <1>2 DEF TimerGood, TimerTyped, TimerReady
<1> HIDE DEF G
<1> QED
  BY <1>1, <1>4, <1>5, TimerAloneTyped DEF TimerGood

\* Every step of the main thread.
LEMMA TimerMainTyped ==
    ASSUME PipesTypeOK, TimerTypeOK, NEW t \in Timers, TimerMain(t) \/ TimerTerminates(t)
    PROVE  PipesTypeOK' /\ TimerTypeOK'
<1>1. CASE TimerLeaves(t) \/ TimerTerminates(t)
  <2>1. \E failed \in BOOLEAN : TimerCancelsResponses(t, failed)
    BY <1>1 DEF TimerLeaves, TimerTerminates
  <2> QED
    BY <2>1, TimerCancelsResponsesTyped
<1>2. CASE TimerExits(t)
  <2>1. /\ \E code \in {"OK", "error"} : Exits(t, code, up)
        /\ UNCHANGED <<timer, now, fifos>>
    BY <1>2 DEF TimerExits, timerVars
  <2>2. PICK code \in {"OK", "error"} : Exits(t, code, up)
    BY <2>1
  <2>3. up \in [Controls -> Seq(Responses)] /\ fifos' \subseteq Devices
    BY <2>1 DEF PipesTypeOK
  <2>4. code \in {"OK", "error", "signal"}
    BY <2>2
  <2>5. PipesTypeOK'
    BY <2>2, <2>3, <2>4, ExitsTyped, Zenon
  <2> QED
    BY <2>1, <2>5 DEF TimerTypeOK, TimerTyped, TimerReady
<1>3. CASE \E m : \/ TimerForwards(t, m) \/ TimerInfo(t, m) \/ TimerSwitch(t, m)
                  \/ TimerDelete(t, m) \/ TimerChangeParent(t, m)
                  \/ TimerRemoveChild(t, m) \/ TimerRegistry(t, m)
  BY <1>3, TimerForwardsTyped, TimerAskedTyped, TimerChangeParentTyped,
     TimerRemoveChildTyped, TimerRegistryTyped
<1>4. CASE \/ TimerWritesOn(t) \/ TimerReleasesChild(t) \/ TimerReschedules(t)
           \/ TimerReplies(t) \/ TimerReplays(t) \/ TimerReplaysBranch(t)
           \/ TimerReplaysChild(t) \/ TimerAnnounces(t) \/ TimerEndOfFile(t)
  BY <1>4, TimerWritesOnTyped, TimerReleasesChildTyped, TimerReschedulesTyped,
     TimerRepliesTyped, TimerEndOfFileTyped
<1>5. \/ TimerTerminates(t) \/ TimerLeaves(t) \/ TimerExits(t)
      \/ \E m : \/ TimerForwards(t, m) \/ TimerInfo(t, m) \/ TimerSwitch(t, m)
                \/ TimerDelete(t, m) \/ TimerChangeParent(t, m)
                \/ TimerRemoveChild(t, m) \/ TimerRegistry(t, m)
      \/ TimerWritesOn(t) \/ TimerReleasesChild(t) \/ TimerReschedules(t)
      \/ TimerReplies(t) \/ TimerReplays(t) \/ TimerReplaysBranch(t)
      \/ TimerReplaysChild(t) \/ TimerAnnounces(t) \/ TimerEndOfFile(t)
  BY Zenon DEF TimerMain
<1> QED
  BY <1>1, <1>2, <1>3, <1>4, <1>5

-----------------------------------------------------------------------------
(* The child-responses thread.                                             *)

\* It has read a response; what becomes of the timer is good.
LEMMA BottomTyped ==
    ASSUME PipesTypeOK, TimerTypeOK, NEW t \in Timers, NEW r, NEW H, TimerGood(H),
           NEW next \in {"own", "write", "blocked"}, Bottom(t, r, H, next),
           next = "own" => r.cmd = "delete",
           files' \in [Controls -> [Fds -> Ends]]
    PROVE  PipesTypeOK' /\ TimerTypeOK'
<1> DEFINE G == [H EXCEPT !.bottom_pc = next, !.answer = r]
<1>1. /\ TimerStep(t, G) /\ up[t] # <<>> /\ r = Head(up[t])
      /\ up' = [up EXCEPT ![t] = Tail(@)] /\ UNCHANGED <<down, exit_code, fifos>>
  BY DEF Bottom, Locking
<1>2. t \in Controls /\ down \in [Devices -> Seq(Requests)] /\ up \in [Controls -> Seq(Responses)]
  BY TimerStarts
<1>3. r \in Responses /\ Tail(up[t]) \in Seq(Responses)
  <2>1. up[t] \in Seq(Responses)
    BY <1>2
  <2> QED
    BY <1>1, <2>1, TailTyped
<1>4. up' \in [Controls -> Seq(Responses)]
  BY <1>1, <1>2, <1>3
<1>5. TimerGood(G)
  <2>1. TimerTyped(H) /\ next \in BottomPcs /\ r \in Responses \cup {NoResponse}
    BY <1>3, TimerPcsAre DEF TimerGood
  <2>2. TimerTyped(G)
    BY <2>1, TimerWithOthers, ZenonT(20)
  <2>3. TimerReady(G)
    BY <1>3 DEF TimerGood, TimerTyped, TimerReady
  <2> QED
    BY <2>2, <2>3 DEF TimerGood
<1> HIDE DEF G
<1> QED
  BY <1>1, <1>2, <1>4, <1>5, TimerStepDone

\* What it reads first.
LEMMA TimerBottomStarts ==
    ASSUME PipesTypeOK, TimerTypeOK, NEW t \in Timers, up[t] # <<>>
    PROVE  Head(up[t]) \in Responses /\ Tail(up[t]) \in Seq(Responses)
<1>1. up[t] \in Seq(Responses)
  BY TimerStarts
<1> QED
  BY <1>1, TailTyped

\* The child arrives, with its branch if it is a control device.
LEMMA TimerChildAcquiredTyped ==
    ASSUME PipesTypeOK, TimerTypeOK, NEW t \in Timers, NEW r, TimerChildAcquired(t, r)
    PROVE  PipesTypeOK' /\ TimerTypeOK'
<1> DEFINE H == timer[t]
           F == files[t]
           fd == LowestFree(F)
           type == r.args[2]
           U == IF IsLeaf(type) THEN H.routing_table
                ELSE InsertDirect(H.routing_table, r.src, type, t, fd)
           child == [H EXCEPT !.child_id = r.src, !.child_type = type, !.child_fd = fd,
                              !.has_child = TRUE, !.routing_table = U]
           opened == [files EXCEPT ![t] = OpenAt(F, fd, Down(r.src))]
<1>1. /\ up[t] # <<>> /\ r = Head(up[t]) /\ r.cmd = "change_parent" /\ r.code = "OK"
      /\ \/ Bottom(t, r, H, "blocked") /\ UNCHANGED files
         \/ FreeFds(F) # {} /\ Bottom(t, r, Refreshed(child), "write") /\ files' = opened
         \/ Bottom(t, r, H, "write") /\ UNCHANGED files
  BY DEF TimerChildAcquired, Bottom, DownOpens
<1>2. /\ r \in Responses /\ TimerGood(H) /\ t \in Controls /\ t \in Hubs \cup Timers
      /\ F \in [Fds -> Ends] /\ files \in [Controls -> [Fds -> Ends]]
  BY <1>1, TimerBottomStarts, TimerStarts
<1>3. r.src \in Devices /\ type \in OwnTypes(r.src) /\ type \in DeviceTypes
  <2>1. r.src \in Devices /\ type \in OwnTypes(r.src)
    BY <1>1, <1>2, ResponseFields DEF Links
  <2> QED
    BY <2>1, OwnTypesAre
<1>4. ASSUME FreeFds(F) # {}
      PROVE  TimerGood(Refreshed(child)) /\ opened \in [Controls -> [Fds -> Ends]]
  <2>1. fd \in Fds
    BY <1>4, LowestFreeIs
  <2> HIDE DEF fd, type
  <2>2. IsTable(U, Hubs \cup Timers)
    <3>1. IsTable(H.routing_table, Hubs \cup Timers)
      BY <1>2, TimerFields
    <3>2. IsTable(InsertDirect(H.routing_table, r.src, type, t, fd), Hubs \cup Timers)
      BY <1>2, <1>3, <2>1, <3>1, InsertDirectTyped
    <3> QED
      BY <3>1, <3>2
  <2> HIDE DEF U
  <2>3. TimerGood(child)
    <3> DEFINE K == [H EXCEPT !.child_id = r.src, !.child_type = type, !.child_fd = fd,
                              !.has_child = TRUE]
    <3>1. TimerTyped(K)
      <4>1. /\ TimerTyped(H) /\ r.src \in Devices \cup {0} /\ type \in DeviceTypes \cup {0}
            /\ fd \in Fds \cup {NoFd} /\ TRUE \in BOOLEAN
        BY <1>2, <1>3, <2>1 DEF TimerGood
      <4> QED
        BY <4>1, TimerWithChild, ZenonT(20)
    <3>2. TimerReady(K)
      BY <1>2, <1>3 DEF TimerGood, TimerTyped, TimerReady
    <3>3. child = [K EXCEPT !.routing_table = U]
      OBVIOUS
    <3> HIDE DEF K, child
    <3>4. TimerGood([K EXCEPT !.routing_table = U])
      BY <2>2, <3>1, <3>2, TimerRetabled DEF TimerGood
    <3> QED
      BY <3>3, <3>4
  <2>4. child.has_child
    BY <1>2 DEF TimerGood, TimerTyped
  <2> HIDE DEF child
  <2>5. TimerGood(Refreshed(child))
    BY <2>3, <2>4, RefreshedTyped DEF RefreshedIfChild
  <2>6. OpenAt(F, fd, Down(r.src)) \in [Fds -> Ends]
    BY <1>2, <1>3, EndsAre, OpenAtIs
  <2> QED
    BY <1>2, <2>5, <2>6
<1> HIDE DEF H, F, child, opened
<1>5. CASE Bottom(t, r, H, "blocked") /\ UNCHANGED files
  BY <1>2, <1>5, BottomTyped
<1>6. CASE FreeFds(F) # {} /\ Bottom(t, r, Refreshed(child), "write") /\ files' = opened
  BY <1>4, <1>6, BottomTyped
<1>7. CASE Bottom(t, r, H, "write") /\ UNCHANGED files
  BY <1>2, <1>7, BottomTyped
<1> QED
  BY <1>1, <1>5, <1>6, <1>7

\* A descendant arrives or leaves.
LEMMA TimerDescendantTyped ==
    ASSUME PipesTypeOK, TimerTypeOK, NEW t \in Timers, NEW r,
           TimerDescendantAcquired(t, r) \/ TimerDescendantRemoved(t, r)
    PROVE  PipesTypeOK' /\ TimerTypeOK'
<1> DEFINE H == timer[t]
           T == H.routing_table
           P == Hubs \cup Timers
<1>1. up[t] # <<>> /\ r = Head(up[t]) /\ r.code = "OK" /\ UNCHANGED files
  BY DEF TimerDescendantAcquired, TimerDescendantRemoved, Bottom
<1>2. /\ r \in Responses /\ TimerGood(H) /\ files \in [Controls -> [Fds -> Ends]]
      /\ IsTable(T, P) /\ P \subseteq Controls /\ CONTROLLER_ID \notin Devices
      /\ Controls = P \cup {CONTROLLER_ID} /\ DOMAIN T \subseteq Devices
  <2>1. r \in Responses /\ TimerGood(H) /\ files \in [Controls -> [Fds -> Ends]]
    BY <1>1, TimerBottomStarts, TimerStarts
  <2>2. IsTable(T, P)
    BY <2>1, TimerFields
  <2> QED
    BY <2>1, <2>2, Ids DEF IsTable, Controls
<1>3. CASE TimerDescendantAcquired(t, r)
  <2> DEFINE d == r.src
             p == r.args[1]
             type == r.args[2]
             E == InsertIndirect(T, d, type, p)
             U == UpdateTypeToNotEmpty(E, d)
             G == [H EXCEPT !.routing_table = U]
             K == IF p \in DOMAIN T THEN RefreshedIfChild(G) ELSE H
  <2>1. Bottom(t, r, K, "write") /\ r.cmd = "change_parent"
    BY <1>3 DEF TimerDescendantAcquired
  <2>2. d \in Devices /\ type \in OwnTypes(d) /\ p \in Controls
    BY <1>1, <1>2, <2>1, ResponseFields DEF Links
  <2> HIDE DEF d, p, type, T
  <2>3. ASSUME p \in DOMAIN T PROVE TimerGood(RefreshedIfChild(G))
    <3>1. p \in P
      BY <1>2, <2>2, <2>3
    <3>2. IsTable(E, P)
      BY <1>2, <2>2, <3>1, InsertIndirectTyped
    <3>3. d \in DOMAIN E
      BY <2>3 DEF InsertIndirect, InsertRoute
    <3> HIDE DEF E
    <3>4. IsTable(U, P)
      BY <1>2, <3>2, <3>3, ToNotEmptyTyped, Zenon
    <3> HIDE DEF U
    <3>5. TimerGood(G)
      BY <1>2, <3>4, TimerRetabled
    <3> HIDE DEF G
    <3> QED
      BY <3>5, RefreshedTyped
  <2> HIDE DEF G
  <2>4. TimerGood(K)
    BY <1>2, <2>3
  <2> HIDE DEF K
  <2> QED
    BY <1>1, <1>2, <2>1, <2>4, BottomTyped
<1>4. CASE TimerDescendantRemoved(t, r)
  <2> DEFINE a == r.src
             E == RemoveRoute(T, r.args[1], a)
             U == UpdateTypeToEmpty(E, a)
             G == [H EXCEPT !.routing_table = U]
             K == IF r.args[1] \in DOMAIN T /\ T[r.args[1]].parent = a
                  THEN RefreshedIfChild(G) ELSE H
  <2>1. Bottom(t, r, K, "write") /\ r.cmd = "remove_child"
    BY <1>4 DEF TimerDescendantRemoved
  <2>2. a \in Controls
    BY <1>1, <1>2, <2>1, ResponseFields, Ids DEF Links
  <2> HIDE DEF a, T
  <2>3. TimerGood(RefreshedIfChild(G))
    <3>1. IsTable(E, P)
      BY <1>2, RemoveRouteTyped
    <3> HIDE DEF E
    <3>2. IsTable(U, P)
      BY <1>2, <2>2, <3>1, ToEmptyTyped, Zenon
    <3> HIDE DEF U
    <3>3. TimerGood(G)
      BY <1>2, <3>2, TimerRetabled
    <3> HIDE DEF G
    <3> QED
      BY <3>3, RefreshedTyped
  <2> HIDE DEF G
  <2>4. TimerGood(K)
    BY <1>2, <2>3
  <2> HIDE DEF K
  <2> QED
    BY <1>1, <1>2, <2>1, <2>4, BottomTyped
<1> QED
  BY <1>3, <1>4

\* The child, or a descendant, has been deleted.
LEMMA TimerChildDeletedTyped ==
    ASSUME PipesTypeOK, TimerTypeOK, NEW t \in Timers, NEW r, TimerChildDeleted(t, r)
    PROVE  PipesTypeOK' /\ TimerTypeOK'
<1> DEFINE H == timer[t]
           T == H.routing_table
           P == Hubs \cup Timers
           direct == H.has_child /\ r.src = H.child_id
           via == T[r.src].parent
           E == RemoveRoute(T, r.src, via)
           U == UpdateTypeToEmpty(E, via)
           G == [H EXCEPT !.routing_table = U]
           K == CASE direct -> DropChild(t, H)
                  [] ~direct /\ r.src \in DOMAIN T -> RefreshedIfChild(G)
                  [] OTHER -> H
<1>1. /\ Bottom(t, r, K, "own") /\ r.cmd = "delete"
      /\ files' = IF direct THEN WithoutChild(t) ELSE files
  BY DEF TimerChildDeleted
<1>2. /\ TimerGood(H) /\ files \in [Controls -> [Fds -> Ends]]
      /\ WithoutChild(t) \in [Controls -> [Fds -> Ends]] /\ TimerGood(DropChild(t, H))
  BY TimerStarts, WithoutChildTyped, DropChildTyped
<1>3. IsTable(T, P) /\ P \subseteq Controls
  BY <1>2, TimerFields, Ids
<1>4. ASSUME r.src \in DOMAIN T PROVE TimerGood(RefreshedIfChild(G))
  <2> HIDE DEF T
  <2>1. via \in Controls
    BY <1>3, <1>4 DEF IsTable
  <2> HIDE DEF via
  <2>2. IsTable(E, P)
    BY <1>3, RemoveRouteTyped
  <2> HIDE DEF E
  <2>3. IsTable(U, P)
    BY <1>3, <2>1, <2>2, ToEmptyTyped, Zenon
  <2> HIDE DEF U
  <2>4. TimerGood(G)
    BY <1>2, <2>3, TimerRetabled
  <2> HIDE DEF G
  <2> QED
    BY <2>4, RefreshedTyped
<1> HIDE DEF G
<1>5. TimerGood(K)
  BY <1>2, <1>4
<1> HIDE DEF K
<1>6. files' \in [Controls -> [Fds -> Ends]]
  BY <1>1, <1>2
<1> QED
  BY <1>1, <1>5, <1>6, BottomTyped

\* What the child answers is passed on, or becomes the timer's own answer.
LEMMA TimerMirrorsTyped ==
    ASSUME PipesTypeOK, TimerTypeOK, NEW t \in Timers, NEW r,
           TimerMirrors(t, r) \/ TimerMirrorsDelete(t)
    PROVE  PipesTypeOK' /\ TimerTypeOK'
<1> DEFINE H == timer[t]
<1>1. /\ TimerGood(H) /\ TimerTyped(H) /\ t \in Controls /\ up \in [Controls -> Seq(Responses)]
      /\ files \in [Controls -> [Fds -> Ends]] /\ down \in [Devices -> Seq(Requests)]
      /\ H.pending \in Seq(Commands) /\ "write" \in BottomPcs
  BY TimerStarts, TimerFields, TimerPcsAre DEF TimerGood
<1>2. CASE TimerMirrors(t, r)
  <2> DEFINE taken == TakePending(H.pending, r.cmd)
             answer == IF taken.ours THEN OwnReply(t, r) ELSE r
             left == taken.left
             G == [H EXCEPT !.pending = left, !.bottom_pc = "write", !.answer = answer]
  <2>1. /\ TimerStep(t, G) /\ up[t] # <<>> /\ r = Head(up[t])
        /\ ~(r.cmd \in Links /\ r.code = "OK")
        /\ up' = [up EXCEPT ![t] = Tail(@)]
        /\ UNCHANGED <<down, files, exit_code, fifos>>
    BY <1>2 DEF TimerMirrors, Locking
  <2>2. r \in Responses /\ Tail(up[t]) \in Seq(Responses)
    BY <2>1, TimerBottomStarts
  <2>3. up' \in [Controls -> Seq(Responses)]
    BY <1>1, <2>1, <2>2
  <2>4. left \in Seq(Commands)
    BY <1>1, TakePendingTyped
  <2>5. answer \in Responses
    BY <2>1, <2>2, OwnReplyTyped
  <2> HIDE DEF left, answer
  <2>6. TimerTyped(G)
    <3>1. answer \in Responses \cup {NoResponse}
      BY <2>5
    <3> QED
      BY <1>1, <2>4, <3>1, TimerWithGlobals, TimerWithOthers, ZenonT(20)
  <2>7. TimerReady(G)
    BY <1>1, <2>5 DEF TimerGood, TimerTyped, TimerReady
  <2> HIDE DEF G
  <2> QED
    BY <1>1, <2>1, <2>3, <2>6, <2>7, TimerStepDone DEF TimerGood
<1>3. CASE TimerMirrorsDelete(t)
  <2> DEFINE taken == TakePending(H.pending, "delete")
             answer == IF taken.ours THEN OwnReply(t, H.answer) ELSE H.answer
             left == taken.left
             ours == taken.ours
             G == [H EXCEPT !.pending = left, !.bottom_pc = "write", !.answer = answer,
                            !.last = ours]
  <2>1. TimerStep(t, G) /\ UNCHANGED pipes /\ H.bottom_pc = "own"
    BY <1>3 DEF TimerMirrorsDelete, Locking
  <2>2. H.answer \in Responses /\ H.answer.cmd \notin Links
    BY <1>1, <2>1, TimerFields DEF Links
  <2>3. left \in Seq(Commands) /\ ours \in BOOLEAN
    BY <1>1, TakePendingTyped
  <2>4. answer \in Responses
    BY <2>2, OwnReplyTyped
  <2> HIDE DEF left, answer, ours
  <2>5. TimerTyped(G)
    <3>1. answer \in Responses \cup {NoResponse}
      BY <2>4
    <3> QED
      BY <1>1, <2>3, <3>1, TimerWithGlobals, TimerWithOthers, ZenonT(20)
  <2>6. TimerReady(G)
    BY <1>1, <2>4 DEF TimerGood, TimerTyped, TimerReady
  <2> HIDE DEF G
  <2> QED
    BY <2>1, <2>5, <2>6, TimerAloneTyped DEF TimerGood
<1> QED
  BY <1>2, <1>3

\* It writes the answer up.
LEMMA TimerWritesUpTyped ==
    ASSUME PipesTypeOK, TimerTypeOK, NEW t \in Timers, TimerWritesUp(t)
    PROVE  PipesTypeOK' /\ TimerTypeOK'
<1> DEFINE H == timer[t]
           pc == AfterWrite(H)
           leaving == H.force_exit \/ H.last
           G1 == [H EXCEPT !.bottom_pc = pc, !.answer = NoResponse, !.force_exit = leaving]
           G2 == [H EXCEPT !.bottom_pc = "exit", !.failed = TRUE]
<1>1. H.bottom_pc = "write" /\ TellsParent(t, <<H.answer>>, G1, G2)
  BY DEF TimerWritesUp
<1>2. TimerGood(H) /\ H.answer \in Responses /\ leaving \in BOOLEAN
  BY <1>1, TimerStarts, TimerFields
<1>3. <<H.answer>> \in Seq(Responses)
  BY <1>2
<1>4. pc \in {"exit", "ended", "read"} /\ pc \in BottomPcs /\ "exit" \in BottomPcs
  BY TimerPcsAre DEF AfterWrite
<1> HIDE DEF pc, leaving
<1>5. TimerTyped(G1) /\ TimerTyped(G2)
  <2>1. TimerTyped(H) /\ NoResponse \in Responses \cup {NoResponse} /\ TRUE \in BOOLEAN
    BY <1>2 DEF TimerGood
  <2>2. TimerTyped(G1)
    BY <1>2, <1>4, <2>1, TimerWithGlobals, TimerWithOthers, ZenonT(20)
  <2>3. TimerTyped(G2)
    BY <1>4, <2>1, TimerWithGlobals, TimerWithOthers, ZenonT(20)
  <2> QED
    BY <2>2, <2>3
<1>6. TimerReady(G1)
  BY <1>2, <1>4 DEF TimerGood, TimerTyped, TimerReady
<1>7. TimerReady(G2)
  BY <1>2, <1>4 DEF TimerGood, TimerTyped, TimerReady
<1> HIDE DEF G1, G2
<1> QED
  BY <1>1, <1>3, <1>5, <1>6, <1>7, TellsParentTyped DEF TimerGood

\* Every step of the child-responses thread.
LEMMA TimerBottomUpTyped ==
    ASSUME PipesTypeOK, TimerTypeOK, NEW t \in Timers, TimerBottomUp(t)
    PROVE  PipesTypeOK' /\ TimerTypeOK'
<1>1. ASSUME NEW r, TimerPassesGarbled(t, r)
      PROVE  PipesTypeOK' /\ TimerTypeOK'
  <2>1. Bottom(t, r, timer[t], "write") /\ UNCHANGED files
    BY <1>1 DEF TimerPassesGarbled
  <2>2. TimerGood(timer[t]) /\ files \in [Controls -> [Fds -> Ends]]
    BY TimerStarts
  <2> QED
    BY <2>1, <2>2, BottomTyped
<1> QED
  BY <1>1, TimerChildAcquiredTyped, TimerDescendantTyped, TimerChildDeletedTyped,
     TimerMirrorsTyped, TimerWritesUpTyped DEF TimerBottomUp

-----------------------------------------------------------------------------
(* The schedule thread.                                                    *)

\* It never waits for longer than a day, begin being no later than end.
THEOREM NextTargetIs ==
    ASSUME TimerTypeOK, NEW t \in Timers
    PROVE  /\ NextTarget(timer[t]).left \in 1 .. MINUTES_IN_A_DAY
           /\ NextTarget(timer[t]).activate \in BOOLEAN
<1>1. TimerGood(timer[t]) /\ now \in Minutes
  BY DEF TimerTypeOK, TimerGood
<1> DEFINE b == timer[t].begin
           e == timer[t].end
<1>2. /\ now \in Nat /\ b \in Nat /\ e \in Nat /\ b <= e /\ MINUTES_IN_A_DAY \in Nat
      /\ now < MINUTES_IN_A_DAY /\ b < MINUTES_IN_A_DAY /\ e < MINUTES_IN_A_DAY
  BY <1>1, TimerFields, MinutesAssumption DEF Minutes
<1>3. NextTarget(timer[t]) =
          CASE now < b -> [activate |-> TRUE, left |-> b - now]
            [] now >= b /\ now < e -> [activate |-> FALSE, left |-> e - now]
            [] OTHER -> [activate |-> TRUE, left |-> b + MINUTES_IN_A_DAY - now]
  BY DEF NextTarget
<1> HIDE DEF b, e
<1>4. CASE now < b
  <2>1. NextTarget(timer[t]) = [activate |-> TRUE, left |-> b - now]
    BY <1>2, <1>3, <1>4
  <2> QED
    BY <1>2, <1>4, <2>1
<1>5. CASE now >= b /\ now < e
  <2>1. NextTarget(timer[t]) = [activate |-> FALSE, left |-> e - now]
    BY <1>2, <1>3, <1>5
  <2> QED
    BY <1>2, <1>5, <2>1
<1>6. CASE now >= b /\ ~(now < e)
  <2>1. NextTarget(timer[t]) = [activate |-> TRUE, left |-> b + MINUTES_IN_A_DAY - now]
    BY <1>2, <1>3, <1>6
  <2> QED
    BY <1>2, <1>6, <2>1
<1> QED
  BY <1>2, <1>4, <1>5, <1>6

\* It goes to sleep, and wakes.
LEMMA ScheduleWaitsTyped ==
    ASSUME PipesTypeOK, TimerTypeOK, NEW t \in Timers, ScheduleSleeps(t) \/ ScheduleWakes(t)
    PROVE  PipesTypeOK' /\ TimerTypeOK'
<1> DEFINE H == timer[t]
<1>1. TimerGood(H) /\ TimerTyped(H)
  BY TimerStarts DEF TimerGood
<1>2. CASE ScheduleSleeps(t)
  <2> DEFINE pc == IF H.force_exit THEN "ended" ELSE "asleep"
             left == NextTarget(H).left
             activate == NextTarget(H).activate
             G == [H EXCEPT !.schedule_pc = pc, !.left = left, !.activate = activate]
  <2>1. TimerStep(t, G) /\ UNCHANGED pipes
    BY <1>2 DEF ScheduleSleeps, Locking
  <2>2. pc \in {"ended", "asleep"} /\ pc \in SchedulePcs
    BY TimerPcsAre
  <2>3. left \in 0 .. MINUTES_IN_A_DAY /\ activate \in BOOLEAN
    BY NextTargetIs, MinutesAssumption
  <2> HIDE DEF pc, left, activate
  <2>4. TimerTyped(G)
    BY <1>1, <2>2, <2>3, TimerWithOthers, ZenonT(20)
  <2>5. TimerReady(G)
    BY <1>1, <2>2 DEF TimerGood, TimerTyped, TimerReady
  <2> HIDE DEF G
  <2> QED
    BY <2>1, <2>4, <2>5, TimerAloneTyped DEF TimerGood
<1>3. CASE ScheduleWakes(t)
  <2> DEFINE due == [dst |-> H.child_id, type |-> H.child_type, fd |-> H.child_fd]
             G1 == [H EXCEPT !.schedule_pc = "switch", !.due = due]
             G2 == [H EXCEPT !.schedule_pc = "start"]
             G == IF H.has_child THEN G1 ELSE G2
  <2>1. TimerStep(t, G) /\ UNCHANGED pipes
    BY <1>3 DEF ScheduleWakes, Locking
  <2>2. "switch" \in SchedulePcs /\ "start" \in SchedulePcs
    BY TimerPcsAre
  <2>3. due \in Dues /\ due.dst = H.child_id
    BY <1>1, TimerFields DEF Dues
  <2> HIDE DEF due
  <2>4. H.has_child => TimerGood(G1)
    <3>1. TimerTyped(G1)
      BY <1>1, <2>2, <2>3, TimerWithOthers, ZenonT(20)
    <3>2. H.has_child => TimerReady(G1)
      BY <1>1, <2>3 DEF TimerGood, TimerTyped, TimerReady
    <3> QED
      BY <3>1, <3>2 DEF TimerGood
  <2>5. TimerGood(G2)
    <3>1. TimerTyped(G2)
      BY <1>1, <2>2, TimerWithOthers
    <3>2. TimerReady(G2)
      BY <1>1 DEF TimerGood, TimerTyped, TimerReady
    <3> QED
      BY <3>1, <3>2 DEF TimerGood
  <2> HIDE DEF G1, G2
  <2>6. TimerGood(G)
    BY <2>4, <2>5
  <2> HIDE DEF G
  <2> QED
    BY <2>1, <2>6, TimerAloneTyped
<1> QED
  BY <1>2, <1>3

\* It switches the child.
LEMMA ScheduleSwitchesTyped ==
    ASSUME PipesTypeOK, TimerTypeOK, NEW t \in Timers, ScheduleSwitches(t)
    PROVE  PipesTypeOK' /\ TimerTypeOK'
<1> DEFINE H == timer[t]
           cmd == DueSwitch(H)
           dst == H.due.dst
           m == [dst |-> dst, cmd |-> cmd, arg |-> CONTROLLER_ID]
           end == files[t][H.due.fd]
           G1 == [H EXCEPT !.schedule_pc = "update", !.due = NotDue]
           G2 == [H EXCEPT !.schedule_pc = "unreachable", !.due = NotDue]
<1>1. /\ H.schedule_pc = "switch" /\ UNCHANGED <<up, files, exit_code, fifos>>
      /\ \/ down' = SendDown(down, end, m) /\ TimerStep(t, G1)
         \/ TimerStep(t, G2) /\ UNCHANGED down
  BY DEF ScheduleSwitches
<1>2. /\ TimerGood(H) /\ TimerTyped(H) /\ down \in [Devices -> Seq(Requests)]
      /\ files \in [Controls -> [Fds -> Ends]] /\ up \in [Controls -> Seq(Responses)]
      /\ dst \in Devices
  BY <1>1, TimerStarts, TimerFields DEF TimerGood
<1>3. cmd \in Switches
  BY DEF DueSwitch, Switches, PowerSwitches, DoorSwitches
<1>4. cmd \in Commands /\ cmd \notin Links /\ cmd \notin Registries
  BY <1>3 DEF Commands, Switches, PowerSwitches, DoorSwitches, Links, Registries
<1>5. m \in Requests
  <2> HIDE DEF cmd, dst
  <2>1. cmd # "change_parent" /\ cmd # "remove_child"
    BY <1>4 DEF Links
  <2> QED
    BY <1>2, <1>4, <2>1, RequestIs
<1> HIDE DEF m, end
<1>6. SendDown(down, end, m) \in [Devices -> Seq(Requests)]
  BY <1>2, <1>5, SendDownIs
<1>7. TimerGood(G1) /\ TimerGood(G2)
  <2>1. "update" \in SchedulePcs /\ "unreachable" \in SchedulePcs /\ NotDue \in Dues
    BY TimerPcsAre DEF NotDue, Dues
  <2>2. TimerTyped(G1)
    BY <1>2, <2>1, TimerWithOthers, ZenonT(20)
  <2>3. TimerTyped(G2)
    BY <1>2, <2>1, TimerWithOthers, ZenonT(20)
  <2>4. TimerReady(G1)
    BY <1>2 DEF TimerGood, TimerTyped, TimerReady
  <2>5. TimerReady(G2)
    BY <1>2 DEF TimerGood, TimerTyped, TimerReady
  <2> QED
    BY <2>2, <2>3, <2>4, <2>5 DEF TimerGood
<1> HIDE DEF G1, G2
<1> QED
  BY <1>1, <1>2, <1>6, <1>7, TimerStepDone

\* ... and starts again, or releases a child it cannot reach.
LEMMA ScheduleEndsTyped ==
    ASSUME PipesTypeOK, TimerTypeOK, NEW t \in Timers,
           ScheduleUpdates(t) \/ ScheduleReleasesChild(t)
    PROVE  PipesTypeOK' /\ TimerTypeOK'
<1> DEFINE H == timer[t]
<1>1. /\ TimerGood(H) /\ TimerTyped(H) /\ TimerGood(DropChild(t, H))
      /\ down \in [Devices -> Seq(Requests)] /\ up \in [Controls -> Seq(Responses)]
      /\ files \in [Controls -> [Fds -> Ends]] /\ WithoutChild(t) \in [Controls -> [Fds -> Ends]]
      /\ "start" \in SchedulePcs
  BY TimerStarts, DropChildTyped, WithoutChildTyped, TimerPcsAre DEF TimerGood
<1>2. CASE ScheduleUpdates(t)
  <2> DEFINE state == IF H.activate THEN STATE_ON ELSE STATE_OFF
             G == [H EXCEPT !.schedule_pc = "start", !.state = state]
  <2>1. TimerStep(t, G) /\ UNCHANGED pipes
    BY <1>2 DEF ScheduleUpdates, Locking
  <2>2. state \in {STATE_OFF, STATE_ON}
    OBVIOUS
  <2> HIDE DEF state
  <2>3. TimerTyped(G)
    BY <1>1, <2>2, TimerWithGlobals, TimerWithOthers, ZenonT(20)
  <2>4. TimerReady(G)
    BY <1>1 DEF TimerGood, TimerTyped, TimerReady
  <2> HIDE DEF G
  <2> QED
    BY <2>1, <2>3, <2>4, TimerAloneTyped DEF TimerGood
<1>3. CASE ScheduleReleasesChild(t)
  <2> DEFINE K == IF H.has_child THEN DropChild(t, H) ELSE H
             G == [K EXCEPT !.schedule_pc = "start"]
  <2>1. /\ TimerStep(t, G) /\ files' = IF H.has_child THEN WithoutChild(t) ELSE files
        /\ UNCHANGED <<down, up, exit_code, fifos>>
    BY <1>3 DEF ScheduleReleasesChild, Locking
  <2>2. TimerGood(K)
    BY <1>1
  <2> HIDE DEF K
  <2>3. TimerTyped(G)
    BY <1>1, <2>2, TimerWithOthers DEF TimerGood
  <2>4. TimerReady(G)
    BY <2>2 DEF TimerGood, TimerTyped, TimerReady
  <2> HIDE DEF G
  <2> QED
    BY <1>1, <2>1, <2>3, <2>4, TimerStepDone DEF TimerGood
<1> QED
  BY <1>2, <1>3

\* Every step of the schedule thread.
LEMMA TimerScheduleTyped ==
    ASSUME PipesTypeOK, TimerTypeOK, NEW t \in Timers, TimerSchedule(t)
    PROVE  PipesTypeOK' /\ TimerTypeOK'
  BY ScheduleWaitsTyped, ScheduleSwitchesTyped, ScheduleEndsTyped DEF TimerSchedule

\* A minute goes by.
THEOREM MinutePassesTyped ==
    ASSUME PipesTypeOK, TimerTypeOK, MinutePasses
    PROVE  PipesTypeOK' /\ TimerTypeOK'
<1>1. /\ \A t \in Timers : Running(t) => timer[t].left > 0
      /\ now' = (now + 1) % MINUTES_IN_A_DAY
      /\ timer' = [t \in Timers |->
             IF Running(t) THEN [timer[t] EXCEPT !.left = @ - 1] ELSE timer[t]]
      /\ UNCHANGED pipes
  BY DEF MinutePasses
<1>2. now' \in Minutes
  BY <1>1, MinutesAssumption DEF TimerTypeOK, Minutes
<1>3. ASSUME NEW t \in Timers PROVE TimerGood(timer'[t])
  <2> DEFINE H == timer[t]
             left == H.left - 1
             G == [H EXCEPT !.left = left]
  <2>1. TimerGood(H)
    BY DEF TimerTypeOK, TimerGood
  <2>2. timer'[t] = IF Running(t) THEN G ELSE H
    BY <1>1
  <2>3. CASE Running(t)
    <3>1. left \in 0 .. MINUTES_IN_A_DAY
      BY <1>1, <2>1, <2>3, TimerFields, MinutesAssumption
    <3> HIDE DEF left
    <3>2. TimerTyped(G)
      BY <2>1, <3>1, TimerWithOthers DEF TimerGood
    <3>3. TimerReady(G)
      BY <2>1 DEF TimerGood, TimerTyped, TimerReady
    <3> QED
      BY <2>2, <2>3, <3>2, <3>3 DEF TimerGood
  <2>4. CASE ~Running(t)
    BY <2>1, <2>2, <2>4
  <2> QED
    BY <2>3, <2>4
<1>4. timer' = [t \in Timers |-> timer'[t]]
  BY <1>1
<1>5. TimerTypeOK'
  BY <1>2, <1>3, <1>4 DEF TimerTypeOK, TimerGood, TimerTyped, TimerReady
<1> QED
  BY <1>1, <1>5 DEF pipes, PipesTypeOK

\* Every timer starts typed and ready.
LEMMA TimerInitTyped ==
    ASSUME TimerInit
    PROVE  TimerTypeOK
<1>1. DEFAULT_BEGIN \in Minutes /\ DEFAULT_END \in Minutes /\ DEFAULT_BEGIN <= DEFAULT_END
  BY MinutesAssumption DEF DEFAULT_BEGIN, DEFAULT_END, Minutes
<1>2. 1 \in Fds
  <2>1. Cardinality(Devices) \in Nat
    BY DevicesAssumption, FS_CardinalityType
  <2> QED
    BY <2>1, MaxFdAssumption DEF Fds
<1>3. IsTable(EmptyTable, Hubs \cup Timers) /\ CONTROLLER_ID \in Controls /\ NotDue \in Dues
      /\ TIMER_DEVICE \in TIMER_DEVICE .. TIMER_DEVICE + 3
  BY EmptyIsTable, Ids DEF NotDue, Dues, TIMER_DEVICE
<1>4. /\ <<>> \in Seq(Commands) /\ 0 \in 0 .. MINUTES_IN_A_DAY
      /\ "read" \in TimerPcs /\ "read" \in BottomPcs /\ "start" \in SchedulePcs
  BY TimerPcsAre, MinutesAssumption
<1>5. ASSUME NEW t \in Timers PROVE TimerTyped(timer[t]) /\ TimerReady(timer[t])
  <2> DEFINE H == timer[t]
  <2>1. H = [device_type |-> TIMER_DEVICE, state |-> STATE_OFF,
             begin |-> DEFAULT_BEGIN, end |-> DEFAULT_END,
             parent_id |-> CONTROLLER_ID, parent_changed |-> FALSE, force_exit |-> FALSE,
             failed |-> FALSE,
             has_child |-> FALSE, child_id |-> 0, child_type |-> 0, child_fd |-> NoFd,
             routing_table |-> EmptyTable, pending |-> <<>>, snd |-> 1, locked |-> FALSE,
             pc |-> "read", request |-> NoRequest, response |-> NoResponse, route |-> NoFd,
             bottom_pc |-> "read", answer |-> NoResponse, last |-> FALSE,
             schedule_pc |-> "start", left |-> 0, activate |-> FALSE, due |-> NotDue]
    BY <1>5 DEF TimerInit
  <2> HIDE DEF H
  <2>2. TimerTyped(H)
    BY <1>1, <1>2, <1>3, <1>4, <2>1 DEF TimerTyped
  <2>3. TimerReady(H)
    BY <1>1, <2>1 DEF TimerReady
  <2> QED
    BY <2>2, <2>3 DEF H
<1> QED
  BY <1>5 DEF TimerInit, TimerTypeOK

-----------------------------------------------------------------------------
(* A timer that is on its way out stays so.                                *)

\* The steps on a timer's globals, none of which touches force_exit.
LEMMA TimerOperatorsPersist ==
    ASSUME NEW t, NEW H, "force_exit" \in DOMAIN H
    PROVE  /\ Persists(H, H)
           /\ \A r : Persists(H, TimerReplying(H, r))
           /\ Persists(H, TimerResumed(H))
           /\ Persists(H, Refreshed(H))
           /\ Persists(H, RefreshedIfChild(H))
           /\ Persists(H, DropChild(t, H))
           /\ \A x : Persists(H, [H EXCEPT !.routing_table = x])
           /\ \A x : Persists(H, [H EXCEPT !.pending = x])
           /\ \A x : Persists(H, [H EXCEPT !.pc = x])
           /\ \A x, y : Persists(H, [H EXCEPT !.bottom_pc = x, !.answer = y])
<1>1. Persists(H, H)
  BY DEF Persists
<1>2. \A r : Persists(H, TimerReplying(H, r))
  BY DEF Persists, TimerReplying
<1>3. Persists(H, TimerResumed(H))
  BY DEF Persists, TimerResumed
<1>4. Persists(H, Refreshed(H))
  BY DEF Persists, Refreshed
<1>5. Persists(H, RefreshedIfChild(H))
  BY <1>1, <1>4 DEF RefreshedIfChild
<1>6. Persists(H, DropChild(t, H))
  BY DEF Persists, DropChild
<1>7. \A x : Persists(H, [H EXCEPT !.routing_table = x])
  BY DEF Persists
<1>8. \A x : Persists(H, [H EXCEPT !.pending = x])
  BY DEF Persists
<1>9. \A x : Persists(H, [H EXCEPT !.pc = x])
  BY DEF Persists
<1>10. \A x, y : Persists(H, [H EXCEPT !.bottom_pc = x, !.answer = y])
  BY DEF Persists
<1> QED
  BY <1>1, <1>2, <1>3, <1>4, <1>5, <1>6, <1>7, <1>8, <1>9, <1>10

\* Once a timer is told to exit, no step of this one, which persists, makes any
\* forget it.
LEMMA TimerStepPersists ==
    ASSUME TimerTypeOK, NEW t \in Timers, NEW new, TimerStep(t, new) \/ Locking(t, new),
           "force_exit" \in DOMAIN timer[t] => Persists(timer[t], new)
    PROVE  \A g \in Timers : timer[g].force_exit => timer'[g].force_exit
<1>1. timer' = [g \in Timers |-> IF g = t THEN new ELSE timer[g]]
  BY DEF TimerTypeOK, TimerStep, Locking
<1>2. "force_exit" \in DOMAIN timer[t]
  BY DEF TimerTypeOK, TimerTyped
<1> QED
  BY <1>1, <1>2 DEF Persists

\* A command the timer passes to its child, or refuses.
LEMMA AsksChildPersists ==
    ASSUME TimerTypeOK, NEW t \in Timers, NEW m, NEW H, NEW lost, NEW F,
           AsksChild(t, m, H, lost, F),
           Persists(timer[t], H), Persists(timer[t], lost)
    PROVE  \A g \in Timers : timer[g].force_exit => timer'[g].force_exit
<1> DEFINE asked == [H EXCEPT !.pending = Append(@, m.cmd)]
           refused == [lost EXCEPT !.pending = TakePending(Append(@, m.cmd), m.cmd).left]
<1>1. "force_exit" \in DOMAIN H /\ "force_exit" \in DOMAIN lost
  BY DEF Persists
<1>2. Persists(H, asked) /\ Persists(lost, refused)
  BY <1>1, TimerOperatorsPersist
<1>3. "force_exit" \in DOMAIN asked /\ "force_exit" \in DOMAIN refused
  BY <1>2 DEF Persists
<1>4. Locking(t, TimerResumed(asked)) \/ \E r : Locking(t, TimerReplying(refused, r))
  BY DEF AsksChild
<1> HIDE DEF asked, refused
<1>5. Persists(asked, TimerResumed(asked)) /\ \A r : Persists(refused, TimerReplying(refused, r))
  BY <1>3, TimerOperatorsPersist
<1>6. /\ Persists(timer[t], TimerResumed(asked))
      /\ \A r : Persists(timer[t], TimerReplying(refused, r))
  BY <1>2, <1>5, PersistsOn
<1> QED
  BY <1>4, <1>6, TimerStepPersists

\* The main thread takes a request in.
LEMMA TimerTakesPersists ==
    ASSUME TimerTypeOK, NEW t \in Timers, NEW m,
           \/ TimerForwards(t, m) \/ TimerInfo(t, m) \/ TimerSwitch(t, m)
           \/ TimerDelete(t, m) \/ TimerChangeParent(t, m) \/ TimerRemoveChild(t, m)
           \/ TimerRegistry(t, m)
    PROVE  \A g \in Timers : timer[g].force_exit => timer'[g].force_exit
<1> DEFINE H == timer[t]
           last == [H EXCEPT !.force_exit = TRUE]
<1>1. "force_exit" \in DOMAIN H
  BY DEF TimerTypeOK, TimerTyped
<1>2. ASSUME NEW G, Locking(t, G), Persists(H, G)
      PROVE  \A g \in Timers : timer[g].force_exit => timer'[g].force_exit
  BY <1>2, TimerStepPersists
<1>3. ASSUME NEW G, NEW r, Locking(t, TimerReplying(G, r)), Persists(H, G)
      PROVE  \A g \in Timers : timer[g].force_exit => timer'[g].force_exit
  <2>1. "force_exit" \in DOMAIN G
    BY <1>3 DEF Persists
  <2>2. Persists(G, TimerReplying(G, r))
    BY <2>1, TimerOperatorsPersist
  <2> QED
    BY <1>2, <1>3, <2>2, PersistsOn
<1>4. Persists(H, H) /\ Persists(H, DropChild(t, H))
  BY <1>1, TimerOperatorsPersist
<1>5. Persists(H, last)
  BY <1>1 DEF Persists
<1>6. CASE TimerForwards(t, m)
  <2> DEFINE on == [H EXCEPT !.pc = "forward", !.request = m, !.route = H.child_fd]
  <2>1. Persists(H, on)
    BY <1>1 DEF Persists
  <2>2. Locking(t, on) \/ \E r : Locking(t, TimerReplying(H, r))
    BY <1>6 DEF TimerForwards
  <2> HIDE DEF on, H
  <2> QED
    BY <1>2, <1>3, <1>4, <2>1, <2>2
<1>7. CASE TimerInfo(t, m)
  <2>1. \/ AsksChild(t, m, H, DropChild(t, H), WithoutChild(t))
        \/ \E r : Locking(t, TimerReplying(H, r))
    BY <1>7 DEF TimerInfo, AnswersItself
  <2> QED
    BY <1>3, <1>4, <2>1, AsksChildPersists
<1>8. CASE TimerSwitch(t, m)
  <2> DEFINE on == [H EXCEPT !.state = Commanded(m.cmd, @)]
  <2>1. Persists(H, on)
    BY <1>1 DEF Persists
  <2>2. \/ AsksChild(t, m, on, DropChild(t, H), WithoutChild(t))
        \/ \E r : Locking(t, TimerReplying(H, r))
    BY <1>8 DEF TimerSwitch, AnswersItself
  <2> HIDE DEF on
  <2> QED
    BY <1>3, <1>4, <2>1, <2>2, AsksChildPersists
<1>9. CASE TimerDelete(t, m)
  <2>1. \/ AsksChild(t, m, H, last, files)
        \/ \E r : Locking(t, TimerReplying(last, r))
    BY <1>9 DEF TimerDelete, AnswersItself
  <2> HIDE DEF last
  <2> QED
    BY <1>3, <1>4, <1>5, <2>1, AsksChildPersists
<1>10. CASE TimerChangeParent(t, m)
  <2> DEFINE fd == LowestFree(files[t])
             waits == [H EXCEPT !.pc = "blocked", !.locked = TRUE]
             closed(r) == [TimerReplying(H, r) EXCEPT !.snd = NoFd]
             moved(r) == [TimerReplying(H, r) EXCEPT !.snd = fd, !.parent_id = m.arg,
                                                     !.parent_changed = TRUE]
  <2>1. Persists(H, waits) /\ \A r : Persists(H, closed(r)) /\ Persists(H, moved(r))
    BY <1>1 DEF Persists, TimerReplying
  <2>2. \/ Locking(t, waits)
        \/ \E r : \/ Locking(t, TimerReplying(H, r))
                  \/ Locking(t, closed(r)) \/ Locking(t, moved(r))
    BY <1>10, Zenon DEF TimerChangeParent
  <2> HIDE DEF waits, closed, moved, H
  <2> QED
    BY <1>2, <1>3, <1>4, <2>1, <2>2
<1>11. CASE TimerRemoveChild(t, m)
  <2>1. \E r : Locking(t, TimerReplying(H, r)) \/ Locking(t, TimerReplying(DropChild(t, H), r))
    BY <1>11 DEF TimerRemoveChild
  <2> QED
    BY <1>3, <1>4, <2>1
<1>12. CASE TimerRegistry(t, m)
  <2> DEFINE valid == IF m.cmd = "set_begin" THEN m.arg <= H.end ELSE m.arg >= H.begin
             code == IF valid THEN "OK" ELSE "INVALID_REQUEST_ARGUMENT"
             set == IF m.cmd = "set_begin" THEN [H EXCEPT !.begin = m.arg]
                                           ELSE [H EXCEPT !.end = m.arg]
             kept == IF valid THEN set ELSE H
             answering == TimerReplying(kept, Response(t, m.cmd, code, <<m.arg>>))
             next == IF valid THEN [answering EXCEPT !.pc = "reschedule"] ELSE answering
  <2>1. Persists(H, kept)
    BY <1>1 DEF Persists
  <2>2. "force_exit" \in DOMAIN kept
    BY <2>1 DEF Persists
  <2>3. Locking(t, next)
    BY <1>12 DEF TimerRegistry
  <2> HIDE DEF kept
  <2>4. Persists(kept, answering)
    BY <2>2, TimerOperatorsPersist
  <2>5. "force_exit" \in DOMAIN answering
    BY <2>4 DEF Persists
  <2> HIDE DEF answering
  <2>6. Persists(answering, next)
    BY <2>5, TimerOperatorsPersist
  <2> HIDE DEF next
  <2> QED
    BY <1>2, <2>1, <2>3, <2>4, <2>6, PersistsOn
<1> QED
  BY <1>6, <1>7, <1>8, <1>9, <1>10, <1>11, <1>12

\* The main thread does what it has taken in, or ends.
LEMMA TimerMainPersists ==
    ASSUME TimerTypeOK, NEW t \in Timers, TimerMain(t) \/ TimerTerminates(t)
    PROVE  \A g \in Timers : timer[g].force_exit => timer'[g].force_exit
<1> DEFINE H == timer[t]
<1>1. "force_exit" \in DOMAIN H
  BY DEF TimerTypeOK, TimerTyped
<1>2. ASSUME NEW G, TimerStep(t, G) \/ Locking(t, G), Persists(H, G)
      PROVE  \A g \in Timers : timer[g].force_exit => timer'[g].force_exit
  BY <1>2, TimerStepPersists
<1>3. Persists(H, H) /\ Persists(H, DropChild(t, H)) /\ Persists(H, TimerResumed(H))
  BY <1>1, TimerOperatorsPersist
<1>4. \A pc : Persists(H, [H EXCEPT !.pc = pc])
  BY <1>1, TimerOperatorsPersist
<1>5. Persists(H, MainExits(t))
  BY <1>1 DEF Persists, MainExits
<1>6. ASSUME NEW ms, NEW G, TellsParent(t, ms, G, MainExits(t)), Persists(H, G)
      PROVE  \A g \in Timers : timer[g].force_exit => timer'[g].force_exit
  <2>1. Locking(t, G) \/ Locking(t, MainExits(t))
    BY <1>6 DEF TellsParent
  <2> QED
    BY <1>2, <1>5, <1>6, <2>1
<1>7. CASE TimerWritesOn(t)
  <2>1. TimerStep(t, TimerResumed(H)) \/ TimerStep(t, [H EXCEPT !.pc = "unreachable"])
    BY <1>7 DEF TimerWritesOn
  <2> HIDE DEF H
  <2> QED
    BY <1>2, <1>3, <1>4, <2>1
<1>8. CASE TimerReleasesChild(t)
  <2> DEFINE left == IF H.has_child THEN DropChild(t, H) ELSE H
  <2>1. Persists(H, left)
    BY <1>3
  <2>2. "force_exit" \in DOMAIN left
    BY <2>1 DEF Persists
  <2>3. PICK r : Locking(t, TimerReplying(left, r))
    BY <1>8 DEF TimerReleasesChild
  <2> HIDE DEF left
  <2>4. Persists(left, TimerReplying(left, r))
    BY <2>2, TimerOperatorsPersist
  <2> QED
    BY <1>2, <2>1, <2>3, <2>4, PersistsOn
<1>9. CASE TimerReschedules(t)
  <2> DEFINE dropped == [H EXCEPT !.routing_table = RemoveRoute(@, H.child_id, t),
                                  !.locked = TRUE]
             updated == IF H.schedule_pc = "update"
                        THEN [H EXCEPT !.state = IF H.activate THEN STATE_ON ELSE STATE_OFF]
                        ELSE H
             left == IF ClosingChild(H) THEN dropped ELSE updated
             next == [left EXCEPT !.pc = "reply", !.schedule_pc = "start", !.left = 0,
                                  !.activate = FALSE, !.due = NotDue]
  <2>1. Persists(H, dropped) /\ Persists(H, updated)
    BY <1>1 DEF Persists
  <2>2. Persists(H, left)
    <3> HIDE DEF dropped, updated
    <3> QED
      BY <2>1
  <2>3. "force_exit" \in DOMAIN left
    BY <2>2 DEF Persists
  <2>4. TimerStep(t, next)
    BY <1>9 DEF TimerReschedules
  <2> HIDE DEF left
  <2>5. Persists(left, next)
    BY <2>3 DEF Persists
  <2> HIDE DEF next
  <2> QED
    BY <1>2, <2>2, <2>4, <2>5, PersistsOn
<1>10. CASE TimerReplies(t)
  <2> DEFINE G == IF H.parent_changed THEN [H EXCEPT !.pc = "replay"] ELSE TimerResumed(H)
  <2>1. Persists(H, G)
    BY <1>3, <1>4
  <2>2. TellsParent(t, <<H.response>>, G, MainExits(t))
    BY <1>10 DEF TimerReplies
  <2> HIDE DEF G
  <2> QED
    BY <1>6, <2>1, <2>2
<1>11. CASE TimerReplays(t)
  <2>1. \E pc : Locking(t, [H EXCEPT !.pc = pc])
    BY <1>11 DEF TimerReplays
  <2> QED
    BY <1>2, <1>4, <2>1
<1>12. CASE TimerReplaysBranch(t) \/ TimerAnnounces(t)
  <2>1. \E ms : TellsParent(t, ms, TimerResumed(H), MainExits(t))
    BY <1>12 DEF TimerReplaysBranch, TimerAnnounces
  <2> QED
    BY <1>3, <1>6, <2>1
<1>13. CASE TimerReplaysChild(t)
  <2>1. \/ \E r : Locking(t, [H EXCEPT !.pc = "announce", !.response = r])
        \/ Locking(t, TimerResumed(H))
    BY <1>13 DEF TimerReplaysChild
  <2>2. \A r : Persists(H, [H EXCEPT !.pc = "announce", !.response = r])
    BY <1>1 DEF Persists
  <2> HIDE DEF H
  <2> QED
    BY <1>2, <1>3, <2>1, <2>2
<1>14. CASE TimerEndOfFile(t)
  <2>1. PICK r : TimerStep(t, [TimerReplying(H, r) EXCEPT !.force_exit = TRUE, !.failed = TRUE])
    BY <1>14 DEF TimerEndOfFile
  <2>2. Persists(H, [TimerReplying(H, r) EXCEPT !.force_exit = TRUE, !.failed = TRUE])
    BY <1>1 DEF Persists, TimerReplying
  <2> QED
    BY <1>2, <2>1, <2>2
<1>15. CASE TimerLeaves(t) \/ TimerTerminates(t)
  <2>1. PICK failed \in BOOLEAN :
            TimerStep(t, [H EXCEPT !.pc = "exiting", !.bottom_pc = "ended",
                              !.failed = @ \/ failed,
                              !.locked = @ \/ H.bottom_pc \in {"own", "write"}])
    BY <1>15 DEF TimerLeaves, TimerTerminates, TimerCancelsResponses
  <2>2. Persists(H, [H EXCEPT !.pc = "exiting", !.bottom_pc = "ended",
                              !.failed = @ \/ failed,
                              !.locked = @ \/ H.bottom_pc \in {"own", "write"}])
    BY <1>1 DEF Persists
  <2> QED
    BY <1>2, <2>1, <2>2
<1>16. CASE TimerExits(t)
  BY <1>16 DEF TimerExits, timerVars
<1>17. ASSUME NEW m,
              \/ TimerForwards(t, m) \/ TimerInfo(t, m) \/ TimerSwitch(t, m)
              \/ TimerDelete(t, m) \/ TimerChangeParent(t, m) \/ TimerRemoveChild(t, m)
              \/ TimerRegistry(t, m)
       PROVE  \A g \in Timers : timer[g].force_exit => timer'[g].force_exit
  BY <1>17, TimerTakesPersists
<1> QED
  BY <1>7, <1>8, <1>9, <1>10, <1>11, <1>12, <1>13, <1>14, <1>15, <1>16, <1>17 DEF TimerMain

\* The child-responses thread.
LEMMA TimerBottomUpPersists ==
    ASSUME TimerTypeOK, NEW t \in Timers, TimerBottomUp(t)
    PROVE  \A g \in Timers : timer[g].force_exit => timer'[g].force_exit
<1> DEFINE H == timer[t]
<1>1. "force_exit" \in DOMAIN H
  BY DEF TimerTypeOK, TimerTyped
<1>2. ASSUME NEW G, Locking(t, G), Persists(H, G)
      PROVE  \A g \in Timers : timer[g].force_exit => timer'[g].force_exit
  BY <1>2, TimerStepPersists
<1>3. ASSUME NEW r, NEW G, NEW next, Bottom(t, r, G, next), Persists(H, G)
      PROVE  \A g \in Timers : timer[g].force_exit => timer'[g].force_exit
  <2>1. Locking(t, [G EXCEPT !.bottom_pc = next, !.answer = r])
    BY <1>3 DEF Bottom
  <2>2. "force_exit" \in DOMAIN G
    BY <1>3 DEF Persists
  <2>3. Persists(G, [G EXCEPT !.bottom_pc = next, !.answer = r])
    BY <2>2, TimerOperatorsPersist
  <2> QED
    BY <1>2, <1>3, <2>1, <2>3, PersistsOn
<1>4. Persists(H, H) /\ Persists(H, DropChild(t, H))
  BY <1>1, TimerOperatorsPersist
<1>5. \A T : Persists(H, RefreshedIfChild([H EXCEPT !.routing_table = T]))
  <2> TAKE T
  <2> DEFINE G == [H EXCEPT !.routing_table = T]
  <2>1. Persists(H, G)
    BY <1>1, TimerOperatorsPersist
  <2>2. "force_exit" \in DOMAIN G
    BY <2>1 DEF Persists
  <2> HIDE DEF G
  <2>3. Persists(G, RefreshedIfChild(G))
    BY <2>2, TimerOperatorsPersist
  <2> USE DEF G
  <2> QED
    BY <2>1, <2>3, PersistsOn
<1>6. ASSUME NEW r, TimerPassesGarbled(t, r)
      PROVE  \A g \in Timers : timer[g].force_exit => timer'[g].force_exit
  BY <1>3, <1>4, <1>6 DEF TimerPassesGarbled
<1>7. ASSUME NEW r, TimerChildAcquired(t, r)
      PROVE  \A g \in Timers : timer[g].force_exit => timer'[g].force_exit
  <2> DEFINE fd == LowestFree(files[t])
             child == [H EXCEPT
                !.child_id = r.src, !.child_type = r.args[2], !.child_fd = fd,
                !.has_child = TRUE,
                !.routing_table = IF IsLeaf(r.args[2]) THEN @
                                  ELSE InsertDirect(@, r.src, r.args[2], t, fd)]
  <2>1. Persists(H, child)
    BY <1>1 DEF Persists
  <2>2. "force_exit" \in DOMAIN child
    BY <2>1 DEF Persists
  <2>3. Bottom(t, r, H, "blocked") \/ Bottom(t, r, Refreshed(child), "write")
            \/ Bottom(t, r, H, "write")
    BY <1>7 DEF TimerChildAcquired
  <2> HIDE DEF child
  <2>4. Persists(child, Refreshed(child))
    BY <2>2, TimerOperatorsPersist
  <2>5. Persists(H, Refreshed(child))
    BY <2>1, <2>4, PersistsOn
  <2> HIDE DEF H
  <2> QED
    BY <1>3, <1>4, <2>3, <2>5
<1>8. ASSUME NEW r, TimerDescendantAcquired(t, r) \/ TimerDescendantRemoved(t, r)
      PROVE  \A g \in Timers : timer[g].force_exit => timer'[g].force_exit
  <2>1. \/ \E T : Bottom(t, r, RefreshedIfChild([H EXCEPT !.routing_table = T]), "write")
        \/ Bottom(t, r, H, "write")
    BY <1>8 DEF TimerDescendantAcquired, TimerDescendantRemoved
  <2> HIDE DEF H
  <2> QED
    BY <1>3, <1>4, <1>5, <2>1
<1>9. ASSUME NEW r, TimerChildDeleted(t, r)
      PROVE  \A g \in Timers : timer[g].force_exit => timer'[g].force_exit
  <2>1. \/ \E T : Bottom(t, r, RefreshedIfChild([H EXCEPT !.routing_table = T]), "own")
        \/ Bottom(t, r, DropChild(t, H), "own")
        \/ Bottom(t, r, H, "own")
    BY <1>9 DEF TimerChildDeleted
  <2> HIDE DEF H
  <2> QED
    BY <1>3, <1>4, <1>5, <2>1
<1>10. ASSUME NEW r, TimerMirrors(t, r)
       PROVE  \A g \in Timers : timer[g].force_exit => timer'[g].force_exit
  <2>1. \E x, y : Locking(t, [H EXCEPT !.pending = x, !.bottom_pc = "write", !.answer = y])
    BY <1>10 DEF TimerMirrors
  <2>2. \A x, y : Persists(H, [H EXCEPT !.pending = x, !.bottom_pc = "write", !.answer = y])
    BY <1>1 DEF Persists
  <2> HIDE DEF H
  <2> QED
    BY <1>2, <2>1, <2>2
<1>11. CASE TimerMirrorsDelete(t)
  <2>1. \E x, y, z : Locking(t, [H EXCEPT !.pending = x, !.bottom_pc = "write",
                                          !.answer = y, !.last = z])
    BY <1>11 DEF TimerMirrorsDelete
  <2>2. \A x, y, z : Persists(H, [H EXCEPT !.pending = x, !.bottom_pc = "write",
                                           !.answer = y, !.last = z])
    BY <1>1 DEF Persists
  <2> HIDE DEF H
  <2> QED
    BY <1>2, <2>1, <2>2
<1>12. CASE TimerWritesUp(t)
  <2> DEFINE done == [H EXCEPT !.bottom_pc = AfterWrite(H), !.answer = NoResponse,
                               !.force_exit = @ \/ H.last]
             failed == [H EXCEPT !.bottom_pc = "exit", !.failed = TRUE]
  <2>1. Persists(H, done) /\ Persists(H, failed)
    BY <1>1 DEF Persists
  <2>2. Locking(t, done) \/ Locking(t, failed)
    BY <1>12 DEF TimerWritesUp, TellsParent
  <2> HIDE DEF done, failed
  <2> QED
    BY <1>2, <2>1, <2>2
<1> QED
  BY <1>6, <1>7, <1>8, <1>9, <1>10, <1>11, <1>12 DEF TimerBottomUp

\* The schedule thread, and the minutes that go by.
LEMMA TimerSchedulePersists ==
    ASSUME TimerTypeOK, MinutePasses \/ \E t \in Timers : TimerSchedule(t)
    PROVE  \A g \in Timers : timer[g].force_exit => timer'[g].force_exit
<1>1. CASE MinutePasses
  <2>1. \A g \in Timers : "force_exit" \in DOMAIN timer[g]
    BY DEF TimerTypeOK, TimerTyped
  <2>2. timer' = [t \in Timers |->
            IF Running(t) THEN [timer[t] EXCEPT !.left = @ - 1] ELSE timer[t]]
    BY <1>1 DEF MinutePasses
  <2> QED
    BY <2>1, <2>2
<1>2. ASSUME NEW t \in Timers, TimerSchedule(t)
      PROVE  \A g \in Timers : timer[g].force_exit => timer'[g].force_exit
  <2> DEFINE H == timer[t]
  <2>1. "force_exit" \in DOMAIN H
    BY DEF TimerTypeOK, TimerTyped
  <2>2. ASSUME NEW G, TimerStep(t, G) \/ Locking(t, G), Persists(H, G)
        PROVE  \A g \in Timers : timer[g].force_exit => timer'[g].force_exit
    BY <2>2, TimerStepPersists
  <2>3. CASE ScheduleSleeps(t)
    <3>1. \E x, y, z : Locking(t, [H EXCEPT !.schedule_pc = x, !.left = y, !.activate = z])
      BY <2>3 DEF ScheduleSleeps
    <3>2. \A x, y, z : Persists(H, [H EXCEPT !.schedule_pc = x, !.left = y, !.activate = z])
      BY <2>1 DEF Persists
    <3> HIDE DEF H
    <3> QED
      BY <2>2, <3>1, <3>2
  <2>4. CASE ScheduleWakes(t) \/ ScheduleSwitches(t)
    <3>1. \/ \E x, y : \/ Locking(t, [H EXCEPT !.schedule_pc = x, !.due = y])
                       \/ TimerStep(t, [H EXCEPT !.schedule_pc = x, !.due = y])
          \/ Locking(t, [H EXCEPT !.schedule_pc = "start"])
      BY <2>4 DEF ScheduleWakes, ScheduleSwitches
    <3>2. /\ \A x, y : Persists(H, [H EXCEPT !.schedule_pc = x, !.due = y])
          /\ Persists(H, [H EXCEPT !.schedule_pc = "start"])
      BY <2>1 DEF Persists
    <3> HIDE DEF H
    <3> QED
      BY <2>2, <3>1, <3>2
  <2>5. CASE ScheduleUpdates(t)
    <3>1. \E x : Locking(t, [H EXCEPT !.schedule_pc = "start", !.state = x])
      BY <2>5 DEF ScheduleUpdates
    <3>2. \A x : Persists(H, [H EXCEPT !.schedule_pc = "start", !.state = x])
      BY <2>1 DEF Persists
    <3> HIDE DEF H
    <3> QED
      BY <2>2, <3>1, <3>2
  <2>6. CASE ScheduleReleasesChild(t)
    <3> DEFINE left == IF H.has_child THEN DropChild(t, H) ELSE H
    <3>1. Persists(H, left)
      BY <2>1, TimerOperatorsPersist
    <3>2. "force_exit" \in DOMAIN left
      BY <3>1 DEF Persists
    <3>3. Locking(t, [left EXCEPT !.schedule_pc = "start"])
      BY <2>6 DEF ScheduleReleasesChild
    <3> HIDE DEF left
    <3>4. Persists(left, [left EXCEPT !.schedule_pc = "start"])
      BY <3>2 DEF Persists
    <3> QED
      BY <2>2, <3>1, <3>3, <3>4, PersistsOn
  <2> QED
    BY <1>2, <2>3, <2>4, <2>5, <2>6 DEF TimerSchedule
<1> QED
  BY <1>1, <1>2

-----------------------------------------------------------------------------
(* What a timer takes for open is.                                         *)

HoldFields == {"routing_table", "snd", "parent_id", "has_child", "child_id", "child_fd"}

\* A timer G takes no more for open than H does.
TimerKeeps(t, H, G) ==
    /\ HoldFields \subseteq DOMAIN H \cap DOMAIN G
    /\ DirectKept(H.routing_table, G.routing_table, t)
    /\ G.snd = H.snd /\ G.parent_id = H.parent_id
    /\ G.has_child => H.has_child /\ G.child_id = H.child_id /\ G.child_fd = H.child_fd

\* One change of a timer's globals after another.
LEMMA TimerKeepsOn ==
    ASSUME NEW t, NEW H, NEW G, NEW K, TimerKeeps(t, H, G), TimerKeeps(t, G, K)
    PROVE  TimerKeeps(t, H, K)
  BY DEF TimerKeeps, DirectKept

\* A timer that takes no more for open holds what it took.
LEMMA TimerKeepsHolds ==
    ASSUME NEW t, NEW H, NEW G, NEW F, TimerHolds(t, H, F), TimerKeeps(t, H, G)
    PROVE  TimerHolds(t, G, F)
  BY KeptAreOpen DEF TimerKeeps, TimerHolds

\* The fields of a typed timer.
LEMMA TimerHasFields ==
    ASSUME NEW H, TimerGood(H)
    PROVE  HoldFields \subseteq DOMAIN H
  BY DEF TimerGood, TimerTyped, HoldFields

\* The steps on a timer's globals that open nothing.
LEMMA TimerOperatorsKeep ==
    ASSUME NEW t, NEW H, HoldFields \subseteq DOMAIN H
    PROVE  /\ TimerKeeps(t, H, H)
           /\ \A r : TimerKeeps(t, H, TimerReplying(H, r))
           /\ TimerKeeps(t, H, TimerResumed(H))
           /\ TimerKeeps(t, H, Refreshed(H))
           /\ TimerKeeps(t, H, RefreshedIfChild(H))
           /\ TimerKeeps(t, H, DropChild(t, H))
           /\ \A x : DirectKept(H.routing_table, x, t) =>
                        TimerKeeps(t, H, [H EXCEPT !.routing_table = x])
           /\ \A x : TimerKeeps(t, H, [H EXCEPT !.pending = x])
           /\ \A x : TimerKeeps(t, H, [H EXCEPT !.pc = x])
           /\ \A x : TimerKeeps(t, H, [H EXCEPT !.schedule_pc = x])
           /\ \A x, y : TimerKeeps(t, H, [H EXCEPT !.bottom_pc = x, !.answer = y])
<1>1. \A T : DirectKept(T, T, t)
  BY DEF DirectKept
<1>2. TimerKeeps(t, H, H)
  BY <1>1 DEF TimerKeeps
<1>3. \A r : TimerKeeps(t, H, TimerReplying(H, r))
  BY <1>1 DEF TimerKeeps, HoldFields, TimerReplying
<1>4. TimerKeeps(t, H, TimerResumed(H))
  BY <1>1 DEF TimerKeeps, HoldFields, TimerResumed
<1>5. TimerKeeps(t, H, Refreshed(H))
  BY <1>1 DEF TimerKeeps, HoldFields, Refreshed
<1>6. TimerKeeps(t, H, RefreshedIfChild(H))
  BY <1>2, <1>5 DEF RefreshedIfChild
<1>7. TimerKeeps(t, H, DropChild(t, H))
  <2>1. DirectKept(H.routing_table, RemoveRoute(H.routing_table, H.child_id, t), t)
    BY RemoveRouteKeeps
  <2> QED
    BY <2>1 DEF TimerKeeps, HoldFields, DropChild
<1>8. \A x : DirectKept(H.routing_table, x, t) =>
                TimerKeeps(t, H, [H EXCEPT !.routing_table = x])
  BY DEF TimerKeeps, HoldFields
<1>9. /\ \A x : TimerKeeps(t, H, [H EXCEPT !.pending = x])
      /\ \A x : TimerKeeps(t, H, [H EXCEPT !.pc = x])
      /\ \A x : TimerKeeps(t, H, [H EXCEPT !.schedule_pc = x])
      /\ \A x, y : TimerKeeps(t, H, [H EXCEPT !.bottom_pc = x, !.answer = y])
  BY <1>1 DEF TimerKeeps, HoldFields
<1> QED
  BY <1>2, <1>3, <1>4, <1>5, <1>6, <1>7, <1>8, <1>9

\* drop_child: the child's descriptor is no other child's and not the parent's.
LEMMA DropChildHolds ==
    ASSUME NEW t, NEW H, TimerGood(H), NEW F \in [Fds -> Ends], TimerHolds(t, H, F),
           H.has_child
    PROVE  TimerHolds(t, DropChild(t, H), Close(F, H.child_fd))
<1> DEFINE T == H.routing_table
           U == RemoveRoute(T, H.child_id, t)
           G == DropChild(t, H)
<1>1. /\ G.routing_table = U /\ ~G.has_child /\ G.snd = H.snd /\ G.parent_id = H.parent_id
  BY TimerHasFields DEF DropChild, HoldFields
<1>2. F[H.child_fd] = Down(H.child_id) /\ ChildrenOpen(T, t, F)
      /\ (H.snd # NoFd => F[H.snd] = Up(H.parent_id))
  BY DEF TimerHolds
<1>3. DirectKept(T, U, t)
  BY RemoveRouteKeeps
<1>4. H.child_id \notin Direct(U, t)
  <2>1. CASE H.child_id \in DOMAIN T /\ T[H.child_id].parent = t
    BY <2>1 DEF RemoveRoute, Direct
  <2>2. CASE ~(H.child_id \in DOMAIN T /\ T[H.child_id].parent = t)
    BY <2>2 DEF RemoveRoute, Direct
  <2> QED
    BY <2>1, <2>2
<1> HIDE DEF U, G
<1>5. \A d \in Direct(U, t) : F[U[d].fd] = Down(d) /\ U[d].fd # H.child_fd
  BY <1>2, <1>3, <1>4, EndsDiffer DEF DirectKept, ChildrenOpen
<1>6. \A fd : fd # H.child_fd => Close(F, H.child_fd)[fd] = F[fd]
  BY DEF Close
<1>7. H.snd # NoFd => H.snd # H.child_fd
  BY <1>2, EndsDiffer
<1>8. TimerHolds(t, G, Close(F, H.child_fd))
  BY <1>1, <1>2, <1>5, <1>6, <1>7 DEF TimerHolds, ChildrenOpen
<1> QED
  BY <1>8 DEF G

\* What a step of timer t leaves: what it takes for open is, and nobody else's
\* descriptors or globals have changed.
TimerStays(t) ==
    /\ TimerHolds(t, timer'[t], files'[t])
    /\ OnlyFilesOf(t)
    /\ \A g \in Timers \ {t} : timer'[g] = timer[g]

\* A step that opens nothing, or closes the pipe of the child that is dropped.
LEMMA TimerStepStays ==
    ASSUME PipesTypeOK, TimerTypeOK, NEW t \in Timers, NEW G, TimerStep(t, G) \/ Locking(t, G)
    PROVE  /\ \A F : TimerHolds(t, G, F) /\ files' = [files EXCEPT ![t] = F] => TimerStays(t)
           /\ /\ TimerHolds(t, timer[t], files[t]) /\ TimerKeeps(t, timer[t], G)
              /\ UNCHANGED files
              => TimerStays(t)
           /\ /\ TimerHolds(t, timer[t], files[t]) /\ timer[t].has_child
              /\ TimerKeeps(t, DropChild(t, timer[t]), G) /\ files' = WithoutChild(t)
              => TimerStays(t)
<1>1. timer' = [g \in Timers |-> IF g = t THEN G ELSE timer[g]]
  BY DEF TimerTypeOK, TimerStep, Locking
<1>2. timer'[t] = G /\ \A g \in Timers \ {t} : timer'[g] = timer[g]
  BY <1>1
<1>3. \A F : files' = [files EXCEPT ![t] = F] => files'[t] = F /\ OnlyFilesOf(t)
  BY OwnFilesOnly, Ids DEF PipesTypeOK
<1>4. UNCHANGED files => OnlyFilesOf(t)
  BY DEF OnlyFilesOf
<1>5. ASSUME TimerHolds(t, timer[t], files[t]), timer[t].has_child,
             TimerKeeps(t, DropChild(t, timer[t]), G), files' = WithoutChild(t)
      PROVE  TimerStays(t)
  <2>1. TimerGood(timer[t]) /\ files[t] \in [Fds -> Ends]
    BY TimerStarts
  <2>2. TimerHolds(t, DropChild(t, timer[t]), Close(files[t], timer[t].child_fd))
    BY <1>5, <2>1, DropChildHolds
  <2>3. TimerHolds(t, G, Close(files[t], timer[t].child_fd))
    BY <1>5, <2>2, TimerKeepsHolds
  <2>4. files' = [files EXCEPT ![t] = Close(files[t], timer[t].child_fd)]
    BY <1>5 DEF WithoutChild
  <2> QED
    BY <1>2, <1>3, <2>3, <2>4 DEF TimerStays
<1> QED
  BY <1>2, <1>3, <1>4, <1>5, TimerKeepsHolds DEF TimerStays

\* What a child is asked for, or cannot be: then it is dropped, or it is kept.
LEMMA AsksChildStays ==
    ASSUME PipesTypeOK, TimerTypeOK, NEW t \in Timers, TimerHolds(t, timer[t], files[t]),
           NEW m, NEW H, NEW lost, NEW F, AsksChild(t, m, H, lost, F), TimerKeeps(t, timer[t], H),
           \/ TimerKeeps(t, timer[t], lost) /\ F = files
           \/ /\ timer[t].has_child /\ F = WithoutChild(t)
              /\ TimerKeeps(t, DropChild(t, timer[t]), lost)
    PROVE  TimerStays(t)
<1> DEFINE asked == [H EXCEPT !.pending = Append(@, m.cmd)]
           refused == [lost EXCEPT !.pending = TakePending(Append(@, m.cmd), m.cmd).left]
<1>1. HoldFields \subseteq DOMAIN H /\ HoldFields \subseteq DOMAIN lost
  BY DEF TimerKeeps
<1>2. TimerKeeps(t, H, asked) /\ TimerKeeps(t, lost, refused)
  BY <1>1, TimerOperatorsKeep
<1>3. HoldFields \subseteq DOMAIN asked /\ HoldFields \subseteq DOMAIN refused
  BY <1>2 DEF TimerKeeps
<1>4. \/ Locking(t, TimerResumed(asked)) /\ UNCHANGED files
      \/ files' = F /\ \E r : Locking(t, TimerReplying(refused, r))
  BY DEF AsksChild
<1> HIDE DEF asked, refused
<1>5. /\ TimerKeeps(t, H, TimerResumed(asked))
      /\ \A r : TimerKeeps(t, lost, TimerReplying(refused, r))
  BY <1>2, <1>3, TimerOperatorsKeep, TimerKeepsOn
<1>6. TimerKeeps(t, timer[t], TimerResumed(asked))
  BY <1>5, TimerKeepsOn
<1>7. CASE Locking(t, TimerResumed(asked)) /\ UNCHANGED files
  BY <1>6, <1>7, TimerStepStays
<1>8. ASSUME NEW r, Locking(t, TimerReplying(refused, r)), files' = F
      PROVE  TimerStays(t)
  <2>1. CASE TimerKeeps(t, timer[t], lost) /\ F = files
    <3>1. TimerKeeps(t, timer[t], TimerReplying(refused, r))
      BY <1>5, <2>1, TimerKeepsOn
    <3> QED
      BY <1>8, <2>1, <3>1, TimerStepStays
  <2>2. CASE /\ timer[t].has_child /\ F = WithoutChild(t)
             /\ TimerKeeps(t, DropChild(t, timer[t]), lost)
    <3>1. TimerKeeps(t, DropChild(t, timer[t]), TimerReplying(refused, r))
      BY <1>5, <2>2, TimerKeepsOn
    <3> QED
      BY <1>8, <2>2, <3>1, TimerStepStays
  <2> QED
    BY <2>1, <2>2
<1> QED
  BY <1>4, <1>7, <1>8

\* change_snd_responses_pipe: the new descriptor is that of the new parent, the
\* old one was none of a child's.
LEMMA TimerChangeParentHolds ==
    ASSUME PipesTypeOK, TimerTypeOK, NEW t \in Timers, TimerHolds(t, timer[t], files[t]),
           NEW m, TimerChangeParent(t, m)
    PROVE  TimerStays(t)
<1> DEFINE H == timer[t]
           F == files[t]
           fd == LowestFree(F)
           opened == OpenAt(F, fd, Up(m.arg))
           waits == [H EXCEPT !.pc = "blocked", !.locked = TRUE]
           Without(r) == [TimerReplying(H, r) EXCEPT !.snd = NoFd]
           Moved(r) == [TimerReplying(H, r) EXCEPT !.snd = fd, !.parent_id = m.arg,
                                                   !.parent_changed = TRUE]
<1>1. TimerGood(H) /\ F \in [Fds -> Ends]
  BY TimerStarts
<1>2. HoldFields \subseteq DOMAIN H
  BY <1>1, TimerHasFields
<1>3. \/ Locking(t, waits) /\ UNCHANGED files
      \/ \E r : Locking(t, TimerReplying(H, r)) /\ UNCHANGED files
      \/ \E r : Locking(t, Without(r)) /\ UNCHANGED files
      \/ /\ FreeFds(F) # {} /\ files' = [files EXCEPT ![t] = Close(opened, H.snd)]
         /\ \E r : Locking(t, Moved(r))
  BY Zenon DEF TimerChangeParent
<1>4. /\ ChildrenOpen(H.routing_table, t, F) /\ IsTable(H.routing_table, Hubs \cup Timers)
      /\ H.snd # NoFd => F[H.snd] = Up(H.parent_id)
      /\ H.has_child => H.child_fd \in Fds /\ F[H.child_fd] = Down(H.child_id)
  BY <1>1, TimerFields DEF TimerHolds
<1>5. TimerKeeps(t, H, waits) /\ \A r : TimerKeeps(t, H, TimerReplying(H, r))
  <2>1. TimerKeeps(t, H, H)
    BY <1>2, TimerOperatorsKeep
  <2>2. TimerKeeps(t, H, waits)
    BY <1>2, <2>1 DEF TimerKeeps, HoldFields
  <2> QED
    BY <1>2, <2>2, TimerOperatorsKeep
<1>6. \A r : TimerHolds(t, Without(r), F)
  <2>1. \A r : LET G == Without(r)
               IN  /\ G.routing_table = H.routing_table /\ G.snd = NoFd
                   /\ G.has_child = H.has_child /\ G.child_fd = H.child_fd
                   /\ G.child_id = H.child_id
    BY <1>2 DEF TimerReplying, HoldFields
  <2> HIDE DEF Without
  <2> QED
    BY <1>4, <2>1 DEF TimerHolds
<1>7. ASSUME FreeFds(F) # {} PROVE \A r : TimerHolds(t, Moved(r), Close(opened, H.snd))
  <2>1. fd \in Fds /\ F[fd] = Closed
    BY <1>7, LowestFreeIs
  <2> HIDE DEF fd
  <2>2. \A r : LET G == Moved(r)
               IN  /\ G.routing_table = H.routing_table /\ G.snd = fd /\ G.parent_id = m.arg
                   /\ G.has_child = H.has_child /\ G.child_fd = H.child_fd
                   /\ G.child_id = H.child_id
    BY <1>2 DEF TimerReplying, HoldFields
  <2>3. opened[fd] = Up(m.arg) /\ \A x : x # fd => opened[x] = F[x]
    BY <1>1, <2>1 DEF OpenAt
  <2>4. \A x : x # H.snd => Close(opened, H.snd)[x] = opened[x]
    BY DEF Close
  <2>5. H.snd # fd
    <3>1. fd # NoFd
      BY <2>1, Ids DEF NoFd
    <3> QED
      BY <1>4, <2>1, <3>1, EndsDiffer
  <2>6. /\ \A d \in Direct(H.routing_table, t) :
              /\ H.routing_table[d].fd # H.snd /\ H.routing_table[d].fd # fd
              /\ F[H.routing_table[d].fd] = Down(d)
        /\ H.has_child => H.child_fd # H.snd /\ H.child_fd # fd
    <3>1. \A d \in Direct(H.routing_table, t) : /\ H.routing_table[d].fd \in Fds
                                                /\ F[H.routing_table[d].fd] = Down(d)
      BY <1>4, TableIs DEF ChildrenOpen, Direct
    <3>2. H.snd # NoFd => F[H.snd].dir = "up"
      BY <1>4, EndsDiffer
    <3>3. \A x \in Fds : x # NoFd
      BY Ids DEF NoFd
    <3> QED
      BY <1>4, <2>1, <3>1, <3>2, <3>3, EndsDiffer
  <2> HIDE DEF Moved, opened
  <2> QED
    BY <1>4, <2>2, <2>3, <2>4, <2>5, <2>6 DEF TimerHolds, ChildrenOpen
<1> HIDE DEF H, F, opened, waits, Without, Moved
<1>8. CASE Locking(t, waits) /\ UNCHANGED files
  BY <1>5, <1>8, TimerStepStays DEF H
<1>9. ASSUME NEW r, Locking(t, TimerReplying(H, r)), UNCHANGED files PROVE TimerStays(t)
  BY <1>5, <1>9, TimerStepStays DEF H
<1>10. ASSUME NEW r, Locking(t, Without(r)), UNCHANGED files PROVE TimerStays(t)
  <2>1. files' = [files EXCEPT ![t] = F]
    BY <1>10, Ids DEF PipesTypeOK, F
  <2> QED
    BY <1>6, <1>10, <2>1, TimerStepStays
<1>11. ASSUME FreeFds(F) # {}, files' = [files EXCEPT ![t] = Close(opened, H.snd)],
              NEW r, Locking(t, Moved(r))
       PROVE  TimerStays(t)
  BY <1>7, <1>11, TimerStepStays
<1> QED
  BY <1>3, <1>8, <1>9, <1>10, <1>11

\* What the main thread of a timer takes for open is, once it has taken a
\* request in.
LEMMA TimerTakesHolds ==
    ASSUME PipesTypeOK, TimerTypeOK, NEW t \in Timers, TimerHolds(t, timer[t], files[t]), NEW m,
           \/ TimerForwards(t, m) \/ TimerInfo(t, m) \/ TimerSwitch(t, m)
           \/ TimerDelete(t, m) \/ TimerChangeParent(t, m) \/ TimerRemoveChild(t, m)
           \/ TimerRegistry(t, m)
    PROVE  TimerStays(t)
<1> DEFINE H == timer[t]
           dropped == DropChild(t, H)
           last == [H EXCEPT !.force_exit = TRUE]
<1>1. TimerGood(H) /\ HoldFields \subseteq DOMAIN H
  BY TimerStarts, TimerHasFields
<1>2. ASSUME NEW G, Locking(t, G), TimerKeeps(t, H, G), UNCHANGED files
      PROVE  TimerStays(t)
  BY <1>2, TimerStepStays
<1>3. ASSUME NEW G, NEW r, Locking(t, TimerReplying(G, r)), TimerKeeps(t, H, G), UNCHANGED files
      PROVE  TimerStays(t)
  <2>1. TimerKeeps(t, G, TimerReplying(G, r))
    BY <1>3, TimerOperatorsKeep DEF TimerKeeps
  <2> QED
    BY <1>2, <1>3, <2>1, TimerKeepsOn
<1>4. TimerKeeps(t, H, H) /\ TimerKeeps(t, H, dropped)
  BY <1>1, TimerOperatorsKeep
<1>5. HoldFields \subseteq DOMAIN dropped
  BY <1>4 DEF TimerKeeps
<1>6. TimerKeeps(t, dropped, dropped) /\ \A r : TimerKeeps(t, dropped, TimerReplying(dropped, r))
  <2> HIDE DEF dropped
  <2> QED
    BY <1>5, TimerOperatorsKeep
<1>7. TimerKeeps(t, H, last)
  BY <1>1, <1>4 DEF TimerKeeps, HoldFields
<1>8. CASE TimerForwards(t, m)
  <2> DEFINE on == [H EXCEPT !.pc = "forward", !.request = m, !.route = H.child_fd]
  <2>1. TimerKeeps(t, H, on)
    BY <1>1, <1>4 DEF TimerKeeps, HoldFields
  <2>2. UNCHANGED files /\ (Locking(t, on) \/ \E r : Locking(t, TimerReplying(H, r)))
    BY <1>8 DEF TimerForwards
  <2> HIDE DEF on, H
  <2> QED
    BY <1>2, <1>3, <1>4, <2>1, <2>2
<1>9. CASE TimerInfo(t, m)
  <2>1. \/ H.has_child /\ AsksChild(t, m, H, dropped, WithoutChild(t))
        \/ UNCHANGED files /\ \E r : Locking(t, TimerReplying(H, r))
    BY <1>9 DEF TimerInfo, AnswersItself
  <2> HIDE DEF dropped
  <2> QED
    BY <1>3, <1>4, <1>6, <2>1, AsksChildStays DEF dropped
<1>10. CASE TimerSwitch(t, m)
  <2> DEFINE on == [H EXCEPT !.state = Commanded(m.cmd, @)]
  <2>1. TimerKeeps(t, H, on)
    BY <1>1, <1>4 DEF TimerKeeps, HoldFields
  <2>2. \/ H.has_child /\ AsksChild(t, m, on, dropped, WithoutChild(t))
        \/ UNCHANGED files /\ \E r : Locking(t, TimerReplying(H, r))
    BY <1>10 DEF TimerSwitch, AnswersItself
  <2> HIDE DEF on
  <2> QED
    BY <1>3, <1>4, <1>6, <2>1, <2>2, AsksChildStays
<1>11. CASE TimerDelete(t, m)
  <2>1. \/ AsksChild(t, m, H, last, files)
        \/ UNCHANGED files /\ \E r : Locking(t, TimerReplying(last, r))
    BY <1>11 DEF TimerDelete, AnswersItself
  <2> HIDE DEF last
  <2> QED
    BY <1>3, <1>4, <1>7, <2>1, AsksChildStays
<1>12. CASE TimerRemoveChild(t, m)
  <2>1. \/ UNCHANGED files /\ \E r : Locking(t, TimerReplying(H, r))
        \/ /\ H.has_child /\ files' = WithoutChild(t)
           /\ \E r : Locking(t, TimerReplying(dropped, r))
    BY <1>12 DEF TimerRemoveChild
  <2> HIDE DEF dropped
  <2> QED
    BY <1>3, <1>4, <1>6, <2>1, TimerStepStays DEF dropped
<1>13. CASE TimerRegistry(t, m)
  <2> DEFINE valid == IF m.cmd = "set_begin" THEN m.arg <= H.end ELSE m.arg >= H.begin
             code == IF valid THEN "OK" ELSE "INVALID_REQUEST_ARGUMENT"
             set == IF m.cmd = "set_begin" THEN [H EXCEPT !.begin = m.arg]
                                           ELSE [H EXCEPT !.end = m.arg]
             kept == IF valid THEN set ELSE H
             answering == TimerReplying(kept, Response(t, m.cmd, code, <<m.arg>>))
             next == IF valid THEN [answering EXCEPT !.pc = "reschedule"] ELSE answering
  <2>1. TimerKeeps(t, H, kept)
    <3>1. /\ TimerKeeps(t, H, [H EXCEPT !.begin = m.arg])
          /\ TimerKeeps(t, H, [H EXCEPT !.end = m.arg])
      BY <1>1, <1>4 DEF TimerKeeps, HoldFields
    <3> HIDE DEF valid, H
    <3> QED
      BY <1>4, <3>1
  <2>2. Locking(t, next) /\ UNCHANGED files
    BY <1>13 DEF TimerRegistry
  <2> HIDE DEF kept
  <2>3. TimerKeeps(t, kept, answering)
    <3>1. HoldFields \subseteq DOMAIN kept
      BY <2>1 DEF TimerKeeps
    <3> QED
      BY <3>1, TimerOperatorsKeep
  <2> HIDE DEF answering
  <2>4. TimerKeeps(t, answering, next)
    <3>1. HoldFields \subseteq DOMAIN answering
      BY <2>3 DEF TimerKeeps
    <3> HIDE DEF valid
    <3> QED
      BY <3>1, TimerOperatorsKeep
  <2> HIDE DEF next
  <2> QED
    BY <1>2, <2>1, <2>2, <2>3, <2>4, TimerKeepsOn
<1> QED
  BY <1>8, <1>9, <1>10, <1>11, <1>12, <1>13, TimerChangeParentHolds

\* What the main thread of a timer takes for open is, for as long as it runs.
LEMMA TimerMainHolds ==
    ASSUME PipesTypeOK, TimerTypeOK, NEW t \in Timers, TimerHolds(t, timer[t], files[t]),
           TimerMain(t) \/ TimerTerminates(t), ~TimerExits(t)
    PROVE  TimerStays(t)
<1> DEFINE H == timer[t]
           dropped == DropChild(t, H)
<1>1. TimerGood(H) /\ HoldFields \subseteq DOMAIN H
  BY TimerStarts, TimerHasFields
<1>2. ASSUME NEW G, TimerStep(t, G) \/ Locking(t, G), TimerKeeps(t, H, G), UNCHANGED files
      PROVE  TimerStays(t)
  BY <1>2, TimerStepStays
<1>3. /\ TimerKeeps(t, H, H) /\ TimerKeeps(t, H, TimerResumed(H))
      /\ TimerKeeps(t, H, dropped)
      /\ \A pc : TimerKeeps(t, H, [H EXCEPT !.pc = pc])
      /\ \A r : TimerKeeps(t, H, TimerReplying(H, r))
  BY <1>1, TimerOperatorsKeep
<1>4. TimerKeeps(t, H, MainExits(t))
  BY <1>1, <1>3 DEF TimerKeeps, HoldFields, MainExits
<1>5. ASSUME NEW ms, NEW G, TellsParent(t, ms, G, MainExits(t)), TimerKeeps(t, H, G)
      PROVE  TimerStays(t)
  <2>1. UNCHANGED files /\ (Locking(t, G) \/ Locking(t, MainExits(t)))
    BY <1>5 DEF TellsParent
  <2> QED
    BY <1>2, <1>4, <1>5, <2>1
<1>6. CASE TimerWritesOn(t)
  <2>1. /\ TimerStep(t, TimerResumed(H)) \/ TimerStep(t, [H EXCEPT !.pc = "unreachable"])
        /\ UNCHANGED files
    BY <1>6 DEF TimerWritesOn
  <2> HIDE DEF H
  <2> QED
    BY <1>2, <1>3, <2>1
<1>7. CASE TimerReleasesChild(t)
  <2>1. \E r : \/ /\ H.has_child /\ files' = WithoutChild(t)
                  /\ Locking(t, TimerReplying(dropped, r))
               \/ UNCHANGED files /\ Locking(t, TimerReplying(H, r))
    BY <1>7 DEF TimerReleasesChild
  <2>2. HoldFields \subseteq DOMAIN dropped
    BY <1>3 DEF TimerKeeps
  <2>3. \A r : TimerKeeps(t, dropped, TimerReplying(dropped, r))
    <3> HIDE DEF dropped
    <3> QED
      BY <2>2, TimerOperatorsKeep
  <2> HIDE DEF dropped
  <2> QED
    BY <1>2, <1>3, <2>1, <2>3, TimerStepStays DEF dropped
<1>8. CASE TimerReschedules(t)
  <2> DEFINE gone == [H EXCEPT !.routing_table = RemoveRoute(@, H.child_id, t), !.locked = TRUE]
             updated == IF H.schedule_pc = "update"
                        THEN [H EXCEPT !.state = IF H.activate THEN STATE_ON ELSE STATE_OFF]
                        ELSE H
             left == IF ClosingChild(H) THEN gone ELSE updated
             next == [left EXCEPT !.pc = "reply", !.schedule_pc = "start", !.left = 0,
                                  !.activate = FALSE, !.due = NotDue]
  <2>1. TimerKeeps(t, H, gone)
    <3>1. DirectKept(H.routing_table, RemoveRoute(H.routing_table, H.child_id, t), t)
      BY RemoveRouteKeeps
    <3> QED
      BY <1>1, <3>1 DEF TimerKeeps, HoldFields
  <2>2. TimerKeeps(t, H, updated)
    <3>1. \A s : TimerKeeps(t, H, [H EXCEPT !.state = s])
      BY <1>1, <1>3 DEF TimerKeeps, HoldFields
    <3> HIDE DEF H
    <3> QED
      BY <1>3, <3>1
  <2>3. TimerKeeps(t, H, left)
    <3> HIDE DEF gone, updated
    <3> QED
      BY <2>1, <2>2
  <2>4. TimerStep(t, next) /\ UNCHANGED files
    BY <1>8 DEF TimerReschedules, pipes
  <2> HIDE DEF left
  <2>5. TimerKeeps(t, left, next)
    BY <2>3 DEF TimerKeeps, HoldFields, DirectKept
  <2> HIDE DEF next
  <2> QED
    BY <1>2, <2>3, <2>4, <2>5, TimerKeepsOn
<1>9. CASE TimerReplies(t)
  <2> DEFINE G == IF H.parent_changed THEN [H EXCEPT !.pc = "replay"] ELSE TimerResumed(H)
  <2>1. TimerKeeps(t, H, G)
    BY <1>3
  <2>2. TellsParent(t, <<H.response>>, G, MainExits(t))
    BY <1>9 DEF TimerReplies
  <2> HIDE DEF G
  <2> QED
    BY <1>5, <2>1, <2>2
<1>10. CASE TimerReplays(t)
  <2>1. UNCHANGED files /\ \E pc : Locking(t, [H EXCEPT !.pc = pc])
    BY <1>10 DEF TimerReplays, pipes
  <2> QED
    BY <1>2, <1>3, <2>1
<1>11. CASE TimerReplaysBranch(t) \/ TimerAnnounces(t)
  <2>1. \E ms : TellsParent(t, ms, TimerResumed(H), MainExits(t))
    BY <1>11 DEF TimerReplaysBranch, TimerAnnounces
  <2> QED
    BY <1>3, <1>5, <2>1
<1>12. CASE TimerReplaysChild(t)
  <2>1. /\ UNCHANGED files
        /\ \/ \E r : Locking(t, [H EXCEPT !.pc = "announce", !.response = r])
           \/ Locking(t, TimerResumed(H))
    BY <1>12 DEF TimerReplaysChild, pipes
  <2>2. \A r : TimerKeeps(t, H, [H EXCEPT !.pc = "announce", !.response = r])
    BY <1>1, <1>3 DEF TimerKeeps, HoldFields
  <2> HIDE DEF H
  <2> QED
    BY <1>2, <1>3, <2>1, <2>2
<1>13. CASE TimerEndOfFile(t)
  <2>1. PICK r : /\ UNCHANGED files
                 /\ TimerStep(t, [TimerReplying(H, r) EXCEPT !.force_exit = TRUE, !.failed = TRUE])
    BY <1>13 DEF TimerEndOfFile, pipes
  <2>2. TimerKeeps(t, H, [TimerReplying(H, r) EXCEPT !.force_exit = TRUE, !.failed = TRUE])
    BY <1>1, <1>3 DEF TimerKeeps, HoldFields, TimerReplying
  <2> QED
    BY <1>2, <2>1, <2>2
<1>14. CASE TimerLeaves(t) \/ TimerTerminates(t)
  <2>1. /\ UNCHANGED files
        /\ \E x, y : TimerStep(t, [H EXCEPT !.pc = "exiting", !.bottom_pc = "ended",
                                           !.failed = x, !.locked = y])
    BY <1>14 DEF TimerLeaves, TimerTerminates, TimerCancelsResponses, pipes
  <2>2. \A x, y : TimerKeeps(t, H, [H EXCEPT !.pc = "exiting", !.bottom_pc = "ended",
                                             !.failed = x, !.locked = y])
    BY <1>1, <1>3 DEF TimerKeeps, HoldFields
  <2> HIDE DEF H
  <2> QED
    BY <1>2, <2>1, <2>2
<1>15. ASSUME NEW m,
              \/ TimerForwards(t, m) \/ TimerInfo(t, m) \/ TimerSwitch(t, m)
              \/ TimerDelete(t, m) \/ TimerChangeParent(t, m) \/ TimerRemoveChild(t, m)
              \/ TimerRegistry(t, m)
       PROVE  TimerStays(t)
  BY <1>15, TimerTakesHolds
<1> QED
  BY <1>6, <1>7, <1>8, <1>9, <1>10, <1>11, <1>12, <1>13, <1>14, <1>15 DEF TimerMain

\* acquire_child: the new child's descriptor was free, the old child's, if its
\* route is kept, stays open.
LEMMA TimerChildAcquiredHolds ==
    ASSUME PipesTypeOK, TimerTypeOK, NEW t \in Timers, TimerHolds(t, timer[t], files[t]),
           NEW r, TimerChildAcquired(t, r)
    PROVE  TimerStays(t)
<1> DEFINE H == timer[t]
           F == files[t]
           fd == LowestFree(F)
           type == r.args[2]
           U == IF IsLeaf(type) THEN H.routing_table
                ELSE InsertDirect(H.routing_table, r.src, type, t, fd)
           child == [H EXCEPT !.child_id = r.src, !.child_type = type, !.child_fd = fd,
                              !.has_child = TRUE, !.routing_table = U]
           opened == OpenAt(F, fd, Down(r.src))
           Next1(G, next) == [G EXCEPT !.bottom_pc = next, !.answer = r]
<1>1. TimerGood(H) /\ F \in [Fds -> Ends] /\ HoldFields \subseteq DOMAIN H
  BY TimerStarts, TimerHasFields
<1>2. \/ UNCHANGED files /\ \E next : Locking(t, Next1(H, next))
      \/ /\ FreeFds(F) # {} /\ files' = [files EXCEPT ![t] = opened]
         /\ Locking(t, Next1(Refreshed(child), "write"))
  BY DEF TimerChildAcquired, Bottom, DownOpens
<1>3. \A next : TimerKeeps(t, H, Next1(H, next))
  BY <1>1, TimerOperatorsKeep
<1>4. ASSUME FreeFds(F) # {}
      PROVE  TimerHolds(t, Next1(Refreshed(child), "write"), opened)
  <2>1. fd \in Fds /\ F[fd] = Closed
    BY <1>4, LowestFreeIs
  <2>2. /\ ChildrenOpen(H.routing_table, t, F) /\ IsTable(H.routing_table, Hubs \cup Timers)
        /\ H.snd # NoFd => F[H.snd] = Up(H.parent_id)
    BY <1>1, TimerFields DEF TimerHolds
  <2> HIDE DEF fd
  <2>3. opened[fd] = Down(r.src) /\ \A x : x # fd => opened[x] = F[x]
    BY <1>1, <2>1 DEF OpenAt
  <2>4. ChildrenOpen(U, t, opened)
    <3>1. ChildrenOpen(H.routing_table, t, opened)
      <4> HIDE DEF H, F
      <4> QED
        BY <1>1, <2>1, <2>2, OthersStayOpen
    <3>2. ChildrenOpen(InsertDirect(H.routing_table, r.src, type, t, fd), t, opened)
      <4> HIDE DEF H, F
      <4> QED
        BY <1>1, <2>1, <2>2, InsertDirectOpens
    <3> QED
      BY <3>1, <3>2
  <2>5. /\ child.routing_table = U /\ child.has_child /\ child.child_id = r.src
        /\ child.child_fd = fd /\ child.snd = H.snd /\ child.parent_id = H.parent_id
        /\ HoldFields \subseteq DOMAIN child
    <3> HIDE DEF U
    <3> QED
      BY <1>1 DEF HoldFields
  <2>6. H.snd # NoFd => opened[H.snd] = Up(H.parent_id)
    <3>1. H.snd # NoFd => H.snd # fd
      BY <2>1, <2>2, EndsDiffer
    <3> HIDE DEF opened
    <3> QED
      BY <2>2, <2>3, <3>1
  <2> HIDE DEF child, opened, U
  <2>7. TimerHolds(t, child, opened)
    BY <2>1, <2>3, <2>4, <2>5, <2>6 DEF TimerHolds
  <2>8. TimerKeeps(t, child, Refreshed(child))
    BY <2>5, TimerOperatorsKeep
  <2>9. TimerKeeps(t, Refreshed(child), Next1(Refreshed(child), "write"))
    <3> DEFINE G == Refreshed(child)
    <3>1. HoldFields \subseteq DOMAIN G
      BY <2>8 DEF TimerKeeps
    <3> HIDE DEF G
    <3>2. TimerKeeps(t, G, Next1(G, "write"))
      BY <3>1, TimerOperatorsKeep
    <3> QED
      BY <3>2 DEF G
  <2> HIDE DEF Next1
  <2> QED
    BY <2>7, <2>8, <2>9, TimerKeepsOn, TimerKeepsHolds
<1> HIDE DEF child, opened, Next1
<1> QED
  BY <1>2, <1>3, <1>4, TimerStepStays

\* What the child-responses thread of a timer takes for open is.
LEMMA TimerBottomUpHolds ==
    ASSUME PipesTypeOK, TimerTypeOK, NEW t \in Timers, TimerHolds(t, timer[t], files[t]),
           TimerBottomUp(t)
    PROVE  TimerStays(t)
<1> DEFINE H == timer[t]
           T == H.routing_table
           dropped == DropChild(t, H)
<1>1. TimerGood(H) /\ HoldFields \subseteq DOMAIN H /\ IsTable(T, Hubs \cup Timers)
  BY TimerStarts, TimerHasFields, TimerFields
<1>2. ASSUME NEW G, Locking(t, G), TimerKeeps(t, H, G), UNCHANGED files
      PROVE  TimerStays(t)
  BY <1>2, TimerStepStays
<1>3. ASSUME NEW r, NEW G, NEW next, Bottom(t, r, G, next), HoldFields \subseteq DOMAIN G
      PROVE  \E K : Locking(t, K) /\ TimerKeeps(t, G, K)
  <2>1. Locking(t, [G EXCEPT !.bottom_pc = next, !.answer = r])
    BY <1>3 DEF Bottom
  <2>2. TimerKeeps(t, G, [G EXCEPT !.bottom_pc = next, !.answer = r])
    BY <1>3, TimerOperatorsKeep
  <2> QED
    BY <2>1, <2>2
<1>4. ASSUME NEW r, NEW G, NEW next, Bottom(t, r, G, next), TimerKeeps(t, H, G), UNCHANGED files
      PROVE  TimerStays(t)
  <2>1. PICK K : Locking(t, K) /\ TimerKeeps(t, G, K)
    BY <1>3, <1>4 DEF TimerKeeps
  <2> QED
    BY <1>2, <1>4, <2>1, TimerKeepsOn
<1>5. TimerKeeps(t, H, H) /\ TimerKeeps(t, H, dropped)
  BY <1>1, TimerOperatorsKeep
<1>6. \A U : DirectKept(T, U, t) =>
                TimerKeeps(t, H, RefreshedIfChild([H EXCEPT !.routing_table = U]))
  <2> SUFFICES ASSUME NEW U, DirectKept(T, U, t)
               PROVE  TimerKeeps(t, H, RefreshedIfChild([H EXCEPT !.routing_table = U]))
    OBVIOUS
  <2> DEFINE G == [H EXCEPT !.routing_table = U]
  <2>1. TimerKeeps(t, H, G)
    BY <1>1, TimerOperatorsKeep
  <2>2. HoldFields \subseteq DOMAIN G
    BY <2>1 DEF TimerKeeps
  <2> HIDE DEF G
  <2>3. TimerKeeps(t, G, RefreshedIfChild(G))
    BY <2>2, TimerOperatorsKeep
  <2>4. TimerKeeps(t, H, RefreshedIfChild(G))
    BY <2>1, <2>3, TimerKeepsOn
  <2> QED
    BY <2>4 DEF G
<1>7. \A d, q, a : DirectKept(T, UpdateTypeToEmpty(RemoveRoute(T, d, q), a), t)
  <2> TAKE d, q, a
  <2> DEFINE U == RemoveRoute(T, d, q)
  <2>1. IsTable(U, Hubs \cup Timers) /\ DirectKept(T, U, t)
    BY <1>1, RemoveRouteTyped, RemoveRouteKeeps
  <2> HIDE DEF U
  <2>2. DirectKept(U, UpdateTypeToEmpty(U, a), t)
    BY <2>1, RetypingKeeps
  <2>3. DirectKept(T, UpdateTypeToEmpty(U, a), t)
    BY <2>1, <2>2, KeptOn
  <2> QED
    BY <2>3 DEF U
<1>8. ASSUME NEW r, TimerPassesGarbled(t, r) PROVE TimerStays(t)
  BY <1>4, <1>5, <1>8 DEF TimerPassesGarbled
<1>9. ASSUME NEW r, TimerDescendantAcquired(t, r) PROVE TimerStays(t)
  <2> DEFINE E == InsertIndirect(T, r.src, r.args[2], r.args[1])
             U == UpdateTypeToNotEmpty(E, r.src)
  <2>1. /\ r.cmd = "change_parent" /\ r.code = "OK" /\ r.args[1] # t
        /\ up[t] # <<>> /\ r = Head(up[t]) /\ UNCHANGED files
        /\ \/ /\ r.args[1] \in DOMAIN T
              /\ Bottom(t, r, RefreshedIfChild([H EXCEPT !.routing_table = U]), "write")
           \/ Bottom(t, r, H, "write")
    BY <1>9 DEF TimerDescendantAcquired, Bottom
  <2>2. ASSUME r.args[1] \in DOMAIN T PROVE DirectKept(T, U, t)
    <3>1. r \in Responses
      BY <2>1, TimerBottomStarts
    <3>2. r.src \in Devices /\ r.args[2] \in OwnTypes(r.src) /\ r.args[1] \in Controls
      BY <2>1, <3>1, ResponseFields DEF Links
    <3>3. r.args[1] \in Hubs \cup Timers
      <4>1. r.args[1] \in Devices
        BY <1>1, <2>2, TableIs
      <4> QED
        BY <3>2, <4>1, Ids
    <3>4. IsTable(E, Hubs \cup Timers)
      BY <1>1, <3>2, <3>3, InsertIndirectTyped
    <3>5. r.src \in DOMAIN E
      BY <2>2 DEF InsertIndirect, InsertRoute
    <3>6. DirectKept(T, E, t)
      BY <2>1, InsertIndirectKeeps
    <3> HIDE DEF E
    <3>7. DirectKept(E, U, t)
      BY <3>4, <3>5, RetypingKeeps
    <3> QED
      BY <3>6, <3>7, KeptOn
  <2> HIDE DEF U, H
  <2> QED
    BY <1>4, <1>5, <1>6, <2>1, <2>2 DEF T
<1>10. ASSUME NEW r, TimerDescendantRemoved(t, r) PROVE TimerStays(t)
  <2>1. /\ UNCHANGED files
        /\ \/ \E d, q, a : Bottom(t, r, RefreshedIfChild([H EXCEPT !.routing_table =
                               UpdateTypeToEmpty(RemoveRoute(T, d, q), a)]), "write")
           \/ Bottom(t, r, H, "write")
    BY <1>10 DEF TimerDescendantRemoved
  <2> HIDE DEF H, T
  <2> QED
    BY <1>4, <1>5, <1>6, <1>7, <2>1
<1>11. ASSUME NEW r, TimerChildDeleted(t, r) PROVE TimerStays(t)
  <2>1. \/ /\ H.has_child /\ files' = WithoutChild(t)
           /\ Bottom(t, r, dropped, "own")
        \/ /\ UNCHANGED files
           /\ \/ \E d, q, a : Bottom(t, r, RefreshedIfChild([H EXCEPT !.routing_table =
                                  UpdateTypeToEmpty(RemoveRoute(T, d, q), a)]), "own")
              \/ Bottom(t, r, H, "own")
    BY <1>11 DEF TimerChildDeleted
  <2>2. CASE H.has_child /\ files' = WithoutChild(t) /\ Bottom(t, r, dropped, "own")
    <3>1. HoldFields \subseteq DOMAIN dropped
      BY <1>5 DEF TimerKeeps
    <3> HIDE DEF dropped
    <3>2. PICK K : Locking(t, K) /\ TimerKeeps(t, dropped, K)
      BY <1>3, <2>2, <3>1
    <3> QED
      BY <2>2, <3>2, TimerStepStays DEF dropped
  <2> HIDE DEF H, T, dropped
  <2> QED
    BY <1>4, <1>5, <1>6, <1>7, <2>1, <2>2
<1>12. ASSUME NEW r, TimerMirrors(t, r) PROVE TimerStays(t)
  <2>1. /\ UNCHANGED files
        /\ \E x, y : Locking(t, [H EXCEPT !.pending = x, !.bottom_pc = "write", !.answer = y])
    BY <1>12 DEF TimerMirrors
  <2>2. \A x, y : TimerKeeps(t, H, [H EXCEPT !.pending = x, !.bottom_pc = "write", !.answer = y])
    BY <1>1, <1>5 DEF TimerKeeps, HoldFields
  <2> HIDE DEF H
  <2> QED
    BY <1>2, <2>1, <2>2
<1>13. CASE TimerMirrorsDelete(t)
  <2>1. /\ UNCHANGED files
        /\ \E x, y, z : Locking(t, [H EXCEPT !.pending = x, !.bottom_pc = "write",
                                             !.answer = y, !.last = z])
    BY <1>13 DEF TimerMirrorsDelete, pipes
  <2>2. \A x, y, z : TimerKeeps(t, H, [H EXCEPT !.pending = x, !.bottom_pc = "write",
                                                !.answer = y, !.last = z])
    BY <1>1, <1>5 DEF TimerKeeps, HoldFields
  <2> HIDE DEF H
  <2> QED
    BY <1>2, <2>1, <2>2
<1>14. CASE TimerWritesUp(t)
  <2> DEFINE done == [H EXCEPT !.bottom_pc = AfterWrite(H), !.answer = NoResponse,
                               !.force_exit = @ \/ H.last]
             failed == [H EXCEPT !.bottom_pc = "exit", !.failed = TRUE]
  <2>1. TimerKeeps(t, H, done) /\ TimerKeeps(t, H, failed)
    BY <1>1, <1>5 DEF TimerKeeps, HoldFields
  <2>2. UNCHANGED files /\ (Locking(t, done) \/ Locking(t, failed))
    BY <1>14 DEF TimerWritesUp, TellsParent
  <2> HIDE DEF done, failed
  <2> QED
    BY <1>2, <2>1, <2>2
<1> QED
  BY <1>8, <1>9, <1>10, <1>11, <1>12, <1>13, <1>14, TimerChildAcquiredHolds DEF TimerBottomUp

\* What the schedule thread of a timer takes for open is.
LEMMA TimerScheduleHolds ==
    ASSUME PipesTypeOK, TimerTypeOK, NEW t \in Timers, TimerHolds(t, timer[t], files[t]),
           TimerSchedule(t)
    PROVE  TimerStays(t)
<1> DEFINE H == timer[t]
           dropped == DropChild(t, H)
<1>1. TimerGood(H) /\ HoldFields \subseteq DOMAIN H
  BY TimerStarts, TimerHasFields
<1>2. TimerKeeps(t, H, H) /\ TimerKeeps(t, H, dropped)
  BY <1>1, TimerOperatorsKeep
<1>3. ASSUME NEW G, TimerStep(t, G) \/ Locking(t, G), TimerKeeps(t, H, G), UNCHANGED files
      PROVE  TimerStays(t)
  BY <1>3, TimerStepStays
<1>4. CASE ScheduleSleeps(t)
  <2>1. /\ UNCHANGED files
        /\ \E x, y, z : Locking(t, [H EXCEPT !.schedule_pc = x, !.left = y, !.activate = z])
    BY <1>4 DEF ScheduleSleeps, pipes
  <2>2. \A x, y, z : TimerKeeps(t, H, [H EXCEPT !.schedule_pc = x, !.left = y, !.activate = z])
    BY <1>1, <1>2 DEF TimerKeeps, HoldFields
  <2> HIDE DEF H
  <2> QED
    BY <1>3, <2>1, <2>2
<1>5. CASE ScheduleWakes(t) \/ ScheduleSwitches(t)
  <2>1. /\ UNCHANGED files
        /\ \/ \E x, y : \/ Locking(t, [H EXCEPT !.schedule_pc = x, !.due = y])
                         \/ TimerStep(t, [H EXCEPT !.schedule_pc = x, !.due = y])
           \/ \E x : \/ Locking(t, [H EXCEPT !.schedule_pc = x])
                      \/ TimerStep(t, [H EXCEPT !.schedule_pc = x])
    BY <1>5 DEF ScheduleWakes, ScheduleSwitches, pipes
  <2>2. /\ \A x, y : TimerKeeps(t, H, [H EXCEPT !.schedule_pc = x, !.due = y])
        /\ \A x : TimerKeeps(t, H, [H EXCEPT !.schedule_pc = x])
    BY <1>1, <1>2 DEF TimerKeeps, HoldFields
  <2> HIDE DEF H
  <2> QED
    BY <1>3, <2>1, <2>2
<1>6. CASE ScheduleUpdates(t)
  <2>1. /\ UNCHANGED files
        /\ \E x : Locking(t, [H EXCEPT !.schedule_pc = "start", !.state = x])
    BY <1>6 DEF ScheduleUpdates, pipes
  <2>2. \A x : TimerKeeps(t, H, [H EXCEPT !.schedule_pc = "start", !.state = x])
    BY <1>1, <1>2 DEF TimerKeeps, HoldFields
  <2> HIDE DEF H
  <2> QED
    BY <1>3, <2>1, <2>2
<1>7. CASE ScheduleReleasesChild(t)
  <2>1. \/ /\ H.has_child /\ files' = WithoutChild(t)
           /\ Locking(t, [dropped EXCEPT !.schedule_pc = "start"])
        \/ UNCHANGED files /\ Locking(t, [H EXCEPT !.schedule_pc = "start"])
    BY <1>7 DEF ScheduleReleasesChild
  <2>2. HoldFields \subseteq DOMAIN dropped
    BY <1>2 DEF TimerKeeps
  <2>3. TimerKeeps(t, H, [H EXCEPT !.schedule_pc = "start"])
    BY <1>1, TimerOperatorsKeep
  <2>4. TimerKeeps(t, dropped, [dropped EXCEPT !.schedule_pc = "start"])
    <3> HIDE DEF dropped
    <3> QED
      BY <2>2, TimerOperatorsKeep
  <2> HIDE DEF dropped
  <2> QED
    BY <2>1, <2>3, <2>4, TimerStepStays DEF dropped
<1> QED
  BY <1>4, <1>5, <1>6, <1>7 DEF TimerSchedule

\* A minute opens and closes nothing.
LEMMA MinutePassesHolds ==
    ASSUME TimerTypeOK, MinutePasses, NEW t \in Timers, TimerHolds(t, timer[t], files[t])
    PROVE  TimerHolds(t, timer'[t], files'[t])
<1>1. HoldFields \subseteq DOMAIN timer[t]
  BY DEF TimerTypeOK, TimerTyped, HoldFields
<1>2. /\ UNCHANGED files
      /\ \/ timer'[t] = timer[t]
         \/ \E x : timer'[t] = [timer[t] EXCEPT !.left = x]
  BY DEF MinutePasses, pipes
<1>3. TimerKeeps(t, timer[t], timer[t])
  BY <1>1, TimerOperatorsKeep
<1>4. \A x : TimerKeeps(t, timer[t], [timer[t] EXCEPT !.left = x])
  BY <1>1, <1>3 DEF TimerKeeps, HoldFields
<1> QED
  BY <1>2, <1>3, <1>4, TimerKeepsHolds

=============================================================================
