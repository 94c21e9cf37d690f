---------------------------- MODULE FridgeProofs ----------------------------
(***************************************************************************)
(* Proofs about Fridge, for any number of thread slots, any parents, any   *)
(* delays and any set of faults.                                           *)
(***************************************************************************)
EXTENDS Fridge, TLAPS

-----------------------------------------------------------------------------
\* OneTimerPerOpening, in its two halves: an opening must find no thread armed.
ArmedWhileOpen ==
    (Running /\ state = "open") =>
        /\ autoclose_thread \in Threads
        /\ \/ Armed(autoclose_thread)
           \/ "mutex" \in Faults /\ pc[autoclose_thread] = "failed"
        /\ \A t \in Threads : Armed(t) => t = autoclose_thread

NoTimerWhileClosed ==
    (Running /\ state = "closed" /\ \E t \in Threads : Armed(t)) => Lost

\* They and MutexDiscipline are not inductive.
\* A cancelled thread gets no further than the write in its critical section.
EndedNotCancelled == \A t \in Threads : pc[t] \in {"unlocking", "ended", "failed"} => ~cancelled[t]

\* From the moment an autoclose thread holds the mutex nobody opens the door.
ClosedWhileHeld == (Running /\ data_mutex \in Threads) => state = "closed"

\* No thread outlives the process.
NothingAfterExit == ~Running => \A t \in Threads : pc[t] = "ended"

IInv == /\ TypeOK
        /\ MutexDiscipline
        /\ ArmedWhileOpen
        /\ NoTimerWhileClosed
        /\ EndedNotCancelled
        /\ ClosedWhileHeld
        /\ NothingAfterExit

-----------------------------------------------------------------------------
\* An answer carries a known code and a 16 bit duration.
LEMMA ReplyType ==
    ASSUME NEW code \in ErrorCodes, NEW time \in Int
    PROVE  /\ Answer(code, time) \in Responses
           /\ Reply(code) \in Responses
<1>1. Width16 \in Nat \ {0}
  BY DEF Width16
<1>2. time % Width16 \in UInt16 /\ 0 % Width16 \in UInt16
  BY <1>1 DEF UInt16
<1> QED BY <1>2 DEF Answer, Reply, Responses

\* The handlers keep every variable in its type.
LEMMA ExecuteType ==
    ASSUME TypeOK, MainExecute
    PROVE  TypeOK'
<1> USE ThreadsAssumption, ParentsAssumption, ValuesAssumption
<1>0. /\ Reply("OK") \in Responses
      /\ Reply("UNEXPECTED_COMMAND") \in Responses
      /\ Reply("INVALID_REQUEST_ARGUMENT") \in Responses
      /\ Reply("UNABLE_TO_OPEN_PIPE") \in Responses
      /\ Reply("UNABLE_TO_CLOSE_PIPE") \in Responses
      /\ Reply("UNABLE_TO_CREATE_THREAD") \in Responses
      /\ Reply("UNABLE_TO_CANCEL_THREAD") \in Responses
  BY ReplyType DEF ErrorCodes
<1>1. UNCHANGED <<now, data_mutex, request>> /\ main_pc' = "unlock"
  BY DEF MainExecute
<1>2. CASE create_info_response
  <2>1. response' \in Responses
    BY <1>0, <1>2, ReplyType DEF TypeOK, ErrorCodes, create_info_response
  <2> QED BY <1>1, <1>2, <2>1 DEF TypeOK, create_info_response, device, link, times, threads
<1>3. CASE create_link_response
  <2>1. request.kind = "change_parent" => request.arg \in Parents
    BY DEF TypeOK, Requests
  <2>2. response' \in Responses
    BY <1>0, <1>3 DEF create_link_response
  <2>3. parent_id' \in Parents /\ snd_responses_fd' \in Parents \cup {NoPipe}
    BY <1>3, <2>1 DEF TypeOK, create_link_response, OpensNewParent, link
  <2>4. UNCHANGED <<state, device, times, autoclose_thread, threads, force_exit>>
    BY <1>3 DEF create_link_response
  <2> QED BY <1>1, <2>2, <2>3, <2>4 DEF TypeOK, device, times, threads
<1>4. CASE create_registry_response
  <2>1. request.kind = "percentage" => request.arg \in Nat
    BY DEF TypeOK, Requests
  <2>2. response' \in Responses
    BY <1>0, <1>4, Zenon DEF create_registry_response
  <2>3. /\ autoclose_delay' \in MinDelay..MaxDelay
        /\ thermostat' \in MinThermostat..MaxThermostat
        /\ fill_percentage' \in 0..MaxPercentage
    <3>1. CASE request.kind = "delay" /\ ValidArgument
      BY <1>4, <3>1 DEF create_registry_response, ValidArgument, TypeOK
    <3>2. CASE request.kind = "thermostat" /\ ValidArgument
      BY <1>4, <3>2 DEF create_registry_response, ValidArgument, TypeOK
    <3>3. CASE request.kind = "percentage" /\ ValidArgument
      BY <1>4, <2>1, <3>3 DEF create_registry_response, ValidArgument, TypeOK
    <3>4. CASE UNCHANGED device
      BY <3>4 DEF device, TypeOK
    <3> QED BY <1>4, <3>1, <3>2, <3>3, <3>4 DEF create_registry_response
  <2>4. UNCHANGED <<state, link, times, autoclose_thread, threads, force_exit>>
    BY <1>4 DEF create_registry_response
  <2> QED BY <1>1, <2>2, <2>3, <2>4 DEF TypeOK, link, times, threads
<1>5. CASE create_switch_response
  <2>1. UNCHANGED <<device, link, force_exit>>
    BY <1>5 DEF create_switch_response
  <2>2. CASE OpenDoor
    <3>1. response' \in Responses
      BY <1>0, <2>2 DEF OpenDoor, CreateAutoclose, CreateFails
    <3>2. /\ state' \in DoorStates
          /\ autoclose_thread' \in Threads \cup {NoThread}
          /\ pc' \in [Threads -> {"created", "sleeping", "locking", "writing",
                                  "unlocking", "ended", "failed"}]
          /\ UNCHANGED <<delay, wake, cancelled>>
      BY <2>2 DEF OpenDoor, CreateAutoclose, CreateFails, DoorStates, threads, TypeOK
    <3> QED BY <1>1, <2>1, <2>2, <3>1, <3>2 DEF TypeOK, OpenDoor, device, link
  <2>3. CASE CloseDoor
    <3>1. response' \in Responses
      BY <1>0, <2>3 DEF CloseDoor
    <3>2. cancelled' \in [Threads -> BOOLEAN]
      BY <2>3 DEF TypeOK, CloseDoor, CancelAutoclose
    <3> QED BY <1>1, <2>1, <2>3, <3>1, <3>2
            DEF TypeOK, CloseDoor, StampClosed, device, link, DoorStates
  <2>4. CASE DoorUnchanged
    BY <1>0, <1>1, <2>1, <2>4 DEF TypeOK, DoorUnchanged, device, link, times, threads
  <2>5. CASE /\ response' = Reply("UNEXPECTED_COMMAND")
             /\ UNCHANGED <<state, times, autoclose_thread, threads>>
    BY <1>0, <1>1, <2>1, <2>5 DEF TypeOK, device, link, times, threads
  <2> QED BY <1>5, <2>2, <2>3, <2>4, <2>5 DEF create_switch_response
<1>6. CASE create_delete_or_error
  BY <1>0, <1>1, <1>6 DEF TypeOK, create_delete_or_error, device, link, times, threads
<1> QED BY <1>2, <1>3, <1>4, <1>5, <1>6 DEF MainExecute

\* Every step keeps the variables in their types.
LEMMA TypeStep ==
    ASSUME TypeOK, [Next]_vars
    PROVE  TypeOK'
<1> USE ThreadsAssumption, ParentsAssumption, ValuesAssumption DEF TypeOK
<1>0. \A code \in ErrorCodes : Reply(code) \in Responses
  BY ReplyType
<1>1. CASE MainRead
  <2>1. NoRequest \in Requests
    BY DEF NoRequest, Requests
  <2> QED BY <1>0, <1>1, <2>1 DEF MainRead, ErrorCodes, device, link, times, threads
<1>2. CASE MainLock \/ MainLockFails \/ MainBlocks
  BY <1>0, <1>2 DEF MainLock, MainLockFails, MainBlocks, ErrorCodes, device, link, times, threads
<1>3. CASE MainExecute
  BY <1>3, ExecuteType
<1>4. CASE MainUnlock
  BY <1>4 DEF MainUnlock, NoRequest, Requests, device, link, times, threads
<1>5. CASE MainWrite
  BY <1>0, <1>5 DEF MainWrite, NoRequest, Requests, ErrorCodes, device, link,
              times, threads
<1>6. CASE Exit
  BY <1>6 DEF Exit, device, link, times
<1>7. CASE Tick
  BY <1>7 DEF Tick, device, link, times, threads
<1>8. ASSUME NEW t \in Threads, Thread(t)
      PROVE  TypeOK'
  <2> USE DEF Others, device, link, times
  <2>1. CASE Sleep(t)
    BY <2>1 DEF Sleep, Earlier
  <2>2. CASE WakeUp(t)
    BY <2>2 DEF WakeUp
  <2>3. CASE AutoClose(t)
    BY <2>3 DEF AutoClose, Lock, DoorStates
  <2>4. CASE Notify(t)
    BY <2>4 DEF Notify
  <2>5. CASE Release(t)
    BY <2>5 DEF Release, Unlock
  <2>6. CASE LockFails(t)
    BY <2>6 DEF LockFails
  <2>7. CASE UnlockFails(t)
    BY <1>6, <2>7 DEF UnlockFails
  <2>8. CASE Die(t)
    BY <2>8 DEF Die
  <2> QED BY <1>8, <2>1, <2>2, <2>3, <2>4, <2>5, <2>6, <2>7, <2>8 DEF Thread, Runs
<1>9. CASE UNCHANGED vars
  BY <1>9 DEF vars, device, link, times, threads
<1> QED BY <1>1, <1>2, <1>3, <1>4, <1>5, <1>6, <1>7, <1>8, <1>9
        DEF Next, Main, MainShutdown, Signal

-----------------------------------------------------------------------------
\* What the lock protects: the handlers run with data_mutex held by the main
\* thread, so no autoclose thread is inside its critical section meanwhile.
LEMMA ExecuteSafety ==
    ASSUME IInv, MainExecute
    PROVE  /\ MutexDiscipline'
           /\ ArmedWhileOpen'
           /\ NoTimerWhileClosed'
           /\ EndedNotCancelled'
           /\ ClosedWhileHeld'
           /\ NothingAfterExit'
<1> USE ThreadsAssumption
<1>0. /\ UNCHANGED <<now, data_mutex, request>> /\ main_pc' = "unlock"
      /\ data_mutex = "main" /\ Running /\ Running'
  BY DEF MainExecute, IInv, MutexDiscipline, Running
<1>1. /\ UNCHANGED <<now, data_mutex, request>> /\ main_pc' = "unlock"
      /\ data_mutex = "main" /\ Running /\ Running' /\ ClosedWhileHeld' /\ NothingAfterExit'
  BY <1>0 DEF ClosedWhileHeld, NothingAfterExit
<1>2. pc \in [Threads -> {"created", "sleeping", "locking", "writing", "unlocking", "ended", "failed"}]
      /\ cancelled \in [Threads -> BOOLEAN]
      /\ state \in {"closed", "open"}
  BY DEF IInv, TypeOK, DoorStates
<1>3. state = "closed" => \A t \in Threads : ~Armed(t)
  BY <1>1 DEF IInv, NoTimerWhileClosed, Lost
<1>4. CASE UNCHANGED <<state, autoclose_thread, pc, cancelled>>
  BY <1>1, <1>4 DEF IInv, MutexDiscipline, ArmedWhileOpen, NoTimerWhileClosed, Lost,
                    EndedNotCancelled, Armed, Running
<1>5. CASE OpenDoor /\ ~UNCHANGED <<state, autoclose_thread, pc, cancelled>>
  <2>1. PICK t \in Threads : CreateAutoclose(t)
    BY <1>5 DEF OpenDoor, CreateFails, threads
  <2>2. ~cancelled[t]
    BY <2>1 DEF CreateAutoclose, Ended, IInv, EndedNotCancelled
  <2>3. \A u \in Threads : Armed(u)' <=> u = t
    BY <1>2, <1>3, <1>5, <2>1, <2>2 DEF CreateAutoclose, Armed, OpenDoor
  <2>4. \A u \in Threads : pc'[u] \in {"writing", "unlocking"} <=> pc[u] \in {"writing", "unlocking"}
    BY <1>2, <2>1 DEF CreateAutoclose, Ended
  <2>5. MutexDiscipline'
    BY <1>1, <2>4 DEF IInv, MutexDiscipline
  <2>6. EndedNotCancelled'
    BY <1>2, <2>1 DEF CreateAutoclose, IInv, EndedNotCancelled
  <2>7. ArmedWhileOpen' /\ NoTimerWhileClosed'
    BY <2>1, <2>3 DEF CreateAutoclose, ArmedWhileOpen, NoTimerWhileClosed, Lost
  <2> QED BY <1>1, <2>5, <2>6, <2>7
<1>6. CASE CloseDoor /\ ~UNCHANGED <<state, autoclose_thread, pc, cancelled>>
  <2>1. /\ state = "open" /\ state' = "closed" /\ UNCHANGED <<autoclose_thread, pc>>
        /\ ~Ended(autoclose_thread)
        /\ CancelAutoclose
    BY <1>6 DEF CloseDoor
  <2>2. autoclose_thread \in Threads /\ \A t \in Threads : Armed(t) => t = autoclose_thread
    BY <1>1, <2>1 DEF IInv, ArmedWhileOpen
  <2>3. \A t \in Threads : ~Armed(t)'
    BY <1>2, <2>1, <2>2 DEF CancelAutoclose, Armed
  <2>4. EndedNotCancelled'
    BY <1>1, <1>2, <2>1, <2>2 DEF CancelAutoclose, IInv, EndedNotCancelled, ArmedWhileOpen, Armed, Ended
  <2> QED BY <1>1, <2>1, <2>3, <2>4 DEF IInv, MutexDiscipline, ArmedWhileOpen, NoTimerWhileClosed, Lost
<1>7. \/ UNCHANGED <<state, autoclose_thread, pc, cancelled>> \/ OpenDoor \/ CloseDoor
  BY DEF MainExecute, create_info_response, create_link_response, create_registry_response,
         create_switch_response, create_delete_or_error, DoorUnchanged, threads
<1> QED BY <1>4, <1>5, <1>6, <1>7

\* A thread's own step: taking the mutex, it finds it free, and leaving the
\* critical section or dying in it, it alone gives it up.
LEMMA ThreadSafety ==
    ASSUME IInv, TypeOK', NEW t \in Threads, Thread(t)
    PROVE  /\ MutexDiscipline'
           /\ ArmedWhileOpen'
           /\ NoTimerWhileClosed'
           /\ EndedNotCancelled'
           /\ ClosedWhileHeld'
<1> USE ThreadsAssumption
<1>1. pc \in [Threads -> {"created", "sleeping", "locking", "writing", "unlocking", "ended", "failed"}]
      /\ cancelled \in [Threads -> BOOLEAN]
      /\ state \in {"closed", "open"}
  BY DEF IInv, TypeOK, DoorStates
<1>2. CASE Sleep(t) \/ WakeUp(t)
  BY <1>1, <1>2 DEF Sleep, WakeUp, Others, IInv, MutexDiscipline, ArmedWhileOpen,
                    NoTimerWhileClosed, Lost, EndedNotCancelled, ClosedWhileHeld, Armed,
                    Running
<1>3. CASE AutoClose(t)
  <2> USE DEF AutoClose, Lock, Others, IInv, Armed, Running
  <2>1. MutexDiscipline'
    BY <1>1, <1>3 DEF MutexDiscipline
  <2>2. ArmedWhileOpen' /\ EndedNotCancelled' /\ ClosedWhileHeld'
    BY <1>1, <1>3 DEF ArmedWhileOpen, EndedNotCancelled, ClosedWhileHeld
  <2>3. NoTimerWhileClosed'
    BY <1>1, <1>3 DEF NoTimerWhileClosed, Lost, ArmedWhileOpen
  <2> QED BY <2>1, <2>2, <2>3
<1>4. CASE Notify(t)
  BY <1>1, <1>4 DEF Notify, Others, IInv, MutexDiscipline, ArmedWhileOpen,
                    NoTimerWhileClosed, Lost, EndedNotCancelled, ClosedWhileHeld, Armed,
                    Running
<1>5. CASE Release(t)
  <2> USE DEF Release, Unlock, Others, IInv, Armed, Running
  <2>1. MutexDiscipline' /\ EndedNotCancelled' /\ ClosedWhileHeld'
    BY <1>1, <1>5 DEF MutexDiscipline, EndedNotCancelled, ClosedWhileHeld
  <2>2. ArmedWhileOpen'
    BY <1>1, <1>5 DEF ArmedWhileOpen
  <2>3. NoTimerWhileClosed'
    BY <1>1, <1>5 DEF NoTimerWhileClosed, Lost, MutexDiscipline, EndedNotCancelled
  <2> QED BY <2>1, <2>2, <2>3
<1>6. CASE LockFails(t)
  BY <1>1, <1>6 DEF LockFails, Others, IInv, MutexDiscipline, ArmedWhileOpen,
                    NoTimerWhileClosed, Lost, EndedNotCancelled, ClosedWhileHeld, Armed,
                    Running
<1>7. CASE UnlockFails(t)
  BY <1>7 DEF UnlockFails, Exit, MutexDiscipline, ArmedWhileOpen, NoTimerWhileClosed, Lost,
              EndedNotCancelled, ClosedWhileHeld, Running
<1>8. CASE Die(t)
  <2> USE DEF Die, Others, IInv, Armed, Running
  <2>1. MutexDiscipline'
    BY <1>1, <1>8 DEF MutexDiscipline, ClosedWhileHeld
  <2>2. ArmedWhileOpen'
    BY <1>1, <1>8 DEF ArmedWhileOpen
  <2>3. NoTimerWhileClosed'
    BY <1>1, <1>8 DEF NoTimerWhileClosed, Lost
  <2>4. EndedNotCancelled' /\ ClosedWhileHeld'
    BY <1>1, <1>8 DEF EndedNotCancelled, ClosedWhileHeld
  <2> QED BY <2>1, <2>2, <2>3, <2>4
<1> QED BY <1>2, <1>3, <1>4, <1>5, <1>6, <1>7, <1>8 DEF Thread, Runs

\* A thread that runs has not seen the end of the process, or brings it about.
LEMMA ThreadExit ==
    ASSUME IInv, NEW t \in Threads, Thread(t)
    PROVE  NothingAfterExit'
<1>1. CASE Runs(t) \/ LockFails(t)
  <2>1. pc[t] # "ended" /\ main_pc' = main_pc
    BY <1>1 DEF Runs, Sleep, WakeUp, AutoClose, Notify, Release, LockFails, Die, Others
  <2> QED BY <2>1 DEF IInv, NothingAfterExit, Running
<1>2. CASE UnlockFails(t)
  BY <1>2 DEF UnlockFails, Exit, NothingAfterExit
<1> QED BY <1>1, <1>2 DEF Thread

\* Every step of either thread keeps the inductive invariant.
LEMMA SafetyStep ==
    ASSUME IInv, [Next]_vars
    PROVE  IInv'
<1> USE ThreadsAssumption
<1>1. TypeOK'
  BY TypeStep DEF IInv
<1>2. CASE MainExecute
  BY <1>1, <1>2, ExecuteSafety DEF IInv
<1>3. ASSUME NEW t \in Threads, Thread(t)
      PROVE  IInv'
  BY <1>1, <1>3, ThreadSafety, ThreadExit DEF IInv
<1>4. CASE Exit
  BY <1>1, <1>4 DEF Exit, IInv, MutexDiscipline, ArmedWhileOpen, NoTimerWhileClosed, Lost,
                    EndedNotCancelled, ClosedWhileHeld, NothingAfterExit, Running
<1>5. CASE MainRead \/ MainLockFails \/ MainWrite \/ Tick \/ UNCHANGED vars
  <2>1. /\ UNCHANGED <<state, data_mutex, autoclose_thread, pc, cancelled>>
        /\ main_pc' = main_pc \/ (main_pc' \in {"lock", "read", "write", "shutdown"} /\ Running)
    BY <1>5 DEF MainRead, MainLockFails, MainWrite, Tick, vars, threads, Running
  <2> QED BY <1>1, <2>1 DEF IInv, MutexDiscipline, ArmedWhileOpen, NoTimerWhileClosed, Lost,
                            EndedNotCancelled, ClosedWhileHeld, NothingAfterExit, Armed, Running
<1>6. CASE MainLock \/ MainBlocks \/ MainUnlock
  <2>1. UNCHANGED <<state, autoclose_thread, pc, cancelled>> /\ Running /\ Running'
    BY <1>6 DEF MainLock, MainBlocks, MainUnlock, threads, Running
  <2>2. MutexDiscipline'
    BY <1>6, <2>1 DEF IInv, MainLock, MainBlocks, MainUnlock, MutexDiscipline
  <2>3. NoTimerWhileClosed'
    <3>1. CASE data_mutex' = data_mutex
      BY <2>1, <3>1 DEF IInv, NoTimerWhileClosed, Lost, Armed
    <3>2. CASE data_mutex \in {"free", "main"}
      BY <2>1, <3>2 DEF IInv, NoTimerWhileClosed, Lost, Armed
    <3> QED BY <1>6, <2>1, <3>1, <3>2 DEF IInv, MainLock, MainBlocks, MainUnlock, MutexDiscipline
  <2>4. ClosedWhileHeld'
    BY <1>6, <2>1 DEF IInv, MainLock, MainBlocks, MainUnlock, ClosedWhileHeld
  <2> QED BY <1>1, <2>1, <2>2, <2>3, <2>4 DEF IInv, ArmedWhileOpen, EndedNotCancelled,
                                          NothingAfterExit, Armed
<1> QED BY <1>2, <1>3, <1>4, <1>5, <1>6 DEF Next, Main, MainShutdown, Signal

\* The invariant holds when the fridge has started.
LEMMA InitIInv == Init => IInv
<1> SUFFICES ASSUME Init PROVE IInv
  OBVIOUS
<1> USE ThreadsAssumption, ParentsAssumption, ValuesAssumption DEF Init
<1>1. TypeOK
  <2>1. Reply("OK") \in Responses
    BY ReplyType DEF ErrorCodes
  <2>2. NoRequest \in Requests
    BY DEF NoRequest, Requests
  <2>3. /\ pc \in [Threads -> {"created", "sleeping", "locking", "writing", "unlocking", "ended", "failed"}]
        /\ delay \in [Threads -> 0..MaxDelay]
        /\ wake \in [Threads -> 0..MaxTime]
        /\ cancelled \in [Threads -> BOOLEAN]
    OBVIOUS
  <2>4. /\ autoclose_delay \in MinDelay..MaxDelay
        /\ thermostat \in MinThermostat..MaxThermostat
        /\ fill_percentage \in 0..MaxPercentage
        /\ now \in 0..MaxTime /\ last_opened \in 0..now /\ last_closed \in 0..now
    OBVIOUS
  <2> QED BY <2>1, <2>2, <2>3, <2>4 DEF TypeOK, DoorStates
<1>2. /\ MutexDiscipline /\ ArmedWhileOpen /\ NoTimerWhileClosed
      /\ EndedNotCancelled /\ ClosedWhileHeld /\ NothingAfterExit
  BY DEF MutexDiscipline, ArmedWhileOpen, NoTimerWhileClosed, Lost, EndedNotCancelled,
         ClosedWhileHeld, NothingAfterExit, Armed, Running
<1> QED BY <1>1, <1>2 DEF IInv

\* The inductive invariant holds throughout: what the properties below follow from.
THEOREM Invariance == Spec => []IInv
<1> QED BY InitIInv, SafetyStep, PTL DEF Spec

-----------------------------------------------------------------------------
\* Every variable of the fridge keeps its type: in particular the delay and
\* the thermostat stay in the ranges create_registry_response checks.
THEOREM TypeCorrect == Spec => []TypeOK
<1>1. IInv => TypeOK
  BY DEF IInv
<1> QED BY <1>1, Invariance, PTL

\* An open door has exactly one uncancelled thread that is going to close it, which
\* only a failed pthread_mutex_lock takes away, and a closed door has none, unless
\* nobody can take the mutex any more to open it.
THEOREM OneTimerPerOpenDoor == Spec => []OneTimerPerOpening
<1>1. IInv => OneTimerPerOpening
  BY DEF IInv, ArmedWhileOpen, NoTimerWhileClosed, OneTimerPerOpening
<1> QED BY <1>1, Invariance, PTL

\* The mutex is held by whoever is in its critical section, and an orphaned one
\* always leaves a closed door behind.
THEOREM MutexIsDisciplined == Spec => []MutexDiscipline
<1>1. IInv => MutexDiscipline
  BY DEF IInv
<1> QED BY <1>1, Invariance, PTL

-----------------------------------------------------------------------------
\* Time.  An info subtracts the opening from the closing of a closed door, so it
\* has to come after; only a failed opening updates the one without the other.
ClosedAfterOpened == state = "closed" => last_opened <= last_closed

TimesInv == IInv /\ ClosedAfterOpened /\ OpenTimeIsDuration

\* What a response argument holds of a duration is no longer than it.
LEMMA ModuloIsSmaller ==
    ASSUME NEW code, NEW time \in Nat
    PROVE  Answer(code, time).open_time <= time
<1>1. Width16 \in Nat \ {0}
  BY DEF Width16
<1>2. time % Width16 <= time
  <2>1. CASE time < Width16
    BY <1>1, <2>1
  <2>2. CASE time >= Width16
    BY <1>1, <2>2
  <2> QED BY <1>1, <2>1, <2>2
<1> QED BY <1>2 DEF Answer

\* Only an info carries an open time.
LEMMA ReplyIsNoDuration ==
    ASSUME NEW code
    PROVE  Reply(code).open_time = 0
BY DEF Reply, Answer, Width16

\* As long as no thread creation fails, every step keeps the open times in order.
LEMMA TimesStep ==
    ASSUME "create" \notin Faults, TimesInv, [Next]_vars
    PROVE  TimesInv'
<1>1. IInv'
  BY SafetyStep DEF TimesInv
<1>2. /\ now \in Nat /\ last_opened \in 0 .. now /\ last_closed \in 0 .. now
      /\ now' \in Nat /\ response.open_time \in Nat
  BY <1>1, ValuesAssumption DEF TimesInv, IInv, TypeOK, Responses, UInt16
<1>3. CASE MainExecute
  <2>1. now' = now
    BY <1>3 DEF MainExecute
  <2>2. CASE create_info_response
    <3> DEFINE time == IF state = "open" THEN now - last_opened ELSE last_closed - last_opened
    <3>1. UNCHANGED <<state, last_opened, last_closed>> /\ response' = Answer("OK", time)
      BY <2>2 DEF create_info_response, times
    <3>2. time \in Nat /\ time <= now
      <4>1. CASE state = "open"
        BY <1>2, <4>1
      <4>2. CASE state = "closed"
        BY <1>2, <4>2 DEF TimesInv, ClosedAfterOpened
      <4> QED BY <4>1, <4>2 DEF TimesInv, IInv, TypeOK, DoorStates
    <3>3. response'.open_time <= time /\ response'.open_time \in Nat
      <4>1. response' \in Responses
        BY <1>1 DEF IInv, TypeOK
      <4>2. Answer("OK", time).open_time <= time
        BY <3>2, ModuloIsSmaller
      <4> QED BY <3>1, <4>1, <4>2 DEF Responses, UInt16
    <3> HIDE DEF time
    <3> QED BY <1>1, <1>2, <2>1, <3>1, <3>2, <3>3
            DEF TimesInv, ClosedAfterOpened, OpenTimeIsDuration
  <2>3. CASE ~create_info_response
    <3>1. response'.open_time = 0
      BY <1>3, <2>3, ReplyIsNoDuration, Zenon
      DEF MainExecute, create_link_response, create_registry_response, create_switch_response,
          create_delete_or_error, OpenDoor, CreateAutoclose, CreateFails, CloseDoor, DoorUnchanged
    <3>2. ClosedAfterOpened'
      <4>1. CASE OpenDoor
        BY <4>1 DEF OpenDoor, CreateAutoclose, ClosedAfterOpened
      <4>2. CASE CloseDoor
        BY <1>2, <4>2 DEF CloseDoor, StampClosed, ClosedAfterOpened
      <4>3. CASE UNCHANGED <<state, times>>
        BY <4>3 DEF times, TimesInv, ClosedAfterOpened
      <4> QED BY <1>3, <2>3, <4>1, <4>2, <4>3, Zenon
              DEF MainExecute, create_link_response, create_registry_response,
                  create_switch_response, create_delete_or_error, DoorUnchanged
    <3> QED BY <1>1, <1>2, <2>1, <3>1, <3>2 DEF TimesInv, OpenTimeIsDuration
  <2> QED BY <2>2, <2>3
<1>4. ASSUME NEW t \in Threads, AutoClose(t)
      PROVE  TimesInv'
  <2>1. UNCHANGED <<last_opened, now, response>>
    BY <1>4 DEF AutoClose, Others
  <2>2. last_closed' = IF state = "open" THEN now ELSE last_closed
    BY <1>4 DEF AutoClose
  <2>3. last_opened <= last_closed'
    BY <1>2, <2>2 DEF TimesInv, IInv, TypeOK, DoorStates, ClosedAfterOpened
  <2> QED BY <1>1, <2>1, <2>3 DEF TimesInv, ClosedAfterOpened, OpenTimeIsDuration
<1>5. CASE MainRead \/ MainLock \/ MainLockFails \/ MainBlocks \/ MainWrite
  <2>1. response' = response \/ response'.open_time = 0
    BY <1>5, ReplyIsNoDuration 
    DEF MainRead, MainLock, MainLockFails, MainBlocks, MainWrite, device, link, times, threads
  <2>2. UNCHANGED <<state, times, now>>
    BY <1>5 
    DEF MainRead, MainLock, MainLockFails, MainBlocks, MainWrite, device, link, times, threads
  <2> QED BY <1>1, <1>2, <2>1, <2>2 DEF times, TimesInv, ClosedAfterOpened, OpenTimeIsDuration
<1>6. CASE Tick
  BY <1>1, <1>2, <1>6 DEF Tick, device, link, times, threads, TimesInv, ClosedAfterOpened,
                       OpenTimeIsDuration
<1>7. CASE UNCHANGED <<state, last_opened, last_closed, now, response>>
  BY <1>1, <1>7 DEF TimesInv, ClosedAfterOpened, OpenTimeIsDuration
<1>8. ASSUME NEW t \in Threads, Thread(t), ~AutoClose(t)
      PROVE  UNCHANGED <<state, last_opened, last_closed, now, response>>
  BY <1>8 DEF Thread, Runs, Sleep, WakeUp, Notify, Release, LockFails, UnlockFails, Die, Exit,
              Others, times
<1>9. MainUnlock \/ Exit \/ UNCHANGED vars
          => UNCHANGED <<state, last_opened, last_closed, now, response>>
  BY DEF MainUnlock, Exit, times, vars
<1> QED BY <1>3, <1>4, <1>5, <1>6, <1>7, <1>8, <1>9 DEF Next, Main, MainShutdown, Signal

\* Whatever the order of openings, closings by hand and automatic closings, an
\* info reports a time that has gone by and never wraps below zero, as long as
\* threads can be created.
THEOREM OpenTimeNeverWraps ==
    ASSUME "create" \notin Faults
    PROVE  Spec => []OpenTimeIsDuration
<1>1. Init => TimesInv
  BY InitIInv, ReplyIsNoDuration DEF Init, TimesInv, ClosedAfterOpened, OpenTimeIsDuration
<1>2. TimesInv /\ [Next]_vars => TimesInv'
  BY TimesStep
<1>3. TimesInv => OpenTimeIsDuration
  BY DEF TimesInv
<1> QED BY <1>1, <1>2, <1>3, PTL DEF Spec

\* A thread that is still going to close the door wakes no sooner than its delay
\* after the opening: neither a delay request during its sleep nor a new opening
\* changes what it waits for.
LongEnough(t) == Earlier(last_opened + delay[t], MaxTime)

SleepsLongEnough ==
    state = "open" => \A t \in Threads : Armed(t) =>
        /\ pc[t] = "sleeping" => LongEnough(t) <= wake[t]
        /\ pc[t] = "locking" => LongEnough(t) <= now

\* Every step keeps what an autoclose thread has still to sleep at least as long as
\* the delay of its opening.
LEMMA SleepStep ==
    ASSUME IInv, SleepsLongEnough, [Next]_vars
    PROVE  SleepsLongEnough'
<1> USE ValuesAssumption
<1>0. IInv'
  BY SafetyStep
<1>1. /\ now \in Nat /\ now <= MaxTime /\ last_opened \in 0 .. now
      /\ autoclose_delay \in Nat
      /\ delay \in [Threads -> 0 .. MaxDelay]
      /\ wake \in [Threads -> 0 .. MaxTime]
      /\ pc \in [Threads -> {"created", "sleeping", "locking", "writing", "unlocking", "ended", "failed"}]
      /\ cancelled \in [Threads -> BOOLEAN]
  BY DEF IInv, TypeOK
<1>2. CASE UNCHANGED <<last_opened, delay, wake, now>> /\ (state' = "open" => state = "open")
           /\ \A t \in Threads : Armed(t)' => Armed(t) /\ pc'[t] = pc[t]
  BY <1>2 DEF SleepsLongEnough, LongEnough, Earlier
<1>3. CASE MainExecute
  <2>1. CASE OpenDoor
    <3>1. CASE state' = "open"
      <4>1. PICK t \in Threads : CreateAutoclose(t)
        BY <2>1, <3>1 DEF OpenDoor, CreateFails
      <4>2. \A u \in Threads : ~Armed(u)
        BY <1>3, <2>1, ThreadsAssumption
        DEF OpenDoor, MainExecute, IInv, MutexDiscipline, NoTimerWhileClosed, Lost, Running
      <4>3. \A u \in Threads : Armed(u)' => pc'[u] = "created"
        BY <1>1, <4>1, <4>2 DEF CreateAutoclose, Armed
      <4> QED BY <4>3 DEF SleepsLongEnough
    <3> QED BY <3>1 DEF SleepsLongEnough
  <2>2. CASE CloseDoor
    <3>1. CASE state' = "open"
      BY <1>2, <1>3, <2>2, <3>1 DEF CloseDoor, MainExecute, Armed
    <3> QED BY <3>1 DEF SleepsLongEnough
  <2>3. CASE UNCHANGED <<state, times, threads>>
    BY <1>2, <1>3, <2>3 DEF times, threads, MainExecute, Armed
  <2> QED BY <1>3, <2>1, <2>2, <2>3, Zenon
          DEF MainExecute, create_info_response, create_link_response, create_registry_response,
              create_switch_response, create_delete_or_error, DoorUnchanged
<1>4. ASSUME NEW t \in Threads, Thread(t)
      PROVE  SleepsLongEnough'
  <2>1. CASE Sleep(t)
    <3>1. UNCHANGED <<last_opened, now, state, cancelled>>
      BY <2>1 DEF Sleep, Others
    <3>2. /\ LongEnough(t)' <= wake'[t]
          /\ \A u \in Threads \ {t} :
                wake'[u] = wake[u] /\ delay'[u] = delay[u] /\ pc'[u] = pc[u]
      BY <1>1, <2>1, <3>1 DEF Sleep, Earlier, LongEnough
    <3>3. pc'[t] = "sleeping"
      BY <1>1, <2>1 DEF Sleep
    <3> QED BY <3>1, <3>2, <3>3 DEF SleepsLongEnough, LongEnough, Armed, Earlier
  <2>2. CASE WakeUp(t)
    <3>1. UNCHANGED <<last_opened, now, state, delay, cancelled>>
      BY <2>2 DEF WakeUp, Others
    <3>2. pc[t] = "sleeping" /\ wake[t] <= now /\ Armed(t)
      BY <2>2 DEF WakeUp, SleepOver, Armed
    <3>3. pc'[t] = "locking" /\ \A u \in Threads \ {t} : wake'[u] = wake[u] /\ pc'[u] = pc[u]
      BY <1>1, <2>2 DEF WakeUp
    <3>4. LongEnough(t) \in Int
      BY <1>1 DEF LongEnough, Earlier
    <3>5. state = "open" => LongEnough(t) <= now
      BY <1>1, <3>2, <3>4 DEF SleepsLongEnough
    <3>6. \A u \in Threads : LongEnough(u)' = LongEnough(u)
      BY <3>1 DEF LongEnough, Earlier
    <3> QED BY <3>1, <3>3, <3>5, <3>6 DEF SleepsLongEnough, Armed
  <2>3. CASE AutoClose(t)
    BY <2>3 DEF AutoClose, SleepsLongEnough
  <2>4. CASE Notify(t) \/ Release(t)
    <3>1. /\ UNCHANGED <<last_opened, delay, wake, now, state>>
          /\ \A u \in Threads : Armed(u)' => Armed(u) /\ pc'[u] = pc[u]
      BY <1>1, <2>4 DEF Notify, Release, Others, Armed
    <3> QED BY <1>2, <3>1
  <2>5. CASE UnlockFails(t)
    BY <2>5 DEF UnlockFails, Exit, SleepsLongEnough, Armed
  <2>6. CASE Die(t) \/ LockFails(t)
    <3>1. UNCHANGED <<last_opened, now, state>>
      BY <2>6 DEF Die, LockFails, Others
    <3>2. /\ ~Armed(t)'
          /\ \A u \in Threads \ {t} : /\ wake'[u] = wake[u] /\ delay'[u] = delay[u]
                                      /\ pc'[u] = pc[u] /\ cancelled'[u] = cancelled[u]
      BY <1>1, <2>6 DEF Die, LockFails, Armed
    <3> QED BY <3>1, <3>2 DEF SleepsLongEnough, LongEnough, Armed, Earlier
  <2> QED BY <1>4, <2>1, <2>2, <2>3, <2>4, <2>5, <2>6 DEF Thread, Runs
<1>5. CASE Exit
  BY <1>5 DEF Exit, SleepsLongEnough, Armed
<1>6. CASE Tick
  <2>1. now' = now + 1 /\ UNCHANGED <<state, last_opened, pc, delay, wake, cancelled>>
    BY <1>6 DEF Tick, times, threads
  <2>2. \A u \in Threads : LongEnough(u) \in Int /\ LongEnough(u)' = LongEnough(u)
    BY <1>1, <2>1 DEF LongEnough, Earlier
  <2> QED BY <1>1, <2>1, <2>2 DEF SleepsLongEnough, Armed
<1>7. CASE \/ MainRead \/ MainLock \/ MainLockFails \/ MainBlocks \/ MainUnlock \/ MainWrite
           \/ UNCHANGED vars
  <2>1. UNCHANGED <<state, last_opened, now, pc, delay, wake, cancelled>>
    BY <1>7 DEF MainRead, MainLock, MainLockFails, MainBlocks, MainUnlock, MainWrite, vars,
                times, threads
  <2> QED BY <1>2, <2>1 DEF Armed
<1> QED BY <1>3, <1>4, <1>5, <1>6, <1>7 DEF Next, Main, MainShutdown, Signal

\* A thread that takes the mutex with the door open is the one of this opening after
\* its whole delay, or one that has been cancelled.
LEMMA ClosesInTime ==
    ASSUME IInv, SleepsLongEnough, [Next]_vars, NEW t \in Threads,
           state = "open", pc[t] = "locking", pc'[t] = "writing"
    PROVE  InTime(t) \/ Lost'
<1>1. AutoClose(t)
  <2>1. pc \in [Threads -> {"created", "sleeping", "locking", "writing", "unlocking", "ended", "failed"}]
    BY DEF IInv, TypeOK
  <2>2. ASSUME NEW u \in Threads, Thread(u) PROVE AutoClose(t)
    BY <2>1, <2>2 DEF Thread, Runs, Sleep, WakeUp, AutoClose, Notify, Release, LockFails,
                      UnlockFails, Exit, Die
  <2>3. CASE MainExecute
    BY <2>1, <2>3, Zenon
    DEF MainExecute, create_info_response, create_link_response, create_registry_response,
        create_switch_response, create_delete_or_error, DoorUnchanged, OpenDoor, CloseDoor,
        CreateFails, threads
  <2> QED BY <2>1, <2>2, <2>3
          DEF Next, Main, MainRead, MainLock, MainLockFails, MainBlocks, MainUnlock, MainWrite,
              MainShutdown, Signal, Exit, Tick, vars, threads
<1>2. CASE cancelled[t]
  BY <1>1, <1>2 DEF AutoClose, Lock, Lost
<1>3. CASE ~cancelled[t]
  <2>1. Running /\ Armed(t)
    BY <1>3 DEF IInv, NothingAfterExit, Armed
  <2>2. t = autoclose_thread
    BY <2>1 DEF IInv, ArmedWhileOpen
  <2>3. LongEnough(t) <= now
    BY <2>1 DEF SleepsLongEnough
  <2>4. now \in Nat /\ last_opened \in Nat /\ delay[t] \in Nat /\ MaxTime \in Nat
    BY ValuesAssumption DEF IInv, TypeOK
  <2>5. last_opened + delay[t] <= MaxTime => last_opened + delay[t] <= now
    BY <2>3, <2>4 DEF LongEnough, Earlier
  <2> QED BY <1>3, <2>2, <2>4, <2>5 DEF InTime
<1> QED BY <1>2, <1>3

\* A lost mutex stays lost: no thread gives it up, and the main thread is never again
\* in its critical section.
LEMMA LostForEver ==
    ASSUME IInv, [Next]_vars, Lost, Running'
    PROVE  Lost' /\ state' = "closed" /\ main_pc' # "unlock"
<1> USE ThreadsAssumption DEF Lost
<1>0. /\ pc \in [Threads -> {"created", "sleeping", "locking", "writing", "unlocking", "ended", "failed"}]
      /\ cancelled \in [Threads -> BOOLEAN]
  BY DEF IInv, TypeOK
<1>1. ASSUME NEW t \in Threads, Thread(t)
      PROVE  Lost' /\ UNCHANGED <<state, main_pc>> /\ Running
  <2>1. UNCHANGED main_pc /\ Running
    BY <1>1 DEF Thread, Runs, Sleep, WakeUp, AutoClose, Notify, Release, LockFails, UnlockFails,
                Exit, Die, Others, Running
  <2>2. ~AutoClose(t)
    BY DEF AutoClose, Lock
  <2>3. CASE Sleep(t) \/ WakeUp(t) \/ Notify(t)
    BY <2>1, <2>3 DEF Sleep, WakeUp, Notify
  <2>4. ~Release(t)
    BY <1>0, <2>1 DEF Release, IInv, MutexDiscipline, EndedNotCancelled
  <2>5. CASE LockFails(t)
    <3>1. data_mutex # t
      BY <2>1, <2>5 DEF LockFails, IInv, MutexDiscipline
    <3> QED BY <1>0, <2>1, <2>5, <3>1 DEF LockFails
  <2>6. CASE Die(t)
    BY <1>0, <2>1, <2>6 DEF Die, Others
  <2>7. ~UnlockFails(t)
    BY DEF UnlockFails, Exit, Running
  <2> QED BY <1>1, <2>1, <2>2, <2>3, <2>4, <2>5, <2>6, <2>7 DEF Thread, Runs
<1>2. CASE ~\E t \in Threads : Thread(t)
  <2>1. Running
    BY <1>2 DEF Next, Main, MainRead, MainLock, MainLockFails, MainExecute, MainBlocks, MainUnlock,
                MainWrite, MainShutdown, Signal, Exit, Tick, vars, Running
  <2>2. main_pc \notin {"locked", "blocked", "unlock"}
    BY <2>1 DEF IInv, MutexDiscipline
  <2>3. ~MainLock
    BY DEF MainLock
  <2>4. UNCHANGED <<state, data_mutex, cancelled>> /\ main_pc' # "unlock"
    BY <1>2, <2>2, <2>3
    DEF Next, Main, MainRead, MainLockFails, MainExecute, MainBlocks, MainUnlock, MainWrite,
        MainShutdown, Signal, Exit, Tick, vars, threads, Running
  <2> QED BY <2>1, <2>4 DEF IInv, MutexDiscipline, ClosedWhileHeld
<1>3. ASSUME NEW t \in Threads, Thread(t)
      PROVE  state' = "closed" /\ main_pc' # "unlock"
  <2>1. state = "closed" /\ main_pc # "unlock"
    BY <1>1, <1>3 DEF IInv, MutexDiscipline, ClosedWhileHeld
  <2> QED BY <1>1, <1>3, <2>1
<1> QED BY <1>1, <1>2, <1>3

\* Every automatic close comes from the uncancelled thread of that very opening, after
\* all of the delay it read; or from a cancelled thread, and then the fridge executes
\* nothing any more.  It holds whatever delay, open and close requests come meanwhile.
THEOREM EarlyOnlyOnce == Spec => EarlyCloseIsLast
<1>1. Init => SleepsLongEnough
  BY DEF Init, SleepsLongEnough
<1>2. IInv /\ SleepsLongEnough /\ [Next]_vars => SleepsLongEnough'
  BY SleepStep
<1>3. IInv /\ SleepsLongEnough /\ [Next]_vars =>
         [/\ \A t \in Threads :
               (state = "open" /\ pc[t] = "locking" /\ pc'[t] = "writing") => InTime(t) \/ Lost'
          /\ Lost /\ Running' => Lost' /\ state' = "closed" /\ main_pc' # "unlock"]_vars
  BY ClosesInTime, LostForEver
<1> QED BY <1>1, <1>2, <1>3, Invariance, PTL DEF Spec, EarlyCloseIsLast
=============================================================================
