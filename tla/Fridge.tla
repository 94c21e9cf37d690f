------------------------------- MODULE Fridge -------------------------------
(***************************************************************************)
(* The Fridge process (src/code/src/fridge.c): the main thread reads one   *)
(* request at a time from the fridge's down pipe, executes it under        *)
(* data_mutex and answers on its parent's up pipe; opening the door starts *)
(* a detached thread that sleeps autoclose_delay and closes the door.      *)
(*                                                                         *)
(* A pthread_cancel only leaves a request pending: the target dies at its  *)
(* next cancellation point (sleep, write), and pthread_mutex_lock is not   *)
(* one.  Time is a bounded clock; temperature is not modelled here.        *)
(***************************************************************************)
EXTENDS Integers

CONSTANTS
    Threads,        \* pthread ids, reused once a thread has ended
    NoThread,       \* autoclose_thread before the first pthread_create
    Parents,        \* ids a change parent request may carry
    Controller,     \* CONTROLLER_ID, the initial parent
    NoPipe,         \* snd_responses_fd == -1
    Values,         \* arguments of the registry requests
    MinDelay, MaxDelay, DefaultDelay,
    MinThermostat, MaxThermostat, DefaultThermostat,
    MaxPercentage,
    MaxTime,        \* bound: the clock stops there
    Faults          \* which system calls may fail, whether signals arrive and
                    \* whether a new parent may have crashed ("block")

ASSUME ThreadsAssumption ==
    Threads \cap {NoThread, "free", "main", "orphaned"} = {}
ASSUME ParentsAssumption == Controller \in Parents /\ NoPipe \notin Parents
ASSUME ValuesAssumption ==
    /\ Values \subseteq Nat
    /\ MinDelay \in Nat \ {0} /\ DefaultDelay \in Nat /\ MaxDelay \in Nat
    /\ MinDelay <= DefaultDelay /\ DefaultDelay <= MaxDelay
    /\ MinThermostat \in Nat /\ DefaultThermostat \in Nat /\ MaxThermostat \in Nat
    /\ MinThermostat <= DefaultThermostat /\ DefaultThermostat <= MaxThermostat
    /\ MaxPercentage \in Nat
    /\ MaxTime \in Nat
ASSUME FaultsAssumption == Faults \subseteq {"open", "block", "create", "mutex", "signal"}

VARIABLES
    state,              \* the door
    autoclose_delay, thermostat, fill_percentage,
    parent_id,
    last_opened, last_closed,
    now,                \* time(NULL)
    data_mutex,         \* "free", "main", the thread that holds it, or
                        \* "orphaned" when its holder died
    autoclose_thread,
    snd_responses_fd,   \* the parent whose up pipe it writes to, or NoPipe
    force_exit,
    main_pc, request, response,
    pc,                 \* of every thread
    delay,              \* the argument of its sleep
    wake,               \* when its sleep ends
    cancelled           \* a pthread_cancel is pending, or has killed it

device == <<autoclose_delay, thermostat, fill_percentage>>
times == <<last_opened, last_closed>>
link == <<parent_id, snd_responses_fd>>
threads == <<pc, delay, wake, cancelled>>
vars == <<state, device, link, times, now, data_mutex, autoclose_thread,
          force_exit, main_pc, request, response, threads>>

DoorStates == {"closed", "open"}

\* The requests a parent, the controller or the manual interaction can put in
\* the pipe; "eof" and "garbled" are reads that give no request.
Requests ==
    [kind : {"info", "delete", "open_on", "open_off", "close_on", "close_off",
             "switch_power", "remove_child", "registry_begin", "other",
             "misrouted", "garbled", "eof"}, arg : {0}]
    \cup [kind : {"change_parent"}, arg : Parents]
    \cup [kind : {"delay", "thermostat", "percentage"}, arg : Values]

\* What no later step reads is forgotten: the request once it is executed, the
\* answer once it is written, the wake-up time of a thread that is awake, the
\* delay of one that has closed the door, the pending cancellation of one that
\* has ended.
NoRequest == [kind |-> "other", arg |-> 0]

ErrorCodes == {"OK", "UNEXPECTED_COMMAND", "INVALID_REQUEST_ARGUMENT",
               "UNABLE_TO_CREATE_THREAD", "UNABLE_TO_CANCEL_THREAD",
               "UNABLE_TO_OPEN_PIPE", "UNABLE_TO_CLOSE_PIPE",
               "UNABLE_TO_LOCK_MUTEX", "DESTINATION_ID_MISMATCH",
               "UNABLE_TO_READ_PIPE"}

\* response_t as far as the properties tell answers apart: the code, and the
\* open time an info response reports in an unsigned 16 bit argument.
Width16 == 65536
UInt16 == 0..(Width16 - 1)
Responses == [code : ErrorCodes, open_time : UInt16]
Answer(code, time) == [code |-> code, open_time |-> time % Width16]
Reply(code) == Answer(code, 0)

Running == main_pc # "exited"

\* "failed" is the end of a thread that could not lock the mutex.
Ended(t) == pc[t] \in {"ended", "failed"}

Init ==
    /\ state = "closed"
    /\ autoclose_delay = DefaultDelay
    /\ thermostat = DefaultThermostat
    /\ fill_percentage = 0
    /\ parent_id = Controller /\ snd_responses_fd = Controller
    /\ now = 0 /\ last_opened = 0 /\ last_closed = 0
    /\ data_mutex = "free"
    /\ autoclose_thread = NoThread
    /\ force_exit = FALSE
    /\ main_pc = "read"
    /\ request = NoRequest
    /\ response = Reply("OK")
    /\ pc = [t \in Threads |-> "ended"]
    /\ delay = [t \in Threads |-> 0]
    /\ wake = [t \in Threads |-> 0]
    /\ cancelled = [t \in Threads |-> FALSE]

-----------------------------------------------------------------------------
(***************************************************************************)
(* set_state.  Opening creates the autoclose thread in a free slot, or     *)
(* fails with last_opened already updated; closing by hand cancels the     *)
(* thread of the last opening, closing automatically cancels nobody.       *)
(* pthread_cancel fails on a thread that has already ended.                *)
(***************************************************************************)
CreateAutoclose(t) ==
    /\ Ended(t)
    /\ autoclose_thread' = t
    /\ pc' = [pc EXCEPT ![t] = "created"]
    /\ state' = "open"
    /\ response' = Reply("OK")
    /\ UNCHANGED <<delay, wake, cancelled>>

\* Mutant: the state is set before the thread is created.
CreateFailsOpen ==
    /\ response' = Reply("UNABLE_TO_CREATE_THREAD")
    /\ state' = "open"
    /\ autoclose_thread' \in {t \in Threads : Ended(t)}
    /\ UNCHANGED threads

CreateFails ==
    /\ response' = Reply("UNABLE_TO_CREATE_THREAD")
    /\ UNCHANGED <<state, autoclose_thread, threads>>

OpenDoor ==
    /\ state = "closed"
    /\ last_opened' = now
    /\ UNCHANGED last_closed
    /\ \/ \E t \in Threads : CreateAutoclose(t)
       \/ "create" \in Faults /\ CreateFails

\* Mutants: the thread is not cancelled; the timestamp is not updated.
NotCancelled == UNCHANGED cancelled
NotStamped == UNCHANGED last_closed

CancelAutoclose == cancelled' = [cancelled EXCEPT ![autoclose_thread] = TRUE]
StampClosed == last_closed' = now

CloseDoor ==
    /\ state = "open"
    /\ StampClosed
    /\ \/ /\ ~Ended(autoclose_thread)
          /\ CancelAutoclose
          /\ state' = "closed"
          /\ response' = Reply("OK")
       \/ /\ Ended(autoclose_thread)
          /\ response' = Reply("UNABLE_TO_CANCEL_THREAD")
          /\ UNCHANGED <<state, cancelled>>
    /\ UNCHANGED <<last_opened, autoclose_thread, pc, delay, wake>>

DoorUnchanged ==
    /\ response' = Reply("OK")
    /\ UNCHANGED <<state, times, autoclose_thread, threads>>

create_switch_response ==
    /\ \/ request.kind = "open_on" /\ OpenDoor
       \/ request.kind = "open_on" /\ state = "open" /\ DoorUnchanged
       \/ request.kind = "close_on" /\ CloseDoor
       \/ request.kind = "close_on" /\ state = "closed" /\ DoorUnchanged
       \/ request.kind \in {"open_off", "close_off"} /\ DoorUnchanged
       \/ /\ request.kind = "switch_power"
          /\ response' = Reply("UNEXPECTED_COMMAND")
          /\ UNCHANGED <<state, times, autoclose_thread, threads>>
    /\ UNCHANGED <<device, link, force_exit>>

create_info_response ==
    /\ request.kind = "info"
    /\ response' = Answer("OK", IF state = "open" THEN now - last_opened
                                                  ELSE last_closed - last_opened)
    /\ UNCHANGED <<state, device, link, times, autoclose_thread, threads, force_exit>>

\* change_snd_responses_pipe opens the new pipe into the variable first and
\* closes the old descriptor after, so a failed open leaves it at -1, and the
\* next change then fails to close -1.  An open that blocks is MainBlocks.
OpensNewParent == request.kind = "change_parent" /\ request.arg # parent_id

create_link_response ==
    /\ \/ /\ request.kind = "change_parent" /\ request.arg = parent_id
          /\ response' = Reply("OK")
          /\ UNCHANGED link
       \/ /\ OpensNewParent
          /\ \/ /\ "open" \in Faults
                /\ snd_responses_fd' = NoPipe
                /\ response' = Reply("UNABLE_TO_OPEN_PIPE")
                /\ UNCHANGED parent_id
             \/ /\ snd_responses_fd = NoPipe
                /\ snd_responses_fd' = request.arg
                /\ response' = Reply("UNABLE_TO_CLOSE_PIPE")
                /\ UNCHANGED parent_id
             \/ /\ snd_responses_fd # NoPipe
                /\ snd_responses_fd' = request.arg
                /\ parent_id' = request.arg
                /\ response' = Reply("OK")
       \/ /\ request.kind = "remove_child"
          /\ response' = Reply("UNEXPECTED_COMMAND")
          /\ UNCHANGED link
    /\ UNCHANGED <<state, device, times, autoclose_thread, threads, force_exit>>

\* Mutant: only the lower end of the range is checked.
NoUpperBound == request.kind \in {"delay", "thermostat"} => request.arg >= MinDelay

ValidArgument ==
    \/ request.kind = "delay" /\ request.arg \in MinDelay..MaxDelay
    \/ request.kind = "thermostat" /\ request.arg \in MinThermostat..MaxThermostat
    \/ request.kind = "percentage" /\ request.arg <= MaxPercentage

create_registry_response ==
    /\ \/ /\ request.kind = "delay" /\ ValidArgument
          /\ autoclose_delay' = request.arg
          /\ response' = Reply("OK")
          /\ UNCHANGED <<thermostat, fill_percentage>>
       \/ /\ request.kind = "thermostat" /\ ValidArgument
          /\ thermostat' = request.arg
          /\ response' = Reply("OK")
          /\ UNCHANGED <<autoclose_delay, fill_percentage>>
       \/ /\ request.kind = "percentage" /\ ValidArgument
          /\ fill_percentage' = request.arg
          /\ response' = Reply("OK")
          /\ UNCHANGED <<autoclose_delay, thermostat>>
       \/ /\ request.kind \in {"delay", "thermostat", "percentage"} /\ ~ValidArgument
          /\ response' = Reply("INVALID_REQUEST_ARGUMENT")
          /\ UNCHANGED device
       \/ /\ request.kind = "registry_begin"
          /\ response' = Reply("UNEXPECTED_COMMAND")
          /\ UNCHANGED device
    /\ UNCHANGED <<state, link, times, autoclose_thread, threads, force_exit>>

create_delete_or_error ==
    /\ \/ /\ request.kind = "delete"
          /\ force_exit' = TRUE
          /\ response' = Reply("OK")
       \/ /\ request.kind = "other"
          /\ response' = Reply("UNEXPECTED_COMMAND")
          /\ UNCHANGED force_exit
    /\ UNCHANGED <<state, device, link, times, autoclose_thread, threads>>

-----------------------------------------------------------------------------
(***************************************************************************)
(* The main thread: execute_command in a loop.                             *)
(***************************************************************************)

\* A request arrives (or the read fails).  Bound: no open request while every
\* slot of Threads is in use.
MainRead ==
    /\ main_pc = "read"
    /\ \E r \in Requests :
        /\ r.kind = "open_on" => \E t \in Threads : Ended(t)
        /\ request' = r
        /\ \/ /\ r.kind \in {"eof", "garbled"}
              /\ response' = Reply("UNABLE_TO_READ_PIPE")
              /\ force_exit' = (r.kind = "eof")
              /\ main_pc' = "write"
           \/ /\ r.kind = "misrouted"
              /\ response' = Reply("DESTINATION_ID_MISMATCH")
              /\ main_pc' = "write"
              /\ UNCHANGED force_exit
           \/ /\ r.kind \notin {"eof", "garbled", "misrouted"}
              /\ response' = Reply("OK")
              /\ main_pc' = "lock"
              /\ UNCHANGED force_exit
    /\ UNCHANGED <<state, device, link, times, now, data_mutex, autoclose_thread, threads>>

MainLock ==
    /\ main_pc = "lock"
    /\ data_mutex = "free"
    /\ data_mutex' = "main"
    /\ main_pc' = "locked"
    /\ UNCHANGED <<state, device, link, times, now, autoclose_thread, force_exit,
                   request, response, threads>>

MainLockFails ==
    /\ "mutex" \in Faults
    /\ main_pc = "lock"
    /\ main_pc' = "write"
    /\ response' = Reply("UNABLE_TO_LOCK_MUTEX")
    /\ UNCHANGED <<state, device, link, times, now, data_mutex, autoclose_thread,
                   force_exit, request, threads>>

MainExecute ==
    /\ main_pc = "locked"
    /\ main_pc' = "unlock"
    /\ \/ create_info_response
       \/ create_link_response
       \/ create_registry_response
       \/ create_switch_response
       \/ create_delete_or_error
    /\ UNCHANGED <<now, data_mutex, request>>

\* The open(O_WRONLY) of a change of parent never returns, with data_mutex held:
\* the new parent has crashed, so nobody reads its up pipe, and the name of the
\* pipe is still there.  Only a signal ends it.
MainBlocks ==
    /\ "block" \in Faults
    /\ main_pc = "locked"
    /\ OpensNewParent
    /\ main_pc' = "blocked"
    /\ UNCHANGED <<state, device, link, times, now, data_mutex, autoclose_thread,
                   force_exit, request, response, threads>>

MainUnlock ==
    /\ main_pc = "unlock"
    /\ main_pc' = "write"
    /\ request' = NoRequest
    /\ \/ /\ data_mutex' = "free"
          /\ UNCHANGED force_exit
       \/ /\ "mutex" \in Faults
          /\ force_exit' = TRUE
          /\ UNCHANGED data_mutex
    /\ UNCHANGED <<state, device, link, times, now, autoclose_thread, response, threads>>

\* After the processing delay: the answer, then the loop's condition.
MainWrite ==
    /\ main_pc = "write"
    /\ main_pc' = IF force_exit THEN "shutdown" ELSE "read"
    /\ request' = NoRequest
    /\ response' = Reply("OK")
    /\ UNCHANGED <<state, device, link, times, now, data_mutex, autoclose_thread,
                   force_exit, threads>>

\* handle_shutdown ends the process, and every thread with it.
Exit ==
    /\ main_pc' = "exited"
    /\ pc' = [t \in Threads |-> "ended"]
    /\ delay' = [t \in Threads |-> 0]
    /\ wake' = [t \in Threads |-> 0]
    /\ cancelled' = [t \in Threads |-> FALSE]
    /\ UNCHANGED <<state, device, link, times, now, data_mutex, autoclose_thread,
                   force_exit, request, response>>

MainShutdown == main_pc = "shutdown" /\ Exit

\* SIGTERM, SIGINT, or the SIGPIPE of a write nobody can read.
Signal == "signal" \in Faults /\ Running /\ Exit

-----------------------------------------------------------------------------
(***************************************************************************)
(* autoclose_routine.  autoclose_delay is read without the mutex when the  *)
(* sleep starts.  Sleep and write are cancellation points.                 *)
(***************************************************************************)
Others == <<device, link, last_opened, now, autoclose_thread, force_exit,
              main_pc, request, response>>

Earlier(a, b) == IF a < b THEN a ELSE b

Sleep(t) ==
    /\ pc[t] = "created"
    /\ ~cancelled[t]
    /\ pc' = [pc EXCEPT ![t] = "sleeping"]
    /\ delay' = [delay EXCEPT ![t] = autoclose_delay]
    /\ wake' = [wake EXCEPT ![t] = Earlier(now + autoclose_delay, MaxTime)]
    /\ UNCHANGED <<Others, state, last_closed, data_mutex, cancelled>>

\* Mutant: a signal ends the sleep.
SleepInterrupted(t) == TRUE

SleepOver(t) == wake[t] <= now

WakeUp(t) ==
    /\ pc[t] = "sleeping"
    /\ ~cancelled[t]
    /\ SleepOver(t)
    /\ pc' = [pc EXCEPT ![t] = "locking"]
    /\ wake' = [wake EXCEPT ![t] = 0]
    /\ UNCHANGED <<Others, state, last_closed, data_mutex, delay, cancelled>>

\* Mutant: pthread_mutex_trylock, its result ignored.
LockIgnored(t) ==
    data_mutex' = IF data_mutex = "free" THEN t ELSE data_mutex

Lock(t) ==
    /\ data_mutex = "free"
    /\ data_mutex' = t

\* Mutant: the mutex is not released.
NotUnlocked == UNCHANGED data_mutex

Unlock == data_mutex' = "free"

\* Takes the mutex and runs set_state(STATE_CLOSED, true).
AutoClose(t) ==
    /\ pc[t] = "locking"
    /\ Lock(t)
    /\ pc' = [pc EXCEPT ![t] = "writing"]
    /\ state' = "closed"
    /\ last_closed' = IF state = "open" THEN now ELSE last_closed
    /\ delay' = [delay EXCEPT ![t] = 0]
    /\ UNCHANGED <<Others, wake, cancelled>>

Notify(t) ==
    /\ pc[t] = "writing"
    /\ ~cancelled[t]
    /\ pc' = [pc EXCEPT ![t] = "unlocking"]
    /\ UNCHANGED <<Others, state, last_closed, data_mutex, delay, wake, cancelled>>

\* Unlocks and ends.
Release(t) ==
    /\ pc[t] = "unlocking"
    /\ Unlock
    /\ pc' = [pc EXCEPT ![t] = "ended"]
    /\ cancelled' = [cancelled EXCEPT ![t] = FALSE]
    /\ UNCHANGED <<Others, state, last_closed, delay, wake>>

\* A failed lock ends the thread, a failed unlock ends the process.
LockFails(t) ==
    /\ "mutex" \in Faults
    /\ pc[t] = "locking"
    /\ pc' = [pc EXCEPT ![t] = "failed"]
    /\ delay' = [delay EXCEPT ![t] = 0]
    /\ cancelled' = [cancelled EXCEPT ![t] = FALSE]
    /\ UNCHANGED <<Others, state, last_closed, data_mutex, wake>>

UnlockFails(t) ==
    /\ "mutex" \in Faults
    /\ pc[t] = "unlocking"
    /\ Exit

\* A pending cancellation acts at sleep or at write; no cleanup handler
\* releases the mutex.
Die(t) ==
    /\ cancelled[t]
    /\ pc[t] \in {"created", "sleeping", "writing"}
    /\ pc' = [pc EXCEPT ![t] = "ended"]
    /\ delay' = [delay EXCEPT ![t] = 0]
    /\ wake' = [wake EXCEPT ![t] = 0]
    /\ cancelled' = [cancelled EXCEPT ![t] = FALSE]
    /\ data_mutex' = IF data_mutex = t THEN "orphaned" ELSE data_mutex
    /\ UNCHANGED <<Others, state, last_closed>>

Runs(t) == Sleep(t) \/ WakeUp(t) \/ AutoClose(t) \/ Notify(t) \/ Release(t) \/ Die(t)

Thread(t) == Runs(t) \/ LockFails(t) \/ UnlockFails(t)

Tick ==
    /\ Running
    /\ now < MaxTime
    /\ now' = now + 1
    /\ UNCHANGED <<state, device, link, times, data_mutex, autoclose_thread,
                   force_exit, main_pc, request, response, threads>>

Main == MainLock \/ MainExecute \/ MainUnlock \/ MainWrite \/ MainShutdown

Next == \/ MainRead \/ Main \/ MainLockFails \/ MainBlocks \/ Signal \/ Tick
        \/ \E t \in Threads : Thread(t)

Spec == Init /\ [][Next]_vars

-----------------------------------------------------------------------------
\* The scheduler runs every thread that can run, a sleep ends, and a thread
\* that waits for a mutex that is freed again and again gets it.  Requests need
\* not arrive, and nothing has to fail: fairness never takes a lock that fails or
\* an open that blocks for the step that gets a thread on.
Fairness ==
    /\ WF_vars(Main)
    /\ WF_vars(Tick)
    /\ SF_vars(MainLock)
    /\ \A t \in Threads : WF_vars(Runs(t)) /\ SF_vars(AutoClose(t))

FairSpec == Spec /\ Fairness

-----------------------------------------------------------------------------
TypeOK ==
    /\ state \in DoorStates
    /\ autoclose_delay \in MinDelay..MaxDelay
    /\ thermostat \in MinThermostat..MaxThermostat
    /\ fill_percentage \in 0..MaxPercentage
    /\ parent_id \in Parents /\ snd_responses_fd \in Parents \cup {NoPipe}
    /\ now \in 0..MaxTime /\ last_opened \in 0..now /\ last_closed \in 0..now
    /\ data_mutex \in {"free", "main", "orphaned"} \cup Threads
    /\ autoclose_thread \in Threads \cup {NoThread}
    /\ force_exit \in BOOLEAN
    /\ main_pc \in {"read", "lock", "locked", "blocked", "unlock", "write",
                   "shutdown", "exited"}
    /\ request \in Requests
    /\ response \in Responses
    /\ pc \in [Threads -> {"created", "sleeping", "locking", "writing", "unlocking",
                         "ended", "failed"}]
    /\ delay \in [Threads -> 0..MaxDelay]
    /\ wake \in [Threads -> 0..MaxTime]
    /\ cancelled \in [Threads -> BOOLEAN]

Armed(t) == pc[t] \in {"created", "sleeping", "locking"} /\ ~cancelled[t]

\* The holder of the mutex has died in write, or is going to: nobody will ever
\* release it.
Lost ==
    \/ data_mutex = "orphaned"
    \/ data_mutex \in Threads /\ cancelled[data_mutex]

\* Every opening has its own timer.  An open door: the thread of the last opening
\* is still going to close it, nobody has cancelled it, and no other uncancelled
\* thread is going to; only a failed pthread_mutex_lock takes that timer away.
\* A closed door: no uncancelled thread is left to close a later opening, or the
\* mutex is lost and there is none.  Cancelled threads may still be on their way
\* out; what they can do is the matter of EarlyCloseIsLast.
OneTimerPerOpening ==
    Running =>
        /\ state = "open" =>
            /\ autoclose_thread \in Threads
            /\ \/ Armed(autoclose_thread)
               \/ "mutex" \in Faults /\ pc[autoclose_thread] = "failed"
            /\ \A t \in Threads : Armed(t) => t = autoclose_thread
        /\ state = "closed" => Lost \/ \A t \in Threads : ~Armed(t)

\* Whoever is inside the critical section holds data_mutex, and a mutex whose
\* holder died was held by a thread that had been cancelled: the door it
\* leaves behind is closed.
MutexDiscipline ==
    Running =>
        /\ \A t \in Threads : pc[t] \in {"writing", "unlocking"} <=> data_mutex = t
        /\ main_pc \in {"locked", "blocked", "unlock"} => data_mutex = "main"
        /\ data_mutex = "orphaned" => state = "closed"

\* What an info response reports as open time is a duration the clock has
\* measured: a difference taken the wrong way round would wrap to 65535.
OpenTimeIsDuration ==
    response.open_time <= now

\* The automatic close at its time: the thread of this opening, which nobody has
\* cancelled, has slept the whole delay it started with since the opening,
\* whatever delay requests came meanwhile.  An opening so late that the bounded
\* clock cuts its sleep short is not judged.
InTime(t) ==
    /\ t = autoclose_thread /\ ~cancelled[t]
    /\ last_opened + delay[t] <= MaxTime => now >= last_opened + delay[t]

\* An automatic close that is not in time is the last thing the fridge ever does.
\* The code does have such closes: a thread that is cancelled while it waits for
\* the mutex (no cancellation point) takes it after the next opening and shuts
\* that door at once.  It then dies with the mutex, and from there on no request
\* is executed and nothing opens the door.  Every other automatic close is in time.
EarlyCloseIsLast ==
    [][/\ \A t \in Threads :
            (state = "open" /\ pc[t] = "locking" /\ pc'[t] = "writing") => InTime(t) \/ Lost'
       /\ Lost /\ Running' => Lost' /\ state' = "closed" /\ main_pc' # "unlock"]_vars

\* Every accepted request is answered, except after one of the two things that hold
\* data_mutex for ever: a cancelled thread died with it, or the open of a crashed
\* parent's pipe does not return.
AnsweredOrStuck ==
    main_pc = "lock" ~> \/ main_pc \in {"read", "exited"}
                        \/ main_pc = "blocked" \/ data_mutex = "orphaned"

\* A door that is opened does not stay open, even if the fridge gets no further
\* request.  What can keep it open: the pthread_mutex_lock of its autoclose thread
\* failed, or the main thread is blocked in an open and keeps the mutex.
DoorCloses ==
    state = "open" ~>
        \/ state = "closed" \/ ~Running
        \/ main_pc = "blocked"
        \/ state = "open" /\ pc[autoclose_thread] = "failed"

\* The devices "receive command requests, execute them and send responses"
\* (report.typ:10): every accepted request is answered.
AlwaysAnswered == main_pc = "lock" ~> main_pc \in {"read", "exited"}
=============================================================================
