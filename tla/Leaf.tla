-------------------------------- MODULE Leaf --------------------------------
(***************************************************************************)
(* A Bulb or a Window (src/code/src/bulb.c, window.c): one thread reads a  *)
(* request, executes it, sleeps and answers on its parent's up pipe, which *)
(* a change parent request has replaced by then.                           *)
(***************************************************************************)
EXTENDS Pipes

VARIABLE leaf   \* of every leaf, its globals:
                \*   state, parent_id, force_exit
                \*   snd     whose up pipe snd_responses_fd is, or NoPipe (-1)
                \*   pc      "read", "reply", or "blocked" in open
                \*   response

NoPipe == -1

LeafTypeOK ==
    /\ leaf \in [Leaves ->
          [state : {STATE_OFF, STATE_ON}, parent_id : Controls, force_exit : BOOLEAN,
           snd : Controls \cup {NoPipe}, pc : {"read", "reply", "blocked"},
           response : Responses \cup
               {[NoResponse EXCEPT !.cmd = c] : c \in Commands \cup {"null"}}]]
    /\ \A d \in Leaves : leaf[d].pc = "reply" => leaf[d].response \in Responses

LeafSteps(d, new) == leaf' = [leaf EXCEPT ![d] = new]

\* read returns request m, which is executed; the response is kept for later.
LeafTakes(d, m) ==
    /\ Running(d) /\ leaf[d].pc = "read" /\ down[d] # <<>>
    /\ m = Head(down[d])
    /\ down' = [down EXCEPT ![d] = Tail(@)]
    /\ UNCHANGED <<up, files, exit_code, fifos>>

LeafInfo(d, m) ==
    /\ LeafTakes(d, m) /\ m.dst = d /\ m.cmd = "info"
    /\ LeafSteps(d, [leaf[d] EXCEPT !.pc = "reply",
            !.response = Response(d, "info", "OK", <<leaf[d].state>>)])

\* What the switches do: a bulb has only power; a window opens with "open_on",
\* closes with "close_on", and "open_off" and "close_off" do nothing.
SwitchedState(d, cmd) ==
    CASE cmd \in {"power_on", "open_on"} -> STATE_ON
      [] cmd \in {"power_off", "close_on"} -> STATE_OFF
      [] OTHER -> leaf[d].state

LeafSwitch(d, m) ==
    /\ LeafTakes(d, m) /\ m.dst = d /\ m.cmd \in Switches /\ Fits(m.cmd, Kind[d])
    /\ LeafSteps(d, [leaf[d] EXCEPT !.pc = "reply", !.state = SwitchedState(d, m.cmd),
            !.response = Response(d, m.cmd, "OK", <<>>)])

LeafRefuses(d, m) ==
    /\ LeafTakes(d, m) /\ m.dst = d
    /\ m.cmd \in {"remove_child"} \cup Registries \/ (m.cmd \in Switches /\ ~Fits(m.cmd, Kind[d]))
    /\ LeafSteps(d, [leaf[d] EXCEPT !.pc = "reply",
            !.response = Response(d, m.cmd, "UNEXPECTED_COMMAND", <<>>)])

\* change_snd_responses_pipe opens the new parent's pipe before it closes the
\* old one, and only when both succeed is parent_id the new parent.
LeafChangeParent(d, m) ==
    LET code == CASE m.arg = leaf[d].parent_id -> "OK"
                  [] ~UpOpens(m.arg) -> "UNABLE_TO_OPEN_PIPE"
                  [] leaf[d].snd = NoPipe -> "UNABLE_TO_CLOSE_PIPE"
                  [] OTHER -> "OK"
        snd == CASE m.arg = leaf[d].parent_id -> leaf[d].snd
                 [] ~UpOpens(m.arg) -> NoPipe
                 [] OTHER -> m.arg
    IN  /\ LeafTakes(d, m) /\ m.dst = d /\ m.cmd = "change_parent"
        /\ m.arg = leaf[d].parent_id \/ UpOpenReturns(m.arg)
        /\ LeafSteps(d, [leaf[d] EXCEPT !.pc = "reply", !.snd = snd,
                !.parent_id = IF code = "OK" THEN m.arg ELSE @,
                !.response = Response(d, m.cmd, code, <<m.arg, Kind[d]>>)])

LeafBlocks(d, m) ==
    /\ LeafTakes(d, m) /\ m.dst = d /\ m.cmd = "change_parent"
    /\ m.arg # leaf[d].parent_id /\ ~UpOpenReturns(m.arg)
    /\ LeafSteps(d, [leaf[d] EXCEPT !.pc = "blocked"])

LeafDelete(d, m) ==
    /\ LeafTakes(d, m) /\ m.dst = d /\ m.cmd = "delete"
    /\ LeafSteps(d, [leaf[d] EXCEPT !.pc = "reply", !.force_exit = TRUE,
            !.response = Response(d, "delete", "OK", <<>>)])

\* A request for another device.  A window answers with the command code of
\* its previous response, a bulb with none.
LeafMisrouted(d, m) ==
    /\ LeafTakes(d, m) /\ m.dst # d
    /\ LeafSteps(d, [leaf[d] EXCEPT !.pc = "reply",
            !.response = Response(d, @.cmd, "DESTINATION_ID_MISMATCH", <<>>)])

LeafEndOfFile(d) ==
    /\ Running(d) /\ leaf[d].pc = "read" /\ down[d] = <<>> /\ ~HasWriter(d)
    /\ LeafSteps(d, [leaf[d] EXCEPT !.pc = "reply", !.force_exit = TRUE,
            !.response = Response(d, "null", "UNEXPECTED_END_OF_FILE", <<>>)])
    /\ UNCHANGED pipes

\* The answer is written; SIGPIPE, when nobody reads it, ends the process as
\* force_exit does.
LeafReply(d) ==
    LET broken == leaf[d].snd # NoPipe /\ ~UpExists(leaf[d].snd)
        kept == IF Kind[d] = WINDOW THEN leaf[d].response.cmd ELSE "null"
        sent == IF leaf[d].snd = NoPipe THEN up
                ELSE SendUp(up, Up(leaf[d].snd), <<leaf[d].response>>)
        succeeds == ~broken /\ leaf[d].snd # NoPipe /\ leaf[d].response.code = "OK"
    IN  /\ Alive(d) /\ leaf[d].pc = "reply"
        /\ LeafSteps(d, [leaf[d] EXCEPT !.pc = "read",
                !.response = [NoResponse EXCEPT !.cmd = kept]])
        /\ IF broken \/ leaf[d].force_exit
           THEN Exits(d, IF succeeds THEN "OK" ELSE "error", sent)
           ELSE up' = sent /\ UNCHANGED <<down, files, exit_code>>
        /\ UNCHANGED fifos

\* SIGTERM.
LeafTerminates(d) == Exits(d, "error", up) /\ UNCHANGED <<leaf, fifos>>

LeafStep(d) ==
    \/ \E m \in First(down[d]) :
          \/ LeafInfo(d, m) \/ LeafSwitch(d, m) \/ LeafRefuses(d, m)
          \/ LeafChangeParent(d, m) \/ LeafBlocks(d, m) \/ LeafDelete(d, m)
          \/ LeafMisrouted(d, m)
    \/ LeafEndOfFile(d)
    \/ LeafReply(d)

=============================================================================
