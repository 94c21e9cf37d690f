----------------------------- MODULE MC_Network -----------------------------
EXTENDS Network, TLC

AllBulbs == [d \in Leaves |-> BULB]
AllWindows == [d \in Leaves |-> WINDOW]
BulbsAndWindow == [d \in Leaves |-> IF d = 6 THEN WINDOW ELSE BULB]

Link(d, p) == [dst |-> d, cmd |-> "change_parent", arg |-> p]
Each(cmds, ds) == {[dst |-> d, cmd |-> c, arg |-> CONTROLLER_ID] : d \in ds, c \in cmds}

\* Every device goes anywhere; every device goes to its place below hub 2, as in
\* commands.scenario.
Moves == {Link(d, p) : d \in Devices, p \in Controls} \ {Link(h, h) : h \in Hubs \cup Timers}
Assembly == {Link(1, 2)} \cup {Link(d, 1) : d \in Leaves}

Adds == {AddCommand(d) : d \in ToAdd}

MovesAndInfos == Moves \cup Each({"info"}, Leaves) \cup Adds
Exiting == Assembly \cup Each({"info"}, {2}) \cup Each({"delete"}, {1, 3})
    \cup {ExitCommand, EndOfInput} \cup Adds
ExitingAtRest == Exiting \ {EndOfInput}

\* A hub below a timer, and a leaf below the hub or back; the link of the hub
\* to the timer is not waited for, nor does it wait for the timer to start.
Hasty == {Link(1, 5), Link(3, 1), Link(3, 0)} \cup Adds
Waited == Hasty \ {Link(1, 5)}

\* One timer and its leaf: everything they can be asked.
Set(t) == {[dst |-> t, cmd |-> c, arg |-> m] : c \in Registries, m \in Minutes}
Timed == Moves \cup Each({"info", "power_on", "power_off", "delete"}, Devices) \cup Set(1)

Crashing == Timed \cup {EndOfInput} \cup Adds

\* commands.scenario: the tree with a timer in it is assembled, used, timed and
\* deleted.
Chained == {Link(6, 5), Link(3, 1),  Link(1, 5), Link(4, 2), Link(5, 2)}
    \cup Each({"info", "power_on"}, {2}) \cup Each({"delete"}, {2})
    \cup {[dst |-> 5, cmd |-> "set_begin", arg |-> 1]}

=============================================================================
