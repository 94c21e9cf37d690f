------------------------------ MODULE Devices ------------------------------
(***************************************************************************)
(* Device types (src/code/src/headers/devices.h) and the messages the      *)
(* devices exchange (headers/messages.h, messages.c).                      *)
(*                                                                         *)
(* A type is the number the code puts in a device_type_t: the bits 0b1100  *)
(* say leaf, hub or timer, the bits 0b0011 the kind of leaf, which for a   *)
(* hub or a timer is the kind of its children, 0 when it has none.         *)
(*                                                                         *)
(* A request is [dst, cmd, arg], a response [src, cmd, code, args].  The    *)
(* times an info carries are left out of its arguments; the text of a      *)
(* message is modelled by what a reader can parse back from it.            *)
(***************************************************************************)
EXTENDS Integers, Sequences

BULB == 1
WINDOW == 2
FRIDGE == 3
HUB_DEVICE == 8
TIMER_DEVICE == 12

DeviceTypes == {BULB, WINDOW, FRIDGE} \cup (HUB_DEVICE .. HUB_DEVICE + 3)
                   \cup (TIMER_DEVICE .. TIMER_DEVICE + 3)

ChildType(t) == t % 4
IsLeaf(t) == (t \div 8) % 2 = 0
IsHub(t) == t \div 4 = 2
IsTimer(t) == t \div 4 = 3
IsEmpty(t) == ChildType(t) = 0

\* HUB_DEVICE | t, of a type t: a timer's control bits survive the OR.
HubOr(t) == IF IsLeaf(t) THEN HUB_DEVICE + t ELSE t

\* (t & CONTROL_DEVICE_MASK) | c
WithChildType(t, c) == 4 * (t \div 4) + c

-----------------------------------------------------------------------------
CONTROLLER_ID == 0

STATE_OFF == 0          \* or STATE_CLOSED
STATE_ON == 1           \* or STATE_OPEN
STATE_MANUAL_OVERRIDE == 2
UNDEFINED_STATE == 3

CHILD_ERROR == 43

PowerSwitches == {"power_on", "power_off"}
DoorSwitches == {"open_on", "open_off", "close_on", "close_off"}
Switches == PowerSwitches \cup DoorSwitches
Links == {"change_parent", "remove_child"}
Registries == {"set_begin", "set_end"}

\* What a command of the controller can be to a bulb, a window, a hub or a timer.
Commands == {"info", "delete"} \cup Switches \cup Links \cup Registries

\* The bits of a command code that are left by COMMAND_MASK.
Masked(cmd) ==
    CASE cmd \in Switches -> "switch"
      [] cmd \in Links -> "link"
      [] cmd \in Registries -> "registry"
      [] OTHER -> cmd

\* Does the label of the switch fit a device of this type or children type?
Fits(cmd, t) ==
    \/ cmd \in PowerSwitches /\ ChildType(t) = BULB
    \/ cmd \in DoorSwitches /\ ChildType(t) \in {WINDOW, FRIDGE}

ErrorCodes == {"OK", "DESTINATION_ID_MISMATCH", "UNEXPECTED_COMMAND",
    "ROUTE_NOT_FOUND", "CHILD_NOT_FOUND", "RESPONSE_FORMAT_ERROR",
    "UNABLE_TO_OPEN_PIPE", "UNABLE_TO_CLOSE_PIPE", "UNABLE_TO_WRITE_PIPE",
    "DEVICE_NOT_FOUND", "INVALID_REQUEST_ARGUMENT", "UNEXPECTED_END_OF_FILE"}

\* parse_response accepts what format_response wrote, except a LINK or REGISTRY
\* response with no argument: it is not optional even when it is an error.
Parses(r) == r.cmd \in Links \cup Registries => r.args # <<>>

Response(src, cmd, code, args) == [src |-> src, cmd |-> cmd, code |-> code, args |-> args]

=============================================================================
