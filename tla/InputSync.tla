----------------------------- MODULE InputSync -----------------------------
(***************************************************************************)
(* The input half of one frame of main_gui_loop (src/bin/mstsc-rs.rs):     *)
(* the mouse button and the keyboard state minifb reports are turned into  *)
(* PointerEvent and KeyboardEvent writes, using last_button and last_keys  *)
(* as the memory of what was sent before.  The server is modelled by the   *)
(* state those events give it: the set of buttons and of scancodes it      *)
(* believes down.                                                          *)
(*                                                                         *)
(* Between two frames the user may press and release any keys and buttons; *)
(* the frame then sees the new state.  Key auto-repeat (a repeated down    *)
(* for a key already down) leaves the server's state as it is and is not  *)
(* modelled.                                                               *)
(***************************************************************************)
EXTENDS FiniteSets, Bitwise, Functions

CONSTANTS
  Keys,         \* minifb keys the user may press
  ScanCode,     \* the to_scancode table restricted to Keys
  ButtonValue   \* the u8 value of each PointerButton (rdp::core::event)

MouseButtons == {"Left", "Middle", "Right"}
Buttons == MouseButtons \cup {"None"}

ASSUME ScanCode \in [Keys -> 0..65535]
ASSUME ButtonValue \in [Buttons -> 0..255]
\* PointerButton::try_from(last | current).unwrap() does not panic.
ASSUME \A a, b \in Buttons : \E c \in Buttons : ButtonValue[c] = (ButtonValue[a] | ButtonValue[b])

VARIABLES
  held,        \* keys the user holds (window.get_keys() at the last frame)
  lastKeys,    \* last_keys
  srvKeys,     \* scancodes the server believes down
  lastButton,  \* last_button
  srvButtons   \* buttons the server believes down

vars == <<held, lastKeys, srvKeys, lastButton, srvButtons>>

\* Fault: the scancode narrowed to its low byte.
to_scancode_low_byte(k) == ScanCode[k] % 256

\* Translate minifb key to scancode.
to_scancode(k) == ScanCode[k]

\* get_rdp_pointer_down: the first of Left, Middle, Right that is down.
get_rdp_pointer_down(pressed) ==
  IF "Left" \in pressed THEN "Left"
  ELSE IF "Middle" \in pressed THEN "Middle"
  ELSE IF "Right" \in pressed THEN "Right"
  ELSE "None"

ButtonOfValue(v) == CHOOSE b \in Buttons : ButtonValue[b] = v

\* The server applies a pointer event: a button with the down flag is
\* pressed, a button without it released, None only moves the pointer.
ApplyPointer(s, button, down) ==
  IF button = "None" THEN s
  ELSE IF down THEN s \cup {button} ELSE s \ {button}

Init ==
  /\ held = {}
  /\ lastKeys = {}
  /\ srvKeys = {}
  /\ lastButton = "None"
  /\ srvButtons = {}

\* The mouse block of the frame: only when get_mouse_pos returns a position.
MouseInput(pressed, hasPos) ==
  LET current == get_rdp_pointer_down(pressed)
      button == IF lastButton = current THEN "None"
                ELSE ButtonOfValue(ButtonValue[lastButton] | ButtonValue[current])
      down == lastButton # current /\ lastButton = "None"
  IN IF hasPos
       THEN /\ srvButtons' = ApplyPointer(srvButtons, button, down)
            /\ lastButton' = current
       ELSE UNCHANGED <<srvButtons, lastButton>>

\* Fault: no releases for the keys of last_keys.
KeyboardInputNoRelease(keys) ==
  IF keys # {}
    THEN /\ srvKeys' = srvKeys \cup {to_scancode(k) : k \in keys \ held}
         /\ lastKeys' = keys
    ELSE UNCHANGED <<srvKeys, lastKeys>>

\* The keyboard block: only when get_keys() is not empty.  Releases for the
\* keys of last_keys no longer down, then a press for every key that
\* is_key_pressed reports, i.e. went down since the previous frame.
KeyboardInput(keys) ==
  IF keys # {}
    THEN /\ srvKeys' = (srvKeys \ {to_scancode(k) : k \in lastKeys \ keys})
                         \cup {to_scancode(k) : k \in keys \ held}
         /\ lastKeys' = keys
    ELSE UNCHANGED <<srvKeys, lastKeys>>

\* One pass of the refresh loop with the input the user gives it.
Frame ==
  \E keys \in SUBSET Keys, pressed \in SUBSET MouseButtons, hasPos \in BOOLEAN :
    /\ MouseInput(pressed, hasPos)
    /\ KeyboardInput(keys)
    /\ held' = keys

Next == Frame

Spec == Init /\ [][Next]_vars

-----------------------------------------------------------------------------
(* Properties.                                                             *)

TypeOK ==
  /\ held \subseteq Keys /\ lastKeys \subseteq Keys
  /\ srvKeys \subseteq Range(ScanCode)
  /\ lastButton \in Buttons
  /\ srvButtons \subseteq MouseButtons

\* The scancodes of the held keys, by the table itself.
HeldCodes == {ScanCode[k] : k \in held}

(* While the user holds at least one key, the server believes exactly the *)
(* held keys down: the releases computed from last_keys and the presses   *)
(* from is_key_pressed keep the two in step across any sequence of frames.*)
KeysSyncedWhileAnyHeld == held # {} => srvKeys = HeldCodes

(* The client forwards local keyboard and pointer input (spec section 1): *)
(* after every frame the server believes down exactly the held keys and   *)
(* the button last_button records.  Two sequences of frames break it: the *)
(* keyboard block is skipped when get_keys() is empty, so releasing the   *)
(* last key sends no release and last_keys keeps it; and going from one   *)
(* button to another between two frames sends one event, for the button   *)
(* whose value is last | current, with down = false.                      *)
ServerInputFollowsLocal ==
  /\ srvKeys = HeldCodes
  /\ srvButtons = {lastButton} \ {"None"}

=============================================================================
