------------------------------ MODULE Keyboard ------------------------------
(***************************************************************************)
(* The on-screen keyboard of simple-terminal (src/keyboard.c), for the     *)
(* boards that build with SDL12COMPAT.  handle_keyboard_event turns button *)
(* events of the gamepad into a selection moved over the keys, into        *)
(* toggled modifiers, and into synthetic key events that go through SDL's  *)
(* queue and come back to the same function before the terminal sees them. *)
(*                                                                         *)
(* The layout is a parameter: NumRows rows of RowLength keys, what a key   *)
(* sends (Key) and how wide its label is.                                  *)
(***************************************************************************)
EXTENDS Integers, Sequences, FiniteSets

CONSTANTS
  NumRows, RowLength, Width,  \* the layout
  Key,                        \* keys[shifted][j][i]
  LShiftAt, RShiftAt,         \* where the code expects the two shift keys
  Letters, Upper,             \* keys SDLK_a..SDLK_z and their capitals
  CtrlChars,                  \* keys that CTRL turns into a control character
  Buttons,                    \* gamepad buttons that are pressed
  Togglable,                  \* positions R1 is pressed on
  HoldMax,                    \* bound on buttons held down at once
  SynthMax                    \* bound on synthetic events not yet handled

KeyRows == 0..(NumRows - 1)
Positions == UNION {{j} \X (0..(RowLength[j] - 1)) : j \in KeyRows}

(* Every row has a key, and the last one is no longer than the first: the  *)
(* wrap of KEY_DOWN keeps selected_i as it is.                             *)
ASSUME LayoutAssumption ==
  /\ NumRows \in Nat \ {0}
  /\ RowLength \in [KeyRows -> Nat \ {0}]
  /\ RowLength[NumRows - 1] <= RowLength[0]

ShiftKeys == {"LSHIFT", "RSHIFT"}
CtrlKeys == {"LCTRL", "RCTRL"}

(* The keys update_modstate knows (no super keys).                         *)
ModKeys == ShiftKeys \cup CtrlKeys \cup {"LALT", "RALT", "CAPSLOCK"}

(* Modifier keys stay in place when the labels are shifted, and appear     *)
(* once; the shift keys are where handle_keyboard_event looks for them.    *)
ASSUME ModifierAssumption ==
  /\ LShiftAt \in Positions /\ RShiftAt \in Positions
  /\ \A s \in {0, 1}, p \in Positions :
       /\ Key[s][p] = "LSHIFT" <=> p = LShiftAt
       /\ Key[s][p] = "RSHIFT" <=> p = RShiftAt
       /\ Key[s][p] \in ModKeys => Key[1 - s][p] = Key[s][p]
  /\ \A s \in {0, 1}, p, q \in Positions :
       Key[s][p] \in ModKeys /\ Key[s][p] = Key[s][q] => p = q

VARIABLES
  at,        \* <<selected_j, selected_i>>
  offset,    \* visual_offset
  toggled,   \* positions with toggled[j][i] set
  shifted,   \* 0 or 1
  location,  \* 0: bottom of the screen, 1: top
  mods,      \* mod_state, as the keys that set its bits
  active, help,
  synth,     \* synthetic events in SDL's queue
  held,      \* buttons held down
  running    \* run() has not been told to quit

vars == <<at, offset, toggled, shifted, location, mods, active, help, synth,
          held, running>>

-----------------------------------------------------------------------------
(* Columns.                                                                *)

(* compute_visual_offset: the middle of a label, in characters.            *)
LeftEdge(j) ==
  LET f[i \in 0..RowLength[j]] == IF i = 0 THEN 0 ELSE f[i - 1] + 1 + Width[<<j, i - 1>>]
  IN f
Middle(p) == LeftEdge(p[1])[p[2]] + (1 + Width[p]) \div 2

(* compute_new_col: the first key whose middle is not left of the offset,  *)
(* or the last key.                                                        *)
IsNewCol(i, j) ==
  /\ i \in 0..(RowLength[j] - 1)
  /\ i = RowLength[j] - 1 \/ Middle(<<j, i>>) >= offset
  /\ \A k \in 0..(i - 1) : Middle(<<j, k>>) < offset

-----------------------------------------------------------------------------
Init ==
  /\ at = <<0, 0>> /\ offset = 0 /\ toggled = {} /\ shifted = 0 /\ location = 0
  /\ mods = {} /\ synth = <<>> /\ held = {} /\ running = TRUE
  /\ active \in BOOLEAN /\ help \in BOOLEAN    \* the command line's choice
  /\ help => active

(* simulate_key pushes a press (and a release if the key is TYPED).        *)
Press(k) == [key |-> k, down |-> TRUE]
Lift(k) == [key |-> k, down |-> FALSE]
Typed(k) == <<Press(k), Lift(k)>>
Simulate(events) ==
  /\ Len(synth) + Len(events) <= SynthMax
  /\ synth' = synth \o events

Pressed(b) ==
  /\ running /\ b \in Buttons \ held
  /\ Cardinality(held) < HoldMax
  /\ held' = held \cup {b}

(* A press of button b that gets as far as the keyboard.                   *)
OnKeyboard(b) ==
  /\ Pressed(b) /\ active /\ ~help
  /\ UNCHANGED <<active, help>>

MoveTo(p) ==
  /\ at' = p
  /\ UNCHANGED <<toggled, shifted, location, mods, synth, running>>

UpWrapsUnclamped ==
  /\ OnKeyboard("UP")
  /\ IF at[1] > 0
     THEN \E i \in 0..(RowLength[at[1] - 1] - 1) :
            IsNewCol(i, at[1] - 1) /\ MoveTo(<<at[1] - 1, i>>)
     ELSE MoveTo(<<NumRows - 1, at[2]>>)
  /\ UNCHANGED offset

Up ==
  /\ OnKeyboard("UP")
  /\ IF at[1] > 0
     THEN \E i \in 0..(RowLength[at[1] - 1] - 1) :
            IsNewCol(i, at[1] - 1) /\ MoveTo(<<at[1] - 1, i>>)
     ELSE LET last == RowLength[NumRows - 1] - 1
          IN MoveTo(<<NumRows - 1, IF at[2] > last THEN last ELSE at[2]>>)
  /\ UNCHANGED offset

Down ==
  /\ OnKeyboard("DOWN")
  /\ IF at[1] < NumRows - 1
     THEN \E i \in 0..(RowLength[at[1] + 1] - 1) :
            IsNewCol(i, at[1] + 1) /\ MoveTo(<<at[1] + 1, i>>)
     ELSE MoveTo(<<0, at[2]>>)
  /\ UNCHANGED offset

Left ==
  LET p == <<at[1], IF at[2] > 0 THEN at[2] - 1 ELSE RowLength[at[1]] - 1>>
  IN OnKeyboard("LEFT") /\ MoveTo(p) /\ offset' = Middle(p)

Right ==
  LET p == <<at[1], IF at[2] < RowLength[at[1]] - 1 THEN at[2] + 1 ELSE 0>>
  IN OnKeyboard("RIGHT") /\ MoveTo(p) /\ offset' = Middle(p)

(* L1 is LSHIFT for as long as it is held.                                 *)
ShiftDown ==
  /\ OnKeyboard("L1")
  /\ shifted' = 1
  /\ toggled' = toggled \cup {LShiftAt}
  /\ mods' = mods \cup {"LSHIFT"}
  /\ UNCHANGED <<at, offset, location, synth, running>>

Locate ==
  /\ OnKeyboard("Y")
  /\ location' = 1 - location
  /\ UNCHANGED <<at, offset, toggled, shifted, mods, synth, running>>

(* Buttons that stand for one key.                                         *)
Shortcut == [B |-> "BACKSPACE", SELECT |-> "TAB", START |-> "RETURN",
             L2 |-> "Left", R2 |-> "Right", PLUS |-> "Up", MINUS |-> "Down"]
TypeShortcut(b) ==
  /\ b \in DOMAIN Shortcut
  /\ OnKeyboard(b)
  /\ Simulate(Typed(Shortcut[b]))
  /\ UNCHANGED <<at, offset, toggled, shifted, location, mods, running>>

(* R1 holds or lets go the selected key; a shift key also changes which    *)
(* labels are shown.                                                       *)
Toggle ==
  LET k == Key[shifted][at]
      on == at \notin toggled
  IN /\ OnKeyboard("R1") /\ at \in Togglable
     /\ toggled' = IF on THEN toggled \cup {at} ELSE toggled \ {at}
     /\ mods' = IF on THEN mods \cup (ModKeys \cap {k}) ELSE mods \ {k}
     /\ Simulate(<<IF on THEN Press(k) ELSE Lift(k)>>)
     /\ shifted' = IF at \notin {LShiftAt, RShiftAt} THEN shifted
                   ELSE IF on THEN 1 ELSE 0
     /\ UNCHANGED <<at, offset, location, running>>

(* A types the selected key: a control character (pressed only) under      *)
(* CTRL, a capital under SHIFT, else whatever the key table says.          *)
Output(k) ==
  IF mods \cap CtrlKeys # {} THEN IF k \in CtrlChars THEN <<Press(<<"^", k>>)>> ELSE <<>>
  ELSE IF mods \cap ShiftKeys # {} /\ k \in Letters THEN Typed(Upper[k])
  ELSE Typed(k)

Enter ==
  /\ OnKeyboard("A")
  /\ Simulate(Output(Key[shifted][at]))
  /\ UNCHANGED <<at, offset, toggled, shifted, location, mods, running>>

Quit ==
  /\ Pressed("MENU")
  /\ ~active \/ ~help
  /\ running' = FALSE
  /\ UNCHANGED <<at, offset, toggled, shifted, location, mods, active, help, synth>>

(* X shows or hides the keyboard, even under the help screen.              *)
Activate ==
  /\ Pressed("X")
  /\ active' = ~active
  /\ UNCHANGED <<at, offset, toggled, shifted, location, mods, help, synth, running>>

(* The keyboard is hidden, or the help covers it: nothing but START (RETURN*)
(* for the shell, when hidden), MENU and X do anything.                    *)
PressIgnored(b) ==
  /\ Pressed(b)
  /\ b # "X" /\ IF active THEN help ELSE b # "MENU"
  /\ IF b = "START" /\ ~active THEN Simulate(Typed("RETURN")) ELSE UNCHANGED synth
  /\ UNCHANGED <<at, offset, toggled, shifted, location, mods, active, help, running>>

ReleaseKeepsToggle(b) ==
  /\ running /\ b \in held /\ held' = held \ {b}
  /\ help' = IF active /\ help THEN b = "A" ELSE help
  /\ IF active /\ ~help /\ b = "L1"
     THEN shifted' = 0 /\ mods' = mods \ {"LSHIFT"}
     ELSE UNCHANGED <<shifted, mods>>
  /\ UNCHANGED <<at, offset, toggled, location, active, synth, running>>

(* A released button closes the help (A does not: it may have opened it),  *)
(* and L1 ends the shift, unless the keyboard is hidden just then.         *)
Release(b) ==
  /\ running /\ b \in held /\ held' = held \ {b}
  /\ help' = IF active /\ help THEN b = "A" ELSE help
  /\ IF active /\ ~help /\ b = "L1"
     THEN shifted' = 0 /\ toggled' = toggled \ {LShiftAt} /\ mods' = mods \ {"LSHIFT"}
     ELSE UNCHANGED <<shifted, toggled, mods>>
  /\ UNCHANGED <<at, offset, location, active, synth, running>>

(* A synthetic event comes back: PrintScreen opens the help, the rest is   *)
(* for kpress.                                                             *)
Handle ==
  /\ running /\ synth # <<>>
  /\ synth' = Tail(synth)
  /\ help' = (help \/ Head(synth) = Press("PRINTSCREEN"))
  /\ UNCHANGED <<at, offset, toggled, shifted, location, mods, active, held, running>>

Next ==
  \/ Up \/ Down \/ Left \/ Right
  \/ ShiftDown \/ Locate \/ Toggle \/ Enter
  \/ Quit \/ Activate \/ Handle
  \/ \E b \in Buttons : TypeShortcut(b) \/ PressIgnored(b) \/ Release(b)

Spec == Init /\ [][Next]_vars

-----------------------------------------------------------------------------
(* Properties.                                                             *)

(* Type correctness.  The column that up and down aim for is the middle of *)
(* some key, and only keys are toggled.                                    *)
KeyboardTypeOK ==
  /\ offset \in {0} \cup {Middle(p) : p \in Positions} /\ toggled \subseteq Positions
  /\ shifted \in {0, 1} /\ location \in {0, 1} /\ mods \subseteq ModKeys
  /\ active \in BOOLEAN /\ help \in BOOLEAN /\ running \in BOOLEAN
  /\ held \subseteq Buttons

(* The selection is always on a key: keys, syms and toggled are indexed by *)
(* it unchecked, and a row has fewer keys than the arrays have columns.    *)
SelectionOnKeyboard == at \in Positions

(* mod_state, which decides what is typed and is handed to SDL, and the    *)
(* toggled flags, which decide what is drawn, are kept by different code   *)
(* (update_modstate and the handlers): they agree on every modifier.       *)
ModsMirrorToggles ==
  \A p \in Positions :
    Key[0][p] \in ModKeys => (p \in toggled <=> Key[0][p] \in mods)

(* Shifted labels are shown only while a shift modifier is on, whatever    *)
(* mix of L1 and toggling led there.                                       *)
ShiftedHasShift == shifted = 1 => mods \cap ShiftKeys # {}
=============================================================================
