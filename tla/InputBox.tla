------------------------------- MODULE InputBox ------------------------------
(***************************************************************************)
(* dialog_inputbox (support/kconfig/lxdialog/inputbox.c): a line that is   *)
(* edited through a box narrower than it may be.  The place in the string  *)
(* is kept twice, as pos and as show_x + input_x, and the cells of the box *)
(* are written only as far as the end of the string and one blank behind.  *)
(* The string is a function from 0; the NUL is where it ends.              *)
(***************************************************************************)
EXTENDS Integers

CONSTANTS
  Chars,     \* what isprint() holds for
  MAX_LEN,
  BoxWidth   \* box_width, 69 in the dialogs of mconf

ASSUME InputAssumption == MAX_LEN \in Nat /\ BoxWidth \in Nat \ {0} /\ -1 \notin Chars

VARIABLES
  instr, len,
  pos,       \* where the next character goes
  show_x,    \* the character in the first cell
  input_x,   \* the cell with the cursor
  button,    \* -1: the box, 0: Ok, 1: Help
  cells      \* what the box shows

inputvars == <<instr, len, pos, show_x, input_x, button, cells>>

Empty == -1
Cell == 0..(BoxWidth - 1)
Blanks == [i \in Cell |-> Empty]

(* The characters up to the end of the string, and a blank.                *)
Redrawn(old, s, n, from) ==
  [i \in Cell |-> IF from + i < n THEN s[from + i] ELSE IF from + i = n THEN Empty ELSE old[i]]

InputClosed ==
  /\ instr = <<>> /\ len = 0 /\ pos = 0 /\ show_x = 0 /\ input_x = 0 /\ button = -1 /\ cells = Blanks
CloseInput ==
  /\ instr' = <<>> /\ len' = 0 /\ pos' = 0 /\ show_x' = 0 /\ input_x' = 0 /\ button' = -1 /\ cells' = Blanks

(* do_resize: the cursor goes behind the string, of which the end is shown.*)
DrawInput(s, n) ==
  /\ instr' = s /\ len' = n /\ pos' = n
  /\ show_x' = IF n >= BoxWidth THEN (n - BoxWidth) + 1 ELSE 0
  /\ input_x' = IF n >= BoxWidth THEN BoxWidth - 1 ELSE n
  /\ cells' = Redrawn(Blanks, s, n, show_x')

OpenInput(s, n) == DrawInput(s, n) /\ button' = -1
ResizeInput == DrawInput(instr, len) /\ UNCHANGED button

KeyBackspace ==
  /\ button = -1 /\ pos > 0
  /\ IF input_x = 0 THEN show_x' = show_x - 1 /\ UNCHANGED input_x
     ELSE input_x' = input_x - 1 /\ UNCHANGED show_x
  /\ instr' = [i \in 0..(len - 2) |-> IF i < pos - 1 THEN instr[i] ELSE instr[i + 1]]
  /\ pos' = pos - 1 /\ len' = len - 1
  /\ cells' = Redrawn(cells, instr', len', show_x')
  /\ UNCHANGED button

KeyLeft ==
  /\ button = -1 /\ pos > 0
  /\ IF input_x > 0 THEN input_x' = input_x - 1 /\ UNCHANGED <<show_x, cells>>
     ELSE show_x' = show_x - 1 /\ cells' = Redrawn(cells, instr, len, show_x - 1) /\ UNCHANGED input_x
  /\ pos' = pos - 1
  /\ UNCHANGED <<instr, len, button>>

(* A mutant: the string is not shown again when the box moves along it.    *)
KeyRightUnshown ==
  /\ button = -1 /\ pos < len
  /\ IF input_x < BoxWidth - 1 THEN input_x' = input_x + 1 /\ UNCHANGED show_x
     ELSE show_x' = show_x + 1 /\ UNCHANGED input_x
  /\ pos' = pos + 1
  /\ UNCHANGED <<instr, len, button, cells>>

KeyRight ==
  /\ button = -1 /\ pos < len
  /\ IF input_x < BoxWidth - 1 THEN input_x' = input_x + 1 /\ UNCHANGED <<show_x, cells>>
     ELSE show_x' = show_x + 1 /\ cells' = Redrawn(cells, instr, len, show_x + 1) /\ UNCHANGED input_x
  /\ pos' = pos + 1
  /\ UNCHANGED <<instr, len, button>>

(* A character goes in at pos, unless the string is full.                  *)
KeyChar(c) ==
  /\ button = -1 /\ len < MAX_LEN
  /\ instr' = [i \in 0..len |-> IF i < pos THEN instr[i] ELSE IF i = pos THEN c ELSE instr[i - 1]]
  /\ pos' = pos + 1 /\ len' = len + 1
  /\ IF input_x = BoxWidth - 1 THEN show_x' = show_x + 1 /\ UNCHANGED input_x
     ELSE input_x' = input_x + 1 /\ UNCHANGED show_x
  /\ cells' = Redrawn(cells, instr', len', show_x')
  /\ UNCHANGED button

(* TAB, UP, DOWN, and LEFT and RIGHT outside the box, go round the box and *)
(* the two buttons.                                                        *)
KeyButton ==
  /\ button' \in {-1, 0, 1} \ {button}
  /\ UNCHANGED <<instr, len, pos, show_x, input_x, cells>>

InputKey == KeyBackspace \/ KeyLeft \/ KeyRight \/ (\E c \in Chars : KeyChar(c)) \/ KeyButton

-----------------------------------------------------------------------------
(* The cursor stands in the box on the character that pos says, the string *)
(* fits the buffer, and the box shows the part of it around the cursor.    *)
InputShown ==
  /\ pos = show_x + input_x
  /\ show_x >= 0 /\ input_x \in Cell /\ pos <= len /\ len <= MAX_LEN
  /\ cells = [i \in Cell |-> IF show_x + i < len THEN instr[show_x + i] ELSE Empty]
=============================================================================
