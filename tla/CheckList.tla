------------------------------ MODULE CheckList ------------------------------
(***************************************************************************)
(* dialog_checklist (support/kconfig/lxdialog/checklist.c): the values of a*)
(* choice, one of them highlighted, in a window of fixed height.  The      *)
(* arrows are drawn when the window is scrolled, not when the highlight    *)
(* moves, although they are computed from it.                              *)
(***************************************************************************)
EXTENDS MenuBox

CONSTANT ListHeight  \* CHECKLIST_HEIGTH_MIN

ASSUME ListAssumption == ListHeight \in Nat \ {0}

VARIABLES
  values,      \* item_count(); 0 while the dialog is not open
  top,         \* scroll of dialog_checklist
  row,         \* its choice
  list,        \* the rows of the window
  list_arrows, \* the arrows above and below it
  redrawn      \* history: it has been resized since it was last scrolled

listvars == <<values, top, row, list, list_arrows, redrawn>>

max_value == MIN(ListHeight, values)
ListArrows(n, t, r) == <<t > 0, ListHeight < n /\ t + r < n - 1>>

ListClosed ==
  /\ values = 0 /\ top = 0 /\ row = 0 /\ list = <<>> /\ list_arrows = <<FALSE, FALSE>> /\ redrawn = FALSE
CloseList ==
  /\ values' = 0 /\ top' = 0 /\ row' = 0 /\ list' = <<>> /\ list_arrows' = <<FALSE, FALSE>> /\ redrawn' = FALSE

(* The window as it is drawn first, with value c highlighted.              *)
OpenList(n, c) ==
  LET t == IF c >= ListHeight THEN (c - ListHeight) + 1 ELSE 0
  IN  /\ values' = n /\ top' = t /\ row' = c - t
      /\ list' = [r \in 0..(ListHeight - 1) |-> IF r < MIN(ListHeight, n) THEN <<t + r, r = c - t>> ELSE Blank]
      /\ list_arrows' = ListArrows(n, t, c - t)
      /\ redrawn' = FALSE

(* At the next size it is drawn again with the row for the value: a row is *)
(* never behind the window, so scroll stays.                               *)
ResizeList ==
  /\ list' = [r \in 0..(ListHeight - 1) |-> IF r < max_value THEN <<top + r, r = row>> ELSE Blank]
  /\ list_arrows' = ListArrows(values, top, row)
  /\ redrawn' = TRUE
  /\ UNCHANGED <<values, top, row>>

(* The highlight moves within the window.                                  *)
Highlight(r) ==
  /\ r \in 0..(max_value - 1)
  /\ row' = r
  /\ list' = print_item(print_item(list, row, top + row, FALSE), r, top + r, TRUE)
  /\ UNCHANGED <<values, top, list_arrows, redrawn>>

(* The window moves by a line; one of a single line is printed over.       *)
Turned(n) == IF ListHeight > 1 THEN wscrl(print_item(list, row, top + row, FALSE), n) ELSE list
ListScroll(n) ==
  /\ top' = top + n
  /\ list' = print_item(Turned(n), row, top + n + row, TRUE)
  /\ list_arrows' = ListArrows(values, top + n, row)
  /\ redrawn' = FALSE
  /\ UNCHANGED <<values, row>>

(* A mutant: the last value is scrolled past.                              *)
ListDownPastEnd ==
  IF row = max_value - 1 THEN top + row <= values - 1 /\ ListScroll(1) ELSE Highlight(row + 1)

ListUp == IF row = 0 THEN top # 0 /\ ListScroll(-1) ELSE Highlight(row - 1)
ListDown ==
  IF row = max_value - 1 THEN top + row < values - 1 /\ ListScroll(1) ELSE Highlight(row + 1)

ListKey == ListUp \/ ListDown \/ (\E r \in 0..(max_value - 1) : r # row /\ Highlight(r))

-----------------------------------------------------------------------------
ListInWindow ==
  /\ top >= 0 /\ top + max_value <= values /\ row \in 0..(max_value - 1)

(* What the window shows is what scroll and choice say, and the arrows tell*)
(* whether there are values above and below it, whatever the highlight did *)
(* since they were drawn.  Only a resize draws the arrow below, computed   *)
(* from the highlight, where the last value is seen already.               *)
ListDrawn ==
  /\ list = [r \in 0..(ListHeight - 1) |-> IF r < max_value THEN <<top + r, r = row>> ELSE Blank]
  /\ list_arrows[1] = (top > 0)
  /\ top + max_value < values => list_arrows[2]
  /\ list_arrows[2] => top + max_value < values \/ redrawn
=============================================================================
