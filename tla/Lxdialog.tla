------------------------------ MODULE Lxdialog -------------------------------
(***************************************************************************)
(* The dialogs of support/kconfig/lxdialog as mconf.c opens them: one at a *)
(* time, each drawn anew whenever the terminal is resized.  Between two    *)
(* dialogs mconf builds its list of items anew, so that a menu may come    *)
(* back with other items than it was left with; what mconf does with the   *)
(* answers is in module Menuconfig.                                        *)
(***************************************************************************)
EXTENDS CheckList, InputBox, TextBox

CONSTANTS
  Sizes,    \* lines the terminal may have
  MaxItems, \* bound on the items of a list
  MaxInit,  \* bound on the length of the string that is edited first
  MaxLast   \* bound on the newlines of a text

ASSUME DialogAssumption ==
  /\ Sizes \subseteq Nat /\ MaxItems \in Nat /\ MaxLast \in Nat
  /\ MaxInit \in Nat /\ MaxInit <= MAX_LEN

VARIABLES
  lines,  \* getmaxy(stdscr)
  open,   \* the dialog that waits for a key
  given   \* initial_height of the text box; 0: as high as the terminal allows

NoMenu == UNCHANGED menuvars
NoList == UNCHANGED listvars
NoInput == UNCHANGED inputvars
NoText == UNCHANGED <<textvars, given>>
vars == <<lines, open, given, menuvars, listvars, inputvars, textvars>>

(* The rows that are left for the items and for the text.                  *)
MenuRows(l) == l - 14
TextRows(l, g) == (IF g # 0 THEN g ELSE l - 4) - 4

(* The least number of lines: MENUBOX_HEIGTH_MIN, height +                 *)
(* CHECKLIST_HEIGTH_MIN, height - INPUTBOX_HEIGTH_MIN and                  *)
(* TEXTBOX_HEIGTH_MIN, with the heights mconf gives.  A text box without a *)
(* row for its text is left out.                                           *)
Fits(dialog, l, g) ==
  /\ dialog = "menu"  => l >= 15
  /\ dialog = "list"  => l >= 15 + ListHeight
  /\ dialog = "input" => l > 8
  /\ dialog = "text"  => l >= 8 /\ TextRows(l, g) >= 1

Init ==
  /\ lines \in Sizes /\ open = "mconf" /\ given = 0
  /\ MenuClosed /\ ListClosed /\ InputClosed /\ TextClosed

OpenAny(dialog) == open = "mconf" /\ open' = dialog /\ UNCHANGED lines

conf ==
  /\ OpenAny("menu") /\ Fits("menu", lines, 0)
  /\ \E n \in 0..MaxItems : \E sel \in -1..(n - 1), s \in 0..MaxItems : OpenMenu(n, sel, s, MenuRows(lines))
  /\ NoList /\ NoInput /\ NoText

conf_choice ==
  /\ OpenAny("list") /\ Fits("list", lines, 0)
  /\ \E n \in 1..MaxItems : \E c \in 0..(n - 1) : OpenList(n, c)
  /\ NoMenu /\ NoInput /\ NoText

conf_string ==
  /\ OpenAny("input") /\ Fits("input", lines, 0)
  /\ \E n \in 0..MaxInit : \E s \in [0..(n - 1) -> Chars] : OpenInput(s, n)
  /\ NoMenu /\ NoList /\ NoText

show_textbox_ext ==
  /\ OpenAny("text") /\ given' \in {0, 5, 6} /\ Fits("text", lines, given')
  /\ \E l \in 0..MaxLast, u \in BOOLEAN, j \in BOOLEAN : \E v \in 0..l :
       /\ v > 0 => j
       /\ OpenText([last |-> l, unended |-> u], j, TextRows(lines, given'), v)
  /\ NoMenu /\ NoList /\ NoInput

(* A key that the dialog takes.                                            *)
Key ==
  /\ \/ open = "menu" /\ MenuKey /\ NoList /\ NoInput /\ NoText
     \/ open = "list" /\ ListKey /\ NoMenu /\ NoInput /\ NoText
     \/ open = "input" /\ InputKey /\ NoMenu /\ NoList /\ NoText
     \/ open = "text" /\ TextKey /\ given' = given /\ NoMenu /\ NoList /\ NoInput
  /\ UNCHANGED <<lines, open>>

Close == CloseMenu /\ CloseList /\ CloseInput /\ CloseText /\ given' = 0

(* Enter, ESC and the keys that answer.                                    *)
Leave == open \in {"menu", "list", "input", "text"} /\ open' = "mconf" /\ Close /\ UNCHANGED lines

(* KEY_RESIZE.                                                             *)
Resize ==
  /\ lines' \in Sizes /\ open' = open
  /\ Fits(open, lines', given)
  /\ \/ open = "menu" /\ ResizeMenu(MenuRows(lines')) /\ NoList /\ NoInput /\ NoText
     \/ open = "list" /\ ResizeList /\ NoMenu /\ NoInput /\ NoText
     \/ open = "input" /\ ResizeInput /\ NoMenu /\ NoList /\ NoText
     \/ open = "text" /\ ResizeText(TextRows(lines', given)) /\ given' = given /\ NoMenu /\ NoList /\ NoInput

(* A menu whose items are printed past the end of the list dereferences    *)
(* NULL.                                                                   *)
ResizeCrashes ==
  /\ open = "menu" /\ lines' \in Sizes /\ Fits(open, lines', 0) /\ PrintsPastEnd(MenuRows(lines'))
  /\ open' = "undefined" /\ Close

(* A dialog for which the terminal is too small returns an error, and mconf*)
(* goes on; but conf_string opens the input box again, for ever.           *)
TooSmall ==
  /\ open \in {"menu", "list", "input", "text"} /\ lines' \in Sizes /\ ~Fits(open, lines', given)
  /\ open' \in IF open = "input" THEN {"again", "mconf"} ELSE {"mconf"}
  /\ Close

Next ==
  \/ conf \/ conf_choice \/ conf_string \/ show_textbox_ext
  \/ Key \/ Leave \/ Resize \/ ResizeCrashes \/ TooSmall

Spec == Init /\ [][Next]_vars

-----------------------------------------------------------------------------
(* What is promised.                                                       *)

(* Whatever keys move the highlight through a menu or the values of a      *)
(* choice, and however the window is scrolled row by row: the highlighted  *)
(* item is in the window and is the one Enter takes, the other rows show   *)
(* their items, and the arrows tell whether there are more.                *)
HighlightShown ==
  /\ open = "menu" => MenuInWindow /\ (misdrawn \/ MenuDrawn)
  /\ open = "list" => ListInWindow /\ ListDrawn

(* The string typed is the string shown, and stays within its buffer.      *)
TextEdited == open = "input" => InputShown

(* However the text is paged, scrolled and resized, the place in it is not *)
(* lost.                                                                   *)
PageKept == open = "text" => PageRemembered
=============================================================================
