------------------------------- MODULE MenuBox -------------------------------
(***************************************************************************)
(* dialog_menu (support/kconfig/lxdialog/menubox.c): a list of items of    *)
(* which a window shows some, one of them highlighted.  The window is      *)
(* drawn once and then changed key by key: scrolled, and single rows       *)
(* printed again.  A row holds <<item, whether it is highlighted>>.        *)
(***************************************************************************)
EXTENDS Integers

VARIABLES
  count,       \* item_count()
  selected,    \* the item with the data asked for; -1: there is none
  s_scroll,    \* *s_scroll as it was when dialog_menu was called
  menu_height, \* rows of the window
  first_item,
  scroll,      \* the item in the first row
  choice,      \* the row that is highlighted
  menu,        \* the rows of the window
  menu_arrows, \* whether there are arrows (-) above and (+) below it
  misdrawn     \* history: the window was last drawn from another item than scroll

menuvars == <<count, selected, s_scroll, menu_height, first_item, scroll, choice,
              menu, menu_arrows, misdrawn>>

MIN(x, y) == IF x < y THEN x ELSE y
MAX(x, y) == IF x > y THEN x ELSE y

max_choice == MIN(menu_height, count)

Blank == <<-1, FALSE>>
print_item(win, row, item, highlighted) == [win EXCEPT ![row] = <<item, highlighted>>]
wscrl(win, n) == [r \in DOMAIN win |-> IF r + n \in DOMAIN win THEN win[r + n] ELSE Blank]
print_arrows(item_no, top, height) == <<top > 0, height < item_no /\ top + height < item_no>>

MenuClosed ==
  /\ count = 0 /\ selected = -1 /\ s_scroll = 0 /\ menu_height = 0 /\ first_item = 0
  /\ scroll = 0 /\ choice = 0 /\ menu = <<>> /\ menu_arrows = <<FALSE, FALSE>> /\ misdrawn = FALSE
CloseMenu ==
  /\ count' = 0 /\ selected' = -1 /\ s_scroll' = 0 /\ menu_height' = 0 /\ first_item' = 0
  /\ scroll' = 0 /\ choice' = 0 /\ menu' = <<>> /\ menu_arrows' = <<FALSE, FALSE>> /\ misdrawn' = FALSE

(* Where the highlight c and the window go when the box is drawn: where    *)
(* they were when the menu was left, if that still fits; otherwise to the  *)
(* start of the list, or around c if it is not seen there.                 *)
Saved(n, m, s, c) == s <= c /\ s + m > c /\ s >= 0 /\ s + m <= n
Centred(n, m, c) == IF c >= n - (m \div 2) THEN n - m ELSE c - (m \div 2)
ScrollFor(n, m, s, c) == IF Saved(n, m, s, c) THEN s ELSE IF c >= m THEN Centred(n, m, c) ELSE 0

(* first_item is only set where the window does not start at item 0.       *)
FirstFor(n, m, s, c, first) ==
  IF Saved(n, m, s, c) THEN s ELSE IF c >= m THEN Centred(n, m, c) ELSE first

(* do_resize, with h rows for the items; there must be one.                *)
DrawMenu(n, sel, s, h, c, first) ==
  LET m   == MIN(h, n)
      top == ScrollFor(n, m, s, c)
      f   == FirstFor(n, m, s, c, first)
  IN  /\ h >= 1
      /\ count' = n /\ selected' = sel /\ s_scroll' = s /\ menu_height' = h
      /\ first_item' = f /\ scroll' = top /\ choice' = c - top
      /\ menu' = [r \in 0..(h - 1) |-> IF r < m THEN <<f + r, r = c - top>> ELSE Blank]
      /\ menu_arrows' = print_arrows(n, top, h)
      /\ misdrawn' = (f # top)

OpenMenu(n, sel, s, h) == DrawMenu(n, sel, s, h, IF sel >= 0 THEN sel ELSE 0, 0)

(* Drawn anew at the next size: the highlight goes back to the item asked  *)
(* for; without one the row becomes the item.  Items behind the last one   *)
(* cannot be printed.                                                      *)
AskedFor == IF selected >= 0 THEN selected ELSE choice
PrintsPastEnd(h) ==
  LET m == MIN(h, count) IN FirstFor(count, m, s_scroll, AskedFor, first_item) + m > count
ResizeMenu(h) == ~PrintsPastEnd(h) /\ DrawMenu(count, selected, s_scroll, h, AskedFor, first_item)

(* A key that moves the highlight: it is taken off its row, the window may *)
(* be scrolled, and it is put on the new row.                              *)
Unlit == print_item(menu, choice, scroll + choice, FALSE)
Move(win, top, row) ==
  /\ scroll' = top /\ choice' = row
  /\ menu' = print_item(win, row, top + row, TRUE)
  /\ menu_arrows' = print_arrows(count, top, menu_height)
  /\ UNCHANGED <<count, selected, s_scroll, menu_height, first_item, misdrawn>>

KeyUp ==
  /\ count # 0
  /\ IF choice < 2 /\ scroll # 0
     THEN Move(print_item(wscrl(Unlit, -1), 0, scroll - 1, FALSE), scroll - 1, choice)
     ELSE Move(Unlit, scroll, MAX(choice - 1, 0))

KeyDown ==
  /\ count # 0
  /\ IF choice > max_choice - 3 /\ scroll + max_choice < count
     THEN Move(print_item(wscrl(Unlit, 1), max_choice - 1, scroll + max_choice, FALSE), scroll + 1, choice)
     ELSE Move(Unlit, scroll, MIN(choice + 1, max_choice - 1))

(* max_choice times a line is scrolled and printed as long as there is     *)
(* one; the other times the highlight moves.                               *)
KeyPageUp ==
  LET n == MIN(max_choice, scroll)
      w == wscrl(Unlit, -n)
  IN  /\ count # 0
      /\ Move([r \in DOMAIN w |-> IF r < n THEN <<scroll - n + r, FALSE>> ELSE w[r]],
              scroll - n, MAX(choice - (max_choice - n), 0))

KeyPageDown ==
  LET n == MIN(max_choice, count - (scroll + max_choice))
      w == wscrl(Unlit, n)
  IN  /\ count # 0
      /\ Move([r \in DOMAIN w |-> IF r >= max_choice - n /\ r < max_choice THEN <<scroll + n + r, FALSE>> ELSE w[r]],
              scroll + n, MIN(choice + (max_choice - n), max_choice - 1))

(* A letter goes to the next item that begins with it.                     *)
HotKey(row) == count # 0 /\ row \in 0..(max_choice - 1) /\ Move(Unlit, scroll, row)

MenuKey == KeyUp \/ KeyDown \/ KeyPageUp \/ KeyPageDown \/ \E row \in 0..(max_choice - 1) : HotKey(row)

-----------------------------------------------------------------------------
(* The highlighted item is one of the list and in the window, which is     *)
(* full if there are enough items.                                         *)
MenuInWindow ==
  /\ scroll >= 0 /\ scroll + max_choice <= count
  /\ choice >= 0 /\ (choice < max_choice \/ (count = 0 /\ choice = 0))

(* What the window shows is what scroll and choice say: every row its      *)
(* item, the arrows whether there is more, and the highlight is on the item*)
(* that Enter takes.                                                       *)
MenuDrawn ==
  /\ menu = [r \in 0..(menu_height - 1) |-> IF r < max_choice THEN <<scroll + r, r = choice>> ELSE Blank]
  /\ menu_arrows = <<scroll > 0, scroll + max_choice < count>>
=============================================================================
