------------------------------- MODULE TextBox -------------------------------
(***************************************************************************)
(* dialog_textbox (support/kconfig/lxdialog/textbox.c): a text of which a  *)
(* page is shown.  All that is kept of it is the pointer `page' behind what*)
(* was printed last, two flags and the number of lines printed; every key  *)
(* goes back from there.                                                   *)
(*                                                                         *)
(* A place in the text is the start of a line, numbered from 0, or the NUL.*)
(* The lines 0..last are separated by newlines; what is behind the last of *)
(* them may be nothing, and then the NUL is the start of line `last'.      *)
(***************************************************************************)
EXTENDS Integers

VARIABLES
  last,          \* the number of newlines in buf
  unended,       \* there is something behind the last one
  jumps,         \* update_text is given: the page is looked through first
  boxh,          \* rows of the box
  page,
  begin_reached,
  end_reached,
  page_length,
  first          \* history: the line printed in the first row

textvars == <<last, unended, jumps, boxh, page, begin_reached, end_reached, page_length, first>>

Less(x, y) == IF x < y THEN x ELSE y
More(x, y) == IF x > y THEN x ELSE y

TextClosed ==
  /\ last = 0 /\ unended = FALSE /\ jumps = FALSE /\ boxh = 0 /\ page = 0 /\ page_length = 0
  /\ begin_reached = FALSE /\ end_reached = FALSE /\ first = 0
CloseText ==
  /\ last' = 0 /\ unended' = FALSE /\ jumps' = FALSE /\ boxh' = 0 /\ page' = 0 /\ page_length' = 0
  /\ begin_reached' = FALSE /\ end_reached' = FALSE /\ first' = 0

(* Texts, and pointers into them with their flags.                         *)
Text == [last |-> last, unended |-> unended]
At(p, begin, end) == [page |-> p, begin |-> begin, end |-> end]
Pointer == At(page, begin_reached, end_reached)
NUL(t) == IF t.unended THEN t.last + 1 ELSE t.last

(* A mutant: a line is gone back from the NUL as from anywhere.            *)
BackFromEnd(t, p, n) == At(IF n > 0 THEN More(p.page - n, 0) ELSE p.page, n > 0 /\ p.page <= n, p.end)

(* n lines back.  At the NUL the first of them only takes end_reached down.*)
back_lines(t, p, n) ==
  LET down == n > 0 /\ p.page = NUL(t) /\ p.end
      k    == IF down THEN n - 1 ELSE n
  IN  At(IF k > 0 THEN More(p.page - k, 0) ELSE p.page, k > 0 /\ p.page <= k, p.end /\ ~down)

(* get_line n times; the line behind the last newline ends at the NUL.     *)
get_lines(t, p, n) ==
  IF n <= 0 THEN p
  ELSE At(IF p.page + n <= t.last THEN p.page + n ELSE NUL(t), p.begin, p.page + n > t.last)

(* print_page from p, in h rows: the line behind the text counts as one.   *)
print_page(t, j, h, p) ==
  LET from == IF j THEN back_lines(t, get_lines(t, p, h), h) ELSE p
      to   == get_lines(t, from, h)
  IN  /\ page' = to.page /\ begin_reached' = to.begin /\ end_reached' = to.end
      /\ page_length' = Less(h, More((t.last + 1) - from.page, 1))
      /\ first' = from.page
      /\ last' = t.last /\ unended' = t.unended /\ jumps' = j /\ boxh' = h
refresh_text_box(p) == print_page(Text, jumps, boxh, p)

(* dialog_textbox scrolled down by v lines, as it was left.                *)
OpenText(t, j, h, v) == print_page(t, j, h, get_lines(t, At(0, v = 0, FALSE), v))

FirstPage == ~begin_reached /\ refresh_text_box(At(0, TRUE, end_reached))
LastPage == refresh_text_box(back_lines(Text, At(NUL(Text), begin_reached, TRUE), boxh))
PreviousLine == ~begin_reached /\ refresh_text_box(back_lines(Text, Pointer, page_length + 1))
PreviousPage == ~begin_reached /\ refresh_text_box(back_lines(Text, Pointer, page_length + boxh))
NextLine == ~end_reached /\ refresh_text_box(back_lines(Text, Pointer, page_length - 1))
NextPage == ~end_reached /\ refresh_text_box(At(page, FALSE, end_reached))

(* Printed again after scrolling to the left or right.                     *)
Sideways == refresh_text_box(back_lines(Text, Pointer, page_length))

(* A resize goes back by the height of the whole dialog, four rows more    *)
(* than the box has.                                                       *)
ResizeText(h) == print_page(Text, jumps, h, back_lines(Text, Pointer, boxh + 4))

TextKey ==
  FirstPage \/ LastPage \/ PreviousLine \/ PreviousPage \/ NextLine \/ NextPage \/ Sideways

(* What _vscroll is set to in the end: the newlines before the page.       *)
Vscroll == Less(back_lines(Text, Pointer, page_length).page, last)

-----------------------------------------------------------------------------
(* From what is kept the line in the first row is found again when the text*)
(* is reopened, and the flags say whether the first and the last line are  *)
(* seen.  Not so of a text that does not end with a newline when its end is*)
(* seen: one line less is gone back.                                       *)
PageRemembered ==
  /\ page \in 0..NUL(Text)
  /\ end_reached <=> first + boxh > last
  /\ begin_reached => first = 0
  /\ first = 0 => begin_reached \/ last = 0
  /\ ~(unended /\ end_reached) => Vscroll = first
=============================================================================
