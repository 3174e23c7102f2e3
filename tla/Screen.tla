------------------------------- MODULE Screen -------------------------------
(***************************************************************************)
(* The contents half of the emulated terminal: the lines of the screen and *)
(* of the alternate screen, the dirty flags that tell drawregion what to   *)
(* repaint, what was last painted, and the rows of the mouse selection.    *)
(* Each control function is the cursor action of module Cursor joined with *)
(* what it does to the lines.                                              *)
(*                                                                         *)
(* A cell is Blank when GLYPH_SET is clear, otherwise the glyph with the   *)
(* attributes it was written with.  Calls are atomic here; the races       *)
(* between the reader thread and the drawing thread are in DrawSync.       *)
(***************************************************************************)
EXTENDS Cursor

CONSTANTS
  Glyphs,     \* printable characters
  Controls,   \* control characters shown only in the graphics charset
  Blank,      \* a cell with GLYPH_SET clear
  AltGarbage, \* what tnew's malloc may leave in the cells of term.alt
  DECALNGlyph \* the "E" of the alignment test

Cells == {Blank} \cup AltGarbage
         \cup ((Glyphs \cup Controls \cup {DECALNGlyph}) \X Pens \X BOOLEAN)

VARIABLES
  line, alt,  \* term.line, term.alt
  dirty,      \* rows y with term.dirty[y] set
  shown,      \* what drawregion last painted
  sel         \* rows of the selection: sel.by, sel.ey, sel.b.y, sel.e.y; on
              \* is sel.bx # -1, held is sel.mode

lvars == <<line, alt, dirty, shown, sel>>
vars == <<col, row, c, saved, top, bot, tabs, mode, line, alt, dirty, shown, sel>>

Lines(ncol, nrow, S) == [0..(nrow - 1) -> [0..(ncol - 1) -> S]]
BlankLine(ncol) == [x \in 0..(ncol - 1) |-> Blank]
BlankLines(ncol, nrow) == [y \in 0..(nrow - 1) |-> BlankLine(ncol)]

(* selinit does nothing, so sel.bx is 0 at the start: row 0 is selected.   *)
FirstSelection == [on |-> TRUE, by |-> 0, ey |-> 0, b |-> 0, e |-> 0, held |-> FALSE]

ScreenInit ==
  /\ Init
  /\ line = BlankLines(InitCol, InitRow)
  /\ alt \in Lines(InitCol, InitRow, AltGarbage)
  /\ dirty = 0..(InitRow - 1)
  /\ shown = BlankLines(InitCol, InitRow)
  /\ sel = FirstSelection

-----------------------------------------------------------------------------
(* Clearing, scrolling.                                                    *)

Between(v, a, b) == a <= v /\ v <= b

(* Corners are clamped to the screen; either order is accepted.            *)
Span(v1, v2, max) == LET a == LIMIT(v1, 0, max)  b == LIMIT(v2, 0, max)
                     IN IF v1 <= v2 THEN a..b ELSE b..a

tclearregion(l, x1, y1, x2, y2) ==
  [y \in Rows |-> [x \in Cols |->
     IF y \in Span(y1, y2, row - 1) /\ x \in Span(x1, x2, col - 1)
     THEN Blank ELSE l[y][x]]]

(* tscrollup: the region from orig to bot moves up by n lines.  The swap   *)
(* loop carries the n cleared lines to the bottom of the region.           *)
ScrollCount(orig, n) == LIMIT(n, 0, bot - orig + 1)

ScrolledUp(orig, count) ==
  LET n == ScrollCount(orig, count)
  IN [y \in Rows |-> IF Between(y, orig, bot - n) THEN line[y + n]
                     ELSE IF Between(y, orig, bot) THEN BlankLine(col)
                     ELSE line[y]]

ScrolledDown(orig, count) ==
  LET n == ScrollCount(orig, count)
  IN [y \in Rows |-> IF Between(y, orig + n, bot) THEN line[y - n]
                     ELSE IF Between(y, orig, bot) THEN BlankLine(col)
                     ELSE line[y]]

(* Rows marked dirty: those cleared and both partners of every swap.       *)
UpDirtOneSided(orig, count) ==
  LET n == ScrollCount(orig, count)
  IN (orig..(orig + n - 1)) \cup (orig..(bot - n))

UpDirt(orig, count) ==
  LET n == ScrollCount(orig, count)
  IN (orig..(orig + n - 1)) \cup (orig..(bot - n)) \cup ((orig + n)..bot)

DownDirt(orig, count) ==
  LET n == ScrollCount(orig, count)
  IN ((bot - n + 1)..bot) \cup ((orig + n)..bot) \cup (orig..(bot - n))

(* selscroll, on rows: a selection with an end between orig and bot moves  *)
(* by n lines, is cut at the region and dropped once outside it.           *)
selscroll(s, orig, n) ==
  LET by == IF s.by + n < top THEN top ELSE s.by + n
      ey == IF s.ey + n > bot THEN bot ELSE s.ey + n
  IN IF ~s.on \/ ~(Between(s.by, orig, bot) \/ Between(s.ey, orig, bot)) THEN s
     ELSE IF s.by + n > bot \/ s.ey + n < top THEN [s EXCEPT !.on = FALSE]
     ELSE [s EXCEPT !.by = by, !.ey = ey, !.b = by, !.e = ey]

Edit(l, rows) ==
  /\ line' = l
  /\ dirty' = dirty \cup rows
  /\ UNCHANGED <<alt, shown>>

ScrollUpWrongWay(orig, n) ==
  /\ Edit(ScrolledUp(orig, n), UpDirt(orig, n))
  /\ sel' = selscroll(sel, orig, ScrollCount(orig, n))

ScrollUp(orig, n) ==
  /\ Edit(ScrolledUp(orig, n), UpDirt(orig, n))
  /\ sel' = selscroll(sel, orig, -ScrollCount(orig, n))

ScrollDown(orig, n) ==
  /\ Edit(ScrolledDown(orig, n), DownDirt(orig, n))
  /\ sel' = selscroll(sel, orig, ScrollCount(orig, n))

-----------------------------------------------------------------------------
(* Text.                                                                   *)

(* tputc for a displayed character: drop a selection under the cursor, do  *)
(* the put-off wrap (which may scroll), write the cell.  MODE_INSERT is    *)
(* not consulted.                                                          *)
PutGlyph(g) ==
  LET scrolls == Wraps /\ c.y = bot
      kept == IF sel.on /\ Between(c.y, sel.by, sel.ey)
              THEN [sel EXCEPT !.on = FALSE] ELSE sel
      l == IF scrolls THEN ScrolledUp(top, 1) ELSE line
  IN /\ g \in Controls => c.gfx
     /\ Advance
     /\ Edit([l EXCEPT ![PutAt.y][PutAt.x] = <<g, c.pen, c.gfx>>],
             {PutAt.y} \cup IF scrolls THEN UpDirt(top, 1) ELSE {})
     /\ sel' = IF scrolls THEN selscroll(kept, top, -1) ELSE kept

FeedOrScroll(feed) ==
  /\ feed
  /\ IF c.y = bot THEN ScrollUp(top, 1) ELSE UNCHANGED lvars

ScreenLF == FeedOrScroll(LineFeed)
ScreenNEL == FeedOrScroll(NextLine)
ScreenIND == FeedOrScroll(Index)
ScreenRI ==
  /\ ReverseIndex
  /\ IF c.y = top THEN ScrollDown(top, 1) ELSE UNCHANGED lvars

ILAnywhere(n) == "IL" \in Input /\ ScrollDown(c.y, n) /\ UNCHANGED cvars

(* SU, SD scroll the region; IL, DL scroll from the cursor's line on, and  *)
(* only when it is inside the region.                                      *)
SU(n) == "SU" \in Input /\ ScrollUp(top, n) /\ UNCHANGED cvars
SD(n) == "SD" \in Input /\ ScrollDown(top, n) /\ UNCHANGED cvars
IL(n) == "IL" \in Input /\ InRegion /\ ScrollDown(c.y, n) /\ UNCHANGED cvars
DL(n) == "DL" \in Input /\ InRegion /\ ScrollUp(c.y, n) /\ UNCHANGED cvars

(* DECALN: ESC # 8 fills the screen with the current attributes.           *)
DECALN ==
  /\ "DECALN" \in Input
  /\ Edit([y \in Rows |-> [x \in Cols |-> <<DECALNGlyph, c.pen, c.gfx>>]], Rows)
  /\ UNCHANGED <<cvars, sel>>

-----------------------------------------------------------------------------
(* Editing within the screen.                                              *)

(* ICH (tinsertblank) and DCH (tdeletechar): a memmove within the cursor's *)
(* line and a clear of the cells it leaves.                                *)
ICH(n) ==
  /\ "ICH" \in Input
  /\ Edit([line EXCEPT ![c.y] = [x \in Cols |->
             IF x < c.x THEN @[x] ELSE IF x < c.x + n THEN Blank ELSE @[x - n]]],
          {c.y})
  /\ UNCHANGED <<cvars, sel>>

DCH(n) ==
  /\ "DCH" \in Input
  /\ Edit([line EXCEPT ![c.y] = [x \in Cols |->
             IF x < c.x THEN @[x] ELSE IF x + n < col THEN @[x + n] ELSE Blank]],
          {c.y})
  /\ UNCHANGED <<cvars, sel>>

(* ECH: the region cleared ends AT column x + n.                           *)
ECH(n) ==
  /\ "ECH" \in Input
  /\ Edit(tclearregion(line, c.x, c.y, c.x + n, c.y), {c.y})
  /\ UNCHANGED <<cvars, sel>>

EL(k) ==
  /\ "EL" \in Input
  /\ Edit(tclearregion(line, IF k = 0 THEN c.x ELSE 0, c.y,
                             IF k = 1 THEN c.x ELSE col - 1, c.y), {c.y})
  /\ UNCHANGED <<cvars, sel>>

(* ED: below (0), above (1), all (2).  "Above" skips the full lines when   *)
(* the cursor is on line 1.                                                *)
EDLines(k) ==
  CASE k = 0 -> LET l == tclearregion(line, c.x, c.y, col - 1, c.y)
                IN IF c.y < row - 1
                   THEN tclearregion(l, 0, c.y + 1, col - 1, row - 1) ELSE l
    [] k = 1 -> LET l == IF c.y > 1
                         THEN tclearregion(line, 0, 0, col - 1, c.y - 1)
                         ELSE line
                IN tclearregion(l, 0, c.y, c.x, c.y)
    [] k = 2 -> tclearregion(line, 0, 0, col - 1, row - 1)

EDDirt(k) ==
  CASE k = 0 -> c.y..(row - 1)
    [] k = 1 -> IF c.y > 1 THEN 0..c.y ELSE {c.y}
    [] k = 2 -> Rows

ED(k) ==
  /\ "ED" \in Input
  /\ Edit(EDLines(k), EDDirt(k))
  /\ sel' = [sel EXCEPT !.on = FALSE]
  /\ UNCHANGED cvars

-----------------------------------------------------------------------------
(* Alternate screen, reset, resize, reverse video.                         *)

ScreenAltAlwaysSwaps(arg, set) ==
  LET inAlt == "ALTSCREEN" \in mode
      l == IF inAlt THEN BlankLines(col, row) ELSE line
  IN /\ AltScreen(arg, set)
     /\ line' = alt /\ alt' = l
     /\ dirty' = Rows
     /\ UNCHANGED <<shown, sel>>

(* Modes 47, 1047, 1049: the alternate screen is wiped when any of them    *)
(* arrives while it is displayed; tswapscreen runs if the request changes  *)
(* which one is.                                                           *)
ScreenAlt(arg, set) ==
  LET inAlt == "ALTSCREEN" \in mode
      l == IF inAlt THEN BlankLines(col, row) ELSE line
  IN /\ AltScreen(arg, set)
     /\ IF set # inAlt THEN line' = alt /\ alt' = l
                       ELSE line' = l /\ alt' = alt
     /\ dirty' = IF set \/ inAlt THEN Rows ELSE dirty
     /\ UNCHANGED <<shown, sel>>

(* treset clears MODE_ALTSCREEN but does not swap the screens back.        *)
ScreenRIS ==
  /\ ResetTerm
  /\ Edit(BlankLines(col, row), Rows)
  /\ UNCHANGED sel

(* tresize: the lines slide up when the cursor's would fall off the        *)
(* bottom; cresize makes a new, black, surface.                            *)
SlideShort(newrow) == IF c.y - newrow > 0 THEN c.y - newrow ELSE 0
Slide(newrow) == IF c.y - newrow + 1 > 0 THEN c.y - newrow + 1 ELSE 0
Resized(l, newcol, newrow) ==
  [y \in 0..(newrow - 1) |-> [x \in 0..(newcol - 1) |->
     IF y + Slide(newrow) < row /\ x < col THEN l[y + Slide(newrow)][x]
     ELSE Blank]]

ScreenResize(newcol, newrow) ==
  /\ Resize(newcol, newrow)
  /\ line' = Resized(line, newcol, newrow)
  /\ alt' = Resized(alt, newcol, newrow)
  /\ dirty' = 0..(newrow - 1)
  /\ shown' = BlankLines(newcol, newrow)
  /\ UNCHANGED sel

(* draw: drawregion repaints the dirty rows and clears their flags.        *)
Paint(rows) == [y \in Rows |-> IF y \in rows THEN line[y] ELSE shown[y]]
Draw ==
  /\ "Draw" \in Input
  /\ shown' = Paint(dirty)
  /\ dirty' = {}
  /\ UNCHANGED <<cvars, line, alt, sel>>

(* DECSCNM calls redraw when the flag changes: everything is dirty, and    *)
(* painted at once unless the window is hidden.                            *)
ScreenDECSCNM(set) ==
  /\ DECSCNM(set)
  /\ \/ mode' = mode /\ UNCHANGED <<dirty, shown>>
     \/ mode' # mode /\ dirty' = {} /\ shown' = Paint(Rows)
     \/ mode' # mode /\ dirty' = Rows /\ UNCHANGED shown
  /\ UNCHANGED <<line, alt, sel>>

-----------------------------------------------------------------------------
(* The mouse: bpress, bmotion, brelease while no mouse mode is set.        *)

Mouse == "Mouse" \in Input /\ mode \cap {"MOUSEBTN", "MOUSEMOTION"} = {}
DirtRows(t, b) == LIMIT(t, 0, row - 1)..LIMIT(b, 0, row - 1)      \* tsetdirt

(* getbuttoninfo: the moving end goes to row y, b and e are put in order.  *)
MovedTo(y) == [sel EXCEPT !.ey = y,
                          !.b = IF sel.by < y THEN sel.by ELSE y,
                          !.e = IF sel.by < y THEN y ELSE sel.by]

(* A press drops the old selection and paints its rows back.               *)
Press(y) ==
  /\ Mouse
  /\ sel' = [sel EXCEPT !.on = TRUE, !.by = y, !.ey = y, !.held = TRUE]
  /\ IF sel.on
     THEN dirty' = {} /\ shown' = Paint(dirty \cup DirtRows(sel.b, sel.e))
     ELSE UNCHANGED <<dirty, shown>>
  /\ UNCHANGED <<cvars, line, alt>>

Drag(y) ==
  /\ Mouse /\ sel.held
  /\ sel' = MovedTo(y)
  /\ dirty' = dirty \cup (IF y = sel.ey THEN {}
                         ELSE DirtRows(sel.ey, y) \cup DirtRows(y, sel.ey))
  /\ UNCHANGED <<cvars, line, alt, shown>>

(* A click that did not move selects nothing, unless it is the second or   *)
(* third of a multiple click.                                              *)
Release(y, on) ==
  /\ Mouse
  /\ on => sel.on
  /\ sel.on /\ y # sel.by => on
  /\ sel' = [MovedTo(y) EXCEPT !.on = on, !.held = FALSE]
  /\ dirty' = dirty \cup {y}
  /\ UNCHANGED <<cvars, line, alt, shown>>

-----------------------------------------------------------------------------
Quiet == (Motion \/ Setting) /\ UNCHANGED lvars

Scrolling ==
  \/ ScreenLF \/ ScreenNEL \/ ScreenIND \/ ScreenRI
  \/ \E n \in Args : SU(n) \/ SD(n) \/ IL(n) \/ DL(n)

Editing ==
  \/ \E n \in Args : ICH(n) \/ DCH(n) \/ ECH(n)
  \/ \E k \in 0..2 : EL(k) \/ ED(k)
  \/ DECALN

Pointing ==
  \E y \in Rows : Press(y) \/ Drag(y) \/ \E on \in BOOLEAN : Release(y, on)

Switching == \E arg \in {47, 1047, 1049}, set \in BOOLEAN : ScreenAlt(arg, set)
Resizing == \E newcol \in 1..MaxCol, newrow \in 1..MaxRow :
              ScreenResize(newcol, newrow)
Printing == \E g \in Glyphs \cup Controls : PutGlyph(g)

ScreenNext ==
  \/ Quiet
  \/ Printing
  \/ Scrolling
  \/ Editing
  \/ Switching
  \/ ScreenRIS
  \/ Resizing
  \/ \E set \in BOOLEAN : ScreenDECSCNM(set)
  \/ Draw
  \/ Pointing

Spec == ScreenInit /\ [][ScreenNext]_vars

-----------------------------------------------------------------------------
(* Properties.                                                             *)

(* Type correctness: the lines always have the size struct Term records.   *)
ScreenTypeOK ==
  /\ line \in Lines(col, row, Cells)
  /\ alt \in Lines(col, row, Cells)
  /\ shown \in Lines(col, row, Cells)
  /\ dirty \subseteq Rows
  /\ sel \in [on : BOOLEAN, by : Int, ey : Int, b : Int, e : Int, held : BOOLEAN]

(* drawregion skips rows whose dirty flag is clear, so a clean row must    *)
(* look on the surface as it is in the buffer.  Every function that moves  *)
(* or writes lines has to mark all the rows it touched.                    *)
CleanRowsShown == \A y \in Rows \ dirty : shown[y] = line[y]

(* The scroll loops stay between top and bot (LF, NEL, IND, RI, SU, SD),   *)
(* and from the cursor's line down to bot for IL and DL: status lines kept *)
(* outside the region by DECSTBM never move.                               *)
Untouched(rows) == \A y \in rows : line'[y] = line[y]
OutsideRegion == {y \in Rows : y < top \/ y > bot}
ScrollConfined ==
  [][/\ Scrolling => Untouched(OutsideRegion)
     /\ (\E n \in Args : IL(n) \/ DL(n)) => Untouched({y \in Rows : y < c.y})]_vars

(* "slide screen to keep cursor where we expect it" (tresize): however the *)
(* window is resized, the line under the cursor is still the same text, as *)
(* far as it fits, and so is every line above it that is left.             *)
CursorLineSurvivesResize ==
  [][Resizing => \A y \in 0..c'.y : \A x \in Cols \cap (0..(col' - 1)) :
                   line'[y][x] = line[y + (c.y - c'.y)][x]]_vars

(* What an application does on the alternate screen (modes 47, 1047, 1049) *)
(* never alters the primary screen it will leave behind, whatever mix of   *)
(* the three modes it uses.  Resizing changes both; RIS is apart.          *)
Primary(l, a, m) == IF "ALTSCREEN" \in m THEN a ELSE l
PrimaryKept ==
  [][/\ "ALTSCREEN" \in mode \/ "ALTSCREEN" \in mode'
     /\ ~Resizing /\ ~ScreenRIS
     => Primary(line, alt, mode)' = Primary(line, alt, mode)]_vars

(* selscroll keeps the selection on the text it was made on: when the      *)
(* region scrolls by one line feed or reverse index, every row still       *)
(* selected holds the text it held on its old row.                         *)
SelectionFollowsText ==
  [][/\ sel.on /\ sel'.on /\ sel.by <= sel.ey
     /\ ScreenLF \/ ScreenNEL \/ ScreenIND \/ ScreenRI
     /\ Between(sel.by, top, bot) /\ Between(sel.ey, top, bot)
     => \E d \in {-1, 0, 1} : \A y \in sel'.by..sel'.ey :
          y - d \in sel.by..sel.ey /\ line'[y] = line[y - d]]_vars
=============================================================================
