------------------------------- MODULE Cursor -------------------------------
(***************************************************************************)
(* The control half of the emulated terminal of package/simple-terminal    *)
(* (struct Term of src/main.c): the size of the screen, the cursor and the *)
(* saved cursor, the scroll region, the tab stops and the mode flags.      *)
(* These decide WHERE the next character lands, and every array access of  *)
(* the emulator -- line[y][x], tabs[x], dirty[y] -- is indexed by them     *)
(* without a further check.  What the cells hold is the business of module *)
(* Screen, which extends this one.                                         *)
(*                                                                         *)
(* One action per control function that the parser (tputc, csihandle)      *)
(* dispatches to.  The numeric argument of a sequence has already been     *)
(* through DEFAULT(arg, 1), so it starts at 1.                             *)
(***************************************************************************)
EXTENDS Integers, FiniteSets

CONSTANTS
  MaxCol, MaxRow,   \* bounds on the sizes cresize may compute
  MaxCells,         \* bound on their product
  InitCol, InitRow, \* the size sdlinit computes at start-up
  TabSpaces,        \* tabspaces of config.h
  MaxArg,           \* bound on the numeric argument of a sequence
  Pens,             \* colours and attributes SGR can select
  DefaultPen,       \* defaultfg on defaultbg
  ZeroPen,          \* all-zero attributes: colour 0 on colour 0
  Input             \* names of the control functions and events that occur

ASSUME SizeAssumption ==
  /\ MaxCol \in Nat \ {0} /\ InitCol \in 1..MaxCol
  /\ MaxRow \in Nat \ {0} /\ InitRow \in 1..MaxRow
  /\ TabSpaces \in Nat \ {0}
  /\ MaxArg \in Nat \ {0}

ASSUME PenAssumption == DefaultPen \in Pens /\ ZeroPen \in Pens

VARIABLES
  col, row,   \* term.col, term.row
  c,          \* term.c: position, CURSOR_WRAPNEXT, CURSOR_HIDE, attributes
  saved,      \* the static TCursor of tcursor()
  top, bot,   \* the scroll region
  tabs,       \* columns x with tabs[x] set
  mode        \* the flags set in term.mode

cvars == <<col, row, c, saved, top, bot, tabs, mode>>

Cols == 0..(col - 1)
Rows == 0..(row - 1)
Args == 1..MaxArg

ModeFlags == {"WRAP", "INSERT", "APPKEYPAD", "ALTSCREEN", "CRLF", "MOUSEBTN",
              "MOUSEMOTION", "REVERSE", "KBDLOCK"}

Cursors == [x : Nat, y : Nat, wrapnext : BOOLEAN, hide : BOOLEAN,
            gfx : BOOLEAN, pen : Pens]

LIMIT(v, a, b) == IF v < a THEN a ELSE IF v > b THEN b ELSE v

(* Mutants are named after what they get wrong; no action uses them.       *)
tmovetoKeepsWrap(cur, x, y) ==
  [cur EXCEPT !.x = LIMIT(x, 0, col - 1), !.y = LIMIT(y, 0, row - 1)]

(***************************************************************************)
(* tmoveto: every motion ends here, clamped to the screen, and forgets a   *)
(* pending wrap.                                                           *)
(***************************************************************************)
tmoveto(cur, x, y) ==
  [cur EXCEPT !.x = LIMIT(x, 0, col - 1), !.y = LIMIT(y, 0, row - 1),
              !.wrapnext = FALSE]

tnewlineToLastRow(cur, first) ==
  tmoveto(cur, IF first THEN 0 ELSE cur.x,
               IF cur.y = row - 1 THEN cur.y ELSE cur.y + 1)

(* Where tnewline leaves the cursor; on the last line of the region it     *)
(* stays and the region scrolls instead.                                   *)
tnewline(cur, first) ==
  tmoveto(cur, IF first THEN 0 ELSE cur.x,
               IF cur.y = bot THEN cur.y ELSE cur.y + 1)

FreshCursor(pen) == [x |-> 0, y |-> 0, wrapnext |-> FALSE, hide |-> FALSE,
                     gfx |-> FALSE, pen |-> pen]

(* treset's stops for a screen of n columns: TabSpaces, 2*TabSpaces, ...   *)
TabStops(n) == {x \in 0..(n - 1) : x > 0 /\ x % TabSpaces = 0}

Init ==
  /\ col = InitCol /\ row = InitRow
  /\ c = FreshCursor(DefaultPen)
  /\ saved = FreshCursor(ZeroPen)          \* a static, zeroed by the loader
  /\ top = 0 /\ bot = InitRow - 1
  /\ tabs = TabStops(InitCol)
  /\ mode = {"WRAP"}

-----------------------------------------------------------------------------
(* Motions.                                                                *)

Move(name, x, y) ==
  /\ name \in Input
  /\ c' = tmoveto(c, x, y)
  /\ UNCHANGED <<col, row, saved, top, bot, tabs, mode>>

CUU(n) == Move("CUU", c.x, c.y - n)
CUD(n) == Move("CUD", c.x, c.y + n)
CUF(n) == Move("CUF", c.x + n, c.y)
CUB(n) == Move("CUB", c.x - n, c.y)         \* and BS, with n = 1
CNL(n) == Move("CNL", 0, c.y + n)
CPL(n) == Move("CPL", 0, c.y - n)
CHA(n) == Move("CHA", n - 1, c.y)
VPA(n) == Move("VPA", c.x, n - 1)
CUP(r, k) == Move("CUP", k - 1, r - 1)
CR == Move("CR", 0, c.y)

(* tputtab(1): the loop runs from x+1 to the next stop or to term.col.     *)
HT ==
  \E x \in (c.x + 1)..col :
    /\ x = col \/ x \in tabs
    /\ \A z \in (c.x + 1)..(x - 1) : z \notin tabs
    /\ Move("HT", x, c.y)

(* tputtab(0): the loop runs down to the previous stop or to column 0.     *)
CBT ==
  IF c.x = 0
  THEN "CBT" \in Input /\ UNCHANGED cvars
  ELSE \E x \in 0..(c.x - 1) :
         /\ x = 0 \/ x \in tabs
         /\ \A z \in (x + 1)..(c.x - 1) : z \notin tabs
         /\ Move("CBT", x, c.y)

-----------------------------------------------------------------------------
(* Text and line feeds: the cursor's share of the work.                    *)

(* Where tputc writes the glyph: a wrap put off by the previous character  *)
(* is done now.                                                            *)
Wraps == "WRAP" \in mode /\ c.wrapnext
PutAt == IF Wraps THEN tnewline(c, TRUE) ELSE c

Advance ==
  /\ "Text" \in Input
  /\ c' = IF PutAt.x + 1 < col
          THEN tmoveto(PutAt, PutAt.x + 1, PutAt.y)
          ELSE [PutAt EXCEPT !.wrapnext = TRUE]
  /\ UNCHANGED <<col, row, saved, top, bot, tabs, mode>>

(* LF, VT, FF: column 0 too if LNM is set.                                 *)
LineFeed ==
  /\ "LF" \in Input
  /\ c' = tnewline(c, "CRLF" \in mode)
  /\ UNCHANGED <<col, row, saved, top, bot, tabs, mode>>

NextLine ==
  /\ "NEL" \in Input
  /\ c' = tnewline(c, TRUE)
  /\ UNCHANGED <<col, row, saved, top, bot, tabs, mode>>

(* IND and RI leave the cursor (and a pending wrap) alone when they scroll.*)
Index ==
  /\ "IND" \in Input
  /\ c' = IF c.y = bot THEN c ELSE tmoveto(c, c.x, c.y + 1)
  /\ UNCHANGED <<col, row, saved, top, bot, tabs, mode>>

ReverseIndex ==
  /\ "RI" \in Input
  /\ c' = IF c.y = top THEN c ELSE tmoveto(c, c.x, c.y - 1)
  /\ UNCHANGED <<col, row, saved, top, bot, tabs, mode>>

-----------------------------------------------------------------------------
(* Scroll region, tab stops, attributes, modes.                            *)

(* DECSTBM; tsetscroll orders the two limits.                              *)
DECSTBM(r1, r2) ==
  LET t == LIMIT(r1 - 1, 0, row - 1)
      b == LIMIT(r2 - 1, 0, row - 1)
  IN /\ "DECSTBM" \in Input
     /\ top' = (IF t > b THEN b ELSE t)
     /\ bot' = (IF t > b THEN t ELSE b)
     /\ c' = tmoveto(c, 0, 0)
     /\ UNCHANGED <<col, row, saved, tabs, mode>>

HTS ==
  /\ "HTS" \in Input
  /\ tabs' = tabs \cup {c.x}
  /\ UNCHANGED <<col, row, c, saved, top, bot, mode>>

TBC(all) ==
  /\ "TBC" \in Input
  /\ tabs' = IF all THEN {} ELSE tabs \ {c.x}
  /\ UNCHANGED <<col, row, c, saved, top, bot, mode>>

SGR(pen) ==
  /\ "SGR" \in Input
  /\ c' = [c EXCEPT !.pen = pen]
  /\ UNCHANGED <<col, row, saved, top, bot, tabs, mode>>

(* SO and ESC ( 0, SI and ESC ( B.                                         *)
Charset(gfx) ==
  /\ "Charset" \in Input
  /\ c' = [c EXCEPT !.gfx = gfx]
  /\ UNCHANGED <<col, row, saved, top, bot, tabs, mode>>

DECTCEM(set) ==
  /\ "DECTCEM" \in Input
  /\ c' = [c EXCEPT !.hide = ~set]
  /\ UNCHANGED <<col, row, saved, top, bot, tabs, mode>>

(* A flag that tsetmode (or DECKPAM, DECKPNM) sets or clears.              *)
SetFlag(flag, set) ==
  /\ flag \in Input
  /\ mode' = IF set THEN mode \cup {flag} ELSE mode \ {flag}
  /\ UNCHANGED <<col, row, c, saved, top, bot, tabs>>

(* DECSCNM also redraws, which is the business of Screen.                  *)
PlainFlags == ModeFlags \ {"ALTSCREEN", "REVERSE"}
SetMode(flag, set) == flag \in PlainFlags /\ SetFlag(flag, set)
DECSCNM(set) == SetFlag("REVERSE", set)

-----------------------------------------------------------------------------
(* Saved cursor, alternate screen, reset, resize.                          *)

LoadedUnchecked == saved

Loaded == tmoveto(saved, saved.x, saved.y)

SaveCursor ==
  /\ "DECSC" \in Input
  /\ saved' = c
  /\ UNCHANGED <<col, row, c, top, bot, tabs, mode>>

LoadCursor ==
  /\ "DECRC" \in Input
  /\ c' = Loaded
  /\ UNCHANGED <<col, row, saved, top, bot, tabs, mode>>

(* Private modes 47, 1047 and 1049; 1049 falls through to 1048.            *)
AltScreen(arg, set) ==
  /\ "ALTSCREEN" \in Input
  /\ mode' = IF set THEN mode \cup {"ALTSCREEN"} ELSE mode \ {"ALTSCREEN"}
  /\ saved' = IF arg = 1049 /\ set THEN c ELSE saved
  /\ c' = IF arg = 1049 /\ ~set THEN Loaded ELSE c
  /\ UNCHANGED <<col, row, top, bot, tabs>>

ResetTerm ==
  /\ "RIS" \in Input
  /\ c' = FreshCursor(DefaultPen)
  /\ tabs' = TabStops(col)
  /\ top' = 0 /\ bot' = row - 1
  /\ mode' = {"WRAP"}
  /\ UNCHANGED <<col, row, saved>>

(* The stops tresize adds when the screen widens: from the last stop (or   *)
(* column 0 if there is none) on, every TabSpaces columns.                 *)
AddedTabs(newcol) ==
  {x \in 0..(newcol - 1) :
     \E last \in {0} \cup tabs :
       /\ \A z \in tabs : z <= last
       /\ x > last /\ (x - last) % TabSpaces = 0}

Fits(newcol, newrow) == newcol * newrow <= MaxCells

Resize(newcol, newrow) ==
  /\ "Resize" \in Input /\ Fits(newcol, newrow)
  /\ col' = newcol /\ row' = newrow
  /\ c' = [c EXCEPT !.x = LIMIT(c.x, 0, newcol - 1),
                    !.y = LIMIT(c.y, 0, newrow - 1), !.wrapnext = FALSE]
  /\ tabs' = IF newcol > col THEN tabs \cup AddedTabs(newcol)
             ELSE tabs \cap (0..(newcol - 1))
  /\ top' = 0 /\ bot' = newrow - 1
  /\ UNCHANGED <<saved, mode>>

-----------------------------------------------------------------------------
Motion ==
  \/ \E n \in Args : CUU(n) \/ CUD(n) \/ CUF(n) \/ CUB(n) \/ CNL(n) \/ CPL(n)
                     \/ CHA(n) \/ VPA(n)
  \/ \E r, k \in Args : CUP(r, k)
  \/ CR \/ HT \/ CBT

Setting ==
  \/ \E r1, r2 \in Args : DECSTBM(r1, r2)
  \/ HTS \/ \E all \in BOOLEAN : TBC(all)
  \/ \E pen \in Pens : SGR(pen)
  \/ \E on \in BOOLEAN : Charset(on) \/ DECTCEM(on)
  \/ \E flag \in PlainFlags, set \in BOOLEAN : SetMode(flag, set)
  \/ SaveCursor \/ LoadCursor

Text == Advance \/ LineFeed \/ NextLine \/ Index \/ ReverseIndex

CursorNext ==
  \/ Motion
  \/ Setting
  \/ Text
  \/ \E arg \in {47, 1047, 1049}, set \in BOOLEAN : AltScreen(arg, set)
  \/ \E set \in BOOLEAN : DECSCNM(set)
  \/ ResetTerm
  \/ \E newcol \in 1..MaxCol, newrow \in 1..MaxRow : Resize(newcol, newrow)

CursorSpec == Init /\ [][CursorNext]_cvars

-----------------------------------------------------------------------------
(* Properties.                                                             *)

(* Type correctness of the control state of struct Term.                   *)
CursorTypeOK ==
  /\ col \in 1..MaxCol /\ row \in 1..MaxRow
  /\ c \in Cursors /\ saved \in Cursors
  /\ top \in Nat /\ bot \in Nat
  /\ tabs \subseteq Nat
  /\ mode \subseteq ModeFlags

(* Every write of the emulator is in bounds: tsetchar, tdeletechar,        *)
(* tputtab and HTS index line[y][x] and tabs[x] by the cursor unchecked.   *)
(* A cursor saved before the window shrank must not break it.              *)
CursorInScreen == c.x \in Cols /\ c.y \in Rows

(* The scroll loops of tscrollup and tscrolldown swap line[top..bot]       *)
(* unchecked: the region is a non-empty range of existing lines, whatever  *)
(* was asked for by DECSTBM and however the window was resized since.      *)
RegionInScreen == 0 <= top /\ top <= bot /\ bot < row

(* tabs has term.col elements: after a shrink (realloc) no stop may be     *)
(* left beyond it.                                                         *)
TabsInScreen == tabs \subseteq Cols

(* A put-off wrap is pending only where tputc leaves it, at the last       *)
(* column: a stale flag anywhere else would break a line in its middle.    *)
WrapOnlyAtLastColumn == c.wrapnext => c.x = col - 1

(* What SGR, the charsets and DECTCEM selected lasts: no text, motion,      *)
(* region, tab stop, mode or resize loses it (they all rewrite term.c);     *)
(* only a restore, a reset or another selection replaces it.                *)
Attributes == [hide |-> c.hide, gfx |-> c.gfx, pen |-> c.pen]
Selecting ==
  \/ \E pen \in Pens : SGR(pen)
  \/ \E on \in BOOLEAN : Charset(on) \/ DECTCEM(on)
Restoring == LoadCursor \/ AltScreen(1049, FALSE) \/ ResetTerm
AttributesKept == [][Selecting \/ Restoring \/ UNCHANGED Attributes]_cvars

(* Text and line feeds never carry the cursor out of the scroll region:    *)
(* once inside, it takes an explicit motion to leave (tputc, tnewline and  *)
(* IND compare with bot, RI with top).                                     *)
InRegion == top <= c.y /\ c.y <= bot
TextStaysInRegion == [][Text /\ InRegion => InRegion']_cvars
=============================================================================
