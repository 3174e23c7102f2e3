---------------------------- MODULE ScreenProofs ----------------------------
(***************************************************************************)
(* Proofs about Cursor and Screen, for every screen size, tab width,       *)
(* argument bound and set of glyphs.  First Cursor: every array index the  *)
(* emulator derives from the cursor, the scroll region and the tab stops   *)
(* is in range.  Then Screen, which implements Cursor, so that the cursor  *)
(* invariant holds of it: with it and the sizes of the arrays every line   *)
(* an operation changes is one it marks dirty.                             *)
(***************************************************************************)
EXTENDS Screen, TLAPS

(* The inductive invariant of Cursor.  CursorInScreen needs the type of    *)
(* the saved cursor (DECRC clamps whatever it holds); WrapOnlyAtLastColumn *)
(* needs CursorInScreen (tputc sets the flag where x + 1 < col fails).     *)
CursorInv ==
  /\ CursorTypeOK
  /\ CursorInScreen
  /\ RegionInScreen
  /\ TabsInScreen
  /\ WrapOnlyAtLastColumn

-----------------------------------------------------------------------------
(* LIMIT yields a value between its bounds.                                *)
LEMMA LimitRange ==
  ASSUME NEW v \in Int, NEW b \in Nat
  PROVE  LIMIT(v, 0, b) \in 0..b
  BY DEF LIMIT

(* tmoveto always yields a cursor on the screen, with no pending wrap.     *)
LEMMA MoveToOnScreen ==
  ASSUME CursorTypeOK, NEW cur \in Cursors, NEW x \in Int, NEW y \in Int
  PROVE  /\ tmoveto(cur, x, y) \in Cursors
         /\ tmoveto(cur, x, y).x \in Cols
         /\ tmoveto(cur, x, y).y \in Rows
         /\ tmoveto(cur, x, y).wrapnext = FALSE
<1>1. LIMIT(x, 0, col - 1) \in 0..(col - 1) /\ LIMIT(y, 0, row - 1) \in 0..(row - 1)
  BY LimitRange, SizeAssumption DEF CursorTypeOK
<1>. DEFINE lx == LIMIT(x, 0, col - 1)
            ly == LIMIT(y, 0, row - 1)
<1>2. lx \in Cols /\ ly \in Rows /\ lx \in Nat /\ ly \in Nat
  BY <1>1 DEF Cols, Rows
<1>3. tmoveto(cur, x, y) = [cur EXCEPT !.x = lx, !.y = ly, !.wrapnext = FALSE]
  BY DEF tmoveto
<1>. HIDE DEF lx, ly
<1>4. tmoveto(cur, x, y) \in Cursors
  BY <1>2, <1>3 DEF Cursors
<1>5. /\ tmoveto(cur, x, y).x = lx
      /\ tmoveto(cur, x, y).y = ly
      /\ tmoveto(cur, x, y).wrapnext = FALSE
  BY <1>2, <1>3 DEF Cursors
<1>. QED  BY <1>2, <1>4, <1>5

(* So does tnewline, which may only move down by one line.                 *)
LEMMA NewlineOnScreen ==
  ASSUME CursorTypeOK, NEW cur \in Cursors, NEW first \in BOOLEAN
  PROVE  /\ tnewline(cur, first) \in Cursors
         /\ tnewline(cur, first).x \in Cols
         /\ tnewline(cur, first).y \in Rows
         /\ tnewline(cur, first).wrapnext = FALSE
<1>1. (IF first THEN 0 ELSE cur.x) \in Int
      /\ (IF cur.y = bot THEN cur.y ELSE cur.y + 1) \in Int
  BY DEF Cursors
<1>. QED  BY <1>1, MoveToOnScreen DEF tnewline

(* A step that only replaces the cursor by one on the screen, and keeps a  *)
(* pending wrap at the last column, preserves the invariant.               *)
LEMMA CursorStep ==
  ASSUME CursorInv, c' \in Cursors, c'.x \in Cols, c'.y \in Rows,
         c'.wrapnext => c'.x = col - 1,
         UNCHANGED <<col, row, saved, top, bot, tabs, mode>>
  PROVE  CursorInv'
  BY DEF CursorInv, CursorTypeOK, CursorInScreen, RegionInScreen, TabsInScreen,
         WrapOnlyAtLastColumn, Cols, Rows

(* A motion keeps the invariant: Move only replaces the cursor.            *)
LEMMA MoveStep ==
  ASSUME CursorInv, NEW cur \in Cursors, NEW x \in Int, NEW y \in Int,
         c' = tmoveto(cur, x, y),
         UNCHANGED <<col, row, saved, top, bot, tabs, mode>>
  PROVE  CursorInv'
<1>1. CursorTypeOK
  BY DEF CursorInv
<1>2. /\ tmoveto(cur, x, y) \in Cursors
      /\ tmoveto(cur, x, y).x \in Cols
      /\ tmoveto(cur, x, y).y \in Rows
      /\ tmoveto(cur, x, y).wrapnext = FALSE
  BY <1>1, MoveToOnScreen
<1>. QED  BY <1>2, CursorStep

(* Every motion is a Move, or leaves everything as it is.                  *)
LEMMA MotionInv == CursorInv /\ Motion => CursorInv'
<1>. SUFFICES ASSUME CursorInv, Motion PROVE CursorInv'
  OBVIOUS
<1>1. c \in Cursors /\ c.x \in Nat /\ c.y \in Nat /\ CursorTypeOK /\ col \in Nat
  BY SizeAssumption DEF CursorInv, CursorTypeOK, Cursors
<1>2. ASSUME NEW name, NEW x \in Int, NEW y \in Int, Move(name, x, y)
      PROVE CursorInv'
  BY <1>1, <1>2, MoveToOnScreen, CursorStep DEF Move
<1>3. ASSUME NEW n \in Args,
             CUU(n) \/ CUD(n) \/ CUF(n) \/ CUB(n) \/ CNL(n) \/ CPL(n) \/ CHA(n) \/ VPA(n)
      PROVE CursorInv'
  <2>1. n \in Int
    BY SizeAssumption DEF Args
  <2>. QED  BY <1>1, <1>2, <1>3, <2>1 DEF CUU, CUD, CUF, CUB, CNL, CPL, CHA, VPA
<1>4. ASSUME NEW r \in Args, NEW k \in Args, CUP(r, k) PROVE CursorInv'
  <2>1. r - 1 \in Int /\ k - 1 \in Int
    BY SizeAssumption DEF Args
  <2>. QED  BY <1>2, <1>4, <2>1 DEF CUP
<1>5. CASE CR
  BY <1>1, <1>2, <1>5 DEF CR
<1>6. CASE HT
  BY <1>1, <1>2, <1>6 DEF HT
<1>7. CASE CBT
  <2>1. CASE c.x = 0
    BY <1>7, <2>1 DEF CBT, cvars, CursorInv, CursorTypeOK, CursorInScreen,
         RegionInScreen, TabsInScreen, WrapOnlyAtLastColumn, Cols, Rows
  <2>2. CASE c.x # 0
    BY <1>1, <1>2, <1>7, <2>2 DEF CBT
  <2>. QED  BY <2>1, <2>2
<1>. QED  BY <1>3, <1>4, <1>5, <1>6, <1>7 DEF Motion

(* The settings: DECSTBM orders its limits, TBC and HTS stay in range.     *)
LEMMA SettingInv == CursorInv /\ Setting => CursorInv'
<1>. SUFFICES ASSUME CursorInv, Setting PROVE CursorInv'
  OBVIOUS
<1>. USE DEF CursorInv
<1>1. c \in Cursors /\ saved \in Cursors /\ c.x \in Nat /\ c.y \in Nat /\ CursorTypeOK
      /\ c.x \in Cols /\ c.y \in Rows
  BY DEF CursorTypeOK, Cursors, CursorInScreen
<1>2. ASSUME NEW r1 \in Args, NEW r2 \in Args, DECSTBM(r1, r2) PROVE CursorInv'
  <2>1. /\ LIMIT(r1 - 1, 0, row - 1) \in 0..(row - 1)
        /\ LIMIT(r2 - 1, 0, row - 1) \in 0..(row - 1)
    BY LimitRange, SizeAssumption DEF Args, CursorTypeOK
  <2>2. c' \in Cursors /\ c'.x \in Cols /\ c'.y \in Rows /\ c'.wrapnext = FALSE
    <3>1. c' = tmoveto(c, 0, 0)
      BY <1>2 DEF DECSTBM
    <3>2. /\ tmoveto(c, 0, 0) \in Cursors
          /\ tmoveto(c, 0, 0).x \in Cols
          /\ tmoveto(c, 0, 0).y \in Rows
          /\ tmoveto(c, 0, 0).wrapnext = FALSE
      <4>1. 0 \in Int
        OBVIOUS
      <4>. QED  BY <1>1, <4>1, MoveToOnScreen, Zenon
    <3>. QED  BY <3>1, <3>2
  <2>3. top' \in 0..(row - 1) /\ bot' \in 0..(row - 1) /\ top' <= bot'
        /\ UNCHANGED <<col, row, saved, tabs, mode>>
    BY <1>2, <2>1, SizeAssumption DEF DECSTBM, CursorTypeOK
  <2>. QED
    BY <2>2, <2>3, SizeAssumption DEF CursorTypeOK, CursorInScreen,
       RegionInScreen, TabsInScreen, WrapOnlyAtLastColumn, Cols, Rows
<1>3. CASE HTS \/ \E all \in BOOLEAN : TBC(all)
  BY <1>1, <1>3, SizeAssumption DEF HTS, TBC, CursorTypeOK, CursorInScreen,
     RegionInScreen, TabsInScreen, WrapOnlyAtLastColumn, Cols, Rows
<1>4. ASSUME NEW pen \in Pens, SGR(pen) PROVE CursorInv'
  BY <1>1, <1>4, CursorStep DEF SGR, Cursors, WrapOnlyAtLastColumn
<1>5. ASSUME NEW on \in BOOLEAN, Charset(on) \/ DECTCEM(on) PROVE CursorInv'
  BY <1>1, <1>5, CursorStep DEF Charset, DECTCEM, Cursors, WrapOnlyAtLastColumn
<1>6. ASSUME NEW flag \in PlainFlags, NEW set \in BOOLEAN, SetMode(flag, set)
      PROVE CursorInv'
  BY <1>6 DEF SetMode, SetFlag, PlainFlags, ModeFlags, CursorTypeOK,
     CursorInScreen, RegionInScreen, TabsInScreen, WrapOnlyAtLastColumn, Cols, Rows
<1>7. CASE SaveCursor
  BY <1>1, <1>7 DEF SaveCursor, CursorTypeOK, CursorInScreen, RegionInScreen,
     TabsInScreen, WrapOnlyAtLastColumn, Cols, Rows
<1>8. CASE LoadCursor
  <2>1. saved.x \in Int /\ saved.y \in Int
    BY <1>1 DEF Cursors
  <2>. QED  BY <1>1, <1>8, <2>1, MoveStep DEF LoadCursor, Loaded
<1>. QED  BY <1>2, <1>3, <1>4, <1>5, <1>6, <1>7, <1>8 DEF Setting

(* Text and line feeds; tputc sets the flag where x + 1 < col fails.       *)
LEMMA TextInv == CursorInv /\ Text => CursorInv'
<1>. SUFFICES ASSUME CursorInv, Text PROVE CursorInv'
  OBVIOUS
<1>1. c \in Cursors /\ CursorTypeOK /\ c.x \in Cols /\ c.y \in Rows
      /\ (c.wrapnext => c.x = col - 1) /\ col \in Nat /\ c.x \in Nat /\ c.y \in Nat
  BY SizeAssumption DEF CursorInv, CursorTypeOK, CursorInScreen,
     WrapOnlyAtLastColumn, Cursors
<1>2. CASE Advance
  <2>1. PutAt \in Cursors /\ PutAt.x \in Cols /\ PutAt.y \in Rows
    BY <1>1, NewlineOnScreen DEF PutAt
  <2>2. CASE PutAt.x + 1 < col
    <3>1. PutAt.x + 1 \in Int /\ PutAt.y \in Int
      BY <2>1 DEF Cursors
    <3>. QED  BY <1>1, <1>2, <2>1, <2>2, <3>1, MoveToOnScreen, CursorStep DEF Advance
  <2>3. CASE ~(PutAt.x + 1 < col)
    <3>1. c' = [PutAt EXCEPT !.wrapnext = TRUE]
      BY <1>2, <2>3 DEF Advance
    <3>2. c' \in Cursors /\ c'.x = PutAt.x /\ c'.y = PutAt.y
      BY <2>1, <3>1 DEF Cursors
    <3>3. PutAt.x = col - 1
      BY <1>1, <2>1, <2>3 DEF Cols
    <3>. QED  BY <1>2, <2>1, <3>2, <3>3, CursorStep DEF Advance
  <2>. QED  BY <2>2, <2>3
<1>3. CASE LineFeed
  <2>1. CASE "CRLF" \in mode
    <3>1. c' = tnewline(c, TRUE)
      BY <1>3, <2>1 DEF LineFeed, tnewline
    <3>. QED  BY <1>1, <1>3, <3>1, NewlineOnScreen, CursorStep DEF LineFeed
  <2>2. CASE "CRLF" \notin mode
    <3>1. c' = tnewline(c, FALSE)
      BY <1>3, <2>2 DEF LineFeed, tnewline
    <3>. QED  BY <1>1, <1>3, <3>1, NewlineOnScreen, CursorStep DEF LineFeed
  <2>. QED  BY <2>1, <2>2
<1>4. CASE NextLine
  BY <1>1, <1>4, NewlineOnScreen, CursorStep DEF NextLine
<1>5. CASE Index
  <2>1. CASE c.y = bot
    BY <1>1, <1>5, <2>1, CursorStep DEF Index
  <2>2. CASE c.y # bot
    BY <1>1, <1>5, <2>2, MoveStep DEF Index
  <2>. QED  BY <2>1, <2>2
<1>6. CASE ReverseIndex
  <2>1. CASE c.y = top
    BY <1>1, <1>6, <2>1, CursorStep DEF ReverseIndex
  <2>2. CASE c.y # top
    BY <1>1, <1>6, <2>2, MoveStep DEF ReverseIndex
  <2>. QED  BY <2>1, <2>2
<1>. QED  BY <1>2, <1>3, <1>4, <1>5, <1>6 DEF Text

(* 1049 loads a cursor saved on a screen of another size.                  *)
LEMMA AltScreenInv ==
  ASSUME NEW arg, NEW set \in BOOLEAN
  PROVE  CursorInv /\ AltScreen(arg, set) => CursorInv'
<1>. SUFFICES ASSUME CursorInv, AltScreen(arg, set) PROVE CursorInv'
  OBVIOUS
<1>. USE DEF CursorInv
<1>1. c \in Cursors /\ saved \in Cursors /\ CursorTypeOK /\ c.x \in Cols /\ c.y \in Rows
  BY DEF CursorTypeOK, CursorInScreen
<1>2. /\ Loaded \in Cursors /\ Loaded.x \in Cols /\ Loaded.y \in Rows
      /\ Loaded.wrapnext = FALSE
  <2>1. saved.x \in Int /\ saved.y \in Int
    BY <1>1 DEF Cursors
  <2>. QED  BY <1>1, <2>1, MoveToOnScreen DEF Loaded
<1>3. /\ c' \in Cursors /\ c'.x \in Cols /\ c'.y \in Rows
      /\ c'.wrapnext => c'.x = col - 1
      /\ saved' \in Cursors
  BY <1>1, <1>2 DEF AltScreen, WrapOnlyAtLastColumn
<1>4. mode' \subseteq ModeFlags
  BY DEF AltScreen, CursorTypeOK, ModeFlags
<1>. QED
  BY <1>3, <1>4 DEF AltScreen, CursorTypeOK, CursorInScreen, RegionInScreen,
     TabsInScreen, WrapOnlyAtLastColumn, Cols, Rows

(* treset puts everything back.                                            *)
LEMMA ResetInv == CursorInv /\ ResetTerm => CursorInv'
<1>. SUFFICES ASSUME CursorInv, ResetTerm PROVE CursorInv'
  OBVIOUS
<1>1. FreshCursor(DefaultPen) \in Cursors
  BY PenAssumption DEF FreshCursor, Cursors
<1>2. col \in Nat /\ row \in Nat /\ col > 0 /\ row > 0
  BY SizeAssumption DEF CursorInv, CursorTypeOK
<1>. QED
  BY <1>1, <1>2 DEF ResetTerm, FreshCursor, TabStops, ModeFlags, CursorInv,
     CursorTypeOK, CursorInScreen, RegionInScreen, TabsInScreen,
     WrapOnlyAtLastColumn, Cols, Rows

(* tresize clamps the cursor, cuts the tab stops, resets the region.       *)
LEMMA ResizeInv ==
  ASSUME NEW newcol \in 1..MaxCol, NEW newrow \in 1..MaxRow
  PROVE  CursorInv /\ Resize(newcol, newrow) => CursorInv'
<1>. SUFFICES ASSUME CursorInv, Resize(newcol, newrow) PROVE CursorInv'
  OBVIOUS
<1>1. newcol \in Nat /\ newrow \in Nat /\ newcol > 0 /\ newrow > 0
      /\ col \in Nat /\ c \in Cursors /\ saved \in Cursors /\ tabs \subseteq Cols
  BY SizeAssumption DEF CursorInv, CursorTypeOK, TabsInScreen
<1>2. /\ LIMIT(c.x, 0, newcol - 1) \in 0..(newcol - 1)
      /\ LIMIT(c.y, 0, newrow - 1) \in 0..(newrow - 1)
  <2>1. c.x \in Int /\ c.y \in Int /\ newcol - 1 \in Nat /\ newrow - 1 \in Nat
    BY <1>1 DEF Cursors
  <2>. QED  BY <2>1, LimitRange
<1>3. c' \in Cursors /\ c'.x \in 0..(newcol - 1) /\ c'.y \in 0..(newrow - 1)
      /\ c'.wrapnext = FALSE
  <2>. DEFINE lx == LIMIT(c.x, 0, newcol - 1)
              ly == LIMIT(c.y, 0, newrow - 1)
  <2>1. c' = [c EXCEPT !.x = lx, !.y = ly, !.wrapnext = FALSE]
    BY DEF Resize
  <2>2. lx \in Nat /\ ly \in Nat
    BY <1>2
  <2>. HIDE DEF lx, ly
  <2>3. c' \in Cursors
    BY <1>1, <2>1, <2>2 DEF Cursors
  <2>4. c'.x = lx /\ c'.y = ly /\ c'.wrapnext = FALSE
    BY <1>1, <2>1, <2>2 DEF Cursors
  <2>. QED  BY <1>2, <2>3, <2>4 DEF lx, ly
<1>4. tabs' \subseteq 0..(newcol - 1)
  BY <1>1 DEF Resize, AddedTabs, Cols
<1>5. col' = newcol /\ row' = newrow /\ top' = 0 /\ bot' = newrow - 1
      /\ saved' = saved /\ mode' = mode
  BY DEF Resize
<1>. QED
  BY <1>1, <1>3, <1>4, <1>5 DEF CursorInv, CursorTypeOK, CursorInScreen,
     RegionInScreen, TabsInScreen, WrapOnlyAtLastColumn, Cols, Rows

-----------------------------------------------------------------------------
(* main starts with the cursor at the origin.                              *)
LEMMA CursorInit == Init => CursorInv
<1>. SUFFICES ASSUME Init PROVE CursorInv
  OBVIOUS
<1>1. FreshCursor(DefaultPen) \in Cursors /\ FreshCursor(ZeroPen) \in Cursors
  BY PenAssumption DEF FreshCursor, Cursors
<1>. QED
  BY <1>1, SizeAssumption DEF Init, FreshCursor, TabStops, ModeFlags, CursorInv,
     CursorTypeOK, CursorInScreen, RegionInScreen, TabsInScreen,
     WrapOnlyAtLastColumn, Cols, Rows

(* No step of the terminal breaks the invariant.                           *)
LEMMA CursorNextInv == CursorInv /\ [CursorNext]_cvars => CursorInv'
<1>. SUFFICES ASSUME CursorInv, [CursorNext]_cvars PROVE CursorInv'
  OBVIOUS
<1>1. CASE Motion
  BY <1>1, MotionInv
<1>2. CASE Setting
  BY <1>2, SettingInv
<1>3. CASE Text
  BY <1>3, TextInv
<1>4. CASE \E arg \in {47, 1047, 1049}, set \in BOOLEAN : AltScreen(arg, set)
  BY <1>4, AltScreenInv
<1>5. CASE \E set \in BOOLEAN : DECSCNM(set)
  BY <1>5 DEF DECSCNM, SetFlag, ModeFlags, CursorInv, CursorTypeOK,
     CursorInScreen, RegionInScreen, TabsInScreen, WrapOnlyAtLastColumn, Cols, Rows
<1>6. CASE ResetTerm
  BY <1>6, ResetInv
<1>7. CASE \E newcol \in 1..MaxCol, newrow \in 1..MaxRow : Resize(newcol, newrow)
  BY <1>7, ResizeInv
<1>8. CASE UNCHANGED cvars
  BY <1>8 DEF cvars, CursorInv, CursorTypeOK, CursorInScreen, RegionInScreen,
     TabsInScreen, WrapOnlyAtLastColumn, Cols, Rows
<1>. QED
  BY <1>1, <1>2, <1>3, <1>4, <1>5, <1>6, <1>7, <1>8 DEF CursorNext

(* Whatever the application sends and however the window is resized, the   *)
(* cursor, region and tab stops index existing lines and columns.          *)
THEOREM CursorSafe == CursorSpec => []CursorInv
<1>. QED  BY CursorInit, CursorNextInv, PTL DEF CursorSpec

(* The bound on line[y][x] and tabs[x] in particular.                      *)
THEOREM CursorAlwaysInScreen == CursorSpec => []CursorInScreen
<1>1. CursorInv => CursorInScreen
  BY DEF CursorInv
<1>. QED  BY CursorSafe, <1>1, PTL

(* A pending wrap only ever waits at the last column.                      *)
THEOREM WrapAlwaysAtLastColumn == CursorSpec => []WrapOnlyAtLastColumn
<1>1. CursorInv => WrapOnlyAtLastColumn
  BY DEF CursorInv
<1>. QED  BY CursorSafe, <1>1, PTL

(* Output never leaves the scroll region: tputc, tnewline and IND stop at  *)
(* bot, RI at top.                                                         *)
THEOREM TextAlwaysInRegion == CursorSpec => TextStaysInRegion
<1>1. CursorInv /\ [CursorNext]_cvars => [Text /\ InRegion => InRegion']_cvars
  <2>. SUFFICES ASSUME CursorInv, Text, InRegion PROVE InRegion'
    BY DEF cvars
  <2>1. c \in Cursors /\ CursorTypeOK /\ c.x \in Nat /\ c.y \in Nat
        /\ top \in Nat /\ bot \in Nat /\ row \in Nat /\ bot < row
        /\ top <= c.y /\ c.y <= bot
    BY SizeAssumption DEF CursorInv, CursorTypeOK, Cursors, RegionInScreen, InRegion
  <2>2. ASSUME NEW cur \in Cursors, NEW x, NEW y \in top..bot
        PROVE tmoveto(cur, x, y).y = y
    BY <2>1, <2>2 DEF tmoveto, LIMIT, Cursors
  <2>3. ASSUME NEW first PROVE tnewline(c, first).y \in top..bot
    BY <2>1, <2>2 DEF tnewline
  <2>4. CASE Advance
    <3>1. PutAt \in Cursors /\ PutAt.y \in top..bot
      <4>1. tnewline(c, TRUE) \in Cursors
        BY <2>1, NewlineOnScreen
      <4>2. tnewline(c, TRUE).y \in top..bot
        BY <2>3
      <4>3. CASE Wraps
        BY <4>1, <4>2, <4>3 DEF PutAt
      <4>4. CASE ~Wraps
        BY <2>1, <4>4 DEF PutAt
      <4>. QED  BY <4>3, <4>4
    <3>. QED  BY <2>1, <2>2, <2>4, <3>1 DEF Advance, InRegion, Cursors
  <2>5. CASE LineFeed \/ NextLine
    <3>1. c'.y \in top..bot /\ top' = top /\ bot' = bot
      BY <2>3, <2>5, Zenon DEF LineFeed, NextLine
    <3>. QED  BY <2>1, <3>1 DEF InRegion
  <2>6. CASE Index \/ ReverseIndex
    BY <2>1, <2>2, <2>6 DEF Index, ReverseIndex, InRegion
  <2>. QED  BY <2>4, <2>5, <2>6 DEF Text
<1>. QED  BY CursorSafe, <1>1, PTL DEF CursorSpec, TextStaysInRegion

(* The region that the scroll loops run over exists, whatever DECSTBM      *)
(* asked for and however the window was resized since.                     *)
THEOREM RegionAlwaysInScreen == CursorSpec => []RegionInScreen
<1>1. CursorInv => RegionInScreen
  BY DEF CursorInv
<1>. QED  BY CursorSafe, <1>1, PTL

(* HTS and tputtab stay inside tabs: no stop survives beyond the columns.  *)
THEOREM TabsAlwaysInScreen == CursorSpec => []TabsInScreen
<1>1. CursorInv => TabsInScreen
  BY DEF CursorInv
<1>. QED  BY CursorSafe, <1>1, PTL

(* tnewline rewrites the position only.                                    *)
LEMMA NewlineKeeps ==
  ASSUME CursorInv, NEW first \in BOOLEAN, NEW x, NEW y
  PROVE  /\ tnewline(c, first) \in Cursors
         /\ \A f \in {"hide", "gfx", "pen"} :
              /\ tnewline(c, first)[f] = c[f]
              /\ tmoveto(tnewline(c, first), x, y)[f] = c[f]
              /\ tmoveto(c, x, y)[f] = c[f]
<1>1. c \in Cursors
  BY DEF CursorInv, CursorTypeOK
<1>2. tnewline(c, first) \in Cursors
  BY <1>1, NewlineOnScreen DEF CursorInv
<1>. QED  BY <1>1, <1>2 DEF tnewline, tmoveto, Cursors

(* The attributes selected by SGR, SO, SI and DECTCEM last: all the steps  *)
(* that rewrite term.c as a whole bring them along.                        *)
THEOREM AttributesAlwaysKept == CursorSpec => AttributesKept
<1>1. CursorInv /\ [CursorNext]_cvars
      => [Selecting \/ Restoring \/ UNCHANGED Attributes]_cvars
  <2>. SUFFICES ASSUME CursorInv, CursorNext, ~Selecting, ~Restoring
                PROVE  UNCHANGED Attributes
    BY DEF cvars, Attributes
  <2>1. c \in Cursors
    BY DEF CursorInv, CursorTypeOK
  <2>2. CASE Motion
    <3>1. PICK x, y : c' = tmoveto(c, x, y) \/ c' = c
      BY <2>2 DEF Motion, CUU, CUD, CUF, CUB, CNL, CPL, CHA, VPA, CUP, CR, HT, CBT,
         Move, cvars
    <3>. QED  BY <2>1, <3>1 DEF tmoveto, Cursors, Attributes
  <2>3. CASE Setting
    <3>1. PICK x, y : c' = tmoveto(c, x, y) \/ c' = c
      BY <2>3 DEF Setting, Selecting, Restoring, DECSTBM, HTS, TBC, SetMode, SetFlag,
         SaveCursor
    <3>. QED  BY <2>1, <3>1 DEF tmoveto, Cursors, Attributes
  <2>4. CASE Text
    <3>1. CASE Advance
      <4>1. PICK x, y : c' = tmoveto(PutAt, x, y) \/ c' = [PutAt EXCEPT !.wrapnext = TRUE]
        BY <3>1 DEF Advance
      <4>2. PutAt \in Cursors /\ \A f \in {"hide", "gfx", "pen"} : PutAt[f] = c[f]
        BY <2>1, NewlineKeeps DEF PutAt
      <4>. QED  BY <2>1, <4>1, <4>2 DEF tmoveto, Cursors, Attributes
    <3>2. CASE LineFeed \/ NextLine
      <4>1. PICK first \in BOOLEAN : c' = tnewline(c, first)
        <5>1. c' = tnewline(c, TRUE) \/ c' = tnewline(c, FALSE)
          BY <3>2 DEF LineFeed, NextLine, tnewline
        <5>. QED  BY <5>1
      <4>2. /\ tnewline(c, first).hide = c.hide /\ tnewline(c, first).gfx = c.gfx
            /\ tnewline(c, first).pen = c.pen
        BY NewlineKeeps
      <4>. QED  BY <4>1, <4>2 DEF Attributes
    <3>3. CASE Index \/ ReverseIndex
      BY <2>1, <3>3 DEF Index, ReverseIndex, tmoveto, Cursors, Attributes
    <3>. QED  BY <2>4, <3>1, <3>2, <3>3 DEF Text
  <2>5. ASSUME NEW arg \in {47, 1047, 1049}, NEW set \in BOOLEAN, AltScreen(arg, set)
        PROVE  UNCHANGED Attributes
    BY <2>5 DEF AltScreen, Restoring, Attributes
  <2>6. ASSUME NEW set \in BOOLEAN, DECSCNM(set)
        PROVE  UNCHANGED Attributes
    BY <2>6 DEF DECSCNM, SetFlag, Attributes
  <2>7. ASSUME NEW newcol \in 1..MaxCol, NEW newrow \in 1..MaxRow, Resize(newcol, newrow)
        PROVE  UNCHANGED Attributes
    BY <2>1, <2>7 DEF Resize, Cursors, Attributes
  <2>8. ~ResetTerm
    BY DEF Restoring
  <2>. QED  BY <2>2, <2>3, <2>4, <2>5, <2>6, <2>7, <2>8 DEF CursorNext
<1>. QED  BY CursorSafe, <1>1, PTL DEF CursorSpec, AttributesKept

-----------------------------------------------------------------------------
(* The screen: two arrays of lines, dirty marks and the selection.         *)
Contents(l) == l \in [Rows -> [Cols -> Cells]]

(* The inductive invariant of Screen.  CleanRowsShown needs the sizes of   *)
(* the lines (clearing part of a row must leave the others as they are)    *)
(* and, for them, the cursor and the region on the screen.                 *)
ScreenInv ==
  /\ CursorInv
  /\ ScreenTypeOK
  /\ CleanRowsShown

-----------------------------------------------------------------------------
(* Every step of the screen is a step of the cursor's control functions,   *)
(* or leaves the cursor, region, tab stops and modes alone.                *)
LEMMA StepsOfCursor == [ScreenNext]_vars => [CursorNext]_cvars
<1>. SUFFICES ASSUME [ScreenNext]_vars PROVE [CursorNext]_cvars
  OBVIOUS
<1>1. CASE Quiet
  BY <1>1 DEF Quiet, CursorNext
<1>2. CASE Printing
  <2>1. Advance
    BY <1>2 DEF Printing, PutGlyph
  <2>. QED  BY <2>1 DEF CursorNext, Text
<1>3. CASE Scrolling
  <2>1. CASE ScreenLF \/ ScreenNEL \/ ScreenIND \/ ScreenRI
    <3>1. Text
      BY <2>1 DEF ScreenLF, ScreenNEL, ScreenIND, ScreenRI, FeedOrScroll, Text
    <3>. QED  BY <3>1 DEF CursorNext
  <2>2. CASE \E n \in Args : SU(n) \/ SD(n) \/ IL(n) \/ DL(n)
    BY <2>2 DEF SU, SD, IL, DL
  <2>. QED  BY <1>3, <2>1, <2>2 DEF Scrolling
<1>4. CASE Editing
  BY <1>4 DEF Editing, ICH, DCH, ECH, EL, ED, DECALN, cvars
<1>5. CASE Switching
  <2>1. \E arg \in {47, 1047, 1049}, set \in BOOLEAN : AltScreen(arg, set)
    BY <1>5 DEF Switching, ScreenAlt
  <2>. QED  BY <2>1 DEF CursorNext
<1>6. CASE ScreenRIS
  BY <1>6 DEF ScreenRIS, CursorNext
<1>7. CASE Resizing
  <2>1. \E newcol \in 1..MaxCol, newrow \in 1..MaxRow : Resize(newcol, newrow)
    BY <1>7 DEF Resizing, ScreenResize
  <2>. QED  BY <2>1 DEF CursorNext
<1>8. CASE \E set \in BOOLEAN : ScreenDECSCNM(set)
  BY <1>8 DEF ScreenDECSCNM, CursorNext
<1>9. CASE Draw
  BY <1>9 DEF Draw
<1>10. CASE Pointing
  BY <1>10 DEF Pointing, Press, Drag, Release
<1>11. CASE UNCHANGED vars
  BY <1>11 DEF vars, cvars
<1>. QED  BY <1>1, <1>2, <1>3, <1>4, <1>5, <1>6, <1>7, <1>8, <1>9, <1>10, <1>11
          DEF ScreenNext

(* Refinement: whatever the lines and the mouse do, the cursor, the scroll *)
(* region, the tab stops and the modes behave as module Cursor says.       *)
THEOREM ScreenImplementsCursor == Spec => CursorSpec
<1>1. ScreenInit => Init
  BY DEF ScreenInit
<1>. QED  BY <1>1, StepsOfCursor, PTL DEF Spec, CursorSpec

-----------------------------------------------------------------------------
(* The sizes of the lines, and what the helpers return.                    *)

(* The types the arguments below start from.                               *)
LEMMA TypeFacts ==
  ASSUME CursorInv, ScreenTypeOK
  PROVE  /\ Contents(line) /\ Contents(alt) /\ Contents(shown)
         /\ dirty \subseteq Rows
         /\ col \in Nat /\ row \in Nat /\ row > 0 /\ col > 0
         /\ c \in Cursors /\ c.x \in Cols /\ c.y \in Rows
         /\ top \in Rows /\ bot \in Rows /\ top <= bot
  BY SizeAssumption
  DEF CursorInv, CursorTypeOK, CursorInScreen, RegionInScreen, ScreenTypeOK,
      Contents, Lines, Cols, Rows

(* A cleared line, and a glyph with the cursor's attributes, are lines and *)
(* cells.                                                                  *)
LEMMA BlankIsContents ==
  /\ Contents(BlankLines(col, row))
  /\ BlankLine(col) \in [Cols -> Cells]
  BY DEF Contents, BlankLines, BlankLine, Rows, Cols, Cells

(* A character written with the pen is a cell.                             *)
LEMMA GlyphIsCell ==
  ASSUME NEW g \in Glyphs \cup Controls \cup {DECALNGlyph}, NEW cur \in Cursors
  PROVE  <<g, cur.pen, cur.gfx>> \in Cells
<1>1. cur.pen \in Pens /\ cur.gfx \in BOOLEAN
  BY DEF Cursors
<1>. QED  BY <1>1 DEF Cells

(* tclearregion leaves every row outside y1..y2 as it was.                 *)
LEMMA ClearKeeps ==
  ASSUME NEW l, Contents(l), NEW x1, NEW y1, NEW x2, NEW y2
  PROVE  /\ Contents(tclearregion(l, x1, y1, x2, y2))
         /\ \A y \in Rows : y \notin Span(y1, y2, row - 1)
              => tclearregion(l, x1, y1, x2, y2)[y] = l[y]
<1>. DEFINE In(x, y) == y \in Span(y1, y2, row - 1) /\ x \in Span(x1, x2, col - 1)
            cleared == [y \in Rows |-> [x \in Cols |-> IF In(x, y) THEN Blank ELSE l[y][x]]]
<1>1. tclearregion(l, x1, y1, x2, y2) = cleared
  BY DEF tclearregion
<1>2. \A y \in Rows : \A x \in Cols : l[y][x] \in Cells /\ Blank \in Cells
  BY DEF Contents, Cells
<1>3. \A y \in Rows : l[y] = [x \in Cols |-> l[y][x]]
  BY DEF Contents
<1>4. ASSUME NEW y \in Rows, y \notin Span(y1, y2, row - 1)
      PROVE  cleared[y] = l[y]
  <2>1. \A x \in Cols : ~In(x, y)
    BY <1>4
  <2>. HIDE DEF In
  <2>2. [x \in Cols |-> IF In(x, y) THEN Blank ELSE l[y][x]] = [x \in Cols |-> l[y][x]]
    BY <2>1
  <2>. QED  BY <1>3, <2>2
<1>. HIDE DEF In
<1>5. Contents(cleared)
  BY <1>2 DEF Contents
<1>. QED  BY <1>1, <1>4, <1>5

(* A scroll keeps every row it does not mark dirty: each swap of the loop  *)
(* marks both partners, each cleared line is marked.                       *)
LEMMA ScrollUpKeeps ==
  ASSUME ScreenInv, NEW orig \in Rows, orig <= bot, NEW n \in Nat
  PROVE  /\ Contents(ScrolledUp(orig, n))
         /\ UpDirt(orig, n) \subseteq orig..bot
         /\ orig..bot \subseteq Rows
         /\ \A y \in Rows : y \notin orig..bot => ScrolledUp(orig, n)[y] = line[y]
         /\ orig..bot \subseteq UpDirt(orig, n)
<1>1. /\ Contents(line) /\ row \in Nat /\ bot \in Rows /\ orig \in Int /\ bot \in Int
      /\ BlankLine(col) \in [Cols -> Cells]
  BY TypeFacts, BlankIsContents DEF ScreenInv, Rows
<1>. DEFINE k == ScrollCount(orig, n)
<1>2. k \in Nat /\ k <= bot - orig + 1
  BY <1>1 DEF ScrollCount, LIMIT
<1>3. ScrolledUp(orig, n) = [y \in Rows |-> IF Between(y, orig, bot - k) THEN line[y + k]
                     ELSE IF Between(y, orig, bot) THEN BlankLine(col)
                     ELSE line[y]]
  BY DEF ScrolledUp
<1>4. UpDirt(orig, n) = (orig..(orig + k - 1)) \cup (orig..(bot - k)) \cup ((orig + k)..bot)
  BY DEF UpDirt
<1>. HIDE DEF k
<1>5. \A y \in Rows : Between(y, orig, bot - k) => y + k \in Rows
  BY <1>1, <1>2 DEF Between, Rows
<1>6. Contents(ScrolledUp(orig, n))
  BY <1>1, <1>3, <1>5 DEF Contents
<1>7. \A y \in Rows : y \notin orig..bot => ScrolledUp(orig, n)[y] = line[y]
  BY <1>1, <1>2, <1>3 DEF Between, Rows
<1>8. UpDirt(orig, n) \subseteq orig..bot /\ orig..bot \subseteq UpDirt(orig, n)
  BY <1>1, <1>2, <1>4
<1>. QED  BY <1>1, <1>6, <1>7, <1>8 DEF Rows

(* What tscrolldown moves is still lines of the screen.                    *)
LEMMA ScrollDownKeeps ==
  ASSUME ScreenInv, NEW orig \in Rows, orig <= bot, NEW n \in Nat
  PROVE  /\ Contents(ScrolledDown(orig, n))
         /\ DownDirt(orig, n) \subseteq orig..bot
         /\ orig..bot \subseteq Rows
         /\ \A y \in Rows : y \notin orig..bot => ScrolledDown(orig, n)[y] = line[y]
         /\ orig..bot \subseteq DownDirt(orig, n)
<1>1. /\ Contents(line) /\ row \in Nat /\ bot \in Rows /\ orig \in Int /\ bot \in Int
      /\ BlankLine(col) \in [Cols -> Cells]
  BY TypeFacts, BlankIsContents DEF ScreenInv, Rows
<1>. DEFINE k == ScrollCount(orig, n)
<1>2. k \in Nat /\ k <= bot - orig + 1
  BY <1>1 DEF ScrollCount, LIMIT
<1>3. ScrolledDown(orig, n) = [y \in Rows |-> IF Between(y, orig + k, bot) THEN line[y - k]
                     ELSE IF Between(y, orig, bot) THEN BlankLine(col)
                     ELSE line[y]]
  BY DEF ScrolledDown
<1>4. DownDirt(orig, n) = ((bot - k + 1)..bot) \cup ((orig + k)..bot) \cup (orig..(bot - k))
  BY DEF DownDirt
<1>. HIDE DEF k
<1>5. \A y \in Rows : Between(y, orig + k, bot) => y - k \in Rows
  BY <1>1, <1>2 DEF Between, Rows
<1>6. Contents(ScrolledDown(orig, n))
  BY <1>1, <1>3, <1>5 DEF Contents
<1>7. \A y \in Rows : y \notin orig..bot => ScrolledDown(orig, n)[y] = line[y]
  BY <1>1, <1>2, <1>3 DEF Between, Rows
<1>8. DownDirt(orig, n) \subseteq orig..bot /\ orig..bot \subseteq DownDirt(orig, n)
  BY <1>1, <1>2, <1>4
<1>. QED  BY <1>1, <1>6, <1>7, <1>8 DEF Rows

Selections ==
  [on : BOOLEAN, by : Int, ey : Int, b : Int, e : Int, held : BOOLEAN]

(* selscroll yields a selection again.                                     *)
LEMMA SelScrollType ==
  ASSUME ScreenInv, NEW s \in Selections, NEW orig, NEW n \in Int
  PROVE  selscroll(s, orig, n) \in Selections
<1>1. top \in Int /\ bot \in Int
  BY TypeFacts DEF ScreenInv, Rows
<1>2. s.by \in Int /\ s.ey \in Int
  BY DEF Selections
<1>. DEFINE by == IF s.by + n < top THEN top ELSE s.by + n
            ey == IF s.ey + n > bot THEN bot ELSE s.ey + n
<1>3. by \in Int /\ ey \in Int
  BY <1>1, <1>2
<1>4. selscroll(s, orig, n) \in {s, [s EXCEPT !.on = FALSE],
                                 [s EXCEPT !.by = by, !.ey = ey, !.b = by, !.e = ey]}
  BY DEF selscroll
<1>. HIDE DEF by, ey
<1>. QED  BY <1>3, <1>4 DEF Selections

-----------------------------------------------------------------------------
(* The rows painted and the rows marked dirty, step by step.               *)

(* A step that changes only rows it marks dirty.                           *)
LEMMA EditStep ==
  ASSUME ScreenInv, NEW l, Contents(l), NEW rows, rows \subseteq Rows,
         \A y \in Rows : y \notin rows => l[y] = line[y],
         Edit(l, rows), sel' \in Selections,
         UNCHANGED <<col, row>>
  PROVE  ScreenTypeOK' /\ CleanRowsShown'
<1>1. Rows' = Rows /\ Cols' = Cols
  BY DEF Rows, Cols
<1>2. Contents(line) /\ Contents(alt) /\ Contents(shown) /\ dirty \subseteq Rows
  BY TypeFacts DEF ScreenInv
<1>3. line' = l /\ alt' = alt /\ shown' = shown /\ dirty' = dirty \cup rows
  BY DEF Edit
<1>4. ScreenTypeOK'
  BY <1>1, <1>2, <1>3 DEF ScreenTypeOK, Contents, Lines, Rows, Cols, Selections
<1>5. CleanRowsShown'
  BY <1>1, <1>3 DEF CleanRowsShown, ScreenInv
<1>. QED  BY <1>4, <1>5

(* A step that leaves the lines and repaints nothing but lines.            *)
LEMMA PaintStep ==
  ASSUME ScreenInv, NEW rows, UNCHANGED <<line, alt, col, row>>,
         shown' = Paint(rows), dirty \subseteq rows, dirty' \subseteq Rows,
         sel' \in Selections
  PROVE  ScreenTypeOK' /\ CleanRowsShown'
<1>1. Rows' = Rows /\ Cols' = Cols
  BY DEF Rows, Cols
<1>2. Contents(line) /\ Contents(alt) /\ Contents(shown)
  BY TypeFacts DEF ScreenInv
<1>3. Contents(Paint(rows))
  BY <1>2 DEF Paint, Contents
<1>4. ScreenTypeOK'
  BY <1>1, <1>2, <1>3 DEF ScreenTypeOK, Contents, Lines, Rows, Cols, Selections
<1>5. ASSUME NEW y \in Rows PROVE Paint(rows)[y] = line[y]
  <2>1. CASE y \in rows
    BY <2>1 DEF Paint
  <2>2. CASE y \notin rows
    BY <2>2 DEF Paint, CleanRowsShown, ScreenInv
  <2>. QED  BY <2>1, <2>2
<1>6. CleanRowsShown'
  BY <1>1, <1>5 DEF CleanRowsShown
<1>. QED  BY <1>4, <1>6

(* A step that leaves the lines and what is painted, and clears no flag.   *)
LEMMA FlagStep ==
  ASSUME ScreenInv, UNCHANGED <<line, alt, shown, col, row>>,
         dirty \subseteq dirty', dirty' \subseteq Rows, sel' \in Selections
  PROVE  ScreenTypeOK' /\ CleanRowsShown'
<1>1. Rows' = Rows /\ Cols' = Cols
  BY DEF Rows, Cols
<1>2. Contents(line) /\ Contents(alt) /\ Contents(shown)
  BY TypeFacts DEF ScreenInv
<1>3. ScreenTypeOK'
  BY <1>1, <1>2 DEF ScreenTypeOK, Contents, Lines, Rows, Cols, Selections
<1>4. CleanRowsShown'
  BY <1>1 DEF CleanRowsShown, ScreenInv
<1>. QED  BY <1>3, <1>4

(* The selection is one of the selections.                                 *)
LEMMA SelType == ScreenInv => sel \in Selections
  BY DEF ScreenInv, ScreenTypeOK, Selections

(* tscrollup flags every row that it moves.                                *)
LEMMA ScrollUpStep ==
  ASSUME ScreenInv, NEW orig \in Rows, orig <= bot, NEW n \in Nat,
         ScrollUp(orig, n), UNCHANGED <<col, row>>
  PROVE  ScreenTypeOK' /\ CleanRowsShown'
<1>1. -ScrollCount(orig, n) \in Int
  BY TypeFacts DEF ScreenInv, ScrollCount, LIMIT, Rows
<1>2. sel' \in Selections
  BY <1>1, SelType, SelScrollType DEF ScrollUp
<1>3. UpDirt(orig, n) \subseteq Rows
  BY ScrollUpKeeps
<1>4. \A y \in Rows : y \notin UpDirt(orig, n) => ScrolledUp(orig, n)[y] = line[y]
  BY ScrollUpKeeps
<1>5. Contents(ScrolledUp(orig, n))
  BY ScrollUpKeeps
<1>. QED  BY <1>2, <1>3, <1>4, <1>5, EditStep DEF ScrollUp

(* tscrolldown flags every row that it moves.                              *)
LEMMA ScrollDownStep ==
  ASSUME ScreenInv, NEW orig \in Rows, orig <= bot, NEW n \in Nat,
         ScrollDown(orig, n), UNCHANGED <<col, row>>
  PROVE  ScreenTypeOK' /\ CleanRowsShown'
<1>1. ScrollCount(orig, n) \in Int
  BY TypeFacts DEF ScreenInv, ScrollCount, LIMIT, Rows
<1>2. sel' \in Selections
  BY <1>1, SelType, SelScrollType DEF ScrollDown
<1>3. DownDirt(orig, n) \subseteq Rows
  BY ScrollDownKeeps
<1>4. \A y \in Rows : y \notin DownDirt(orig, n) => ScrolledDown(orig, n)[y] = line[y]
  BY ScrollDownKeeps
<1>5. Contents(ScrolledDown(orig, n))
  BY ScrollDownKeeps
<1>. QED  BY <1>2, <1>3, <1>4, <1>5, EditStep DEF ScrollDown

(* All control functions that scroll.                                      *)
LEMMA ScrollingStep == ScreenInv /\ Scrolling => ScreenTypeOK' /\ CleanRowsShown'
<1>. SUFFICES ASSUME ScreenInv, Scrolling PROVE ScreenTypeOK' /\ CleanRowsShown'
  OBVIOUS
<1>1. top \in Rows /\ top <= bot /\ c.y \in Rows /\ 1 \in Nat
  BY TypeFacts DEF ScreenInv
<1>2. ASSUME UNCHANGED lvars, UNCHANGED <<col, row>>
      PROVE  ScreenTypeOK' /\ CleanRowsShown'
  <2>1. UNCHANGED <<line, alt, shown, dirty, sel>>
    BY <1>2 DEF lvars
  <2>2. sel \in Selections /\ dirty \subseteq Rows
    BY SelType, TypeFacts DEF ScreenInv
  <2>. QED  BY <1>2, <2>1, <2>2, FlagStep
<1>3. ASSUME NEW feed, FeedOrScroll(feed), UNCHANGED <<col, row>>
      PROVE  ScreenTypeOK' /\ CleanRowsShown'
  BY <1>1, <1>2, <1>3, ScrollUpStep DEF FeedOrScroll
<1>4. CASE ScreenLF
  <2>1. UNCHANGED <<col, row>>
    BY <1>4 DEF ScreenLF, FeedOrScroll, LineFeed
  <2>. QED  BY <1>3, <1>4, <2>1 DEF ScreenLF
<1>5. CASE ScreenNEL
  <2>1. UNCHANGED <<col, row>>
    BY <1>5 DEF ScreenNEL, FeedOrScroll, NextLine
  <2>. QED  BY <1>3, <1>5, <2>1 DEF ScreenNEL
<1>6. CASE ScreenIND
  <2>1. UNCHANGED <<col, row>>
    BY <1>6 DEF ScreenIND, FeedOrScroll, Index
  <2>. QED  BY <1>3, <1>6, <2>1 DEF ScreenIND
<1>7. CASE ScreenRI
  <2>1. UNCHANGED <<col, row>>
    BY <1>7 DEF ScreenRI, ReverseIndex
  <2>. QED  BY <1>1, <1>2, <1>7, <2>1, ScrollDownStep DEF ScreenRI
<1>8. ASSUME NEW n \in Args, SU(n) \/ SD(n) \/ IL(n) \/ DL(n)
      PROVE  ScreenTypeOK' /\ CleanRowsShown'
  <2>1. n \in Nat
    BY DEF Args
  <2>2. UNCHANGED <<col, row>>
    BY <1>8 DEF SU, SD, IL, DL, cvars
  <2>3. InRegion => c.y <= bot
    BY DEF InRegion
  <2>4. CASE SU(n)
    BY <1>1, <2>1, <2>2, <2>4, ScrollUpStep DEF SU
  <2>5. CASE SD(n)
    BY <1>1, <2>1, <2>2, <2>5, ScrollDownStep DEF SD
  <2>6. CASE IL(n)
    BY <1>1, <2>1, <2>2, <2>3, <2>6, ScrollDownStep DEF IL
  <2>7. CASE DL(n)
    BY <1>1, <2>1, <2>2, <2>3, <2>7, ScrollUpStep DEF DL
  <2>. QED  BY <1>8, <2>4, <2>5, <2>6, <2>7
<1>. QED  BY <1>4, <1>5, <1>6, <1>7, <1>8 DEF Scrolling

(* Writing one cell changes one row.                                       *)
LEMMA PutCell ==
  ASSUME NEW l, Contents(l), NEW y \in Rows, NEW x \in Cols, NEW cell \in Cells
  PROVE  /\ Contents([l EXCEPT ![y][x] = cell])
         /\ \A z \in Rows : z # y => [l EXCEPT ![y][x] = cell][z] = l[z]
<1>1. [l[y] EXCEPT ![x] = cell] \in [Cols -> Cells]
  BY DEF Contents
<1>2. [l EXCEPT ![y][x] = cell] = [l EXCEPT ![y] = [l[y] EXCEPT ![x] = cell]]
  OBVIOUS
<1>. DEFINE m == [l[y] EXCEPT ![x] = cell]
<1>. HIDE DEF m
<1>3. Contents([l EXCEPT ![y] = m]) /\ \A z \in Rows : z # y => [l EXCEPT ![y] = m][z] = l[z]
  BY <1>1 DEF Contents, m
<1>. QED  BY <1>2, <1>3 DEF m

(* Text, erasing, inserting and deleting in a line.                        *)
LEMMA PrintingStep == ScreenInv /\ Printing => ScreenTypeOK' /\ CleanRowsShown'
<1>. SUFFICES ASSUME ScreenInv, NEW g \in Glyphs \cup Controls, PutGlyph(g)
              PROVE  ScreenTypeOK' /\ CleanRowsShown'
  BY DEF Printing
<1>1. /\ c \in Cursors /\ c.x \in Cols /\ c.y \in Rows /\ top \in Rows /\ top <= bot
      /\ Contents(line) /\ CursorTypeOK /\ 1 \in Nat
  BY TypeFacts DEF ScreenInv, CursorInv
<1>2. PutAt \in Cursors /\ PutAt.x \in Cols /\ PutAt.y \in Rows
  BY <1>1, NewlineOnScreen DEF PutAt
<1>. DEFINE scrolls == Wraps /\ c.y = bot
            l == IF scrolls THEN ScrolledUp(top, 1) ELSE line
            rows == {PutAt.y} \cup IF scrolls THEN UpDirt(top, 1) ELSE {}
            cell == <<g, c.pen, c.gfx>>
            kept == IF sel.on /\ Between(c.y, sel.by, sel.ey)
                    THEN [sel EXCEPT !.on = FALSE] ELSE sel
            l2 == [l EXCEPT ![PutAt.y][PutAt.x] = cell]
<1>3. Edit(l2, rows) /\ sel' = IF scrolls THEN selscroll(kept, top, -1) ELSE kept
  BY DEF PutGlyph
<1>4. cell \in Cells
  BY <1>1, GlyphIsCell
<1>5. /\ Contents(l)
      /\ \A y \in Rows : y \notin rows => l[y] = line[y]
      /\ rows \subseteq Rows
  <2>1. CASE scrolls
    BY <1>1, <1>2, <2>1, ScrollUpKeeps
  <2>2. CASE ~scrolls
    BY <1>1, <1>2, <2>2
  <2>. QED  BY <2>1, <2>2
<1>6. UNCHANGED <<col, row>>
  BY DEF PutGlyph, Advance
<1>7. sel' \in Selections
  <2>1. kept \in Selections
    BY SelType DEF Selections
  <2>. HIDE DEF kept, scrolls
  <2>. QED  BY <1>3, <2>1, SelScrollType
<1>8. PutAt.y \in rows
  OBVIOUS
<1>. HIDE DEF l, rows, cell
<1>9. Contents(l2) /\ \A y \in Rows : y \notin rows => l2[y] = line[y]
  <2>1. Contents(l2) /\ \A y \in Rows : y # PutAt.y => l2[y] = l[y]
    BY <1>2, <1>4, <1>5, PutCell
  <2>. QED  BY <1>5, <1>8, <2>1
<1>. HIDE DEF l2
<1>. QED  BY <1>3, <1>5, <1>6, <1>7, <1>9, EditStep

(* Rows cleared or edited on one line, or on several.                      *)
LEMMA EditingStep == ScreenInv /\ Editing => ScreenTypeOK' /\ CleanRowsShown'
<1>. SUFFICES ASSUME ScreenInv, Editing PROVE ScreenTypeOK' /\ CleanRowsShown'
  OBVIOUS
<1>1. /\ c \in Cursors /\ c.x \in Cols /\ c.y \in Rows /\ Contents(line)
      /\ col \in Nat /\ row \in Nat /\ Blank \in Cells
  BY TypeFacts DEF ScreenInv, Cells
<1>2. UNCHANGED <<col, row>>
  BY DEF Editing, ICH, DCH, ECH, EL, ED, DECALN, cvars
<1>3. sel \in Selections /\ [sel EXCEPT !.on = FALSE] \in Selections
  BY SelType DEF Selections
<1>4. c.x \in Int /\ c.y \in Int /\ \A y \in Rows : y \in Int
  BY <1>1 DEF Cols, Rows
<1>5. ASSUME NEW cells \in [Cols -> Cells],
             Edit([line EXCEPT ![c.y] = cells], {c.y}), UNCHANGED sel
      PROVE  ScreenTypeOK' /\ CleanRowsShown'
  <2>1. Contents([line EXCEPT ![c.y] = cells])
    BY <1>1 DEF Contents
  <2>2. \A y \in Rows : y \notin {c.y} => [line EXCEPT ![c.y] = cells][y] = line[y]
    BY <1>1 DEF Contents
  <2>3. {c.y} \subseteq Rows
    BY <1>1
  <2>. QED  BY <1>2, <1>3, <1>5, <2>1, <2>2, <2>3, EditStep
<1>6. \A x \in Cols : line[c.y][x] \in Cells
  BY <1>1 DEF Contents
<1>7. ASSUME NEW n \in Args, ICH(n) PROVE ScreenTypeOK' /\ CleanRowsShown'
  <2>. DEFINE cells == [x \in Cols |-> IF x < c.x THEN line[c.y][x]
                          ELSE IF x < c.x + n THEN Blank ELSE line[c.y][x - n]]
  <2>1. n \in Nat /\ n > 0
    BY DEF Args
  <2>2. \A x \in Cols : ~(x < c.x + n) => x - n \in Cols
    BY <1>4, <1>1, <2>1 DEF Cols
  <2>3. cells \in [Cols -> Cells]
    BY <1>1, <1>6, <2>2
  <2>4. Edit([line EXCEPT ![c.y] = cells], {c.y}) /\ UNCHANGED sel
    BY <1>1, <1>7 DEF ICH, Contents
  <2>. HIDE DEF cells
  <2>. QED  BY <1>5, <2>3, <2>4
<1>8. ASSUME NEW n \in Args, DCH(n) PROVE ScreenTypeOK' /\ CleanRowsShown'
  <2>. DEFINE cells == [x \in Cols |-> IF x < c.x THEN line[c.y][x]
                          ELSE IF x + n < col THEN line[c.y][x + n] ELSE Blank]
  <2>1. n \in Nat /\ n > 0
    BY DEF Args
  <2>2. \A x \in Cols : x + n < col => x + n \in Cols
    BY <1>1, <2>1 DEF Cols
  <2>3. cells \in [Cols -> Cells]
    BY <1>1, <1>6, <2>2
  <2>4. Edit([line EXCEPT ![c.y] = cells], {c.y}) /\ UNCHANGED sel
    BY <1>1, <1>8 DEF DCH, Contents
  <2>. HIDE DEF cells
  <2>. QED  BY <1>5, <2>3, <2>4
<1>9. ASSUME NEW x1, NEW x2, Edit(tclearregion(line, x1, c.y, x2, c.y), {c.y}),
             UNCHANGED sel
      PROVE  ScreenTypeOK' /\ CleanRowsShown'
  <2>1. Span(c.y, c.y, row - 1) = {c.y}
    BY <1>1, <1>4 DEF Span, LIMIT, Rows
  <2>2. /\ Contents(tclearregion(line, x1, c.y, x2, c.y))
        /\ \A y \in Rows : y \notin {c.y} => tclearregion(line, x1, c.y, x2, c.y)[y] = line[y]
    BY <1>1, <2>1, ClearKeeps
  <2>3. {c.y} \subseteq Rows
    BY <1>1
  <2>. QED  BY <1>2, <1>3, <1>9, <2>2, <2>3, EditStep
<1>10. ASSUME NEW n \in Args, ECH(n) PROVE ScreenTypeOK' /\ CleanRowsShown'
  BY <1>9, <1>10 DEF ECH
<1>11. ASSUME NEW k \in 0..2, EL(k) PROVE ScreenTypeOK' /\ CleanRowsShown'
  BY <1>9, <1>11 DEF EL
<1>12. ASSUME NEW k \in 0..2, ED(k) PROVE ScreenTypeOK' /\ CleanRowsShown'
  <2>1. /\ Contents(EDLines(k)) /\ EDDirt(k) \subseteq Rows
        /\ \A y \in Rows : y \notin EDDirt(k) => EDLines(k)[y] = line[y]
    <3>1. Span(c.y, c.y, row - 1) = {c.y}
      BY <1>1, <1>4 DEF Span, LIMIT, Rows
    <3>2. CASE k = 0
      <4>. DEFINE l == tclearregion(line, c.x, c.y, col - 1, c.y)
                  m == tclearregion(l, 0, c.y + 1, col - 1, row - 1)
      <4>1. Contents(l) /\ \A y \in Rows : y \notin {c.y} => l[y] = line[y]
        BY <1>1, <3>1, ClearKeeps
      <4>. HIDE DEF l
      <4>2. /\ Contents(m)
            /\ \A y \in Rows : y \notin Span(c.y + 1, row - 1, row - 1) => m[y] = l[y]
        BY <4>1, ClearKeeps
      <4>. HIDE DEF m
      <4>3. c.y < row - 1 => Span(c.y + 1, row - 1, row - 1) \subseteq c.y..(row - 1)
        BY <1>1, <1>4 DEF Span, LIMIT, Rows
      <4>4. EDDirt(k) = c.y..(row - 1) /\ EDDirt(k) \subseteq Rows /\ c.y \in EDDirt(k)
        BY <3>2, <1>1, <1>4 DEF EDDirt, Rows
      <4>5. EDLines(k) = IF c.y < row - 1 THEN m ELSE l
        BY <3>2 DEF EDLines, l, m
      <4>. QED  BY <4>1, <4>2, <4>3, <4>4, <4>5
    <3>3. CASE k = 1
      <4>. DEFINE full == tclearregion(line, 0, 0, col - 1, c.y - 1)
                  l == IF c.y > 1 THEN full ELSE line
                  m == tclearregion(l, 0, c.y, c.x, c.y)
      <4>1. /\ Contents(full)
            /\ \A y \in Rows : y \notin Span(0, c.y - 1, row - 1) => full[y] = line[y]
        BY <1>1, ClearKeeps
      <4>. HIDE DEF full
      <4>2. Contents(l)
        BY <1>1, <4>1
      <4>3. c.y > 1 => Span(0, c.y - 1, row - 1) \subseteq 0..c.y
        BY <1>1, <1>4 DEF Span, LIMIT, Rows
      <4>4. \A y \in Rows : y \notin (IF c.y > 1 THEN 0..c.y ELSE {c.y}) => l[y] = line[y]
        BY <4>1, <4>3
      <4>. HIDE DEF l
      <4>5. Contents(m) /\ \A y \in Rows : y \notin {c.y} => m[y] = l[y]
        BY <4>2, <3>1, ClearKeeps
      <4>6. EDLines(k) = m
        BY <3>3 DEF EDLines, full, l, m
      <4>. HIDE DEF m
      <4>7. /\ EDDirt(k) = IF c.y > 1 THEN 0..c.y ELSE {c.y}
            /\ EDDirt(k) \subseteq Rows /\ c.y \in EDDirt(k)
        BY <3>3, <1>1, <1>4 DEF EDDirt, Rows
      <4>. QED  BY <4>4, <4>5, <4>6, <4>7
    <3>4. CASE k = 2
      BY <3>4, <1>1, ClearKeeps DEF EDLines, EDDirt
    <3>. QED  BY <3>2, <3>3, <3>4
  <2>. QED  BY <1>2, <1>3, <1>12, <2>1, EditStep DEF ED
<1>13. CASE DECALN
  <2>. DEFINE es == [y \in Rows |-> [x \in Cols |-> <<DECALNGlyph, c.pen, c.gfx>>]]
  <2>1. Contents(es)
    BY <1>1, GlyphIsCell DEF Contents
  <2>2. Edit(es, Rows) /\ UNCHANGED sel
    BY <1>13 DEF DECALN
  <2>. HIDE DEF es
  <2>. QED  BY <1>2, <1>3, <2>1, <2>2, EditStep
<1>. QED  BY <1>7, <1>8, <1>10, <1>11, <1>12, <1>13 DEF Editing

(* Exchanging the screens, wiping one and resetting mark every row.        *)
LEMMA SwitchingStep == ScreenInv /\ Switching => ScreenTypeOK' /\ CleanRowsShown'
<1>. SUFFICES ASSUME ScreenInv, NEW arg, NEW set \in BOOLEAN, ScreenAlt(arg, set)
              PROVE  ScreenTypeOK' /\ CleanRowsShown'
  BY DEF Switching
<1>. DEFINE inAlt == "ALTSCREEN" \in mode
            l == IF inAlt THEN BlankLines(col, row) ELSE line
<1>1. /\ Contents(line) /\ Contents(alt) /\ Contents(shown)
      /\ dirty \subseteq Rows /\ sel \in Selections
  BY TypeFacts, SelType DEF ScreenInv
<1>2. UNCHANGED <<col, row, shown, sel>>
  BY DEF ScreenAlt, AltScreen
<1>3. Contents(l)
  BY <1>1, BlankIsContents
<1>4. /\ line' = IF set # inAlt THEN alt ELSE l
      /\ alt' = IF set # inAlt THEN l ELSE alt
      /\ dirty' = IF set \/ inAlt THEN Rows ELSE dirty
  BY DEF ScreenAlt
<1>5. ~(set \/ inAlt) => line' = line
  BY <1>4
<1>6. dirty' \subseteq Rows
  BY <1>1, <1>4
<1>. HIDE DEF l
<1>7. Contents(line') /\ Contents(alt')
  BY <1>1, <1>3, <1>4
<1>8. Rows' = Rows /\ Cols' = Cols
  BY <1>2 DEF Rows, Cols
<1>9. ScreenTypeOK'
  BY <1>1, <1>2, <1>6, <1>7, <1>8
  DEF ScreenTypeOK, Contents, Lines, Rows, Cols, Selections
<1>10. CleanRowsShown'
  <2>1. CASE set \/ inAlt
    BY <1>4, <1>8, <2>1 DEF CleanRowsShown
  <2>2. CASE ~(set \/ inAlt)
    BY <1>2, <1>4, <1>5, <1>8, <2>2 DEF CleanRowsShown, ScreenInv
  <2>. QED  BY <2>1, <2>2
<1>. QED  BY <1>9, <1>10

(* RIS clears and flags the whole screen.                                  *)
LEMMA ResetStep == ScreenInv /\ ScreenRIS => ScreenTypeOK' /\ CleanRowsShown'
<1>. SUFFICES ASSUME ScreenInv, ScreenRIS PROVE ScreenTypeOK' /\ CleanRowsShown'
  OBVIOUS
<1>1. UNCHANGED <<col, row, sel>> /\ Edit(BlankLines(col, row), Rows)
  BY DEF ScreenRIS, ResetTerm
<1>2. sel' \in Selections
  BY <1>1, SelType
<1>. QED  BY <1>1, <1>2, BlankIsContents, EditStep

(* tresize keeps both screens at the new size and repaints everything.     *)
LEMMA ResizedType ==
  ASSUME NEW l, Contents(l), CursorInv, NEW newcol \in 1..MaxCol, NEW newrow \in 1..MaxRow
  PROVE  Resized(l, newcol, newrow) \in Lines(newcol, newrow, Cells)
<1>1. /\ c.y \in Int /\ newrow \in Int /\ newcol \in Int
      /\ row \in Int /\ col \in Int
  BY SizeAssumption DEF CursorInv, CursorTypeOK, Cursors
<1>2. Slide(newrow) \in Nat
  BY <1>1 DEF Slide
<1>. DEFINE k == Slide(newrow)
<1>. HIDE DEF k
<1>3. ASSUME NEW y \in 0..(newrow - 1), NEW x \in 0..(newcol - 1)
      PROVE  (IF y + k < row /\ x < col THEN l[y + k][x] ELSE Blank) \in Cells
  <2>1. k \in Nat
    BY <1>2 DEF k
  <2>2. CASE y + k < row /\ x < col
    <3>1. y + k \in Rows /\ x \in Cols
      BY <1>1, <2>1, <2>2 DEF Rows, Cols
    <3>. QED  BY <2>2, <3>1 DEF Contents
  <2>3. CASE ~(y + k < row /\ x < col)
    BY <2>3 DEF Cells
  <2>. QED  BY <2>2, <2>3
<1>4. Resized(l, newcol, newrow) =
        [y \in 0..(newrow - 1) |-> [x \in 0..(newcol - 1) |->
           IF y + k < row /\ x < col THEN l[y + k][x] ELSE Blank]]
  BY DEF Resized, k
<1>. QED  BY <1>3, <1>4 DEF Lines

(* tresize flags every row of the new screen.                              *)
LEMMA ResizingStep == ScreenInv /\ Resizing => ScreenTypeOK' /\ CleanRowsShown'
<1>. SUFFICES ASSUME ScreenInv, NEW newcol \in 1..MaxCol, NEW newrow \in 1..MaxRow,
                     ScreenResize(newcol, newrow)
              PROVE  ScreenTypeOK' /\ CleanRowsShown'
  BY DEF Resizing
<1>1. /\ col' = newcol /\ row' = newrow /\ sel' = sel
      /\ line' = Resized(line, newcol, newrow) /\ alt' = Resized(alt, newcol, newrow)
      /\ dirty' = 0..(newrow - 1) /\ shown' = BlankLines(newcol, newrow)
  BY DEF ScreenResize, Resize
<1>2. Contents(line) /\ Contents(alt) /\ sel \in Selections
  BY TypeFacts, SelType DEF ScreenInv
<1>3. line' \in Lines(newcol, newrow, Cells) /\ alt' \in Lines(newcol, newrow, Cells)
  BY <1>1, <1>2, ResizedType DEF ScreenInv
<1>4. shown' \in Lines(newcol, newrow, Cells)
  BY <1>1 DEF BlankLines, BlankLine, Lines, Cells
<1>5. Rows' = 0..(newrow - 1)
  BY <1>1 DEF Rows
<1>6. ScreenTypeOK'
  BY <1>1, <1>2, <1>3, <1>4, <1>5 DEF ScreenTypeOK, Selections
<1>7. CleanRowsShown'
  BY <1>1, <1>5 DEF CleanRowsShown
<1>. QED  BY <1>6, <1>7

(* draw, and the redraw of DECSCNM, paint every row they unmark.           *)
LEMMA DrawStep == ScreenInv /\ Draw => ScreenTypeOK' /\ CleanRowsShown'
<1>. SUFFICES ASSUME ScreenInv, Draw PROVE ScreenTypeOK' /\ CleanRowsShown'
  OBVIOUS
<1>1. /\ UNCHANGED <<line, alt, col, row, sel>> /\ shown' = Paint(dirty)
      /\ dirty' \subseteq Rows
  BY DEF Draw, cvars
<1>2. sel' \in Selections
  BY <1>1, SelType
<1>. QED  BY <1>1, <1>2, PaintStep

(* DECSCNM flags every row and draws it.                                   *)
LEMMA ReverseStep ==
  ASSUME ScreenInv, NEW set \in BOOLEAN, ScreenDECSCNM(set)
  PROVE  ScreenTypeOK' /\ CleanRowsShown'
<1>1. UNCHANGED <<line, alt, col, row, sel>>
  BY DEF ScreenDECSCNM, DECSCNM, SetFlag
<1>2. sel' \in Selections /\ dirty \subseteq Rows
  BY <1>1, SelType, TypeFacts DEF ScreenInv
<1>3. CASE UNCHANGED <<dirty, shown>>
  BY <1>1, <1>2, <1>3, FlagStep
<1>4. CASE dirty' = {} /\ shown' = Paint(Rows)
  BY <1>1, <1>2, <1>4, PaintStep
<1>5. CASE dirty' = Rows /\ UNCHANGED shown
  BY <1>1, <1>2, <1>5, FlagStep
<1>. QED  BY <1>3, <1>4, <1>5 DEF ScreenDECSCNM

(* The mouse marks rows of the screen wherever the selection is.           *)
LEMMA PointingStep == ScreenInv /\ Pointing => ScreenTypeOK' /\ CleanRowsShown'
<1>. SUFFICES ASSUME ScreenInv, NEW y \in Rows,
                     Press(y) \/ Drag(y) \/ \E on \in BOOLEAN : Release(y, on)
              PROVE  ScreenTypeOK' /\ CleanRowsShown'
  BY DEF Pointing
<1>1. /\ dirty \subseteq Rows /\ sel \in Selections /\ row \in Nat /\ row > 0
      /\ y \in Int
  BY TypeFacts, SelType DEF ScreenInv, Rows
<1>2. UNCHANGED <<line, alt, col, row>>
  BY DEF Press, Drag, Release, cvars
<1>3. ASSUME NEW t \in Int, NEW b \in Int PROVE DirtRows(t, b) \subseteq Rows
  <2>1. row - 1 \in Nat
    BY <1>1
  <2>2. LIMIT(t, 0, row - 1) \in 0..(row - 1) /\ LIMIT(b, 0, row - 1) \in 0..(row - 1)
    BY <2>1, LimitRange
  <2>. QED  BY <2>1, <2>2 DEF DirtRows, Rows
<1>4. /\ sel.b \in Int /\ sel.e \in Int /\ sel.by \in Int /\ sel.ey \in Int
  BY <1>1 DEF Selections
<1>5. MovedTo(y) \in Selections
  BY <1>1, <1>4 DEF MovedTo, Selections
<1>6. CASE Press(y)
  <2>1. sel' \in Selections
    BY <1>1, <1>6 DEF Press, Selections
  <2>2. CASE sel.on
    <3>. DEFINE rows == dirty \cup DirtRows(sel.b, sel.e)
    <3>1. shown' = Paint(rows) /\ dirty' = {}
      BY <1>6, <2>2 DEF Press
    <3>2. dirty \subseteq rows
      OBVIOUS
    <3>. HIDE DEF rows
    <3>. QED  BY <1>2, <2>1, <3>1, <3>2, PaintStep
  <2>3. CASE ~sel.on
    <3>1. UNCHANGED <<dirty, shown>>
      BY <1>6, <2>3 DEF Press
    <3>. QED  BY <1>1, <1>2, <2>1, <3>1, FlagStep
  <2>. QED  BY <2>2, <2>3
<1>7. CASE Drag(y)
  <2>1. sel' \in Selections /\ UNCHANGED shown
    BY <1>5, <1>7 DEF Drag
  <2>2. dirty \subseteq dirty' /\ dirty' \subseteq Rows
    BY <1>1, <1>3, <1>4, <1>7 DEF Drag
  <2>. QED  BY <1>2, <2>1, <2>2, FlagStep
<1>8. ASSUME NEW on \in BOOLEAN, Release(y, on)
      PROVE  ScreenTypeOK' /\ CleanRowsShown'
  <2>1. sel' \in Selections
    BY <1>5, <1>8 DEF Release, Selections
  <2>2. UNCHANGED shown /\ dirty \subseteq dirty' /\ dirty' \subseteq Rows
    BY <1>1, <1>8 DEF Release
  <2>. QED  BY <1>2, <2>1, <2>2, FlagStep
<1>. QED  BY <1>6, <1>7, <1>8

(* What touches no line.                                                   *)
LEMMA QuietStep == ScreenInv /\ Quiet => ScreenTypeOK' /\ CleanRowsShown'
<1>. SUFFICES ASSUME ScreenInv, Quiet PROVE ScreenTypeOK' /\ CleanRowsShown'
  OBVIOUS
<1>1. UNCHANGED <<line, alt, shown, dirty, sel>>
  BY DEF Quiet, lvars
<1>2. UNCHANGED <<col, row>>
  <2>1. CASE Motion
    BY <2>1 DEF Motion, CUU, CUD, CUF, CUB, CNL, CPL, CHA, VPA, CUP, CR, HT, CBT,
         Move, cvars
  <2>2. CASE Setting
    BY <2>2 DEF Setting, DECSTBM, HTS, TBC, SGR, Charset, DECTCEM, SetMode, SetFlag,
         SaveCursor, LoadCursor
  <2>. QED  BY <2>1, <2>2 DEF Quiet
<1>3. sel' \in Selections /\ dirty' \subseteq Rows
  BY <1>1, SelType, TypeFacts DEF ScreenInv
<1>. QED  BY <1>1, <1>2, <1>3, FlagStep

(* The blank screen, not drawn yet, satisfies the invariant.               *)
LEMMA ScreenInitInv == ScreenInit => ScreenInv
<1>. SUFFICES ASSUME ScreenInit PROVE ScreenInv
  OBVIOUS
<1>1. CursorInv
  BY CursorInit DEF ScreenInit
<1>2. col = InitCol /\ row = InitRow /\ Rows = 0..(InitRow - 1)
  BY DEF ScreenInit, Init, Rows
<1>3. alt \in Lines(InitCol, InitRow, Cells)
  BY DEF ScreenInit, Lines, Cells
<1>4. BlankLines(InitCol, InitRow) \in Lines(InitCol, InitRow, Cells)
  BY DEF BlankLines, BlankLine, Lines, Cells
<1>5. ScreenTypeOK
  BY <1>2, <1>3, <1>4 DEF ScreenInit, ScreenTypeOK, FirstSelection
<1>6. CleanRowsShown
  BY DEF ScreenInit, CleanRowsShown
<1>. QED  BY <1>1, <1>5, <1>6 DEF ScreenInv

(* No step of the terminal breaks the invariant.                           *)
LEMMA ScreenNextInv == ScreenInv /\ [ScreenNext]_vars => ScreenInv'
<1>. SUFFICES ASSUME ScreenInv, [ScreenNext]_vars PROVE ScreenInv'
  OBVIOUS
<1>1. CursorInv'
  BY StepsOfCursor, CursorNextInv DEF ScreenInv
<1>2. ScreenTypeOK' /\ CleanRowsShown'
  <2>1. CASE UNCHANGED vars
    BY <2>1 DEF vars, ScreenInv, ScreenTypeOK, CleanRowsShown, Lines, Rows
  <2>. QED  BY <2>1, QuietStep, PrintingStep, ScrollingStep, EditingStep, SwitchingStep,
               ResetStep, ResizingStep, ReverseStep, DrawStep, PointingStep
            DEF ScreenNext
<1>. QED  BY <1>1, <1>2 DEF ScreenInv

(* For every size of screen and whatever the application sends: the lines  *)
(* have the size the emulator indexes them by ...                          *)
THEOREM ScreenAlwaysTyped == Spec => []ScreenTypeOK
<1>1. ScreenInv => ScreenTypeOK
  BY DEF ScreenInv
<1>. QED  BY ScreenInitInv, ScreenNextInv, <1>1, PTL DEF Spec

(* ... and a row whose dirty flag is clear is on the surface as it is in   *)
(* the buffer, so that skipping it in drawregion loses nothing.            *)
THEOREM CleanRowsAlwaysShown == Spec => []CleanRowsShown
<1>1. ScreenInv => CleanRowsShown
  BY DEF ScreenInv
<1>. QED  BY ScreenInitInv, ScreenNextInv, <1>1, PTL DEF Spec

-----------------------------------------------------------------------------
(* What a step may do to the lines.                                        *)

(* The whole invariant, for the action properties below: cursor, region,   *)
(* tab stops, sizes of the lines and what the surface shows of them.       *)
THEOREM ScreenSafe == Spec => []ScreenInv
<1>. QED  BY ScreenInitInv, ScreenNextInv, PTL DEF Spec

(* A scroll starting at orig touches no row above orig nor below bot.      *)
LEMMA ScrollLeaves ==
  ASSUME ScreenInv, NEW orig \in Rows, orig <= bot, NEW n \in Nat,
         ScrollUp(orig, n) \/ ScrollDown(orig, n)
  PROVE  \A y \in Rows : y < orig \/ y > bot => line'[y] = line[y]
<1>1. /\ \A y \in Rows : y \notin orig..bot => ScrolledUp(orig, n)[y] = line[y]
      /\ \A y \in Rows : y \notin orig..bot => ScrolledDown(orig, n)[y] = line[y]
  BY ScrollUpKeeps, ScrollDownKeeps
<1>2. line' = ScrolledUp(orig, n) \/ line' = ScrolledDown(orig, n)
  BY DEF ScrollUp, ScrollDown, Edit
<1>3. \A y \in Rows : y < orig \/ y > bot => y \notin orig..bot
  BY TypeFacts DEF ScreenInv, Rows
<1>. QED  BY <1>1, <1>2, <1>3

(* Line feeds and scrolling sequences stay inside the scroll region, IL    *)
(* and DL below the cursor: what an application keeps outside stays.       *)
THEOREM ScrollAlwaysConfined == Spec => ScrollConfined
<1>1. ScreenInv /\ [ScreenNext]_vars =>
        [/\ Scrolling => Untouched(OutsideRegion)
         /\ (\E n \in Args : IL(n) \/ DL(n)) => Untouched({y \in Rows : y < c.y})]_vars
  <2>. SUFFICES ASSUME ScreenInv
                PROVE  /\ Scrolling => Untouched(OutsideRegion)
                       /\ (\E n \in Args : IL(n) \/ DL(n))
                            => Untouched({y \in Rows : y < c.y})
    OBVIOUS
  <2>1. /\ top \in Rows /\ top <= bot /\ c.y \in Rows /\ 1 \in Nat
        /\ top \in Int /\ c.y \in Int /\ bot \in Int /\ \A y \in Rows : y \in Int
    BY TypeFacts DEF ScreenInv, Rows
  <2>2. ASSUME NEW n \in Args, IL(n) \/ DL(n)
        PROVE  /\ InRegion
               /\ \A y \in Rows : y < c.y \/ y > bot => line'[y] = line[y]
    <3>1. InRegion /\ (ScrollDown(c.y, n) \/ ScrollUp(c.y, n)) /\ n \in Nat
      BY <2>2 DEF IL, DL, Args
    <3>2. c.y <= bot
      BY <3>1 DEF InRegion
    <3>. QED  BY <2>1, <3>1, <3>2, ScrollLeaves
  <2>3. ASSUME NEW n \in Nat, ScrollUp(top, n) \/ ScrollDown(top, n)
        PROVE  Untouched(OutsideRegion)
    BY <2>1, <2>3, ScrollLeaves DEF Untouched, OutsideRegion
  <2>4. UNCHANGED lvars => Untouched(OutsideRegion)
    BY DEF lvars, Untouched
  <2>5. ASSUME Scrolling PROVE Untouched(OutsideRegion)
    <3>1. CASE ScreenLF \/ ScreenNEL \/ ScreenIND \/ ScreenRI
      <4>1. ScrollUp(top, 1) \/ ScrollDown(top, 1) \/ UNCHANGED lvars
        BY <3>1 DEF ScreenLF, ScreenNEL, ScreenIND, ScreenRI, FeedOrScroll
      <4>. QED  BY <4>1, <2>1, <2>3, <2>4
    <3>2. ASSUME NEW n \in Args, SU(n) \/ SD(n) \/ IL(n) \/ DL(n)
          PROVE  Untouched(OutsideRegion)
      <4>1. CASE SU(n) \/ SD(n)
        <5>1. n \in Nat /\ (ScrollUp(top, n) \/ ScrollDown(top, n))
          BY <4>1 DEF SU, SD, Args
        <5>. QED  BY <5>1, <2>3
      <4>2. CASE IL(n) \/ DL(n)
        BY <4>2, <2>1, <2>2 DEF Untouched, OutsideRegion, InRegion
      <4>. QED  BY <3>2, <4>1, <4>2
    <3>. QED  BY <2>5, <3>1, <3>2 DEF Scrolling
  <2>6. ASSUME \E n \in Args : IL(n) \/ DL(n)
        PROVE  Untouched({y \in Rows : y < c.y})
    BY <2>2, <2>6 DEF Untouched
  <2>. QED  BY <2>5, <2>6
<1>. QED  BY ScreenSafe, <1>1, PTL DEF Spec, ScrollConfined

(* However the window is resized the cursor stays on its text: tresize     *)
(* slides the lines by exactly what the clamp takes off the cursor's row.  *)
THEOREM CursorLineAlwaysSurvivesResize == Spec => CursorLineSurvivesResize
<1>1. ScreenInv => (Resizing => \A y \in 0..c'.y : \A x \in Cols \cap (0..(col' - 1)) :
                                  line'[y][x] = line[y + (c.y - c'.y)][x])
  <2>. SUFFICES ASSUME ScreenInv,
                       NEW newcol \in 1..MaxCol, NEW newrow \in 1..MaxRow,
                       ScreenResize(newcol, newrow),
                       NEW y \in 0..c'.y, NEW x \in Cols \cap (0..(col' - 1))
                PROVE  line'[y][x] = line[y + (c.y - c'.y)][x]
    BY DEF Resizing
  <2>1. c \in Cursors /\ c.y \in Int /\ c.y >= 0 /\ c.y < row /\ row \in Int /\ col \in Int
    BY TypeFacts DEF ScreenInv, Rows
  <2>2. newrow \in Int /\ newrow > 0 /\ newcol \in Int
    OBVIOUS
  <2>3. /\ col' = newcol /\ line' = Resized(line, newcol, newrow)
        /\ c' = [c EXCEPT !.x = LIMIT(c.x, 0, newcol - 1),
                          !.y = LIMIT(c.y, 0, newrow - 1), !.wrapnext = FALSE]
    BY DEF ScreenResize, Resize
  <2>4. c'.y = LIMIT(c.y, 0, newrow - 1)
    BY <2>1, <2>3 DEF Cursors
  <2>5. /\ c.y - c'.y = Slide(newrow)
        /\ y \in 0..(newrow - 1) /\ y + Slide(newrow) < row
    BY <2>1, <2>2, <2>4 DEF LIMIT, Slide
  <2>6. x \in 0..(newcol - 1) /\ x < col
    BY <2>1, <2>3 DEF Cols
  <2>7. line'[y][x] = line[y + Slide(newrow)][x]
    BY <2>3, <2>5, <2>6 DEF Resized
  <2>. QED  BY <2>5, <2>7
<1>2. ScreenInv => [Resizing => \A y \in 0..c'.y : \A x \in Cols \cap (0..(col' - 1)) :
                                  line'[y][x] = line[y + (c.y - c'.y)][x]]_vars
  BY <1>1
<1>. QED  BY ScreenSafe, <1>2, PTL DEF CursorLineSurvivesResize

(* Whatever mix of the three modes an application uses, and whatever it    *)
(* draws on the alternate screen, the primary screen comes back as it was. *)
LEMMA PrimaryStep ==
  ASSUME ScreenNext, "ALTSCREEN" \in mode \/ "ALTSCREEN" \in mode',
         ~Resizing, ~ScreenRIS
  PROVE  Primary(line', alt', mode') = Primary(line, alt, mode)
<1>1. ASSUME alt' = alt, "ALTSCREEN" \in mode <=> "ALTSCREEN" \in mode'
      PROVE  Primary(line', alt', mode') = Primary(line, alt, mode)
  BY <1>1 DEF Primary
<1>2. CASE Quiet
  <2>1. alt' = alt
    BY <1>2 DEF Quiet, lvars
  <2>2. CASE Motion
    <3>1. mode' = mode
      BY <2>2 DEF Motion, CUU, CUD, CUF, CUB, CNL, CPL, CHA, VPA, CUP, CR, HT, CBT,
           Move, cvars
    <3>. QED  BY <1>1, <2>1, <3>1
  <2>3. CASE Setting
    <3>1. mode' = mode \/ \E flag \in PlainFlags, set \in BOOLEAN : SetMode(flag, set)
      BY <2>3 DEF Setting, DECSTBM, HTS, TBC, SGR, Charset, DECTCEM,
           SaveCursor, LoadCursor
    <3>2. "ALTSCREEN" \in mode <=> "ALTSCREEN" \in mode'
      BY <3>1 DEF SetMode, SetFlag, PlainFlags
    <3>. QED  BY <1>1, <2>1, <3>2
  <2>. QED  BY <1>2, <2>2, <2>3 DEF Quiet
<1>3. CASE Printing
  <2>1. alt' = alt /\ mode' = mode
    BY <1>3 DEF Printing, PutGlyph, Edit, Advance
  <2>. QED  BY <1>1, <2>1
<1>4. CASE Scrolling
  <2>1. CASE ScreenLF \/ ScreenNEL \/ ScreenIND \/ ScreenRI
    <3>1. mode' = mode
      BY <2>1 DEF ScreenLF, ScreenNEL, ScreenIND, ScreenRI, FeedOrScroll,
           LineFeed, NextLine, Index, ReverseIndex
    <3>2. alt' = alt
      BY <2>1 DEF ScreenLF, ScreenNEL, ScreenIND, ScreenRI, FeedOrScroll,
           ScrollUp, ScrollDown, Edit, lvars
    <3>. QED  BY <1>1, <3>1, <3>2
  <2>2. CASE \E n \in Args : SU(n) \/ SD(n) \/ IL(n) \/ DL(n)
    <3>1. mode' = mode /\ alt' = alt
      BY <2>2 DEF SU, SD, IL, DL, ScrollUp, ScrollDown, Edit, cvars
    <3>. QED  BY <1>1, <3>1
  <2>. QED  BY <1>4, <2>1, <2>2 DEF Scrolling
<1>5. CASE Editing
  <2>1. mode' = mode /\ alt' = alt
    BY <1>5 DEF Editing, ICH, DCH, ECH, EL, ED, DECALN, Edit, cvars
  <2>. QED  BY <1>1, <2>1
<1>6. CASE Switching
  <2>. SUFFICES ASSUME NEW arg \in {47, 1047, 1049}, NEW set \in BOOLEAN,
                       ScreenAlt(arg, set)
                PROVE  Primary(line', alt', mode') = Primary(line, alt, mode)
    BY <1>6 DEF Switching
  <2>1. "ALTSCREEN" \in mode' <=> set
    BY DEF ScreenAlt, AltScreen
  <2>2. CASE "ALTSCREEN" \in mode
    BY <2>1, <2>2 DEF ScreenAlt, Primary
  <2>3. CASE "ALTSCREEN" \notin mode
    BY <2>1, <2>3 DEF ScreenAlt, Primary
  <2>. QED  BY <2>2, <2>3
<1>7. CASE \E set \in BOOLEAN : ScreenDECSCNM(set)
  <2>1. alt' = alt /\ ("ALTSCREEN" \in mode <=> "ALTSCREEN" \in mode')
    BY <1>7 DEF ScreenDECSCNM, DECSCNM, SetFlag
  <2>. QED  BY <1>1, <2>1
<1>8. CASE Draw \/ Pointing
  <2>1. mode' = mode /\ alt' = alt
    BY <1>8 DEF Draw, Pointing, Press, Drag, Release, cvars
  <2>. QED  BY <1>1, <2>1
<1>. QED  BY <1>2, <1>3, <1>4, <1>5, <1>6, <1>7, <1>8 DEF ScreenNext

THEOREM PrimaryAlwaysKept == Spec => PrimaryKept
<1>1. [ScreenNext]_vars =>
        [/\ "ALTSCREEN" \in mode \/ "ALTSCREEN" \in mode'
         /\ ~Resizing /\ ~ScreenRIS
         => Primary(line, alt, mode)' = Primary(line, alt, mode)]_vars
  BY PrimaryStep
<1>. QED  BY <1>1, PTL DEF Spec, PrimaryKept

(* The two ways a line feed or a reverse index scrolls: the region moves   *)
(* by one line and selscroll moves the rows of the selection with it.      *)
SelectionFollows ==
  \E d \in {-1, 0, 1} : \A y \in sel'.by..sel'.ey :
    y - d \in sel.by..sel.ey /\ line'[y] = line[y - d]

(* selscroll after tscrollup: the row that left is cut off.                *)
LEMMA SelectionScrolledUp ==
  ASSUME ScreenInv, sel.on, sel'.on, sel.by <= sel.ey,
         Between(sel.by, top, bot), Between(sel.ey, top, bot), ScrollUp(top, 1)
  PROVE  SelectionFollows
<1>1. /\ top \in Int /\ bot \in Int /\ row \in Int /\ top <= bot /\ 0 <= top /\ bot < row
      /\ sel \in Selections /\ sel.by \in Int /\ sel.ey \in Int
  BY TypeFacts, SelType DEF ScreenInv, Rows, Selections
<1>2. ScrollCount(top, 1) = 1
  BY <1>1 DEF ScrollCount, LIMIT
<1>3. /\ sel' = selscroll(sel, top, -1)
      /\ line' = [y \in Rows |-> IF Between(y, top, bot - 1) THEN line[y + 1]
                                 ELSE IF Between(y, top, bot) THEN BlankLine(col)
                                 ELSE line[y]]
  BY <1>2 DEF ScrollUp, Edit, ScrolledUp
<1>. DEFINE by == IF sel.by + (-1) < top THEN top ELSE sel.by + (-1)
            ey == IF sel.ey + (-1) > bot THEN bot ELSE sel.ey + (-1)
<1>4. sel' = [sel EXCEPT !.on = FALSE]
      \/ sel' = [sel EXCEPT !.by = by, !.ey = ey, !.b = by, !.e = ey]
  BY <1>3 DEF selscroll
<1>5. sel'.by = by /\ sel'.ey = ey
  BY <1>1, <1>4 DEF Selections
<1>6. ASSUME NEW y \in by..ey PROVE y - (-1) \in sel.by..sel.ey /\ line'[y] = line[y - (-1)]
  <2>1. /\ y \in Int /\ y + 1 \in sel.by..sel.ey /\ y - (-1) = y + 1
        /\ y \in Rows /\ top <= y /\ y <= bot - 1
    BY <1>1 DEF Between, Rows
  <2>. QED  BY <1>3, <2>1 DEF Between
<1>. HIDE DEF by, ey
<1>. QED  BY <1>5, <1>6 DEF SelectionFollows

(* selscroll after tscrolldown.                                            *)
LEMMA SelectionScrolledDown ==
  ASSUME ScreenInv, sel.on, sel'.on, sel.by <= sel.ey,
         Between(sel.by, top, bot), Between(sel.ey, top, bot), ScrollDown(top, 1)
  PROVE  SelectionFollows
<1>1. /\ top \in Int /\ bot \in Int /\ row \in Int /\ top <= bot /\ 0 <= top /\ bot < row
      /\ sel \in Selections /\ sel.by \in Int /\ sel.ey \in Int
  BY TypeFacts, SelType DEF ScreenInv, Rows, Selections
<1>2. ScrollCount(top, 1) = 1
  BY <1>1 DEF ScrollCount, LIMIT
<1>3. /\ sel' = selscroll(sel, top, 1)
      /\ line' = [y \in Rows |-> IF Between(y, top + 1, bot) THEN line[y - 1]
                                 ELSE IF Between(y, top, bot) THEN BlankLine(col)
                                 ELSE line[y]]
  BY <1>2 DEF ScrollDown, Edit, ScrolledDown
<1>. DEFINE by == IF sel.by + 1 < top THEN top ELSE sel.by + 1
            ey == IF sel.ey + 1 > bot THEN bot ELSE sel.ey + 1
<1>4. sel' = [sel EXCEPT !.on = FALSE]
      \/ sel' = [sel EXCEPT !.by = by, !.ey = ey, !.b = by, !.e = ey]
  BY <1>3 DEF selscroll
<1>5. sel'.by = by /\ sel'.ey = ey
  BY <1>1, <1>4 DEF Selections
<1>6. ASSUME NEW y \in by..ey PROVE y - 1 \in sel.by..sel.ey /\ line'[y] = line[y - 1]
  <2>1. /\ y \in Int /\ y - 1 \in sel.by..sel.ey
        /\ y \in Rows /\ top + 1 <= y /\ y <= bot
    BY <1>1 DEF Between, Rows
  <2>. QED  BY <1>3, <2>1 DEF Between
<1>. HIDE DEF by, ey
<1>. QED  BY <1>5, <1>6 DEF SelectionFollows

(* The rows still selected after a line feed or a reverse index hold the   *)
(* text they held before it, so that what is copied is what was marked.    *)
THEOREM SelectionAlwaysFollowsText == Spec => SelectionFollowsText
<1>1. ScreenInv =>
        (/\ sel.on /\ sel'.on /\ sel.by <= sel.ey
         /\ ScreenLF \/ ScreenNEL \/ ScreenIND \/ ScreenRI
         /\ Between(sel.by, top, bot) /\ Between(sel.ey, top, bot)
         => SelectionFollows)
  <2>. SUFFICES ASSUME ScreenInv, sel.on, sel'.on, sel.by <= sel.ey,
                       ScreenLF \/ ScreenNEL \/ ScreenIND \/ ScreenRI,
                       Between(sel.by, top, bot), Between(sel.ey, top, bot)
                PROVE  SelectionFollows
    OBVIOUS
  <2>1. ScrollUp(top, 1) \/ ScrollDown(top, 1) \/ UNCHANGED lvars
    BY DEF ScreenLF, ScreenNEL, ScreenIND, ScreenRI, FeedOrScroll
  <2>2. CASE UNCHANGED lvars
    <3>1. line' = line /\ sel' = sel /\ sel.by \in Int /\ sel.ey \in Int
      BY <2>2, SelType DEF lvars, Selections
    <3>2. \A y \in sel'.by..sel'.ey : y - 0 \in sel.by..sel.ey /\ line'[y] = line[y - 0]
      BY <3>1
    <3>. QED  BY <3>2 DEF SelectionFollows
  <2>. QED  BY <2>1, <2>2, SelectionScrolledUp, SelectionScrolledDown
<1>2. ScreenInv =>
        [/\ sel.on /\ sel'.on /\ sel.by <= sel.ey
         /\ ScreenLF \/ ScreenNEL \/ ScreenIND \/ ScreenRI
         /\ Between(sel.by, top, bot) /\ Between(sel.ey, top, bot)
         => SelectionFollows]_vars
  BY <1>1
<1>. QED  BY ScreenSafe, <1>2, PTL DEF SelectionFollowsText, SelectionFollows
=============================================================================
