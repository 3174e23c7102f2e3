---------------------------- MODULE DialogProofs -----------------------------
(***************************************************************************)
(* Proofs about the dialogs of lxdialog, for terminals, lists, strings and *)
(* texts of any size.                                                      *)
(***************************************************************************)
EXTENDS Lxdialog, TLAPS

-----------------------------------------------------------------------------
(* The menu.                                                               *)

(* What is kept of a menu while it is open.  A menu without an item that is*)
(* asked for is drawn again with the row that is highlighted.              *)
MenuOK ==
  /\ count \in Nat /\ selected \in Int /\ selected < count /\ s_scroll \in Int
  /\ menu_height \in Nat \ {0}
  /\ scroll \in Int /\ choice \in Int /\ misdrawn \in BOOLEAN
  /\ MenuInWindow
  /\ misdrawn \/ MenuDrawn

(* Wherever the highlight is when the box is drawn, the window is put where*)
(* it is seen and where it is full.                                        *)
LEMMA ScrollFits ==
  ASSUME NEW n \in Nat, NEW h \in Nat \ {0}, NEW s \in Int, NEW c \in Nat,
         c < n \/ (n = 0 /\ c = 0)
  PROVE  LET m == MIN(h, n)
             t == ScrollFor(n, m, s, c)
         IN  t \in Nat /\ t + m <= n /\ t <= c /\ (c - t < m \/ (n = 0 /\ t = 0))
<1> DEFINE m == MIN(h, n)
           half == m \div 2
<1>1. m \in Nat /\ m <= n /\ (n # 0 => m # 0)
  BY DEF MIN
<1>2. half \in Nat /\ 2 * half <= m /\ m <= 2 * half + 1
  BY <1>1
<1>3. CASE Saved(n, m, s, c)
  BY <1>1, <1>3 DEF ScrollFor, Saved
<1>4. CASE ~Saved(n, m, s, c) /\ c < m
  BY <1>1, <1>4 DEF ScrollFor
<1>5. CASE ~Saved(n, m, s, c) /\ ~(c < m) /\ c >= n - half
  <2>1. ScrollFor(n, m, s, c) = n - m
    BY <1>1, <1>5 DEF ScrollFor, Centred
  <2> QED
    BY <2>1, <1>1, <1>2, <1>5
<1>6. CASE ~Saved(n, m, s, c) /\ ~(c < m) /\ ~(c >= n - half)
  <2>1. ScrollFor(n, m, s, c) = c - half
    BY <1>1, <1>6 DEF ScrollFor, Centred
  <2> QED
    BY <2>1, <1>1, <1>2, <1>6
<1> QED
  BY <1>3, <1>4, <1>5, <1>6

(* The arrows are those of a window of which every row is an item.         *)
LEMMA ArrowsRight ==
  ASSUME NEW n \in Nat, NEW h \in Nat \ {0}, NEW t \in Nat, t + MIN(h, n) <= n
  PROVE  print_arrows(n, t, h) = <<t > 0, t + MIN(h, n) < n>>
<1>1. (h < n /\ t + h < n) = (t + MIN(h, n) < n)
  BY DEF MIN
<1> QED
  BY <1>1 DEF print_arrows

(* A menu that is drawn from nothing shows what it should.                 *)
LEMMA MenuDrawnAnew ==
  ASSUME NEW n \in Nat, NEW sel \in Int, sel < n, NEW s \in Int, NEW h \in Int,
         NEW c \in Nat, c < n \/ (n = 0 /\ c = 0), NEW f,
         DrawMenu(n, sel, s, h, c, f)
  PROVE  MenuOK'
<1> DEFINE m == MIN(h, n)
           t == ScrollFor(n, m, s, c)
           g == FirstFor(n, m, s, c, f)
<1>1. h \in Nat \ {0}
  BY DEF DrawMenu
<1>2. t \in Nat /\ t + m <= n /\ t <= c /\ (c - t < m \/ (n = 0 /\ t = 0))
  BY <1>1, ScrollFits
<1>3. /\ count' = n /\ selected' = sel /\ s_scroll' = s /\ menu_height' = h
      /\ scroll' = t /\ choice' = c - t /\ misdrawn' = (g # t)
      /\ menu' = [r \in 0..(h - 1) |-> IF r < m THEN <<g + r, r = c - t>> ELSE Blank]
      /\ menu_arrows' = print_arrows(n, t, h)
  BY DEF DrawMenu
<1>4. max_choice' = m
  BY <1>3 DEF max_choice
<1> HIDE DEF m, t, g
<1>5. MenuInWindow'
  BY <1>2, <1>3, <1>4 DEF MenuInWindow
<1>6. g = t => MenuDrawn'
  <2>1. menu_arrows' = <<t > 0, t + m < n>>
    BY <1>1, <1>2, <1>3, ArrowsRight DEF m
  <2> QED
    BY <2>1, <1>3, <1>4 DEF MenuDrawn
<1>7. misdrawn' \in BOOLEAN /\ (misdrawn' \/ MenuDrawn')
  <2>1. CASE g = t
    BY <2>1, <1>3, <1>6
  <2>2. CASE g # t
    BY <2>2, <1>3
  <2> QED
    BY <2>1, <2>2
<1>8. scroll' \in Int /\ choice' \in Int
  BY <1>2, <1>3
<1>9. count' \in Nat /\ selected' \in Int /\ selected' < count' /\ s_scroll' \in Int /\ menu_height' \in Nat \ {0}
  BY <1>1, <1>3
<1> QED
  BY <1>5, <1>7, <1>8, <1>9 DEF MenuOK

(* A key leaves the list and the height of the window alone; what is to be *)
(* shown is that it leaves every row right.                                *)
LEMMA MenuMoved ==
  ASSUME MenuOK, NEW win, NEW t \in Nat, NEW c \in Nat, Move(win, t, c),
         t + max_choice <= count, c < max_choice,
         MenuDrawn => /\ DOMAIN win = 0..(menu_height - 1)
                      /\ \A r \in (0..(menu_height - 1)) \ {c} :
                           win[r] = IF r < max_choice THEN <<t + r, FALSE>> ELSE Blank
  PROVE  MenuOK'
<1>1. /\ count' = count /\ selected' = selected /\ s_scroll' = s_scroll
      /\ menu_height' = menu_height /\ misdrawn' = misdrawn
      /\ scroll' = t /\ choice' = c
      /\ menu' = print_item(win, c, t + c, TRUE)
      /\ menu_arrows' = print_arrows(count, t, menu_height)
  BY DEF Move
<1>2. max_choice' = max_choice /\ max_choice \in Nat /\ max_choice <= menu_height
  BY <1>1 DEF max_choice, MIN, MenuOK
<1>3. MenuInWindow'
  BY <1>1, <1>2 DEF MenuInWindow
<1>4. MenuDrawn => MenuDrawn'
  <2> SUFFICES ASSUME MenuDrawn PROVE MenuDrawn'
    OBVIOUS
  <2>1. menu_arrows' = <<t > 0, t + max_choice < count>>
    BY <1>1, ArrowsRight DEF max_choice, MenuOK
  <2> DEFINE wanted == [r \in 0..(menu_height - 1) |-> IF r < max_choice THEN <<t + r, r = c>> ELSE Blank]
  <2>2. menu' = [win EXCEPT ![c] = <<t + c, TRUE>>]
    BY <1>1 DEF print_item
  <2>3. c \in 0..(menu_height - 1)
    BY <1>2 DEF MenuOK
  <2>4. menu' = [r \in 0..(menu_height - 1) |-> IF r = c THEN <<t + c, TRUE>> ELSE win[r]]
    BY <2>2, <2>3
  <2>5. ASSUME NEW r \in 0..(menu_height - 1)
        PROVE  (IF r = c THEN <<t + c, TRUE>> ELSE win[r]) = wanted[r]
    <3>1. CASE r = c
      BY <3>1
    <3>2. CASE r # c
      <4>1. win[r] = IF r < max_choice THEN <<t + r, FALSE>> ELSE Blank
        BY <3>2
      <4>2. (r = c) = FALSE
        BY <3>2
      <4> QED
        BY <4>1, <4>2
    <3> QED
      BY <3>1, <3>2
  <2>6. menu' = wanted
    BY <2>4, <2>5
  <2> HIDE DEF wanted
  <2> QED
    BY <2>1, <2>6, <1>1, <1>2 DEF MenuDrawn, wanted
<1> QED
  BY <1>1, <1>3, <1>4 DEF MenuOK

(* The highlight taken off, every row shows its item.                      *)
LEMMA RowsUnlit ==
  ASSUME MenuOK, MenuDrawn, count # 0
  PROVE  Unlit = [r \in 0..(menu_height - 1) |-> IF r < max_choice THEN <<scroll + r, FALSE>> ELSE Blank]
<1>1. max_choice \in Nat /\ max_choice <= menu_height /\ choice \in 0..(max_choice - 1)
  BY DEF max_choice, MIN, MenuOK, MenuInWindow
<1>2. menu = [r \in 0..(menu_height - 1) |-> IF r < max_choice THEN <<scroll + r, r = choice>> ELSE Blank]
  BY DEF MenuDrawn
<1>3. Unlit = [r \in 0..(menu_height - 1) |-> IF r = choice THEN <<scroll + choice, FALSE>> ELSE menu[r]]
  BY <1>2 DEF Unlit, print_item
<1>4. ASSUME NEW r \in 0..(menu_height - 1)
      PROVE  (IF r = choice THEN <<scroll + choice, FALSE>> ELSE menu[r])
               = IF r < max_choice THEN <<scroll + r, FALSE>> ELSE Blank
  <2>1. CASE r = choice
    <3>1. r < max_choice
      BY <2>1, <1>1
    <3> QED
      BY <2>1, <3>1
  <2>2. CASE r # choice
    <3>1. (r = choice) = FALSE
      BY <2>2
    <3> QED
      BY <2>2, <3>1, <1>2
  <2> QED
    BY <2>1, <2>2
<1> QED
  BY <1>3, <1>4

(* Scrolled, the window has blank rows where nothing was to scroll in.     *)
LEMMA RowsScrolled ==
  ASSUME MenuOK, MenuDrawn, count # 0, NEW n \in Int
  PROVE  /\ DOMAIN wscrl(Unlit, n) = 0..(menu_height - 1)
         /\ \A r \in 0..(menu_height - 1) :
              wscrl(Unlit, n)[r] = IF r + n \in 0..(max_choice - 1) THEN <<scroll + (r + n), FALSE>> ELSE Blank
<1>1. menu_height \in Nat /\ scroll \in Int /\ max_choice \in Nat /\ max_choice <= menu_height
  BY DEF MenuOK, max_choice, MIN
<1> DEFINE U == [r \in 0..(menu_height - 1) |-> IF r < max_choice THEN <<scroll + r, FALSE>> ELSE Blank]
<1>2. Unlit = U
  BY RowsUnlit
<1>3. \A q \in 0..(menu_height - 1) : U[q] = IF q < max_choice THEN <<scroll + q, FALSE>> ELSE Blank
  OBVIOUS
<1>4. DOMAIN U = 0..(menu_height - 1)
  OBVIOUS
<1> HIDE DEF U
<1>5. wscrl(Unlit, n) = [r \in 0..(menu_height - 1) |-> IF r + n \in 0..(menu_height - 1) THEN U[r + n] ELSE Blank]
  BY <1>2, <1>4 DEF wscrl
<1>6. ASSUME NEW r \in 0..(menu_height - 1)
      PROVE  wscrl(Unlit, n)[r] = IF r + n \in 0..(max_choice - 1) THEN <<scroll + (r + n), FALSE>> ELSE Blank
  <2>1. wscrl(Unlit, n)[r] = IF r + n \in 0..(menu_height - 1) THEN U[r + n] ELSE Blank
    BY <1>5
  <2>2. r + n \in Int
    BY <1>1
  <2>3. CASE r + n \in 0..(menu_height - 1)
    <3>1. U[r + n] = IF r + n < max_choice THEN <<scroll + (r + n), FALSE>> ELSE Blank
      BY <2>3, <1>3
    <3>2. r + n < max_choice <=> r + n \in 0..(max_choice - 1)
      BY <2>2, <2>3, <1>1
    <3> QED
      BY <2>1, <2>3, <3>1, <3>2
  <2>4. CASE r + n \notin 0..(menu_height - 1)
    <3>1. r + n \notin 0..(max_choice - 1)
      BY <2>2, <2>4, <1>1
    <3> QED
      BY <2>1, <2>4, <3>1
  <2> QED
    BY <2>3, <2>4
<1> QED
  BY <1>5, <1>6

(* The arithmetic of an open menu that has items.                          *)
LEMMA MenuFacts ==
  ASSUME MenuOK, count # 0
  PROVE  /\ max_choice \in Nat /\ max_choice >= 1 /\ max_choice <= menu_height /\ max_choice <= count
         /\ menu_height \in Nat /\ count \in Nat /\ scroll \in Nat /\ scroll + max_choice <= count
         /\ choice \in Nat /\ choice < max_choice
         /\ scroll # 0 \/ scroll + max_choice < count => max_choice = menu_height
BY DEF max_choice, MIN, MenuOK, MenuInWindow

(* Up: one row higher, scrolling by one at the top.                        *)
LEMMA KeyUpKeeps == ASSUME MenuOK, KeyUp PROVE MenuOK'
<1>0. count # 0
  BY DEF KeyUp
<1>f. /\ max_choice \in Nat /\ max_choice >= 1 /\ max_choice <= menu_height /\ max_choice <= count
      /\ menu_height \in Nat /\ count \in Nat /\ scroll \in Nat /\ scroll + max_choice <= count
      /\ choice \in Nat /\ choice < max_choice
      /\ scroll # 0 \/ scroll + max_choice < count => max_choice = menu_height
  BY <1>0, MenuFacts
<1> USE <1>f
<1>1. CASE choice < 2 /\ scroll # 0
  <2> DEFINE w == wscrl(Unlit, -1)
             win == print_item(w, 0, scroll - 1, FALSE)
  <2>1. Move(win, scroll - 1, choice)
    BY <1>1 DEF KeyUp
  <2>2. ASSUME MenuDrawn
        PROVE  /\ DOMAIN win = 0..(menu_height - 1)
               /\ \A r \in (0..(menu_height - 1)) \ {choice} :
                    win[r] = IF r < max_choice THEN <<(scroll - 1) + r, FALSE>> ELSE Blank
    <3>1. /\ DOMAIN w = 0..(menu_height - 1)
          /\ \A r \in 0..(menu_height - 1) :
               w[r] = IF r + -1 \in 0..(max_choice - 1) THEN <<scroll + (r + -1), FALSE>> ELSE Blank
      <4>1. -1 \in Int
        OBVIOUS
      <4> QED
        BY <2>2, <1>0, <4>1, RowsScrolled
    <3>2. win = [w EXCEPT ![0] = <<scroll - 1, FALSE>>]
      BY DEF print_item
    <3> HIDE DEF w, win
    <3>3. win = [r \in 0..(menu_height - 1) |-> IF r = 0 THEN <<scroll - 1, FALSE>> ELSE w[r]]
      BY <3>1, <3>2
    <3>4. ASSUME NEW r \in 0..(menu_height - 1)
          PROVE  win[r] = IF r < max_choice THEN <<(scroll - 1) + r, FALSE>> ELSE Blank
      <4>1. r < max_choice
        BY <1>1
      <4>2. CASE r = 0
        <5>1. (scroll - 1) + r = scroll - 1
          BY <4>2
        <5> QED
          BY <5>1, <4>1, <4>2, <3>3
      <4>3. CASE r # 0
        <5>1. r + -1 \in 0..(max_choice - 1) /\ scroll + (r + -1) = (scroll - 1) + r
          BY <4>1, <4>3
        <5> QED
          BY <5>1, <4>1, <4>3, <3>1, <3>3
      <4> QED
        BY <4>2, <4>3
    <3> QED
      BY <3>3, <3>4
  <2>3. scroll - 1 \in Nat /\ (scroll - 1) + max_choice <= count
    BY <1>1
  <2> HIDE DEF w, win
  <2> QED
    BY <2>1, <2>2, <2>3, MenuMoved
<1>2. CASE ~(choice < 2 /\ scroll # 0)
  <2>1. Move(Unlit, scroll, MAX(choice - 1, 0))
    BY <1>2 DEF KeyUp
  <2>2. MAX(choice - 1, 0) \in Nat /\ MAX(choice - 1, 0) < max_choice
    BY DEF MAX
  <2> QED
    BY <2>1, <2>2, <1>0, RowsUnlit, MenuMoved
<1> QED
  BY <1>1, <1>2

(* Down: one row lower, scrolling by one at the bottom.                    *)
LEMMA KeyDownKeeps == ASSUME MenuOK, KeyDown PROVE MenuOK'
<1>0. count # 0
  BY DEF KeyDown
<1>f. /\ max_choice \in Nat /\ max_choice >= 1 /\ max_choice <= menu_height /\ max_choice <= count
      /\ menu_height \in Nat /\ count \in Nat /\ scroll \in Nat /\ scroll + max_choice <= count
      /\ choice \in Nat /\ choice < max_choice
      /\ scroll # 0 \/ scroll + max_choice < count => max_choice = menu_height
  BY <1>0, MenuFacts
<1> USE <1>f
<1>1. CASE choice > max_choice - 3 /\ scroll + max_choice < count
  <2> DEFINE w == wscrl(Unlit, 1)
             win == print_item(w, max_choice - 1, scroll + max_choice, FALSE)
  <2>1. Move(win, scroll + 1, choice)
    BY <1>1 DEF KeyDown
  <2>2. ASSUME MenuDrawn
        PROVE  /\ DOMAIN win = 0..(menu_height - 1)
               /\ \A r \in (0..(menu_height - 1)) \ {choice} :
                    win[r] = IF r < max_choice THEN <<(scroll + 1) + r, FALSE>> ELSE Blank
    <3>1. /\ DOMAIN w = 0..(menu_height - 1)
          /\ \A r \in 0..(menu_height - 1) :
               w[r] = IF r + 1 \in 0..(max_choice - 1) THEN <<scroll + (r + 1), FALSE>> ELSE Blank
      <4>1. 1 \in Int
        OBVIOUS
      <4> QED
        BY <2>2, <1>0, <4>1, RowsScrolled
    <3>2. win = [w EXCEPT ![max_choice - 1] = <<scroll + max_choice, FALSE>>]
      BY DEF print_item
    <3> HIDE DEF w, win
    <3>3. win = [r \in 0..(menu_height - 1) |-> IF r = max_choice - 1 THEN <<scroll + max_choice, FALSE>> ELSE w[r]]
      BY <3>1, <3>2
    <3>4. ASSUME NEW r \in 0..(menu_height - 1)
          PROVE  win[r] = IF r < max_choice THEN <<(scroll + 1) + r, FALSE>> ELSE Blank
      <4>1. r < max_choice
        BY <1>1
      <4>2. CASE r = max_choice - 1
        <5>1. (scroll + 1) + r = scroll + max_choice
          BY <4>2
        <5> QED
          BY <5>1, <4>1, <4>2, <3>3
      <4>3. CASE r # max_choice - 1
        <5>1. r + 1 \in 0..(max_choice - 1) /\ scroll + (r + 1) = (scroll + 1) + r
          BY <4>1, <4>3, <1>1
        <5> QED
          BY <5>1, <4>1, <4>3, <3>1, <3>3
      <4> QED
        BY <4>2, <4>3
    <3> QED
      BY <3>3, <3>4
  <2>3. scroll + 1 \in Nat /\ (scroll + 1) + max_choice <= count
    BY <1>1
  <2> HIDE DEF w, win
  <2> QED
    BY <2>1, <2>2, <2>3, MenuMoved
<1>2. CASE ~(choice > max_choice - 3 /\ scroll + max_choice < count)
  <2>1. Move(Unlit, scroll, MIN(choice + 1, max_choice - 1))
    BY <1>2 DEF KeyDown
  <2>2. MIN(choice + 1, max_choice - 1) \in Nat /\ MIN(choice + 1, max_choice - 1) < max_choice
    BY DEF MIN
  <2> QED
    BY <2>1, <2>2, <1>0, RowsUnlit, MenuMoved
<1> QED
  BY <1>1, <1>2

(* A page: as many lines as there are come in, the highlight moves by the  *)
(* rest.                                                                   *)
LEMMA KeyPageUpKeeps == ASSUME MenuOK, KeyPageUp PROVE MenuOK'
<1> DEFINE n == MIN(max_choice, scroll)
           w == wscrl(Unlit, -n)
           win == [r \in DOMAIN w |-> IF r < n THEN <<(scroll - n) + r, FALSE>> ELSE w[r]]
           c == MAX(choice - (max_choice - n), 0)
<1>0. count # 0
  BY DEF KeyPageUp
<1>f. /\ max_choice \in Nat /\ max_choice >= 1 /\ max_choice <= menu_height /\ max_choice <= count
      /\ menu_height \in Nat /\ count \in Nat /\ scroll \in Nat /\ scroll + max_choice <= count
      /\ choice \in Nat /\ choice < max_choice
      /\ scroll # 0 \/ scroll + max_choice < count => max_choice = menu_height
  BY <1>0, MenuFacts
<1>1. Move(win, scroll - n, c)
  BY DEF KeyPageUp
<1>2. /\ n \in Nat /\ n <= max_choice /\ n <= scroll
      /\ scroll - n \in Nat /\ (scroll - n) + max_choice <= count /\ c \in Nat /\ c < max_choice
      /\ -n \in Int
  BY <1>f DEF MIN, MAX
<1>3. ASSUME MenuDrawn
      PROVE  /\ DOMAIN win = 0..(menu_height - 1)
             /\ \A r \in (0..(menu_height - 1)) \ {c} :
                  win[r] = IF r < max_choice THEN <<(scroll - n) + r, FALSE>> ELSE Blank
  <2> HIDE DEF n
  <2>1. /\ DOMAIN w = 0..(menu_height - 1)
        /\ \A r \in 0..(menu_height - 1) :
             w[r] = IF r + -n \in 0..(max_choice - 1) THEN <<scroll + (r + -n), FALSE>> ELSE Blank
    BY <1>0, <1>2, <1>3, RowsScrolled
  <2>2. ASSUME NEW r \in 0..(menu_height - 1)
        PROVE  win[r] = IF r < max_choice THEN <<(scroll - n) + r, FALSE>> ELSE Blank
    <3>1. win[r] = IF r < n THEN <<(scroll - n) + r, FALSE>> ELSE w[r]
      BY <2>1
    <3>2. CASE r < n
      <4>1. r < max_choice
        BY <3>2, <1>2, <1>f
      <4> QED
        BY <3>1, <3>2, <4>1
    <3>3. CASE ~(r < n)
      <4>1. scroll + (r + -n) = (scroll - n) + r
        BY <1>2, <1>f
      <4>2. r + -n \in 0..(max_choice - 1) <=> r < max_choice
        BY <3>3, <1>2, <1>f
      <4> QED
        BY <3>1, <3>3, <4>1, <4>2, <2>1
    <3> QED
      BY <3>2, <3>3
  <2> QED
    BY <2>1, <2>2
<1> HIDE DEF n, w, win, c
<1> QED
  BY <1>1, <1>2, <1>3, MenuMoved

(* PageDown: as far as there are items.                                    *)
LEMMA KeyPageDownKeeps == ASSUME MenuOK, KeyPageDown PROVE MenuOK'
<1> DEFINE n == MIN(max_choice, count - (scroll + max_choice))
           w == wscrl(Unlit, n)
           win == [r \in DOMAIN w |->
                     IF r >= max_choice - n /\ r < max_choice THEN <<(scroll + n) + r, FALSE>> ELSE w[r]]
           c == MIN(choice + (max_choice - n), max_choice - 1)
<1>0. count # 0
  BY DEF KeyPageDown
<1>f. /\ max_choice \in Nat /\ max_choice >= 1 /\ max_choice <= menu_height /\ max_choice <= count
      /\ menu_height \in Nat /\ count \in Nat /\ scroll \in Nat /\ scroll + max_choice <= count
      /\ choice \in Nat /\ choice < max_choice
      /\ scroll # 0 \/ scroll + max_choice < count => max_choice = menu_height
  BY <1>0, MenuFacts
<1>1. Move(win, scroll + n, c)
  BY DEF KeyPageDown
<1>2. /\ n \in Nat /\ n \in Int /\ n <= max_choice
      /\ scroll + n \in Nat /\ (scroll + n) + max_choice <= count /\ c \in Nat /\ c < max_choice
  BY <1>f DEF MIN
<1>3. ASSUME MenuDrawn
      PROVE  /\ DOMAIN win = 0..(menu_height - 1)
             /\ \A r \in (0..(menu_height - 1)) \ {c} :
                  win[r] = IF r < max_choice THEN <<(scroll + n) + r, FALSE>> ELSE Blank
  <2> HIDE DEF n
  <2>1. /\ DOMAIN w = 0..(menu_height - 1)
        /\ \A r \in 0..(menu_height - 1) :
             w[r] = IF r + n \in 0..(max_choice - 1) THEN <<scroll + (r + n), FALSE>> ELSE Blank
    BY <1>0, <1>2, <1>3, RowsScrolled
  <2>2. ASSUME NEW r \in 0..(menu_height - 1)
        PROVE  win[r] = IF r < max_choice THEN <<(scroll + n) + r, FALSE>> ELSE Blank
    <3>1. win[r] = IF r >= max_choice - n /\ r < max_choice THEN <<(scroll + n) + r, FALSE>> ELSE w[r]
      BY <2>1
    <3>2. CASE r >= max_choice - n /\ r < max_choice
      BY <3>1, <3>2
    <3>3. CASE ~(r >= max_choice - n /\ r < max_choice)
      <4>1. scroll + (r + n) = (scroll + n) + r
        BY <1>2, <1>f
      <4>2. r + n \in 0..(max_choice - 1) <=> r < max_choice
        BY <3>3, <1>2, <1>f
      <4> QED
        BY <3>1, <3>3, <4>1, <4>2, <2>1
    <3> QED
      BY <3>2, <3>3
  <2> QED
    BY <2>1, <2>2
<1> HIDE DEF n, w, win, c
<1> QED
  BY <1>1, <1>2, <1>3, MenuMoved

(* A hot key highlights a row of the window.                               *)
LEMMA HotKeyKeeps == ASSUME MenuOK, NEW r \in 0..(max_choice - 1), HotKey(r) PROVE MenuOK'
<1>1. count # 0 /\ Move(Unlit, scroll, r)
  BY DEF HotKey
<1>2. /\ scroll \in Nat /\ scroll + max_choice <= count /\ max_choice \in Nat
      /\ max_choice <= menu_height /\ menu_height \in Nat
  BY <1>1, MenuFacts
<1>3. r \in Nat /\ r < max_choice
  BY <1>2
<1> QED
  BY <1>1, <1>2, <1>3, RowsUnlit, MenuMoved

(* No key breaks the menu.                                                 *)
LEMMA MenuKeyKeeps == ASSUME MenuOK, MenuKey PROVE MenuOK'
BY KeyUpKeeps, KeyDownKeeps, KeyPageUpKeeps, KeyPageDownKeeps, HotKeyKeeps DEF MenuKey

(* dialog_menu, opened on any item and scroll position.                    *)
LEMMA OpenMenuKeeps ==
  ASSUME NEW n \in Nat, NEW sel \in -1..(n - 1), NEW s \in Int, NEW h \in Int, OpenMenu(n, sel, s, h)
  PROVE  MenuOK'
<1> DEFINE c == IF sel >= 0 THEN sel ELSE 0
<1>1. DrawMenu(n, sel, s, h, c, 0)
  BY DEF OpenMenu
<1>2. c \in Nat /\ (c < n \/ (n = 0 /\ c = 0)) /\ sel \in Int /\ sel < n
  OBVIOUS
<1> HIDE DEF c
<1> QED
  BY <1>1, <1>2, MenuDrawnAnew

(* The row that becomes the item where none is asked for is a row with an  *)
(* item.                                                                   *)
LEMMA ResizeMenuKeeps == ASSUME MenuOK, NEW h \in Int, ResizeMenu(h) PROVE MenuOK'
<1>1. DrawMenu(count, selected, s_scroll, h, AskedFor, first_item)
  BY DEF ResizeMenu
<1>2. count \in Nat /\ selected \in Int /\ selected < count /\ s_scroll \in Int
  BY DEF MenuOK
<1>3. AskedFor \in Nat /\ (AskedFor < count \/ (count = 0 /\ AskedFor = 0))
  BY DEF AskedFor, MenuOK, MenuInWindow, max_choice, MIN
<1> QED
  BY <1>1, <1>2, <1>3, MenuDrawnAnew

-----------------------------------------------------------------------------
(* The values of a choice.                                                 *)

ListOK ==
  /\ values \in Nat \ {0} /\ top \in Int /\ row \in Int /\ redrawn \in BOOLEAN
  /\ ListInWindow
  /\ ListDrawn

(* The arithmetic of an open checklist.                                    *)
LEMMA ListFacts ==
  ASSUME ListOK
  PROVE  /\ max_value \in Nat /\ max_value >= 1 /\ max_value <= ListHeight /\ max_value <= values
         /\ ListHeight \in Nat /\ ListHeight >= 1 /\ values \in Nat /\ top \in Nat /\ top + max_value <= values
         /\ row \in Nat /\ row < max_value
         /\ top # 0 \/ top + max_value < values => max_value = ListHeight
BY ListAssumption DEF max_value, MIN, ListOK, ListInWindow

(* The arrows, as those of a window that has t values above it.            *)
LEMMA ListArrowsRight ==
  ASSUME NEW n \in Nat \ {0}, NEW t \in Nat, NEW r \in Nat, t + MIN(ListHeight, n) <= n, r < MIN(ListHeight, n)
  PROVE  /\ ListArrows(n, t, r)[1] = (t > 0)
         /\ t + MIN(ListHeight, n) < n => ListArrows(n, t, r)[2]
         /\ ListArrows(n, t, r)[2] => t + r < n - 1 /\ ListHeight < n
<1> DEFINE above == t > 0
           below == ListHeight < n /\ t + r < n - 1
<1>1. t + MIN(ListHeight, n) < n => below
  BY ListAssumption DEF MIN
<1>2. below => t + r < n - 1 /\ ListHeight < n
  OBVIOUS
<1>3. ListArrows(n, t, r) = <<above, below>>
  BY DEF ListArrows
<1> HIDE DEF above, below
<1>4. ListArrows(n, t, r)[1] = above /\ ListArrows(n, t, r)[2] = below
  BY <1>3
<1> QED
  BY <1>1, <1>2, <1>4 DEF above

(* dialog_checklist, opened on any item.                                   *)
LEMMA OpenListKeeps ==
  ASSUME NEW n \in Nat, NEW c \in 0..(n - 1), OpenList(n, c)
  PROVE  ListOK'
<1> DEFINE m == MIN(ListHeight, n)
           t == IF c >= ListHeight THEN (c - ListHeight) + 1 ELSE 0
<1>1. /\ values' = n /\ top' = t /\ row' = c - t /\ redrawn' = FALSE
      /\ list' = [r \in 0..(ListHeight - 1) |-> IF r < m THEN <<t + r, r = c - t>> ELSE Blank]
      /\ list_arrows' = ListArrows(n, t, c - t)
  BY DEF OpenList
<1>2. max_value' = m
  BY <1>1 DEF max_value
<1>3. /\ n \in Nat \ {0} /\ m \in Nat /\ t \in Nat /\ t + m <= n
      /\ c - t \in Nat /\ c - t < m /\ c - t \in 0..(m - 1)
      /\ t + (c - t) < n - 1 /\ ListHeight < n => t + m < n
  BY ListAssumption DEF MIN
<1> HIDE DEF t
<1>4. /\ list_arrows'[1] = (t > 0)
      /\ t + m < n => list_arrows'[2]
      /\ list_arrows'[2] => t + m < n
  BY <1>1, <1>3, ListArrowsRight
<1> HIDE DEF m
<1>5. ListDrawn'
  BY <1>1, <1>2, <1>4 DEF ListDrawn
<1>6. ListInWindow'
  BY <1>1, <1>2, <1>3 DEF ListInWindow
<1>7. values' \in Nat \ {0} /\ top' \in Int
  BY <1>1, <1>3
<1>8. row' \in Int
  BY <1>1, <1>3
<1>9. redrawn' \in BOOLEAN
  BY <1>1
<1> QED
  BY <1>5, <1>6, <1>7, <1>8, <1>9 DEF ListOK

(* The checklist is drawn anew, from the item it has.                      *)
LEMMA ResizeListKeeps == ASSUME ListOK, ResizeList PROVE ListOK'
<1>1. /\ values' = values /\ top' = top /\ row' = row /\ redrawn' = TRUE
      /\ list' = [r \in 0..(ListHeight - 1) |-> IF r < max_value THEN <<top + r, r = row>> ELSE Blank]
      /\ list_arrows' = ListArrows(values, top, row)
  BY DEF ResizeList
<1>2. max_value' = max_value
  BY <1>1 DEF max_value
<1>3. values \in Nat \ {0} /\ top + max_value <= values /\ top \in Nat /\ row \in Nat /\ row < max_value
  BY ListFacts DEF ListOK
<1>4. /\ list_arrows'[1] = (top > 0)
      /\ top + max_value < values => list_arrows'[2]
  BY <1>1, <1>3, ListArrowsRight DEF max_value
<1>5. ListDrawn'
  BY <1>1, <1>2, <1>4 DEF ListDrawn
<1> QED
  BY <1>1, <1>2, <1>5 DEF ListOK, ListInWindow

(* The rows from item t, m of them with an item, row c highlighted.        *)
ListRows(t, m, c) == [r \in 0..(ListHeight - 1) |-> IF r < m THEN <<t + r, r = c>> ELSE Blank]

(* A window of which every row but the one highlighted is right.           *)
LEMMA ListRowsRight ==
  ASSUME NEW win, NEW m \in Nat, NEW t \in Int, NEW r0 \in 0..(m - 1), m <= ListHeight,
         DOMAIN win = 0..(ListHeight - 1),
         \A r \in 0..(ListHeight - 1) : r # r0 => win[r] = IF r < m THEN <<t + r, FALSE>> ELSE Blank
  PROVE  print_item(win, r0, t + r0, TRUE) = ListRows(t, m, r0)
<1>1. r0 \in 0..(ListHeight - 1) /\ r0 < m
  BY ListAssumption
<1>2. print_item(win, r0, t + r0, TRUE) = [win EXCEPT ![r0] = <<t + r0, TRUE>>]
  BY DEF print_item
<1>3. print_item(win, r0, t + r0, TRUE)
        = [r \in 0..(ListHeight - 1) |-> IF r = r0 THEN <<t + r0, TRUE>> ELSE win[r]]
  BY <1>1, <1>2
<1>4. ASSUME NEW r \in 0..(ListHeight - 1)
      PROVE  (IF r = r0 THEN <<t + r0, TRUE>> ELSE win[r]) = IF r < m THEN <<t + r, r = r0>> ELSE Blank
  <2>1. CASE r = r0
    BY <2>1, <1>1
  <2>2. CASE r # r0
    <3>1. win[r] = IF r < m THEN <<t + r, FALSE>> ELSE Blank
      BY <2>2
    <3>2. (r = r0) = FALSE
      BY <2>2
    <3> QED
      BY <3>1, <3>2
  <2> QED
    BY <2>1, <2>2
<1> QED
  BY <1>3, <1>4 DEF ListRows

(* The highlight taken off.                                                *)
ListUnlit == print_item(list, row, top + row, FALSE)

(* The rows of a checklist with the highlight taken away.                  *)
LEMMA ListRowsUnlit ==
  ASSUME ListOK
  PROVE  /\ DOMAIN ListUnlit = 0..(ListHeight - 1)
         /\ \A r \in 0..(ListHeight - 1) : ListUnlit[r] = IF r < max_value THEN <<top + r, FALSE>> ELSE Blank
<1>1. list = [r \in 0..(ListHeight - 1) |-> IF r < max_value THEN <<top + r, r = row>> ELSE Blank]
  BY DEF ListOK, ListDrawn
<1>2. row \in 0..(ListHeight - 1) /\ row < max_value
  BY ListFacts
<1>3. ListUnlit = [list EXCEPT ![row] = <<top + row, FALSE>>]
  BY DEF ListUnlit, print_item
<1>4. ListUnlit = [r \in 0..(ListHeight - 1) |-> IF r = row THEN <<top + row, FALSE>> ELSE list[r]]
  BY <1>1, <1>2, <1>3
<1>5. ASSUME NEW r \in 0..(ListHeight - 1)
      PROVE  ListUnlit[r] = IF r < max_value THEN <<top + r, FALSE>> ELSE Blank
  <2>1. CASE r = row
    BY <2>1, <1>2, <1>4
  <2>2. CASE r # row
    <3>1. (r = row) = FALSE
      BY <2>2
    <3>2. ListUnlit[r] = list[r]
      BY <2>2, <1>4
    <3> QED
      BY <3>1, <3>2, <1>1
  <2> QED
    BY <2>1, <2>2
<1> QED
  BY <1>4, <1>5

(* Another row of the same window is highlighted.                          *)
LEMMA HighlightKeeps == ASSUME ListOK, NEW r \in Int, Highlight(r) PROVE ListOK'
<1>1. /\ r \in 0..(max_value - 1) /\ row' = r
      /\ values' = values /\ top' = top /\ list_arrows' = list_arrows /\ redrawn' = redrawn
      /\ list' = print_item(ListUnlit, r, top + r, TRUE)
  BY DEF Highlight, ListUnlit
<1>2. max_value' = max_value
  BY <1>1 DEF max_value
<1>3. max_value \in Nat /\ max_value <= ListHeight /\ top \in Int
  BY ListFacts
<1>4. list' = ListRows(top, max_value, r)
  BY <1>1, <1>3, ListRowsUnlit, ListRowsRight
<1>5. ListDrawn'
  BY <1>1, <1>2, <1>4 DEF ListDrawn, ListOK, ListRows
<1> QED
  BY <1>1, <1>2, <1>5 DEF ListOK, ListInWindow

(* The window scrolled by a line, n up or down, where it may be.  What     *)
(* comes in is the row with the highlight.                                 *)
LEMMA ListScrollKeeps ==
  ASSUME ListOK, NEW n \in {-1, 1}, ListScroll(n),
         n = -1 => row = 0 /\ top # 0,
         n = 1 => row = max_value - 1 /\ top + row < values - 1
  PROVE  ListOK'
<1>1. /\ values' = values /\ top' = top + n /\ row' = row /\ redrawn' = FALSE
      /\ list' = print_item(Turned(n), row, (top + n) + row, TRUE)
      /\ list_arrows' = ListArrows(values, top + n, row)
  BY DEF ListScroll
<1>2. max_value' = max_value
  BY <1>1 DEF max_value
<1>f. /\ max_value \in Nat /\ max_value >= 1 /\ max_value = ListHeight /\ max_value <= values
      /\ ListHeight \in Nat /\ ListHeight >= 1 /\ values \in Nat \ {0} /\ top \in Nat /\ top + max_value <= values
      /\ row \in Nat /\ row < max_value
      /\ n \in Int /\ top + n \in Nat /\ (top + n) + max_value <= values
  BY ListFacts
<1>3. \A r \in 0..(ListHeight - 1) : r # row => r + n \in 0..(ListHeight - 1)
  BY <1>f
<1>4. /\ DOMAIN Turned(n) = 0..(ListHeight - 1)
      /\ \A r \in 0..(ListHeight - 1) :
           r # row => Turned(n)[r] = IF r < max_value THEN <<(top + n) + r, FALSE>> ELSE Blank
  <2>1. CASE ListHeight > 1
    <3> DEFINE U == ListUnlit
    <3>1. /\ DOMAIN U = 0..(ListHeight - 1)
          /\ \A r \in 0..(ListHeight - 1) : U[r] = IF r < max_value THEN <<top + r, FALSE>> ELSE Blank
      BY ListRowsUnlit
    <3>2. Turned(n) = wscrl(U, n)
      BY <2>1 DEF Turned, ListUnlit
    <3> HIDE DEF U
    <3>3. Turned(n) = [r \in 0..(ListHeight - 1) |-> IF r + n \in 0..(ListHeight - 1) THEN U[r + n] ELSE Blank]
      BY <3>1, <3>2 DEF wscrl
    <3>4. ASSUME NEW r \in 0..(ListHeight - 1), r # row
          PROVE  Turned(n)[r] = IF r < max_value THEN <<(top + n) + r, FALSE>> ELSE Blank
      <4>1. Turned(n)[r] = U[r + n] /\ r + n \in 0..(ListHeight - 1)
        BY <1>3, <3>3, <3>4
      <4>2. U[r + n] = <<top + (r + n), FALSE>>
        <5>1. U[r + n] = IF r + n < max_value THEN <<top + (r + n), FALSE>> ELSE Blank
          BY <3>1, <4>1
        <5>2. r + n < max_value
          BY <4>1, <1>f
        <5> QED
          BY <5>1, <5>2
      <4>3. top + (r + n) = (top + n) + r /\ r < max_value
        BY <1>f
      <4> QED
        BY <4>1, <4>2, <4>3
    <3> QED
      BY <3>3, <3>4
  <2>2. CASE ~(ListHeight > 1)
    <3>1. \A r \in 0..(ListHeight - 1) : r = row
      BY <2>2, <1>f
    <3>2. Turned(n) = list /\ DOMAIN list = 0..(ListHeight - 1)
      BY <2>2 DEF Turned, ListOK, ListDrawn
    <3> QED
      BY <3>1, <3>2
  <2> QED
    BY <2>1, <2>2
<1>5. list' = ListRows(top + n, max_value, row)
  <2> DEFINE win == Turned(n)
  <2>1. /\ DOMAIN win = 0..(ListHeight - 1)
        /\ \A r \in 0..(ListHeight - 1) :
             r # row => win[r] = IF r < max_value THEN <<(top + n) + r, FALSE>> ELSE Blank
    BY <1>4
  <2>2. top + n \in Int /\ max_value \in Nat /\ max_value <= ListHeight /\ row \in 0..(max_value - 1)
    BY <1>f
  <2> HIDE DEF win
  <2>3. print_item(win, row, (top + n) + row, TRUE) = ListRows(top + n, max_value, row)
    BY <2>1, <2>2, ListRowsRight
  <2> QED
    BY <1>1, <2>3 DEF win
<1>6. /\ list_arrows'[1] = (top + n > 0)
      /\ (top + n) + max_value < values => list_arrows'[2]
      /\ list_arrows'[2] => (top + n) + max_value < values
  <2> DEFINE t == top + n
  <2>1. t \in Nat /\ t + max_value <= values /\ row \in Nat /\ row < max_value /\ values \in Nat \ {0}
    BY <1>f
  <2>2. t + row < values - 1 /\ ListHeight < values => t + max_value < values
    BY <1>f
  <2> HIDE DEF t
  <2>3. /\ ListArrows(values, t, row)[1] = (t > 0)
        /\ t + max_value < values => ListArrows(values, t, row)[2]
        /\ ListArrows(values, t, row)[2] => t + row < values - 1 /\ ListHeight < values
    BY <2>1, ListArrowsRight DEF max_value
  <2> QED
    BY <1>1, <2>2, <2>3 DEF t
<1>7. ListDrawn'
  BY <1>1, <1>2, <1>5, <1>6 DEF ListDrawn, ListRows
<1>8. ListInWindow'
  BY <1>1, <1>2, <1>f DEF ListInWindow
<1>9. values' \in Nat \ {0} /\ top' \in Int /\ row' \in Int
  BY <1>1, <1>f
<1>10. redrawn' \in BOOLEAN
  BY <1>1
<1> QED
  BY <1>7, <1>8, <1>9, <1>10 DEF ListOK

(* No key breaks the checklist.                                            *)
LEMMA ListKeyKeeps == ASSUME ListOK, ListKey PROVE ListOK'
<1>1. top \in Nat /\ row \in Nat /\ max_value \in Nat /\ row - 1 \in Int /\ row + 1 \in Int
  BY ListFacts
<1>2. CASE ListUp
  <2>1. CASE row = 0
    <3>1. top # 0 /\ ListScroll(-1)
      BY <1>2, <2>1 DEF ListUp
    <3> QED
      BY <2>1, <3>1, ListScrollKeeps
  <2>2. CASE row # 0
    <3>1. Highlight(row - 1)
      BY <1>2, <2>2 DEF ListUp
    <3> QED
      BY <1>1, <3>1, HighlightKeeps
  <2> QED
    BY <2>1, <2>2
<1>3. CASE ListDown
  <2>1. CASE row = max_value - 1
    <3>1. top + row < values - 1 /\ ListScroll(1)
      BY <1>3, <2>1 DEF ListDown
    <3> QED
      BY <2>1, <3>1, ListScrollKeeps
  <2>2. CASE row # max_value - 1
    <3>1. Highlight(row + 1)
      BY <1>3, <2>2 DEF ListDown
    <3> QED
      BY <1>1, <3>1, HighlightKeeps
  <2> QED
    BY <2>1, <2>2
<1>4. ASSUME NEW r \in 0..(max_value - 1), Highlight(r) PROVE ListOK'
  <2>1. r \in Int
    BY <1>1
  <2> QED
    BY <1>4, <2>1, HighlightKeeps
<1> QED
  BY <1>2, <1>3, <1>4 DEF ListKey

-----------------------------------------------------------------------------
(* The string that is edited.                                              *)

InputOK ==
  /\ len \in Nat /\ pos \in Nat /\ show_x \in Nat /\ input_x \in Nat
  /\ InputShown

(* What the box is to show of a string of length n from character x on.    *)
Shown(s, n, x) == [i \in Cell |-> IF x + i < n THEN s[x + i] ELSE Empty]

(* Only the cells behind the blank are left as they were: they must have   *)
(* been empty.                                                             *)
LEMMA RedrawnShown ==
  ASSUME NEW old, NEW s, NEW n \in Nat, NEW x \in Nat,
         \A i \in Cell : x + i > n => old[i] = Empty
  PROVE  Redrawn(old, s, n, x) = Shown(s, n, x)
<1>1. Cell \subseteq Nat
  BY InputAssumption DEF Cell
<1>2. ASSUME NEW i \in Cell
      PROVE  (IF x + i < n THEN s[x + i] ELSE IF x + i = n THEN Empty ELSE old[i])
               = IF x + i < n THEN s[x + i] ELSE Empty
  <2>1. x + i < n \/ x + i = n \/ x + i > n
    BY <1>1
  <2> QED
    BY <1>1, <2>1
<1> QED
  BY <1>2 DEF Redrawn, Shown

(* The arithmetic of the input box.                                        *)
LEMMA InputFacts ==
  ASSUME InputOK
  PROVE  /\ Cell = 0..(BoxWidth - 1) /\ BoxWidth \in Nat /\ BoxWidth >= 1 /\ MAX_LEN \in Nat
         /\ len \in Nat /\ pos \in Nat /\ show_x \in Nat /\ input_x \in Nat /\ input_x <= BoxWidth - 1
         /\ pos = show_x + input_x /\ pos <= len /\ len <= MAX_LEN
         /\ \A i \in Cell : show_x + i >= len => cells[i] = Empty
BY InputAssumption DEF InputOK, InputShown, Cell

(* Whatever is drawn over what is shown now, a character to the left or    *)
(* right or the string one character shorter or longer, is shown.          *)
LEMMA InputRedrawn ==
  ASSUME InputOK,
         len' \in Nat, pos' \in Nat, show_x' \in Nat, input_x' \in Nat, input_x' <= BoxWidth - 1,
         pos' = show_x' + input_x', pos' <= len', len' <= MAX_LEN,
         cells' = Redrawn(cells, instr', len', show_x'),
         show_x' - len' <= (show_x - len) + 1
  PROVE  InputOK'
<1>1. ASSUME NEW i \in Cell, show_x' + i > len' PROVE cells[i] = Empty
  <2>1. /\ Cell = 0..(BoxWidth - 1) /\ BoxWidth \in Nat /\ show_x \in Nat /\ len \in Nat
        /\ \A j \in Cell : show_x + j >= len => cells[j] = Empty
    BY InputFacts
  <2>2. i \in Nat
    BY <2>1
  <2>3. show_x + i >= len
    <3> DEFINE x == show_x'
               n == len'
    <3>1. x \in Nat /\ n \in Nat /\ x + i > n /\ x - n <= (show_x - len) + 1
      BY <1>1
    <3> HIDE DEF x, n
    <3> QED
      BY <2>1, <2>2, <3>1
  <2> QED
    BY <2>1, <2>3
<1>2. cells' = Shown(instr', len', show_x')
  <2> DEFINE n == len'
             x == show_x'
             s == instr'
  <2>1. n \in Nat /\ x \in Nat /\ \A i \in Cell : x + i > n => cells[i] = Empty
    BY <1>1
  <2> HIDE DEF n, x, s
  <2>2. Redrawn(cells, s, n, x) = Shown(s, n, x)
    BY <2>1, RedrawnShown
  <2> QED
    BY <2>2 DEF n, x, s
<1>3. input_x' \in Cell
  BY InputFacts
<1>4. cells' = [i \in Cell |-> IF show_x' + i < len' THEN instr'[show_x' + i] ELSE Empty]
  BY <1>2 DEF Shown
<1>5. show_x' >= 0
  OBVIOUS
<1>6. InputShown'
  BY <1>3, <1>4, <1>5 DEF InputShown
<1> QED
  BY <1>6 DEF InputOK

(* dialog_inputbox shows the end of a long text.                           *)
LEMMA DrawInputKeeps ==
  ASSUME NEW s, NEW n \in Nat, n <= MAX_LEN, DrawInput(s, n)
  PROVE  InputOK'
<1> DEFINE x == IF n >= BoxWidth THEN (n - BoxWidth) + 1 ELSE 0
           c == IF n >= BoxWidth THEN BoxWidth - 1 ELSE n
<1>1. /\ instr' = s /\ len' = n /\ pos' = n /\ show_x' = x /\ input_x' = c
      /\ cells' = Redrawn(Blanks, s, n, x)
  BY DEF DrawInput
<1>2. x \in Nat /\ c \in Nat /\ c \in Cell /\ n = x + c /\ x >= 0
  BY InputAssumption DEF Cell
<1> HIDE DEF x, c
<1>3. \A i \in Cell : Blanks[i] = Empty
  BY DEF Blanks
<1>4. Redrawn(Blanks, s, n, x) = Shown(s, n, x)
  BY <1>2, <1>3, RedrawnShown
<1>5. cells' = [i \in Cell |-> IF show_x' + i < len' THEN instr'[show_x' + i] ELSE Empty]
  BY <1>1, <1>4 DEF Shown
<1>6. /\ len' \in Nat /\ pos' \in Nat /\ show_x' \in Nat /\ input_x' \in Nat
      /\ pos' = show_x' + input_x' /\ show_x' >= 0 /\ input_x' \in Cell /\ pos' <= len' /\ len' <= MAX_LEN
  BY <1>1, <1>2
<1>7. InputShown'
  BY <1>5, <1>6 DEF InputShown
<1> QED
  BY <1>6, <1>7 DEF InputOK

(* No key breaks the input box.                                            *)
LEMMA InputKeyKeeps == ASSUME InputOK, InputKey PROVE InputOK'
<1>0. /\ BoxWidth \in Nat /\ BoxWidth >= 1 /\ MAX_LEN \in Nat
      /\ len \in Nat /\ pos \in Nat /\ show_x \in Nat /\ input_x \in Nat /\ input_x <= BoxWidth - 1
      /\ pos = show_x + input_x /\ pos <= len /\ len <= MAX_LEN
  BY InputFacts
<1>1. CASE KeyBackspace
  <2>1. /\ len' = len - 1 /\ pos' = pos - 1 /\ pos > 0
        /\ cells' = Redrawn(cells, instr', len', show_x')
    BY <1>1 DEF KeyBackspace
  <2>2. CASE input_x = 0
    <3>1. show_x' = show_x - 1 /\ input_x' = input_x
      BY <1>1, <2>2 DEF KeyBackspace
    <3>2. /\ len' \in Nat /\ pos' \in Nat /\ show_x' \in Nat /\ input_x' \in Nat /\ input_x' <= BoxWidth - 1
          /\ pos' = show_x' + input_x' /\ pos' <= len' /\ len' <= MAX_LEN
          /\ show_x' - len' <= (show_x - len) + 1
      BY <1>0, <2>1, <2>2, <3>1
    <3> QED
      BY <2>1, <3>2, InputRedrawn
  <2>3. CASE input_x # 0
    <3>1. show_x' = show_x /\ input_x' = input_x - 1
      BY <1>1, <2>3 DEF KeyBackspace
    <3>2. /\ len' \in Nat /\ pos' \in Nat /\ show_x' \in Nat /\ input_x' \in Nat /\ input_x' <= BoxWidth - 1
          /\ pos' = show_x' + input_x' /\ pos' <= len' /\ len' <= MAX_LEN
          /\ show_x' - len' <= (show_x - len) + 1
      BY <1>0, <2>1, <2>3, <3>1
    <3> QED
      BY <2>1, <3>2, InputRedrawn
  <2> QED
    BY <2>2, <2>3
<1>2. CASE KeyLeft
  <2>1. CASE input_x > 0
    BY <1>0, <1>2, <2>1, InputFacts DEF KeyLeft, InputOK, InputShown
  <2>2. CASE ~(input_x > 0)
    <3>1. /\ show_x' = show_x - 1 /\ pos' = pos - 1 /\ pos > 0 /\ instr' = instr /\ len' = len /\ input_x' = input_x
          /\ cells' = Redrawn(cells, instr', len', show_x')
      BY <1>2, <2>2 DEF KeyLeft
    <3>2. /\ len' \in Nat /\ pos' \in Nat /\ show_x' \in Nat /\ input_x' \in Nat /\ input_x' <= BoxWidth - 1
          /\ pos' = show_x' + input_x' /\ pos' <= len' /\ len' <= MAX_LEN
          /\ show_x' - len' <= (show_x - len) + 1
      BY <1>0, <2>2, <3>1
    <3> QED
      BY <3>1, <3>2, InputRedrawn
  <2> QED
    BY <2>1, <2>2
<1>3. CASE KeyRight
  <2>1. CASE input_x < BoxWidth - 1
    BY <1>0, <1>3, <2>1, InputFacts DEF KeyRight, InputOK, InputShown
  <2>2. CASE ~(input_x < BoxWidth - 1)
    <3>1. /\ show_x' = show_x + 1 /\ pos' = pos + 1 /\ pos < len /\ instr' = instr /\ len' = len /\ input_x' = input_x
          /\ cells' = Redrawn(cells, instr', len', show_x')
      BY <1>3, <2>2 DEF KeyRight
    <3>2. /\ len' \in Nat /\ pos' \in Nat /\ show_x' \in Nat /\ input_x' \in Nat /\ input_x' <= BoxWidth - 1
          /\ pos' = show_x' + input_x' /\ pos' <= len' /\ len' <= MAX_LEN
          /\ show_x' - len' <= (show_x - len) + 1
      BY <1>0, <2>2, <3>1
    <3> QED
      BY <3>1, <3>2, InputRedrawn
  <2> QED
    BY <2>1, <2>2
<1>4. ASSUME NEW c \in Chars, KeyChar(c) PROVE InputOK'
  <2>1. CASE input_x = BoxWidth - 1
    <3>1. /\ len' = len + 1 /\ pos' = pos + 1 /\ show_x' = show_x + 1 /\ input_x' = input_x /\ len < MAX_LEN
          /\ cells' = Redrawn(cells, instr', len', show_x')
      BY <1>4, <2>1 DEF KeyChar
    <3>2. /\ len' \in Nat /\ pos' \in Nat /\ show_x' \in Nat /\ input_x' \in Nat /\ input_x' <= BoxWidth - 1
          /\ pos' = show_x' + input_x' /\ pos' <= len' /\ len' <= MAX_LEN
          /\ show_x' - len' <= (show_x - len) + 1
      BY <1>0, <2>1, <3>1
    <3> QED
      BY <3>1, <3>2, InputRedrawn
  <2>2. CASE input_x # BoxWidth - 1
    <3>1. /\ len' = len + 1 /\ pos' = pos + 1 /\ show_x' = show_x /\ input_x' = input_x + 1 /\ len < MAX_LEN
          /\ cells' = Redrawn(cells, instr', len', show_x')
      BY <1>4, <2>2 DEF KeyChar
    <3>2. /\ len' \in Nat /\ pos' \in Nat /\ show_x' \in Nat /\ input_x' \in Nat /\ input_x' <= BoxWidth - 1
          /\ pos' = show_x' + input_x' /\ pos' <= len' /\ len' <= MAX_LEN
          /\ show_x' - len' <= (show_x - len) + 1
      BY <1>0, <2>2, <3>1
    <3> QED
      BY <3>1, <3>2, InputRedrawn
  <2> QED
    BY <2>1, <2>2
<1>5. CASE KeyButton
  BY <1>5 DEF KeyButton, InputOK, InputShown
<1> QED
  BY <1>1, <1>2, <1>3, <1>4, <1>5 DEF InputKey

-----------------------------------------------------------------------------
(* The text.                                                               *)

(* A pointer that a page may be printed from: begin_reached says that it is*)
(* the start of the text, except that of a text without a newline, where   *)
(* begin_reached may be missing.                                           *)
Starts(t, p) ==
  /\ p.page \in 0..NUL(t)
  /\ p.begin => p.page = 0
  /\ p.page = 0 => p.begin \/ t.last = 0

(* What is kept of a text while it is open: everything follows from the    *)
(* line in the first row.                                                  *)
TextOK ==
  /\ last \in Nat /\ unended \in BOOLEAN /\ boxh \in Nat \ {0}
  /\ first \in 0..NUL(Text)
  /\ page = IF first + boxh <= last THEN first + boxh ELSE NUL(Text)
  /\ end_reached = (first + boxh > last)
  /\ page_length = Less(boxh, More((last + 1) - first, 1))
  /\ begin_reached => first = 0
  /\ first = 0 => begin_reached \/ last = 0

(* The text's end is on its last line or just after it.                    *)
LEMMA NulFacts ==
  ASSUME NEW t, t.last \in Nat
  PROVE  NUL(t) \in Nat /\ t.last <= NUL(t) /\ NUL(t) <= t.last + 1
BY DEF NUL

(* However many lines are gone back, it is known when the start is reached:*)
(* the pointer behind a page is not itself the start.                      *)
LEMMA BackStarts ==
  ASSUME NEW t, t.last \in Nat, NEW p, p.page \in 0..NUL(t), p.page = 0 => t.last = 0, NEW n \in Int
  PROVE  Starts(t, back_lines(t, p, n))
<1> DEFINE down == n > 0 /\ p.page = NUL(t) /\ p.end
           k == IF down THEN n - 1 ELSE n
           q == At(IF k > 0 THEN More(p.page - k, 0) ELSE p.page, k > 0 /\ p.page <= k, p.end /\ ~down)
<1>1. back_lines(t, p, n) = q
  BY DEF back_lines
<1>2. k \in Int /\ NUL(t) \in Nat /\ p.page \in Int /\ p.page >= 0 /\ p.page <= NUL(t)
  BY NulFacts
<1> HIDE DEF down, k
<1>3. q.page = (IF k > 0 THEN More(p.page - k, 0) ELSE p.page) /\ q.begin = (k > 0 /\ p.page <= k)
  BY DEF At
<1> HIDE DEF q
<1>4. CASE k > 0
  <2>1. q.page = More(p.page - k, 0) /\ q.begin = (p.page <= k)
    BY <1>3, <1>4
  <2>2. q.page \in 0..NUL(t)
    BY <2>1, <1>2, <1>4 DEF More
  <2>3. (p.page <= k) <=> (q.page = 0)
    BY <2>1, <1>2, <1>4 DEF More
  <2>4. Starts(t, q)
    BY <2>1, <2>2, <2>3 DEF Starts
  <2> QED
    BY <2>4, <1>1
<1>5. CASE ~(k > 0)
  <2>1. q.page = p.page /\ q.begin = FALSE
    BY <1>3, <1>5
  <2> QED
    BY <2>1, <1>2, <1>1 DEF Starts
<1> QED
  BY <1>4, <1>5

(* Wherever a page is printed from, the first row is a line of the text and*)
(* everything that is kept agrees with it.                                 *)
LEMMA PagePrinted ==
  ASSUME NEW t, t.last \in Nat, t.unended \in BOOLEAN, NEW j, NEW h \in Nat \ {0}, NEW p, Starts(t, p),
         print_page(t, j, h, p)
  PROVE  TextOK'
<1> DEFINE q == get_lines(t, p, h)
           from == IF j THEN back_lines(t, q, h) ELSE p
           to == get_lines(t, from, h)
<1>0. NUL(t) \in Nat /\ t.last <= NUL(t) /\ NUL(t) <= t.last + 1
  BY NulFacts
<1>1. Starts(t, from)
  <2>1. CASE j
    <3>1. q = At(IF p.page + h <= t.last THEN p.page + h ELSE NUL(t), p.begin, p.page + h > t.last)
      BY DEF get_lines
    <3>2. q.page = IF p.page + h <= t.last THEN p.page + h ELSE NUL(t)
      BY <3>1 DEF At
    <3>3. q.page \in 0..NUL(t) /\ (q.page = 0 => t.last = 0) /\ h \in Int
      BY <3>2, <1>0 DEF Starts
    <3> HIDE DEF q
    <3> QED
      BY <2>1, <3>3, BackStarts
  <2>2. CASE ~j
    BY <2>2
  <2> QED
    BY <2>1, <2>2
<1>2. /\ page' = to.page /\ begin_reached' = to.begin /\ end_reached' = to.end
      /\ page_length' = Less(h, More((t.last + 1) - from.page, 1))
      /\ first' = from.page
      /\ last' = t.last /\ unended' = t.unended /\ boxh' = h
  BY DEF print_page
<1> HIDE DEF from
<1>3. to = At(IF from.page + h <= t.last THEN from.page + h ELSE NUL(t), from.begin, from.page + h > t.last)
  BY DEF get_lines
<1>4. /\ to.page = IF from.page + h <= t.last THEN from.page + h ELSE NUL(t)
      /\ to.begin = from.begin /\ to.end = (from.page + h > t.last)
  BY <1>3 DEF At
<1> HIDE DEF to
<1>5. NUL(Text)' = NUL(t)
  BY <1>2 DEF NUL, Text
<1>6. page' = IF first' + boxh' <= last' THEN first' + boxh' ELSE NUL(Text)'
  BY <1>2, <1>4, <1>5
<1>7. end_reached' = (first' + boxh' > last')
  BY <1>2, <1>4
<1>8. (begin_reached' => first' = 0) /\ (first' = 0 => begin_reached' \/ last' = 0) /\ first' \in 0..NUL(Text)'
  BY <1>1, <1>2, <1>4, <1>5 DEF Starts
<1>9. last' \in Nat /\ unended' \in BOOLEAN /\ boxh' \in Nat \ {0} /\ page_length' = Less(boxh', More((last' + 1) - first', 1))
  BY <1>2
<1> QED
  BY <1>6, <1>7, <1>8, <1>9 DEF TextOK

(* The arithmetic of the text box.                                         *)
LEMMA TextFacts ==
  ASSUME TextOK
  PROVE  /\ Text.last = last /\ Text.unended = unended /\ last \in Nat /\ unended \in BOOLEAN
         /\ NUL(Text) \in Nat /\ boxh \in Nat \ {0} /\ page_length \in Int
         /\ page \in 0..NUL(Text) /\ (page = 0 => last = 0) /\ Pointer.page = page
<1>1. Text.last = last /\ Text.unended = unended /\ Pointer.page = page
  BY DEF Text, Pointer, At
<1>2. last \in Nat /\ unended \in BOOLEAN /\ boxh \in Nat \ {0}
  BY DEF TextOK
<1>3. NUL(Text) \in Nat /\ last <= NUL(Text) /\ NUL(Text) <= last + 1
  BY <1>1, <1>2, NulFacts
<1>4. first \in Int /\ first >= 0
  BY <1>3 DEF TextOK
<1>5. page_length \in Int
  BY <1>2, <1>4 DEF TextOK, Less, More
<1>6. page \in 0..NUL(Text) /\ (page = 0 => last = 0)
  BY <1>2, <1>3, <1>4 DEF TextOK
<1> QED
  BY <1>1, <1>2, <1>3, <1>5, <1>6

(* refresh_text_box prints a page the pointer starts.                      *)
LEMMA RefreshKeeps ==
  ASSUME TextOK, NEW p, Starts(Text, p), NEW h \in Nat \ {0}, print_page(Text, jumps, h, p)
  PROVE  TextOK'
<1> DEFINE t == Text
<1>1. t.last \in Nat /\ t.unended \in BOOLEAN /\ Starts(t, p) /\ print_page(t, jumps, h, p)
  BY TextFacts
<1> HIDE DEF t
<1> QED
  BY <1>1, PagePrinted

(* Going back from the page shown comes to a page's start.                 *)
LEMMA PointerBackStarts == ASSUME TextOK, NEW n \in Int PROVE Starts(Text, back_lines(Text, Pointer, n))
BY TextFacts, BackStarts

(* No key breaks the text box.                                             *)
LEMMA TextKeyKeeps == ASSUME TextOK, TextKey PROVE TextOK'
<1> USE TextFacts
<1> SUFFICES ASSUME NEW p, refresh_text_box(p), Starts(Text, p) PROVE TextOK'
  <2>1. CASE FirstPage
    <3> DEFINE p == At(0, TRUE, end_reached)
    <3>1. refresh_text_box(p)
      BY <2>1 DEF FirstPage
    <3>2. Starts(Text, p)
      BY DEF Starts, At
    <3> HIDE DEF p
    <3> QED
      BY <3>1, <3>2
  <2>2. CASE LastPage
    <3> DEFINE n == At(NUL(Text), begin_reached, TRUE)
               p == back_lines(Text, n, boxh)
    <3>1. refresh_text_box(p)
      BY <2>2 DEF LastPage
    <3>2. n.page = NUL(Text)
      BY DEF At
    <3> HIDE DEF n
    <3>3. n.page \in 0..NUL(Text) /\ (n.page = 0 => Text.last = 0) /\ Text.last \in Nat /\ boxh \in Int
      BY <3>2, NulFacts
    <3>4. Starts(Text, p)
      BY <3>3, BackStarts
    <3> HIDE DEF p
    <3> QED
      BY <3>1, <3>4
  <2>3. CASE PreviousLine
    BY <2>3, PointerBackStarts DEF PreviousLine
  <2>4. CASE PreviousPage
    BY <2>4, PointerBackStarts DEF PreviousPage
  <2>5. CASE NextLine
    BY <2>5, PointerBackStarts DEF NextLine
  <2>6. CASE NextPage
    <3> DEFINE p == At(page, FALSE, end_reached)
    <3>1. refresh_text_box(p)
      BY <2>6 DEF NextPage
    <3>2. p.page = page /\ p.begin = FALSE
      BY DEF At
    <3> HIDE DEF p
    <3>3. Starts(Text, p)
      BY <3>2 DEF Starts
    <3> QED
      BY <3>1, <3>3
  <2>7. CASE Sideways
    BY <2>7, PointerBackStarts DEF Sideways
  <2> QED
    BY <2>1, <2>2, <2>3, <2>4, <2>5, <2>6, <2>7 DEF TextKey
<1>1. print_page(Text, jumps, boxh, p)
  BY DEF refresh_text_box
<1> QED
  BY <1>1, RefreshKeeps

(* After a resize the page printed is found again.                         *)
LEMMA ResizeTextKeeps == ASSUME TextOK, NEW h \in Nat \ {0}, ResizeText(h) PROVE TextOK'
<1>1. boxh + 4 \in Int
  BY TextFacts
<1>2. Starts(Text, back_lines(Text, Pointer, boxh + 4))
  BY <1>1, PointerBackStarts
<1> QED
  BY <1>2, RefreshKeeps DEF ResizeText

(* show_textbox_ext, opened on any page it left.                           *)
LEMMA OpenTextKeeps ==
  ASSUME NEW l \in Nat, NEW u \in BOOLEAN, NEW j, NEW h \in Nat \ {0}, NEW v \in 0..l,
         OpenText([last |-> l, unended |-> u], j, h, v)
  PROVE  TextOK'
<1> DEFINE t == [last |-> l, unended |-> u]
           p == get_lines(t, At(0, v = 0, FALSE), v)
<1>1. t.last = l /\ t.unended = u
  OBVIOUS
<1>2. print_page(t, j, h, p)
  BY DEF OpenText
<1> HIDE DEF t
<1>3. p.page = v /\ p.begin = (v = 0)
  BY <1>1 DEF get_lines, At
<1> HIDE DEF p
<1>4. NUL(t) \in Nat /\ l <= NUL(t)
  BY <1>1, NulFacts
<1>5. Starts(t, p)
  <2>1. p.page \in 0..NUL(t)
    BY <1>3, <1>4
  <2> QED
    BY <1>3, <2>1 DEF Starts
<1> QED
  BY <1>1, <1>2, <1>5, PagePrinted

(* From what is kept the first row is found again.                         *)
LEMMA FoundAgain == ASSUME TextOK PROVE PageRemembered
<1> DEFINE p == Pointer
           n == page_length
           nul == NUL(Text)
           down == n > 0 /\ p.page = nul /\ p.end
           k == IF down THEN n - 1 ELSE n
<1>1. p.page = page /\ p.end = end_reached
  BY DEF Pointer, At
<1>2. /\ last \in Nat /\ unended \in BOOLEAN /\ nul = IF unended THEN last + 1 ELSE last
      /\ boxh \in Nat \ {0} /\ first \in 0..nul
      /\ page = (IF first + boxh <= last THEN first + boxh ELSE nul)
      /\ end_reached = (first + boxh > last)
      /\ n = Less(boxh, More((last + 1) - first, 1))
  BY TextFacts DEF TextOK, NUL
<1>3. back_lines(Text, p, n).page = IF k > 0 THEN More(page - k, 0) ELSE page
  BY <1>1 DEF back_lines, At
<1> HIDE DEF p, n, nul
<1>4. ASSUME ~end_reached PROVE Vscroll = first
  <2>a. ~(first + boxh > last)
    BY <1>2, <1>4
  <2>b. nul \in Nat
    BY <1>2
  <2>c. first \in Int
    BY <2>b, <1>2
  <2>0. first \in Int /\ first + boxh <= last
    BY <2>a, <2>c, <1>2
  <2>1. first + boxh <= last /\ n = boxh /\ page = first + boxh
    BY <2>0, <1>2 DEF Less, More
  <2>2. k = boxh
    BY <2>1, <1>1, <1>4
  <2> HIDE DEF k
  <2>3. back_lines(Text, p, n).page = first
    BY <2>1, <2>2, <1>2, <1>3 DEF More
  <2> QED
    BY <2>1, <2>3, <1>2 DEF Vscroll, Less, p, n
<1>5. ASSUME end_reached, ~unended PROVE Vscroll = first
  <2>1. nul = last /\ page = last /\ first <= last /\ n = (last + 1) - first
    BY <1>2, <1>5 DEF Less, More
  <2>2. k = last - first
    BY <2>1, <1>1, <1>2, <1>5
  <2> HIDE DEF k
  <2>3. back_lines(Text, p, n).page = first
    BY <2>1, <2>2, <1>2, <1>3 DEF More
  <2> QED
    BY <2>1, <2>3, <1>2 DEF Vscroll, Less, p, n
<1>6. ~(unended /\ end_reached) => Vscroll = first
  BY <1>4, <1>5
<1>7. page \in 0..NUL(Text)
  BY TextFacts
<1>8. (end_reached <=> first + boxh > last) /\ (begin_reached => first = 0) /\ (first = 0 => begin_reached \/ last = 0)
  BY DEF TextOK
<1> QED
  BY <1>6, <1>7, <1>8 DEF PageRemembered

-----------------------------------------------------------------------------
(* All of them, one at a time.                                             *)

DialogInv ==
  /\ lines \in Nat /\ given \in {0, 5, 6}
  /\ open = "menu" => MenuOK
  /\ open = "list" => ListOK
  /\ open = "input" => InputOK
  /\ open = "text" => TextOK

(* Nothing else touches the menu,                                          *)
LEMMA MenuOKStays == ASSUME MenuOK, NoMenu PROVE MenuOK'
BY DEF NoMenu, menuvars, MenuOK, MenuInWindow, MenuDrawn, max_choice

(* the checklist,                                                          *)
LEMMA ListOKStays == ASSUME ListOK, NoList PROVE ListOK'
BY DEF NoList, listvars, ListOK, ListInWindow, ListDrawn, max_value

(* the input box,                                                          *)
LEMMA InputOKStays == ASSUME InputOK, NoInput PROVE InputOK'
BY DEF NoInput, inputvars, InputOK, InputShown

(* or the text box.                                                        *)
LEMMA TextOKStays == ASSUME TextOK, NoText PROVE TextOK'
BY DEF NoText, textvars, TextOK, Text

(* A dialog that fits has rows.                                            *)
LEMMA RowsAreNat ==
  ASSUME NEW l \in Nat, NEW g \in {0, 5, 6}
  PROVE  MenuRows(l) \in Int /\ (Fits("text", l, g) => TextRows(l, g) \in Nat \ {0})
BY DEF MenuRows, TextRows, Fits

(* At the start no dialog is open.                                         *)
LEMMA DialogInit == Init => DialogInv
BY DialogAssumption DEF Init, DialogInv

(* Opening any dialog of mconf.                                            *)
LEMMA OpenKeeps ==
  ASSUME DialogInv, conf \/ conf_choice \/ conf_string \/ show_textbox_ext
  PROVE  DialogInv'
<1>0. lines \in Nat /\ lines' = lines /\ given \in {0, 5, 6} /\ MenuRows(lines) \in Int
  BY RowsAreNat DEF DialogInv, conf, conf_choice, conf_string, show_textbox_ext, OpenAny
<1>1. CASE conf
  <2>1. open' = "menu" /\ given' = given
    BY <1>1 DEF conf, OpenAny, NoText
  <2>2. PICK n \in 0..MaxItems : \E sel \in -1..(n - 1), s \in 0..MaxItems : OpenMenu(n, sel, s, MenuRows(lines))
    BY <1>1 DEF conf
  <2>3. PICK sel \in -1..(n - 1), s \in 0..MaxItems : OpenMenu(n, sel, s, MenuRows(lines))
    BY <2>2
  <2>4. n \in Nat /\ s \in Int
    BY DialogAssumption
  <2>5. MenuOK'
    BY <2>3, <2>4, <1>0, OpenMenuKeeps
  <2> QED
    BY <1>0, <2>1, <2>5 DEF DialogInv
<1>2. CASE conf_choice
  <2>1. open' = "list" /\ given' = given
    BY <1>2 DEF conf_choice, OpenAny, NoText
  <2>2. PICK n \in 1..MaxItems : \E c \in 0..(n - 1) : OpenList(n, c)
    BY <1>2 DEF conf_choice
  <2>3. ListOK'
    BY <2>2, DialogAssumption, OpenListKeeps
  <2> QED
    BY <1>0, <2>1, <2>3 DEF DialogInv
<1>3. CASE conf_string
  <2>1. open' = "input" /\ given' = given
    BY <1>3 DEF conf_string, OpenAny, NoText
  <2>2. PICK n \in 0..MaxInit : \E s \in [0..(n - 1) -> Chars] : OpenInput(s, n)
    BY <1>3 DEF conf_string
  <2>3. PICK s \in [0..(n - 1) -> Chars] : DrawInput(s, n)
    BY <2>2 DEF OpenInput
  <2>4. n \in Nat /\ n <= MAX_LEN
    BY DialogAssumption, InputAssumption
  <2>5. InputOK'
    BY <2>3, <2>4, DrawInputKeeps
  <2> QED
    BY <1>0, <2>1, <2>5 DEF DialogInv
<1>4. CASE show_textbox_ext
  <2>1. open' = "text" /\ given' \in {0, 5, 6} /\ Fits("text", lines, given')
    BY <1>4 DEF show_textbox_ext, OpenAny
  <2>2. TextRows(lines, given') \in Nat \ {0}
    BY <1>0, <2>1, RowsAreNat
  <2>3. PICK l \in 0..MaxLast, u \in BOOLEAN, j \in BOOLEAN : \E v \in 0..l :
           OpenText([last |-> l, unended |-> u], j, TextRows(lines, given'), v)
    BY <1>4 DEF show_textbox_ext
  <2>4. TextOK'
    BY <2>2, <2>3, DialogAssumption, OpenTextKeeps
  <2> QED
    BY <1>0, <2>1, <2>4 DEF DialogInv
<1> QED
  BY <1>1, <1>2, <1>3, <1>4

(* Any key in the dialog that is open.                                     *)
LEMMA KeyKeeps == ASSUME DialogInv, Key PROVE DialogInv'
<1>0. lines' = lines /\ open' = open
  BY DEF Key
<1>1. CASE open = "menu" /\ MenuKey /\ NoText
  BY <1>0, <1>1, MenuKeyKeeps DEF DialogInv, NoText
<1>2. CASE open = "list" /\ ListKey /\ NoText
  BY <1>0, <1>2, ListKeyKeeps DEF DialogInv, NoText
<1>3. CASE open = "input" /\ InputKey /\ NoText
  BY <1>0, <1>3, InputKeyKeeps DEF DialogInv, NoText
<1>4. CASE open = "text" /\ TextKey /\ given' = given
  BY <1>0, <1>4, TextKeyKeeps DEF DialogInv
<1> QED
  BY <1>1, <1>2, <1>3, <1>4 DEF Key

(* The terminal changes its size under the dialog that is open.            *)
LEMMA ResizeKeeps == ASSUME DialogInv, Resize PROVE DialogInv'
<1>0. lines' \in Nat /\ open' = open /\ Fits(open, lines', given) /\ given \in {0, 5, 6}
  BY DialogAssumption DEF Resize, DialogInv
<1>1. MenuRows(lines') \in Int /\ (open = "text" => TextRows(lines', given) \in Nat \ {0})
  BY <1>0, RowsAreNat
<1>2. CASE open = "menu" /\ ResizeMenu(MenuRows(lines')) /\ NoText
  BY <1>0, <1>1, <1>2, ResizeMenuKeeps DEF DialogInv, NoText
<1>3. CASE open = "list" /\ ResizeList /\ NoText
  BY <1>0, <1>3, ResizeListKeeps DEF DialogInv, NoText
<1>4. CASE open = "input" /\ ResizeInput /\ NoText
  <2>1. DrawInput(instr, len) /\ len \in Nat /\ len <= MAX_LEN
    BY <1>4 DEF ResizeInput, DialogInv, InputOK, InputShown
  <2> QED
    BY <1>0, <1>4, <2>1, DrawInputKeeps DEF DialogInv, NoText
<1>5. CASE open = "text" /\ ResizeText(TextRows(lines', given)) /\ given' = given
  BY <1>0, <1>1, <1>5, ResizeTextKeeps DEF DialogInv
<1> QED
  BY <1>2, <1>3, <1>4, <1>5 DEF Resize

(* No step breaks the dialog that is open.                                 *)
LEMMA DialogStep == DialogInv /\ [Next]_vars => DialogInv'
<1> SUFFICES ASSUME DialogInv, [Next]_vars PROVE DialogInv'
  OBVIOUS
<1>1. CASE conf \/ conf_choice \/ conf_string \/ show_textbox_ext
  BY <1>1, OpenKeeps
<1>2. CASE Key
  BY <1>2, KeyKeeps
<1>3. CASE Resize
  BY <1>3, ResizeKeeps
<1>4. CASE Leave \/ ResizeCrashes \/ TooSmall
  <2>1. lines' \in Nat /\ given' = 0 /\ open' \in {"mconf", "undefined", "again"}
    BY <1>4, DialogAssumption DEF Leave, ResizeCrashes, TooSmall, Close, DialogInv
  <2> QED
    BY <2>1 DEF DialogInv
<1>5. CASE UNCHANGED vars
  <2>1. lines' = lines /\ open' = open /\ given' = given /\ NoMenu /\ NoList /\ NoInput /\ NoText
    BY <1>5 DEF vars, NoMenu, NoList, NoInput, NoText
  <2> QED
    BY <2>1, MenuOKStays, ListOKStays, InputOKStays, TextOKStays DEF DialogInv
<1> QED
  BY <1>1, <1>2, <1>3, <1>4, <1>5 DEF Next

(* The invariant holds throughout.                                         *)
LEMMA DialogAlways == Spec => []DialogInv
BY DialogInit, DialogStep, PTL DEF Spec

(* The highlighted item is in the window, is the one Enter takes, every    *)
(* other row shows its item and the arrows tell whether there are more: in *)
(* terminals of any height and for lists of any length, after any keys and *)
(* resizes (menubox.c, checklist.c).                                       *)
THEOREM HighlightAlwaysShown == Spec => []HighlightShown
<1>1. DialogInv => HighlightShown
  BY DEF DialogInv, HighlightShown, MenuOK, ListOK
<1> QED
  BY <1>1, DialogAlways, PTL

(* The box shows the string around the cursor, and the string stays within *)
(* its buffer: for boxes of any width and buffers of any length, after any *)
(* keys and resizes (inputbox.c).                                          *)
THEOREM TextAlwaysEdited == Spec => []TextEdited
<1>1. DialogInv => TextEdited
  BY DEF DialogInv, TextEdited, InputOK
<1> QED
  BY <1>1, DialogAlways, PTL

(* The first row of the page is found again from the pointer, the flags and*)
(* the number of lines printed that dialog_textbox keeps: for texts and    *)
(* boxes of any height, paged, scrolled and resized in any order           *)
(* (textbox.c).                                                            *)
THEOREM PageAlwaysKept == Spec => []PageKept
<1>1. DialogInv => PageKept
  BY FoundAgain DEF DialogInv, PageKept
<1> QED
  BY <1>1, DialogAlways, PTL
=============================================================================
