--------------------------- MODULE KeyboardProofs ---------------------------
(***************************************************************************)
(* Proofs about the on-screen keyboard, for every layout that satisfies    *)
(* LayoutAssumption and ModifierAssumption.                                *)
(***************************************************************************)
EXTENDS Keyboard, TLAPS

(* A row and a column in it are a position.                                *)
LEMMA PositionRow ==
  ASSUME NEW j \in KeyRows, NEW i \in 0..(RowLength[j] - 1)
  PROVE  <<j, i>> \in Positions
BY DEF Positions

(* A position is a row and a column in it.                                 *)
LEMMA PositionCoordinates ==
  ASSUME NEW p \in Positions
  PROVE  /\ p = <<p[1], p[2]>>
         /\ p[1] \in KeyRows /\ p[2] \in 0..(RowLength[p[1]] - 1)
         /\ RowLength[p[1]] \in Nat \ {0} /\ p[2] \in Nat
BY LayoutAssumption DEF Positions, KeyRows

(* The selection stays on the keyboard: rows are indexed in range however  *)
(* long they are, which keys[shifted][selected_j][selected_i] relies on.   *)
THEOREM SelectionStays == Spec => []SelectionOnKeyboard
<1>1. Init => SelectionOnKeyboard
  <2> SUFFICES ASSUME Init PROVE at \in Positions
    BY DEF SelectionOnKeyboard
  <2>1. 0 \in KeyRows /\ 0 \in 0..(RowLength[0] - 1)
    BY LayoutAssumption DEF KeyRows
  <2> QED
    BY <2>1, PositionRow DEF Init
<1>2. SelectionOnKeyboard /\ [Next]_vars => SelectionOnKeyboard'
  <2> SUFFICES ASSUME at \in Positions, [Next]_vars PROVE at' \in Positions
    BY DEF SelectionOnKeyboard
  <2> DEFINE j == at[1]
             i == at[2]
  <2>0. /\ at = <<j, i>> /\ j \in KeyRows /\ j \in Int /\ i \in 0..(RowLength[j] - 1)
        /\ RowLength[j] \in Nat \ {0}
    BY PositionCoordinates DEF KeyRows
  <2>1. CASE Up
    <3>1. CASE j > 0
      <4>1. PICK k \in 0..(RowLength[j - 1] - 1) : at' = <<j - 1, k>>
        BY <2>1, <3>1 DEF Up, MoveTo
      <4>2. j - 1 \in KeyRows
        BY <2>0, <3>1, LayoutAssumption DEF KeyRows
      <4> QED
        BY <4>1, <4>2, PositionRow
    <3>2. CASE ~(j > 0)
      <4> DEFINE last == RowLength[NumRows - 1] - 1
                 k == IF i > last THEN last ELSE i
      <4>1. at' = <<NumRows - 1, k>>
        BY <2>1, <3>2 DEF Up, MoveTo
      <4>2. NumRows - 1 \in KeyRows /\ k \in 0..(RowLength[NumRows - 1] - 1)
        BY <2>0, LayoutAssumption DEF KeyRows
      <4> QED
        BY <4>1, <4>2, PositionRow
    <3> QED
      BY <3>1, <3>2
  <2>2. CASE Down
    <3>1. CASE j < NumRows - 1
      <4>1. PICK k \in 0..(RowLength[j + 1] - 1) : at' = <<j + 1, k>>
        BY <2>2, <3>1 DEF Down, MoveTo
      <4>2. j + 1 \in KeyRows
        BY <2>0, <3>1, LayoutAssumption DEF KeyRows
      <4> QED
        BY <4>1, <4>2, PositionRow
    <3>2. CASE ~(j < NumRows - 1)
      <4>1. at' = <<0, i>>
        BY <2>2, <3>2 DEF Down, MoveTo
      <4>2. j = NumRows - 1
        BY <2>0, <3>2, LayoutAssumption DEF KeyRows
      <4>3. 0 \in KeyRows /\ i \in 0..(RowLength[0] - 1)
        BY <2>0, <4>2, LayoutAssumption DEF KeyRows
      <4> QED
        BY <4>1, <4>3, PositionRow
    <3> QED
      BY <3>1, <3>2
  <2>3. CASE Left
    <3> DEFINE k == IF i > 0 THEN i - 1 ELSE RowLength[j] - 1
    <3>1. at' = <<j, k>>
      BY <2>3 DEF Left, MoveTo
    <3>2. k \in 0..(RowLength[j] - 1)
      BY <2>0
    <3> QED
      BY <2>0, <3>1, <3>2, PositionRow
  <2>4. CASE Right
    <3> DEFINE k == IF i < RowLength[j] - 1 THEN i + 1 ELSE 0
    <3>1. at' = <<j, k>>
      BY <2>4 DEF Right, MoveTo
    <3>2. k \in 0..(RowLength[j] - 1)
      BY <2>0
    <3> QED
      BY <2>0, <3>1, <3>2, PositionRow
  <2>5. ASSUME NEW b \in Buttons, TypeShortcut(b) \/ PressIgnored(b) \/ Release(b)
        PROVE  at' \in Positions
    BY <2>5 DEF TypeShortcut, PressIgnored, Release
  <2>6. CASE ShiftDown \/ Locate \/ Toggle \/ Enter \/ Quit \/ Activate \/ Handle
    BY <2>6 DEF ShiftDown, Locate, Toggle, Enter, Quit, Activate, Handle
  <2>7. CASE UNCHANGED vars
    BY <2>7 DEF vars
  <2> QED
    BY <2>1, <2>2, <2>3, <2>4, <2>5, <2>6, <2>7 DEF Next
<1> QED
  BY <1>1, <1>2, PTL DEF Spec

-----------------------------------------------------------------------------
(* Modifiers.                                                              *)

(* A modifier has one name, shifted or not.                                *)
LEMMA UnshiftedModifier ==
  ASSUME NEW s \in {0, 1}, NEW p \in Positions,
         Key[s][p] \in ModKeys \/ Key[0][p] \in ModKeys
  PROVE  Key[s][p] = Key[0][p]
<1>1. CASE s = 0
  BY <1>1
<1>2. CASE s = 1
  <2>1. 1 - 1 = 0 /\ 1 - 0 = 1
    OBVIOUS
  <2> QED
    BY <1>2, <2>1, ModifierAssumption
<1> QED
  BY <1>1, <1>2

(* The shift keys are where handle_keyboard_event looks for them.          *)
LEMMA ShiftKeyPosition ==
  ASSUME NEW s \in {0, 1}, NEW p \in Positions
  PROVE  Key[s][p] \in ShiftKeys <=> p \in {LShiftAt, RShiftAt}
BY ModifierAssumption DEF ShiftKeys

(* L1 stands for the key at LShiftAt.                                      *)
LEMMA LShiftKey == LShiftAt \in Positions /\ Key[0][LShiftAt] = "LSHIFT"
BY ModifierAssumption

(* What the three parts of the keyboard's state owe each other.            *)
ModifierInv ==
  /\ shifted \in {0, 1}
  /\ ModsMirrorToggles
  /\ ShiftedHasShift

(* R1 puts the selected key into, or out of, all three at once.            *)
LEMMA ToggleKeepsModifiers ==
  ASSUME at \in Positions, ModifierInv, Toggle
  PROVE  ModifierInv'
<1> DEFINE k == Key[shifted][at]
<1>0. shifted \in {0, 1}
  BY DEF ModifierInv
<1>1. shifted' \in {0, 1}
  BY <1>0 DEF Toggle
<1>2. ModsMirrorToggles'
  <2> SUFFICES ASSUME NEW p \in Positions, Key[0][p] \in ModKeys
               PROVE  p \in toggled' <=> Key[0][p] \in mods'
    BY DEF ModsMirrorToggles
  <2>1. p \in toggled <=> Key[0][p] \in mods
    BY DEF ModifierInv, ModsMirrorToggles
  <2>2. p = at <=> Key[0][p] = k
    <3>1. CASE p = at
      BY <1>0, <3>1, UnshiftedModifier
    <3>2. CASE p # at /\ k \in ModKeys
      <4>1. k = Key[0][at]
        BY <1>0, <3>2, UnshiftedModifier
      <4> QED
        BY <3>2, <4>1, ModifierAssumption
    <3>3. CASE p # at /\ k \notin ModKeys
      BY <3>3
    <3> QED
      BY <3>1, <3>2, <3>3
  <2>3. CASE at \notin toggled
    <3>1. toggled' = toggled \cup {at} /\ mods' = mods \cup (ModKeys \cap {k})
      BY <2>3 DEF Toggle
    <3> QED
      BY <2>1, <2>2, <3>1
  <2>4. CASE at \in toggled
    <3>1. toggled' = toggled \ {at} /\ mods' = mods \ {k}
      BY <2>4 DEF Toggle
    <3> QED
      BY <2>1, <2>2, <3>1
  <2> QED
    BY <2>3, <2>4
<1>3. ShiftedHasShift'
  <2> SUFFICES ASSUME shifted' = 1
               PROVE  mods' \cap ShiftKeys # {}
    BY DEF ShiftedHasShift
  <2>1. k \in ShiftKeys <=> at \in {LShiftAt, RShiftAt}
    BY <1>0, ShiftKeyPosition
  <2>2. CASE at \in {LShiftAt, RShiftAt}
    <3>1. at \notin toggled /\ mods' = mods \cup (ModKeys \cap {k})
      BY <2>2 DEF Toggle
    <3> QED
      BY <2>1, <2>2, <3>1 DEF ModKeys
  <2>3. CASE at \notin {LShiftAt, RShiftAt}
    <3>1. shifted = 1 /\ (mods \subseteq mods' \/ mods' = mods \ {k})
      BY <2>3 DEF Toggle
    <3>2. mods \cap ShiftKeys # {}
      BY <3>1 DEF ModifierInv, ShiftedHasShift
    <3> QED
      BY <2>1, <2>3, <3>1, <3>2
  <2> QED
    BY <2>2, <2>3
<1> QED
  BY <1>1, <1>2, <1>3 DEF ModifierInv

(* L1 puts LSHIFT into, or out of, all three at once.                      *)
LEMMA ShiftDownKeepsModifiers ==
  ASSUME ModifierInv, ShiftDown
  PROVE  ModifierInv'
<1>1. /\ shifted' = 1 /\ toggled' = toggled \cup {LShiftAt}
      /\ mods' = mods \cup {"LSHIFT"}
  BY DEF ShiftDown
<1>2. ModsMirrorToggles'
  <2> SUFFICES ASSUME NEW p \in Positions, Key[0][p] \in ModKeys
               PROVE  p \in toggled' <=> Key[0][p] \in mods'
    BY DEF ModsMirrorToggles
  <2>1. (p \in toggled <=> Key[0][p] \in mods) /\ (Key[0][p] = "LSHIFT" <=> p = LShiftAt)
    BY ModifierAssumption DEF ModifierInv, ModsMirrorToggles
  <2> QED
    BY <1>1, <2>1
<1>3. ShiftedHasShift'
  BY <1>1 DEF ShiftedHasShift, ShiftKeys
<1> QED
  BY <1>1, <1>2, <1>3 DEF ModifierInv

(* L1 let go: LSHIFT leaves all three, or none while hidden.               *)
LEMMA ReleaseKeepsModifiers ==
  ASSUME ModifierInv, NEW b, Release(b)
  PROVE  ModifierInv'
<1>1. CASE active /\ ~help /\ b = "L1"
  <2>1. /\ shifted' = 0 /\ toggled' = toggled \ {LShiftAt}
        /\ mods' = mods \ {"LSHIFT"}
    BY <1>1 DEF Release
  <2>2. ModsMirrorToggles'
    <3> SUFFICES ASSUME NEW p \in Positions, Key[0][p] \in ModKeys
                 PROVE  p \in toggled' <=> Key[0][p] \in mods'
      BY DEF ModsMirrorToggles
    <3>1. (p \in toggled <=> Key[0][p] \in mods) /\ (Key[0][p] = "LSHIFT" <=> p = LShiftAt)
      BY ModifierAssumption DEF ModifierInv, ModsMirrorToggles
    <3> QED
      BY <2>1, <3>1
  <2> QED
    BY <2>1, <2>2 DEF ModifierInv, ShiftedHasShift
<1>2. CASE ~(active /\ ~help /\ b = "L1")
  <2>1. UNCHANGED <<shifted, toggled, mods>>
    BY <1>2 DEF Release
  <2> QED
    BY <2>1 DEF ModifierInv, ModsMirrorToggles, ShiftedHasShift
<1> QED
  BY <1>1, <1>2

(* What is drawn as held and what mod_state holds agree on every modifier, *)
(* and capital labels are shown only under a shift, for every layout whose *)
(* modifiers keep their place.                                             *)
THEOREM ModifiersAgree == Spec => [](ModsMirrorToggles /\ ShiftedHasShift)
<1>1. Init => ModifierInv
  BY DEF Init, ModifierInv, ModsMirrorToggles, ShiftedHasShift
<1>2. SelectionOnKeyboard /\ ModifierInv /\ [Next]_vars => ModifierInv'
  <2> SUFFICES ASSUME at \in Positions, ModifierInv, [Next]_vars
               PROVE  ModifierInv'
    BY DEF SelectionOnKeyboard
  <2>1. CASE Toggle
    BY <2>1, ToggleKeepsModifiers
  <2>2. CASE ShiftDown
    BY <2>2, ShiftDownKeepsModifiers
  <2>3. ASSUME NEW b \in Buttons, Release(b)
        PROVE  ModifierInv'
    BY <2>3, ReleaseKeepsModifiers
  <2>4. ASSUME UNCHANGED <<shifted, toggled, mods>>
        PROVE  ModifierInv'
    BY <2>4 DEF ModifierInv, ModsMirrorToggles, ShiftedHasShift
  <2>5. CASE Up \/ Down \/ Left \/ Right
    <3>1. UNCHANGED <<shifted, toggled, mods>>
      BY <2>5 DEF Up, Down, Left, Right, MoveTo
    <3> QED
      BY <2>4, <3>1
  <2>6. CASE Locate \/ Enter \/ Quit \/ Activate \/ Handle \/ UNCHANGED vars
    <3>1. UNCHANGED <<shifted, toggled, mods>>
      BY <2>6 DEF Locate, Enter, Quit, Activate, Handle, vars
    <3> QED
      BY <2>4, <3>1
  <2>7. ASSUME NEW b \in Buttons, TypeShortcut(b) \/ PressIgnored(b)
        PROVE  ModifierInv'
    <3>1. UNCHANGED <<shifted, toggled, mods>>
      BY <2>7 DEF TypeShortcut, PressIgnored
    <3> QED
      BY <2>4, <3>1
  <2> QED
    BY <2>1, <2>2, <2>3, <2>5, <2>6, <2>7 DEF Next
<1>3. ModifierInv => ModsMirrorToggles /\ ShiftedHasShift
  BY DEF ModifierInv
<1> QED
  BY <1>1, <1>2, <1>3, SelectionStays, PTL DEF Spec

-----------------------------------------------------------------------------
(* Type correctness.                                                       *)

(* No step breaks the types.                                               *)
LEMMA KeyboardTypeKept ==
  ASSUME at \in Positions, at' \in Positions, KeyboardTypeOK, [Next]_vars
  PROVE  KeyboardTypeOK'
<1> USE DEF KeyboardTypeOK
<1>1. CASE Up \/ Down
  BY <1>1 DEF Up, Down, MoveTo, OnKeyboard, Pressed
<1>2. CASE Left \/ Right
  <2>1. offset' = Middle(at')
    BY <1>2 DEF Left, Right, MoveTo
  <2>2. UNCHANGED <<toggled, shifted, location, mods, running, active, help>>
        /\ held' \subseteq Buttons
    BY <1>2 DEF Left, Right, MoveTo, OnKeyboard, Pressed
  <2> QED
    BY <2>1, <2>2
<1>3. CASE ShiftDown
  BY <1>3, LShiftKey DEF ShiftDown, OnKeyboard, Pressed, ModKeys, ShiftKeys
<1>4. CASE Locate
  BY <1>4 DEF Locate, OnKeyboard, Pressed
<1>5. CASE Toggle
  <2>1. toggled' \subseteq Positions /\ mods' \subseteq ModKeys /\ shifted' \in {0, 1}
    BY <1>5 DEF Toggle
  <2>2. UNCHANGED <<offset, location, running, active, help>> /\ held' \subseteq Buttons
    BY <1>5 DEF Toggle, OnKeyboard, Pressed
  <2> QED
    BY <2>1, <2>2
<1>6. CASE Enter
  BY <1>6 DEF Enter, OnKeyboard, Pressed
<1>7. CASE Quit
  <2>1. running' \in BOOLEAN /\ held' \subseteq Buttons
    BY <1>7 DEF Quit, Pressed
  <2>2. UNCHANGED <<offset, toggled, shifted, location, mods, active, help>>
    BY <1>7 DEF Quit
  <2> QED
    BY <2>1, <2>2
<1>8. CASE Activate
  <2>1. active' \in BOOLEAN /\ held' \subseteq Buttons
    BY <1>8 DEF Activate, Pressed
  <2>2. UNCHANGED <<offset, toggled, shifted, location, mods, help, running>>
    BY <1>8 DEF Activate
  <2> QED
    BY <2>1, <2>2
<1>9. CASE Handle
  <2>1. help' \in BOOLEAN
    BY <1>9, Zenon DEF Handle
  <2>2. UNCHANGED <<offset, toggled, shifted, location, mods, active, held, running>>
    BY <1>9 DEF Handle
  <2> QED
    BY <2>1, <2>2
<1>10. ASSUME NEW b \in Buttons, TypeShortcut(b)
       PROVE  KeyboardTypeOK'
  BY <1>10 DEF TypeShortcut, OnKeyboard, Pressed
<1>11. ASSUME NEW b \in Buttons, PressIgnored(b)
       PROVE  KeyboardTypeOK'
  BY <1>11 DEF PressIgnored, Pressed
<1>12. ASSUME NEW b \in Buttons, Release(b)
       PROVE  KeyboardTypeOK'
  <2>1. help' \in BOOLEAN
    BY <1>12, Zenon DEF Release
  <2>2. /\ shifted' \in {0, 1} /\ toggled' \subseteq toggled /\ mods' \subseteq mods
        /\ held' \subseteq held
    BY <1>12 DEF Release
  <2>3. UNCHANGED <<offset, location, active, running>>
    BY <1>12 DEF Release
  <2> QED
    BY <2>1, <2>2, <2>3
<1>13. CASE UNCHANGED vars
  BY <1>13 DEF vars
<1> QED
  BY <1>1, <1>2, <1>3, <1>4, <1>5, <1>6, <1>7, <1>8, <1>9, <1>10, <1>11, <1>12, <1>13
  DEF Next

(* Every variable keeps its type: only keys are toggled, and the column    *)
(* that up and down aim for is where the middle of some key is.            *)
THEOREM KeyboardAlwaysTyped == Spec => []KeyboardTypeOK
<1>1. Init => KeyboardTypeOK
  BY Zenon DEF Init, KeyboardTypeOK
<1>2. SelectionOnKeyboard /\ SelectionOnKeyboard' /\ KeyboardTypeOK /\ [Next]_vars
      => KeyboardTypeOK'
  BY KeyboardTypeKept DEF SelectionOnKeyboard
<1> QED
  BY <1>1, <1>2, SelectionStays, PTL DEF Spec
=============================================================================
