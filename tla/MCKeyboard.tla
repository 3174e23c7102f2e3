----------------------------- MODULE MCKeyboard -----------------------------
(* A model-checking instance of Keyboard, a keyboard of two rows that has   *)
(* one key of each kind; and that the real one (module KeyboardLayout) is   *)
(* what is assumed of a keyboard.                                           *)
EXTENDS Keyboard

L == INSTANCE KeyboardLayout

SmallRows == 2
SmallRowLength == [j \in 0..1 |-> <<4, 2>>[j + 1]]
SmallPositions == ({0} \X (0..3)) \cup ({1} \X (0..1))
OnSmall(f) == [p \in SmallPositions |-> f[4 * p[1] + p[2] + 1]]
SmallWidth == OnSmall(<<1, 1, 3, 4, 5, 6>>)
Modifiers == <<"LCTRL", "LSHIFT", "RSHIFT">>
SmallKeys == [s \in {0, 1} |->
  OnSmall(<<"a", IF s = 0 THEN "1" ELSE "!", "PRINTSCREEN">> \o Modifiers)]
SmallLetters == {"a"}
SmallUpper == [k \in {"a"} |-> "A"]
SmallCtrl == {"a"}
SmallLShift == <<1, 0>>
SmallRShift == <<1, 1>>
ModifierPositions == {p \in SmallPositions : SmallKeys[0][p] \in ModKeys}

RealRows == 6
Real == INSTANCE Keyboard WITH
  NumRows <- RealRows, RowLength <- L!row_length, Width <- L!width, Key <- L!keys,
  LShiftAt <- <<4, 0>>, RShiftAt <- <<4, 11>>,
  Letters <- L!LetterKeys, Upper <- L!Capitalised, CtrlChars <- L!WithCtrl

ASSUME RealLayoutAssumption == Real!LayoutAssumption /\ Real!ModifierAssumption

(* The label of a key is what it sends, a letter's in capitals when the     *)
(* labels are shifted; but the function keys from F7 on send the next one.  *)
Shown(s, p) == IF s = 1 /\ L!keys[s][p] \in L!LetterKeys THEN L!Capitalised[L!keys[s][p]] ELSE L!keys[s][p]
ASSUME RealLabelsAssumption ==
  \A s \in {0, 1}, p \in L!Positions :
    L!syms[s][p] = Shown(s, p) <=> ~(p[1] = 0 /\ p[2] >= 7)
=============================================================================
