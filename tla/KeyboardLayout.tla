--------------------------- MODULE KeyboardLayout ---------------------------
(***************************************************************************)
(* The tables of src/keyboard.c: the keys of each row, unshifted (0) and   *)
(* shifted (1), and their labels.  A label is written as the name of the   *)
(* key it promises; width is the length of its text.                       *)
(***************************************************************************)
EXTENDS Integers, Sequences

row_length == [j \in 0..5 |-> <<13, 17, 17, 15, 14, 9>>[j + 1]]
Positions == {p \in (0..5) \X (0..16) : p[2] < row_length[p[1]]}

FRowKeys == <<"Esc", "F1", "F2", "F3", "F4", "F5", "F6", "F8", "F9", "F10",
              "F11", "F12", "none">>      \* 12 initialisers: the 13th is 0
FRowLabels == <<"Esc", "F1", "F2", "F3", "F4", "F5", "F6", "F7", "F8", "F9",
                "F10", "F11", "F12">>
Digits(s) == IF s = 0
  THEN <<"backquote", "1", "2", "3", "4", "5", "6", "7", "8", "9", "0", "-", "=">>
  ELSE <<"tilde", "!", "at", "#", "$", "%", "caret", "&", "asterisk", "lparen", "rparen", "_", "+">>
Small == <<"q", "w", "e", "r", "t", "y", "u", "i", "o", "p",
           "a", "s", "d", "f", "g", "h", "j", "k", "l",
           "z", "x", "c", "v", "b", "n", "m">>
Capital == <<"Q", "W", "E", "R", "T", "Y", "U", "I", "O", "P",
             "A", "S", "D", "F", "G", "H", "J", "K", "L",
             "Z", "X", "C", "V", "B", "N", "M">>
LetterKeys == {Small[n] : n \in 1..26}
Capitalised == [k \in LetterKeys |-> Capital[CHOOSE n \in 1..26 : Small[n] = k]]

(* The rows below the function keys, given the letters they show.          *)
Lower(s, letter) == <<
  Digits(s) \o <<"Bsp", "Ins", "Del", "Up">>,
  <<"Tab">> \o SubSeq(letter, 1, 10)
    \o (IF s = 0 THEN <<"lbracket", "rbracket", "backslash">> ELSE <<"lbrace", "rbrace", "bar">>)
    \o <<"Home", "End", "Down">>,
  <<"CAPSLOCK">> \o SubSeq(letter, 11, 19)
    \o (IF s = 0 THEN <<";", "quote">> ELSE <<":", "dquote">>)
    \o <<"Enter", "PageUp", "Left">>,
  <<"LSHIFT">> \o SubSeq(letter, 20, 26)
    \o (IF s = 0 THEN <<",", ".", "/">> ELSE <<"<", ">", "?">>)
    \o <<"RSHIFT", "PageDown", "Right">>,
  <<"LCTRL", "LSUPER", "LALT", "Space", "RALT", "RSUPER", "Menu", "RCTRL",
    "PRINTSCREEN">> >>

AtPositions(rows) == [p \in Positions |-> rows[p[1] + 1][p[2] + 1]]
keys == [s \in {0, 1} |-> AtPositions(<<FRowKeys>> \o Lower(s, Small))]
syms == [s \in {0, 1} |->
  AtPositions(<<FRowLabels>> \o Lower(s, IF s = 0 THEN Small ELSE Capital))]

(* strlen(syms[0][j][i]); all but these labels are a single character.     *)
Long == [Esc |-> 3, F1 |-> 2, F2 |-> 2, F3 |-> 2, F4 |-> 2, F5 |-> 2, F6 |-> 2,
         F7 |-> 2, F8 |-> 2, F9 |-> 2, F10 |-> 3, F11 |-> 3, F12 |-> 3, Bsp |-> 3,
         Ins |-> 3, Del |-> 3, Up |-> 3, Tab |-> 3, Home |-> 4, End |-> 3,
         Down |-> 3, CAPSLOCK |-> 4, Enter |-> 5, PageUp |-> 5, Left |-> 3,
         LSHIFT |-> 5, RSHIFT |-> 6, PageDown |-> 5, Right |-> 3, LCTRL |-> 4,
         LALT |-> 3, Space |-> 13, RALT |-> 3, Menu |-> 2, RCTRL |-> 4,
         PRINTSCREEN |-> 3]
width == [p \in Positions |->
  IF syms[0][p] \in DOMAIN Long THEN Long[syms[0][p]]
  ELSE IF syms[0][p] = "backquote" THEN 2 ELSE 1]

(* Keys of the ASCII ranges 64..95 and 97..127.                            *)
WithCtrl == LetterKeys \cup {"at", "lbracket", "rbracket", "backslash", "caret", "_", "lbrace", "rbrace", "bar", "tilde", "Del"}
=============================================================================
