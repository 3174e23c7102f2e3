----------------------------- MODULE MCLxdialog ------------------------------
(* A model-checking instance of Lxdialog: terminals too small for some      *)
(* dialogs, menus with one, two, four and eight rows, a box of three cells  *)
(* and texts of up to three pages.                                          *)
EXTENDS Lxdialog

Sizes_ == {8, 14, 15, 16, 18, 22}
Chars_ == {1, 2}
=============================================================================
