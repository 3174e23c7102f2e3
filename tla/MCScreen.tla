------------------------------ MODULE MCScreen ------------------------------
(* Model-checking instances of Screen: what the application sends is        *)
(* chosen per run, so that each run explores all orders of its functions.   *)
EXTENDS Screen

(* Everything that scrolls, and the mouse selecting rows meanwhile.         *)
ScrollInput == {"Text", "LF", "RI", "SU", "SD", "IL", "DL", "DECSTBM", "RIS",
                "Draw", "Mouse"}

(* Everything that edits a line or exchanges the screens; RIS apart.        *)
EditInput == {"Text", "LF", "NEL", "IND", "ICH", "DCH", "ECH", "EL", "ED",
              "ALTSCREEN", "DECSC", "DECRC", "Resize", "REVERSE", "INSERT",
              "DECALN", "Draw"}
=============================================================================
