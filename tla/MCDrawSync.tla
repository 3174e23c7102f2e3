----------------------------- MODULE MCDrawSync -----------------------------
(* Model-checking instances of DrawSync.                                    *)
EXTENDS DrawSync

CONSTANTS none, a

(* A program that scrolls and switches screens, one that writes text, and   *)
(* one that reverses the screen.                                            *)
Programs_ == {{"scroll", "switch"}, {"text"}, {"reverse"}}
=============================================================================
