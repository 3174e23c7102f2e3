------------------------------- MODULE Window -------------------------------
(***************************************************************************)
(* What the window promises of the screen: the abstract specification of   *)
(* the two threads of DrawSync, without their stores, flags and events.    *)
(*                                                                         *)
(* Row by row, a picture of the screen is taken and then shown, one at a   *)
(* time, so that no older picture is painted over a newer one; and a row   *)
(* is late from the moment it changes until its present picture is shown.  *)
(***************************************************************************)
CONSTANTS Rows, Pictures

VARIABLES
  screen,  \* what each row should look like
  window,  \* what each row of the window looks like
  coming,  \* the pictures taken and not shown yet: at most one of a row
  late     \* rows that somebody will still repaint

vars == <<screen, window, coming, late>>

Init ==
  /\ screen \in [Rows -> Pictures] /\ window = screen
  /\ coming = [y \in Rows |-> {}]
  /\ late \in SUBSET Rows

(* The screen changes, and what changed becomes late; more rows may.       *)
Change ==
  /\ screen' \in [Rows -> Pictures]
  /\ late' \in SUBSET Rows /\ late \subseteq late'
  /\ \A y \in Rows : screen'[y] # screen[y] => y \in late'
  /\ UNCHANGED <<window, coming>>

Take(y) ==
  /\ y \in late /\ coming[y] = {}
  /\ coming' = [coming EXCEPT ![y] = {screen[y]}]
  /\ UNCHANGED <<screen, window, late>>

(* Only a row that is shown as it is now may cease to be late.             *)
Show(y) == \E p \in coming[y] :
  /\ window' = [window EXCEPT ![y] = p]
  /\ coming' = [coming EXCEPT ![y] = {}]
  /\ late' = late \/ (late' = late \ {y} /\ p = screen[y])
  /\ UNCHANGED screen

Next == Change \/ \E y \in Rows : Take(y) \/ Show(y)

Spec == Init /\ [][Next]_vars
=============================================================================
