------------------------------ MODULE Document ------------------------------
(***************************************************************************)
(* What an editor of a configuration file promises its user, whatever a    *)
(* configuration is: leaving it without being asked whether to save loses  *)
(* nothing.  menuconfig is shown to implement it (EditsADocument).         *)
(***************************************************************************)
CONSTANT Closed    \* what is shown and known before the file has been opened

VARIABLES
  shown,   \* the configuration on the screen
  file,    \* what opening the file anew would show
  asks     \* leaving the editor would ask whether to save

dvars == <<shown, file, asks>>

DocInit == shown = Closed /\ file = Closed /\ asks = TRUE

(* What the file does not say, or says wrongly, is to be saved.            *)
Open == shown = Closed /\ (asks' = TRUE \/ shown' = file')
Edit == shown # Closed /\ file' = file /\ asks' = TRUE
Save == shown # Closed /\ file' = shown' /\ asks' = FALSE

Close == shown # Closed /\ (asks = TRUE \/ shown = file) /\ shown' = Closed /\ file' = Closed /\ asks' = TRUE

DocNext == Open \/ Edit \/ Save \/ Close
DocSpec == DocInit /\ [][DocNext]_dvars

=============================================================================
