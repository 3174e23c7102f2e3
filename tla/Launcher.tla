------------------------------ MODULE Launcher -------------------------------
(***************************************************************************)
(* simple-launcher: the main loop that drains SDL's events, moves the      *)
(* selection, runs the selected command and scrolls by itself while UP or  *)
(* DOWN is held.  Running a command shuts SDL down and starts it again:    *)
(* the events and the button states SDL had are gone, the variables of     *)
(* main are not.                                                           *)
(*                                                                         *)
(* Of SDL the model has what the loop uses of it: a queue of events, the   *)
(* state of the buttons as of the last event queued, and, when a joystick  *)
(* is opened, a press queued for every button that is down then.           *)
(***************************************************************************)
EXTENDS Integers, Sequences, FiniteSets

CONSTANTS
  Sizes,     \* numbers of commands loadCommands may find
  PageSize,  \* ITEMS_PER_PAGE
  Buttons,   \* buttons of the joystick
  Keys,      \* keys of a keyboard, or of gptokeyb2
  QueueMax,  \* bound on the events waiting
  Fingers    \* bound on the buttons down at once

ASSUME LauncherAssumption ==
  /\ Sizes \subseteq Nat /\ PageSize \in Nat \ {0}
  /\ IsFiniteSet(Buttons) /\ QueueMax \in Nat

VARIABLES
  numCommands,
  selectedItem,
  held,      \* which of buttonUpHeld and buttonDownHeld are set
  due,       \* now - lastScrollTime > SCROLL_DELAY
  suspend,
  running,
  at,        \* "loop", "script", "undefined" or "exited"
  down,      \* buttons that are down
  queue,     \* SDL's events
  reopened   \* history: the joystick was opened anew and not read since

menu == <<numCommands, selectedItem>>
vars == <<numCommands, selectedItem, held, due, suspend, running, at, down, queue,
          reopened>>

Scrolling == {"UP", "DOWN"}
Event(type, what) == [type |-> type, what |-> what]
Events ==
  {Event(t, b) : t \in {"down", "up"}, b \in Buttons}
  \cup {Event("key", k) : k \in Keys} \cup {Event("quit", "quit")}

Init ==
  /\ numCommands \in Sizes /\ selectedItem = 0
  /\ held = {} /\ due = FALSE /\ suspend = FALSE /\ running = TRUE
  /\ at = "loop" /\ down = {} /\ queue = <<>> /\ reopened = FALSE

-----------------------------------------------------------------------------
(* Moves of the selection.                                                 *)

Previous == IF selectedItem > 0 THEN selectedItem - 1 ELSE numCommands - 1

FollowingStops == IF selectedItem < numCommands - 1 THEN selectedItem + 1 ELSE selectedItem
Following == IF selectedItem < numCommands - 1 THEN selectedItem + 1 ELSE 0

PageUp == IF selectedItem > PageSize THEN selectedItem - PageSize ELSE 0

PageDown ==
  IF selectedItem + PageSize < numCommands - 1 THEN selectedItem + PageSize
  ELSE numCommands - 1

-----------------------------------------------------------------------------
(* One turn of the SDL_PollEvent loop.                                     *)

Take(e) == at = "loop" /\ queue # <<>> /\ e = Head(queue)
Taken == queue' = Tail(queue) /\ UNCHANGED <<numCommands, due, down>>

Navigate(e, item) ==
  /\ Take(e) /\ Taken
  /\ selectedItem' = item
  /\ UNCHANGED <<held, suspend, running, at, reopened>>

Move ==
  \/ Navigate(Event("key", "UP"), Previous)
  \/ Navigate(Event("key", "DOWN"), Following)
  \/ \E e \in {Event("key", "LEFT"), Event("down", "LEFT")} : Navigate(e, PageUp)
  \/ \E e \in {Event("key", "RIGHT"), Event("down", "RIGHT")} : Navigate(e, PageDown)
  \/ Navigate(Event("down", "B"), 0)

(* executeShellScript(commands[selectedItem].command): without a command   *)
(* that reads through NULL, or what realloc left there.                    *)
Run ==
  /\ \E e \in {Event("key", "RETURN"), Event("down", "A")} : Take(e)
  /\ at' = IF numCommands = 0 THEN "undefined" ELSE "script"
  /\ queue' = <<>>
  /\ UNCHANGED <<menu, held, due, suspend, running, down, reopened>>

(* UP or DOWN pressed, or any button released: both are read again.        *)
Rereads(e) ==
  \/ \E b \in Buttons \cap Scrolling : e = Event("down", b)
  \/ \E b \in Buttons : e = Event("up", b)

ReadHeldOnPress ==
  /\ \E e \in Events : Take(e) /\ Rereads(e)
  /\ Taken
  /\ held' = IF Head(queue).type = "down" THEN down \cap Scrolling ELSE held
  /\ reopened' = FALSE
  /\ UNCHANGED <<selectedItem, suspend, running, at>>

ReadHeld ==
  /\ \E e \in Events : Take(e) /\ Rereads(e)
  /\ Taken
  /\ held' = down \cap Scrolling /\ reopened' = FALSE
  /\ UNCHANGED <<selectedItem, suspend, running, at>>

Power ==
  /\ Take(Event("key", "POWER")) /\ Taken
  /\ suspend' = ~suspend
  /\ UNCHANGED <<selectedItem, held, running, at, reopened>>

Quit ==
  /\ Take(Event("quit", "quit")) /\ Taken
  /\ running' = FALSE
  /\ UNCHANGED <<selectedItem, held, suspend, at, reopened>>

(* The rest of the main loop, once there is no event left.  A scroll up    *)
(* sets lastScrollTime, so that a scroll down is not due any more.         *)
Frame ==
  /\ at = "loop" /\ queue = <<>>
  /\ selectedItem' = IF ~due THEN selectedItem
                     ELSE IF "UP" \in held THEN Previous
                     ELSE IF "DOWN" \in held THEN Following ELSE selectedItem
  /\ due' = (due /\ held = {})
  /\ at' = IF running THEN "loop" ELSE "exited"
  /\ UNCHANGED <<numCommands, held, suspend, running, down, queue, reopened>>

(* SDL starts again.  Its clock restarts at 0 and now - lastScrollTime is  *)
(* unsigned, so that a scroll may be due or not.                           *)
Orders(S) == {f \in [1..Cardinality(S) -> S] : \A b \in S : \E k \in DOMAIN f : f[k] = b}
ScriptEnds ==
  /\ at = "script" /\ at' = "loop"
  /\ \E f \in Orders(down) : queue' = [k \in 1..Cardinality(down) |-> Event("down", f[k])]
  /\ due' \in BOOLEAN /\ reopened' = TRUE
  /\ UNCHANGED <<menu, held, suspend, running, down>>

-----------------------------------------------------------------------------
(* The surroundings: only an open joystick queues events.                  *)

Reported(e) ==
  IF at = "loop" THEN Len(queue) < QueueMax /\ queue' = Append(queue, e)
  ELSE at = "script" /\ UNCHANGED queue

Press(b) ==
  /\ b \notin down /\ Cardinality(down) < Fingers
  /\ down' = down \cup {b} /\ Reported(Event("down", b))
  /\ UNCHANGED <<menu, held, due, suspend, running, at, reopened>>

Lift(b) ==
  /\ b \in down
  /\ down' = down \ {b} /\ Reported(Event("up", b))
  /\ UNCHANGED <<menu, held, due, suspend, running, at, reopened>>

Type(k) ==
  /\ at = "loop" /\ Reported(Event("key", k))
  /\ UNCHANGED <<menu, held, due, suspend, running, at, down, reopened>>

(* killall: SDL makes an event of the signal as long as it is up.          *)
Terminate ==
  /\ \/ at = "loop" /\ Reported(Event("quit", "quit")) /\ UNCHANGED at
     \/ at = "script" /\ at' = "exited" /\ UNCHANGED queue
  /\ UNCHANGED <<menu, held, due, suspend, running, down, reopened>>

(* SCROLL_DELAY has passed since lastScrollTime.                           *)
Elapse ==
  /\ at \in {"loop", "script"} /\ ~due /\ due' = TRUE
  /\ UNCHANGED <<menu, held, suspend, running, at, down, queue, reopened>>

-----------------------------------------------------------------------------
Poll == Move \/ Run \/ ReadHeld \/ Power \/ Quit
Next ==
  \/ Poll \/ Frame \/ ScriptEnds
  \/ (\E b \in Buttons : Press(b) \/ Lift(b)) \/ (\E k \in Keys : Type(k))
  \/ Terminate \/ Elapse

Spec == Init /\ [][Next]_vars

(* The process is scheduled and time passes.  When SDL_PollEvent has found *)
(* no event the same thread goes on to the rest of the loop; an event that *)
(* comes just then can delay that, but not for ever.                       *)
FairSpec == Spec /\ WF_vars(Poll) /\ SF_vars(Frame) /\ WF_vars(Elapse)

-----------------------------------------------------------------------------
(* Properties.                                                             *)

(* Type correctness.                                                       *)
LauncherTypeOK ==
  /\ numCommands \in Sizes /\ selectedItem \in Int /\ selectedItem >= -1
  /\ held \subseteq Scrolling /\ due \in BOOLEAN
  /\ suspend \in BOOLEAN /\ running \in BOOLEAN /\ reopened \in BOOLEAN
  /\ at \in {"loop", "script", "undefined", "exited"}
  /\ down \subseteq Buttons /\ queue \in Seq(Events)

(* With wrapping, paging and scrolling in any order, the item that is      *)
(* highlighted, and that A runs, exists.                                   *)
SelectionInMenu == numCommands > 0 => selectedItem \in 0..(numCommands - 1)

(* buttonUpHeld and buttonDownHeld are copies, taken when an event is      *)
(* handled, of states that were current when events were queued: once the  *)
(* queue is empty they agree, in whatever order buttons went up and down.  *)
(* Not yet where a command has run since: a button let go meanwhile.       *)
HeldFollowsButtons ==
  at = "loop" /\ queue = <<>> /\ ~reopened => held = down \cap Scrolling

(* Who keeps UP or DOWN down gets through the whole menu, round and round. *)
HoldScrolls ==
  \A b \in Scrolling :
    /\ <>[](down = {b} /\ at = "loop" /\ numCommands > 1)
    /\ []<>(queue = <<>>)
    => []<><<selectedItem' # selectedItem>>_selectedItem
=============================================================================
