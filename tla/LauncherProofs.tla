--------------------------- MODULE LauncherProofs ---------------------------
(***************************************************************************)
(* Proofs about the launcher: for every number of commands, page size and  *)
(* set of buttons, and any number of events waiting.                       *)
(***************************************************************************)
EXTENDS Launcher, FiniteSetTheorems, TLAPS

(* The bounds of the model are no more than bounds: nothing below uses     *)
(* QueueMax or Fingers but that they are there.                            *)
TypeInv ==
  /\ numCommands \in Nat
  /\ queue \in Seq(Events)
  /\ down \subseteq Buttons

(* Types at the start.                                                     *)
LEMMA TypeInitially == Init => TypeInv
BY LauncherAssumption DEF Init, TypeInv

(* A joystick that is opened anew queues events like any other.            *)
LEMMA OrdersAreEvents ==
  ASSUME down \subseteq Buttons, NEW f \in Orders(down)
  PROVE  [k \in 1..Cardinality(down) |-> Event("down", f[k])] \in Seq(Events)
<1>1. Cardinality(down) \in Nat
  BY LauncherAssumption, FS_Subset, FS_CardinalityType
<1>2. \A k \in 1..Cardinality(down) : Event("down", f[k]) \in Events
  BY DEF Orders, Events
<1> QED
  BY <1>1, <1>2

(* Types are kept, whatever events SDL queues.                             *)
LEMMA TypeKept == TypeInv /\ [Next]_vars => TypeInv'
<1> SUFFICES ASSUME TypeInv, [Next]_vars PROVE TypeInv'
  OBVIOUS
<1> USE DEF TypeInv
<1>1. CASE Move
  BY <1>1 DEF Move, Navigate, Take, Taken
<1>2. CASE Run
  BY <1>2 DEF Run, menu
<1>3. CASE ReadHeld \/ Power \/ Quit
  BY <1>3 DEF ReadHeld, Power, Quit, Take, Taken
<1>4. CASE Frame
  BY <1>4 DEF Frame
<1>5. CASE ScriptEnds
  BY <1>5, OrdersAreEvents DEF ScriptEnds, menu
<1>6. ASSUME NEW b \in Buttons, Press(b) PROVE TypeInv'
  <2>1. Event("down", b) \in Events
    BY DEF Events
  <2> QED
    BY <1>6, <2>1 DEF Press, Reported, menu
<1>7. ASSUME NEW b \in Buttons, Lift(b) PROVE TypeInv'
  <2>1. Event("up", b) \in Events
    BY DEF Events
  <2> QED
    BY <1>7, <2>1 DEF Lift, Reported, menu
<1>8. ASSUME NEW k \in Keys, Type(k) PROVE TypeInv'
  <2>1. Event("key", k) \in Events
    BY DEF Events
  <2> QED
    BY <1>8, <2>1 DEF Type, Reported, menu
<1>9. CASE Terminate
  <2>1. Event("quit", "quit") \in Events
    BY DEF Events
  <2> QED
    BY <1>9, <2>1 DEF Terminate, Reported, menu
<1>10. CASE Elapse
  BY <1>10 DEF Elapse, menu
<1>11. CASE UNCHANGED vars
  BY <1>11 DEF vars
<1> QED
  BY <1>1, <1>2, <1>3, <1>4, <1>5, <1>6, <1>7, <1>8, <1>9, <1>10, <1>11 DEF Next, Poll

-----------------------------------------------------------------------------
(* The highlighted item exists.                                            *)

(* Every target of a move is an item.                                      *)
LEMMA MovesStayInMenu ==
  ASSUME TypeInv, SelectionInMenu, numCommands > 0
  PROVE  {Previous, Following, PageUp, PageDown, 0} \subseteq 0..(numCommands - 1)
BY LauncherAssumption
DEF TypeInv, SelectionInMenu, Previous, Following, PageUp, PageDown

(* The selection only changes by a move.                                   *)
LEMMA MenuKept == TypeInv /\ SelectionInMenu /\ [Next]_vars => SelectionInMenu'
<1> SUFFICES ASSUME TypeInv, SelectionInMenu, [Next]_vars, numCommands' > 0
             PROVE  selectedItem' \in 0..(numCommands' - 1)
  BY DEF SelectionInMenu
<1>1. numCommands' = numCommands
  BY DEF Next, Poll, Move, Navigate, Run, ReadHeld, Power, Quit, Taken, Frame,
     ScriptEnds, Press, Lift, Type, Terminate, Elapse, menu, vars
<1>2. selectedItem' \in {selectedItem, Previous, Following, PageUp, PageDown, 0}
  BY DEF Next, Poll, Move, Navigate, Run, ReadHeld, Power, Quit, Taken, Frame,
     ScriptEnds, Press, Lift, Type, Terminate, Elapse, menu, vars
<1> QED
  BY <1>1, <1>2, MovesStayInMenu DEF SelectionInMenu

(* Wrapping, paging and scrolling never leave the menu, whatever the       *)
(* number of commands and the page size.                                   *)
THEOREM SelectionAlwaysInMenu == Spec => []SelectionInMenu
<1>1. Init => SelectionInMenu
  BY LauncherAssumption DEF Init, SelectionInMenu
<1> QED
  BY <1>1, TypeInitially, TypeKept, MenuKept, PTL DEF Spec

-----------------------------------------------------------------------------
(* The held flags: where they disagree with the buttons, an event that     *)
(* makes main read them again is still in the queue.                       *)

WillReread == \E k \in 1..Len(queue) : Rereads(queue[k])
HeldInv ==
  at = "loop" /\ ~reopened => held = down \cap Scrolling \/ WillReread

(* An event that is queued is still to be read.                            *)
LEMMA Queued ==
  ASSUME TypeInv, NEW e \in Events, queue' = Append(queue, e),
         WillReread \/ Rereads(e)
  PROVE  WillReread'
<1>1. Rereads(e) => Rereads(queue'[Len(queue')]) /\ Len(queue') \in 1..Len(queue')
  BY DEF TypeInv
<1>2. \A k \in 1..Len(queue) : queue'[k] = queue[k] /\ k \in 1..Len(queue')
  BY DEF TypeInv
<1> QED
  BY <1>1, <1>2 DEF WillReread, Rereads

(* An event behind the head stays when the head is taken.                  *)
LEMMA StillQueued ==
  ASSUME TypeInv, queue # <<>>, queue' = Tail(queue), WillReread,
         ~Rereads(Head(queue))
  PROVE  WillReread'
<1>1. PICK k \in 1..Len(queue) : Rereads(queue[k])
  BY DEF WillReread
<1>2. k # 1
  BY <1>1 DEF TypeInv
<1>3. k - 1 \in 1..Len(queue') /\ queue'[k - 1] = queue[k]
  BY <1>2 DEF TypeInv
<1> QED
  BY <1>1, <1>3 DEF WillReread, Rereads

(* No step breaks the invariant of the held flags.                         *)
LEMMA HeldKept == TypeInv /\ HeldInv /\ [Next]_vars => HeldInv'
<1> SUFFICES ASSUME TypeInv, HeldInv, [Next]_vars, at' = "loop", ~reopened'
             PROVE  (held = down \cap Scrolling)' \/ WillReread'
  BY DEF HeldInv
<1>1. ASSUME NEW e, Take(e), Taken, ~Rereads(e), UNCHANGED <<held, at, reopened>>
      PROVE  (held = down \cap Scrolling)' \/ WillReread'
  BY <1>1, StillQueued DEF Take, Taken, HeldInv
<1>2. CASE Move
  <2>1. ASSUME NEW e, NEW item, Navigate(e, item), ~Rereads(e)
        PROVE  (held = down \cap Scrolling)' \/ WillReread'
    BY <1>1, <2>1 DEF Navigate
  <2>2. \A k : ~Rereads(Event("key", k))
    BY DEF Rereads, Event
  <2>3. \A b \in {"LEFT", "RIGHT", "B"} : ~Rereads(Event("down", b))
    BY DEF Rereads, Event, Scrolling
  <2> QED
    BY <1>2, <2>1, <2>2, <2>3 DEF Move
<1>3. CASE Run
  BY <1>3 DEF Run
<1>4. CASE ReadHeld
  BY <1>4 DEF ReadHeld, Taken
<1>5. CASE Power
  <2>1. ~Rereads(Event("key", "POWER"))
    BY DEF Rereads, Event
  <2> QED
    BY <1>1, <1>5, <2>1 DEF Power
<1>6. CASE Quit
  <2>1. ~Rereads(Event("quit", "quit"))
    BY DEF Rereads, Event
  <2> QED
    BY <1>1, <1>6, <2>1 DEF Quit
<1>7. CASE Frame
  BY <1>7 DEF Frame, HeldInv, WillReread
<1>8. CASE ScriptEnds
  BY <1>8 DEF ScriptEnds
<1>9. ASSUME NEW b \in Buttons, Press(b)
      PROVE  (held = down \cap Scrolling)' \/ WillReread'
  <2>1. Event("down", b) \in Events /\ queue' = Append(queue, Event("down", b))
    BY <1>9 DEF Events, Press, Reported
  <2>2. CASE b \in Scrolling
    BY <2>1, <2>2, Queued DEF Rereads
  <2>3. CASE b \notin Scrolling
    <3>1. (down \cap Scrolling)' = down \cap Scrolling /\ held' = held
      BY <1>9, <2>3 DEF Press
    <3> QED
      BY <1>9, <2>1, <3>1, Queued DEF HeldInv, Press
  <2> QED
    BY <2>2, <2>3
<1>10. ASSUME NEW b \in Buttons, Lift(b)
       PROVE  (held = down \cap Scrolling)' \/ WillReread'
  <2>1. Event("up", b) \in Events /\ queue' = Append(queue, Event("up", b))
    BY <1>10 DEF Events, Lift, Reported
  <2> QED
    BY <2>1, Queued DEF Rereads
<1>11. ASSUME NEW k \in Keys, Type(k)
       PROVE  (held = down \cap Scrolling)' \/ WillReread'
  <2>1. Event("key", k) \in Events /\ queue' = Append(queue, Event("key", k))
    BY <1>11 DEF Events, Type, Reported
  <2> QED
    BY <1>11, <2>1, Queued DEF HeldInv, Type
<1>12. CASE Terminate
  <2>1. Event("quit", "quit") \in Events /\ queue' = Append(queue, Event("quit", "quit"))
    BY <1>12 DEF Events, Terminate, Reported
  <2> QED
    BY <1>12, <2>1, Queued DEF HeldInv, Terminate
<1>13. CASE Elapse
  BY <1>13 DEF Elapse, HeldInv, WillReread, Rereads
<1>14. CASE UNCHANGED vars
  BY <1>14 DEF vars, HeldInv, WillReread, Rereads
<1> QED
  BY <1>2, <1>3, <1>4, <1>5, <1>6, <1>7, <1>8, <1>9, <1>10, <1>11, <1>12, <1>13, <1>14
  DEF Next, Poll

(* With the events drained the flags are what the buttons are, for any     *)
(* number of events that waited and in whatever order they came.           *)
THEOREM HeldAlwaysFollows == Spec => []HeldFollowsButtons
<1>1. Init => HeldInv
  BY DEF Init, HeldInv
<1>2. HeldInv => HeldFollowsButtons
  BY DEF HeldInv, HeldFollowsButtons, WillReread
<1> QED
  BY <1>1, <1>2, TypeInitially, TypeKept, HeldKept, PTL DEF Spec

-----------------------------------------------------------------------------
(* Type correctness.  selectedItem is -1 only where there is no command.   *)

(* No step breaks the types of main's variables.                           *)
LEMMA TypeOKKept == LauncherTypeOK /\ [Next]_vars => LauncherTypeOK'
<1> SUFFICES ASSUME LauncherTypeOK, [Next]_vars PROVE LauncherTypeOK'
  OBVIOUS
<1>1. TypeInv /\ TypeInv' /\ numCommands' = numCommands
  <2>1. TypeInv
    BY LauncherAssumption DEF LauncherTypeOK, TypeInv
  <2> QED
    BY <2>1, TypeKept DEF Next, Poll, Move, Navigate, Run, ReadHeld, Power, Quit,
       Taken, Frame, ScriptEnds, Press, Lift, Type, Terminate, Elapse, menu, vars
<1>2. selectedItem' \in Int /\ selectedItem' >= -1
  <2>1. selectedItem' \in {selectedItem, Previous, Following, PageUp, PageDown, 0}
    BY DEF Next, Poll, Move, Navigate, Run, ReadHeld, Power, Quit, Taken, Frame,
       ScriptEnds, Press, Lift, Type, Terminate, Elapse, menu, vars
  <2> QED
    BY <1>1, <2>1, LauncherAssumption
    DEF LauncherTypeOK, TypeInv, Previous, Following, PageUp, PageDown
<1>3. held' \subseteq Scrolling
  BY DEF LauncherTypeOK, Next, Poll, Move, Navigate, Run, ReadHeld, Power, Quit, Taken,
     Frame, ScriptEnds, Press, Lift, Type, Terminate, Elapse, menu, vars
<1>4. at' \in {"loop", "script", "undefined", "exited"}
  BY DEF LauncherTypeOK, Next, Poll, Move, Navigate, Run, ReadHeld, Power, Quit, Taken,
     Frame, ScriptEnds, Press, Lift, Type, Terminate, Elapse, menu, vars
<1>5. /\ due' \in BOOLEAN /\ suspend' \in BOOLEAN
      /\ running' \in BOOLEAN /\ reopened' \in BOOLEAN
  BY Zenon DEF LauncherTypeOK, Next, Poll, Move, Navigate, Run, ReadHeld, Power, Quit,
     Taken, Frame, ScriptEnds, Press, Lift, Type, Terminate, Elapse, menu, vars
<1> QED
  BY <1>1, <1>2, <1>3, <1>4, <1>5 DEF LauncherTypeOK, TypeInv

(* Every variable of main keeps its type, for every menu and any events.   *)
THEOREM LauncherAlwaysTyped == Spec => []LauncherTypeOK
<1>1. Init => LauncherTypeOK
  <2>1. Init => selectedItem \in Int /\ selectedItem >= -1 /\ queue \in Seq(Events)
    BY DEF Init
  <2> QED
    BY <2>1, Zenon DEF Init, LauncherTypeOK
<1> QED
  BY <1>1, TypeOKKept, PTL DEF Spec
=============================================================================
