------------------------------ MODULE DrawSync ------------------------------
(***************************************************************************)
(* How the two threads of simple-terminal bring what the shell wrote onto  *)
(* the surface.  ttythread (the reader) reads the pseudo terminal, changes *)
(* term.line and term.dirty, and pushes SDL_USEREVENT; the main thread     *)
(* waits for events and draws the dirty rows.  They share line, dirty and  *)
(* the surface without a lock, so the actions are the single loads and     *)
(* stores whose order matters: raising a row's flag, storing its cells,    *)
(* taking the flag down, reading the cells, painting them.                 *)
(*                                                                         *)
(* Module Screen says what each control function does to the lines; here a *)
(* function is the sequence of stores it makes, for the functions that     *)
(* order their stores differently.                                         *)
(***************************************************************************)
EXTENDS Integers, Sequences

CONSTANTS
  NRows,      \* term.row
  Texts,      \* contents of a row
  NoText,     \* the contents of a cleared row
  Apps,       \* programs in the terminal: sets of the functions their output calls
  PtyMax,     \* characters the pseudo terminal buffers
  ReadCap,    \* 1000 in ttythread: reads before a draw is forced
  QueueMax,   \* events SDL queues (128)
  KeyMax      \* events that pile up with no draw event among them

ASSUME SyncAssumption ==
  /\ NRows \in Nat \ {0} /\ NoText \in Texts
  /\ PtyMax \in Nat \ {0} /\ ReadCap \in Nat \ {0}
  /\ QueueMax \in Nat \ {0} /\ KeyMax \in Nat /\ KeyMax < QueueMax

VARIABLES
  app,      \* the program that runs
  unread,   \* characters written by the shell and not read yet
  buffered, \* characters ttyread has read and not processed yet
  rpc,      \* where ttythread is: "select", "read", "push"
  armed,    \* tv # NULL: select returns even without input
  reads,    \* i of ttythread
  todo,     \* the stores left of the function being executed
  line,     \* term.line
  reverse,  \* MODE_REVERSE
  dirty,    \* rows with term.dirty set
  win,      \* xw.win, row by row
  visible,  \* WIN_VISIBLE
  queue,    \* SDL's event queue
  booted,   \* sdlinit has returned; run() takes events
  painter   \* each thread's progress through drawregion

rvars == <<app, unread, buffered, rpc, armed, reads, todo>>
lvars == <<line, reverse>>
dvars == <<win, visible, booted>>
vars == <<app, unread, buffered, rpc, armed, reads, todo, line, reverse, dirty, win,
          visible, queue, booted, painter>>

Rows == 0..(NRows - 1)
Threads == {"main", "reader"}
DrawEvents == {"USEREVENT", "VIDEOEXPOSE"}
Events == DrawEvents \cup {"KEY", "ACTIVE"}

Looks == Texts \X BOOLEAN
Look(y) == <<line[y], reverse>>

(* A painter is at row y of the loop of drawregion (NRows: not in it).  It *)
(* checks the flag, has cleared it, or holds the row's contents in buf.    *)
Painters == [y : 0..NRows, at : {"check", "cleared", "holding"}, buf : Looks]
AtRow(y) == [y |-> y, at |-> "check", buf |-> <<NoText, FALSE>>]
Idle == AtRow(NRows)
Drawing(t) == painter[t].y < NRows

-----------------------------------------------------------------------------
(* The stores of each function.                                            *)

Flag(y) == [do |-> "flag", y |-> y]
Store(l) == [do |-> "store", l |-> l]
FlagAll == [n \in 1..NRows |-> Flag(n - 1)]

(* tsetchar (and tdeletechar, tinsertblank, each row of tclearregion): the *)
(* flag first, then the cells.                                             *)
TextSteps(y, v) == <<Flag(y), Store([line EXCEPT ![y] = v])>>

(* tscrollup(0, 1): clear the first line, then swap it down line by line,  *)
(* flagging both partners after each swap.                                 *)
Lifted(k) == [y \in Rows |-> IF y < k THEN line[y + 1]
                             ELSE IF y = k THEN NoText ELSE line[y]]
HalfSwapped(k) == [y \in Rows |-> IF y = k THEN line[k] ELSE Lifted(k)[y]]
Swap(k) == <<Store(HalfSwapped(k)), Store(Lifted(k)), Flag(k - 1), Flag(k)>>
ScrollSteps ==
  <<Flag(0), Store(Lifted(0))>>
  \o [i \in 1..(4 * (NRows - 1)) |-> Swap((i + 3) \div 4)[((i - 1) % 4) + 1]]

(* tswapscreen: one pointer, then all the flags.                           *)
SwitchSteps(l) == <<Store(l)>> \o FlagAll

(* DECSCNM: the mode, then redraw() in this thread.                        *)
ReverseSteps == <<[do |-> "reverse"]>> \o FlagAll \o <<[do |-> "draw"]>>

Programs ==
  UNION {{p \in {TextSteps(y, v) : y \in Rows, v \in Texts} : "text" \in app},
         {p \in {ScrollSteps} : "scroll" \in app},
         {p \in {SwitchSteps(l) : l \in [Rows -> Texts]} : "switch" \in app},
         {p \in {ReverseSteps} : "reverse" \in app}}

-----------------------------------------------------------------------------
Init ==
  /\ app \in Apps
  /\ unread = 0 /\ buffered = 0 /\ rpc = "select" /\ armed = FALSE /\ reads = 0 /\ todo = <<>>
  /\ line = [y \in Rows |-> NoText] /\ reverse = FALSE
  /\ dirty = Rows /\ win = [y \in Rows |-> <<NoText, FALSE>>]
  /\ visible = FALSE /\ queue = <<>> /\ booted = FALSE
  /\ painter = [t \in Threads |-> Idle]

(* SDL_PushEvent drops the event if the queue is full.                     *)
Push(e) == queue' = IF Len(queue) < QueueMax THEN Append(queue, e) ELSE queue
DrawQueued == \E n \in DOMAIN queue : queue[n] \in DrawEvents

(* The environment: the shell writes while the pseudo terminal has room;   *)
(* keys and focus changes are queued, and the main thread takes them fast  *)
(* enough that no KeyMax of them fill the queue by themselves.             *)
ShellWrites ==
  /\ unread < PtyMax
  /\ unread' = unread + 1
  /\ UNCHANGED <<app, buffered, rpc, armed, reads, todo, lvars, dirty, dvars, queue, painter>>

Input(e) ==
  /\ e \in Events \ DrawEvents
  /\ DrawQueued \/ Len(queue) < KeyMax
  /\ Push(e)
  /\ UNCHANGED <<app, rvars, lvars, dirty, dvars, painter>>

-----------------------------------------------------------------------------
(* ttythread.                                                              *)

(* select returns on input, or by itself once a timeout is set; after      *)
(* ReadCap turns the input has to wait for a draw event.  ttyread takes    *)
(* all there is.                                                           *)
Select ==
  /\ rpc = "select" /\ (unread > 0 \/ armed)
  /\ IF unread > 0 /\ reads < ReadCap
     THEN rpc' = "read" /\ buffered' = unread /\ unread' = 0
     ELSE rpc' = "push" /\ UNCHANGED <<buffered, unread>>
  /\ UNCHANGED <<app, armed, reads, todo, lvars, dirty, dvars, queue, painter>>

Between == rpc = "read" /\ todo = <<>> /\ ~Drawing("reader")

(* The next character: tputc runs one function.                            *)
Execute ==
  /\ Between /\ buffered > 0
  /\ todo' \in Programs
  /\ buffered' = buffered - 1
  /\ UNCHANGED <<app, unread, rpc, armed, reads, lvars, dirty, dvars, queue, painter>>

(* One store of that function.                                             *)
Do(step) ==
  \/ /\ step.do = "flag"
     /\ dirty' = dirty \cup {step.y}
     /\ UNCHANGED <<lvars, painter>>
  \/ /\ step.do = "store"
     /\ line' = step.l
     /\ UNCHANGED <<dirty, reverse, painter>>
  \/ /\ step.do = "reverse"
     /\ reverse' = ~reverse
     /\ UNCHANGED <<line, dirty, painter>>
  \/ /\ step.do = "draw"
     /\ painter' = IF visible THEN [painter EXCEPT !["reader"] = AtRow(0)]
                   ELSE painter
     /\ UNCHANGED <<lvars, dirty>>

Step ==
  /\ rpc = "read" /\ todo # <<>>
  /\ Do(Head(todo))
  /\ todo' = Tail(todo)
  /\ UNCHANGED <<app, unread, buffered, rpc, armed, reads, dvars, queue>>

ReadDoneNotCounted ==
  /\ Between /\ buffered = 0
  /\ rpc' = "select" /\ armed' = TRUE
  /\ UNCHANGED <<app, unread, buffered, reads, todo, lvars, dirty, dvars, queue, painter>>

(* Back to select, with a timeout of 5 microseconds.                       *)
ReadDone ==
  /\ Between /\ buffered = 0
  /\ rpc' = "select" /\ armed' = TRUE /\ reads' = reads + 1
  /\ UNCHANGED <<app, unread, buffered, todo, lvars, dirty, dvars, queue, painter>>

PushOnlyIfCapped ==
  /\ rpc = "push"
  /\ rpc' = "select" /\ armed' = FALSE /\ reads' = 1
  /\ IF reads < ReadCap THEN UNCHANGED queue ELSE Push("USEREVENT")
  /\ UNCHANGED <<app, unread, buffered, todo, lvars, dirty, dvars, painter>>

(* i = 0 is followed by the i++ of the loop.                               *)
PushUserEvent ==
  /\ rpc = "push"
  /\ rpc' = "select" /\ armed' = FALSE /\ reads' = 1
  /\ Push("USEREVENT")
  /\ UNCHANGED <<app, unread, buffered, todo, lvars, dirty, dvars, painter>>

-----------------------------------------------------------------------------
(* drawregion, in either thread.                                           *)

CheckRow(t) ==
  LET y == painter[t].y
  IN /\ Drawing(t) /\ painter[t].at = "check"
     /\ dirty' = dirty \ {y}
     /\ painter' = [painter EXCEPT ![t] =
          IF y \in dirty THEN [@ EXCEPT !.at = "cleared"] ELSE AtRow(y + 1)]
     /\ UNCHANGED <<app, rvars, lvars, dvars, queue>>

ReadRow(t) ==
  /\ Drawing(t) /\ painter[t].at = "cleared"
  /\ painter' = [painter EXCEPT ![t] =
       [y |-> @.y, at |-> "holding", buf |-> Look(@.y)]]
  /\ UNCHANGED <<app, rvars, lvars, dirty, dvars, queue>>

PaintRowAndClean(t) ==
  LET y == painter[t].y
  IN /\ Drawing(t) /\ painter[t].at = "holding"
     /\ win' = [win EXCEPT ![y] = painter[t].buf] /\ dirty' = dirty \ {y}
     /\ painter' = [painter EXCEPT ![t] = AtRow(y + 1)]
     /\ UNCHANGED <<app, rvars, lvars, visible, booted, queue>>

PaintRow(t) ==
  LET y == painter[t].y
  IN /\ Drawing(t) /\ painter[t].at = "holding"
     /\ win' = [win EXCEPT ![y] = painter[t].buf]
     /\ painter' = [painter EXCEPT ![t] = AtRow(y + 1)]
     /\ UNCHANGED <<app, rvars, lvars, dirty, visible, booted, queue>>

-----------------------------------------------------------------------------
(* The main thread.                                                        *)

(* The end of sdlinit, after SDL_CreateThread: expose, then the first      *)
(* VIDEOEXPOSE event.                                                      *)
Boot ==
  /\ ~booted
  /\ IF visible THEN booted' = TRUE /\ Push("VIDEOEXPOSE") /\ UNCHANGED visible
     ELSE visible' = TRUE /\ UNCHANGED <<booted, queue>>
  /\ UNCHANGED <<app, rvars, lvars, dirty, win, painter>>

TakeOnlyExpose ==
  /\ booted /\ ~Drawing("main") /\ queue # <<>>
  /\ queue' = Tail(queue)
  /\ painter' = IF Head(queue) = "VIDEOEXPOSE"
                THEN [painter EXCEPT !["main"] = AtRow(0)] ELSE painter
  /\ UNCHANGED <<app, rvars, lvars, dirty, dvars>>

(* One turn of run(): draw() for the draw events, nothing that matters     *)
(* here for the others.                                                    *)
TakeEvent ==
  /\ booted /\ ~Drawing("main") /\ queue # <<>>
  /\ queue' = Tail(queue)
  /\ painter' = IF Head(queue) \in DrawEvents
                THEN [painter EXCEPT !["main"] = AtRow(0)] ELSE painter
  /\ UNCHANGED <<app, rvars, lvars, dirty, dvars>>

-----------------------------------------------------------------------------
Draw(t) == CheckRow(t) \/ ReadRow(t) \/ PaintRow(t)
Reader == Select \/ Execute \/ Step \/ ReadDone \/ PushUserEvent \/ Draw("reader")
Main == Boot \/ TakeEvent \/ Draw("main")

Next == ShellWrites \/ (\E e \in Events : Input(e)) \/ Reader \/ Main

Spec == Init /\ [][Next]_vars

(* Both threads are scheduled by the kernel, neither waits for the other,  *)
(* and the two waits (select, SDL_WaitEvent) end when there is something.  *)
(* Nothing makes the shell write or the user press keys.                   *)
FairSpec == Spec /\ WF_vars(Reader) /\ WF_vars(Main)

-----------------------------------------------------------------------------
(* Properties.                                                             *)

(* Type correctness.                                                       *)
SyncTypeOK ==
  /\ unread \in 0..PtyMax /\ buffered \in 0..PtyMax
  /\ rpc \in {"select", "read", "push"} /\ armed \in BOOLEAN
  /\ reads \in 0..ReadCap
  /\ line \in [Rows -> Texts] /\ reverse \in BOOLEAN
  /\ dirty \subseteq Rows /\ win \in [Rows -> Looks]
  /\ visible \in BOOLEAN /\ booted \in BOOLEAN
  /\ queue \in Seq(Events) /\ Len(queue) <= QueueMax
  /\ painter \in [Threads -> Painters]

(* No lost wakeup.  A row flagged for repainting is never forgotten while  *)
(* both threads sleep: the reader has yet to push its event (it is reading *)
(* or its select has a timeout), or a draw event waits, or the main thread *)
(* has yet to come past the row.  PushEvent may fail on a full queue, but  *)
(* a draw event is in it then, unless QueueMax others filled it alone.     *)
ReaderWillPush == rpc # "select" \/ armed
NoLostWakeup ==
  \A y \in Rows : y \in dirty =>
    \/ ReaderWillPush \/ DrawQueued \/ ~booted
    \/ painter["main"].y < y
    \/ painter["main"].y = y /\ painter["main"].at = "check"

(* However fast the shell writes, every flagged row gets its turn: that is *)
(* what the limit of 1000 reads is for.                                    *)
FlaggedRowsDrawn == \A y \in Rows : y \in dirty ~> y \notin dirty

(* When the shell stops writing, the window ends up showing the screen.    *)
(* True of the functions that flag after storing (scrolling, switching     *)
(* screens), in every interleaving of the two threads; but a terminal of a *)
(* single row is scrolled by clearing it.                                  *)
FlagsLast == app \subseteq IF NRows = 1 THEN {"switch"} ELSE {"scroll", "switch"}
QuietShown ==
  FlagsLast /\ <>[](unread = 0) => <>[](\A y \in Rows : win[y] = Look(y))

(* Why: a row that differs from the window has its flag up, is about to be *)
(* flagged by the function that changed it, is being repainted with what   *)
(* it holds now, or is still to be executed.  The scroll loop swaps two    *)
(* lines in three stores, and the main thread may draw in between.         *)
(* tsetchar and tclearregion flag before they store, and do lose repaints: *)
(* the main thread may take the flag down and read the row in between; so  *)
(* does scrolling where there is one row, which is cleared and not swapped.*)
WillFlag(y) == \E n \in DOMAIN todo : todo[n].do = "flag" /\ todo[n].y = y
Repainting(y) == \E t \in Threads :
  /\ painter[t].y = y
  /\ \/ painter[t].at = "cleared"
     \/ painter[t].at = "holding" /\ painter[t].buf = Look(y)
NothingLost ==
  FlagsLast => \A y \in Rows : win[y] # Look(y) => y \in dirty \/ WillFlag(y) \/ Repainting(y)

(* Each row of the window shows a picture the row once had, never an older *)
(* one over a newer one, and the present one unless somebody will still    *)
(* repaint it: what the two threads promise of the functions that flag     *)
(* after storing, as module Window puts it.                                *)
Late == {y \in Rows : y \in dirty \/ WillFlag(y) \/ Repainting(y)}
Held(y) == {painter[t].buf :
              t \in {u \in Threads : painter[u].y = y /\ painter[u].at = "holding"}}
W == INSTANCE Window WITH
  Pictures <- Looks, screen <- [y \in Rows |-> Look(y)], window <- win,
  coming <- [y \in Rows |-> Held(y)], late <- Late
ShowsTheScreen == (FlagsLast => W!Init) /\ [][FlagsLast => W!Next]_(W!vars)
=============================================================================
