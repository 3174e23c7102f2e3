--------------------------- MODULE DrawSyncProofs ---------------------------
(***************************************************************************)
(* ttythread and the main thread, for any number of rows, any size of the  *)
(* event queue and any limit of reads.                                     *)
(*                                                                         *)
(* NoLostWakeup is not inductive: PushUserEvent keeps it only because a    *)
(* push can fail only when a draw event is already queued (QueueInv), and  *)
(* a step of a function keeps it only because it runs inside ttyread       *)
(* (the guard of Step).  PainterInv is as much of the painters' type as    *)
(* the argument reads.                                                     *)
(*                                                                         *)
(* NothingLost needs RepaintInv: the function being executed settles, that *)
(* is, it flags a row after its last store to it; only the main thread     *)
(* paints; and what a painter holds out of date is a row that is flagged   *)
(* or will be.                                                             *)
(***************************************************************************)
EXTENDS DrawSync, SequenceTheorems, TLAPS

PainterInv ==
  /\ painter = [t \in Threads |-> painter[t]]
  /\ \A t \in Threads :
       /\ painter[t] = [y |-> painter[t].y, at |-> painter[t].at, buf |-> painter[t].buf]
       /\ painter[t].y \in Nat

QueueInv ==
  /\ queue \in Seq(Events)
  /\ Len(queue) <= QueueMax
  /\ ~DrawQueued => Len(queue) < QueueMax

WakeupInv == PainterInv /\ QueueInv /\ NoLostWakeup

(* A push leaves the queue in order, and a draw event pushed is a draw     *)
(* event queued even when the push itself failed.                          *)
LEMMA PushKeepsDraws ==
  ASSUME QueueInv, NEW e \in Events, Push(e)
  PROVE  /\ queue' \in Seq(Events) /\ Len(queue') <= QueueMax
         /\ DrawQueued => DrawQueued'
<1> USE SyncAssumption
<1>1. CASE Len(queue) < QueueMax
  <2>1. queue' = Append(queue, e)
    BY <1>1 DEF Push
  <2>2. queue' \in Seq(Events) /\ DOMAIN queue = 1..Len(queue)
        /\ DOMAIN queue' = 1..(Len(queue) + 1) /\ Len(queue) \in Nat
        /\ \A n \in 1..Len(queue) : queue'[n] = queue[n]
    BY <2>1 DEF QueueInv
  <2>3. Len(queue') <= QueueMax
    BY <1>1, <2>1, <2>2 DEF QueueInv
  <2>4. DrawQueued => DrawQueued'
    <3> SUFFICES ASSUME NEW n \in DOMAIN queue, queue[n] \in DrawEvents
                 PROVE  DrawQueued'
      BY DEF DrawQueued
    <3>1. n \in DOMAIN queue' /\ queue'[n] = queue[n]
      BY <2>2
    <3> QED BY <3>1 DEF DrawQueued
  <2> QED BY <2>2, <2>3, <2>4
<1>2. CASE ~(Len(queue) < QueueMax)
  BY <1>2 DEF Push, QueueInv, DrawQueued
<1> QED BY <1>1, <1>2

(* After a push of a draw event there is one in the queue.                 *)
LEMMA PushedDrawIsQueued ==
  ASSUME QueueInv, NEW e \in DrawEvents, Push(e)
  PROVE  QueueInv' /\ DrawQueued'
<1>0. e \in Events
  BY DEF Events
<1>1. queue' \in Seq(Events) /\ Len(queue') <= QueueMax /\ (DrawQueued => DrawQueued')
  BY <1>0, PushKeepsDraws
<1>2. CASE Len(queue) < QueueMax
  <2>1. queue' = Append(queue, e)
    BY <1>2 DEF Push
  <2>2. Len(queue) + 1 \in DOMAIN queue' /\ queue'[Len(queue) + 1] = e
    BY <2>1, <1>0 DEF QueueInv
  <2> QED BY <1>1, <2>2 DEF QueueInv, DrawQueued
<1>3. CASE ~(Len(queue) < QueueMax)
  BY <1>1, <1>3 DEF QueueInv
<1> QED BY <1>2, <1>3

(* Where a painter stands after CheckRow, ReadRow and PaintRow.            *)
LEMMA AtRowFacts ==
  ASSUME NEW n \in Nat
  PROVE  /\ AtRow(n) = [y |-> AtRow(n).y, at |-> AtRow(n).at, buf |-> AtRow(n).buf]
         /\ AtRow(n).y = n /\ AtRow(n).at = "check"
BY DEF AtRow

(* At the start nothing is flagged.                                        *)
LEMMA InitWakeup == Init => WakeupInv
<1> SUFFICES ASSUME Init PROVE WakeupInv
  OBVIOUS
<1> USE SyncAssumption
<1>1. PainterInv
  BY AtRowFacts DEF Init, PainterInv, Idle, Threads
<1>2. QueueInv
  BY DEF Init, QueueInv, DrawQueued, Events, DrawEvents
<1>3. NoLostWakeup
  BY DEF Init, NoLostWakeup
<1> QED BY <1>1, <1>2, <1>3 DEF WakeupInv

(* No step of either thread loses the wakeup.                              *)
LEMMA NextWakeup == WakeupInv /\ [Next]_vars => WakeupInv'
<1> SUFFICES ASSUME WakeupInv, [Next]_vars PROVE WakeupInv'
  OBVIOUS
<1> USE SyncAssumption
<1> USE DEF WakeupInv
<1>1. CASE ShellWrites
  BY <1>1 DEF ShellWrites, PainterInv, QueueInv, NoLostWakeup, DrawQueued,
              ReaderWillPush, lvars, dvars
<1>2. ASSUME NEW e \in Events, Input(e) PROVE WakeupInv'
  <2>1. Push(e) /\ UNCHANGED <<rvars, lvars, dirty, dvars, painter>>
    BY <1>2 DEF Input
  <2>2. queue' \in Seq(Events) /\ Len(queue') <= QueueMax /\ (DrawQueued => DrawQueued')
    BY <2>1, PushKeepsDraws
  <2>3. ~DrawQueued' => Len(queue') < QueueMax
    <3>1. CASE DrawQueued
      BY <3>1, <2>2
    <3>2. CASE ~DrawQueued
      <4>1. Len(queue) < KeyMax /\ Len(queue) < QueueMax /\ Len(queue) \in Nat
        BY <1>2, <3>2 DEF Input, QueueInv
      <4>2. Len(queue') = Len(queue) + 1
        BY <2>1, <4>1 DEF Push, QueueInv
      <4> QED BY <4>1, <4>2
    <3> QED BY <3>1, <3>2
  <2>4. QueueInv'
    BY <2>2, <2>3 DEF QueueInv
  <2>5. PainterInv'
    BY <2>1 DEF PainterInv
  <2>6. NoLostWakeup'
    BY <2>1, <2>2 DEF NoLostWakeup, ReaderWillPush, rvars, dvars
  <2> QED BY <2>4, <2>5, <2>6
<1>3. CASE Select
  <2>1. PainterInv' /\ QueueInv'
    BY <1>3 DEF Select, PainterInv, QueueInv, DrawQueued
  <2>2. rpc' # "select"
    BY <1>3 DEF Select
  <2> QED BY <2>1, <2>2 DEF NoLostWakeup, ReaderWillPush
<1>4. CASE Execute
  BY <1>4 DEF Execute, PainterInv, QueueInv, NoLostWakeup, DrawQueued,
              ReaderWillPush, lvars, dvars
<1>5. CASE Step
  <2>1. QueueInv'
    BY <1>5 DEF Step, QueueInv, DrawQueued
  <2>2. NoLostWakeup'
    BY <1>5 DEF Step, NoLostWakeup, ReaderWillPush
  <2>3. UNCHANGED painter \/ painter' = [painter EXCEPT !["reader"] = AtRow(0)]
    BY <1>5 DEF Step, Do
  <2>4. PainterInv'
    BY <2>3, AtRowFacts DEF PainterInv, Threads
  <2> QED BY <2>1, <2>2, <2>4
<1>6. CASE ReadDone
  BY <1>6 DEF ReadDone, PainterInv, QueueInv, NoLostWakeup, DrawQueued, ReaderWillPush
<1>7. CASE PushUserEvent
  <2>1. QueueInv' /\ DrawQueued'
    BY <1>7, PushedDrawIsQueued DEF PushUserEvent, DrawEvents
  <2>2. PainterInv'
    BY <1>7 DEF PushUserEvent, PainterInv
  <2> QED BY <2>1, <2>2 DEF NoLostWakeup
<1>8. ASSUME NEW t \in Threads, Draw(t) PROVE WakeupInv'
  <2> DEFINE y == painter[t].y
  <2>1. QueueInv' /\ UNCHANGED <<rvars, queue, booted>> /\ Drawing(t) /\ y \in Nat
    BY <1>8 DEF Draw, CheckRow, ReadRow, PaintRow, QueueInv, DrawQueued, PainterInv, dvars
  <2>2. CASE CheckRow(t)
    <3>1. PICK p : /\ painter' = [painter EXCEPT ![t] = p]
                   /\ p = [y |-> p.y, at |-> p.at, buf |-> p.buf]
                   /\ \/ p.y = y /\ p.at = "cleared"
                      \/ p.y = y + 1 /\ p.at = "check"
      <4>1. CASE y \in dirty
        <5> DEFINE p == [y |-> y, at |-> "cleared", buf |-> painter[t].buf]
        <5>1. painter' = [painter EXCEPT ![t] = [painter[t] EXCEPT !.at = "cleared"]]
          BY <2>2, <4>1 DEF CheckRow
        <5>2. [painter[t] EXCEPT !.at = "cleared"] = p
          BY DEF PainterInv
        <5>3. painter' = [painter EXCEPT ![t] = p]
          BY <5>1, <5>2
        <5> WITNESS p
        <5> QED BY <5>3
      <4>2. CASE y \notin dirty
        <5>1. painter' = [painter EXCEPT ![t] = AtRow(y + 1)]
          BY <2>2, <4>2 DEF CheckRow
        <5>2. y + 1 \in Nat
          BY <2>1
        <5> WITNESS AtRow(y + 1)
        <5> QED BY <5>1, <5>2, AtRowFacts
      <4> QED BY <4>1, <4>2
    <3>2. PainterInv'
      BY <3>1, <2>1 DEF PainterInv
    <3>3. dirty' = dirty \ {y}
      BY <2>2 DEF CheckRow
    <3>4. NoLostWakeup'
      BY <2>1, <3>1, <3>2, <3>3
         DEF NoLostWakeup, ReaderWillPush, DrawQueued, rvars, Rows, Threads, PainterInv
    <3> QED BY <2>1, <3>2, <3>4
  <2>3. CASE ReadRow(t) \/ PaintRow(t)
    <3>1. PICK p : /\ painter' = [painter EXCEPT ![t] = p]
                   /\ p = [y |-> p.y, at |-> p.at, buf |-> p.buf]
                   /\ \/ p.y = y /\ p.at = "holding"
                      \/ p.y = y + 1 /\ p.at = "check"
      <4>1. CASE ReadRow(t)
        <5> DEFINE p == [y |-> y, at |-> "holding", buf |-> Look(y)]
        <5>1. painter' = [painter EXCEPT ![t] = p]
          BY <4>1 DEF ReadRow
        <5> WITNESS p
        <5> QED BY <5>1
      <4>2. CASE PaintRow(t)
        <5>1. painter' = [painter EXCEPT ![t] = AtRow(y + 1)]
          BY <4>2 DEF PaintRow
        <5>2. y + 1 \in Nat
          BY <2>1
        <5> WITNESS AtRow(y + 1)
        <5> QED BY <5>1, <5>2, AtRowFacts
      <4> QED BY <2>3, <4>1, <4>2
    <3>2. PainterInv'
      BY <3>1, <2>1 DEF PainterInv
    <3>3. dirty' = dirty /\ painter[t].at # "check"
      BY <2>3 DEF ReadRow, PaintRow
    <3>4. NoLostWakeup'
      BY <2>1, <3>1, <3>2, <3>3
         DEF NoLostWakeup, ReaderWillPush, DrawQueued, rvars, Rows, Threads, PainterInv
    <3> QED BY <2>1, <3>2, <3>4
  <2> QED BY <1>8, <2>2, <2>3 DEF Draw
<1>9. CASE Boot
  <2>1. PainterInv'
    BY <1>9 DEF Boot, PainterInv
  <2>2. CASE visible
    <3>1. QueueInv' /\ DrawQueued'
      BY <1>9, <2>2, PushedDrawIsQueued DEF Boot, DrawEvents
    <3> QED BY <2>1, <3>1 DEF NoLostWakeup
  <2>3. CASE ~visible
    <3>1. QueueInv' /\ ~booted'
      BY <1>9, <2>3 DEF Boot, QueueInv, DrawQueued
    <3> QED BY <2>1, <3>1 DEF NoLostWakeup
  <2> QED BY <2>2, <2>3
<1>10. CASE TakeEvent
  <2>1. /\ queue # <<>> /\ queue' = Tail(queue)
        /\ UNCHANGED <<rvars, dirty, booted>> /\ ~Drawing("main")
    BY <1>10 DEF TakeEvent, dvars
  <2>2. /\ queue' \in Seq(Events) /\ Len(queue) \in Nat \ {0}
        /\ Len(queue') = Len(queue) - 1 /\ DOMAIN queue = 1..Len(queue)
        /\ DOMAIN queue' = 1..(Len(queue) - 1)
        /\ \A n \in 1..(Len(queue) - 1) : queue'[n] = queue[n + 1]
    BY <2>1 DEF QueueInv
  <2>3. QueueInv'
    BY <2>2 DEF QueueInv
  <2>4. CASE Head(queue) \in DrawEvents
    <3>1. painter' = [painter EXCEPT !["main"] = AtRow(0)]
      BY <1>10, <2>4 DEF TakeEvent
    <3>0. /\ AtRow(0) = [y |-> AtRow(0).y, at |-> AtRow(0).at, buf |-> AtRow(0).buf]
          /\ AtRow(0).y = 0 /\ AtRow(0).at = "check"
      BY AtRowFacts
    <3> DEFINE p == AtRow(0)  t == "main"
    <3>2. t \in Threads /\ painter' = [painter EXCEPT ![t] = p]
      BY <3>1 DEF Threads
    <3> HIDE DEF p, t
    <3>3. PainterInv' /\ painter'[t] = p
      BY <3>0, <3>2 DEF PainterInv, p
    <3>4. painter'["main"].y = 0 /\ painter'["main"].at = "check"
      BY <3>0, <3>3 DEF p, t
    <3>5. NoLostWakeup'
      BY <3>4 DEF NoLostWakeup, Rows
    <3> QED BY <2>3, <3>3, <3>5
  <2>5. CASE Head(queue) \notin DrawEvents
    <3>1. painter' = painter
      BY <1>10, <2>5 DEF TakeEvent
    <3>2. DrawQueued => DrawQueued'
      <4> SUFFICES ASSUME NEW n \in DOMAIN queue, queue[n] \in DrawEvents
                   PROVE  DrawQueued'
        BY DEF DrawQueued
      <4>1. n # 1
        BY <2>5, <2>1
      <4>2. n - 1 \in DOMAIN queue' /\ queue'[n - 1] = queue[n]
        BY <4>1, <2>2
      <4> QED BY <4>2 DEF DrawQueued
    <3>3. PainterInv'
      BY <3>1 DEF PainterInv
    <3>4. NoLostWakeup'
      BY <2>1, <3>1, <3>2 DEF NoLostWakeup, ReaderWillPush, rvars
    <3> QED BY <2>3, <3>3, <3>4
  <2> QED BY <2>4, <2>5
<1>11. CASE UNCHANGED vars
  BY <1>11 DEF vars, PainterInv, QueueInv, NoLostWakeup, DrawQueued, ReaderWillPush
<1> QED
  BY <1>1, <1>2, <1>3, <1>4, <1>5, <1>6, <1>7, <1>8, <1>9, <1>10, <1>11
     DEF Next, Reader, Main, Threads

(* "Both asleep with a row unpainted" is unreachable: every dirty row has  *)
(* somebody left to repaint it.                                            *)
THEOREM WakeupNeverLost == Spec => []NoLostWakeup
<1>1. Spec => []WakeupInv
  BY InitWakeup, NextWakeup, PTL DEF Spec
<1>2. WakeupInv => NoLostWakeup
  BY DEF WakeupInv
<1> QED BY <1>1, <1>2, PTL

-----------------------------------------------------------------------------
(* The steps of a function, and the sequences of them.                     *)

Flags == {Flag(y) : y \in Rows}
Stores == {Store(l) : l \in [Rows -> Texts]}
Others == {[do |-> "reverse"], [do |-> "draw"]}
Steps == Flags \cup Stores \cup Others

(* A flag is a flag.                                                       *)
LEMMA FlagFacts == ASSUME NEW y \in Rows PROVE Flag(y) \in Flags /\ Flag(y).do = "flag" /\ Flag(y).y = y
BY DEF Flags, Flag

(* A store is a store.                                                     *)
LEMMA StoreFacts == ASSUME NEW l \in [Rows -> Texts] PROVE Store(l) \in Stores /\ Store(l).do = "store" /\ Store(l).l = l
BY DEF Stores, Store

(* The two kinds of steps are told apart.                                  *)
LEMMA StepFacts ==
  ASSUME NEW s \in Steps
  PROVE  /\ s.do \in {"flag", "store", "reverse", "draw"}
         /\ s.do = "flag" => s \in Flags /\ s.y \in Rows
         /\ s.do = "store" => s \in Stores /\ s.l \in [Rows -> Texts]
BY DEF Steps, Flags, Stores, Others, Flag, Store

(* A function on 1..n is a sequence.                                       *)
LEMMA AsSeq ==
  ASSUME NEW S, NEW n \in Nat, NEW f \in [1..n -> S]
  PROVE  f \in Seq(S) /\ Len(f) = n
<1>1. f \in Seq(S)
  BY SeqDef
<1>2. DOMAIN f = 1..n /\ DOMAIN f = 1..Len(f) /\ Len(f) \in Nat
  BY <1>1, LenProperties
<1> QED
  BY <1>1, <1>2

(* Flagging all rows is a sequence of flags.                               *)
LEMMA FlagAllFacts ==
  /\ FlagAll \in Seq(Flags) /\ Len(FlagAll) = NRows
  /\ \A n \in 1..NRows : FlagAll[n] = Flag(n - 1)
<1> USE SyncAssumption
<1>1. \A n \in 1..NRows : n - 1 \in Rows /\ Flag(n - 1) \in Flags
  BY FlagFacts DEF Rows
<1>2. FlagAll \in [1..NRows -> Flags] /\ \A n \in 1..NRows : FlagAll[n] = Flag(n - 1)
  BY <1>1 DEF FlagAll
<1>3. NRows \in Nat
  OBVIOUS
<1> QED
  BY <1>2, <1>3, AsSeq

(* Scrolling: the first line is cleared, then swapped down.                *)
LEMMA ScrollFacts ==
  ASSUME line \in [Rows -> Texts]
  PROVE  /\ ScrollSteps \in Seq(Flags \cup Stores) /\ Len(ScrollSteps) = 4 * NRows - 2
         /\ ScrollSteps[1] = Flag(0) /\ ScrollSteps[2] = Store(Lifted(0))
         /\ \A k \in 1..(NRows - 1) :
              /\ ScrollSteps[4 * k - 1] = Store(HalfSwapped(k)) /\ ScrollSteps[4 * k] = Store(Lifted(k))
              /\ ScrollSteps[4 * k + 1] = Flag(k - 1) /\ ScrollSteps[4 * k + 2] = Flag(k)
<1> USE SyncAssumption
<1> DEFINE S == Flags \cup Stores
           N == 4 * (NRows - 1)
           a == <<Flag(0), Store(Lifted(0))>>
           b == [i \in 1..N |-> Swap((i + 3) \div 4)[((i - 1) % 4) + 1]]
<1>1. \A k \in Rows : Lifted(k) \in [Rows -> Texts] /\ HalfSwapped(k) \in [Rows -> Texts]
  BY DEF Lifted, HalfSwapped, Rows
<1>2. ASSUME NEW k \in 1..(NRows - 1)
      PROVE  /\ Swap(k)[1] = Store(HalfSwapped(k)) /\ Swap(k)[2] = Store(Lifted(k))
             /\ Swap(k)[3] = Flag(k - 1) /\ Swap(k)[4] = Flag(k)
             /\ Swap(k)[1] \in S /\ Swap(k)[2] \in S /\ Swap(k)[3] \in S /\ Swap(k)[4] \in S
  <2>1. k \in Rows /\ k - 1 \in Rows
    BY DEF Rows
  <2>2. Store(HalfSwapped(k)) \in S /\ Store(Lifted(k)) \in S
    BY <2>1, <1>1, StoreFacts
  <2>3. Flag(k - 1) \in S /\ Flag(k) \in S
    BY <2>1, FlagFacts
  <2> QED
    BY <2>2, <2>3 DEF Swap
<1>3. ASSUME NEW i \in 1..N
      PROVE  (i + 3) \div 4 \in 1..(NRows - 1) /\ ((i - 1) % 4) + 1 \in {1, 2, 3, 4}
  <2>1. (i + 3) \div 4 \in 1..(NRows - 1)
    OBVIOUS
  <2>2. ((i - 1) % 4) + 1 \in {1, 2, 3, 4}
    OBVIOUS
  <2> QED
    BY <2>1, <2>2
<1>4. N \in Nat /\ b \in [1..N -> S]
  BY <1>2, <1>3
<1>5. b \in Seq(S) /\ Len(b) = N
  BY <1>4, AsSeq
<1>6. ASSUME NEW k \in 1..(NRows - 1)
      PROVE  /\ b[4 * k - 3] = Swap(k)[1] /\ b[4 * k - 2] = Swap(k)[2]
             /\ b[4 * k - 1] = Swap(k)[3] /\ b[4 * k] = Swap(k)[4]
  <2>1. /\ 4 * k - 3 \in 1..N /\ ((4 * k - 3) + 3) \div 4 = k /\ (((4 * k - 3) - 1) % 4) + 1 = 1
    OBVIOUS
  <2>2. /\ 4 * k - 2 \in 1..N /\ ((4 * k - 2) + 3) \div 4 = k /\ (((4 * k - 2) - 1) % 4) + 1 = 2
    OBVIOUS
  <2>3. /\ 4 * k - 1 \in 1..N /\ ((4 * k - 1) + 3) \div 4 = k /\ (((4 * k - 1) - 1) % 4) + 1 = 3
    OBVIOUS
  <2>4. /\ 4 * k \in 1..N /\ ((4 * k) + 3) \div 4 = k /\ (((4 * k) - 1) % 4) + 1 = 4
    OBVIOUS
  <2> QED
    BY <2>1, <2>2, <2>3, <2>4
<1>7. a \in Seq(S) /\ Len(a) = 2 /\ a[1] = Flag(0) /\ a[2] = Store(Lifted(0))
  <2>1. 0 \in Rows
    BY DEF Rows
  <2>2. Flag(0) \in S /\ Store(Lifted(0)) \in S
    BY <2>1, <1>1, FlagFacts, StoreFacts
  <2> QED
    BY <2>2
<1>8. ScrollSteps = a \o b
  BY DEF ScrollSteps
<1> HIDE DEF a, b, S
<1>9. /\ ScrollSteps \in Seq(S) /\ Len(ScrollSteps) = 2 + N
      /\ ScrollSteps[1] = a[1] /\ ScrollSteps[2] = a[2]
      /\ \A i \in 1..N : ScrollSteps[i + 2] = b[i]
  <2>1. /\ a \o b \in Seq(S) /\ Len(a \o b) = Len(a) + Len(b)
        /\ \A i \in 1..(Len(a) + Len(b)) : (a \o b)[i] = IF i <= Len(a) THEN a[i] ELSE b[i - Len(a)]
    BY <1>5, <1>7, ConcatProperties
  <2>2. N \in Nat /\ Len(a) = 2 /\ Len(b) = N
    BY <1>4, <1>5, <1>7
  <2> HIDE DEF N
  <2>3. \A i \in 1..N : i + 2 \in 1..(Len(a) + Len(b)) /\ ~(i + 2 <= Len(a)) /\ (i + 2) - Len(a) = i
    BY <2>2
  <2>4. \A i \in 1..N : (a \o b)[i + 2] = b[i]
    BY <2>1, <2>3
  <2>5. (a \o b)[1] = a[1] /\ (a \o b)[2] = a[2]
    BY <2>1, <2>2
  <2> QED
    BY <2>1, <2>2, <2>4, <2>5, <1>8
<1>10. ASSUME NEW k \in 1..(NRows - 1)
       PROVE  /\ ScrollSteps[4 * k - 1] = Store(HalfSwapped(k)) /\ ScrollSteps[4 * k] = Store(Lifted(k))
              /\ ScrollSteps[4 * k + 1] = Flag(k - 1) /\ ScrollSteps[4 * k + 2] = Flag(k)
  <2>1. /\ 4 * k - 3 \in 1..N /\ 4 * k - 2 \in 1..N /\ 4 * k - 1 \in 1..N /\ 4 * k \in 1..N
        /\ (4 * k - 3) + 2 = 4 * k - 1 /\ (4 * k - 2) + 2 = 4 * k /\ (4 * k - 1) + 2 = 4 * k + 1
    OBVIOUS
  <2>2. /\ ScrollSteps[4 * k - 1] = b[4 * k - 3] /\ ScrollSteps[4 * k] = b[4 * k - 2]
        /\ ScrollSteps[4 * k + 1] = b[4 * k - 1] /\ ScrollSteps[4 * k + 2] = b[4 * k]
    BY <2>1, <1>9
  <2>3. /\ b[4 * k - 3] = Store(HalfSwapped(k)) /\ b[4 * k - 2] = Store(Lifted(k))
        /\ b[4 * k - 1] = Flag(k - 1) /\ b[4 * k] = Flag(k)
    BY <1>2, <1>6
  <2> QED
    BY <2>2, <2>3
<1> QED
  BY <1>7, <1>9, <1>10 DEF S

(* What tputc executes is a sequence of steps.                             *)
LEMMA ProgramsTyped == line \in [Rows -> Texts] => Programs \subseteq Seq(Steps)
<1> SUFFICES ASSUME line \in [Rows -> Texts], NEW p \in Programs PROVE p \in Seq(Steps)
  OBVIOUS
<1> USE SyncAssumption
<1>0. FlagAll \in Seq(Steps)
  BY FlagAllFacts, SeqMonotonic DEF Steps
<1>1. ASSUME NEW y \in Rows, NEW v \in Texts PROVE TextSteps(y, v) \in Seq(Steps)
  <2>1. [line EXCEPT ![y] = v] \in [Rows -> Texts]
    OBVIOUS
  <2>2. Flag(y) \in Steps /\ Store([line EXCEPT ![y] = v]) \in Steps
    BY <2>1, FlagFacts, StoreFacts DEF Steps
  <2> QED
    BY <2>2 DEF TextSteps
<1>2. ScrollSteps \in Seq(Steps)
  <2>1. Flags \cup Stores \subseteq Steps
    BY DEF Steps
  <2> QED
    BY <2>1, ScrollFacts, SeqMonotonic
<1>3. ASSUME NEW l \in [Rows -> Texts] PROVE SwitchSteps(l) \in Seq(Steps)
  <2>1. Store(l) \in Steps
    BY StoreFacts DEF Steps
  <2>2. <<Store(l)>> \in Seq(Steps)
    BY <2>1
  <2> QED
    BY <1>0, <2>2 DEF SwitchSteps
<1>4. ReverseSteps \in Seq(Steps)
  <2>1. <<[do |-> "reverse"]>> \in Seq(Steps) /\ <<[do |-> "draw"]>> \in Seq(Steps)
    BY DEF Steps, Others
  <2> QED
    BY <1>0, <2>1, ConcatProperties DEF ReverseSteps
<1> QED
  BY <1>1, <1>2, <1>3, <1>4 DEF Programs

-----------------------------------------------------------------------------
(* Type correctness.                                                       *)

(* SyncTypeOK does not say what is left of a function, nor that reading    *)
(* stops short of ReadCap; both are needed to keep it.                     *)
TypeInv == SyncTypeOK /\ todo \in Seq(Steps) /\ (rpc = "read" => reads < ReadCap)

(* A thread that has come to row y is a painter.                           *)
LEMMA AtRowTyped == ASSUME NEW y \in 0..NRows PROVE AtRow(y) \in Painters
BY SyncAssumption DEF AtRow, Painters, Looks

(* Types at the start.                                                     *)
LEMMA InitTyped == Init => TypeInv
<1> SUFFICES ASSUME Init PROVE TypeInv
  OBVIOUS
<1> USE SyncAssumption
<1>1. Idle \in Painters
  BY AtRowTyped DEF Idle
<1>2. queue \in Seq(Events) /\ Len(queue) <= QueueMax /\ todo \in Seq(Steps)
  BY DEF Init
<1>3. line \in [Rows -> Texts] /\ dirty \subseteq Rows /\ painter \in [Threads -> Painters]
  BY <1>1 DEF Init
<1>4. win \in [Rows -> Looks]
  BY DEF Init, Looks
<1>5. unread \in 0..PtyMax /\ buffered \in 0..PtyMax /\ rpc = "select" /\ reads \in 0..ReadCap
  BY DEF Init
<1>6. armed \in BOOLEAN /\ reverse \in BOOLEAN /\ visible \in BOOLEAN /\ booted \in BOOLEAN
  BY Zenon DEF Init
<1> QED
  BY <1>2, <1>3, <1>4, <1>5, <1>6 DEF TypeInv, SyncTypeOK

(* SDL_PushEvent keeps the queue a sequence of events.                     *)
LEMMA PushTyped ==
  ASSUME queue \in Seq(Events), Len(queue) <= QueueMax, NEW e \in Events, Push(e)
  PROVE  queue' \in Seq(Events) /\ Len(queue') <= QueueMax
BY SyncAssumption DEF Push

(* Types are kept.                                                         *)
LEMMA NextTyped == TypeInv /\ [Next]_vars => TypeInv'
<1> SUFFICES ASSUME TypeInv, [Next]_vars PROVE TypeInv'
  OBVIOUS
<1> USE SyncAssumption DEF TypeInv
<1>1. CASE ShellWrites
  BY <1>1 DEF ShellWrites, SyncTypeOK, lvars, dvars
<1>2. ASSUME NEW e \in Events, Input(e) PROVE TypeInv'
  <2>1. queue' \in Seq(Events) /\ Len(queue') <= QueueMax
    BY <1>2, PushTyped DEF Input, SyncTypeOK
  <2> QED
    BY <1>2, <2>1 DEF Input, SyncTypeOK, rvars, lvars, dvars
<1>3. CASE Select
  <2>1. reads' = reads /\ reads \in Int
    BY <1>3 DEF Select, SyncTypeOK
  <2>2. rpc' \in {"read", "push"} /\ buffered' \in 0..PtyMax /\ unread' \in 0..PtyMax
    BY <1>3 DEF Select, SyncTypeOK
  <2>3. rpc' = "read" => reads' < ReadCap
    BY <1>3 DEF Select
  <2> QED
    BY <1>3, <2>1, <2>2, <2>3 DEF Select, SyncTypeOK, lvars, dvars
<1>4. CASE Execute
  <2>1. todo' \in Seq(Steps)
    BY <1>4, ProgramsTyped DEF Execute, SyncTypeOK
  <2> QED
    BY <1>4, <2>1 DEF Execute, SyncTypeOK, lvars, dvars
<1>5. CASE Step
  <2> DEFINE s == Head(todo)
  <2>1. s \in Steps /\ todo' \in Seq(Steps) /\ Do(s)
    BY <1>5, HeadTailProperties DEF Step
  <2> HIDE DEF s
  <2>2. dirty' \subseteq Rows /\ line' \in [Rows -> Texts] /\ reverse' \in BOOLEAN
    BY <2>1, StepFacts DEF Do, SyncTypeOK, lvars
  <2>3. AtRow(0) \in Painters
    BY AtRowTyped
  <2>4. painter' \in [Threads -> Painters]
    BY <2>1, <2>3 DEF Do, SyncTypeOK
  <2> QED
    BY <1>5, <2>1, <2>2, <2>4 DEF Step, SyncTypeOK, dvars
<1>6. CASE ReadDone
  <2>1. reads' \in 0..ReadCap /\ rpc' = "select" /\ armed' = TRUE
    BY <1>6 DEF ReadDone, Between, SyncTypeOK
  <2> QED
    BY <1>6, <2>1 DEF ReadDone, SyncTypeOK, lvars, dvars
<1>7. CASE PushUserEvent
  <2>1. queue' \in Seq(Events) /\ Len(queue') <= QueueMax
    BY <1>7, PushTyped DEF PushUserEvent, SyncTypeOK, Events, DrawEvents
  <2>2. reads' \in 0..ReadCap /\ rpc' = "select" /\ armed' = FALSE
    BY <1>7 DEF PushUserEvent
  <2> QED
    BY <1>7, <2>1, <2>2 DEF PushUserEvent, SyncTypeOK, lvars, dvars
<1>8. ASSUME NEW t \in Threads, Draw(t) PROVE TypeInv'
  <2> DEFINE p == painter[t]
  <2>1. p \in Painters /\ p.y \in Rows /\ p.y + 1 \in 0..NRows /\ p.buf \in Looks
    BY <1>8 DEF Draw, CheckRow, ReadRow, PaintRow, Drawing, SyncTypeOK, Painters, Rows
  <2>2. p = [y |-> p.y, at |-> p.at, buf |-> p.buf]
    BY <2>1 DEF Painters
  <2>3. AtRow(p.y + 1) \in Painters
    BY <2>1, AtRowTyped
  <2>4. /\ painter' \in [Threads -> Painters]
        /\ dirty' \subseteq Rows /\ win' \in [Rows -> Looks]
        /\ UNCHANGED <<rvars, lvars, visible, booted, queue>>
    <3>1. CASE CheckRow(t)
      <4>1. [p EXCEPT !.at = "cleared"] \in Painters
        <5>1. [p EXCEPT !.at = "cleared"] = [y |-> p.y, at |-> "cleared", buf |-> p.buf]
          BY <2>2
        <5> QED
          BY <5>1, <2>1 DEF Painters, Rows
      <4>2. painter' = [painter EXCEPT ![t] = IF p.y \in dirty THEN [p EXCEPT !.at = "cleared"] ELSE AtRow(p.y + 1)]
        BY <3>1 DEF CheckRow
      <4>3. painter' \in [Threads -> Painters]
        BY <4>1, <4>2, <2>3 DEF SyncTypeOK
      <4> QED
        BY <3>1, <4>3 DEF CheckRow, SyncTypeOK, dvars
    <3>2. CASE ReadRow(t)
      <4>1. Look(p.y) \in Looks
        BY <2>1 DEF Look, Looks, SyncTypeOK
      <4>2. [y |-> p.y, at |-> "holding", buf |-> Look(p.y)] \in Painters
        BY <4>1, <2>1 DEF Painters, Rows
      <4>3. painter' = [painter EXCEPT ![t] = [y |-> p.y, at |-> "holding", buf |-> Look(p.y)]]
        BY <3>2 DEF ReadRow
      <4>4. painter' \in [Threads -> Painters]
        BY <4>2, <4>3 DEF SyncTypeOK
      <4> QED
        BY <3>2, <4>4 DEF ReadRow, SyncTypeOK, dvars
    <3>3. CASE PaintRow(t)
      <4>1. painter' = [painter EXCEPT ![t] = AtRow(p.y + 1)] /\ win' = [win EXCEPT ![p.y] = p.buf]
        BY <3>3 DEF PaintRow
      <4>2. painter' \in [Threads -> Painters] /\ win' \in [Rows -> Looks]
        BY <4>1, <2>1, <2>3 DEF SyncTypeOK
      <4> QED
        BY <3>3, <4>2 DEF PaintRow, SyncTypeOK
    <3> QED
      BY <1>8, <3>1, <3>2, <3>3 DEF Draw
  <2> QED
    BY <2>4 DEF SyncTypeOK, rvars, lvars
<1>9. CASE Boot
  <2>1. queue' \in Seq(Events) /\ Len(queue') <= QueueMax
    BY <1>9, PushTyped DEF Boot, SyncTypeOK, Events, DrawEvents
  <2>2. visible' \in BOOLEAN /\ booted' \in BOOLEAN
    BY <1>9 DEF Boot, SyncTypeOK
  <2> QED
    BY <1>9, <2>1, <2>2 DEF Boot, SyncTypeOK, rvars, lvars
<1>10. CASE TakeEvent
  <2>1. queue' \in Seq(Events) /\ Len(queue') <= QueueMax
    BY <1>10, HeadTailProperties DEF TakeEvent, SyncTypeOK
  <2>2. AtRow(0) \in Painters
    BY AtRowTyped
  <2>3. painter' \in [Threads -> Painters]
    BY <1>10, <2>2 DEF TakeEvent, SyncTypeOK
  <2> QED
    BY <1>10, <2>1, <2>3 DEF TakeEvent, SyncTypeOK, rvars, lvars, dvars
<1>11. CASE UNCHANGED vars
  BY <1>11 DEF vars, SyncTypeOK
<1> QED
  BY <1>1, <1>2, <1>3, <1>4, <1>5, <1>6, <1>7, <1>8, <1>9, <1>10, <1>11
     DEF Next, Reader, Main, Threads

(* Types hold throughout.                                                  *)
LEMMA TypeInvAlways == Spec => []TypeInv
BY InitTyped, NextTyped, PTL DEF Spec

(* The types of the shared state: for one thing, ttythread never counts    *)
(* more reads than ReadCap, and the queue never holds more than SDL allows.*)
THEOREM SyncTypeAlwaysOK == Spec => []SyncTypeOK
<1>1. TypeInv => SyncTypeOK
  BY DEF TypeInv
<1> QED
  BY <1>1, TypeInvAlways, PTL

-----------------------------------------------------------------------------
(* No lost repaint, of the functions that flag after storing.              *)

(* A sequence of stores and flags, from lines l, settles on the lines F: a *)
(* row that is not what it is in F, now or after one of the stores, is     *)
(* stored once more with its flag raised behind the store.                 *)
FlaggedAfter(s, m, y) == \E q \in DOMAIN s : q > m /\ s[q].do = "flag" /\ s[q].y = y
StoredAfter(s, n, y) == \E m \in DOMAIN s : m > n /\ s[m].do = "store" /\ FlaggedAfter(s, m, y)
Settles(s, l, F) ==
  /\ \A y \in Rows : l[y] # F[y] => StoredAfter(s, 0, y)
  /\ \A n \in DOMAIN s : s[n].do = "store" => \A y \in Rows : s[n].l[y] # F[y] => StoredAfter(s, n, y)

(* The rest of a function, one step on.                                    *)
LEMMA TailFacts ==
  ASSUME NEW S, NEW s \in Seq(S), s # <<>>
  PROVE  /\ Len(s) \in Nat \ {0} /\ DOMAIN s = 1..Len(s) /\ Head(s) = s[1] /\ Head(s) \in S
         /\ Tail(s) \in Seq(S) /\ DOMAIN Tail(s) = 1..(Len(s) - 1)
         /\ \A n \in 1..(Len(s) - 1) : Tail(s)[n] = s[n + 1]
OBVIOUS

(* What a function does after step n, its tail does one step sooner.       *)
LEMMA AfterInTail ==
  ASSUME NEW S, NEW s \in Seq(S), s # <<>>, NEW n \in Nat, NEW y, StoredAfter(s, n, y),
         n >= 1 \/ s[1].do # "store"
  PROVE  StoredAfter(Tail(s), IF n = 0 THEN 0 ELSE n - 1, y)
<1> DEFINE t == Tail(s)
<1>1. /\ Len(s) \in Nat \ {0} /\ DOMAIN s = 1..Len(s) /\ DOMAIN t = 1..(Len(s) - 1)
      /\ \A k \in 1..(Len(s) - 1) : t[k] = s[k + 1]
  BY TailFacts
<1> HIDE DEF t
<1>2. PICK m \in DOMAIN s : m > n /\ s[m].do = "store" /\ FlaggedAfter(s, m, y)
  BY DEF StoredAfter
<1>3. PICK q \in DOMAIN s : q > m /\ s[q].do = "flag" /\ s[q].y = y
  BY <1>2 DEF FlaggedAfter
<1>4. m # 1
  BY <1>1, <1>2
<1>5. m - 1 \in DOMAIN t /\ q - 1 \in DOMAIN t /\ t[m - 1] = s[m] /\ t[q - 1] = s[q] /\ q - 1 > m - 1
  BY <1>1, <1>2, <1>3, <1>4
<1>6. FlaggedAfter(t, m - 1, y)
  BY <1>3, <1>5 DEF FlaggedAfter
<1>7. m - 1 > (IF n = 0 THEN 0 ELSE n - 1)
  BY <1>1, <1>2, <1>4
<1> QED
  BY <1>2, <1>5, <1>6, <1>7 DEF StoredAfter, t

(* A step of it: the rest settles on the same lines.                       *)
LEMMA SettlesOn ==
  ASSUME NEW S, NEW s \in Seq(S), s # <<>>, NEW l, NEW F, Settles(s, l, F), NEW k,
         \/ s[1].do = "store" /\ k = s[1].l
         \/ s[1].do # "store" /\ k = l
  PROVE  Settles(Tail(s), k, F)
<1> DEFINE t == Tail(s)
<1>1. /\ Len(s) \in Nat \ {0} /\ DOMAIN s = 1..Len(s) /\ DOMAIN t = 1..(Len(s) - 1)
      /\ \A n \in 1..(Len(s) - 1) : t[n] = s[n + 1]
  BY TailFacts
<1>2. ASSUME NEW y \in Rows, k[y] # F[y] PROVE StoredAfter(t, 0, y)
  <2>1. CASE s[1].do = "store" /\ k = s[1].l
    <3>1. StoredAfter(s, 1, y)
      BY <1>1, <1>2, <2>1 DEF Settles
    <3> QED
      BY <3>1, AfterInTail
  <2>2. CASE s[1].do # "store" /\ k = l
    <3>1. StoredAfter(s, 0, y)
      BY <1>2, <2>2 DEF Settles
    <3> QED
      BY <2>2, <3>1, AfterInTail
  <2> QED
    BY <2>1, <2>2
<1>3. ASSUME NEW n \in DOMAIN t, t[n].do = "store", NEW y \in Rows, t[n].l[y] # F[y]
      PROVE  StoredAfter(t, n, y)
  <2>1. n + 1 \in DOMAIN s /\ s[n + 1] = t[n] /\ n + 1 \in Nat /\ n + 1 >= 1 /\ n + 1 # 0 /\ (n + 1) - 1 = n
    BY <1>1
  <2>2. StoredAfter(s, n + 1, y)
    BY <1>3, <2>1 DEF Settles
  <2>3. StoredAfter(t, (n + 1) - 1, y)
    BY <2>1, <2>2, AfterInTail
  <2> QED
    BY <2>1, <2>3
<1> QED
  BY <1>2, <1>3 DEF Settles

(* A row that a store changes has a flag to come.                          *)
LEMMA ChangedIsFlagged ==
  ASSUME NEW S, NEW s \in Seq(S), s # <<>>, NEW l, NEW F, Settles(s, l, F), s[1].do = "store",
         NEW y \in Rows, s[1].l[y] # l[y]
  PROVE  \E n \in DOMAIN Tail(s) : Tail(s)[n].do = "flag" /\ Tail(s)[n].y = y
<1> DEFINE t == Tail(s)
<1>1. /\ Len(s) \in Nat \ {0} /\ DOMAIN s = 1..Len(s) /\ DOMAIN t = 1..(Len(s) - 1)
      /\ \A n \in 1..(Len(s) - 1) : t[n] = s[n + 1]
  BY TailFacts
<1>2. l[y] # F[y] \/ s[1].l[y] # F[y]
  OBVIOUS
<1>3. StoredAfter(s, 0, y) \/ StoredAfter(s, 1, y)
  BY <1>1, <1>2 DEF Settles
<1>4. PICK m \in DOMAIN s : m > 0 /\ FlaggedAfter(s, m, y)
  BY <1>1, <1>3 DEF StoredAfter
<1>5. PICK q \in DOMAIN s : q > m /\ s[q].do = "flag" /\ s[q].y = y
  BY <1>4 DEF FlaggedAfter
<1>6. q - 1 \in DOMAIN t /\ t[q - 1] = s[q]
  BY <1>1, <1>4, <1>5
<1> HIDE DEF t
<1>7. \E n \in DOMAIN t : t[n].do = "flag" /\ t[n].y = y
  BY <1>5, <1>6
<1> QED
  BY <1>7 DEF t

(* Switching the screen settles on the lines stored, scrolling on the lines*)
(* moved up by one.                                                        *)
LEMMA SwitchSettles ==
  ASSUME line \in [Rows -> Texts], NEW f \in [Rows -> Texts]
  PROVE  Settles(SwitchSteps(f), line, f) /\ \A n \in DOMAIN SwitchSteps(f) : SwitchSteps(f)[n].do \in {"flag", "store"}
<1> USE SyncAssumption
<1> DEFINE S == Flags \cup Stores
           a == <<Store(f)>>
           s == SwitchSteps(f)
<1>1. Store(f) \in S /\ Store(f).do = "store" /\ Store(f).l = f
  BY StoreFacts
<1>2. a \in Seq(S) /\ Len(a) = 1 /\ a[1] = Store(f)
  BY <1>1
<1>3. FlagAll \in Seq(S) /\ Len(FlagAll) = NRows /\ \A n \in 1..NRows : FlagAll[n] = Flag(n - 1)
  BY FlagAllFacts, SeqMonotonic
<1> HIDE DEF a, S
<1>4. /\ a \o FlagAll \in Seq(S) /\ Len(a \o FlagAll) = Len(a) + Len(FlagAll)
      /\ \A i \in 1..(Len(a) + Len(FlagAll)) : (a \o FlagAll)[i] = IF i <= Len(a) THEN a[i] ELSE FlagAll[i - Len(a)]
  BY <1>2, <1>3, ConcatProperties
<1>5. s = a \o FlagAll
  BY DEF SwitchSteps, a
<1> HIDE DEF s
<1>6. DOMAIN s = 1..(NRows + 1) /\ s[1] = Store(f)
  BY <1>2, <1>3, <1>4, <1>5, LenProperties
<1>7. ASSUME NEW y \in Rows PROVE y + 2 \in DOMAIN s /\ s[y + 2] = Flag(y) /\ Flag(y).do = "flag" /\ Flag(y).y = y
  <2>1. y + 1 \in 1..NRows /\ (y + 1) - 1 = y /\ (y + 2) - 1 = y + 1 /\ ~(y + 2 <= 1) /\ y + 2 \in 1..(1 + NRows)
    BY DEF Rows
  <2>2. FlagAll[y + 1] = Flag(y)
    BY <2>1, <1>3
  <2>3. s[y + 2] = FlagAll[y + 1]
    BY <2>1, <1>2, <1>3, <1>4, <1>5
  <2> QED
    BY <2>1, <2>2, <2>3, <1>6, FlagFacts
<1>8. ASSUME NEW n \in DOMAIN s, n # 1 PROVE s[n].do = "flag"
  <2>1. n - 2 \in Rows /\ (n - 2) + 2 = n
    BY <1>6, <1>8 DEF Rows
  <2> QED
    BY <2>1, <1>7
<1>9. ASSUME NEW y \in Rows PROVE StoredAfter(s, 0, y)
  <2>1. y + 2 > 1
    BY DEF Rows
  <2>2. FlaggedAfter(s, 1, y)
    BY <2>1, <1>7 DEF FlaggedAfter
  <2>3. 1 \in DOMAIN s /\ 1 > 0
    BY <1>6
  <2> QED
    BY <2>2, <2>3, <1>1, <1>6 DEF StoredAfter
<1>10. ASSUME NEW n \in DOMAIN s, s[n].do = "store" PROVE s[n].l = f
  BY <1>1, <1>6, <1>8, <1>10
<1>11. Settles(s, line, f)
  BY <1>9, <1>10 DEF Settles
<1>12. \A n \in DOMAIN s : s[n].do \in {"flag", "store"}
  BY <1>1, <1>6, <1>8
<1> QED
  BY <1>11, <1>12 DEF s

(* A scroll settles: after the last store to a row it flags that row.      *)
LEMMA ScrollSettles ==
  ASSUME line \in [Rows -> Texts], NRows >= 2
  PROVE  /\ Settles(ScrollSteps, line, Lifted(NRows - 1))
         /\ \A n \in DOMAIN ScrollSteps : ScrollSteps[n].do \in {"flag", "store"}
<1> USE SyncAssumption
<1> DEFINE s == ScrollSteps
           F == Lifted(NRows - 1)
           last == [y \in Rows |-> IF y < NRows - 1 THEN y + 1 ELSE y]
<1>1. /\ s \in Seq(Flags \cup Stores) /\ Len(s) = 4 * NRows - 2
      /\ s[1] = Flag(0) /\ s[2] = Store(Lifted(0))
      /\ \A k \in 1..(NRows - 1) :
           /\ s[4 * k - 1] = Store(HalfSwapped(k)) /\ s[4 * k] = Store(Lifted(k))
           /\ s[4 * k + 1] = Flag(k - 1) /\ s[4 * k + 2] = Flag(k)
  BY ScrollFacts
<1>2. DOMAIN s = 1..(4 * NRows - 2)
  BY <1>1
<1> HIDE DEF s
<1>3. ASSUME NEW k \in 1..(NRows - 1)
      PROVE  /\ s[4 * k - 1].do = "store" /\ s[4 * k - 1].l = HalfSwapped(k)
             /\ s[4 * k].do = "store" /\ s[4 * k].l = Lifted(k)
             /\ s[4 * k + 1].do = "flag" /\ s[4 * k + 1].y = k - 1
             /\ s[4 * k + 2].do = "flag" /\ s[4 * k + 2].y = k
  <2>1. /\ s[4 * k - 1] = Store(HalfSwapped(k)) /\ s[4 * k] = Store(Lifted(k))
        /\ s[4 * k + 1] = Flag(k - 1) /\ s[4 * k + 2] = Flag(k)
    BY <1>1
  <2>2. /\ Store(HalfSwapped(k)).do = "store" /\ Store(HalfSwapped(k)).l = HalfSwapped(k)
        /\ Store(Lifted(k)).do = "store" /\ Store(Lifted(k)).l = Lifted(k)
    BY DEF Store
  <2>3. /\ Flag(k - 1).do = "flag" /\ Flag(k - 1).y = k - 1 /\ Flag(k).do = "flag" /\ Flag(k).y = k
    BY DEF Flag
  <2> QED
    BY <2>1, <2>2, <2>3
<1>4. ASSUME NEW n \in DOMAIN s
      PROVE  n \in {1, 2} \/ \E k \in 1..(NRows - 1) : n \in {4 * k - 1, 4 * k, 4 * k + 1, 4 * k + 2}
  <2>1. CASE n > 2
    <3> DEFINE k == (n + 1) \div 4
    <3>1. k \in 1..(NRows - 1)
      BY <1>2, <2>1
    <3>2. n \in {4 * k - 1, 4 * k, 4 * k + 1, 4 * k + 2}
      BY <1>2, <2>1
    <3> QED
      BY <3>1, <3>2
  <2>2. CASE ~(n > 2)
    BY <1>2, <2>2
  <2> QED
    BY <2>1, <2>2
<1>5. ASSUME NEW y \in Rows, NEW n \in Int, n < 4 * last[y] PROVE StoredAfter(s, n, y)
  <2> DEFINE k == last[y]
  <2>1. k \in 1..(NRows - 1) /\ k \in Rows /\ (y = k - 1 \/ y = k) /\ k - 1 \in Rows
    BY DEF Rows
  <2>2. n < 4 * k
    BY <1>5
  <2> HIDE DEF k
  <2>3. /\ 4 * k \in DOMAIN s /\ 4 * k + 1 \in DOMAIN s /\ 4 * k + 2 \in DOMAIN s
        /\ 4 * k + 1 > 4 * k /\ 4 * k + 2 > 4 * k /\ 4 * k > n
    BY <1>2, <2>1, <2>2
  <2>4. FlaggedAfter(s, 4 * k, y)
    <3>1. CASE y = k - 1
      <4>1. s[4 * k + 1].do = "flag" /\ s[4 * k + 1].y = y
        BY <1>3, <2>1, <3>1
      <4> QED
        BY <2>3, <4>1 DEF FlaggedAfter
    <3>2. CASE y = k
      <4>1. s[4 * k + 2].do = "flag" /\ s[4 * k + 2].y = y
        BY <1>3, <2>1, <3>2
      <4> QED
        BY <2>3, <4>1 DEF FlaggedAfter
    <3> QED
      BY <2>1, <3>1, <3>2
  <2>5. s[4 * k].do = "store"
    BY <1>3, <2>1
  <2> QED
    BY <2>3, <2>4, <2>5 DEF StoredAfter
<1>6. ASSUME NEW y \in Rows PROVE last[y] \in 1..(NRows - 1) /\ 0 < 4 * last[y] /\ 2 < 4 * last[y]
  BY DEF Rows
<1>7. ASSUME NEW y \in Rows PROVE F[y] = IF y < NRows - 1 THEN line[y + 1] ELSE NoText
  BY DEF Lifted, Rows
<1>8. ASSUME NEW n \in DOMAIN s, s[n].do = "store", NEW y \in Rows, s[n].l[y] # F[y]
      PROVE  StoredAfter(s, n, y)
  <2> SUFFICES n < 4 * last[y]
    BY <1>2, <1>5
  <2>1. CASE n = 1
    BY <1>6, <2>1
  <2>2. CASE n = 2
    BY <1>6, <2>2
  <2>3. ASSUME NEW k \in 1..(NRows - 1), n = 4 * k - 1 PROVE n < 4 * last[y]
    <3>1. s[n].l[y] = IF y = k THEN line[k] ELSE Lifted(k)[y]
      <4>1. s[n].l = HalfSwapped(k)
        BY <1>3, <2>3
      <4> QED
        BY <4>1 DEF HalfSwapped
    <3>2. y < k /\ y < NRows - 1 => s[n].l[y] = F[y]
      BY <3>1, <1>7 DEF Lifted, Rows
    <3>3. ~(y < k /\ y < NRows - 1)
      BY <1>8, <3>2
    <3>4. k <= last[y]
      BY <3>3 DEF Rows
    <3> QED
      BY <2>3, <3>4, <1>6
  <2>4. ASSUME NEW k \in 1..(NRows - 1), n = 4 * k PROVE n < 4 * last[y]
    <3>1. s[n].l[y] = Lifted(k)[y]
      BY <1>3, <2>4
    <3>2. y < k /\ y < NRows - 1 => s[n].l[y] = F[y]
      BY <3>1, <1>7 DEF Lifted, Rows
    <3>3. k # NRows - 1
      BY <1>8, <3>1
    <3>4. ~(y < k) \/ y = NRows - 1
      BY <1>8, <3>2 DEF Rows
    <3>5. k < last[y]
      BY <3>3, <3>4 DEF Rows
    <3> QED
      BY <2>4, <3>5, <1>6
  <2>5. ASSUME NEW k \in 1..(NRows - 1), n \in {4 * k + 1, 4 * k + 2} PROVE FALSE
    <3>1. s[n].do = "flag"
      <4>1. s[4 * k + 1].do = "flag" /\ s[4 * k + 2].do = "flag"
        BY <1>3
      <4> QED
        BY <4>1, <2>5
    <3> QED
      BY <1>8, <3>1
  <2> QED
    BY <1>4, <2>1, <2>2, <2>3, <2>4, <2>5
<1>9. Settles(s, line, F)
  BY <1>5, <1>6, <1>8 DEF Settles
<1>10. ASSUME NEW n \in DOMAIN s PROVE s[n].do \in {"flag", "store"}
  <2>1. 0 \in Rows
    BY DEF Rows
  <2>2. CASE n \in {1, 2}
    BY <2>1, <2>2, <1>1 DEF Store, Flag
  <2>3. ASSUME NEW k \in 1..(NRows - 1), n \in {4 * k - 1, 4 * k, 4 * k + 1, 4 * k + 2} PROVE s[n].do \in {"flag", "store"}
    <3>1. /\ s[4 * k - 1].do = "store" /\ s[4 * k].do = "store"
          /\ s[4 * k + 1].do = "flag" /\ s[4 * k + 2].do = "flag"
      BY <1>3
    <3> QED
      BY <3>1, <2>3
  <2> QED
    BY <1>4, <2>2, <2>3
<1> QED
  BY <1>9, <1>10 DEF s

(* NothingLost is kept because the function being executed settles, because*)
(* only the main thread paints, and because what it holds is out of date   *)
(* only in rows that will be painted again.                                *)
StaleHeld ==
  painter["main"].at = "holding" =>
    \A y \in Rows : painter["main"].y = y /\ painter["main"].buf # Look(y) => y \in dirty \/ WillFlag(y)

RepaintInv ==
  FlagsLast =>
    /\ painter["reader"].y = NRows
    /\ \E F : Settles(todo, line, F)
    /\ \A n \in DOMAIN todo : todo[n].do \in {"flag", "store"}
    /\ StaleHeld
    /\ NothingLost

(* At the start the screen is blank and so is the window.                  *)
LEMMA InitRepaint == Init => RepaintInv
<1> SUFFICES ASSUME Init, FlagsLast PROVE RepaintInv
  BY DEF RepaintInv
<1>1. painter["reader"].y = NRows /\ painter["main"].at = "check"
  BY DEF Init, Threads, Idle, AtRow
<1>2. todo = <<>>
  BY DEF Init
<1>3. Settles(todo, line, line)
  BY <1>2 DEF Settles
<1>4. NothingLost
  BY DEF Init, NothingLost, Look
<1> QED
  BY <1>1, <1>2, <1>3, <1>4 DEF RepaintInv, StaleHeld

(* A step that leaves rows, flags, window and painters alone.              *)
LEMMA RepaintStays ==
  ASSUME RepaintInv, UNCHANGED <<app, todo, line, reverse, dirty, win, painter>>
  PROVE  RepaintInv'
<1> SUFFICES ASSUME FlagsLast' PROVE RepaintInv'
  BY DEF RepaintInv
<1>1. FlagsLast
  BY DEF FlagsLast
<1>2. \E F : Settles(todo', line', F)
  <2>1. PICK F : Settles(todo, line, F)
    BY <1>1 DEF RepaintInv
  <2> QED
    BY <2>1
<1>3. StaleHeld'
  BY <1>1 DEF RepaintInv, StaleHeld, WillFlag, Look
<1>4. NothingLost'
  BY <1>1 DEF RepaintInv, NothingLost, WillFlag, Repainting, Look
<1> QED
  BY <1>1, <1>2, <1>3, <1>4 DEF RepaintInv

(* A function that starts settles.                                         *)
LEMMA ExecuteRepaints == ASSUME TypeInv, RepaintInv, FlagsLast, Execute PROVE RepaintInv'
<1> USE SyncAssumption
<1>1. todo = <<>> /\ todo' \in Programs /\ UNCHANGED <<app, line, reverse, dirty, win, painter>>
  BY DEF Execute, Between, lvars, dvars
<1>2. line \in [Rows -> Texts]
  BY DEF TypeInv, SyncTypeOK
<1>3. (\E F : Settles(todo', line, F)) /\ \A n \in DOMAIN todo' : todo'[n].do \in {"flag", "store"}
  <2>1. "text" \notin app /\ "reverse" \notin app /\ ("scroll" \in app => NRows >= 2)
    BY DEF FlagsLast
  <2>2. (todo' = ScrollSteps /\ NRows >= 2) \/ \E f \in [Rows -> Texts] : todo' = SwitchSteps(f)
    BY <1>1, <2>1 DEF Programs
  <2> DEFINE t == todo'
  <2>3. CASE t = ScrollSteps /\ NRows >= 2
    BY <1>2, <2>3, ScrollSettles
  <2>4. ASSUME NEW f \in [Rows -> Texts], t = SwitchSteps(f)
        PROVE  (\E F : Settles(t, line, F)) /\ \A n \in DOMAIN t : t[n].do \in {"flag", "store"}
    BY <1>2, <2>4, SwitchSettles
  <2> QED
    BY <2>2, <2>3, <2>4
<1>4. \A y \in Rows : ~WillFlag(y)
  BY <1>1 DEF WillFlag
<1>5. StaleHeld' /\ NothingLost'
  BY <1>1, <1>4 DEF RepaintInv, StaleHeld, NothingLost, Repainting, Look, FlagsLast
<1> QED
  BY <1>1, <1>3, <1>5 DEF RepaintInv

(* A step inside a function: what it stores is flagged later on.           *)
LEMMA StepRepaints == ASSUME TypeInv, RepaintInv, FlagsLast, Step PROVE RepaintInv'
<1> DEFINE s == todo[1]
<1>1. /\ todo \in Seq(Steps) /\ todo # <<>> /\ todo' = Tail(todo) /\ Head(todo) = s /\ Do(s) /\ s \in Steps
      /\ UNCHANGED <<app, win>>
  BY TailFacts DEF Step, TypeInv, dvars
<1>2. /\ Len(todo) \in Nat \ {0} /\ DOMAIN todo = 1..Len(todo) /\ DOMAIN todo' = 1..(Len(todo) - 1)
      /\ \A n \in 1..(Len(todo) - 1) : todo'[n] = todo[n + 1]
  BY <1>1, TailFacts
<1>3. s.do \in {"flag", "store"} /\ \A n \in DOMAIN todo' : todo'[n].do \in {"flag", "store"}
  BY <1>2 DEF RepaintInv
<1>4. PICK F : Settles(todo, line, F)
  BY DEF RepaintInv
<1>5. painter["reader"].y = NRows /\ StaleHeld /\ NothingLost
  BY DEF RepaintInv
<1> HIDE DEF s
<1>6. ASSUME NEW y \in Rows, WillFlag(y), ~(s.do = "flag" /\ s.y = y) PROVE WillFlag(y)'
  <2>1. PICK n \in DOMAIN todo : todo[n].do = "flag" /\ todo[n].y = y
    BY <1>6 DEF WillFlag
  <2>2. n # 1
    BY <1>6, <2>1 DEF s
  <2>3. n - 1 \in DOMAIN todo' /\ todo'[n - 1] = todo[n]
    BY <1>2, <2>2
  <2> QED
    BY <2>1, <2>3 DEF WillFlag
<1>7. CASE s.do = "flag"
  <2>1. dirty' = dirty \cup {s.y} /\ UNCHANGED <<line, reverse, painter>>
    BY <1>1, <1>7 DEF Do, lvars
  <2>2. Settles(todo', line', F)
    <3>1. todo[1].do # "store"
      BY <1>7 DEF s
    <3>2. Settles(Tail(todo), line, F)
      BY <1>1, <1>4, <3>1, SettlesOn
    <3> QED
      BY <1>1, <2>1, <3>2
  <2>3. \A y \in Rows : y \in dirty \/ WillFlag(y) => y \in dirty' \/ WillFlag(y)'
    BY <1>6, <2>1
  <2>4. StaleHeld'
    BY <1>5, <2>1, <2>3 DEF StaleHeld, Look
  <2>5. NothingLost'
    <3> SUFFICES ASSUME NEW y \in Rows, (win[y] # Look(y))'
                 PROVE  (y \in dirty \/ WillFlag(y) \/ Repainting(y))'
      BY DEF NothingLost
    <3>1. win[y] # Look(y)
      BY <1>1, <2>1 DEF Look
    <3>2. y \in dirty \/ WillFlag(y) \/ Repainting(y)
      BY <1>5, <3>1 DEF NothingLost
    <3>3. Repainting(y) => Repainting(y)'
      BY <2>1 DEF Repainting, Look
    <3> QED
      BY <2>3, <3>2, <3>3
  <2> QED
    BY <1>3, <1>5, <2>1, <2>2, <2>4, <2>5 DEF RepaintInv
<1>8. CASE s.do = "store"
  <2>1. line' = s.l /\ UNCHANGED <<dirty, reverse, painter>>
    BY <1>1, <1>8 DEF Do
  <2>2. todo[1].do = "store" /\ line' = todo[1].l
    BY <1>8, <2>1 DEF s
  <2>3. Settles(todo', line', F)
    <3> DEFINE k == line'
    <3>1. k = todo[1].l
      BY <2>2
    <3> HIDE DEF k
    <3>2. Settles(Tail(todo), k, F)
      BY <1>1, <1>4, <2>2, <3>1, SettlesOn
    <3> QED
      BY <1>1, <3>2 DEF k
  <2>4. ASSUME NEW y \in Rows, line'[y] # line[y] PROVE WillFlag(y)'
    <3>1. todo[1].l[y] # line[y]
      BY <2>2, <2>4
    <3>2. \E n \in DOMAIN Tail(todo) : Tail(todo)[n].do = "flag" /\ Tail(todo)[n].y = y
      BY <1>1, <1>4, <2>2, <3>1, ChangedIsFlagged
    <3> QED
      BY <1>1, <3>2 DEF WillFlag
  <2>5. \A y \in Rows : WillFlag(y) => WillFlag(y)'
    BY <1>6, <1>8
  <2>6. ASSUME NEW y \in Rows, ~WillFlag(y)' PROVE Look(y)' = Look(y)
    BY <2>1, <2>4, <2>6 DEF Look
  <2>7. StaleHeld'
    BY <1>5, <2>1, <2>5, <2>6 DEF StaleHeld
  <2>8. NothingLost'
    <3> SUFFICES ASSUME NEW y \in Rows, (win[y] # Look(y))', ~WillFlag(y)'
                 PROVE  (y \in dirty \/ Repainting(y))'
      BY DEF NothingLost
    <3>1. Look(y)' = Look(y) /\ win[y] # Look(y) /\ ~WillFlag(y)
      BY <1>1, <2>5, <2>6
    <3>2. y \in dirty \/ Repainting(y)
      BY <1>5, <3>1 DEF NothingLost
    <3>3. Repainting(y) => Repainting(y)'
      BY <2>1, <3>1 DEF Repainting
    <3> QED
      BY <2>1, <3>2, <3>3
  <2> QED
    BY <1>3, <1>5, <2>1, <2>3, <2>7, <2>8 DEF RepaintInv
<1> QED
  BY <1>3, <1>7, <1>8

(* The type the wakeup argument reads of the painters.                     *)
LEMMA PaintersTyped == TypeInv => PainterInv
BY DEF TypeInv, SyncTypeOK, PainterInv, Painters

(* The main thread comes past a row, or starts anew.                       *)
LEMMA DrawRepaints == ASSUME TypeInv, RepaintInv, FlagsLast, NEW t \in Threads, Draw(t) PROVE RepaintInv'
<1> USE SyncAssumption
<1> DEFINE p == painter["main"]
           y0 == p.y
<1>1. painter["reader"].y = NRows /\ StaleHeld /\ NothingLost
  BY DEF RepaintInv
<1>2. t = "main" /\ y0 \in Rows
  <2>1. Drawing(t) /\ painter[t].y \in Nat
    BY PaintersTyped DEF Draw, CheckRow, ReadRow, PaintRow, PainterInv
  <2> QED
    BY <1>1, <2>1 DEF Drawing, Threads, Rows
<1>3. UNCHANGED <<app, todo, line, reverse>>
  BY DEF Draw, CheckRow, ReadRow, PaintRow, rvars, lvars
<1>4. /\ \A y \in Rows : WillFlag(y)' = WillFlag(y)
      /\ \A y \in Rows : Look(y)' = Look(y)
  BY <1>3 DEF WillFlag, Look
<1>5. (\E F : Settles(todo', line', F)) /\ \A n \in DOMAIN todo' : todo'[n].do \in {"flag", "store"}
  BY <1>3 DEF RepaintInv
<1>6. /\ "main" \in Threads /\ "reader" \in Threads /\ painter \in [Threads -> Painters]
      /\ \A u \in Threads : u = "main" \/ u = "reader"
      /\ y0 + 1 \in Nat /\ y0 \in Nat
  BY <1>2 DEF Threads, TypeInv, SyncTypeOK, Rows
<1>7. \A y \in Rows : Repainting(y) <=> y = y0 /\ (p.at = "cleared" \/ (p.at = "holding" /\ p.buf = Look(y)))
  BY <1>1, <1>6 DEF Repainting, Rows
<1>8. SUFFICES StaleHeld' /\ NothingLost' /\ painter'["reader"].y = NRows
  BY <1>5 DEF RepaintInv
<1>9. CASE CheckRow("main")
  <2>1. /\ p.at = "check" /\ dirty' = dirty \ {y0} /\ win' = win
        /\ painter' = [painter EXCEPT !["main"] = IF y0 \in dirty THEN [p EXCEPT !.at = "cleared"] ELSE AtRow(y0 + 1)]
    BY <1>9 DEF CheckRow, dvars
  <2>2. painter'["reader"] = painter["reader"]
    BY <2>1, <1>6
  <2>3. CASE y0 \in dirty
    <3>1. painter'["main"].y = y0 /\ painter'["main"].at = "cleared"
      <4>1. painter'["main"] = [p EXCEPT !.at = "cleared"]
        BY <2>1, <2>3, <1>6
      <4>2. p = [y |-> p.y, at |-> p.at, buf |-> p.buf]
        BY PaintersTyped DEF PainterInv, Threads
      <4> HIDE DEF p
      <4>3. [p EXCEPT !.at = "cleared"] = [y |-> p.y, at |-> "cleared", buf |-> p.buf]
        BY <4>2
      <4> QED
        BY <4>1, <4>3
    <3>2. Repainting(y0)'
      BY <3>1, <1>6 DEF Repainting
    <3>3. NothingLost'
      BY <1>1, <1>4, <1>7, <2>1, <3>2 DEF NothingLost
    <3> QED
      BY <1>1, <2>2, <3>1, <3>3 DEF StaleHeld
  <2>4. CASE y0 \notin dirty
    <3>1. painter'["main"].at = "check"
      <4>1. painter'["main"] = AtRow(y0 + 1)
        BY <2>1, <2>4, <1>6
      <4> QED
        BY <4>1, <1>6, AtRowFacts
    <3>2. dirty' = dirty
      BY <2>1, <2>4
    <3>3. NothingLost'
      BY <1>1, <1>4, <1>7, <2>1, <3>2 DEF NothingLost
    <3> QED
      BY <1>1, <2>2, <3>1, <3>3 DEF StaleHeld
  <2> QED
    BY <2>3, <2>4
<1>10. CASE ReadRow("main")
  <2>1. /\ p.at = "cleared" /\ dirty' = dirty /\ win' = win
        /\ painter' = [painter EXCEPT !["main"] = [y |-> y0, at |-> "holding", buf |-> Look(y0)]]
    BY <1>10 DEF ReadRow, dvars
  <2>2. painter'["reader"] = painter["reader"] /\ painter'["main"] = [y |-> y0, at |-> "holding", buf |-> Look(y0)]
    BY <2>1, <1>6
  <2>3. painter'["main"].y = y0 /\ painter'["main"].at = "holding" /\ painter'["main"].buf = Look(y0)
    BY <2>2
  <2>4. Repainting(y0)'
    BY <1>2, <1>4, <1>6, <2>3 DEF Repainting
  <2>5. NothingLost'
    BY <1>1, <1>4, <1>7, <2>1, <2>4 DEF NothingLost
  <2>6. StaleHeld'
    BY <1>2, <1>4, <2>3 DEF StaleHeld
  <2> QED
    BY <1>1, <2>2, <2>5, <2>6
<1>11. CASE PaintRow("main")
  <2>1. /\ p.at = "holding" /\ dirty' = dirty /\ win' = [win EXCEPT ![y0] = p.buf]
        /\ painter' = [painter EXCEPT !["main"] = AtRow(y0 + 1)]
    BY <1>11 DEF PaintRow
  <2>2. painter'["reader"] = painter["reader"] /\ painter'["main"].at = "check"
    <3>1. painter'["reader"] = painter["reader"] /\ painter'["main"] = AtRow(y0 + 1)
      BY <2>1, <1>6
    <3> QED
      BY <3>1, <1>6, AtRowFacts
  <2>3. win \in [Rows -> Looks]
    BY DEF TypeInv, SyncTypeOK
  <2>4. NothingLost'
    <3> SUFFICES ASSUME NEW y \in Rows, win'[y] # Look(y)' PROVE y \in dirty \/ WillFlag(y)
      BY <1>4, <2>1 DEF NothingLost
    <3>1. CASE y = y0
      <4>1. p.buf # Look(y)
        BY <1>4, <2>1, <2>3, <3>1
      <4> QED
        BY <1>1, <2>1, <3>1, <4>1 DEF StaleHeld
    <3>2. CASE y # y0
      <4>1. win[y] # Look(y)
        BY <1>4, <2>1, <2>3, <3>2
      <4>2. ~Repainting(y)
        BY <1>7, <3>2
      <4> QED
        BY <1>1, <4>1, <4>2 DEF NothingLost
    <3> QED
      BY <3>1, <3>2
  <2>5. StaleHeld'
    BY <2>2 DEF StaleHeld
  <2> QED
    BY <1>1, <2>2, <2>4, <2>5
<1> QED
  BY <1>2, <1>9, <1>10, <1>11 DEF Draw

(* No step of either thread loses a repaint.                               *)
LEMMA NextRepaint == TypeInv /\ RepaintInv /\ [Next]_vars => RepaintInv'
<1> SUFFICES ASSUME TypeInv, RepaintInv, [Next]_vars, FlagsLast' PROVE RepaintInv'
  BY DEF RepaintInv
<1> USE SyncAssumption
<1>0. FlagsLast
  <2>1. app' = app
    BY DEF Next, ShellWrites, Input, Reader, Main, Select, Execute, Step, ReadDone, PushUserEvent, Boot,
           TakeEvent, Draw, CheckRow, ReadRow, PaintRow, vars, rvars
  <2> QED
    BY <2>1 DEF FlagsLast
<1>1. CASE ShellWrites
  BY <1>1, RepaintStays DEF ShellWrites, lvars, dvars
<1>2. ASSUME NEW e \in Events, Input(e) PROVE RepaintInv'
  BY <1>2, RepaintStays DEF Input, rvars, lvars, dvars
<1>3. CASE Select
  BY <1>3, RepaintStays DEF Select, lvars, dvars
<1>4. CASE Execute
  BY <1>0, <1>4, ExecuteRepaints
<1>5. CASE Step
  BY <1>0, <1>5, StepRepaints
<1>6. CASE ReadDone
  BY <1>6, RepaintStays DEF ReadDone, lvars, dvars
<1>7. CASE PushUserEvent
  BY <1>7, RepaintStays DEF PushUserEvent, lvars, dvars
<1>8. ASSUME NEW t \in Threads, Draw(t) PROVE RepaintInv'
  BY <1>0, <1>8, DrawRepaints
<1>9. CASE Boot
  BY <1>9, RepaintStays DEF Boot, rvars, lvars
<1>10. CASE TakeEvent
  <2>1. CASE Head(queue) \in DrawEvents
    <3>1. /\ ~Drawing("main") /\ UNCHANGED <<app, todo, line, reverse, dirty, win>>
          /\ painter' = [painter EXCEPT !["main"] = AtRow(0)]
      BY <1>10, <2>1 DEF TakeEvent, rvars, lvars, dvars
    <3>2. /\ painter \in [Threads -> Painters] /\ "main" \in Threads /\ "reader" \in Threads
          /\ \A u \in Threads : u = "main" \/ u = "reader"
      BY DEF Threads, TypeInv, SyncTypeOK
    <3>3. painter'["reader"] = painter["reader"] /\ painter'["main"].at = "check"
      BY <3>1, <3>2, AtRowFacts
    <3>4. painter["reader"].y = NRows /\ StaleHeld /\ NothingLost
      BY <1>0 DEF RepaintInv
    <3>5. \A y \in Rows : ~Repainting(y)
      BY <3>1, <3>2, <3>4 DEF Repainting, Rows, Drawing
    <3>6. \A y \in Rows : WillFlag(y)' = WillFlag(y) /\ Look(y)' = Look(y)
      BY <3>1 DEF WillFlag, Look
    <3>7. NothingLost'
      BY <1>0, <3>1, <3>4, <3>5, <3>6 DEF NothingLost
    <3>8. (\E F : Settles(todo', line', F)) /\ \A n \in DOMAIN todo' : todo'[n].do \in {"flag", "store"}
      BY <1>0, <3>1 DEF RepaintInv
    <3> QED
      BY <3>3, <3>4, <3>7, <3>8 DEF RepaintInv, StaleHeld
  <2>2. CASE Head(queue) \notin DrawEvents
    BY <1>10, <2>2, RepaintStays DEF TakeEvent, rvars, lvars, dvars
  <2> QED
    BY <2>1, <2>2
<1>11. CASE UNCHANGED vars
  BY <1>11, RepaintStays DEF vars
<1> QED
  BY <1>1, <1>2, <1>3, <1>4, <1>5, <1>6, <1>7, <1>8, <1>9, <1>10, <1>11
     DEF Next, Reader, Main, Threads

(* However the two threads interleave while a program scrolls and switches *)
(* screens: a row that the window does not show as it is will still be     *)
(* painted.  For any number of rows, any contents and any limit of reads   *)
(* (tscrollup, tswapscreen, drawregion).                                   *)
THEOREM RepaintNeverLost == Spec => []NothingLost
<1>1. Spec => []RepaintInv
  BY InitRepaint, NextRepaint, TypeInvAlways, PTL DEF Spec
<1>2. RepaintInv => NothingLost
  BY DEF RepaintInv, NothingLost
<1> QED
  BY <1>1, <1>2, PTL

-----------------------------------------------------------------------------
(* The window, as its abstract specification has it.                       *)

(* A row that a painter has taken is the one the main thread is at.        *)
LEMMA HeldFacts ==
  ASSUME NEW p, p["reader"].y = NRows, NEW y \in Rows
  PROVE  {p[t].buf : t \in {u \in Threads : p[u].y = y /\ p[u].at = "holding"}}
         = IF p["main"].y = y /\ p["main"].at = "holding" THEN {p["main"].buf} ELSE {}
<1>1. y # NRows
  BY SyncAssumption DEF Rows
<1>2. {u \in Threads : p[u].y = y /\ p[u].at = "holding"}
      = IF p["main"].y = y /\ p["main"].at = "holding" THEN {"main"} ELSE {}
  BY <1>1 DEF Threads
<1> QED
  BY <1>2

(* Where nothing that the window tells apart changes.                      *)
LEMMA WindowStays ==
  ASSUME \A y \in Rows : Look(y)' = Look(y), win' = win,
         \A y \in Rows : Held(y)' = Held(y),
         \A y \in Rows : y \in Late' <=> y \in Late
  PROVE  UNCHANGED W!vars
<1>1. Late' = Late
  BY DEF Late
<1> QED
  BY <1>1 DEF W!vars

(* Steps that touch neither rows nor flags nor painters.                   *)
LEMMA OthersStay ==
  ASSUME UNCHANGED <<todo, line, reverse, dirty, win, painter>>
  PROVE  UNCHANGED W!vars
BY WindowStays DEF Look, Held, Late, WillFlag, Repainting

(* What the main thread's place means for the window.                      *)
LEMMA LateFacts ==
  ASSUME TypeInv, painter["reader"].y = NRows, NEW y \in Rows
  PROVE  y \in Late <=> \/ y \in dirty
                        \/ WillFlag(y)
                        \/ /\ painter["main"].y = y
                           /\ \/ painter["main"].at = "cleared"
                              \/ painter["main"].at = "holding" /\ painter["main"].buf = Look(y)
<1>1. y # NRows
  BY SyncAssumption DEF Rows
<1> QED
  BY <1>1 DEF Late, Repainting, Threads

(* The start.                                                              *)
LEMMA InitShows == Init => W!Init
<1> SUFFICES ASSUME Init PROVE W!Init
  OBVIOUS
<1>1. line \in [Rows -> Texts] /\ \A y \in Rows : Look(y) = <<NoText, FALSE>> /\ Look(y) \in Looks
  BY SyncAssumption DEF Init, Look, Looks
<1>2. win = [y \in Rows |-> Look(y)]
  BY <1>1 DEF Init
<1>3. \A y \in Rows : Held(y) = {}
  BY DEF Init, Held, Idle, AtRow, Threads
<1>4. Late \subseteq Rows
  BY DEF Late
<1> QED
  BY <1>1, <1>2, <1>3, <1>4 DEF W!Init

(* Each picture is a picture.                                              *)
LEMMA LooksTyped == TypeInv => [y \in Rows |-> Look(y)] \in [Rows -> Looks]
BY DEF TypeInv, SyncTypeOK, Look, Looks

(* A function that starts makes rows late, and nothing else.               *)
LEMMA ExecuteShows == ASSUME TypeInv, TypeInv', Execute PROVE W!Change
<1>1. todo = <<>> /\ UNCHANGED <<line, reverse, dirty, win, painter>>
  BY DEF Execute, Between, lvars, dvars
<1>2. \A y \in Rows : Look(y)' = Look(y) /\ Held(y)' = Held(y)
  BY <1>1 DEF Look, Held
<1>3. Late \subseteq Late' /\ Late' \subseteq Rows
  BY <1>1 DEF Late, WillFlag, Repainting, Look
<1>4. [y \in Rows |-> Look(y)]' \in [Rows -> Looks]
  BY LooksTyped, <1>2
<1> QED
  BY <1>1, <1>2, <1>3, <1>4 DEF W!Change

(* A row that a step of a function changes becomes late, since its flag is *)
(* still to come; raising a flag only keeps a row late.                    *)
LEMMA StepShows ==
  ASSUME TypeInv, TypeInv', RepaintInv, RepaintInv', FlagsLast, FlagsLast', Step
  PROVE  W!Change \/ UNCHANGED W!vars
<1> DEFINE s == todo[1]
<1>1. /\ todo \in Seq(Steps) /\ todo # <<>> /\ todo' = Tail(todo) /\ Head(todo) = s /\ Do(s) /\ s \in Steps
      /\ win' = win
  BY TailFacts DEF Step, TypeInv, dvars
<1>2. /\ Len(todo) \in Nat \ {0} /\ DOMAIN todo = 1..Len(todo) /\ DOMAIN todo' = 1..(Len(todo) - 1)
      /\ \A n \in 1..(Len(todo) - 1) : todo'[n] = todo[n + 1]
  BY <1>1, TailFacts
<1>3. s.do \in {"flag", "store"}
  BY <1>2 DEF RepaintInv
<1>4. painter["reader"].y = NRows /\ StaleHeld
  BY DEF RepaintInv
<1>5. PICK F : Settles(todo, line, F)
  BY DEF RepaintInv
<1> HIDE DEF s
<1>6. ASSUME NEW y \in Rows, WillFlag(y), ~(s.do = "flag" /\ s.y = y) PROVE WillFlag(y)'
  <2>1. PICK n \in DOMAIN todo : todo[n].do = "flag" /\ todo[n].y = y
    BY <1>6 DEF WillFlag
  <2>2. n # 1
    BY <1>6, <2>1 DEF s
  <2>3. n - 1 \in DOMAIN todo' /\ todo'[n - 1] = todo[n]
    BY <1>2, <2>2
  <2> QED
    BY <2>1, <2>3 DEF WillFlag
<1>7. ASSUME NEW y \in Rows, WillFlag(y)' PROVE WillFlag(y)
  <2>1. PICK n \in DOMAIN todo' : todo'[n].do = "flag" /\ todo'[n].y = y
    BY <1>7 DEF WillFlag
  <2>2. n + 1 \in DOMAIN todo /\ todo[n + 1] = todo'[n]
    BY <1>2
  <2> QED
    BY <2>1, <2>2 DEF WillFlag
<1>8. CASE s.do = "flag"
  <2>1. dirty' = dirty \cup {s.y} /\ UNCHANGED <<line, reverse, painter>>
    BY <1>1, <1>8 DEF Do, lvars
  <2>2. WillFlag(s.y)
    BY <1>2, <1>8 DEF WillFlag, s
  <2>3. \A y \in Rows : Look(y)' = Look(y) /\ Held(y)' = Held(y) /\ (Repainting(y)' <=> Repainting(y))
    BY <2>1 DEF Look, Held, Repainting
  <2>4. \A y \in Rows : y \in dirty' \/ WillFlag(y)' <=> y \in dirty \/ WillFlag(y)
    BY <1>6, <1>7, <2>1, <2>2
  <2>5. \A y \in Rows : y \in Late' <=> y \in Late
    BY <2>3, <2>4 DEF Late
  <2> QED
    BY <1>1, <2>3, <2>5, WindowStays
<1>9. CASE s.do = "store"
  <2>1. line' = s.l /\ UNCHANGED <<dirty, reverse, painter>>
    BY <1>1, <1>9 DEF Do
  <2>2. ASSUME NEW y \in Rows, Look(y)' # Look(y) PROVE WillFlag(y)'
    <3>1. todo[1].l[y] # line[y] /\ todo[1].do = "store"
      BY <1>9, <2>1, <2>2 DEF Look, s
    <3>2. \E n \in DOMAIN Tail(todo) : Tail(todo)[n].do = "flag" /\ Tail(todo)[n].y = y
      BY <1>1, <1>5, <3>1, ChangedIsFlagged
    <3> QED
      BY <1>1, <3>2 DEF WillFlag
  <2>3. \A y \in Rows : WillFlag(y) => WillFlag(y)'
    BY <1>6, <1>9
  <2>4. ASSUME NEW y \in Rows, y \in Late PROVE y \in Late'
    <3>1. CASE WillFlag(y)' \/ y \in dirty
      BY <2>1, <3>1 DEF Late
    <3>2. CASE ~WillFlag(y)' /\ y \notin dirty
      <4>1. Repainting(y) /\ Look(y)' = Look(y)
        BY <2>2, <2>3, <2>4, <3>2 DEF Late
      <4>2. Repainting(y)'
        BY <2>1, <4>1 DEF Repainting
      <4> QED
        BY <4>2 DEF Late
    <3> QED
      BY <3>1, <3>2
  <2>5. \A y \in Rows : Held(y)' = Held(y)
    BY <2>1 DEF Held
  <2>6. [y \in Rows |-> Look(y)]' \in [Rows -> Looks]
    BY DEF TypeInv, SyncTypeOK, Look, Looks
  <2>7. Late \subseteq Late' /\ Late' \subseteq Rows
    BY <2>4 DEF Late
  <2>8. \A y \in Rows : Look(y)' # Look(y) => y \in Late'
    BY <2>2 DEF Late
  <2> QED
    BY <1>1, <2>5, <2>6, <2>7, <2>8 DEF W!Change
<1> QED
  BY <1>3, <1>8, <1>9

(* drawregion: reading a row takes its picture, painting shows it, and the *)
(* check of a flag is not seen: a row whose flag is taken down is being    *)
(* repainted.                                                              *)
LEMMA DrawShows ==
  ASSUME TypeInv, TypeInv', RepaintInv, RepaintInv', FlagsLast, FlagsLast', NEW t \in Threads, Draw(t)
  PROVE  UNCHANGED W!vars \/ \E y \in Rows : W!Take(y) \/ W!Show(y)
<1> USE SyncAssumption
<1> DEFINE p == painter["main"]
           q == painter'["main"]
           y0 == p.y
<1>1. painter["reader"].y = NRows /\ painter'["reader"].y = NRows /\ StaleHeld
  BY DEF RepaintInv
<1>2. t = "main" /\ y0 \in Rows /\ y0 + 1 \in Nat /\ y0 # y0 + 1
  <2>1. Drawing(t) /\ painter[t].y \in Nat
    BY PaintersTyped DEF Draw, CheckRow, ReadRow, PaintRow, PainterInv
  <2> QED
    BY <1>1, <2>1 DEF Drawing, Threads, Rows
<1>3. UNCHANGED <<app, todo, line, reverse>>
  BY DEF Draw, CheckRow, ReadRow, PaintRow, rvars, lvars
<1>4. \A y \in Rows : WillFlag(y)' = WillFlag(y) /\ Look(y)' = Look(y)
  BY <1>3 DEF WillFlag, Look
<1>5. painter \in [Threads -> Painters] /\ "main" \in Threads /\ win \in [Rows -> Looks]
  BY DEF TypeInv, SyncTypeOK, Threads
<1>6. \A y \in Rows : Held(y) = IF y0 = y /\ p.at = "holding" THEN {p.buf} ELSE {}
  BY <1>1, HeldFacts DEF Held
<1>7. \A y \in Rows : Held(y)' = IF q.y = y /\ q.at = "holding" THEN {q.buf} ELSE {}
  BY <1>1, HeldFacts DEF Held
<1>8. \A y \in Rows : y \in Late <=> \/ y \in dirty \/ WillFlag(y)
                                     \/ y0 = y /\ (p.at = "cleared" \/ (p.at = "holding" /\ p.buf = Look(y)))
  BY <1>1, LateFacts
<1>9. \A y \in Rows : y \in Late' <=> \/ y \in dirty' \/ WillFlag(y)
                                      \/ q.y = y /\ (q.at = "cleared" \/ (q.at = "holding" /\ q.buf = Look(y)))
  <2>1. \A y \in Rows : y # NRows
    BY DEF Rows
  <2> QED
    BY <1>1, <1>4, <2>1 DEF Late, Repainting, Threads
<1>10. CASE CheckRow("main")
  <2>1. /\ p.at = "check" /\ dirty' = dirty \ {y0} /\ win' = win
        /\ painter' = [painter EXCEPT !["main"] = IF y0 \in dirty THEN [p EXCEPT !.at = "cleared"] ELSE AtRow(y0 + 1)]
    BY <1>10 DEF CheckRow, dvars
  <2>2. CASE y0 \in dirty
    <3>1. q.y = y0 /\ q.at = "cleared"
      <4>1. q = [p EXCEPT !.at = "cleared"]
        BY <2>1, <2>2, <1>5
      <4>2. p = [y |-> p.y, at |-> p.at, buf |-> p.buf]
        BY PaintersTyped DEF PainterInv, Threads
      <4> HIDE DEF p
      <4>3. [p EXCEPT !.at = "cleared"] = [y |-> p.y, at |-> "cleared", buf |-> p.buf]
        BY <4>2
      <4> QED
        BY <4>1, <4>3
    <3> HIDE DEF p, q
    <3> QED
      BY <1>4, <1>6, <1>7, <1>8, <1>9, <2>1, <2>2, <3>1, WindowStays
  <2>3. CASE y0 \notin dirty
    <3>1. q.at = "check"
      <4>1. q = AtRow(y0 + 1)
        BY <2>1, <2>3, <1>5
      <4> QED
        BY <4>1, <1>2, AtRowFacts
    <3> HIDE DEF p, q
    <3> QED
      BY <1>4, <1>6, <1>7, <1>8, <1>9, <2>1, <2>3, <3>1, WindowStays
  <2> QED
    BY <2>2, <2>3
<1>11. CASE ReadRow("main")
  <2>1. /\ p.at = "cleared" /\ dirty' = dirty /\ win' = win
        /\ painter' = [painter EXCEPT !["main"] = [y |-> y0, at |-> "holding", buf |-> Look(y0)]]
    BY <1>11 DEF ReadRow, dvars
  <2>2. q = [y |-> y0, at |-> "holding", buf |-> Look(y0)]
    BY <2>1, <1>5
  <2>3. q.y = y0 /\ q.at = "holding" /\ q.buf = Look(y0)
    BY <2>2
  <2> HIDE DEF p, q
  <2>4. Late' = Late
    <3>1. \A y \in Rows : y \in Late' <=> y \in Late
      BY <1>8, <1>9, <2>1, <2>3
    <3> QED
      BY <3>1 DEF Late
  <2>5. y0 \in Late /\ Held(y0) = {}
    BY <1>2, <1>6, <1>8, <2>1
  <2>6. \A y \in Rows : Held(y)' = IF y = y0 THEN {Look(y0)} ELSE Held(y)
    BY <1>6, <1>7, <2>1, <2>3
  <2> DEFINE C == [y \in Rows |-> Held(y)]
             D == [y \in Rows |-> Held(y)']
             S == [y \in Rows |-> Look(y)]
  <2>7. D = [C EXCEPT ![y0] = {S[y0]}] /\ C[y0] = {}
    BY <1>2, <2>5, <2>6
  <2>8. [y \in Rows |-> Look(y)'] = S
    BY <1>4
  <2>9. W!Take(y0)
    BY <2>1, <2>4, <2>5, <2>7, <2>8 DEF W!Take
  <2> QED
    BY <1>2, <2>9
<1>12. CASE PaintRow("main")
  <2>1. /\ p.at = "holding" /\ dirty' = dirty /\ win' = [win EXCEPT ![y0] = p.buf]
        /\ painter' = [painter EXCEPT !["main"] = AtRow(y0 + 1)]
    BY <1>12 DEF PaintRow
  <2>2. q.at = "check"
    <3>1. q = AtRow(y0 + 1)
      BY <2>1, <1>5
    <3> QED
      BY <3>1, <1>2, AtRowFacts
  <2> DEFINE C == [y \in Rows |-> Held(y)]
             D == [y \in Rows |-> Held(y)']
             S == [y \in Rows |-> Look(y)]
  <2>3. p.buf # Look(y0) => y0 \in dirty \/ WillFlag(y0)
    BY <1>1, <1>2, <2>1 DEF StaleHeld
  <2> HIDE DEF p, q
  <2>4. Held(y0) = {p.buf}
    BY <1>2, <1>6, <2>1
  <2>5. \A y \in Rows : Held(y)' = IF y = y0 THEN {} ELSE Held(y)
    BY <1>6, <1>7, <2>1, <2>2
  <2>6. Late' = Late \/ (Late' = Late \ {y0} /\ p.buf = Look(y0))
    <3>1. \A y \in Rows : y # y0 => (y \in Late' <=> y \in Late)
      BY <1>8, <1>9, <2>1, <2>2
    <3>2. Late \subseteq Rows /\ Late' \subseteq Rows
      BY DEF Late
    <3>3. CASE y0 \in dirty \/ WillFlag(y0)
      <4>1. y0 \in Late /\ y0 \in Late'
        BY <1>2, <1>8, <1>9, <2>1, <3>3
      <4> QED
        BY <3>1, <3>2, <4>1
    <3>4. CASE ~(y0 \in dirty \/ WillFlag(y0))
      <4>1. y0 \notin Late' /\ p.buf = Look(y0)
        BY <1>2, <1>9, <2>1, <2>2, <2>3, <3>4
      <4> QED
        BY <3>1, <3>2, <4>1
    <3> QED
      BY <3>3, <3>4
  <2>7. D = [C EXCEPT ![y0] = {}] /\ C[y0] = {p.buf} /\ S[y0] = Look(y0)
    BY <1>2, <2>4, <2>5
  <2>8. [y \in Rows |-> Look(y)'] = S
    BY <1>4
  <2>9. W!Show(y0)
    BY <2>1, <2>6, <2>7, <2>8 DEF W!Show
  <2> QED
    BY <1>2, <2>9
<1> QED
  BY <1>2, <1>10, <1>11, <1>12 DEF Draw

(* Every step is one of the abstract window or is not seen.                *)
LEMMA NextShows ==
  ASSUME TypeInv, TypeInv', RepaintInv, RepaintInv', FlagsLast, FlagsLast', [Next]_vars
  PROVE  [W!Next]_(W!vars)
<1>1. CASE ShellWrites
  BY <1>1, OthersStay DEF ShellWrites, rvars, lvars, dvars
<1>2. ASSUME NEW e \in Events, Input(e) PROVE UNCHANGED W!vars
  BY <1>2, OthersStay DEF Input, rvars, lvars, dvars
<1>3. CASE Select
  BY <1>3, OthersStay DEF Select, lvars, dvars
<1>4. CASE Execute
  BY <1>4, ExecuteShows DEF W!Next
<1>5. CASE Step
  BY <1>5, StepShows DEF W!Next
<1>6. CASE ReadDone
  BY <1>6, OthersStay DEF ReadDone, lvars, dvars
<1>7. CASE PushUserEvent
  BY <1>7, OthersStay DEF PushUserEvent, lvars, dvars
<1>8. ASSUME NEW t \in Threads, Draw(t) PROVE [W!Next]_(W!vars)
  BY <1>8, DrawShows DEF W!Next
<1>9. CASE Boot
  BY <1>9, OthersStay DEF Boot, rvars, lvars
<1>10. CASE TakeEvent
  <2>1. CASE Head(queue) \in DrawEvents
    <3>1. /\ ~Drawing("main") /\ UNCHANGED <<todo, line, reverse, dirty, win>>
          /\ painter' = [painter EXCEPT !["main"] = AtRow(0)]
      BY <1>10, <2>1 DEF TakeEvent, rvars, lvars, dvars
    <3>2. painter \in [Threads -> Painters] /\ "main" \in Threads
      BY DEF Threads, TypeInv, SyncTypeOK
    <3>3. painter'["main"] = AtRow(0)
      BY <3>1, <3>2
    <3>4. painter'["main"].at = "check"
      BY <3>3, AtRowFacts
    <3>5. painter["reader"].y = NRows /\ painter'["reader"].y = NRows
      BY DEF RepaintInv
    <3>6. \A y \in Rows : y # NRows /\ painter["main"].y # y
      BY <3>1, <3>2, SyncAssumption DEF Rows, Drawing
    <3>7. \A y \in Rows : WillFlag(y)' = WillFlag(y) /\ Look(y)' = Look(y)
      BY <3>1 DEF WillFlag, Look
    <3>8. \A y \in Rows : Held(y)' = Held(y)
      BY <3>4, <3>5, <3>6 DEF Held, Threads
    <3>9. \A y \in Rows : y \in Late' <=> y \in Late
      BY <3>1, <3>4, <3>5, <3>6, <3>7 DEF Late, Repainting, Threads
    <3> QED
      BY <3>1, <3>7, <3>8, <3>9, WindowStays
  <2>2. CASE Head(queue) \notin DrawEvents
    BY <1>10, <2>2, OthersStay DEF TakeEvent, rvars, lvars, dvars
  <2> QED
    BY <2>1, <2>2
<1>11. CASE UNCHANGED vars
  BY <1>11, OthersStay DEF vars
<1> QED
  BY <1>1, <1>2, <1>3, <1>4, <1>5, <1>6, <1>7, <1>8, <1>9, <1>10, <1>11
     DEF Next, Reader, Main, Threads

(* The program that runs stays.                                            *)
LEMMA ProgramStays == [Next]_vars => (FlagsLast <=> FlagsLast')
<1> SUFFICES ASSUME [Next]_vars PROVE FlagsLast <=> FlagsLast'
  OBVIOUS
<1>1. app' = app
  BY DEF Next, ShellWrites, Input, Reader, Main, Select, Execute, Step, ReadDone, PushUserEvent, Boot,
         TakeEvent, Draw, CheckRow, ReadRow, PaintRow, vars, rvars
<1> QED
  BY <1>1 DEF FlagsLast

(* For programs that scroll and switch screens the two threads, in any     *)
(* interleaving of their single stores, implement a window that takes a    *)
(* picture of one row at a time and shows it (drawregion, ttythread):      *)
(* never an older picture over a newer one, and the present one of every   *)
(* row that nobody will still repaint.  For any number of rows.            *)
THEOREM ThreadsImplementWindow == Spec => ShowsTheScreen
<1>1. Init => (FlagsLast => W!Init)
  BY InitShows
<1>2. TypeInv /\ TypeInv' /\ RepaintInv /\ RepaintInv' /\ [Next]_vars => [FlagsLast => W!Next]_(W!vars)
  BY NextShows, ProgramStays
<1>3. Spec => []TypeInv
  BY TypeInvAlways
<1>4. Spec => []RepaintInv
  BY InitRepaint, NextRepaint, TypeInvAlways, PTL DEF Spec
<1> QED
  BY <1>1, <1>2, <1>3, <1>4, PTL DEF Spec, ShowsTheScreen

(* Seen as a specification: from such a program, Window.                   *)
THEOREM ThreadsAreAWindow == Spec /\ FlagsLast => W!Spec
<1>1. Spec => []FlagsLast \/ ~FlagsLast
  BY ProgramStays, PTL DEF Spec
<1>2. FlagsLast /\ [FlagsLast => W!Next]_(W!vars) => [W!Next]_(W!vars)
  OBVIOUS
<1> QED
  BY <1>1, <1>2, ThreadsImplementWindow, PTL DEF ShowsTheScreen, W!Spec
=============================================================================
