----------------------------- MODULE AppQueue -----------------------------
(***************************************************************************)
(* The event queue of the app task (app_event_port.c) and the loop that    *)
(* empties it (app_task.c, app.c).                                         *)
(*                                                                         *)
(* Ticks of the two timers and the button interrupt are coalesced: a count *)
(* says that one is under way, and while it does further ones are dropped. *)
(* The count is raised after the send and lowered after the dispatch.  A   *)
(* post is one step for them, since the timer task has the highest         *)
(* priority and an interrupt is not preempted by a task; from a task below *)
(* the app's priority the app could lower the count before it is raised.   *)
(*                                                                         *)
(* The other events are numbered in the order in which the queue took them.*)
(***************************************************************************)
EXTENDS Integers, Sequences

CONSTANTS
    QueueDepth,  \* APP_EVENT_QUEUE_DEPTH
    DrainMax,    \* APP_EVENT_DRAIN_MAX
    MaxSent,     \* bound: other events
    Display, Timer, Irq,  \* EVT_DISPLAY_TICK, EVT_TIMER_TICK, EVT_BUTTON_IRQ
    NoEvent

Ticks == {Display, Timer, Irq}
Event == Ticks \cup (Nat \ {0})

ASSUME QueueAssumption ==
    /\ QueueDepth \in Nat \ {0}
    /\ DrainMax \in Nat \ {0}
    /\ Display # Timer /\ Display # Irq /\ Timer # Irq
    /\ Ticks \cap Nat = {}
    /\ NoEvent \notin Event

VARIABLES
    inbox,   \* s_app_event_q
    marks,   \* s_display_ticks_queued, s_timer_ticks_queued, s_button_irq_queued
    batch,   \* what was received and not looked at yet
    late,    \* display ticks left for the end of the batch
    inHand,  \* the event that is dispatched, until it is released
    loop,    \* wait, collect, dispatch
    sent     \* other events accepted so far
queueVars == <<inbox, marks, batch, late, inHand, loop, sent>>

QueueInit ==
    /\ inbox = <<>>
    /\ marks = [t \in Ticks |-> 0]
    /\ batch = <<>>
    /\ late = 0
    /\ inHand = NoEvent
    /\ loop = "wait"
    /\ sent = 0

-----------------------------------------------------------------------------
(* app_event_post and app_event_post_from_isr *)

MarkedFirst(t) == [marks EXCEPT ![t] = @ + 1]
Marked(t) == IF Len(inbox) < QueueDepth THEN [marks EXCEPT ![t] = @ + 1] ELSE marks

\* A tick that is marked is dropped; so is any that finds the queue full.
PostTick(t) ==
    /\ marks[t] = 0
    /\ inbox' = IF Len(inbox) < QueueDepth THEN Append(inbox, t) ELSE inbox
    /\ marks' = Marked(t)
    /\ UNCHANGED <<batch, late, inHand, loop, sent>>

PostOther ==
    /\ sent < MaxSent
    /\ Len(inbox) < QueueDepth
    /\ inbox' = Append(inbox, sent + 1)
    /\ sent' = sent + 1
    /\ UNCHANGED <<marks, batch, late, inHand, loop>>

-----------------------------------------------------------------------------
(* The app task.  A wait that times out dispatches a display tick of its   *)
(* own and changes nothing here.                                           *)

Receive ==
    /\ loop = "wait"
    /\ inbox # <<>>
    /\ batch' = <<Head(inbox)>>
    /\ inbox' = Tail(inbox)
    /\ loop' = "collect"
    /\ UNCHANGED <<marks, late, inHand, sent>>

\* app_collect_queued_events
Collect ==
    /\ loop = "collect"
    /\ IF inbox # <<>> /\ Len(batch) < DrainMax
       THEN batch' = Append(batch, Head(inbox)) /\ inbox' = Tail(inbox) /\ UNCHANGED loop
       ELSE loop' = "dispatch" /\ UNCHANGED <<batch, inbox>>
    /\ UNCHANGED <<marks, late, inHand, sent>>

\* app_dispatch_event_batch: display ticks wait for the second pass.
Defer ==
    /\ loop = "dispatch" /\ inHand = NoEvent /\ batch # <<>>
    /\ Head(batch) = Display
    /\ late' = late + 1
    /\ batch' = Tail(batch)
    /\ UNCHANGED <<inbox, marks, inHand, loop, sent>>

Dispatch ==
    /\ loop = "dispatch" /\ inHand = NoEvent /\ batch # <<>>
    /\ Head(batch) # Display
    /\ inHand' = Head(batch)
    /\ batch' = Tail(batch)
    /\ UNCHANGED <<inbox, marks, late, loop, sent>>

DispatchLate ==
    /\ loop = "dispatch" /\ inHand = NoEvent /\ batch = <<>>
    /\ late > 0
    /\ inHand' = Display
    /\ late' = late - 1
    /\ UNCHANGED <<inbox, marks, batch, loop, sent>>

\* app_event_release
UnmarkedNever(e) == marks
Unmarked(e) == IF e \in Ticks /\ marks[e] > 0 THEN [marks EXCEPT ![e] = @ - 1] ELSE marks
Release ==
    /\ inHand # NoEvent
    /\ marks' = Unmarked(inHand)
    /\ inHand' = NoEvent
    /\ UNCHANGED <<inbox, batch, late, loop, sent>>

BatchDone ==
    /\ loop = "dispatch" /\ inHand = NoEvent /\ batch = <<>> /\ late = 0
    /\ loop' = "wait"
    /\ UNCHANGED <<inbox, marks, batch, late, inHand, sent>>

AppLoop == Receive \/ Collect \/ Defer \/ Dispatch \/ DispatchLate \/ Release \/ BatchDone

QueueNext ==
    \/ \E t \in Ticks : PostTick(t)
    \/ PostOther
    \/ AppLoop

\* The app task is ready whenever it has work; the timers keep expiring.
QueueFairness ==
    /\ WF_queueVars(AppLoop)
    /\ WF_queueVars(PostTick(Timer))
QueueSpec == QueueInit /\ [][QueueNext]_queueVars

-----------------------------------------------------------------------------
\* The values of the state.  A batch is empty while the task waits, and nothing
\* is dispatched while it collects.
QueueTypeOK ==
    /\ inbox \in Seq(Event) /\ Len(inbox) <= QueueDepth
    /\ batch \in Seq(Event) /\ Len(batch) <= DrainMax
    /\ marks \in [Ticks -> Nat]
    /\ late \in Nat
    /\ inHand \in Event \cup {NoEvent}
    /\ loop \in {"wait", "collect", "dispatch"}
    /\ sent \in Nat
    /\ loop = "wait" => batch = <<>>
    /\ loop # "dispatch" => inHand = NoEvent /\ late = 0

Holds(seq, e) == \E i \in DOMAIN seq : seq[i] = e
Once(seq, e) == \A i, j \in DOMAIN seq : seq[i] = e /\ seq[j] = e => i = j
IsLate(t) == t = Display /\ late > 0
UnderWay(t) == Holds(inbox, t) \/ Holds(batch, t) \/ inHand = t \/ IsLate(t)

\* A tick that is marked is in the queue or in the hands of the app task, once
\* and in one place, and one that is there is marked: a mark with no tick
\* behind it would drop every later tick of its kind, and the schedule with
\* them (app_event_post).
MarksStand ==
    /\ late <= 1
    /\ \A t \in Ticks :
        /\ marks[t] = (IF UnderWay(t) THEN 1 ELSE 0)
        /\ Once(inbox, t)
        /\ Once(batch, t)
        /\ Holds(inbox, t) => ~Holds(batch, t) /\ inHand # t /\ ~IsLate(t)
        /\ Holds(batch, t) => inHand # t /\ ~IsLate(t)
        /\ inHand = t => ~IsLate(t)

\* The other events wait in the order in which they were accepted, whatever the
\* batch defers (app_dispatch_event_batch).
Rising(seq) == \A i, j \in DOMAIN seq : i < j /\ seq[i] \notin Ticks /\ seq[j] \notin Ticks => seq[i] < seq[j]
Before(a, b) == \A i \in DOMAIN a, j \in DOMAIN b : a[i] \notin Ticks /\ b[j] \notin Ticks => a[i] < b[j]
UpTo(seq, n) == \A i \in DOMAIN seq : seq[i] \notin Ticks => seq[i] <= n
InOrder ==
    /\ Rising(inbox) /\ Rising(batch) /\ Before(batch, inbox)
    /\ UpTo(inbox, sent) /\ UpTo(batch, sent)

QueueKept == QueueTypeOK /\ MarksStand /\ InOrder

\* Timer ticks, on which the schedule is polled, are dispatched for ever.
TicksServed == []<><<Dispatch /\ inHand' = Timer>>_queueVars
=============================================================================
