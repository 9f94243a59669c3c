----------------------------- MODULE MotorPort -----------------------------
(***************************************************************************)
(* What motor_port promises its users (firmware/ports/motor_port.h): the   *)
(* accepted commands are served one at a time, in order, and each of them  *)
(* that is not a stop is answered by exactly one completion event or cut   *)
(* short by a stop.  An event is lost only when the app queue is full.     *)
(* is_active() lags behind: at first a session is open and does not show.  *)
(* How a command is carried out is left to MotorCtrl.                      *)
(***************************************************************************)
EXTENDS Integers, Sequences

CONSTANTS
    Cmds,       \* the commands senders may queue: records [kind, n]
    NoCmd,      \* no session is open
    CmdDepth,   \* room in the command queue
    EventDepth  \* room in the app event queue

VARIABLES
    queue,      \* accepted commands, oldest first
    session,    \* the command being carried out
    busy,       \* what is_active() tells the senders
    events      \* completion events, oldest first

vars == <<queue, session, busy, events>>

Post(e) == IF Len(events) < EventDepth THEN Append(events, [type |-> e]) ELSE events

\* The completion event of each kind of command.
DoneEvent(cmd) == CASE cmd.kind = "burst" -> "BURST_DONE"
                    [] cmd.kind = "park"  -> "PARK_DONE"
                    [] OTHER              -> "TIMED_RUN_DONE"
Outcomes(cmd) == {DoneEvent(cmd), "MOTOR_FAULT"}

Accept(cmd) ==
    /\ Len(queue) < CmdDepth
    /\ queue' = Append(queue, cmd)
    /\ UNCHANGED <<session, busy, events>>

\* A command leaves the queue only when no session is open.
Open ==
    /\ session = NoCmd
    /\ queue # <<>>
    /\ Head(queue).kind # "stop"
    /\ queue' = Tail(queue)
    /\ session' = Head(queue)
    /\ UNCHANGED <<busy, events>>

\* The motor turns: senders see the port busy from now on.
Turn ==
    /\ session # NoCmd
    /\ ~busy
    /\ busy' = TRUE
    /\ UNCHANGED <<queue, session, events>>

\* A command that is answered without a session (it is refused by the
\* hardware, or the auger is parked already).
Answer ==
    /\ session = NoCmd
    /\ queue # <<>>
    /\ Head(queue).kind # "stop"
    /\ queue' = Tail(queue)
    /\ \E e \in Outcomes(Head(queue)) : events' = Post(e)
    /\ UNCHANGED <<session, busy>>

Close ==
    /\ session # NoCmd
    /\ session' = NoCmd
    /\ busy' = FALSE
    /\ \E e \in Outcomes(session) : events' = Post(e)
    /\ UNCHANGED queue

Stop ==
    /\ queue # <<>>
    /\ Head(queue).kind = "stop"
    /\ queue' = Tail(queue)
    /\ session' = NoCmd
    /\ busy' = FALSE
    /\ UNCHANGED events

Receive ==
    /\ events # <<>>
    /\ events' = Tail(events)
    /\ UNCHANGED <<queue, session, busy>>

Init == queue = <<>> /\ session = NoCmd /\ busy = FALSE /\ events = <<>>

Serve == Open \/ Turn \/ Answer \/ Close \/ Stop

Next == (\E cmd \in Cmds : Accept(cmd)) \/ Serve \/ Receive

\* Commands are eventually served.
Spec == Init /\ [][Next]_vars /\ WF_vars(Serve)
=============================================================================
