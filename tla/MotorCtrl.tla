----------------------------- MODULE MotorCtrl -----------------------------
(***************************************************************************)
(* The motor_ctrl task (firmware/src/motor_ctrl.c) with the H-bridge       *)
(* driver it calls (motor_driver.c) and the jam interrupt that notifies it *)
(* (adc_jam_isr_adapter.c).                                                *)
(*                                                                         *)
(* The task is the only writer of the motor.  Any task may send it a       *)
(* command: the sender looks at s_phase first and puts the command on a    *)
(* FreeRTOS queue afterwards, in two separate steps.  The task runs one    *)
(* session per command (a burst, a park or a timed bench run), recovers    *)
(* from jams by reversing, and posts one completion event to the app.      *)
(*                                                                         *)
(* Time is counted in loop slices (MOTOR_CTRL_LOOP_SLICE_MS).  It passes   *)
(* where the task blocks: in the queue receive, in the notification wait,  *)
(* in the anti-jam delay and in the PH settle delay.  Everything else the  *)
(* task does takes no time, since it runs at the highest application       *)
(* priority.  Counters that are only compared with a limit stop at it.     *)
(*                                                                         *)
(* The index interrupt only chooses when the detector is sampled and may   *)
(* end a wait early: every iteration may sample or not, and wait or not.   *)
(***************************************************************************)
EXTENDS Integers, Sequences

CONSTANTS
    Callers,       \* tasks that send commands
    Cmds,          \* the commands they send: records [kind, n]
    CmdDepth,      \* MOTOR_CTRL_CMD_QUEUE_DEPTH
    EventDepth,    \* room in the app event queue for completion events
    MaxRetries,    \* MOTOR_ANTI_JAM_MAX_RETRIES
    IoFailMax,     \* consecutive detector failures that end a session (3)
    RunMax,        \* MOTOR_RUN_MS_MAX, in slices
    IndexTimeout,  \* MOTOR_BURST_TIMEOUT_MS, in slices
    SustainPolls,  \* MOTOR_JAM_SUSTAINED_MS over the slice added per poll
    RevTicks,      \* MOTOR_ANTI_JAM_REVERSE_MS, in slices
    WiggleTicks,   \* MOTOR_ANTI_JAM_WIGGLE_MS, in slices
    BenchTicks,    \* duration of a timed bench run, in slices
    SettleTicks,   \* MOTOR_PH_SETTLE_MS, in slices
    WriteMayFail   \* whether I2C writes to the GPIO expander may fail

Kinds == {"burst", "park", "fwd", "rev", "stop"}
CmdSet == [kind : Kinds, n : Nat \ {0}]
NoCmd == [kind |-> "none", n |-> 1]

ASSUME MotorAssumption ==
    /\ Cmds \subseteq CmdSet
    /\ CmdDepth \in Nat \ {0}
    /\ EventDepth \in Nat \ {0}
    /\ MaxRetries \in Nat
    /\ IoFailMax \in Nat \ {0}
    /\ RunMax \in Nat \ {0}
    /\ IndexTimeout \in Nat \ {0}
    /\ SustainPolls \in Nat \ {0}
    /\ RevTicks \in Nat
    /\ WiggleTicks \in Nat
    /\ BenchTicks \in Nat
    /\ SettleTicks \in Nat
    /\ WriteMayFail \in BOOLEAN

VARIABLES
    pend,      \* pend[c]: the command caller c found idle and will enqueue
    cmdQ,      \* s_cmd_q
    pc,        \* where the task is in its loop
    phase,     \* s_phase
    act,       \* s_active_cmd
    mutex,     \* s_motor_mutex is held
    pulses,    \* s_pulses
    prevOpen,  \* s_prev_beam_open
    elapsed,   \* slices since s_en_start_tick, at most RunMax; 0 with no session
    left,      \* slices until s_phase_end_tick; 0 with no session
    over,      \* s_sustained_over_ms, in polls
    retries,   \* s_antijam_retries
    instant,   \* s_instant_jam
    ioFail,    \* s_io_fail_streak
    notif,     \* the task's notification value holds MOTOR_CTRL_NOTIFY_ADC_JAM
    armed,     \* the jam and index interrupts are armed
    running,   \* the driver's running flag
    en,        \* the EN pin of the H-bridge
    enLost,    \* history: the last stop could not write EN low
    ph,        \* the PH pin: "fwd" or "rev"
    led,       \* the index session is active (its IR LED is on)
    events     \* completion events the app has not received

ctl == <<pc, phase, act, mutex>>
counters == <<pulses, prevOpen, over, retries, instant, ioFail>>
clocks == <<elapsed, left>>
pins == <<running, en, enLost, ph, led, armed>>
queues == <<pend, cmdQ>>
vars == <<ctl, counters, clocks, pins, queues, notif, events>>

Runs == {"burst", "park"}
Antijam == {"rev", "wiggle_fwd", "wiggle_rev"}
Phases == {"idle", "bench"} \cup Runs \cup Antijam
Starts == {"start_run", "start_bench", "start_antijam"}
Pcs == {"recv", "poll", "index", "beam", "wait"} \cup Starts

\* What the motor-load ADC reads: nothing, below MOTOR_JAM_SUSTAINED_MA, above
\* it, above MOTOR_JAM_INSTANT_MA.
Loads == {"fail", "low", "high", "stall"}
\* What a sample of the index detector gives ("none": it is not due, or the
\* bus is busy).
Reads == {"none", "err", "open", "blocked"}
Writes == IF WriteMayFail THEN {TRUE, FALSE} ELSE {TRUE}
\* motor_driver_stop: EN written low, nothing written at all, or only the PH
\* release after three failed EN writes.
Stops == IF WriteMayFail THEN {"ok", "failed", "released"} ELSE {"ok"}

-----------------------------------------------------------------------------
(* Helpers *)

CapAt(x, limit) == IF x > limit THEN limit ELSE x

\* The blocking calls let time pass.
Advance(n) ==
    /\ elapsed' = CapAt(elapsed + n, RunMax)
    /\ left' = IF left > n THEN left - n ELSE 0

\* motor_ctrl_post_app_event: a full queue loses the event.
Post(e) == IF Len(events) < EventDepth THEN Append(events, [type |-> e]) ELSE events

\* How long an anti-jam phase lasts.
AntijamTicks(p) == IF p = "rev" THEN RevTicks ELSE WiggleTicks

\* The pins after motor_driver_stop, which clears the running flag even when
\* EN could not be written.
EnAfter(stop) == IF running /\ stop = "ok" THEN FALSE ELSE en
LostAfter(stop) == IF running THEN stop # "ok" ELSE enLost
PhAfter(stop) == IF running /\ stop = "released" THEN "rev" ELSE ph

\* Mistakes in the teardown, to show that the properties notice them (as
\* are the other definitions below that name what is done wrong): the mutex is
\* not given back; the driver is told that nothing runs before it is told to
\* stop, and leaves EN as it is.
EndSessionKeepsMutex(stop, phV, evs) ==
    /\ phase' = "idle"
    /\ running' = FALSE /\ en' = EnAfter(stop) /\ enLost' = LostAfter(stop) /\ ph' = phV
    /\ led' = FALSE /\ armed' = FALSE
    /\ ioFail' = 0 /\ elapsed' = 0 /\ left' = 0 /\ events' = evs
    /\ UNCHANGED mutex
EndSessionStaysPowered(stop, phV, evs) ==
    /\ phase' = "idle" /\ mutex' = FALSE
    /\ running' = FALSE /\ ph' = phV
    /\ led' = FALSE /\ armed' = FALSE
    /\ ioFail' = 0 /\ elapsed' = 0 /\ left' = 0 /\ events' = evs
    /\ UNCHANGED <<en, enLost>>

\* motor_ctrl_session_teardown, after motor_driver_stop went as `stop` tells, and
\* the completion event that follows it.
EndSession(stop, phV, evs) ==
    /\ phase' = "idle"
    /\ mutex' = FALSE
    /\ running' = FALSE
    /\ en' = EnAfter(stop)
    /\ enLost' = LostAfter(stop)
    /\ ph' = phV
    /\ led' = FALSE
    /\ armed' = FALSE
    /\ ioFail' = 0
    /\ elapsed' = 0
    /\ left' = 0
    /\ events' = evs

\* motor_ctrl_finish_fault
Fault(stop) == EndSession(stop, PhAfter(stop), Post("MOTOR_FAULT"))

FinishSilently(e, stop) == EndSession(stop, PhAfter(stop), events)

\* motor_ctrl_finish_{burst,park,bench}_done: a failed stop makes it a fault.
Finish(e, stop) ==
    EndSession(stop, PhAfter(stop), Post(IF stop = "ok" THEN e ELSE "MOTOR_FAULT"))

\* motor_ctrl_begin_run up to the PH settle delay of motor_driver_start_ph.
\* ledOk: the index session opens; phOk: PH is written.  stop: how the driver
\* stop went that an anti-jam step did just before.
BeginRun(ledOk, phOk, stop) ==
    /\ pulses' = 0
    /\ over' = 0
    /\ instant' = FALSE
    /\ IF ledOk /\ phOk
       THEN /\ pc' = "start_run"
            /\ prevOpen' \in BOOLEAN
            /\ ioFail' = 0
            /\ mutex' = TRUE
            /\ led' = TRUE
            /\ armed' = TRUE
            /\ running' = FALSE
            /\ en' = EnAfter(stop)
            /\ enLost' = LostAfter(stop)
            /\ ph' = "fwd"
            /\ elapsed' = 0
            /\ left' = 0
            /\ UNCHANGED <<phase, events>>
       ELSE /\ pc' = "recv"
            /\ prevOpen' \in (IF ledOk THEN BOOLEAN ELSE {FALSE})
            /\ Fault(stop)

StartAntijamBackward(p, dir, phOk, stop) ==
    /\ phase' = p
    /\ running' = FALSE /\ en' = EnAfter(stop) /\ enLost' = LostAfter(stop)
    /\ pc' = "start_antijam"
    /\ ph' = "rev"
    /\ UNCHANGED left
StartAntijamPowered(p, dir, phOk, stop) ==
    /\ phase' = p
    /\ running' = FALSE
    /\ pc' = "start_antijam"
    /\ ph' = dir
    /\ UNCHANGED <<en, enLost, left>>

\* motor_driver_start_{forward,reverse} of an anti-jam phase p: its result is
\* ignored, so a failed PH write only skips the movement.
StartAntijam(p, dir, phOk, stop) ==
    /\ phase' = p
    /\ running' = FALSE
    /\ en' = EnAfter(stop)
    /\ enLost' = LostAfter(stop)
    /\ IF phOk
       THEN /\ pc' = "start_antijam"
            /\ ph' = dir
            /\ UNCHANGED left
       ELSE /\ pc' = "recv"
            /\ ph' = PhAfter(stop)
            /\ left' = AntijamTicks(p)

BeginAntijamOneMore(phOk, stop) ==
    /\ over' = 0
    /\ instant' = FALSE
    /\ IF retries > MaxRetries
       THEN pc' = "recv" /\ Fault(stop) /\ UNCHANGED retries
       ELSE /\ retries' = retries + 1
            /\ StartAntijam("rev", "rev", phOk, stop)
            /\ UNCHANGED <<mutex, ioFail, led, armed, elapsed, events>>

\* motor_ctrl_begin_antijam: give up after MaxRetries, else reverse.
BeginAntijam(phOk, stop) ==
    /\ over' = 0
    /\ instant' = FALSE
    /\ IF retries >= MaxRetries
       THEN /\ pc' = "recv"
            /\ Fault(stop)
            /\ UNCHANGED retries
       ELSE /\ retries' = retries + 1
            /\ StartAntijam("rev", "rev", phOk, stop)
            /\ UNCHANGED <<mutex, ioFail, led, armed, elapsed, events>>

-----------------------------------------------------------------------------
(* The senders *)

\* motor_ctrl_request_*: a command is refused (PORT_ERR_BUSY) while a session
\* runs; motor_ctrl_request_stop does not look.
CheckIdle(c, cmd) ==
    /\ pend[c] = NoCmd
    /\ cmd.kind # "stop" => phase = "idle"
    /\ pend' = [pend EXCEPT ![c] = cmd]
    /\ UNCHANGED <<ctl, counters, clocks, pins, cmdQ, notif, events>>

\* motor_ctrl_enqueue: a full queue refuses the command.
Enqueue(c) ==
    /\ pend[c] # NoCmd
    /\ cmdQ' = IF Len(cmdQ) < CmdDepth THEN Append(cmdQ, pend[c]) ELSE cmdQ
    /\ pend' = [pend EXCEPT ![c] = NoCmd]
    /\ UNCHANGED <<ctl, counters, clocks, pins, notif, events>>

\* adc_jam_isr_eint_cb
JamIsr ==
    /\ armed
    /\ ~notif
    /\ notif' = TRUE
    /\ UNCHANGED <<ctl, counters, clocks, pins, queues, events>>

\* The app task takes the oldest completion event.
AppReceive ==
    /\ events # <<>>
    /\ events' = Tail(events)
    /\ UNCHANGED <<ctl, counters, clocks, pins, queues, notif>>

-----------------------------------------------------------------------------
(* motor_ctrl_task: receive a command or time out, then poll the phase *)

RecvTimeout ==
    /\ pc = "recv"
    /\ cmdQ = <<>>
    /\ phase # "idle"
    /\ Advance(1)
    /\ pc' = "poll"
    /\ UNCHANGED <<phase, act, mutex, counters, pins, queues, notif, events>>

\* A command that finds the mutex taken goes back to the front of the queue.
DeferCmd ==
    /\ pc = "recv"
    /\ cmdQ # <<>>
    /\ Head(cmdQ).kind # "stop"
    /\ mutex
    /\ pc' = "poll"
    /\ UNCHANGED <<phase, act, mutex, counters, clocks, pins, queues, notif, events>>

\* MOTOR_CMD_STOP ends the session without an event.
HandleStop(stop) ==
    /\ pc = "recv"
    /\ cmdQ # <<>>
    /\ Head(cmdQ).kind = "stop"
    /\ cmdQ' = Tail(cmdQ)
    /\ IF phase = "idle"
       THEN UNCHANGED <<ctl, counters, clocks, pins, events>>
       ELSE /\ instant' = FALSE
            /\ EndSession(stop, PhAfter(stop), events)
            /\ UNCHANGED <<pc, act, pulses, prevOpen, over, retries>>
    /\ UNCHANGED <<pend, notif>>

\* motor_ctrl_handle_cmd takes the mutex and makes the command the active one.
TakeCmd(kinds) ==
    /\ pc = "recv"
    /\ cmdQ # <<>>
    /\ Head(cmdQ).kind \in kinds
    /\ ~mutex
    /\ cmdQ' = Tail(cmdQ)
    /\ UNCHANGED <<pend, notif>>

\* A park that senses the beam open is done without moving.
ParkAligned ==
    /\ TakeCmd({"park"})
    /\ act' = Head(cmdQ)
    /\ retries' = 0
    /\ events' = Post("PARK_DONE")
    /\ UNCHANGED <<pc, phase, mutex, pulses, prevOpen, over, instant, ioFail>>
    /\ UNCHANGED <<clocks, pins>>

\* A burst or a park opens a session.
TakeRun(ledOk, phOk) ==
    /\ TakeCmd(Runs)
    /\ act' = Head(cmdQ)
    /\ retries' = 0
    /\ BeginRun(ledOk, phOk, "ok")

\* motor_ctrl_begin_bench_run up to the PH settle delay.
TakeBench(phOk) ==
    /\ TakeCmd({"fwd", "rev"})
    /\ act' = Head(cmdQ)
    /\ retries' = 0
    /\ IF phOk
       THEN /\ pc' = "start_bench"
            /\ mutex' = TRUE
            /\ ph' = Head(cmdQ).kind
            /\ UNCHANGED <<ioFail, events>>
       ELSE /\ events' = Post("MOTOR_FAULT")
            /\ ioFail' = 0
            /\ UNCHANGED <<pc, mutex, ph>>
    /\ UNCHANGED <<phase, pulses, prevOpen, over, instant>>
    /\ UNCHANGED <<elapsed, left, running, en, enLost, led, armed>>

\* The phase a start leads to, and the slices it then lasts.
StartPhase == CASE pc = "start_run" -> act.kind
                [] pc = "start_bench" -> "bench"
                [] pc = "start_antijam" -> phase
StartTicks == CASE pc = "start_run" -> left
                [] pc = "start_bench" -> BenchTicks
                [] pc = "start_antijam" -> AntijamTicks(phase)

\* The PH settle delay is over and EN is written.  A command that has just
\* been handled is polled at once; a retry goes back to the queue first.
StartDone ==
    /\ pc \in Starts
    /\ running' = TRUE
    /\ en' = TRUE
    /\ enLost' = FALSE
    /\ phase' = StartPhase
    /\ elapsed' = CapAt(elapsed + SettleTicks, RunMax)
    /\ left' = StartTicks
    /\ pc' = IF phase = "idle" THEN "poll" ELSE "recv"
    /\ UNCHANGED <<act, mutex, counters, ph, led, armed, queues, notif, events>>

\* EN could not be written: PH is released (if that write works) and the
\* session ends, except that an anti-jam step goes on without the movement.  The
\* driver does not run, so that the stop of the teardown writes nothing.
StartFailed(released) ==
    /\ WriteMayFail
    /\ pc \in Starts
    /\ pc' = "recv"
    /\ LET phV == IF released THEN "rev" ELSE ph
       IN IF pc = "start_antijam"
          THEN /\ elapsed' = CapAt(elapsed + SettleTicks, RunMax)
               /\ left' = StartTicks
               /\ ph' = phV
               /\ UNCHANGED <<phase, mutex, ioFail, running, en, enLost, led, armed, events>>
          ELSE EndSession("ok", phV, Post("MOTOR_FAULT"))
    /\ UNCHANGED <<act, pulses, prevOpen, over, retries, instant, queues, notif>>

-----------------------------------------------------------------------------
(* motor_ctrl_poll_run *)

PollTimeout(stop) ==
    /\ pc = "poll"
    /\ phase \in Runs \cup Antijam
    /\ elapsed >= RunMax
    /\ pc' = "recv"
    /\ Fault(stop)
    /\ UNCHANGED <<act, pulses, prevOpen, over, retries, instant>>
    /\ UNCHANGED <<queues, notif>>

\* motor_ctrl_detect_jam
JamDetected(load) ==
    \/ instant
    \/ load = "stall"
    \/ load = "high" /\ over + 1 >= SustainPolls
    \/ phase = "burst" /\ pulses = 0 /\ elapsed >= IndexTimeout

PollJam(load, phOk, stop) ==
    /\ pc = "poll"
    /\ phase \in Runs
    /\ elapsed < RunMax
    /\ JamDetected(load)
    /\ BeginAntijam(phOk, stop)
    /\ UNCHANGED <<act, pulses, prevOpen, queues, notif>>

\* The polls with a load above the sustained limit, in a row.
OverAfter(load) == CASE load = "high" -> over + 1
                     [] load = "low"  -> 0
                     [] load = "fail" -> over

\* No jam: the load is counted and the detector is sampled next.
PollLoad(load) ==
    /\ pc = "poll"
    /\ phase \in Runs
    /\ elapsed < RunMax
    /\ ~JamDetected(load)
    /\ over' = OverAfter(load)
    /\ pc' = "index"
    /\ UNCHANGED <<phase, act, mutex, pulses, prevOpen, retries, instant, ioFail>>
    /\ UNCHANGED <<clocks, pins, queues, notif, events>>

\* s_pulses counts the blocked-to-open edges.
PulsesAfter(read) == IF read = "open" /\ ~prevOpen THEN pulses + 1 ELSE pulses

RunDoneLate(read) ==
    CASE phase = "burst" -> read \in {"open", "blocked"} /\ PulsesAfter(read) > act.n
      [] phase = "park"  -> read = "open"

\* A burst ends at its pulse target and a park at an open beam.
RunDone(read) ==
    CASE phase = "burst" -> read \in {"open", "blocked"} /\ PulsesAfter(read) >= act.n
      [] phase = "park"  -> read = "open"

\* What one sample of the detector does: after it the task goes on at `more`
\* if the run goes on, and at `done` if the sample ends it.
Sample(read, stop, more, done) ==
    /\ pulses' = PulsesAfter(read)
    /\ prevOpen' = IF read \in {"open", "blocked"} THEN read = "open" ELSE prevOpen
    /\ IF RunDone(read)
       THEN /\ pc' = done
            /\ Finish(IF phase = "burst" THEN "BURST_DONE" ELSE "PARK_DONE", stop)
       ELSE IF read = "err" /\ ioFail + 1 >= IoFailMax
       THEN /\ pc' = done
            /\ Fault(stop)
       ELSE /\ pc' = more
            /\ ioFail' = CASE read = "err"  -> ioFail + 1
                           [] read = "none" -> ioFail
                           [] OTHER         -> 0
            /\ UNCHANGED <<phase, mutex, clocks, pins, events>>
    /\ UNCHANGED <<act, over, retries, instant, queues, notif>>

\* motor_ctrl_try_index_sample, due after an index interrupt.  When it ends
\* the run the task still waits for a notification.
IndexSample(read, stop) ==
    /\ pc = "index"
    /\ Sample(read, stop, "beam", "wait")

\* motor_ctrl_poll_session_beam, due at an interval of its own.
BeamSample(read, stop) ==
    /\ pc = "beam"
    /\ Sample(read, stop, "wait", "recv")

\* The end of motor_ctrl_poll_run waits one slice for a notification.
WaitTimeout ==
    /\ pc = "wait"
    /\ ~notif
    /\ Advance(1)
    /\ pc' = "recv"
    /\ UNCHANGED <<phase, act, mutex, counters, pins, queues, notif, events>>

\* An index interrupt ends the wait at once.  (With a deferred command the
\* queue receive does not block either: there the wait is taken as a slice.)
WaitIndex ==
    /\ pc = "wait"
    /\ ~notif
    /\ cmdQ = <<>>
    /\ pc' = "recv"
    /\ UNCHANGED <<phase, act, mutex, counters, clocks, pins, queues, notif, events>>

WaitNotified ==
    /\ pc = "wait"
    /\ notif
    /\ notif' = FALSE
    /\ instant' = TRUE
    /\ pc' = "recv"
    /\ UNCHANGED <<phase, act, mutex, pulses, prevOpen, over, retries, ioFail>>
    /\ UNCHANGED <<clocks, pins, queues, events>>

-----------------------------------------------------------------------------
(* motor_ctrl_poll_bench and motor_ctrl_poll_antijam *)

\* A bench run that is not due yet.  It does not block here: with a deferred
\* command at the head of the queue the loop spins until the next slice.
BenchRunning ==
    /\ pc = "poll"
    /\ phase = "bench"
    /\ left > 0
    /\ Advance(IF cmdQ = <<>> THEN 0 ELSE 1)
    /\ pc' = "recv"
    /\ UNCHANGED <<phase, act, mutex, counters, pins, queues, notif, events>>

BenchDone(stop) ==
    /\ pc = "poll"
    /\ phase = "bench"
    /\ left = 0
    /\ pc' = "recv"
    /\ Finish("TIMED_RUN_DONE", stop)
    /\ UNCHANGED <<act, pulses, prevOpen, over, retries, instant>>
    /\ UNCHANGED <<queues, notif>>

AntijamDelay ==
    /\ pc = "poll"
    /\ phase \in Antijam
    /\ elapsed < RunMax
    /\ left > 0
    /\ Advance(1)
    /\ pc' = "recv"
    /\ UNCHANGED <<phase, act, mutex, counters, pins, queues, notif, events>>

\* motor_ctrl_after_antijam_step: at the end of a movement the load decides
\* between starting the command again, the next wiggle and the next retry.
AntijamClear(load, phOk, stop) ==
    /\ pc = "poll"
    /\ phase \in Antijam
    /\ elapsed < RunMax
    /\ left = 0
    /\ load \in {"fail", "low"}
    /\ BeginRun(TRUE, phOk, stop)
    /\ UNCHANGED <<act, retries, queues, notif>>

AntijamPersists(load, phOk, stop) ==
    /\ pc = "poll"
    /\ phase \in Antijam
    /\ elapsed < RunMax
    /\ left = 0
    /\ load \in {"high", "stall"}
    /\ CASE phase = "rev" ->
              /\ StartAntijam("wiggle_fwd", "fwd", phOk, stop)
              /\ UNCHANGED <<mutex, over, retries, instant, ioFail, led, armed, elapsed, events>>
         [] phase = "wiggle_fwd" ->
              /\ StartAntijam("wiggle_rev", "rev", phOk, stop)
              /\ UNCHANGED <<mutex, over, retries, instant, ioFail, led, armed, elapsed, events>>
         [] phase = "wiggle_rev" ->
              BeginAntijam(phOk, stop)
    /\ UNCHANGED <<act, pulses, prevOpen, queues, notif>>

-----------------------------------------------------------------------------
Init ==
    /\ pend = [c \in Callers |-> NoCmd]
    /\ cmdQ = <<>>
    /\ pc = "recv"
    /\ phase = "idle"
    /\ act = NoCmd
    /\ mutex = FALSE
    /\ pulses = 0
    /\ prevOpen = FALSE
    /\ elapsed = 0
    /\ left = 0
    /\ over = 0
    /\ retries = 0
    /\ instant = FALSE
    /\ ioFail = 0
    /\ notif = FALSE
    /\ armed = FALSE
    /\ running = FALSE
    /\ en = FALSE
    /\ enLost = FALSE
    /\ ph = "rev"
    /\ led = FALSE
    /\ events = <<>>

Loop ==
    \/ RecvTimeout
    \/ DeferCmd
    \/ ParkAligned
    \/ \E ledOk, phOk \in Writes : TakeRun(ledOk, phOk)
    \/ \E phOk \in Writes : TakeBench(phOk)
    \/ \E stop \in Stops : HandleStop(stop)
    \/ StartDone
    \/ \E released \in BOOLEAN : StartFailed(released)
    \/ \E stop \in Stops : PollTimeout(stop)
    \/ \E load \in Loads, phOk \in Writes, stop \in Stops : PollJam(load, phOk, stop)
    \/ \E load \in Loads : PollLoad(load)
    \/ \E read \in Reads, stop \in Stops :
          \/ IndexSample(read, stop)
          \/ BeamSample(read, stop)
    \/ WaitTimeout
    \/ WaitIndex
    \/ WaitNotified
    \/ BenchRunning
    \/ \E stop \in Stops : BenchDone(stop)
    \/ AntijamDelay
    \/ \E load \in Loads, phOk \in Writes, stop \in Stops :
          \/ AntijamClear(load, phOk, stop)
          \/ AntijamPersists(load, phOk, stop)

Next ==
    \/ \E c \in Callers : \E cmd \in Cmds : CheckIdle(c, cmd)
    \/ \E c \in Callers : Enqueue(c)
    \/ JamIsr
    \/ AppReceive
    \/ Loop

\* The task has the highest application priority: it never stops looping.
Spec == Init /\ [][Next]_vars /\ WF_vars(Loop)

-----------------------------------------------------------------------------
(* The promise of the motor port, which the task implements *)

Port == INSTANCE MotorPort WITH
            queue   <- cmdQ,
            session <- IF mutex THEN act ELSE NoCmd,
            busy    <- phase # "idle"

-----------------------------------------------------------------------------
(* Properties *)

TypeOK ==
    /\ pend \in [Callers -> Cmds \cup {NoCmd}]
    /\ cmdQ \in Seq(Cmds)
    /\ Len(cmdQ) <= CmdDepth
    /\ pc \in Pcs
    /\ phase \in Phases
    /\ act \in Cmds \cup {NoCmd}
    /\ mutex \in BOOLEAN
    /\ pulses \in Nat
    /\ prevOpen \in BOOLEAN
    /\ elapsed \in 0..RunMax
    /\ left \in Nat
    /\ over \in Nat
    /\ retries \in 0..MaxRetries
    /\ instant \in BOOLEAN
    /\ ioFail \in Nat
    /\ notif \in BOOLEAN
    /\ armed \in BOOLEAN
    /\ running \in BOOLEAN
    /\ en \in BOOLEAN
    /\ enLost \in BOOLEAN
    /\ ph \in {"fwd", "rev"}
    /\ led \in BOOLEAN
    /\ events \in Seq([type : {"BURST_DONE", "PARK_DONE", "TIMED_RUN_DONE", "MOTOR_FAULT"}])
    /\ Len(events) <= EventDepth

\* A session is open from the moment the task takes the command until it tears
\* the session down; through the settle delay s_phase may still be idle.
SessionOpen == phase # "idle" \/ pc \in {"start_run", "start_bench"}

\* The mutex is held exactly while a session is open: a path that returned
\* without giving it back would refuse every later command forever, and one
\* that gave it back early would let two sessions drive the motor.
MutexIffSession == mutex <=> SessionOpen

\* With no session open nothing drives or watches the motor: the driver is not
\* running, interrupts are disarmed, the index LED session is closed, and EN is
\* low, unless every attempt of the last stop to write it failed.  No step of a
\* start, a stop or an anti-jam movement that fails otherwise leaves it high.
SafeAtRest ==
    ~SessionOpen => /\ ~running
                    /\ ~armed
                    /\ ~led
                    /\ en => enLost

\* The bridge is enabled only in a direction its phase calls for: forward in a
\* burst, a park and a forward wiggle, backward in the reverse movements.  (After
\* a stop that could not write EN low it is not the phase that drives it.)
DirectionMatchesPhase ==
    en /\ ~enLost =>
        CASE phase \in Runs \cup {"wiggle_fwd"} -> ph = "fwd"
          [] phase \in {"rev", "wiggle_rev"}    -> ph = "rev"
          [] OTHER                              -> phase = "bench" /\ ph = act.kind

\* The PH pin is never switched while the bridge is powered.
PhSwitchesUnpowered == [][ph' # ph => ~en']_vars

\* BURST_DONE is reported only for a burst that counted its target of pulses,
\* in the attempt that ended it.
Posted(e) == events' = Append(events, [type |-> e])
BurstDoneCounted == [][Posted("BURST_DONE") => phase = "burst" /\ pulses' = act.n]_vars

\* Whatever the load, the detector and the I2C bus do, a session ends.
SessionEnds == mutex ~> ~mutex
=============================================================================
