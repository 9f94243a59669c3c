----------------------------- MODULE Dispense -----------------------------
(***************************************************************************)
(* The dispense supervisor (firmware/src/dispense.c) between the tasks     *)
(* that ask for food and the motor port, over the app event queue.         *)
(*                                                                         *)
(* Food is asked for from the app task (schedule, buttons, MQTT), from the *)
(* UART and remote command lines and from the web server.  All of them     *)
(* call dispense_submit_*, which tests the job flags, posts a request to   *)
(* the app queue and sets s_job_pending, in this order and with no lock.   *)
(* Only the app task receives from the queue: it starts the job, hears of  *)
(* the end of its burst, waits for the bowl to settle, weighs it and       *)
(* either kicks another burst or publishes the outcome.  The command line  *)
(* also drives the motor by itself (motor park, motor fwd).                *)
(*                                                                         *)
(* The motor is the abstract MotorPort, which MotorCtrl implements.        *)
(* Weights are in units of DISPENSE_COMP_TOLERANCE_G.  The scale may read  *)
(* anything: animals eat, bowls are taken away.                            *)
(***************************************************************************)
EXTENDS Integers, Sequences, FiniteSets

CONSTANTS
    Tasks,       \* tasks that submit requests, App among them
    App,         \* the app task
    Cli,         \* the command line task
    Requests,    \* requests [source, kind, target]: what each source may ask
    TaskOf,      \* TaskOf[source]: the task that submits for a source
    BenchCmds,   \* motor commands of the bench command line
    AppDepth,    \* APP_EVENT_QUEUE_DEPTH, for the events of this module
    MotorDepth,  \* MOTOR_CTRL_CMD_QUEUE_DEPTH
    MaxWeight,   \* bound: the scale reads 0..MaxWeight
    Portion,     \* DISPENSE_GRAMS_PER_PORTION
    Tolerance,   \* DISPENSE_COMP_TOLERANCE_G
    MaxPortions, \* DISPENSE_PORTIONS_MAX
    MaxBatches,  \* DISPENSE_COMP_MAX_BATCHES
    GiveUp,      \* DISPENSE_COMP_ZERO_DELTA_GIVEUP
    NoMotorCmd   \* no motor session

Sources == {"mqtt", "uart", "button", "schedule"}
RequestSet == [source : Sources, kind : {"grams", "portions"}, target : Nat \ {0}]
Modes == {"open_loop", "compensated"}

ASSUME DispenseAssumption ==
    /\ App \in Tasks
    /\ Requests \subseteq RequestSet
    /\ TaskOf \in [Sources -> Tasks]
    /\ AppDepth \in Nat \ {0}
    /\ MotorDepth \in Nat \ {0}
    /\ MaxWeight \in Nat
    /\ Portion \in Nat \ {0}
    /\ Tolerance \in Nat
    /\ MaxPortions \in Nat \ {0}
    /\ MaxBatches \in Nat \ {0}
    /\ GiveUp \in Nat \ {0}

\* The schedule submits from the app task, and only the supervisor asks for a
\* burst: the bench commands are park, fwd and rev.
ASSUME CommandsApart ==
    /\ TaskOf["schedule"] = App
    /\ \A c \in BenchCmds : c.kind # "burst"
    /\ NoMotorCmd.kind # "burst"

VARIABLES
    appQ,      \* the app event queue: requests and motor completions
    queue,     \* MotorPort: accepted motor commands
    session,   \* MotorPort: the command being carried out
    busy,      \* MotorPort: is_active()
    call,      \* call[t]: where task t is in dispense_submit_*
    handler,   \* where the app task is in dispense_start_from_request
    pending,   \* s_job_pending
    stage,     \* s_phase
    job,       \* s_source, s_target_dg, s_mode, s_batch_count
    outcome,   \* s_outcome: how the last burst ended
    scale,     \* s_baseline_valid, s_baseline_dg, s_last_settle_dg
    streak,    \* s_zero_delta_streak
    settling,  \* s_settle_start_ms is set
    empty,     \* the hopper's s_empty_latched
    slot,      \* the schedule's s_active_valid
    cliWait,   \* the command line waits for the job it asked for
    bench      \* the bench command: "idle", "asked" or "wait"

motorVars == <<queue, session, busy>>
jobVars == <<pending, stage, job, outcome, scale, streak, settling>>
notices == <<empty, slot, cliWait>>
dispVars == <<appQ, motorVars, call, handler, jobVars, notices, bench>>

Motor == INSTANCE MotorPort WITH
            Cmds <- [kind : {"burst"}, n : 1..MaxPortions] \cup BenchCmds,
            NoCmd <- NoMotorCmd,
            CmdDepth <- MotorDepth,
            EventDepth <- AppDepth,
            events <- appQ

NoCall == [step |-> "idle"]
NoJob == [source |-> "mqtt", target |-> 0, mode |-> "open_loop", batch |-> 0]
NoScale == [valid |-> FALSE, base |-> 0, last |-> 0]
Burst(n) == [kind |-> "burst", n |-> n]

\* dispense_is_active
Active == pending \/ stage # "none"

AppIdle == handler = "idle" /\ call[App] = NoCall

Max2(a, b) == IF a > b THEN a ELSE b
Min2(a, b) == IF a < b THEN a ELSE b

-----------------------------------------------------------------------------
(* dispense_submit_portions and dispense_submit_grams *)

\* The job flags and the motor are looked at, one after the other.
SubmitCheck(r) ==
    LET t == TaskOf[r.source] IN
    /\ call[t] = NoCall
    /\ t = App => handler = "idle"
    /\ t = Cli => bench # "asked"
    /\ ~Active
    /\ ~busy
    /\ call' = [call EXCEPT ![t] = [step |-> "post", req |-> r]]
    /\ UNCHANGED <<appQ, motorVars, handler, jobVars, notices, bench>>

\* app_event_post: a full queue is reported as busy.
SubmitPost(t) ==
    /\ call[t].step = "post"
    /\ IF Len(appQ) < AppDepth
       THEN /\ appQ' = Append(appQ, [type |-> "REQUEST", req |-> call[t].req])
            /\ call' = [call EXCEPT ![t].step = "mark"]
       ELSE /\ call' = [call EXCEPT ![t] = NoCall]
            /\ UNCHANGED appQ
    /\ UNCHANGED <<motorVars, handler, jobVars, notices, bench>>

\* The job is marked pending, and the caller notes that it was accepted: the
\* schedule its active slot, the command line that it waits for the job.
SubmitMark(t) ==
    /\ call[t].step = "mark"
    /\ pending' = TRUE
    /\ call' = [call EXCEPT ![t] = NoCall]
    /\ slot' = (slot \/ call[t].req.source = "schedule")
    /\ cliWait' = (cliWait \/ call[t].req.source = "uart")
    /\ UNCHANGED <<appQ, motorVars, handler, stage, job, outcome, scale, streak>>
    /\ UNCHANGED <<settling, empty, bench>>

-----------------------------------------------------------------------------
(* The app task: dispense_start_from_request *)

Receive(type) ==
    /\ AppIdle
    /\ appQ # <<>>
    /\ Head(appQ).type = type
    /\ appQ' = Tail(appQ)

\* A request that finds no pending mark, or a job running, is dropped, and
\* takes the mark and the command line's wait with it.
RequestDropped ==
    /\ Receive("REQUEST")
    /\ ~pending \/ stage # "none"
    /\ pending' = FALSE
    /\ cliWait' = FALSE
    /\ UNCHANGED <<motorVars, call, handler, stage, job, outcome, scale, streak>>
    /\ UNCHANGED <<settling, empty, slot, bench>>

\* Mistakes, to show that the properties notice them (as are the other
\* definitions below that name what is done wrong): a request that does not
\* look at the phase; one that leaves the mark.
RequestAcceptedTwice(mode) ==
    /\ Receive("REQUEST")
    /\ pending
    /\ job' = [source |-> Head(appQ).req.source, target |-> Head(appQ).req.target,
               mode |-> mode, batch |-> 1]
    /\ streak' = 0
    /\ pending' = FALSE
    /\ handler' = "begin"
    /\ UNCHANGED <<motorVars, call, stage, outcome, scale, settling, notices, bench>>
RequestAcceptedStaysMarked(mode) ==
    /\ Receive("REQUEST")
    /\ pending
    /\ stage = "none"
    /\ job' = [source |-> Head(appQ).req.source, target |-> Head(appQ).req.target,
               mode |-> mode, batch |-> 1]
    /\ streak' = 0
    /\ handler' = "begin"
    /\ UNCHANGED <<motorVars, call, pending, stage, outcome, scale, settling, notices, bench>>

\* The job is filled in and the mark cleared, and the phase set some statements
\* later: a task that preempts the app task there sees neither.
\* Portions asked for on the command line are never compensated.
RequestAccepted(mode) ==
    /\ Receive("REQUEST")
    /\ pending
    /\ stage = "none"
    /\ LET r == Head(appQ).req
       IN job' = [source |-> r.source,
                  target |-> r.target,
                  mode   |-> IF r.kind = "portions" /\ r.source = "uart"
                             THEN "open_loop" ELSE mode,
                  batch  |-> 1]
    /\ streak' = 0
    /\ pending' = FALSE
    /\ handler' = "begin"
    /\ UNCHANGED <<motorVars, call, stage, outcome, scale, settling, notices, bench>>

\* The phase is set and the baseline captured, for which the scale may be read
\* for 50 ms before the kick.
JobBegins(read) ==
    /\ handler = "begin"
    /\ stage' = "motor"
    /\ scale' = IF read.ok
                THEN [valid |-> TRUE, base |-> read.dg, last |-> read.dg]
                ELSE NoScale
    /\ handler' = "kick"
    /\ UNCHANGED <<appQ, motorVars, call, pending, job, outcome, streak>>
    /\ UNCHANGED <<settling, notices, bench>>

\* The job is over.  What it leaves in its variables is overwritten by the next
\* one before it is read, and is forgotten here.
Forget ==
    /\ stage' = "none"
    /\ job' = NoJob
    /\ scale' = NoScale
    /\ streak' = 0
    /\ settling' = FALSE
    /\ outcome' = "success"

\* dispense_kick_motor
CanKick == ~busy /\ Len(queue) < MotorDepth

PlannedPortions ==
    Min2(Max2((job.target + Portion - 1) \div Portion, 1), MaxPortions)

JobKicked ==
    /\ handler = "kick"
    /\ CanKick
    /\ Motor!Accept(Burst(PlannedPortions))
    /\ handler' = "idle"
    /\ UNCHANGED <<call, jobVars, notices, bench>>

\* The motor refuses: the job is given up without an event.
JobRefused ==
    /\ handler = "kick"
    /\ ~CanKick
    /\ Forget
    /\ cliWait' = FALSE
    /\ handler' = "idle"
    /\ UNCHANGED <<appQ, motorVars, call, pending, empty, slot, bench>>

-----------------------------------------------------------------------------
(* The app task: completion events and the settle timer *)

\* dispense_begin_settle
BeginSettle(result) ==
    /\ stage' = "settle"
    /\ outcome' = result
    /\ settling' = FALSE
    /\ UNCHANGED <<pending, job, scale, streak>>

OnBurstDone ==
    /\ Receive("BURST_DONE")
    /\ IF stage = "motor" THEN BeginSettle("success") ELSE UNCHANGED jobVars
    /\ UNCHANGED <<motorVars, call, handler, notices, bench>>

OnMotorFaultUnrouted ==
    /\ Receive("MOTOR_FAULT")
    /\ bench' = IF bench = "wait" THEN "idle" ELSE bench
    /\ UNCHANGED <<motorVars, call, handler, jobVars, notices>>

\* A fault is the job's if there is one that turns, else the bench command's.
OnMotorFault ==
    /\ Receive("MOTOR_FAULT")
    /\ IF stage = "motor"
       THEN BeginSettle("stuck") /\ UNCHANGED bench
       ELSE /\ bench' = IF bench = "wait" THEN "idle" ELSE bench
            /\ UNCHANGED jobVars
    /\ UNCHANGED <<motorVars, call, handler, notices>>

\* motor_cli_on_park_done and motor_cli_on_timed_run_done
OnBenchDone ==
    /\ \E type \in {"PARK_DONE", "TIMED_RUN_DONE"} : Receive(type)
    /\ bench' = IF bench = "wait" THEN "idle" ELSE bench
    /\ UNCHANGED <<motorVars, call, handler, jobVars, notices>>

\* The first poll of dispense_poll in the settle phase starts its timer.
SettleStarts ==
    /\ AppIdle
    /\ stage = "settle"
    /\ ~settling
    /\ settling' = TRUE
    /\ UNCHANGED <<appQ, motorVars, call, handler, pending, stage, job, outcome>>
    /\ UNCHANGED <<scale, streak, notices, bench>>

SettlesSlotUnlessStuck == job.source = "schedule" /\ outcome # "stuck"

\* The end of a job of the schedule settles its active slot.
SettlesSlot == job.source = "schedule"

\* dispense_publish_terminal with hopper_level_on_dispense_finished: a job
\* that gained weight clears the empty latch, an underfill or a job that gained
\* nothing with the hopper sensor low sets it.  (A success with the latch set is
\* reported as an empty hopper; the report leaves the model.)
Publish(result, measured, gain, low) ==
    /\ empty' = \/ result = "underfill"
                \/ result = "success" /\ measured /\ gain <= 0 /\ low
                \/ empty /\ ~(result = "success" /\ measured /\ gain > 0)
    /\ slot' = (slot /\ ~SettlesSlot)
    /\ cliWait' = FALSE
    /\ pending' = FALSE
    /\ Forget
    /\ UNCHANGED motorVars

\* No further batch is tried.
BatchesSpent(streakN) == job.batch >= MaxBatches \/ streakN >= GiveUp

\* dispense_after_settle, once DISPENSE_SETTLE_MS have passed.  read: the scale
\* after the settle; trusted: no bowl error; low: the hopper sensor.
AfterSettle(read, trusted, low) ==
    /\ AppIdle
    /\ stage = "settle"
    /\ settling
    /\ LET weighed  == scale.valid /\ read.ok
           measured == weighed /\ trusted
           gain     == IF weighed THEN read.dg - scale.base ELSE 0
           streakN  == IF ~weighed THEN streak
                       ELSE IF read.dg <= scale.last THEN streak + 1 ELSE 0
           deficit  == job.target - gain
           extra    == Min2(Max2(deficit \div Portion, 1), MaxPortions)
           over     == \/ outcome = "stuck"
                       \/ job.mode = "open_loop"
                       \/ ~measured
           met      == gain >= job.target - Tolerance
           spent    == BatchesSpent(streakN)
       IN CASE over -> Publish(outcome, measured, gain, low)
            [] ~over /\ met -> Publish("success", measured, gain, low)
            [] ~over /\ ~met /\ spent -> Publish("underfill", measured, gain, low)
            [] ~over /\ ~met /\ ~spent /\ ~CanKick -> Publish("aborted", measured, gain, low)
            [] OTHER ->
                 /\ queue' = Append(queue, Burst(extra))
                 /\ job' = [job EXCEPT !.batch = @ + 1]
                 /\ scale' = [scale EXCEPT !.last = read.dg]
                 /\ streak' = streakN
                 /\ stage' = "motor"
                 /\ settling' = FALSE
                 /\ UNCHANGED <<session, busy, pending, outcome, notices>>
    /\ UNCHANGED <<appQ, call, handler, bench>>

-----------------------------------------------------------------------------
(* The bench command line, the hopper sensor and the motor *)

\* motor_cli_handle_{park,fwd,rev}: the command is sent first, and the command
\* line waits for its end afterwards.
BenchRequest(cmd) ==
    /\ call[Cli] = NoCall
    /\ bench = "idle"
    /\ ~busy
    /\ Motor!Accept(cmd)
    /\ bench' = "asked"
    /\ UNCHANGED <<call, handler, jobVars, notices>>

BenchWaits ==
    /\ bench = "asked"
    /\ bench' = "wait"
    /\ UNCHANGED <<appQ, motorVars, call, handler, jobVars, notices>>

\* hopper_level_poll: the hopper sensor sees food again.
HopperFilled ==
    /\ AppIdle
    /\ empty
    /\ empty' = FALSE
    /\ UNCHANGED <<appQ, motorVars, call, handler, jobVars, slot, cliWait, bench>>

\* Nothing in the product sends the motor a stop.
MotorStep ==
    /\ Motor!Open \/ Motor!Turn \/ Motor!Answer \/ Motor!Close
    /\ UNCHANGED <<call, handler, jobVars, notices, bench>>

-----------------------------------------------------------------------------
ScaleReads == [ok : {TRUE}, dg : 0..MaxWeight] \cup {[ok |-> FALSE]}

DispInit ==
    /\ appQ = <<>>
    /\ Motor!Init
    /\ call = [t \in Tasks |-> NoCall]
    /\ handler = "idle"
    /\ pending = FALSE
    /\ stage = "none"
    /\ job = NoJob
    /\ outcome = "success"
    /\ scale = NoScale
    /\ streak = 0
    /\ settling = FALSE
    /\ empty = FALSE
    /\ slot = FALSE
    /\ cliWait = FALSE
    /\ bench = "idle"

AppStep ==
    \/ RequestDropped
    \/ \E mode \in Modes : RequestAccepted(mode)
    \/ \E read \in ScaleReads : JobBegins(read)
    \/ JobKicked
    \/ JobRefused
    \/ OnBurstDone
    \/ OnMotorFault
    \/ OnBenchDone

\* dispense_poll, on the display and timer ticks.
Poll ==
    \/ SettleStarts
    \/ \E read \in ScaleReads, trusted, low \in BOOLEAN : AfterSettle(read, trusted, low)

Returns(t) == SubmitPost(t) \/ SubmitMark(t)

DispNext ==
    \/ \E r \in Requests : SubmitCheck(r)
    \/ \E t \in Tasks : Returns(t)
    \/ AppStep
    \/ Poll
    \/ \E cmd \in BenchCmds : BenchRequest(cmd)
    \/ BenchWaits
    \/ HopperFilled
    \/ MotorStep

\* Every task gets to run, the motor serves, and the ticks that poll the
\* supervisor keep coming.
Fairness ==
    /\ WF_dispVars(AppStep)
    /\ WF_dispVars(Poll)
    /\ WF_dispVars(MotorStep)
    /\ WF_dispVars(BenchWaits)
    /\ \A t \in Tasks : WF_dispVars(Returns(t))

DispSpec == DispInit /\ [][DispNext]_dispVars /\ Fairness

-----------------------------------------------------------------------------
(* Properties *)

DispTypeOK ==
    /\ appQ \in Seq([type : {"REQUEST"}, req : Requests]
                    \cup [type : {"BURST_DONE", "MOTOR_FAULT", "PARK_DONE", "TIMED_RUN_DONE"}])
    /\ Len(appQ) <= AppDepth
    /\ Len(queue) <= MotorDepth
    /\ call \in [Tasks -> {NoCall} \cup [step : {"post", "mark"}, req : Requests]]
    /\ handler \in {"idle", "begin", "kick"}
    /\ pending \in BOOLEAN
    /\ stage \in {"none", "motor", "settle"}
    /\ job.batch \in 0..MaxBatches
    /\ outcome \in {"success", "stuck"}
    /\ bench \in {"idle", "asked", "wait"}

\* Bursts of a job on their way to the motor or turning, and answers that the
\* app task has not heard.
InMotor == Cardinality({i \in DOMAIN queue : queue[i].kind = "burst"})
           + (IF session # NoMotorCmd /\ session.kind = "burst" THEN 1 ELSE 0)
Answers(types) == Cardinality({i \in DOMAIN appQ : appQ[i].type \in types})

\* A job ends.
JobEnds == stage # "none" ~> stage = "none"

\* The mark of a pending job does not stay.
PendingClears == pending ~> ~pending
=============================================================================
