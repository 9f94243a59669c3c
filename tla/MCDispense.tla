---------------------------- MODULE MCDispense ----------------------------
(***************************************************************************)
(* Instances of Dispense for TLC, with two history variables that remember *)
(* what went wrong before: neither influences the program.                 *)
(***************************************************************************)
EXTENDS Dispense

VARIABLES
    divided,  \* a submission was cut by another task's, or by a request's start
    crossed   \* a bench command overlapped with a submission or a job

Ask(source, kind, target) == [source |-> source, kind |-> kind, target |-> target]

\* One unit is 5 g, a portion 2 of them.  The command line task asks for the
\* "uart" feeds, the app task for the others.
TaskOfSource == [s \in Sources |-> IF s = "uart" THEN Cli ELSE App]
Feeds == {Ask("schedule", "grams", 3), Ask("uart", "portions", 2)}

BenchFwd == {[kind |-> "fwd", n |-> 1]}
NoSession == [kind |-> "none", n |-> 1]

-----------------------------------------------------------------------------
Takes(type) == appQ # <<>> /\ Head(appQ).type = type /\ appQ' = Tail(appQ)

Divides ==
    \E t \in Tasks :
        /\ call[t] # NoCall
        /\ call'[t] = call[t]
        /\ call' # call \/ handler' # handler \/ Takes("REQUEST")

Crosses ==
    LET submits   == \E t \in Tasks : call[t] = NoCall /\ call'[t] # NoCall
        inHand    == Active \/ handler # "idle" \/ \E t \in Tasks : call[t] # NoCall
        underWay  == queue # <<>> \/ session # NoMotorCmd \/ appQ # <<>>
        benchAsks == bench = "idle" /\ bench' = "asked"
    IN (benchAsks /\ inHand) \/ (submits /\ ~inHand /\ underWay)

HInit == DispInit /\ divided = FALSE /\ crossed = FALSE
HNext ==
    /\ DispNext
    /\ divided' = (divided \/ Divides)
    /\ crossed' = (crossed \/ Crosses)
HSpec == HInit /\ [][HNext]_<<dispVars, divided, crossed>> /\ Fairness

-----------------------------------------------------------------------------
\* Exactly one burst is under way or answered while a job waits for the motor
\* (dispense_kick_motor), and none otherwise: a burst is never started twice,
\* outlives its job or goes unanswered, however submissions race.  Only a bench
\* command that overlaps with a job can break it.
OneBurstPerWait ==
    ~crossed =>
        IF stage = "motor" /\ handler = "idle"
        THEN InMotor + Answers({"BURST_DONE", "MOTOR_FAULT"}) = 1
        ELSE InMotor + Answers({"BURST_DONE"}) = 0

\* A job that is marked pending has a request in the queue (s_job_pending): if
\* it had not, no event would clear the mark and every later request would be
\* refused.  Only submissions that cut each other can break it.  The types of
\* Dispense are checked along with it.
PendingHasRequest ==
    /\ DispTypeOK
    /\ pending /\ ~divided => \E i \in DOMAIN appQ : appQ[i].type = "REQUEST"

\* scheduler-engine.md: a slot is `dispensing` while the supervisor is active.
\* Only a job refused after its submission can break it (dispense.c, "motor
\* refused"), and only after one of the overlaps the flags remember.
SlotHasJob == slot /\ ~divided /\ ~crossed => Active \/ handler # "idle"
===========================================================================
