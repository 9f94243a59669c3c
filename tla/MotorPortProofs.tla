------------------------- MODULE MotorPortProofs -------------------------
(***************************************************************************)
(* Proofs about the steps of MotorCtrl: every one of them is a step of     *)
(* MotorPort or leaves the port as it is, and what a single step may never *)
(* do to the pins and to the count of pulses.  All rest on the inductive   *)
(* invariant of MotorCtrlProofs; that a burst is reported with its exact   *)
(* count needs that no step leaves a burst with its target reached         *)
(* (UnderTarget).                                                          *)
(***************************************************************************)
EXTENDS MotorCtrlProofs

\* Away from the first settle delay of a session the phase tells that one is
\* open.
LEMMA BusyIffSession ==
    ASSUME IInv, pc \notin {"start_run", "start_bench"}
    PROVE  mutex <=> phase # "idle"
BY DEF IInv, MutexIffSession, SessionOpen

\* The command of an open session is one that a sender asked for.
LEMMA SessionHasCmd ==
    ASSUME IInv, mutex
    PROVE  act \in Cmds /\ act # NoCmd /\ act.kind # "stop"
<1>1. act.kind \in Runs \cup {"fwd", "rev"}
  BY DEF IInv, MutexIffSession, SessionOpen, StartInv, LoopInv, TypeOK, Phases
<1>2. act \in Cmds \cup {NoCmd}
  BY DEF IInv, TypeOK
<1> QED BY <1>1, <1>2 DEF NoCmd, Runs

\* A step that changes neither the queues nor the session is none of the port's.
LEMMA Stutters ==
    ASSUME UNCHANGED <<cmdQ, mutex, events>>, mutex => act' = act, phase' # "idle" <=> phase # "idle"
    PROVE  UNCHANGED Port!vars
BY DEF Port!vars

\* A session that ends with an event of its command, or a fault, is closed.
LEMMA Closes ==
    ASSUME IInv, mutex, mutex' = FALSE, phase' = "idle", cmdQ' = cmdQ,
           NEW e, e = Port!DoneEvent(act) \/ e = "MOTOR_FAULT", events' = Post(e)
    PROVE  Port!Close
<1>1. (IF mutex THEN act ELSE NoCmd) = act /\ act # NoCmd
  BY SessionHasCmd
<1>2. Post(e) = Port!Post(e)
  BY DEF Post, Port!Post
<1>3. e \in Port!Outcomes(act)
  BY DEF Port!Outcomes
<1> QED BY <1>1, <1>2, <1>3 DEF Port!Close

\* So is one that ends with a fault, wherever it comes from.
LEMMA FaultCloses ==
    ASSUME IInv, mutex, cmdQ' = cmdQ, NEW stop, Fault(stop)
    PROVE  Port!Close
<1>1. mutex' = FALSE /\ phase' = "idle" /\ events' = Post("MOTOR_FAULT")
  BY DEF Fault, EndSession
<1> QED BY <1>1, Closes

\* A command that leaves the queue while no session is open, and is answered.
LEMMA Answers ==
    ASSUME IInv, ~mutex, cmdQ # <<>>, Head(cmdQ).kind # "stop", cmdQ' = Tail(cmdQ),
           mutex' = FALSE, phase' # "idle" <=> phase # "idle",
           NEW e, e = Port!DoneEvent(Head(cmdQ)) \/ e = "MOTOR_FAULT", events' = Post(e)
    PROVE  Port!Answer
<1>1. Post(e) = Port!Post(e)
  BY DEF Post, Port!Post
<1>2. e \in Port!Outcomes(Head(cmdQ))
  BY DEF Port!Outcomes
<1> QED BY <1>1, <1>2 DEF Port!Answer

\* A command that leaves the queue and opens a session, which does not show yet.
LEMMA Opens ==
    ASSUME IInv, ~mutex, cmdQ # <<>>, Head(cmdQ).kind # "stop", cmdQ' = Tail(cmdQ),
           mutex' = TRUE, act' = Head(cmdQ), UNCHANGED <<phase, events>>
    PROVE  Port!Open
BY DEF Port!Open

-----------------------------------------------------------------------------
(* The steps of the task, as the port's *)

\* A command that is enqueued is accepted, or refused by a full queue.
LEMMA SendersStep ==
    ASSUME IInv, NEW c \in Callers, (\E cmd \in Cmds : CheckIdle(c, cmd)) \/ Enqueue(c)
    PROVE  [Port!Next]_(Port!vars)
<1>1. CASE \E cmd \in Cmds : CheckIdle(c, cmd)
  BY <1>1, Stutters DEF CheckIdle, ctl
<1>2. CASE Enqueue(c)
  <2>1. UNCHANGED <<mutex, act, phase, events>>
    BY <1>2 DEF Enqueue, ctl
  <2>2. CASE Len(cmdQ) < CmdDepth
    <3>1. pend[c] \in Cmds
      BY <1>2 DEF IInv, TypeOK, Enqueue
    <3>2. cmdQ' = Append(cmdQ, pend[c])
      BY <1>2, <2>2 DEF Enqueue
    <3>3. Port!Accept(pend[c])
      BY <2>1, <2>2, <3>2 DEF Port!Accept
    <3> QED BY <3>1, <3>3 DEF Port!Next
  <2>3. CASE ~(Len(cmdQ) < CmdDepth)
    <3>1. cmdQ' = cmdQ
      BY <1>2, <2>3 DEF Enqueue
    <3> QED BY <2>1, <3>1, Stutters
  <2> QED BY <2>2, <2>3
<1> QED BY <1>1, <1>2

\* The app receives from the port.
LEMMA ReceiveStep == ASSUME AppReceive PROVE Port!Receive
BY DEF AppReceive, ctl, queues, Port!Receive

\* What passes leaves the port as it is.
LEMMA PassingStutters ==
    ASSUME IInv,
           \/ JamIsr \/ RecvTimeout \/ DeferCmd \/ WaitTimeout \/ WaitIndex \/ WaitNotified
           \/ BenchRunning \/ AntijamDelay \/ \E load \in Loads : PollLoad(load)
    PROVE  UNCHANGED Port!vars
<1>1. CASE \/ RecvTimeout \/ DeferCmd \/ WaitTimeout \/ WaitIndex \/ WaitNotified
           \/ BenchRunning \/ AntijamDelay
  BY <1>1, PassingSteps, Stutters DEF Passes, queues
<1>2. CASE JamIsr
  BY <1>2, Stutters DEF JamIsr, ctl, queues
<1>3. CASE \E load \in Loads : PollLoad(load)
  BY <1>3, Stutters DEF PollLoad, queues
<1> QED BY <1>1, <1>2, <1>3

\* A stop takes the session with it.
LEMMA StopStep ==
    ASSUME IInv, NEW stop \in Stops, HandleStop(stop)
    PROVE  Port!Stop
<1>1. cmdQ # <<>> /\ Head(cmdQ).kind = "stop" /\ cmdQ' = Tail(cmdQ) /\ pc = "recv"
  BY DEF HandleStop
<1>2. mutex' = FALSE /\ phase' = "idle" /\ events' = events
  <2>1. CASE phase = "idle"
    BY <1>1, <2>1, BusyIffSession DEF HandleStop, ctl, IInv, TypeOK
  <2>2. CASE phase # "idle"
    BY <2>2 DEF HandleStop, EndSession
  <2> QED BY <2>1, <2>2
<1> QED BY <1>1, <1>2 DEF Port!Stop

\* A command that is taken opens a session or is answered.
LEMMA TakeStep ==
    ASSUME IInv,
           \/ ParkAligned
           \/ \E ledOk, phOk \in Writes : TakeRun(ledOk, phOk)
           \/ \E phOk \in Writes : TakeBench(phOk)
    PROVE  Port!Open \/ Port!Answer
<1>1. /\ pc = "recv" /\ cmdQ # <<>> /\ Head(cmdQ).kind # "stop" /\ ~mutex
      /\ cmdQ' = Tail(cmdQ)
  BY DEF ParkAligned, TakeRun, TakeBench, TakeCmd, Runs
<1>2. phase = "idle" /\ mutex = FALSE
  BY <1>1, BusyIffSession DEF IInv, TypeOK
<1>3. CASE ParkAligned
  <2>1. mutex' = FALSE /\ phase' = phase /\ events' = Post("PARK_DONE")
    BY <1>2, <1>3 DEF ParkAligned
  <2>2. Port!DoneEvent(Head(cmdQ)) = "PARK_DONE"
    BY <1>3 DEF ParkAligned, TakeCmd, Port!DoneEvent
  <2> QED BY <1>1, <1>2, <2>1, <2>2, Answers
<1>4. ASSUME NEW ledOk \in Writes, NEW phOk \in Writes, TakeRun(ledOk, phOk) PROVE Port!Open \/ Port!Answer
  <2>1. CASE ledOk /\ phOk
    <3>1. mutex' = TRUE /\ act' = Head(cmdQ) /\ UNCHANGED <<phase, events>>
      BY <1>4, <2>1 DEF TakeRun, BeginRun
    <3> QED BY <1>1, <3>1, Opens
  <2>2. CASE ~(ledOk /\ phOk)
    <3>1. mutex' = FALSE /\ phase' = "idle" /\ events' = Post("MOTOR_FAULT")
      BY <1>4, <2>2 DEF TakeRun, BeginRun, Fault, EndSession
    <3> QED BY <1>1, <1>2, <3>1, Answers
  <2> QED BY <2>1, <2>2
<1>5. ASSUME NEW phOk \in Writes, TakeBench(phOk) PROVE Port!Open \/ Port!Answer
  <2>1. CASE phOk
    <3>1. mutex' = TRUE /\ act' = Head(cmdQ) /\ UNCHANGED <<phase, events>>
      BY <1>5, <2>1 DEF TakeBench
    <3> QED BY <1>1, <3>1, Opens
  <2>2. CASE ~phOk
    <3>1. mutex' = FALSE /\ phase' = "idle" /\ events' = Post("MOTOR_FAULT")
      BY <1>2, <1>5, <2>2 DEF TakeBench
    <3> QED BY <1>1, <1>2, <3>1, Answers
  <2> QED BY <2>1, <2>2
<1> QED BY <1>3, <1>4, <1>5

\* The motor turns for the first time in a session, or again.
LEMMA StartDoneStep ==
    ASSUME IInv, StartDone
    PROVE  Port!Turn \/ UNCHANGED Port!vars
<1>1. pc \in Starts /\ phase' = StartPhase /\ UNCHANGED <<cmdQ, mutex, act, events>>
  BY DEF StartDone, queues
<1>2. mutex /\ act # NoCmd
  <2>1. mutex
    BY <1>1 DEF IInv, StartInv, MutexIffSession, SessionOpen, Starts, Antijam
  <2> QED BY <2>1, SessionHasCmd
<1>3. phase' # "idle"
  BY <1>1 DEF StartPhase, Starts, IInv, StartInv, Runs, Antijam
<1>4. CASE phase = "idle"
  BY <1>1, <1>2, <1>3, <1>4 DEF Port!Turn
<1>5. CASE phase # "idle"
  BY <1>1, <1>3, <1>5, Stutters
<1> QED BY <1>4, <1>5

\* A start that fails closes the session, but for an anti-jam step.
LEMMA StartFailedStep ==
    ASSUME IInv, NEW released \in BOOLEAN, StartFailed(released)
    PROVE  Port!Close \/ UNCHANGED Port!vars
<1>1. pc \in Starts /\ UNCHANGED <<cmdQ, act>>
  BY DEF StartFailed, queues
<1>2. CASE pc = "start_antijam"
  BY <1>1, <1>2, Stutters DEF StartFailed
<1>3. CASE pc # "start_antijam"
  <2>1. mutex' = FALSE /\ phase' = "idle" /\ events' = Post("MOTOR_FAULT")
    BY <1>3 DEF StartFailed, EndSession
  <2>2. mutex
    BY <1>1, <1>3 DEF IInv, MutexIffSession, SessionOpen, Starts
  <2> QED BY <1>1, <2>1, <2>2, Closes
<1> QED BY <1>2, <1>3

\* An anti-jam step is within the session.
LEMMA StartAntijamStutters ==
    ASSUME phase # "idle", NEW p \in Antijam, NEW dir, NEW phOk, NEW stop,
           StartAntijam(p, dir, phOk, stop), UNCHANGED <<cmdQ, mutex, act, events>>
    PROVE  UNCHANGED Port!vars
<1>1. phase' # "idle"
  BY DEF StartAntijam, Antijam
<1> QED BY <1>1, Stutters

\* A retry goes on, or gives the session up.
LEMMA BeginAntijamStep ==
    ASSUME IInv, mutex, phase # "idle", NEW phOk, NEW stop,
           BeginAntijam(phOk, stop), UNCHANGED <<cmdQ, act>>
    PROVE  Port!Close \/ UNCHANGED Port!vars
<1>1. CASE retries >= MaxRetries
  BY <1>1, FaultCloses DEF BeginAntijam
<1>2. CASE ~(retries >= MaxRetries)
  <2>1. StartAntijam("rev", "rev", phOk, stop) /\ UNCHANGED <<mutex, events>>
    BY <1>2 DEF BeginAntijam
  <2> QED BY <2>1, StartAntijamStutters DEF Antijam
<1> QED BY <1>1, <1>2

\* A poll goes on or ends the session with the event of its command.
LEMMA PollStep ==
    ASSUME IInv,
           \/ \E stop \in Stops : PollTimeout(stop)
           \/ \E load \in Loads, phOk \in Writes, stop \in Stops : PollJam(load, phOk, stop)
           \/ \E stop \in Stops : BenchDone(stop)
           \/ \E load \in Loads, phOk \in Writes, stop \in Stops :
                 AntijamClear(load, phOk, stop) \/ AntijamPersists(load, phOk, stop)
    PROVE  Port!Close \/ UNCHANGED Port!vars
<1>1. pc = "poll" /\ phase # "idle" /\ UNCHANGED <<cmdQ, act>>
  BY DEF PollTimeout, PollJam, BenchDone, AntijamClear, AntijamPersists, queues, Runs, Antijam
<1>2. mutex
  BY <1>1, BusyIffSession
<1>3. ASSUME NEW stop \in Stops, PollTimeout(stop) PROVE Port!Close
  BY <1>1, <1>2, <1>3, FaultCloses DEF PollTimeout
<1>4. ASSUME NEW load \in Loads, NEW phOk \in Writes, NEW stop \in Stops, PollJam(load, phOk, stop)
      PROVE  Port!Close \/ UNCHANGED Port!vars
  BY <1>1, <1>2, <1>4, BeginAntijamStep DEF PollJam
<1>5. ASSUME NEW stop \in Stops, BenchDone(stop) PROVE Port!Close
  <2>1. mutex' = FALSE /\ phase' = "idle" /\ events' = Post(IF stop = "ok" THEN "TIMED_RUN_DONE" ELSE "MOTOR_FAULT")
    BY <1>5 DEF BenchDone, Finish, EndSession
  <2>2. Port!DoneEvent(act) = "TIMED_RUN_DONE"
    BY <1>5 DEF BenchDone, IInv, LoopInv, Port!DoneEvent
  <2> QED BY <1>1, <1>2, <2>1, <2>2, Closes
<1>6. ASSUME NEW load \in Loads, NEW phOk \in Writes, NEW stop \in Stops, AntijamClear(load, phOk, stop)
      PROVE  Port!Close \/ UNCHANGED Port!vars
  <2>1. BeginRun(TRUE, phOk, stop)
    BY <1>6 DEF AntijamClear
  <2>2. CASE phOk
    <3>1. mutex' = TRUE /\ UNCHANGED <<phase, events>>
      BY <2>1, <2>2 DEF BeginRun
    <3>2. mutex = TRUE
      BY <1>2 DEF IInv, TypeOK
    <3> QED BY <1>1, <3>1, <3>2, Stutters
  <2>3. CASE ~phOk
    BY <1>1, <1>2, <2>1, <2>3, FaultCloses DEF BeginRun
  <2> QED BY <2>2, <2>3
<1>7. ASSUME NEW load \in Loads, NEW phOk \in Writes, NEW stop \in Stops, AntijamPersists(load, phOk, stop)
      PROVE  Port!Close \/ UNCHANGED Port!vars
  <2>1. CASE phase = "rev"
    <3>1. StartAntijam("wiggle_fwd", "fwd", phOk, stop) /\ UNCHANGED <<mutex, events>>
      BY <1>7, <2>1 DEF AntijamPersists
    <3> QED BY <1>1, <3>1, StartAntijamStutters DEF Antijam
  <2>2. CASE phase = "wiggle_fwd"
    <3>1. StartAntijam("wiggle_rev", "rev", phOk, stop) /\ UNCHANGED <<mutex, events>>
      BY <1>7, <2>2 DEF AntijamPersists
    <3> QED BY <1>1, <3>1, StartAntijamStutters DEF Antijam
  <2>3. CASE phase = "wiggle_rev"
    <3>1. BeginAntijam(phOk, stop)
      BY <1>7, <2>3 DEF AntijamPersists
    <3> QED BY <1>1, <1>2, <3>1, BeginAntijamStep
  <2> QED BY <1>7, <2>1, <2>2, <2>3 DEF AntijamPersists, Antijam
<1> QED BY <1>3, <1>4, <1>5, <1>6, <1>7

\* A sample goes on or ends the session with the event of its command.
LEMMA SampleStep ==
    ASSUME IInv, NEW read \in Reads, NEW stop \in Stops,
           IndexSample(read, stop) \/ BeamSample(read, stop)
    PROVE  Port!Close \/ UNCHANGED Port!vars
<1>1. pc \in {"index", "beam"} /\ phase \in Runs /\ act.kind = phase
  BY DEF IndexSample, BeamSample, IInv, LoopInv
<1>2. PICK more, done : Sample(read, stop, more, done)
  BY DEF IndexSample, BeamSample
<1>3. UNCHANGED <<cmdQ, act>> /\ mutex
  BY <1>1, <1>2, BusyIffSession DEF Sample, queues, Runs
<1>4. CASE RunDone(read)
  <2> DEFINE e == IF phase = "burst" THEN "BURST_DONE" ELSE "PARK_DONE"
  <2>1. Finish(e, stop)
    BY <1>2, <1>4 DEF Sample
  <2>2. mutex' = FALSE /\ phase' = "idle" /\ events' = Post(IF stop = "ok" THEN e ELSE "MOTOR_FAULT")
    BY <2>1 DEF Finish, EndSession
  <2>3. e = Port!DoneEvent(act)
    BY <1>1 DEF Port!DoneEvent, Runs
  <2> QED BY <1>3, <2>2, <2>3, Closes
<1>5. CASE ~RunDone(read) /\ read = "err" /\ ioFail + 1 >= IoFailMax
  BY <1>2, <1>3, <1>5, FaultCloses DEF Sample
<1>6. CASE ~RunDone(read) /\ ~(read = "err" /\ ioFail + 1 >= IoFailMax)
  <2>1. UNCHANGED <<phase, mutex, events>>
    BY <1>2, <1>6 DEF Sample
  <2> QED BY <1>3, <2>1, Stutters
<1> QED BY <1>4, <1>5, <1>6

\* Every step of the task is one of the port's, or none.
LEMMA NextStep == ASSUME IInv, [Next]_vars PROVE [Port!Next]_(Port!vars)
<1>1. CASE \E c \in Callers : (\E cmd \in Cmds : CheckIdle(c, cmd)) \/ Enqueue(c)
  BY <1>1, SendersStep
<1>2. CASE AppReceive
  BY <1>2, ReceiveStep DEF Port!Next
<1>3. CASE JamIsr
  BY <1>3, PassingStutters
<1>4. CASE Loop
  <2>1. CASE \/ RecvTimeout \/ DeferCmd \/ WaitTimeout \/ WaitIndex \/ WaitNotified
             \/ BenchRunning \/ AntijamDelay \/ \E load \in Loads : PollLoad(load)
    BY <2>1, PassingStutters
  <2>2. CASE \/ ParkAligned
             \/ \E ledOk, phOk \in Writes : TakeRun(ledOk, phOk)
             \/ \E phOk \in Writes : TakeBench(phOk)
    BY <2>2, TakeStep DEF Port!Next, Port!Serve
  <2>3. CASE \E stop \in Stops : HandleStop(stop)
    BY <2>3, StopStep DEF Port!Next, Port!Serve
  <2>4. CASE StartDone
    BY <2>4, StartDoneStep DEF Port!Next, Port!Serve
  <2>5. CASE \E released \in BOOLEAN : StartFailed(released)
    BY <2>5, StartFailedStep DEF Port!Next, Port!Serve
  <2>6. CASE \/ \E stop \in Stops : PollTimeout(stop)
             \/ \E load \in Loads, phOk \in Writes, stop \in Stops : PollJam(load, phOk, stop)
             \/ \E stop \in Stops : BenchDone(stop)
             \/ \E load \in Loads, phOk \in Writes, stop \in Stops :
                   AntijamClear(load, phOk, stop) \/ AntijamPersists(load, phOk, stop)
    BY <2>6, PollStep DEF Port!Next, Port!Serve
  <2>7. CASE \E read \in Reads, stop \in Stops : IndexSample(read, stop) \/ BeamSample(read, stop)
    BY <2>7, SampleStep DEF Port!Next, Port!Serve
  <2> QED BY <1>4, <2>1, <2>2, <2>3, <2>4, <2>5, <2>6, <2>7 DEF Loop
<1>5. CASE UNCHANGED vars
  BY <1>5, Stutters DEF vars, ctl, queues
<1> QED BY <1>1, <1>2, <1>3, <1>4, <1>5 DEF Next

\* The task keeps the promise of motor_port.h: commands are served one at a time
\* and in order, and each that is not a stop is answered by one event of its own
\* or a fault, unless a stop cuts it short (the safety of Port!Spec).
THEOREM TaskKeepsPromise == Spec => Port!Init /\ [][Port!Next]_(Port!vars)
<1>1. Init => Port!Init
  BY DEF Init, Port!Init
<1>2. IInv /\ [Next]_vars => [Port!Next]_(Port!vars)
  BY NextStep
<1> QED BY <1>1, <1>2, Invariance, PTL DEF Spec

-----------------------------------------------------------------------------
(* What a step does to the pins *)

\* Without failing writes a stop leaves EN low and PH as it was.
LEMMA StopLeaves ==
    ASSUME IInv, ~WriteMayFail, NEW stop \in Stops
    PROVE  EnAfter(stop) = FALSE /\ PhAfter(stop) = ph
<1>1. stop = "ok"
  BY DEF Stops
<1> QED BY <1>1 DEF EnAfter, PhAfter, IInv, EnFollowsRunning, TypeOK

\* A step that switches PH leaves EN low.
LEMMA SwitchesUnpowered ==
    ASSUME IInv, ~WriteMayFail, [Next]_vars
    PROVE  ph' # ph => ~en'
<1>1. ASSUME NEW stop \in Stops, Fault(stop) PROVE ph' = ph
  BY <1>1, StopLeaves DEF Fault, EndSession
<1>2. ASSUME NEW ledOk, NEW phOk, NEW stop \in Stops, BeginRun(ledOk, phOk, stop) PROVE ph' = ph \/ en' = FALSE
  BY <1>1, <1>2, StopLeaves DEF BeginRun
<1>3. ASSUME NEW p, NEW dir, NEW phOk, NEW stop \in Stops, StartAntijam(p, dir, phOk, stop) PROVE en' = FALSE
  BY <1>3, StopLeaves DEF StartAntijam
<1>4. ASSUME NEW phOk, NEW stop \in Stops, BeginAntijam(phOk, stop) PROVE ph' = ph \/ en' = FALSE
  BY <1>1, <1>3, <1>4 DEF BeginAntijam
<1>5. CASE \E c \in Callers : (\E cmd \in Cmds : CheckIdle(c, cmd)) \/ Enqueue(c)
  BY <1>5 DEF CheckIdle, Enqueue, pins
<1>6. CASE JamIsr \/ AppReceive
  BY <1>6 DEF JamIsr, AppReceive, pins
<1>7. CASE \/ RecvTimeout \/ DeferCmd \/ WaitTimeout \/ WaitIndex \/ WaitNotified
           \/ BenchRunning \/ AntijamDelay \/ \E load \in Loads : PollLoad(load)
  BY <1>7 DEF RecvTimeout, DeferCmd, WaitTimeout, WaitIndex, WaitNotified, BenchRunning, AntijamDelay, PollLoad, pins
<1>8. CASE ParkAligned \/ StartDone
  BY <1>8 DEF ParkAligned, StartDone, pins
<1>9. ASSUME NEW ledOk \in Writes, NEW phOk \in Writes, TakeRun(ledOk, phOk) PROVE ph' = ph \/ en' = FALSE
  <2>1. "ok" \in Stops
    BY DEF Stops
  <2> QED BY <1>2, <1>9, <2>1 DEF TakeRun
<1>10. ASSUME NEW phOk \in Writes, TakeBench(phOk) PROVE en' = FALSE
  <2>1. ~SessionOpen /\ en' = en
    BY <1>10 DEF TakeBench, TakeCmd, IInv, MutexIffSession
  <2> QED BY <2>1 DEF IInv, RestInv, EnFollowsRunning, TypeOK
<1>11. ASSUME NEW stop \in Stops, HandleStop(stop) PROVE ph' = ph
  BY <1>11, StopLeaves DEF HandleStop, EndSession, pins
<1>12. ASSUME NEW released, StartFailed(released) PROVE FALSE
  BY <1>12 DEF StartFailed
<1>13. ASSUME NEW stop \in Stops, PollTimeout(stop) \/ BenchDone(stop) PROVE ph' = ph
  BY <1>1, <1>13, StopLeaves DEF PollTimeout, BenchDone, Finish, EndSession
<1>14. ASSUME NEW load, NEW phOk, NEW stop \in Stops, PollJam(load, phOk, stop) PROVE ph' = ph \/ en' = FALSE
  BY <1>4, <1>14 DEF PollJam
<1>15. ASSUME NEW read, NEW stop \in Stops, IndexSample(read, stop) \/ BeamSample(read, stop) PROVE ph' = ph
  <2>1. PICK more, done : Sample(read, stop, more, done)
    BY <1>15 DEF IndexSample, BeamSample
  <2> QED BY <1>1, <2>1, StopLeaves DEF Sample, Finish, EndSession, pins
<1>16. ASSUME NEW load, NEW phOk, NEW stop \in Stops, AntijamClear(load, phOk, stop) PROVE ph' = ph \/ en' = FALSE
  BY <1>2, <1>16 DEF AntijamClear
<1>17. ASSUME NEW load, NEW phOk, NEW stop \in Stops, AntijamPersists(load, phOk, stop)
       PROVE  ph' = ph \/ en' = FALSE
  <2>1. phase \in Antijam
    BY <1>17 DEF AntijamPersists
  <2>2. \/ StartAntijam("wiggle_fwd", "fwd", phOk, stop)
        \/ StartAntijam("wiggle_rev", "rev", phOk, stop)
        \/ BeginAntijam(phOk, stop)
    BY <1>17, <2>1 DEF AntijamPersists, Antijam
  <2> QED BY <1>3, <1>4, <2>2
<1>18. CASE UNCHANGED vars
  BY <1>18 DEF vars, pins
<1> QED BY <1>5, <1>6, <1>7, <1>8, <1>9, <1>10, <1>11, <1>12, <1>13, <1>14, <1>15, <1>16, <1>17, <1>18
  DEF Next, Loop

\* While no I2C write fails, the direction pin of the bridge is never switched
\* under power (motor_driver_start_ph, motor_driver_stop).
THEOREM PinSwitchesUnpowered == ASSUME ~WriteMayFail PROVE Spec => PhSwitchesUnpowered
<1>1. IInv /\ [Next]_vars => (ph' # ph => ~en')
  BY SwitchesUnpowered
<1> QED BY <1>1, Invariance, PTL DEF Spec, PhSwitchesUnpowered

-----------------------------------------------------------------------------
(* The count of a burst *)

\* No step leaves a burst with its target reached.
UnderTarget ==
    /\ phase = "burst" => pulses < act.n
    /\ pc = "start_run" => pulses = 0

\* A sample that goes on has not reached the target.
LEMMA SampleUnder ==
    ASSUME IInv, UnderTarget, NEW read \in Reads, NEW stop, NEW more, NEW done,
           Sample(read, stop, more, done), more # "start_run", done # "start_run"
    PROVE  UnderTarget'
<1>1. act' = act /\ pulses' = PulsesAfter(read) /\ (phase' = "idle" \/ (phase' = phase /\ ~RunDone(read)))
  BY DEF Sample, Finish, Fault, EndSession
<1>2. pc' # "start_run"
  BY DEF Sample
<1>3. ASSUME phase' = phase, ~RunDone(read), phase = "burst" PROVE pulses' < act'.n
  <2>1. pulses < act.n /\ pulses \in Nat /\ act.n \in Nat
    BY <1>3, CmdShape DEF UnderTarget, IInv, TypeOK
  <2>2. CASE read \in {"open", "blocked"}
    <3>1. ~(PulsesAfter(read) >= act.n)
      BY <1>3, <2>2 DEF RunDone
    <3>2. PulsesAfter(read) \in Nat
      BY <2>1 DEF PulsesAfter
    <3> QED BY <1>1, <2>1, <3>1, <3>2
  <2>3. CASE read \notin {"open", "blocked"}
    BY <1>1, <2>1, <2>3 DEF PulsesAfter
  <2> QED BY <2>2, <2>3
<1> QED BY <1>1, <1>2, <1>3 DEF UnderTarget

\* Every step keeps a burst under its target.
LEMMA UnderKept == ASSUME IInv, UnderTarget, [Next]_vars PROVE UnderTarget'
<1> USE DEF UnderTarget
<1>1. ASSUME UNCHANGED <<pulses, act, phase>>, pc' = pc \/ pc' # "start_run" PROVE UnderTarget'
  BY <1>1
<1>2. ASSUME phase' # "burst", pc' # "start_run" PROVE UnderTarget'
  BY <1>2
<1>3. ASSUME NEW stop, Fault(stop) PROVE phase' = "idle"
  BY <1>3 DEF Fault, EndSession
<1>4. ASSUME NEW ledOk, NEW phOk, NEW stop, BeginRun(ledOk, phOk, stop), phase # "burst" PROVE UnderTarget'
  <2>1. pulses' = 0 /\ (phase' = phase \/ phase' = "idle")
    BY <1>3, <1>4 DEF BeginRun
  <2> QED BY <1>4, <2>1
<1>5. ASSUME NEW p \in Antijam, NEW dir, NEW phOk, NEW stop, StartAntijam(p, dir, phOk, stop) PROVE UnderTarget'
  <2>1. phase' # "burst" /\ pc' # "start_run"
    BY <1>5 DEF StartAntijam, Antijam
  <2> QED BY <1>2, <2>1
<1>6. ASSUME NEW phOk, NEW stop, BeginAntijam(phOk, stop) PROVE UnderTarget'
  <2>1. CASE retries >= MaxRetries
    BY <1>2, <1>3, <1>6, <2>1 DEF BeginAntijam
  <2>2. CASE ~(retries >= MaxRetries)
    BY <1>5, <1>6, <2>2 DEF BeginAntijam, Antijam
  <2> QED BY <2>1, <2>2
<1>7. CASE \E c \in Callers : (\E cmd \in Cmds : CheckIdle(c, cmd)) \/ Enqueue(c)
  BY <1>1, <1>7 DEF CheckIdle, Enqueue, ctl, counters
<1>8. CASE JamIsr \/ AppReceive
  BY <1>1, <1>8 DEF JamIsr, AppReceive, ctl, counters
<1>9. CASE \/ RecvTimeout \/ DeferCmd \/ WaitTimeout \/ WaitIndex \/ WaitNotified
           \/ BenchRunning \/ AntijamDelay \/ \E load \in Loads : PollLoad(load)
  <2>1. UNCHANGED <<pulses, act, phase>> /\ pc' # "start_run"
    BY <1>9 DEF RecvTimeout, DeferCmd, WaitTimeout, WaitIndex, WaitNotified, BenchRunning, AntijamDelay, PollLoad, counters
  <2> QED BY <1>1, <2>1
<1>10. CASE \/ ParkAligned
            \/ \E phOk \in Writes : TakeBench(phOk)
            \/ \E ledOk, phOk \in Writes : TakeRun(ledOk, phOk)
  <2>1. phase = "idle" /\ pc = "recv"
    BY <1>10, BusyIffSession DEF ParkAligned, TakeBench, TakeRun, TakeCmd
  <2>2. CASE ParkAligned \/ \E phOk \in Writes : TakeBench(phOk)
    BY <1>2, <2>1, <2>2 DEF ParkAligned, TakeBench
  <2>3. CASE \E ledOk, phOk \in Writes : TakeRun(ledOk, phOk)
    BY <1>4, <2>1, <2>3 DEF TakeRun
  <2> QED BY <1>10, <2>2, <2>3
<1>11. CASE StartDone
  <2>1. pc \in Starts /\ phase' = StartPhase /\ UNCHANGED <<pulses, act>> /\ pc' # "start_run"
    BY <1>11 DEF StartDone, counters
  <2>2. CASE pc = "start_run"
    <3>1. act.n \in Nat \ {0}
      <4>1. act \in Cmds
        BY <2>2, SessionHasCmd DEF IInv, MutexIffSession, SessionOpen
      <4> QED BY <4>1, MotorAssumption DEF CmdSet
    <3> QED BY <2>1, <2>2, <3>1
  <2>3. CASE pc # "start_run"
    <3>1. phase' # "burst"
      BY <2>1, <2>3 DEF StartPhase, Starts, IInv, StartInv, Antijam
    <3> QED BY <1>2, <2>1, <3>1
  <2> QED BY <2>2, <2>3
<1>12. CASE \E released \in BOOLEAN : StartFailed(released)
  <2>1. pc' # "start_run" /\ (phase' = "idle" \/ (UNCHANGED <<phase, pulses, act>>))
    BY <1>12 DEF StartFailed, EndSession
  <2> QED BY <1>1, <1>2, <2>1
<1>13. CASE \E stop \in Stops : HandleStop(stop)
  <2>1. phase' = "idle" /\ pc' = pc /\ pc = "recv"
    BY <1>13 DEF HandleStop, EndSession, ctl
  <2> QED BY <1>2, <2>1
<1>14. CASE \E stop \in Stops : PollTimeout(stop) \/ BenchDone(stop)
  <2>1. phase' = "idle" /\ pc' = "recv"
    BY <1>3, <1>14 DEF PollTimeout, BenchDone, Finish, EndSession
  <2> QED BY <1>2, <2>1
<1>15. CASE \E load \in Loads, phOk \in Writes, stop \in Stops : PollJam(load, phOk, stop)
  BY <1>6, <1>15 DEF PollJam
<1>16. CASE \E read \in Reads, stop \in Stops : IndexSample(read, stop) \/ BeamSample(read, stop)
  BY <1>16, SampleUnder DEF IndexSample, BeamSample
<1>17. CASE \E load \in Loads, phOk \in Writes, stop \in Stops : AntijamClear(load, phOk, stop)
  BY <1>4, <1>17 DEF AntijamClear, Antijam
<1>18. CASE \E load \in Loads, phOk \in Writes, stop \in Stops : AntijamPersists(load, phOk, stop)
  <2>1. PICK load \in Loads, phOk \in Writes, stop \in Stops : AntijamPersists(load, phOk, stop)
    BY <1>18
  <2>2. phase \in Antijam
    BY <2>1 DEF AntijamPersists
  <2>3. \/ StartAntijam("wiggle_fwd", "fwd", phOk, stop)
        \/ StartAntijam("wiggle_rev", "rev", phOk, stop)
        \/ BeginAntijam(phOk, stop)
    BY <2>1, <2>2 DEF AntijamPersists, Antijam
  <2> QED BY <1>5, <1>6, <2>3 DEF Antijam
<1>19. CASE UNCHANGED vars
  BY <1>1, <1>19 DEF vars, ctl, counters
<1> QED BY <1>7, <1>8, <1>9, <1>10, <1>11, <1>12, <1>13, <1>14, <1>15, <1>16, <1>17, <1>18, <1>19 DEF Next, Loop

\* An event that is posted is the last of the queue, and of the kind posted.
LEMMA PostedFacts ==
    ASSUME TypeOK, NEW e, Posted(e)
    PROVE  /\ events' # events
           /\ events # <<>> => events' # Tail(events)
           /\ \A x : events' = Post(x) => x = e
<1>1. events \in Seq([type : EventTypes]) /\ events' = Append(events, [type |-> e])
  BY DEF TypeOK, EventTypes, Posted
<1>3. Len(events') = Len(events) + 1 /\ Len(events) \in Nat
  BY <1>1
<1>4. events' # events
  BY <1>3
<1>5. events # <<>> => events' # Tail(events)
  <2>1. events # <<>> => Len(Tail(events)) = Len(events) - 1
    BY <1>1
  <2> QED BY <1>3, <2>1
<1>6. ASSUME NEW x, events' = Post(x) PROVE x = e
  <2>1. events' = Append(events, [type |-> x])
    BY <1>4, <1>6 DEF Post
  <2>2. events'[Len(events) + 1] = [type |-> x] /\ events'[Len(events) + 1] = [type |-> e]
    BY <1>1, <2>1
  <2> QED BY <2>2
<1> QED BY <1>4, <1>5, <1>6

\* A burst that is reported has counted its target in the attempt that ends it.
LEMMA BurstCounted ==
    ASSUME IInv, UnderTarget, [Next]_vars, Posted("BURST_DONE")
    PROVE  phase = "burst" /\ pulses' = act.n
<1>0. TypeOK
  BY DEF IInv
<1>1. /\ events' # events
      /\ events # <<>> => events' # Tail(events)
      /\ \A x : events' = Post(x) => x = "BURST_DONE"
  BY <1>0, PostedFacts
<1>2. ASSUME NEW stop, Fault(stop) PROVE FALSE
  BY <1>1, <1>2 DEF Fault, EndSession
<1>3. ~(\E c \in Callers : (\E cmd \in Cmds : CheckIdle(c, cmd)) \/ Enqueue(c))
  BY <1>1 DEF CheckIdle, Enqueue
<1>4. ~(JamIsr \/ AppReceive)
  BY <1>1 DEF JamIsr, AppReceive
<1>5. ~(\/ RecvTimeout \/ DeferCmd \/ WaitTimeout \/ WaitIndex \/ WaitNotified
        \/ BenchRunning \/ AntijamDelay \/ \E load \in Loads : PollLoad(load))
  BY <1>1 DEF RecvTimeout, DeferCmd, WaitTimeout, WaitIndex, WaitNotified, BenchRunning, AntijamDelay, PollLoad
<1>6. ~(ParkAligned \/ StartDone)
  BY <1>1 DEF ParkAligned, StartDone
<1>7. ~(\E ledOk, phOk \in Writes : TakeRun(ledOk, phOk))
  BY <1>1, <1>2 DEF TakeRun, BeginRun
<1>8. ~(\E phOk \in Writes : TakeBench(phOk))
  BY <1>1 DEF TakeBench
<1>9. ~(\E stop \in Stops : HandleStop(stop))
  BY <1>1 DEF HandleStop, EndSession
<1>10. ~(\E released \in BOOLEAN : StartFailed(released))
  BY <1>1 DEF StartFailed, EndSession
<1>11. ~(\E stop \in Stops : PollTimeout(stop) \/ BenchDone(stop))
  BY <1>1, <1>2 DEF PollTimeout, BenchDone, Finish, EndSession
<1>12. ASSUME NEW phOk, NEW stop, BeginAntijam(phOk, stop) PROVE FALSE
  BY <1>1, <1>2, <1>12 DEF BeginAntijam
<1>13. ~(\E load \in Loads, phOk \in Writes, stop \in Stops : PollJam(load, phOk, stop))
  BY <1>12 DEF PollJam
<1>14. ~(\E load \in Loads, phOk \in Writes, stop \in Stops : AntijamClear(load, phOk, stop))
  BY <1>1, <1>2 DEF AntijamClear, BeginRun
<1>15. ~(\E load \in Loads, phOk \in Writes, stop \in Stops : AntijamPersists(load, phOk, stop))
  BY <1>1, <1>12 DEF AntijamPersists, Antijam
<1>16. ~(UNCHANGED vars)
  BY <1>1 DEF vars
<1>17. PICK read \in Reads, stop \in Stops : IndexSample(read, stop) \/ BeamSample(read, stop)
  BY <1>3, <1>4, <1>5, <1>6, <1>7, <1>8, <1>9, <1>10, <1>11, <1>13, <1>14, <1>15, <1>16 DEF Next, Loop
<1>18. PICK more, done : Sample(read, stop, more, done)
  BY <1>17 DEF IndexSample, BeamSample
<1>19. RunDone(read) /\ phase \in Runs
  BY <1>1, <1>2, <1>17, <1>18 DEF Sample, IndexSample, BeamSample, IInv, LoopInv
<1>20. phase = "burst"
  <2>1. CASE phase = "park"
    <3>1. events' = Post(IF stop = "ok" THEN "PARK_DONE" ELSE "MOTOR_FAULT")
      BY <1>18, <1>19, <2>1 DEF Sample, Finish, EndSession
    <3> QED BY <1>1, <3>1
  <2> QED BY <1>19, <2>1 DEF Runs
<1>21. pulses < act.n /\ pulses \in Nat /\ act.n \in Nat
  BY <1>20, CmdShape DEF UnderTarget, IInv, TypeOK
<1>22. pulses' = PulsesAfter(read) /\ PulsesAfter(read) >= act.n /\ PulsesAfter(read) \in {pulses, pulses + 1}
  BY <1>18, <1>19, <1>20 DEF Sample, RunDone, PulsesAfter
<1> QED BY <1>20, <1>21, <1>22

\* BURST_DONE tells of a burst that counted exactly its target of pulses since
\* the last start, for any target, any detector and any jams
\* (motor_ctrl_note_pulse, motor_ctrl_finish_burst_done).
THEOREM BurstsAreCounted == Spec => BurstDoneCounted
<1>1. Init => UnderTarget
  BY DEF Init, UnderTarget
<1>2. IInv /\ UnderTarget /\ [Next]_vars => UnderTarget'
  BY UnderKept
<1>3. IInv /\ UnderTarget /\ [Next]_vars => (Posted("BURST_DONE") => phase = "burst" /\ pulses' = act.n)
  BY BurstCounted
<1> QED BY <1>1, <1>2, <1>3, Invariance, PTL DEF Spec, BurstDoneCounted
==========================================================================
