-------------------------- MODULE MotorCtrlProofs --------------------------
(***************************************************************************)
(* Proofs about MotorCtrl for every number of senders, every set of        *)
(* commands, every queue depth and every time limit, with and without      *)
(* failing I2C writes.                                                     *)
(*                                                                         *)
(* None of the properties is inductive by itself: that a session ends with *)
(* the mutex given back needs that phases and the places of the loop agree *)
(* (LoopInv), the direction of a started motor needs what was written to   *)
(* PH before the settle delay (StartInv), and EN at rest needs that EN     *)
(* follows the running flag but for a stop that failed (EnFollowsRunning). *)
(***************************************************************************)
EXTENDS MotorCtrl, TLAPS

EventTypes == {"BURST_DONE", "PARK_DONE", "TIMED_RUN_DONE", "MOTOR_FAULT"}

\* What holds during the settle delay of a start: the bridge is not powered, PH
\* is written and the command and the phase tell what is started.
StartInv ==
    /\ pc = "start_run" =>
          /\ phase \in {"idle"} \cup Antijam
          /\ act.kind \in Runs
          /\ ~running
          /\ ph = "fwd"
    /\ pc = "start_bench" =>
          /\ phase = "idle"
          /\ act.kind \in {"fwd", "rev"}
          /\ ~running
          /\ ph = act.kind
    /\ pc = "start_antijam" =>
          /\ phase \in Antijam
          /\ ~running
          /\ ph = IF phase = "wiggle_fwd" THEN "fwd" ELSE "rev"

\* The phase belongs to the active command, and samples are taken in runs only.
LoopInv ==
    /\ phase \in Runs => act.kind = phase
    /\ phase = "bench" => act.kind \in {"fwd", "rev"}
    /\ phase \in Antijam => act.kind \in Runs
    /\ pc \in {"index", "beam"} => phase \in Runs

EnFollowsRunning ==
    /\ en => running \/ enLost
    /\ running => en /\ ~enLost
    /\ enLost => WriteMayFail

RestInv == ~SessionOpen => ~running /\ ~armed /\ ~led

IInv ==
    /\ TypeOK
    /\ StartInv
    /\ LoopInv
    /\ MutexIffSession
    /\ RestInv
    /\ EnFollowsRunning
    /\ DirectionMatchesPhase

-----------------------------------------------------------------------------
\* The command set keeps its shape: a command has a kind and a count.
LEMMA CmdShape ==
    /\ \A c \in Cmds : c.kind \in Kinds /\ c.n \in Nat
    /\ NoCmd.kind \notin Kinds
    /\ NoCmd.n = 1
BY MotorAssumption DEF CmdSet, NoCmd, Kinds

\* motor_ctrl_post_app_event keeps the event queue within its depth.
LEMMA PostTyped ==
    ASSUME TypeOK, NEW e \in EventTypes
    PROVE  /\ Post(e) \in Seq([type : EventTypes])
           /\ Len(Post(e)) <= EventDepth
<1>1. events \in Seq([type : EventTypes]) /\ Len(events) <= EventDepth
  BY DEF TypeOK, EventTypes
<1>2. [type |-> e] \in [type : EventTypes]
  OBVIOUS
<1>3. CASE Len(events) < EventDepth
  <2> DEFINE next == Append(events, [type |-> e])
  <2>1. next \in Seq([type : EventTypes]) /\ Len(next) = Len(events) + 1
    BY <1>1, <1>2
  <2>2. Len(events) \in Nat
    BY <1>1
  <2> QED
    BY <1>3, <2>1, <2>2, MotorAssumption DEF Post
<1>4. CASE ~(Len(events) < EventDepth)
  BY <1>1, <1>4 DEF Post
<1> QED
  BY <1>3, <1>4

\* Taking the oldest command leaves a queue of commands.
LEMMA HeadTyped ==
    ASSUME TypeOK, cmdQ # <<>>
    PROVE  /\ Head(cmdQ) \in Cmds
           /\ Tail(cmdQ) \in Seq(Cmds)
           /\ Len(Tail(cmdQ)) <= CmdDepth
<1>1. cmdQ \in Seq(Cmds) /\ Len(cmdQ) <= CmdDepth
  BY DEF TypeOK
<1>2. Head(cmdQ) \in Cmds /\ Tail(cmdQ) \in Seq(Cmds)
  BY <1>1
<1>3. Len(Tail(cmdQ)) = Len(cmdQ) - 1
  BY <1>1
<1>4. Len(cmdQ) \in Nat /\ CmdDepth \in Nat
  BY <1>1, MotorAssumption
<1> QED
  BY <1>1, <1>2, <1>3, <1>4

\* What motor_driver_stop leaves: EN low unless it could not be written.
LEMMA StopPins ==
    ASSUME TypeOK, EnFollowsRunning, NEW stop \in Stops
    PROVE  /\ EnAfter(stop) \in BOOLEAN /\ LostAfter(stop) \in BOOLEAN
           /\ PhAfter(stop) \in {"fwd", "rev"}
           /\ EnAfter(stop) => LostAfter(stop)
           /\ LostAfter(stop) => WriteMayFail
BY MotorAssumption DEF TypeOK, EnFollowsRunning, Stops, EnAfter, LostAfter, PhAfter

\* The state at rest that every end of a session leads to.
AtRest ==
    /\ phase' = "idle" /\ mutex' = FALSE /\ running' = FALSE
    /\ led' = FALSE /\ armed' = FALSE
    /\ en' \in BOOLEAN /\ enLost' \in BOOLEAN
    /\ (en' => enLost') /\ (enLost' => WriteMayFail)
    /\ ph' \in {"fwd", "rev"}
    /\ ioFail' \in Nat /\ elapsed' \in 0..RunMax /\ left' \in Nat
    /\ events' \in Seq([type : EventTypes])
    /\ Len(events') <= EventDepth

\* A teardown leads to a state at rest, however the driver's stop went.
LEMMA EndSessionRests ==
    ASSUME TypeOK, EnFollowsRunning,
           NEW stop \in Stops, NEW phV \in {"fwd", "rev"},
           NEW evs \in Seq([type : EventTypes]), Len(evs) <= EventDepth,
           EndSession(stop, phV, evs)
    PROVE  AtRest
<1>1. /\ EnAfter(stop) \in BOOLEAN /\ LostAfter(stop) \in BOOLEAN
      /\ EnAfter(stop) => LostAfter(stop)
      /\ LostAfter(stop) => WriteMayFail
  BY StopPins
<1> QED
  BY <1>1, MotorAssumption DEF EndSession, AtRest

LEMMA FaultRests ==
    ASSUME TypeOK, EnFollowsRunning, NEW stop \in Stops, Fault(stop)
    PROVE  AtRest
BY StopPins, PostTyped, EndSessionRests DEF Fault, EventTypes

LEMMA FinishRests ==
    ASSUME TypeOK, EnFollowsRunning, NEW stop \in Stops, NEW e \in EventTypes,
           Finish(e, stop)
    PROVE  AtRest
BY StopPins, PostTyped, EndSessionRests DEF Finish, EventTypes

-----------------------------------------------------------------------------
LEMMA InitIInv == Init => IInv
<1> SUFFICES ASSUME Init PROVE IInv
  OBVIOUS
<1> USE DEF Init
<1>1. cmdQ \in Seq(Cmds) /\ Len(cmdQ) <= CmdDepth
  BY MotorAssumption
<1>2. events \in Seq([type : EventTypes]) /\ Len(events) <= EventDepth
  BY MotorAssumption
<1>3. TypeOK
  <2>1. pend \in [Callers -> Cmds \cup {NoCmd}]
    OBVIOUS
  <2>2. elapsed \in 0..RunMax /\ retries \in 0..MaxRetries
    BY MotorAssumption
  <2>3. /\ pc \in Pcs /\ phase \in Phases /\ act \in Cmds \cup {NoCmd} /\ mutex \in BOOLEAN
        /\ pulses \in Nat /\ prevOpen \in BOOLEAN /\ left \in Nat /\ over \in Nat
        /\ instant \in BOOLEAN /\ ioFail \in Nat /\ notif \in BOOLEAN /\ armed \in BOOLEAN
        /\ running \in BOOLEAN /\ en \in BOOLEAN /\ enLost \in BOOLEAN /\ ph \in {"fwd", "rev"} /\ led \in BOOLEAN
    BY DEF Pcs, Phases
  <2> HIDE DEF Init
  <2> QED
    BY <1>1, <1>2, <2>1, <2>2, <2>3 DEF TypeOK, EventTypes
<1>4. /\ StartInv /\ LoopInv /\ MutexIffSession /\ RestInv
      /\ EnFollowsRunning /\ DirectionMatchesPhase
  BY DEF StartInv, LoopInv, MutexIffSession, SessionOpen, RestInv, Runs, Antijam,
         EnFollowsRunning, DirectionMatchesPhase
<1> QED
  BY <1>3, <1>4 DEF IInv

LEMMA CheckIdleKeepsIInv ==
    ASSUME IInv, NEW c \in Callers, NEW cmd \in Cmds, CheckIdle(c, cmd)
    PROVE  IInv'
<1> USE DEF IInv, CheckIdle, ctl, counters, clocks, pins
<1>1. TypeOK'
  BY DEF TypeOK
<1>2. /\ StartInv' /\ LoopInv' /\ MutexIffSession' /\ RestInv'
      /\ EnFollowsRunning' /\ DirectionMatchesPhase'
  BY DEF StartInv, LoopInv, MutexIffSession, SessionOpen, RestInv,
         EnFollowsRunning, DirectionMatchesPhase
<1> QED
  BY <1>1, <1>2
LEMMA EnqueueKeepsIInv ==
    ASSUME IInv, NEW c \in Callers, Enqueue(c)
    PROVE  IInv'
<1> USE DEF IInv, Enqueue, ctl, counters, clocks, pins, queues
<1>1. TypeOK'
  BY MotorAssumption DEF TypeOK
<1>2. /\ StartInv' /\ LoopInv' /\ MutexIffSession' /\ RestInv'
      /\ EnFollowsRunning' /\ DirectionMatchesPhase'
  BY DEF StartInv, LoopInv, MutexIffSession, SessionOpen, RestInv,
         EnFollowsRunning, DirectionMatchesPhase
<1> QED
  BY <1>1, <1>2

LEMMA JamIsrKeepsIInv ==
    ASSUME IInv, JamIsr
    PROVE  IInv'
<1> USE DEF IInv, JamIsr, ctl, counters, clocks, pins, queues
<1>1. TypeOK'
  BY MotorAssumption DEF TypeOK
<1>2. /\ StartInv' /\ LoopInv' /\ MutexIffSession' /\ RestInv'
      /\ EnFollowsRunning' /\ DirectionMatchesPhase'
  BY DEF StartInv, LoopInv, MutexIffSession, SessionOpen, RestInv,
         EnFollowsRunning, DirectionMatchesPhase
<1> QED
  BY <1>1, <1>2

LEMMA AppReceiveKeepsIInv ==
    ASSUME IInv, AppReceive
    PROVE  IInv'
<1> USE DEF IInv, AppReceive, ctl, counters, clocks, pins, queues
<1>1. TypeOK'
  BY MotorAssumption DEF TypeOK
<1>2. /\ StartInv' /\ LoopInv' /\ MutexIffSession' /\ RestInv'
      /\ EnFollowsRunning' /\ DirectionMatchesPhase'
  BY DEF StartInv, LoopInv, MutexIffSession, SessionOpen, RestInv,
         EnFollowsRunning, DirectionMatchesPhase
<1> QED
  BY <1>1, <1>2

-----------------------------------------------------------------------------
(* Steps that let time pass, defer a command or poll without an end *)

LEMMA AdvanceTyped ==
    ASSUME TypeOK, NEW n \in Nat, Advance(n)
    PROVE  elapsed' \in 0..RunMax /\ left' \in Nat
<1>1. elapsed \in 0..RunMax /\ left \in Nat /\ RunMax \in Nat
  BY MotorAssumption DEF TypeOK
<1> QED
  BY <1>1 DEF Advance, CapAt

\* Such a step moves the task between the places where nothing is started, and
\* leaves the session as it is.
Passes ==
    /\ pc \in {"recv", "poll", "wait"}
    /\ pc' \in {"recv", "poll", "wait"}
    /\ elapsed' \in 0..RunMax /\ left' \in Nat
    /\ instant' \in BOOLEAN /\ notif' \in BOOLEAN
    /\ UNCHANGED <<phase, act, mutex, pulses, prevOpen, over, retries, ioFail,
                   pins, queues, events>>

LEMMA PassesKeepsIInv ==
    ASSUME IInv, Passes
    PROVE  IInv'
<1> USE DEF IInv, Passes, pins, queues
<1>1. TypeOK'
  BY DEF TypeOK, Pcs
<1>2. /\ StartInv' /\ LoopInv' /\ MutexIffSession' /\ RestInv'
      /\ EnFollowsRunning' /\ DirectionMatchesPhase'
  BY DEF StartInv, LoopInv, MutexIffSession, SessionOpen, RestInv,
         EnFollowsRunning, DirectionMatchesPhase
<1> QED
  BY <1>1, <1>2

LEMMA PassingSteps ==
    ASSUME IInv,
           \/ RecvTimeout \/ DeferCmd \/ WaitTimeout \/ WaitIndex \/ WaitNotified
           \/ BenchRunning \/ AntijamDelay
    PROVE  Passes
<1> USE DEF Passes, ctl, counters, clocks
<1>0. /\ TypeOK
      /\ elapsed \in 0..RunMax /\ left \in Nat
      /\ instant \in BOOLEAN /\ notif \in BOOLEAN
  BY DEF IInv, TypeOK
<1>1. CASE RecvTimeout
  BY <1>0, <1>1, AdvanceTyped DEF RecvTimeout
<1>2. CASE DeferCmd
  BY <1>0, <1>2 DEF DeferCmd
<1>3. CASE WaitTimeout
  BY <1>0, <1>3, AdvanceTyped DEF WaitTimeout
<1>4. CASE WaitIndex
  BY <1>0, <1>4 DEF WaitIndex
<1>5. CASE WaitNotified
  BY <1>0, <1>5 DEF WaitNotified
<1>6. CASE BenchRunning
  BY <1>0, <1>6, AdvanceTyped DEF BenchRunning
<1>7. CASE AntijamDelay
  BY <1>0, <1>7, AdvanceTyped DEF AntijamDelay
<1> QED
  BY <1>1, <1>2, <1>3, <1>4, <1>5, <1>6, <1>7

LEMMA PollLoadKeepsIInv ==
    ASSUME IInv, NEW load \in Loads, PollLoad(load)
    PROVE  IInv'
<1> USE DEF IInv, PollLoad, clocks, pins, queues
<1>1. over' \in Nat
  <2>1. over \in Nat /\ load \in {"fail", "low", "high"}
    BY DEF TypeOK, Loads, JamDetected
  <2> QED
    BY <2>1 DEF OverAfter
<1>2. TypeOK'
  BY <1>1 DEF TypeOK, Pcs
<1>3. /\ StartInv' /\ LoopInv' /\ MutexIffSession' /\ RestInv'
      /\ EnFollowsRunning' /\ DirectionMatchesPhase'
  BY DEF StartInv, LoopInv, MutexIffSession, SessionOpen, RestInv, Runs,
         EnFollowsRunning, DirectionMatchesPhase
<1> QED
  BY <1>2, <1>3

-----------------------------------------------------------------------------
(* Steps that end a session *)

\* The variables that the end of a session leaves to its caller.
OthersTyped ==
    /\ pend' \in [Callers -> Cmds \cup {NoCmd}]
    /\ cmdQ' \in Seq(Cmds) /\ Len(cmdQ') <= CmdDepth
    /\ act' \in Cmds \cup {NoCmd}
    /\ pulses' \in Nat /\ prevOpen' \in BOOLEAN /\ over' \in Nat
    /\ retries' \in 0..MaxRetries
    /\ instant' \in BOOLEAN /\ notif' \in BOOLEAN

LEMMA AtRestIInv ==
    ASSUME AtRest, OthersTyped, pc' \in {"recv", "poll", "wait"}
    PROVE  IInv'
<1> USE DEF AtRest, OthersTyped
<1>1. TypeOK'
  <2>1. pc' \in Pcs /\ phase' \in Phases /\ en' \in BOOLEAN /\ enLost' \in BOOLEAN
    BY DEF Pcs, Phases
  <2>2. /\ mutex' \in BOOLEAN /\ armed' \in BOOLEAN /\ running' \in BOOLEAN
        /\ led' \in BOOLEAN
    OBVIOUS
  <2> QED
    BY <2>1, <2>2 DEF TypeOK, EventTypes
<1>2. /\ StartInv' /\ LoopInv' /\ MutexIffSession' /\ RestInv'
      /\ EnFollowsRunning' /\ DirectionMatchesPhase'
  BY DEF StartInv, LoopInv, MutexIffSession, SessionOpen, RestInv, Runs, Antijam,
         EnFollowsRunning, DirectionMatchesPhase
<1> QED
  BY <1>1, <1>2 DEF IInv

LEMMA PollTimeoutKeepsIInv ==
    ASSUME IInv, NEW stop \in Stops, PollTimeout(stop)
    PROVE  IInv'
<1>1. AtRest
  BY FaultRests DEF IInv, PollTimeout
<1>2. OthersTyped
  BY DEF IInv, TypeOK, PollTimeout, OthersTyped, queues
<1> QED
  BY <1>1, <1>2, AtRestIInv DEF PollTimeout

LEMMA BenchDoneKeepsIInv ==
    ASSUME IInv, NEW stop \in Stops, BenchDone(stop)
    PROVE  IInv'
<1>1. AtRest
  BY FinishRests DEF IInv, BenchDone, EventTypes
<1>2. OthersTyped
  BY DEF IInv, TypeOK, BenchDone, OthersTyped, queues
<1> QED
  BY <1>1, <1>2, AtRestIInv DEF BenchDone

LEMMA HandleStopKeepsIInv ==
    ASSUME IInv, NEW stop \in Stops, HandleStop(stop)
    PROVE  IInv'
<1>1. /\ TypeOK /\ EnFollowsRunning
      /\ cmdQ' \in Seq(Cmds) /\ Len(cmdQ') <= CmdDepth
  BY HeadTyped DEF IInv, HandleStop
<1>2. CASE phase = "idle"
  <2> USE DEF IInv, HandleStop, ctl, counters, clocks, pins
  <2>1. TypeOK'
    BY <1>1, <1>2 DEF TypeOK
  <2>2. /\ StartInv' /\ LoopInv' /\ MutexIffSession' /\ RestInv'
        /\ EnFollowsRunning' /\ DirectionMatchesPhase'
    BY <1>2 DEF StartInv, LoopInv, MutexIffSession, SessionOpen, RestInv,
           EnFollowsRunning, DirectionMatchesPhase
  <2> QED
    BY <2>1, <2>2
<1>3. CASE phase # "idle"
  <2>1. EndSession(stop, PhAfter(stop), events)
    BY <1>3 DEF HandleStop
  <2>2. events \in Seq([type : EventTypes]) /\ Len(events) <= EventDepth
    BY <1>1 DEF TypeOK, EventTypes
  <2>3. AtRest
    BY <1>1, <2>1, <2>2, StopPins, EndSessionRests
  <2>4. OthersTyped
    BY <1>1, <1>3 DEF TypeOK, HandleStop, OthersTyped
  <2> QED
    BY <1>3, <2>3, <2>4, AtRestIInv DEF HandleStop
<1> QED
  BY <1>2, <1>3
LEMMA ParkAlignedKeepsIInv ==
    ASSUME IInv, ParkAligned
    PROVE  IInv'
<1>1. /\ TypeOK /\ Head(cmdQ) \in Cmds /\ Head(cmdQ).kind = "park" /\ ~mutex
      /\ pc = "recv" /\ pend' = pend /\ notif' = notif
      /\ cmdQ' \in Seq(Cmds) /\ Len(cmdQ') <= CmdDepth
  BY HeadTyped DEF IInv, ParkAligned, TakeCmd
<1>2. /\ events' \in Seq([type : EventTypes]) /\ Len(events') <= EventDepth
  BY <1>1, PostTyped DEF ParkAligned, EventTypes
<1>3. act' = Head(cmdQ) /\ retries' \in 0..MaxRetries
  BY MotorAssumption DEF ParkAligned
<1>4. UNCHANGED <<pc, phase, mutex, pulses, prevOpen, over, instant, ioFail,
                  elapsed, left, running, en, enLost, ph, led, armed>>
  BY DEF ParkAligned, clocks, pins
<1>5. TypeOK'
  BY <1>1, <1>2, <1>3, <1>4 DEF TypeOK, EventTypes
<1>6. phase = "idle" /\ ~running
  BY <1>1 DEF IInv, MutexIffSession, SessionOpen, RestInv
<1>7. /\ StartInv' /\ LoopInv' /\ MutexIffSession' /\ RestInv'
      /\ EnFollowsRunning' /\ DirectionMatchesPhase'
  BY <1>1, <1>4, <1>6 DEF IInv, StartInv, LoopInv, MutexIffSession, SessionOpen, RestInv,
         Runs, Antijam, EnFollowsRunning, DirectionMatchesPhase
<1> QED
  BY <1>5, <1>7 DEF IInv

\* A run's phases are those whose command is a burst or a park.
LEMMA SampleKeepsIInv ==
    ASSUME IInv, NEW read \in Reads, NEW stop \in Stops,
           NEW more \in {"beam", "wait"}, NEW done \in {"wait", "recv"},
           phase \in Runs, pc \in {"index", "beam"}, Sample(read, stop, more, done)
    PROVE  IInv'
<1>0. TypeOK /\ EnFollowsRunning
  BY DEF IInv
<1>1. pulses' \in Nat /\ prevOpen' \in BOOLEAN
  <2>1. pulses \in Nat /\ prevOpen \in BOOLEAN
    BY <1>0 DEF TypeOK
  <2>2. pulses' = PulsesAfter(read)
    BY DEF Sample
  <2>3. prevOpen' = IF read \in {"open", "blocked"} THEN read = "open" ELSE prevOpen
    BY DEF Sample
  <2>4. prevOpen' \in BOOLEAN
    BY <2>1, <2>3
  <2> QED
    BY <2>1, <2>2, <2>4 DEF PulsesAfter
<1>2. OthersTyped
  BY <1>0, <1>1 DEF Sample, OthersTyped, TypeOK, queues
<1>3. CASE RunDone(read)
  <2> DEFINE e == IF phase = "burst" THEN "BURST_DONE" ELSE "PARK_DONE"
  <2>1. pc' = done /\ Finish(e, stop)
    BY <1>3 DEF Sample
  <2>2. e \in EventTypes
    BY DEF EventTypes
  <2>3. AtRest
    BY <1>0, <2>1, <2>2, FinishRests
  <2> QED
    BY <1>2, <2>1, <2>3, AtRestIInv
<1>4. CASE ~RunDone(read) /\ read = "err" /\ ioFail + 1 >= IoFailMax
  <2>1. pc' = done /\ Fault(stop)
    BY <1>4 DEF Sample
  <2>2. AtRest
    BY <1>0, <2>1, FaultRests
  <2> QED
    BY <1>2, <2>1, <2>2, AtRestIInv
<1>5. CASE ~RunDone(read) /\ ~(read = "err" /\ ioFail + 1 >= IoFailMax)
  <2>1. /\ pc' = more
        /\ UNCHANGED <<phase, mutex, elapsed, left, running, en, enLost, ph, led, armed, events>>
        /\ UNCHANGED <<act, over, retries, instant, pend, cmdQ, notif>>
    BY <1>5 DEF Sample, clocks, pins, queues
  <2>2. ioFail' \in Nat
    <3>1. ioFail \in Nat
      BY <1>0 DEF TypeOK
    <3>2. ioFail' = CASE read = "err"  -> ioFail + 1
                      [] read = "none" -> ioFail
                      [] OTHER         -> 0
      BY <1>5 DEF Sample
    <3> QED
      BY <3>1, <3>2
  <2>3. TypeOK'
    BY <1>0, <1>1, <2>1, <2>2 DEF TypeOK, Pcs
  <2>4. /\ StartInv' /\ LoopInv' /\ MutexIffSession' /\ RestInv'
        /\ EnFollowsRunning' /\ DirectionMatchesPhase'
    BY <2>1 DEF IInv, StartInv, LoopInv, MutexIffSession, SessionOpen, RestInv, Runs,
           EnFollowsRunning, DirectionMatchesPhase
  <2> QED
    BY <2>3, <2>4 DEF IInv
<1> QED
  BY <1>3, <1>4, <1>5

LEMMA IndexSampleKeepsIInv ==
    ASSUME IInv, NEW read \in Reads, NEW stop \in Stops, IndexSample(read, stop)
    PROVE  IInv'
BY SampleKeepsIInv DEF IInv, LoopInv, IndexSample

LEMMA BeamSampleKeepsIInv ==
    ASSUME IInv, NEW read \in Reads, NEW stop \in Stops, BeamSample(read, stop)
    PROVE  IInv'
BY SampleKeepsIInv DEF IInv, LoopInv, BeamSample

-----------------------------------------------------------------------------
(* Steps that start a movement *)

LEMMA BeginRunKeepsIInv ==
    ASSUME IInv, NEW ledOk \in BOOLEAN, NEW phOk \in BOOLEAN, NEW stop \in Stops,
           BeginRun(ledOk, phOk, stop),
           pc \notin Starts, phase \in {"idle"} \cup Antijam,
           act' \in Cmds, act'.kind \in Runs, retries' \in 0..MaxRetries,
           pend' \in [Callers -> Cmds \cup {NoCmd}],
           cmdQ' \in Seq(Cmds), Len(cmdQ') <= CmdDepth,
           notif' \in BOOLEAN
    PROVE  IInv'
<1>0. TypeOK /\ EnFollowsRunning
  BY DEF IInv
<1>1. pulses' \in Nat /\ prevOpen' \in BOOLEAN /\ over' \in Nat /\ instant' \in BOOLEAN
  BY DEF BeginRun
<1>2. OthersTyped
  BY <1>1 DEF OthersTyped
<1>3. CASE ledOk /\ phOk
  <2>1. /\ pc' = "start_run" /\ ioFail' = 0 /\ mutex' = TRUE /\ led' = TRUE
        /\ armed' = TRUE /\ running' = FALSE /\ ph' = "fwd"
        /\ en' = EnAfter(stop) /\ enLost' = LostAfter(stop)
        /\ elapsed' = 0 /\ left' = 0 /\ phase' = phase /\ events' = events
    BY <1>3 DEF BeginRun
  <2>2. /\ en' \in BOOLEAN /\ enLost' \in BOOLEAN
        /\ en' => enLost'
        /\ enLost' => WriteMayFail
    BY <1>0, <2>1, StopPins
  <2>3. pc' \in Pcs /\ elapsed' \in 0..RunMax
    BY <2>1, MotorAssumption DEF Pcs, Starts
  <2>4. TypeOK'
    BY <1>0, <1>2, <2>1, <2>2, <2>3 DEF TypeOK, OthersTyped
  <2>5. /\ StartInv' /\ LoopInv' /\ MutexIffSession' /\ RestInv'
        /\ EnFollowsRunning' /\ DirectionMatchesPhase'
    BY <2>1, <2>2 DEF StartInv, LoopInv, MutexIffSession, SessionOpen, RestInv, Runs,
           Antijam, EnFollowsRunning, DirectionMatchesPhase
  <2> QED
    BY <2>4, <2>5 DEF IInv
<1>4. CASE ~(ledOk /\ phOk)
  <2>1. pc' = "recv" /\ Fault(stop)
    BY <1>4 DEF BeginRun
  <2>2. AtRest
    BY <1>0, <2>1, FaultRests
  <2> QED
    BY <1>2, <2>1, <2>2, AtRestIInv
<1> QED
  BY <1>3, <1>4

LEMMA TakeRunKeepsIInv ==
    ASSUME IInv, NEW ledOk \in Writes, NEW phOk \in Writes, TakeRun(ledOk, phOk)
    PROVE  IInv'
<1>1. /\ TypeOK /\ Head(cmdQ) \in Cmds /\ Head(cmdQ).kind \in Runs /\ ~mutex
      /\ pc = "recv" /\ pend' = pend /\ notif' = notif
      /\ cmdQ' \in Seq(Cmds) /\ Len(cmdQ') <= CmdDepth
  BY HeadTyped DEF IInv, TakeRun, TakeCmd
<1>2. act' = Head(cmdQ) /\ retries' = 0 /\ BeginRun(ledOk, phOk, "ok")
  BY DEF TakeRun
<1>3. phase = "idle"
  BY <1>1 DEF IInv, MutexIffSession, SessionOpen
<1>4. /\ "ok" \in Stops /\ ledOk \in BOOLEAN /\ phOk \in BOOLEAN
      /\ retries' \in 0..MaxRetries
  <2>1. retries' \in 0..MaxRetries
    BY <1>2, MotorAssumption
  <2>2. "ok" \in Stops
    BY DEF Stops
  <2>3. ledOk \in BOOLEAN /\ phOk \in BOOLEAN
    BY DEF Writes
  <2> QED
    BY <2>1, <2>2, <2>3
<1>5. pend' \in [Callers -> Cmds \cup {NoCmd}] /\ notif' \in BOOLEAN
  BY <1>1 DEF TypeOK
<1> QED
  BY <1>1, <1>2, <1>3, <1>4, <1>5, BeginRunKeepsIInv DEF Starts

LEMMA AntijamClearKeepsIInv ==
    ASSUME IInv, NEW load \in Loads, NEW phOk \in Writes, NEW stop \in Stops,
           AntijamClear(load, phOk, stop)
    PROVE  IInv'
<1>1. /\ pc = "poll" /\ phase \in Antijam /\ BeginRun(TRUE, phOk, stop)
      /\ UNCHANGED <<act, retries, pend, cmdQ, notif>>
  BY DEF AntijamClear, queues
<1>2. act.kind \in Runs
  BY <1>1 DEF IInv, LoopInv
<1>3. act \in Cmds
  BY <1>2 DEF IInv, TypeOK, NoCmd, Runs
<1>4. /\ retries \in 0..MaxRetries /\ notif \in BOOLEAN
      /\ pend \in [Callers -> Cmds \cup {NoCmd}]
      /\ cmdQ \in Seq(Cmds) /\ Len(cmdQ) <= CmdDepth
  BY DEF IInv, TypeOK
<1>5. phOk \in BOOLEAN
  BY MotorAssumption DEF Writes
<1> QED
  BY <1>1, <1>2, <1>3, <1>4, <1>5, BeginRunKeepsIInv DEF Starts

LEMMA TakeBenchKeepsIInv ==
    ASSUME IInv, NEW phOk \in Writes, TakeBench(phOk)
    PROVE  IInv'
<1>1. /\ TypeOK /\ Head(cmdQ) \in Cmds /\ Head(cmdQ).kind \in {"fwd", "rev"} /\ ~mutex
      /\ pc = "recv" /\ pend' = pend /\ notif' = notif
      /\ cmdQ' \in Seq(Cmds) /\ Len(cmdQ') <= CmdDepth
  BY HeadTyped DEF IInv, TakeBench, TakeCmd
<1>2. /\ act' = Head(cmdQ) /\ retries' \in 0..MaxRetries
      /\ UNCHANGED <<phase, pulses, prevOpen, over, instant, elapsed, left,
                     running, en, enLost, led, armed>>
  BY MotorAssumption DEF TakeBench
<1>3. phase = "idle" /\ ~running
  BY <1>1 DEF IInv, MutexIffSession, SessionOpen, RestInv
<1>4. CASE phOk
  <2>1. /\ pc' = "start_bench" /\ mutex' = TRUE /\ ph' = Head(cmdQ).kind
        /\ UNCHANGED <<ioFail, events>>
    BY <1>4 DEF TakeBench
  <2>2. TypeOK'
    BY <1>1, <1>2, <2>1 DEF TypeOK, Pcs, Starts
  <2>3. /\ StartInv' /\ LoopInv' /\ MutexIffSession' /\ RestInv'
        /\ EnFollowsRunning' /\ DirectionMatchesPhase'
    BY <1>1, <1>2, <1>3, <2>1 DEF IInv, StartInv, LoopInv, MutexIffSession, SessionOpen,
           RestInv, Runs, Antijam, EnFollowsRunning, DirectionMatchesPhase
  <2> QED
    BY <2>2, <2>3 DEF IInv
<1>5. CASE ~phOk
  <2>1. /\ ioFail' = 0 /\ events' = Post("MOTOR_FAULT") /\ UNCHANGED <<pc, mutex, ph>>
    BY <1>5 DEF TakeBench
  <2>2. /\ events' \in Seq([type : EventTypes]) /\ Len(events') <= EventDepth
    BY <1>1, <2>1, PostTyped DEF EventTypes
  <2>3. TypeOK'
    BY <1>1, <1>2, <2>1, <2>2 DEF TypeOK, EventTypes
  <2>4. /\ StartInv' /\ LoopInv' /\ MutexIffSession' /\ RestInv'
        /\ EnFollowsRunning' /\ DirectionMatchesPhase'
    BY <1>1, <1>2, <1>3, <2>1 DEF IInv, StartInv, LoopInv, MutexIffSession, SessionOpen,
           RestInv, Runs, Antijam, EnFollowsRunning, DirectionMatchesPhase
  <2> QED
    BY <2>3, <2>4 DEF IInv
<1> QED
  BY <1>4, <1>5

\* The settle delay is over: what StartInv keeps for it becomes what the
\* running motor's direction is checked against.
LEMMA StartDoneKeepsIInv ==
    ASSUME IInv, StartDone
    PROVE  IInv'
<1>1. /\ pc \in Starts /\ running' = TRUE /\ en' = TRUE /\ enLost' = FALSE /\ phase' = StartPhase
      /\ elapsed' = CapAt(elapsed + SettleTicks, RunMax) /\ left' = StartTicks
      /\ pc' = IF phase = "idle" THEN "poll" ELSE "recv"
      /\ UNCHANGED <<act, mutex, pulses, prevOpen, over, retries, instant, ioFail,
                     ph, led, armed, pend, cmdQ, notif, events>>
  BY DEF StartDone, counters, queues
<1>2. elapsed' \in 0..RunMax
  <2>1. elapsed \in 0..RunMax
    BY DEF IInv, TypeOK
  <2> QED
    BY <1>1, <2>1, MotorAssumption DEF CapAt
<1>3. left' \in Nat
  <2>1. left \in Nat
    BY DEF IInv, TypeOK
  <2> QED
    BY <1>1, <2>1, MotorAssumption DEF StartTicks, AntijamTicks, Starts
<1>4. /\ pc = "start_run" => phase' = act.kind /\ act.kind \in Runs /\ ph = "fwd"
      /\ pc = "start_bench" => phase' = "bench" /\ act.kind \in {"fwd", "rev"}
                                /\ ph = act.kind
      /\ pc = "start_antijam" => phase' = phase /\ phase \in Antijam
                                  /\ ph = IF phase = "wiggle_fwd" THEN "fwd" ELSE "rev"
  BY <1>1 DEF IInv, StartInv, StartPhase
<1>5. phase' \in Phases \ {"idle"} /\ pc' \in {"poll", "recv"}
  BY <1>1, <1>4 DEF Phases, Runs, Antijam, Starts
<1>6. TypeOK'
  BY <1>1, <1>2, <1>3, <1>5 DEF IInv, TypeOK, Pcs
<1>7. StartInv' /\ EnFollowsRunning'
  BY <1>1, <1>5 DEF StartInv, EnFollowsRunning
<1>8. MutexIffSession' /\ RestInv'
  <2>1. mutex
    BY <1>1 DEF IInv, MutexIffSession, SessionOpen, StartInv, Starts, Antijam
  <2>2. phase' # "idle" /\ mutex'
    BY <1>1, <1>5, <2>1
  <2> QED
    BY <2>2 DEF MutexIffSession, SessionOpen, RestInv
<1>9. LoopInv'
  BY <1>1, <1>4, <1>5 DEF IInv, LoopInv, Runs, Antijam, Starts
<1>10. DirectionMatchesPhase'
  BY <1>1, <1>4 DEF DirectionMatchesPhase, Runs, Antijam, Starts
<1> QED
  BY <1>6, <1>7, <1>8, <1>9, <1>10 DEF IInv
LEMMA StartFailedKeepsIInv ==
    ASSUME IInv, NEW released \in BOOLEAN, StartFailed(released)
    PROVE  IInv'
<1> DEFINE phV == IF released THEN "rev" ELSE ph
<1>1. /\ WriteMayFail /\ pc \in Starts /\ pc' = "recv"
      /\ UNCHANGED <<act, pulses, prevOpen, over, retries, instant, pend, cmdQ, notif>>
  BY DEF StartFailed, queues
<1>2. TypeOK /\ phV \in {"fwd", "rev"} /\ en \in BOOLEAN
  BY DEF IInv, TypeOK
<1>3. OthersTyped
  BY <1>1, <1>2 DEF OthersTyped, TypeOK
<1>4. CASE pc = "start_antijam"
  <2>1. /\ elapsed' = CapAt(elapsed + SettleTicks, RunMax)
        /\ left' = StartTicks /\ ph' = phV
        /\ UNCHANGED <<phase, mutex, ioFail, running, en, enLost, led, armed, events>>
    BY <1>4 DEF StartFailed
  <2>2. elapsed' \in 0..RunMax
    <3>1. elapsed \in 0..RunMax
      BY <1>2 DEF TypeOK
    <3> QED
      BY <2>1, <3>1, MotorAssumption DEF CapAt
  <2>3. left' \in Nat
    BY <1>4, <2>1, MotorAssumption DEF StartTicks, AntijamTicks
  <2>4. TypeOK'
    BY <1>1, <1>2, <1>3, <2>1, <2>2, <2>3 DEF TypeOK, OthersTyped, Pcs
  <2>5. ~running /\ phase \in Antijam
    BY <1>4 DEF IInv, StartInv
  <2>6. /\ StartInv' /\ LoopInv' /\ MutexIffSession' /\ RestInv'
        /\ EnFollowsRunning' /\ DirectionMatchesPhase'
    BY <1>1, <2>1, <2>5 DEF IInv, StartInv, LoopInv, MutexIffSession, SessionOpen, RestInv,
           Runs, Antijam, EnFollowsRunning, DirectionMatchesPhase
  <2> QED
    BY <2>4, <2>6 DEF IInv
<1>5. CASE pc # "start_antijam"
  <2>1. EndSession("ok", phV, Post("MOTOR_FAULT"))
    BY <1>5 DEF StartFailed
  <2>2. AtRest
    <3>1. "ok" \in Stops /\ EnFollowsRunning
      BY DEF Stops, IInv
    <3>2. Post("MOTOR_FAULT") \in Seq([type : EventTypes]) /\ Len(Post("MOTOR_FAULT")) <= EventDepth
      BY <1>2, PostTyped DEF EventTypes
    <3> QED
      BY <1>2, <2>1, <3>1, <3>2, EndSessionRests
  <2> QED
    BY <1>1, <1>3, <2>2, AtRestIInv
<1> QED
  BY <1>4, <1>5

\* An anti-jam movement is started from a run or from another movement.
LEMMA StartAntijamKeepsIInv ==
    ASSUME IInv, NEW p \in Antijam, NEW phOk \in BOOLEAN, NEW stop \in Stops,
           NEW dir, dir = (IF p = "wiggle_fwd" THEN "fwd" ELSE "rev"),
           StartAntijam(p, dir, phOk, stop),
           phase \in Runs \cup Antijam,
           over' \in Nat, retries' \in 0..MaxRetries, instant' \in BOOLEAN,
           UNCHANGED <<act, mutex, pulses, prevOpen, ioFail, led, armed, elapsed,
                       pend, cmdQ, notif, events>>
    PROVE  IInv'
<1>1. TypeOK /\ EnFollowsRunning
  BY DEF IInv
<1>2. phase' = p /\ running' = FALSE /\ en' = EnAfter(stop) /\ enLost' = LostAfter(stop)
  BY DEF StartAntijam
<1>3. /\ en' \in BOOLEAN /\ enLost' \in BOOLEAN
      /\ en' => enLost'
      /\ enLost' => WriteMayFail
      /\ PhAfter(stop) \in {"fwd", "rev"}
  BY <1>1, <1>2, StopPins
<1>4. /\ pc' \in {"start_antijam", "recv"} /\ ph' \in {"fwd", "rev"}
      /\ pc' = "start_antijam" => ph' = dir
  BY <1>3 DEF StartAntijam
<1>5. left' \in Nat
  <2>1. left \in Nat
    BY <1>1 DEF TypeOK
  <2> QED
    BY <2>1, MotorAssumption DEF StartAntijam, AntijamTicks
<1>6. pc' \in Pcs /\ phase' \in Phases
  BY <1>2, <1>4 DEF Pcs, Starts, Phases
<1>7. TypeOK'
  BY <1>1, <1>2, <1>3, <1>4, <1>5, <1>6 DEF TypeOK
<1>8. mutex /\ act.kind \in Runs
  BY DEF IInv, MutexIffSession, SessionOpen, LoopInv, Runs, Antijam
<1>9. /\ StartInv' /\ LoopInv' /\ MutexIffSession' /\ RestInv'
      /\ EnFollowsRunning' /\ DirectionMatchesPhase'
  BY <1>2, <1>3, <1>4, <1>8 DEF StartInv, LoopInv, MutexIffSession, SessionOpen, RestInv,
         Runs, Antijam, EnFollowsRunning, DirectionMatchesPhase
<1> QED
  BY <1>7, <1>9 DEF IInv

LEMMA BeginAntijamKeepsIInv ==
    ASSUME IInv, NEW phOk \in BOOLEAN, NEW stop \in Stops, BeginAntijam(phOk, stop),
           phase \in Runs \cup Antijam,
           UNCHANGED <<act, pulses, prevOpen, pend, cmdQ, notif>>
    PROVE  IInv'
<1>1. TypeOK /\ EnFollowsRunning /\ over' = 0 /\ instant' = FALSE
  BY DEF IInv, BeginAntijam
<1>2. CASE retries >= MaxRetries
  <2>1. pc' = "recv" /\ Fault(stop) /\ retries' = retries
    BY <1>2 DEF BeginAntijam
  <2>2. AtRest
    BY <1>1, <2>1, FaultRests
  <2>3. OthersTyped
    BY <1>1, <2>1 DEF OthersTyped, TypeOK
  <2> QED
    BY <2>1, <2>2, <2>3, AtRestIInv
<1>3. CASE ~(retries >= MaxRetries)
  <2>1. /\ retries' = retries + 1
        /\ StartAntijam("rev", "rev", phOk, stop)
        /\ UNCHANGED <<mutex, ioFail, led, armed, elapsed, events>>
    BY <1>3 DEF BeginAntijam
  <2>2. retries' \in 0..MaxRetries
    BY <1>1, <1>3, <2>1, MotorAssumption DEF TypeOK
  <2>3. "rev" \in Antijam /\ "rev" = IF "rev" = "wiggle_fwd" THEN "fwd" ELSE "rev"
    BY DEF Antijam
  <2> QED
    BY <1>1, <2>1, <2>2, <2>3, StartAntijamKeepsIInv
<1> QED
  BY <1>2, <1>3

LEMMA PollJamKeepsIInv ==
    ASSUME IInv, NEW load \in Loads, NEW phOk \in Writes, NEW stop \in Stops,
           PollJam(load, phOk, stop)
    PROVE  IInv'
<1>1. phOk \in BOOLEAN
  BY MotorAssumption DEF Writes
<1> QED
  BY <1>1, BeginAntijamKeepsIInv DEF PollJam, queues

LEMMA AntijamPersistsKeepsIInv ==
    ASSUME IInv, NEW load \in Loads, NEW phOk \in Writes, NEW stop \in Stops,
           AntijamPersists(load, phOk, stop)
    PROVE  IInv'
<1>1. phOk \in BOOLEAN
  BY MotorAssumption DEF Writes
<1>2. phase \in Antijam /\ UNCHANGED <<act, pulses, prevOpen, pend, cmdQ, notif>>
  BY DEF AntijamPersists, queues
<1>3. over \in Nat /\ retries \in 0..MaxRetries /\ instant \in BOOLEAN
  BY DEF IInv, TypeOK
<1>4. CASE phase = "rev"
  <2>1. /\ StartAntijam("wiggle_fwd", "fwd", phOk, stop)
        /\ UNCHANGED <<mutex, over, retries, instant, ioFail, led, armed, elapsed, events>>
    BY <1>4 DEF AntijamPersists
  <2>2. "wiggle_fwd" \in Antijam
    BY DEF Antijam
  <2> QED
    BY <1>1, <1>2, <1>3, <2>1, <2>2, StartAntijamKeepsIInv
<1>5. CASE phase = "wiggle_fwd"
  <2>1. /\ StartAntijam("wiggle_rev", "rev", phOk, stop)
        /\ UNCHANGED <<mutex, over, retries, instant, ioFail, led, armed, elapsed, events>>
    BY <1>5 DEF AntijamPersists
  <2>2. "wiggle_rev" \in Antijam
    BY DEF Antijam
  <2> QED
    BY <1>1, <1>2, <1>3, <2>1, <2>2, StartAntijamKeepsIInv
<1>6. CASE phase = "wiggle_rev"
  <2>1. BeginAntijam(phOk, stop)
    BY <1>6 DEF AntijamPersists
  <2> QED
    BY <1>1, <1>2, <2>1, BeginAntijamKeepsIInv
<1> QED
  BY <1>2, <1>4, <1>5, <1>6 DEF Antijam

-----------------------------------------------------------------------------
LEMMA NextIInv == IInv /\ [Next]_vars => IInv'
<1> SUFFICES ASSUME IInv, [Next]_vars PROVE IInv'
  OBVIOUS
<1>1. CASE \E c \in Callers : \E cmd \in Cmds : CheckIdle(c, cmd)
  BY <1>1, CheckIdleKeepsIInv
<1>2. CASE \E c \in Callers : Enqueue(c)
  BY <1>2, EnqueueKeepsIInv
<1>3. CASE JamIsr
  BY <1>3, JamIsrKeepsIInv
<1>4. CASE AppReceive
  BY <1>4, AppReceiveKeepsIInv
<1>5. CASE Loop
  <2>1. CASE \/ RecvTimeout \/ DeferCmd \/ WaitTimeout \/ WaitIndex \/ WaitNotified
             \/ BenchRunning \/ AntijamDelay
    BY <2>1, PassingSteps, PassesKeepsIInv
  <2>2. CASE ParkAligned
    BY <2>2, ParkAlignedKeepsIInv
  <2>3. CASE \E ledOk, phOk \in Writes : TakeRun(ledOk, phOk)
    BY <2>3, TakeRunKeepsIInv
  <2>4. CASE \E phOk \in Writes : TakeBench(phOk)
    BY <2>4, TakeBenchKeepsIInv
  <2>5. CASE \E stop \in Stops : HandleStop(stop)
    BY <2>5, HandleStopKeepsIInv
  <2>6. CASE StartDone
    BY <2>6, StartDoneKeepsIInv
  <2>7. CASE \E released \in BOOLEAN : StartFailed(released)
    BY <2>7, StartFailedKeepsIInv
  <2>8. CASE \E stop \in Stops : PollTimeout(stop)
    BY <2>8, PollTimeoutKeepsIInv
  <2>9. CASE \E load \in Loads, phOk \in Writes, stop \in Stops : PollJam(load, phOk, stop)
    BY <2>9, PollJamKeepsIInv
  <2>10. CASE \E load \in Loads : PollLoad(load)
    BY <2>10, PollLoadKeepsIInv
  <2>11. CASE \E read \in Reads, stop \in Stops :
                 IndexSample(read, stop) \/ BeamSample(read, stop)
    BY <2>11, IndexSampleKeepsIInv, BeamSampleKeepsIInv
  <2>12. CASE \E stop \in Stops : BenchDone(stop)
    BY <2>12, BenchDoneKeepsIInv
  <2>13. CASE \E load \in Loads, phOk \in Writes, stop \in Stops :
                 AntijamClear(load, phOk, stop) \/ AntijamPersists(load, phOk, stop)
    BY <2>13, AntijamClearKeepsIInv, AntijamPersistsKeepsIInv
  <2> QED
    BY <1>5, <2>1, <2>2, <2>3, <2>4, <2>5, <2>6, <2>7, <2>8, <2>9, <2>10, <2>11,
       <2>12, <2>13 DEF Loop
<1>6. CASE UNCHANGED vars
  <2> USE <1>6 DEF vars, ctl, counters, clocks, pins, queues
  <2>1. TypeOK'
    BY DEF IInv, TypeOK
  <2>2. /\ StartInv' /\ LoopInv' /\ MutexIffSession' /\ RestInv'
        /\ EnFollowsRunning' /\ DirectionMatchesPhase'
    BY DEF IInv, StartInv, LoopInv, MutexIffSession, SessionOpen, RestInv,
           EnFollowsRunning, DirectionMatchesPhase
  <2> QED
    BY <2>1, <2>2 DEF IInv
<1> QED
  BY <1>1, <1>2, <1>3, <1>4, <1>5, <1>6 DEF Next

\* IInv holds in every reachable state.
THEOREM Invariance == Spec => []IInv
BY InitIInv, NextIInv, PTL DEF Spec

\* Every variable of the task keeps its type, the queues their depth and the
\* retries their limit (motor_ctrl.c, for every configuration).
THEOREM TypesAreKept == Spec => []TypeOK
<1>1. IInv => TypeOK
  BY DEF IInv
<1> QED
  BY <1>1, Invariance, PTL

\* The mutex of motor_ctrl.c is held exactly while a session is open.
THEOREM MutexFollowsSession == Spec => []MutexIffSession
<1>1. IInv => MutexIffSession
  BY DEF IInv
<1> QED
  BY <1>1, Invariance, PTL

\* With no session open nothing drives or watches the motor, and EN is low unless
\* the last stop could not write it (motor_ctrl_session_teardown,
\* motor_driver_stop): no other write that fails leaves it high.
THEOREM MotorSafeAtRest == Spec => []SafeAtRest
<1>1. IInv => SafeAtRest
  BY DEF IInv, RestInv, EnFollowsRunning, TypeOK, SafeAtRest
<1> QED
  BY <1>1, Invariance, PTL

\* An enabled bridge turns the motor the way its phase calls for (motor_driver_start_ph).
THEOREM DirectionIsRight == Spec => []DirectionMatchesPhase
<1>1. IInv => DirectionMatchesPhase
  BY DEF IInv
<1> QED
  BY <1>1, Invariance, PTL
===========================================================================
