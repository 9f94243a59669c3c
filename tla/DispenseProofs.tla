------------------------- MODULE DispenseProofs -------------------------
(***************************************************************************)
(* Proofs about Dispense, with the two history variables of MCDispense,    *)
(* for any tasks, requests, bench commands, depths and limits.             *)
(*                                                                         *)
(* That one burst is under way while a job waits for the motor follows     *)
(* from where the motor stands in every phase of a job (OneBurst); that    *)
(* the slot shown as dispensing has a job follows from whose request is in *)
(* the queue (OneRequest), and from the motor being free when the job of a *)
(* request begins, so that it is never refused.                            *)
(***************************************************************************)
EXTENDS MCDispense, FiniteSetTheorems, TLAPS

Done == {"BURST_DONE", "MOTOR_FAULT", "PARK_DONE", "TIMED_RUN_DONE"}
Events == [type : {"REQUEST"}, req : Requests] \cup [type : Done]
Calls == {NoCall} \cup [step : {"post", "mark"}, req : Requests]
MotorCmds == [kind : {"burst"}, n : Int] \cup BenchCmds
Jobs == [source : Sources, target : Nat, mode : Modes, batch : 0..MaxBatches]

Typed ==
    /\ DispTypeOK
    /\ queue \in Seq(MotorCmds)
    /\ session \in MotorCmds \cup {NoMotorCmd}
    /\ busy \in BOOLEAN
    /\ busy => session # NoMotorCmd
    /\ job \in Jobs
    /\ scale \in [valid : BOOLEAN, base : Nat, last : Nat]
    /\ slot \in BOOLEAN /\ divided \in BOOLEAN /\ crossed \in BOOLEAN

hvars == <<dispVars, divided, crossed>>

-----------------------------------------------------------------------------
(* Queues *)

\* A queue that loses its head.
LEMMA TailFacts ==
    ASSUME NEW S, NEW s \in Seq(S), s # <<>>
    PROVE  /\ Head(s) \in S /\ Head(s) = s[1] /\ 1 \in DOMAIN s
           /\ Tail(s) \in Seq(S) /\ Len(Tail(s)) = Len(s) - 1 /\ Len(s) \in Nat \ {0}
           /\ \A i \in DOMAIN Tail(s) : i + 1 \in DOMAIN s /\ i + 1 # 1 /\ Tail(s)[i] = s[i + 1]
           /\ \A i \in DOMAIN s \ {1} : i - 1 \in DOMAIN Tail(s) /\ Tail(s)[i - 1] = s[i]
OBVIOUS

\* A queue that gains an entry.
LEMMA AppendFacts ==
    ASSUME NEW S, NEW s \in Seq(S), NEW e \in S
    PROVE  /\ Append(s, e) \in Seq(S) /\ Len(Append(s, e)) = Len(s) + 1 /\ Len(s) \in Nat
           /\ DOMAIN Append(s, e) = DOMAIN s \cup {Len(s) + 1} /\ Len(s) + 1 \notin DOMAIN s
           /\ \A i \in DOMAIN s : Append(s, e)[i] = s[i]
           /\ Append(s, e)[Len(s) + 1] = e
OBVIOUS

\* The completion events of a command are events.
LEMMA OutcomeTypes ==
    ASSUME NEW c, NEW e \in Motor!Outcomes(c)
    PROVE  /\ [type |-> e] \in Events /\ e \in Done
           /\ c.kind = "burst" => e \in {"BURST_DONE", "MOTOR_FAULT"}
           /\ c.kind # "burst" => e # "BURST_DONE"
<1>1. e \in Done
  BY DEF Motor!Outcomes, Motor!DoneEvent, Done
<1>2. [type |-> e] \in [type : Done]
  BY <1>1
<1> QED BY <1>1, <1>2 DEF Events, Motor!Outcomes, Motor!DoneEvent

-----------------------------------------------------------------------------
(* Types *)

\* Motor steps and events keep their types.
LEMMA MotorTypes ==
    ASSUME Typed, MotorStep
    PROVE  /\ appQ' \in Seq(Events) /\ Len(appQ') <= AppDepth
           /\ queue' \in Seq(MotorCmds) /\ Len(queue') <= MotorDepth
           /\ session' \in MotorCmds \cup {NoMotorCmd} /\ busy' \in BOOLEAN /\ (busy' => session' # NoMotorCmd)
<1>0. /\ appQ \in Seq(Events) /\ Len(appQ) <= AppDepth /\ queue \in Seq(MotorCmds) /\ Len(queue) <= MotorDepth
      /\ session \in MotorCmds \cup {NoMotorCmd} /\ busy \in BOOLEAN /\ (busy => session # NoMotorCmd)
      /\ AppDepth \in Nat /\ MotorDepth \in Nat
  BY DispenseAssumption DEF Typed, DispTypeOK, Events, Done
<1>1. queue # <<>> => Head(queue) \in MotorCmds /\ Tail(queue) \in Seq(MotorCmds) /\ Len(Tail(queue)) <= MotorDepth
  <2> SUFFICES ASSUME queue # <<>>
               PROVE  Head(queue) \in MotorCmds /\ Tail(queue) \in Seq(MotorCmds) /\ Len(Tail(queue)) <= MotorDepth
    OBVIOUS
  <2>1. Head(queue) \in MotorCmds /\ Tail(queue) \in Seq(MotorCmds) /\ Len(Tail(queue)) = Len(queue) - 1 /\ Len(queue) \in Nat
    BY <1>0, TailFacts
  <2> QED BY <1>0, <2>1
<1>2. ASSUME NEW c, NEW e \in Motor!Outcomes(c), appQ' = Motor!Post(e)
      PROVE  appQ' \in Seq(Events) /\ Len(appQ') <= AppDepth
  <2>1. [type |-> e] \in Events
    BY <1>2, OutcomeTypes
  <2>2. CASE Len(appQ) < AppDepth
    <3>1. appQ' = Append(appQ, [type |-> e])
      BY <1>2, <2>2 DEF Motor!Post
    <3>2. appQ' \in Seq(Events) /\ Len(appQ') = Len(appQ) + 1 /\ Len(appQ) \in Nat
      BY <1>0, <2>1, <3>1, AppendFacts
    <3> QED BY <1>0, <2>2, <3>2
  <2>3. CASE ~(Len(appQ) < AppDepth)
    BY <1>0, <1>2, <2>3 DEF Motor!Post
  <2> QED BY <2>2, <2>3
<1>3. CASE Motor!Open
  BY <1>0, <1>1, <1>3 DEF Motor!Open
<1>4. CASE Motor!Turn
  BY <1>0, <1>4 DEF Motor!Turn
<1>5. CASE Motor!Answer
  BY <1>0, <1>1, <1>2, <1>5 DEF Motor!Answer
<1>6. CASE Motor!Close
  BY <1>0, <1>2, <1>6 DEF Motor!Close
<1> QED BY <1>3, <1>4, <1>5, <1>6 DEF MotorStep

\* A request that is planned is a burst of a number of portions.
LEMMA PlanTypes ==
    ASSUME NEW j \in Jobs, NEW d \in Int
    PROVE  /\ Min2(Max2((j.target + Portion - 1) \div Portion, 1), MaxPortions) \in Int
           /\ Min2(Max2(d \div Portion, 1), MaxPortions) \in Int
<1>1. Portion \in Nat \ {0} /\ MaxPortions \in Nat \ {0} /\ j.target \in Nat
  BY DispenseAssumption DEF Jobs
<1>2. (j.target + Portion - 1) \div Portion \in Int /\ d \div Portion \in Int
  BY <1>1
<1> QED BY <1>1, <1>2 DEF Min2, Max2

\* What the app task takes from its queue.
LEMMA ReceiveTypes ==
    ASSUME Typed, NEW type, Receive(type)
    PROVE  /\ appQ' \in Seq(Events) /\ Len(appQ') <= AppDepth
           /\ appQ # <<>> /\ appQ' = Tail(appQ) /\ Head(appQ) \in Events /\ Head(appQ).type = type
           /\ handler = "idle" /\ call[App] = NoCall
           /\ type = "REQUEST" => Head(appQ).req \in Requests
           /\ type # "REQUEST" => type \in Done
<1>1. appQ \in Seq(Events) /\ Len(appQ) <= AppDepth /\ AppDepth \in Nat
  BY DispenseAssumption DEF Typed, DispTypeOK, Events, Done
<1>2. appQ # <<>> /\ Head(appQ).type = type /\ appQ' = Tail(appQ) /\ AppIdle
  BY DEF Receive
<1>3. /\ Head(appQ) \in Events /\ Tail(appQ) \in Seq(Events)
      /\ Len(Tail(appQ)) = Len(appQ) - 1 /\ Len(appQ) \in Nat
  BY <1>1, <1>2, TailFacts
<1>4. CASE Head(appQ) \in [type : {"REQUEST"}, req : Requests]
  BY <1>1, <1>2, <1>3, <1>4 DEF AppIdle
<1>5. CASE Head(appQ) \in [type : Done]
  BY <1>1, <1>2, <1>3, <1>5 DEF AppIdle, Done
<1> QED BY <1>3, <1>4, <1>5 DEF Events

\* The end of a job leaves its variables as they were at first.
LEMMA ForgetTypes ==
    Forget => /\ stage' = "none" /\ job' \in Jobs /\ scale' \in [valid : BOOLEAN, base : Nat, last : Nat]
              /\ outcome' = "success" /\ job'.batch \in 0..MaxBatches
<1>1. MaxBatches \in Nat \ {0}
  BY DispenseAssumption
<1> QED BY <1>1 DEF Forget, Jobs, NoJob, NoScale, Sources, Modes

\* A burst joins the commands of the motor.
LEMMA KickTypes ==
    ASSUME Typed, NEW n \in Int, Len(queue) < MotorDepth
    PROVE  /\ Append(queue, Burst(n)) \in Seq(MotorCmds) /\ Len(Append(queue, Burst(n))) <= MotorDepth
<1>1. queue \in Seq(MotorCmds) /\ Len(queue) <= MotorDepth /\ MotorDepth \in Nat
  BY DispenseAssumption DEF Typed, DispTypeOK
<1>2. Burst(n) \in MotorCmds
  BY DEF Burst, MotorCmds
<1> QED BY <1>1, <1>2, AppendFacts

\* Every step keeps the types.
LEMMA TypedKept ==
    ASSUME Typed, HNext
    PROVE  Typed'
<1> DEFINE Rest == /\ appQ' \in Seq(Events) /\ Len(appQ') <= AppDepth
                   /\ queue' \in Seq(MotorCmds) /\ Len(queue') <= MotorDepth
                   /\ session' \in MotorCmds \cup {NoMotorCmd} /\ busy' \in BOOLEAN /\ (busy' => session' # NoMotorCmd)
                   /\ call' \in [Tasks -> Calls]
                   /\ handler' \in {"idle", "begin", "kick"}
                   /\ pending' \in BOOLEAN /\ stage' \in {"none", "motor", "settle"}
                   /\ job' \in Jobs /\ outcome' \in {"success", "stuck"}
                   /\ scale' \in [valid : BOOLEAN, base : Nat, last : Nat]
                   /\ slot' \in BOOLEAN /\ bench' \in {"idle", "asked", "wait"}
<1> SUFFICES Rest
  <2> SUFFICES ASSUME Rest PROVE Typed'
    OBVIOUS
  <2>1. divided' \in BOOLEAN /\ crossed' \in BOOLEAN
    BY DEF HNext, Typed
  <2>2. job'.batch \in 0..MaxBatches
    BY DEF Jobs
  <2> QED BY <2>1, <2>2 DEF Typed, DispTypeOK, Events, Calls, Done
<1>0. /\ appQ \in Seq(Events) /\ Len(appQ) <= AppDepth
      /\ queue \in Seq(MotorCmds) /\ Len(queue) <= MotorDepth
      /\ session \in MotorCmds \cup {NoMotorCmd} /\ busy \in BOOLEAN /\ (busy => session # NoMotorCmd)
      /\ call \in [Tasks -> Calls]
      /\ handler \in {"idle", "begin", "kick"}
      /\ pending \in BOOLEAN /\ stage \in {"none", "motor", "settle"}
      /\ job \in Jobs /\ outcome \in {"success", "stuck"}
      /\ scale \in [valid : BOOLEAN, base : Nat, last : Nat]
      /\ slot \in BOOLEAN /\ bench \in {"idle", "asked", "wait"}
  BY DEF Typed, DispTypeOK, Events, Calls, Done
<1>a. /\ AppDepth \in Nat \ {0} /\ MotorDepth \in Nat \ {0} /\ MaxWeight \in Nat /\ Requests \subseteq RequestSet
      /\ MaxBatches \in Nat \ {0} /\ TaskOf \in [Sources -> Tasks] /\ Portion \in Nat \ {0} /\ App \in Tasks
  BY DispenseAssumption
<1>n. NoCall \in Calls
  BY DEF Calls
<1>s. ASSUME NEW rq \in Requests
      PROVE  rq \in RequestSet /\ rq.source \in Sources /\ rq.target \in Nat
  BY <1>a DEF RequestSet
<1>r. ASSUME NEW read \in ScaleReads, read.ok
      PROVE  read.dg \in Nat
  <2>1. CASE read \in [ok : {TRUE}, dg : 0..MaxWeight]
    BY <1>a, <2>1
  <2>2. CASE read = [ok |-> FALSE]
    BY <1>r, <2>2
  <2> QED BY <2>1, <2>2 DEF ScaleReads
<1>1. ASSUME NEW r \in Requests, SubmitCheck(r) PROVE Rest
  <2>1. [step |-> "post", req |-> r] \in Calls
    BY DEF Calls
  <2> QED BY <1>0, <1>1, <2>1 DEF SubmitCheck, motorVars, jobVars, notices
<1>2. ASSUME NEW t \in Tasks, SubmitPost(t) PROVE Rest
  <2>1. call[t] \in Calls /\ call[t].step = "post"
    BY <1>0, <1>2 DEF SubmitPost
  <2>2. call[t].req \in Requests
    BY <2>1 DEF Calls, NoCall
  <2>3. CASE Len(appQ) < AppDepth
    <3>1. [type |-> "REQUEST", req |-> call[t].req] \in Events
      BY <2>2 DEF Events
    <3>2. appQ' = Append(appQ, [type |-> "REQUEST", req |-> call[t].req])
      BY <1>2, <2>3 DEF SubmitPost
    <3>3. appQ' \in Seq(Events) /\ Len(appQ') = Len(appQ) + 1 /\ Len(appQ) \in Nat
      BY <1>0, <3>1, <3>2, AppendFacts
    <3>4. [call[t] EXCEPT !.step = "mark"] \in Calls
      BY <2>1, <2>2 DEF Calls, NoCall
    <3>5. call' = [call EXCEPT ![t] = [call[t] EXCEPT !.step = "mark"]]
      BY <1>2, <2>3 DEF SubmitPost
    <3>6. call' \in [Tasks -> Calls]
      BY <1>0, <3>4, <3>5
    <3> QED BY <1>0, <1>2, <1>a, <2>3, <3>3, <3>6 DEF SubmitPost, motorVars, jobVars, notices
  <2>4. CASE ~(Len(appQ) < AppDepth)
    BY <1>0, <1>2, <1>n, <2>4 DEF SubmitPost, motorVars, jobVars, notices
  <2> QED BY <2>3, <2>4
<1>3. ASSUME NEW t \in Tasks, SubmitMark(t) PROVE Rest
  <2>1. slot' \in BOOLEAN
    BY <1>0, <1>3 DEF SubmitMark
  <2> QED BY <1>0, <1>3, <1>n, <2>1 DEF SubmitMark, motorVars, jobVars, notices
<1>4. CASE RequestDropped
  BY <1>0, <1>4, ReceiveTypes DEF RequestDropped, motorVars, jobVars, notices
<1>5. ASSUME NEW mode \in Modes, RequestAccepted(mode) PROVE Rest
  <2>1. Receive("REQUEST")
    BY <1>5 DEF RequestAccepted
  <2>2. appQ' \in Seq(Events) /\ Len(appQ') <= AppDepth /\ Head(appQ).req \in Requests
    BY <2>1, ReceiveTypes
  <2>3. Head(appQ).req.source \in Sources /\ Head(appQ).req.target \in Nat
    BY <2>2, <1>s
  <2>4. \E m \in Modes : job' = [source |-> Head(appQ).req.source, target |-> Head(appQ).req.target,
                                 mode |-> m, batch |-> 1]
    BY <1>5 DEF RequestAccepted, Modes
  <2>5. job' \in Jobs
    BY <1>a, <2>3, <2>4 DEF Jobs
  <2> QED BY <1>0, <1>5, <2>2, <2>5 DEF RequestAccepted, motorVars, notices
<1>6. ASSUME NEW read \in ScaleReads, JobBegins(read) PROVE Rest
  <2>1. scale' \in [valid : BOOLEAN, base : Nat, last : Nat]
    <3>1. CASE read.ok
      <4>1. scale' = [valid |-> TRUE, base |-> read.dg, last |-> read.dg] /\ read.dg \in Nat
        BY <1>6, <1>r, <3>1 DEF JobBegins
      <4> QED BY <4>1
    <3>2. CASE ~read.ok
      BY <1>6, <3>2 DEF JobBegins, NoScale
    <3> QED BY <3>1, <3>2
  <2> QED BY <1>0, <1>6, <2>1 DEF JobBegins, motorVars, notices
<1>7. CASE JobKicked
  <2>1. PlannedPortions \in Int
    BY <1>0, PlanTypes DEF PlannedPortions
  <2>2. Len(queue) < MotorDepth /\ queue' = Append(queue, Burst(PlannedPortions)) /\ UNCHANGED <<session, busy, appQ>>
    BY <1>7 DEF JobKicked, Motor!Accept
  <2>3. queue' \in Seq(MotorCmds) /\ Len(queue') <= MotorDepth
    BY <2>1, <2>2, KickTypes
  <2> QED BY <1>0, <1>7, <2>2, <2>3 DEF JobKicked, jobVars, notices
<1>8. CASE JobRefused
  <2>1. Forget
    BY <1>8 DEF JobRefused
  <2> QED BY <1>0, <1>8, <2>1, ForgetTypes DEF JobRefused, motorVars
<1>9. CASE OnBurstDone
  <2>1. Receive("BURST_DONE")
    BY <1>9 DEF OnBurstDone
  <2>2. appQ' \in Seq(Events) /\ Len(appQ') <= AppDepth
    BY <2>1, ReceiveTypes
  <2> QED BY <1>0, <1>9, <2>2 DEF OnBurstDone, BeginSettle, motorVars, jobVars, notices
<1>10. CASE OnMotorFault
  <2>1. Receive("MOTOR_FAULT")
    BY <1>10 DEF OnMotorFault
  <2>2. appQ' \in Seq(Events) /\ Len(appQ') <= AppDepth
    BY <2>1, ReceiveTypes
  <2> QED BY <1>0, <1>10, <2>2 DEF OnMotorFault, BeginSettle, motorVars, jobVars, notices
<1>11. CASE OnBenchDone
  <2>1. appQ' \in Seq(Events) /\ Len(appQ') <= AppDepth
    BY <1>11, ReceiveTypes DEF OnBenchDone
  <2> QED BY <1>0, <1>11, <2>1 DEF OnBenchDone, motorVars, jobVars, notices
<1>12. CASE SettleStarts
  BY <1>0, <1>12 DEF SettleStarts, motorVars, notices
<1>13. ASSUME NEW read \in ScaleReads, NEW trusted \in BOOLEAN, NEW low \in BOOLEAN,
              AfterSettle(read, trusted, low)
       PROVE  Rest
  <2>1. CASE \E result, measured, gain : Publish(result, measured, gain, low)
    <3>1. PICK result, measured, gain : Publish(result, measured, gain, low)
      BY <2>1
    <3>2. Forget /\ UNCHANGED motorVars /\ pending' = FALSE /\ slot' \in BOOLEAN
      BY <1>0, <3>1 DEF Publish
    <3> QED BY <1>0, <1>13, <3>2, ForgetTypes DEF AfterSettle, motorVars
  <2>2. CASE ~\E result, measured, gain : Publish(result, measured, gain, low)
    <3>1. PICK extra \in Int :
            /\ scale.valid /\ read.ok /\ ~(job.batch >= MaxBatches) /\ CanKick
            /\ queue' = Append(queue, Burst(extra))
            /\ job' = [job EXCEPT !.batch = @ + 1] /\ scale' = [scale EXCEPT !.last = read.dg]
            /\ stage' = "motor" /\ UNCHANGED <<session, busy, pending, outcome, notices>>
      <4> DEFINE weighed == scale.valid /\ read.ok
                 measured == weighed /\ trusted
                 gain == IF weighed THEN read.dg - scale.base ELSE 0
                 streakN == IF ~weighed THEN streak
                            ELSE IF read.dg <= scale.last THEN streak + 1 ELSE 0
                 deficit == job.target - gain
                 extra == Min2(Max2(deficit \div Portion, 1), MaxPortions)
      <4>0. scale.base \in Int /\ job.target \in Int
        BY <1>0 DEF Jobs
      <4>1. deficit \in Int
        BY <1>r, <4>0
      <4>2. extra \in Int
        BY <1>0, <4>1, PlanTypes
      <4>3. /\ weighed /\ ~(job.batch >= MaxBatches) /\ CanKick
            /\ queue' = Append(queue, Burst(extra))
            /\ job' = [job EXCEPT !.batch = @ + 1] /\ scale' = [scale EXCEPT !.last = read.dg]
            /\ stage' = "motor" /\ UNCHANGED <<session, busy, pending, outcome, notices>>
        BY <1>13, <2>2 DEF AfterSettle, BatchesSpent
      <4> QED BY <4>2, <4>3
    <3>2. queue' \in Seq(MotorCmds) /\ Len(queue') <= MotorDepth
      BY <3>1, KickTypes DEF CanKick
    <3>3. job' \in Jobs
      <4>1. job.batch \in 0..MaxBatches /\ ~(job.batch >= MaxBatches)
        BY <1>0, <3>1 DEF Jobs
      <4>2. job.batch + 1 \in 0..MaxBatches
        BY <1>a, <4>1
      <4> QED BY <1>0, <3>1, <4>2 DEF Jobs
    <3>4. read.dg \in Nat
      BY <1>r, <3>1
    <3>5. scale' \in [valid : BOOLEAN, base : Nat, last : Nat]
      BY <1>0, <3>1, <3>4
    <3>6. UNCHANGED <<appQ, call, handler, bench>>
      BY <1>13 DEF AfterSettle
    <3> QED BY <1>0, <3>1, <3>2, <3>3, <3>5, <3>6 DEF notices
  <2> QED BY <2>1, <2>2
<1>14. ASSUME NEW cmd \in BenchCmds, BenchRequest(cmd) PROVE Rest
  <2>1. cmd \in MotorCmds
    BY DEF MotorCmds
  <2>2. Len(queue) < MotorDepth /\ queue' = Append(queue, cmd) /\ UNCHANGED <<session, busy, appQ>>
    BY <1>14 DEF BenchRequest, Motor!Accept
  <2>3. queue' \in Seq(MotorCmds) /\ Len(queue') = Len(queue) + 1 /\ Len(queue) \in Nat
    BY <1>0, <2>1, <2>2, AppendFacts
  <2> QED BY <1>0, <1>14, <1>a, <2>2, <2>3 DEF BenchRequest, jobVars, notices
<1>15. CASE BenchWaits
  BY <1>0, <1>15 DEF BenchWaits, motorVars, jobVars, notices
<1>16. CASE HopperFilled
  BY <1>0, <1>16 DEF HopperFilled, motorVars, jobVars
<1>17. CASE MotorStep
  BY <1>0, <1>17, MotorTypes DEF MotorStep, jobVars, notices
<1> QED
  BY <1>1, <1>2, <1>3, <1>4, <1>5, <1>6, <1>7, <1>8, <1>9, <1>10, <1>11, <1>12, <1>13, <1>14,
     <1>15, <1>16, <1>17 DEF HNext, DispNext, AppStep, Poll, Returns

\* Every reachable state has the types.
LEMMA AlwaysTyped == HSpec => []Typed
<1>1. HInit => Typed
  <2> SUFFICES ASSUME HInit PROVE Typed
    OBVIOUS
  <2>1. appQ = <<>> /\ queue = <<>> /\ session = NoMotorCmd /\ busy = FALSE
    BY DEF HInit, DispInit, Motor!Init
  <2>2. job \in Jobs /\ job.batch \in 0..MaxBatches
    BY DispenseAssumption DEF HInit, DispInit, NoJob, Jobs, Sources, Modes
  <2>3. scale \in [valid : BOOLEAN, base : Nat, last : Nat]
    BY DEF HInit, DispInit, NoScale
  <2>4. call \in [Tasks -> {NoCall} \cup [step : {"post", "mark"}, req : Requests]]
    BY DEF HInit, DispInit
  <2>5. /\ appQ \in Seq(Events) /\ Len(appQ) = 0 /\ queue \in Seq(MotorCmds) /\ Len(queue) = 0
        /\ session \in MotorCmds \cup {NoMotorCmd}
    BY <2>1
  <2>6. AppDepth \in Nat /\ MotorDepth \in Nat
    BY DispenseAssumption
  <2>7. /\ handler = "idle" /\ pending = FALSE /\ stage = "none" /\ outcome = "success" /\ bench = "idle"
        /\ slot = FALSE /\ divided = FALSE /\ crossed = FALSE
    BY DEF HInit, DispInit
  <2>8. DispTypeOK
    <3>1. appQ \in Seq([type : {"REQUEST"}, req : Requests]
                       \cup [type : {"BURST_DONE", "MOTOR_FAULT", "PARK_DONE", "TIMED_RUN_DONE"}])
      BY <2>5 DEF Events, Done
    <3>2. Len(appQ) <= AppDepth /\ Len(queue) <= MotorDepth
      BY <2>5, <2>6
    <3> HIDE DEF Jobs
    <3> QED BY <2>2, <2>4, <2>7, <3>1, <3>2 DEF DispTypeOK
  <2>9. busy \in BOOLEAN /\ ~busy
    BY <2>1
  <2> QED BY <2>2, <2>3, <2>5, <2>7, <2>8, <2>9 DEF Typed
<1>2. Typed /\ [HNext]_hvars => Typed'
  <2>1. CASE HNext
    BY <2>1, TypedKept
  <2>2. CASE UNCHANGED hvars
    BY <2>2 DEF hvars, dispVars, motorVars, jobVars, notices, Typed, DispTypeOK
  <2> QED BY <2>1, <2>2
<1>3. HSpec => HInit /\ [][HNext]_hvars
  BY DEF HSpec, hvars
<1> QED BY <1>1, <1>2, <1>3, PTL

-----------------------------------------------------------------------------
(* What a step does to the app queue *)

HasRequest == \E i \in DOMAIN appQ : appQ[i].type = "REQUEST"

\* A step of the motor posts a completion event or nothing.
LEMMA MotorPosts ==
    ASSUME Typed, MotorStep
    PROVE  appQ' = appQ \/ \E d \in Done : appQ' = Append(appQ, [type |-> d])
<1>1. ASSUME NEW c, NEW e \in Motor!Outcomes(c), appQ' = Motor!Post(e)
      PROVE  appQ' = appQ \/ \E d \in Done : appQ' = Append(appQ, [type |-> d])
  BY <1>1, OutcomeTypes DEF Motor!Post
<1>2. CASE Motor!Open \/ Motor!Turn
  BY <1>2 DEF Motor!Open, Motor!Turn
<1>3. CASE Motor!Answer
  BY <1>1, <1>3 DEF Motor!Answer
<1>4. CASE Motor!Close
  BY <1>1, <1>4 DEF Motor!Close
<1> QED BY <1>2, <1>3, <1>4 DEF MotorStep

\* An event that joins the queue leaves the requests in it.
LEMMA AppendKeepsRequest ==
    ASSUME Typed, NEW e \in Events, appQ' = Append(appQ, e)
    PROVE  /\ HasRequest => HasRequest'
           /\ e.type = "REQUEST" => HasRequest'
<1>1. appQ \in Seq(Events)
  BY DEF Typed, DispTypeOK, Events, Done
<1> QED BY <1>1, AppendFacts DEF HasRequest

\* An event that is taken from the queue and is no request leaves them in it.
LEMMA ReceiveKeepsRequest ==
    ASSUME Typed, NEW type, type # "REQUEST", Receive(type)
    PROVE  HasRequest => HasRequest'
<1>1. appQ \in Seq(Events)
  BY DEF Typed, DispTypeOK, Events, Done
<1>2. appQ # <<>> /\ appQ' = Tail(appQ) /\ appQ[1].type = type
  BY <1>1, TailFacts DEF Receive
<1> QED BY <1>1, <1>2, TailFacts DEF HasRequest

\* The posts of the motor leave the requests in the queue.
LEMMA MotorKeepsRequest ==
    ASSUME Typed, MotorStep
    PROVE  HasRequest => HasRequest'
<1>1. CASE appQ' = appQ
  BY <1>1 DEF HasRequest
<1>2. ASSUME NEW d \in Done, appQ' = Append(appQ, [type |-> d])
      PROVE  HasRequest => HasRequest'
  <2>1. [type |-> d] \in Events
    BY DEF Events
  <2> QED BY <1>2, <2>1, AppendKeepsRequest
<1> QED BY <1>1, <1>2, MotorPosts

\* A submission that a request's start cuts is remembered.
LEMMA TakingDivides ==
    ASSUME Typed, HNext, Receive("REQUEST"), call' = call, NEW t \in Tasks, call[t] # NoCall
    PROVE  divided'
<1>1. Takes("REQUEST")
  BY DEF Receive, Takes
<1> QED BY <1>1 DEF HNext, Divides

-----------------------------------------------------------------------------
(* A pending job has its request in the queue. *)

\* The mark is set, or a task is about to set it.
Marked == pending \/ \E t \in Tasks : call[t].step = "mark"
Promise == Marked /\ ~divided => HasRequest

\* Every step keeps a request for a job that is, or will be, marked pending.
LEMMA PromiseKept ==
    ASSUME Typed, Promise, HNext
    PROVE  Promise'
<1>0. divided => divided'
  BY DEF HNext
<1>t. call \in [Tasks -> Calls]
  BY DEF Typed, DispTypeOK, Calls
<1>k. ASSUME UNCHANGED call, pending' => pending, HasRequest => HasRequest'
      PROVE  Promise'
  BY <1>0, <1>k DEF Promise, Marked
<1>r. ASSUME Receive("REQUEST"), UNCHANGED call, pending' = FALSE
      PROVE  Promise'
  BY <1>r, TakingDivides DEF Promise, Marked, NoCall
<1>1. ASSUME NEW r \in Requests, SubmitCheck(r) PROVE Promise'
  <2>1. \A t \in Tasks : call'[t].step = "mark" => call[t].step = "mark"
    BY <1>1, <1>t DEF SubmitCheck
  <2> QED BY <1>0, <1>1, <2>1 DEF SubmitCheck, jobVars, Promise, Marked, HasRequest
<1>2. ASSUME NEW t \in Tasks, SubmitPost(t) PROVE Promise'
  <2>1. CASE Len(appQ) < AppDepth
    <3>1. call[t].req \in Requests
      BY <1>2, <1>t DEF SubmitPost, Calls, NoCall
    <3>2. [type |-> "REQUEST", req |-> call[t].req] \in Events
      BY <3>1 DEF Events
    <3>3. appQ' = Append(appQ, [type |-> "REQUEST", req |-> call[t].req])
      BY <1>2, <2>1 DEF SubmitPost
    <3>4. HasRequest'
      BY <3>2, <3>3, AppendKeepsRequest
    <3> QED BY <3>4 DEF Promise
  <2>2. CASE ~(Len(appQ) < AppDepth)
    <3>1. \A u \in Tasks : call'[u].step = "mark" => call[u].step = "mark"
      BY <1>2, <1>t, <2>2 DEF SubmitPost, NoCall
    <3> QED BY <1>0, <1>2, <2>2, <3>1 DEF SubmitPost, jobVars, Promise, Marked, HasRequest
  <2> QED BY <2>1, <2>2
<1>3. ASSUME NEW t \in Tasks, SubmitMark(t) PROVE Promise'
  <2>1. Marked
    BY <1>3 DEF SubmitMark, Marked
  <2> QED BY <1>0, <1>3, <2>1 DEF SubmitMark, Promise, HasRequest
<1>4. CASE RequestDropped
  BY <1>r, <1>4 DEF RequestDropped
<1>5. ASSUME NEW mode \in Modes, RequestAccepted(mode) PROVE Promise'
  BY <1>r, <1>5 DEF RequestAccepted
<1>6. ASSUME NEW read \in ScaleReads, JobBegins(read) PROVE Promise'
  BY <1>k, <1>6 DEF JobBegins, HasRequest
<1>7. CASE JobKicked
  BY <1>k, <1>7 DEF JobKicked, Motor!Accept, jobVars, HasRequest
<1>8. CASE JobRefused
  BY <1>k, <1>8 DEF JobRefused, HasRequest
<1>9. CASE OnBurstDone
  <2>1. HasRequest => HasRequest'
    BY <1>9, ReceiveKeepsRequest DEF OnBurstDone
  <2> QED BY <1>k, <1>9, <2>1 DEF OnBurstDone, BeginSettle, jobVars
<1>10. CASE OnMotorFault
  <2>1. HasRequest => HasRequest'
    BY <1>10, ReceiveKeepsRequest DEF OnMotorFault
  <2> QED BY <1>k, <1>10, <2>1 DEF OnMotorFault, BeginSettle, jobVars
<1>11. CASE OnBenchDone
  <2>1. HasRequest => HasRequest'
    BY <1>11, ReceiveKeepsRequest DEF OnBenchDone
  <2> QED BY <1>k, <1>11, <2>1 DEF OnBenchDone, jobVars
<1>12. CASE SettleStarts
  BY <1>k, <1>12 DEF SettleStarts, HasRequest
<1>13. ASSUME NEW read \in ScaleReads, NEW trusted \in BOOLEAN, NEW low \in BOOLEAN,
              AfterSettle(read, trusted, low)
       PROVE  Promise'
  <2>1. UNCHANGED <<appQ, call>>
    BY <1>13 DEF AfterSettle
  <2>2. pending' = FALSE \/ pending' = pending
    BY <1>13 DEF AfterSettle, Publish
  <2> QED BY <1>k, <2>1, <2>2 DEF HasRequest
<1>14. ASSUME NEW cmd \in BenchCmds, BenchRequest(cmd) PROVE Promise'
  BY <1>k, <1>14 DEF BenchRequest, Motor!Accept, jobVars, HasRequest
<1>15. CASE BenchWaits
  BY <1>k, <1>15 DEF BenchWaits, jobVars, HasRequest
<1>16. CASE HopperFilled
  BY <1>k, <1>16 DEF HopperFilled, jobVars, HasRequest
<1>17. CASE MotorStep
  <2>1. HasRequest => HasRequest'
    BY <1>17, MotorKeepsRequest
  <2> QED BY <1>k, <1>17, <2>1 DEF MotorStep, jobVars
<1> QED
  BY <1>1, <1>2, <1>3, <1>4, <1>5, <1>6, <1>7, <1>8, <1>9, <1>10, <1>11, <1>12, <1>13, <1>14,
     <1>15, <1>16, <1>17 DEF HNext, DispNext, AppStep, Poll, Returns

\* A job that is marked pending has a request in the queue, as long as no
\* submission was cut by another one or by the start of a request: the mark of
\* dispense_submit_* does not stay behind (s_job_pending).
THEOREM MarkHasRequest == HSpec => []PendingHasRequest
<1>1. HInit => Promise
  BY DEF HInit, DispInit, Promise, Marked, NoCall
<1>2. Typed /\ Promise /\ [HNext]_hvars => Promise'
  <2>1. CASE HNext
    BY <2>1, PromiseKept
  <2>2. CASE UNCHANGED hvars
    BY <2>2 DEF hvars, dispVars, jobVars, Promise, Marked, HasRequest
  <2> QED BY <2>1, <2>2
<1>3. HSpec => HInit /\ [][HNext]_hvars
  BY DEF HSpec, hvars
<1>4. Typed /\ Promise => PendingHasRequest
  BY DEF Typed, Promise, Marked, HasRequest, PendingHasRequest
<1> QED BY <1>1, <1>2, <1>3, <1>4, AlwaysTyped, PTL

-----------------------------------------------------------------------------
(* One burst for every wait *)

Answering == {"BURST_DONE", "MOTOR_FAULT"}
OnlyRequests == \A i \in DOMAIN appQ : appQ[i].type = "REQUEST"

\* Where the burst of a job that waits for the motor can be ...
Queued == Len(queue) = 1 /\ queue[1].kind = "burst" /\ session = NoMotorCmd /\ OnlyRequests
Turning == queue = <<>> /\ session # NoMotorCmd /\ session.kind = "burst" /\ OnlyRequests
Answered ==
    /\ queue = <<>> /\ session = NoMotorCmd
    /\ \E i \in DOMAIN appQ : /\ appQ[i].type \in Answering
                              /\ \A j \in DOMAIN appQ \ {i} : appQ[j].type = "REQUEST"
OneBurst == Queued \/ Turning \/ Answered

\* ... how the motor stands in the other phases of a job, and between jobs.
Quiet == queue = <<>> /\ session = NoMotorCmd /\ OnlyRequests
NoFeed ==
    /\ \A i \in DOMAIN queue : queue[i].kind # "burst"
    /\ session.kind # "burst"
    /\ \A i \in DOMAIN appQ : appQ[i].type # "BURST_DONE"

InHand == Active \/ handler # "idle" \/ \E t \in Tasks : call[t] # NoCall
Waits == stage = "motor" /\ handler = "idle"

MotorStands ==
    /\ handler = "begin" => stage = "none"
    /\ handler = "kick" => stage = "motor"
    /\ ~crossed => /\ Waits => OneBurst
                   /\ InHand /\ ~Waits => Quiet
                   /\ ~InHand => NoFeed

\* A completion event is never lost.
Room == Len(appQ) < AppDepth

\* A quiet motor has no burst.
LEMMA QuietHasNoFeed == Quiet => NoFeed
BY CommandsApart DEF Quiet, NoFeed, OnlyRequests

\* Requests that come and go leave the motor as it stands.
LEMMA RequestsComeAndGo ==
    ASSUME Typed, UNCHANGED <<queue, session>>,
           \/ appQ' = appQ
           \/ Receive("REQUEST")
           \/ \E r \in Requests : appQ' = Append(appQ, [type |-> "REQUEST", req |-> r])
    PROVE  (OneBurst => OneBurst') /\ (Quiet => Quiet') /\ (NoFeed => NoFeed')
<1>0. appQ \in Seq(Events)
  BY DEF Typed, DispTypeOK, Events, Done
<1>1. CASE appQ' = appQ
  BY <1>1 DEF OneBurst, Queued, Turning, Answered, OnlyRequests, Quiet, NoFeed
<1>2. CASE Receive("REQUEST")
  <2>1. /\ appQ # <<>> /\ appQ' = Tail(appQ) /\ appQ[1].type = "REQUEST"
        /\ \A i \in DOMAIN appQ' : i + 1 \in DOMAIN appQ /\ i + 1 # 1 /\ appQ'[i] = appQ[i + 1]
        /\ \A i \in DOMAIN appQ \ {1} : i - 1 \in DOMAIN appQ' /\ appQ'[i - 1] = appQ[i]
    BY <1>0, <1>2, TailFacts DEF Receive
  <2>2. DOMAIN appQ \subseteq Int /\ DOMAIN appQ' \subseteq Int
    BY <1>0, <2>1, TailFacts
  <2>3. OnlyRequests => OnlyRequests'
    BY <2>1 DEF OnlyRequests
  <2>4. NoFeed => NoFeed'
    BY <2>1 DEF NoFeed
  <2>5. Answered => Answered'
    <3> SUFFICES ASSUME Answered PROVE Answered'
      OBVIOUS
    <3>1. PICK i \in DOMAIN appQ : /\ appQ[i].type \in Answering
                                   /\ \A j \in DOMAIN appQ \ {i} : appQ[j].type = "REQUEST"
      BY DEF Answered
    <3>2. i - 1 \in DOMAIN appQ' /\ appQ'[i - 1] = appQ[i]
      BY <2>1, <3>1 DEF Answering
    <3>3. ASSUME NEW j \in DOMAIN appQ' \ {i - 1}
          PROVE  appQ'[j].type = "REQUEST"
      BY <2>1, <2>2, <3>1, <3>3
    <3> QED BY <3>1, <3>2, <3>3 DEF Answered
  <2> QED BY <2>3, <2>4, <2>5 DEF OneBurst, Queued, Turning, Quiet
<1>3. ASSUME NEW r \in Requests, appQ' = Append(appQ, [type |-> "REQUEST", req |-> r])
      PROVE  (OneBurst => OneBurst') /\ (Quiet => Quiet') /\ (NoFeed => NoFeed')
  <2>1. [type |-> "REQUEST", req |-> r] \in Events
    BY DEF Events
  <2>2. /\ DOMAIN appQ' = DOMAIN appQ \cup {Len(appQ) + 1} /\ Len(appQ) + 1 \notin DOMAIN appQ
        /\ \A i \in DOMAIN appQ : appQ'[i] = appQ[i]
        /\ appQ'[Len(appQ) + 1].type = "REQUEST"
    BY <1>0, <1>3, <2>1, AppendFacts
  <2>3. OnlyRequests => OnlyRequests'
    BY <2>2 DEF OnlyRequests
  <2>4. NoFeed => NoFeed'
    BY <2>2 DEF NoFeed
  <2>5. Answered => Answered'
    BY <2>2 DEF Answered, Answering
  <2> QED BY <2>3, <2>4, <2>5 DEF OneBurst, Queued, Turning, Quiet
<1> QED BY <1>1, <1>2, <1>3

\* The motor serves a burst and answers it once; a quiet one does nothing.
LEMMA MotorServes ==
    ASSUME Typed, Room, MotorStep
    PROVE  ~Quiet /\ (OneBurst => OneBurst') /\ (NoFeed => NoFeed')
<1>0. /\ appQ \in Seq(Events) /\ queue \in Seq(MotorCmds)
      /\ NoMotorCmd.kind # "burst"
  BY CommandsApart DEF Typed, DispTypeOK, Events, Done
<1>p. ASSUME NEW c, NEW e \in Motor!Outcomes(c), appQ' = Motor!Post(e)
      PROVE  /\ c.kind # "burst" /\ (\A i \in DOMAIN appQ : appQ[i].type # "BURST_DONE")
                => \A i \in DOMAIN appQ' : appQ'[i].type # "BURST_DONE"
             /\ c.kind = "burst" /\ OnlyRequests
                => \E i \in DOMAIN appQ' : /\ appQ'[i].type \in Answering
                                           /\ \A j \in DOMAIN appQ' \ {i} : appQ'[j].type = "REQUEST"
  <2>1. /\ [type |-> e] \in Events
        /\ c.kind = "burst" => e \in Answering
        /\ c.kind # "burst" => e # "BURST_DONE"
    BY <1>p, OutcomeTypes DEF Answering
  <2>2. appQ' = Append(appQ, [type |-> e])
    BY <1>p DEF Motor!Post, Room
  <2>3. /\ DOMAIN appQ' = DOMAIN appQ \cup {Len(appQ) + 1} /\ Len(appQ) + 1 \notin DOMAIN appQ
        /\ \A i \in DOMAIN appQ : appQ'[i] = appQ[i]
        /\ appQ'[Len(appQ) + 1] = [type |-> e]
    BY <1>0, <2>1, <2>2, AppendFacts
  <2>4. appQ'[Len(appQ) + 1].type = e
    BY <2>3
  <2> QED BY <2>1, <2>3, <2>4 DEF OnlyRequests
<1>q. ASSUME queue # <<>>
      PROVE  /\ Head(queue) = queue[1] /\ 1 \in DOMAIN queue
             /\ Len(queue) = 1 => Tail(queue) = <<>>
             /\ \A i \in DOMAIN Tail(queue) : i + 1 \in DOMAIN queue /\ Tail(queue)[i] = queue[i + 1]
  <2>1. Tail(queue) \in Seq(MotorCmds) /\ Len(Tail(queue)) = Len(queue) - 1
    BY <1>0, <1>q, TailFacts
  <2>2. ASSUME NEW s \in Seq(MotorCmds), Len(s) = Len(queue) - 1, Len(queue) = 1
        PROVE  s = <<>>
    <3>1. Len(s) = 0
      BY <2>2
    <3> QED BY <3>1
  <2>3. Len(queue) = 1 => Tail(queue) = <<>>
    BY <2>1, <2>2, Zenon
  <2> QED BY <1>0, <1>q, <2>3, TailFacts
<1>1. CASE Motor!Open
  <2>1. /\ session = NoMotorCmd /\ queue # <<>> /\ queue' = Tail(queue) /\ session' = queue[1] /\ appQ' = appQ
    BY <1>1, <1>q DEF Motor!Open
  <2>2. NoFeed => NoFeed'
    BY <2>1, <1>q DEF NoFeed
  <2>3. OneBurst => Turning'
    BY <2>1, <1>0, <1>q DEF OneBurst, Queued, Turning, Answered, OnlyRequests
  <2> QED BY <2>1, <2>2, <2>3 DEF Quiet, OneBurst
<1>2. CASE Motor!Turn
  BY <1>2 DEF Motor!Turn, Quiet, OneBurst, Queued, Turning, Answered, OnlyRequests, NoFeed
<1>3. CASE Motor!Answer
  <2>1. /\ session = NoMotorCmd /\ queue # <<>> /\ queue' = Tail(queue) /\ session' = NoMotorCmd
        /\ \E e \in Motor!Outcomes(queue[1]) : appQ' = Motor!Post(e)
    BY <1>3, <1>q DEF Motor!Answer
  <2>2. NoFeed => NoFeed'
    BY <2>1, <1>0, <1>p, <1>q DEF NoFeed
  <2>3. OneBurst => Answered'
    BY <2>1, <1>p, <1>q DEF OneBurst, Queued, Turning, Answered
  <2> QED BY <2>1, <2>2, <2>3 DEF Quiet, OneBurst
<1>4. CASE Motor!Close
  <2>1. /\ session # NoMotorCmd /\ session' = NoMotorCmd /\ queue' = queue
        /\ \E e \in Motor!Outcomes(session) : appQ' = Motor!Post(e)
    BY <1>4 DEF Motor!Close
  <2>2. NoFeed => NoFeed'
    BY <2>1, <1>0, <1>p DEF NoFeed
  <2>3. OneBurst => Answered'
    BY <2>1, <1>p DEF OneBurst, Queued, Turning, Answered
  <2> QED BY <2>1, <2>2, <2>3 DEF Quiet, OneBurst
<1> QED BY <1>1, <1>2, <1>3, <1>4 DEF MotorStep

\* What the app task can hear from the motor.
LEMMA Hears ==
    ASSUME Typed, NEW type, type # "REQUEST", Receive(type), UNCHANGED <<queue, session>>
    PROVE  /\ ~Quiet
           /\ OneBurst => type \in Answering /\ Quiet'
           /\ NoFeed => type # "BURST_DONE" /\ NoFeed'
<1>1. appQ \in Seq(Events)
  BY DEF Typed, DispTypeOK, Events, Done
<1>2. /\ appQ # <<>> /\ appQ' = Tail(appQ) /\ appQ[1].type = type /\ 1 \in DOMAIN appQ
      /\ \A i \in DOMAIN appQ' : i + 1 \in DOMAIN appQ /\ i + 1 # 1 /\ appQ'[i] = appQ[i + 1]
  BY <1>1, TailFacts DEF Receive
<1>3. ~OnlyRequests
  BY <1>2 DEF OnlyRequests
<1>4. OneBurst => type \in Answering /\ Quiet'
  <2> SUFFICES ASSUME Answered PROVE type \in Answering /\ Quiet'
    BY <1>3 DEF OneBurst, Queued, Turning
  <2>1. PICK i \in DOMAIN appQ : /\ appQ[i].type \in Answering
                                 /\ \A j \in DOMAIN appQ \ {i} : appQ[j].type = "REQUEST"
    BY DEF Answered
  <2>2. i = 1
    BY <1>2, <2>1
  <2>3. OnlyRequests'
    BY <1>2, <2>1, <2>2 DEF OnlyRequests
  <2> QED BY <1>2, <2>1, <2>2, <2>3 DEF Answered, Quiet
<1>5. NoFeed => type # "BURST_DONE" /\ NoFeed'
  BY <1>2 DEF NoFeed
<1> QED BY <1>3, <1>4, <1>5 DEF Quiet

\* A quiet motor takes a burst.
LEMMA Kicks ==
    ASSUME Typed, Quiet
    PROVE  /\ CanKick
           /\ \A n : queue' = Append(queue, Burst(n)) /\ UNCHANGED <<session, appQ>> => Queued'
<1>1. MotorDepth \in Nat \ {0} /\ ~busy /\ queue = <<>>
  BY DispenseAssumption DEF Typed, Quiet
<1>2. CanKick
  BY <1>1 DEF CanKick
<1>3. ASSUME NEW n, queue' = Append(queue, Burst(n)), UNCHANGED <<session, appQ>>
      PROVE  Queued'
  <2>1. queue' = <<Burst(n)>>
    BY <1>1, <1>3
  <2>2. Len(queue') = 1 /\ queue'[1].kind = "burst"
    BY <2>1 DEF Burst
  <2> QED BY <1>3, <2>2 DEF Quiet, Queued, OnlyRequests
<1> QED BY <1>2, <1>3

\* The task that submits a request is a task.
LEMMA SubmitterIsTask == \A r \in Requests : TaskOf[r.source] \in Tasks /\ r \in RequestSet
BY DispenseAssumption DEF RequestSet

\* Every step keeps the motor where the phase of the job has it.
LEMMA MotorStandsKept ==
    ASSUME Typed, Room, MotorStands, HNext
    PROVE  MotorStands'
<1>0. /\ crossed => crossed'
      /\ Quiet => NoFeed
  BY QuietHasNoFeed DEF HNext
<1>t. /\ call \in [Tasks -> Calls] /\ queue \in Seq(MotorCmds) /\ appQ \in Seq(Events)
      /\ stage \in {"none", "motor", "settle"} /\ handler \in {"idle", "begin", "kick"}
  BY DEF Typed, DispTypeOK, Calls, Events, Done
<1>u. ASSUME UNCHANGED <<appQ, queue, session>>
      PROVE  (OneBurst => OneBurst') /\ (Quiet => Quiet') /\ (NoFeed => NoFeed')
  BY <1>u, RequestsComeAndGo
<1>1. ASSUME NEW r \in Requests, SubmitCheck(r) PROVE MotorStands'
  <2> DEFINE t == TaskOf[r.source]
  <2>1. /\ t \in Tasks /\ call[t] = NoCall /\ call'[t] # NoCall /\ ~Active
        /\ UNCHANGED <<appQ, queue, session, handler, stage, pending>>
    BY <1>1, <1>t, SubmitterIsTask DEF SubmitCheck, motorVars, jobVars, NoCall
  <2>2. (OneBurst => OneBurst') /\ (Quiet => Quiet') /\ (NoFeed => NoFeed')
    BY <2>1, <1>u
  <2>3. ~Waits /\ ~Waits' /\ InHand'
    BY <2>1 DEF Active, Waits, InHand
  <2>4. ~InHand => crossed' \/ Quiet
    <3> SUFFICES ASSUME ~InHand, ~(queue # <<>> \/ session # NoMotorCmd \/ appQ # <<>>) PROVE Quiet
      BY <2>1 DEF HNext, Crosses, InHand
    <3> QED BY DEF Quiet, OnlyRequests
  <2> QED BY <1>0, <2>1, <2>2, <2>3, <2>4 DEF MotorStands
<1>2. ASSUME NEW t \in Tasks, SubmitPost(t) PROVE MotorStands'
  <2>1. /\ UNCHANGED <<queue, session, handler, stage, pending>> /\ call[t] # NoCall /\ call[t].step = "post"
        /\ appQ' = appQ \/ appQ' = Append(appQ, [type |-> "REQUEST", req |-> call[t].req])
    BY <1>2 DEF SubmitPost, motorVars, jobVars, NoCall
  <2>2. call[t].req \in Requests
    BY <2>1, <1>t DEF Calls, NoCall
  <2>3. (OneBurst => OneBurst') /\ (Quiet => Quiet') /\ (NoFeed => NoFeed')
    BY <2>1, <2>2, RequestsComeAndGo
  <2>4. InHand /\ Waits' = Waits /\ (Waits => InHand')
    BY <2>1 DEF InHand, Waits, Active
  <2> QED BY <1>0, <2>1, <2>3, <2>4 DEF MotorStands
<1>3. ASSUME NEW t \in Tasks, SubmitMark(t) PROVE MotorStands'
  <2>1. /\ UNCHANGED <<appQ, queue, session, handler, stage>> /\ pending' = TRUE /\ call[t] # NoCall
    BY <1>3 DEF SubmitMark, motorVars, NoCall
  <2>2. (OneBurst => OneBurst') /\ (Quiet => Quiet') /\ (NoFeed => NoFeed')
    BY <2>1, <1>u
  <2>3. InHand /\ InHand' /\ Waits' = Waits
    BY <2>1 DEF InHand, Waits, Active
  <2> QED BY <1>0, <2>1, <2>2, <2>3 DEF MotorStands
<1>4. CASE RequestDropped
  <2>1. Receive("REQUEST") /\ UNCHANGED <<queue, session, handler, stage, call>> /\ pending' = FALSE
    BY <1>4 DEF RequestDropped, motorVars
  <2>2. (OneBurst => OneBurst') /\ (Quiet => Quiet') /\ (NoFeed => NoFeed')
    BY <2>1, RequestsComeAndGo
  <2>3. (InHand' => InHand) /\ Waits' = Waits /\ (Waits => InHand')
    BY <2>1 DEF InHand, Waits, Active
  <2> QED BY <1>0, <2>1, <2>2, <2>3 DEF MotorStands
<1>5. ASSUME NEW mode \in Modes, RequestAccepted(mode) PROVE MotorStands'
  <2>1. /\ Receive("REQUEST") /\ UNCHANGED <<queue, session, stage, call>>
        /\ pending /\ stage = "none" /\ handler' = "begin"
    BY <1>5 DEF RequestAccepted, motorVars
  <2>2. (OneBurst => OneBurst') /\ (Quiet => Quiet') /\ (NoFeed => NoFeed')
    BY <2>1, RequestsComeAndGo
  <2>3. InHand /\ ~Waits /\ ~Waits' /\ InHand'
    BY <2>1 DEF InHand, Waits, Active
  <2> QED BY <1>0, <2>1, <2>2, <2>3 DEF MotorStands
<1>6. ASSUME NEW read \in ScaleReads, JobBegins(read) PROVE MotorStands'
  <2>1. UNCHANGED <<appQ, queue, session, call>> /\ handler = "begin" /\ handler' = "kick" /\ stage' = "motor"
    BY <1>6 DEF JobBegins, motorVars
  <2>2. (OneBurst => OneBurst') /\ (Quiet => Quiet') /\ (NoFeed => NoFeed')
    BY <2>1, <1>u
  <2>3. InHand /\ ~Waits /\ ~Waits' /\ InHand'
    BY <2>1 DEF InHand, Waits, Active
  <2> QED BY <1>0, <2>1, <2>2, <2>3 DEF MotorStands
<1>7. CASE JobKicked
  <2>1. /\ UNCHANGED <<appQ, session, call, stage, pending>> /\ handler = "kick" /\ handler' = "idle"
        /\ queue' = Append(queue, Burst(PlannedPortions))
    BY <1>7 DEF JobKicked, Motor!Accept, jobVars
  <2>2. Quiet => OneBurst'
    BY <2>1, Kicks DEF OneBurst
  <2>3. InHand /\ ~Waits /\ InHand' /\ (stage = "motor" => Waits')
    BY <2>1 DEF InHand, Waits, Active, MotorStands
  <2> QED BY <1>0, <2>1, <2>2, <2>3 DEF MotorStands
<1>8. CASE JobRefused
  <2>1. UNCHANGED <<appQ, queue, session, call>> /\ handler = "kick" /\ handler' = "idle" /\ stage' = "none"
    BY <1>8 DEF JobRefused, motorVars, Forget
  <2>2. (Quiet => Quiet') /\ (NoFeed => NoFeed')
    BY <2>1, <1>u
  <2>3. InHand /\ ~Waits /\ ~Waits'
    BY <2>1 DEF InHand, Waits, Active
  <2> QED BY <1>0, <2>1, <2>2, <2>3 DEF MotorStands
<1>9. CASE OnBurstDone
  <2>1. /\ Receive("BURST_DONE") /\ handler = "idle" /\ UNCHANGED <<queue, session, handler, call, pending>>
        /\ stage' = IF stage = "motor" THEN "settle" ELSE stage
    BY <1>9 DEF OnBurstDone, BeginSettle, motorVars, jobVars, Receive, AppIdle
  <2>2. ~Quiet /\ (OneBurst => Quiet') /\ ~NoFeed
    BY <2>1, Hears
  <2>3. ~Waits' /\ (InHand' => InHand)
    BY <2>1, <1>t DEF InHand, Waits, Active
  <2>4. Waits => InHand'
    BY <2>1 DEF Waits, InHand, Active
  <2> QED BY <1>0, <2>1, <2>2, <2>3, <2>4 DEF MotorStands
<1>10. CASE OnMotorFault
  <2>1. /\ Receive("MOTOR_FAULT") /\ handler = "idle" /\ UNCHANGED <<queue, session, handler, call, pending>>
        /\ stage' = IF stage = "motor" THEN "settle" ELSE stage
    BY <1>10 DEF OnMotorFault, BeginSettle, motorVars, jobVars, Receive, AppIdle
  <2>2. ~Quiet /\ (OneBurst => Quiet') /\ (NoFeed => NoFeed')
    BY <2>1, Hears
  <2>3. ~Waits' /\ (InHand' => InHand) /\ (Waits => InHand')
    BY <2>1, <1>t DEF InHand, Waits, Active
  <2> QED BY <1>0, <2>1, <2>2, <2>3 DEF MotorStands
<1>11. CASE OnBenchDone
  <2>1. PICK type \in {"PARK_DONE", "TIMED_RUN_DONE"} : Receive(type)
    BY <1>11 DEF OnBenchDone
  <2>2. UNCHANGED <<queue, session, handler, call, pending, stage>>
    BY <1>11 DEF OnBenchDone, motorVars, jobVars
  <2>3. ~Quiet /\ ~OneBurst /\ (NoFeed => NoFeed')
    BY <2>1, <2>2, Hears DEF Answering
  <2>4. Waits' = Waits /\ InHand' = InHand
    BY <2>2 DEF InHand, Waits, Active
  <2> QED BY <1>0, <2>2, <2>3, <2>4 DEF MotorStands
<1>12. CASE SettleStarts
  <2>1. UNCHANGED <<appQ, queue, session, handler, call, pending, stage>>
    BY <1>12 DEF SettleStarts, motorVars
  <2>2. Waits' = Waits /\ InHand' = InHand
    BY <2>1 DEF InHand, Waits, Active
  <2> QED BY <1>0, <1>u, <2>1, <2>2 DEF MotorStands
<1>13. ASSUME NEW read \in ScaleReads, NEW trusted \in BOOLEAN, NEW low \in BOOLEAN,
              AfterSettle(read, trusted, low)
       PROVE  MotorStands'
  <2>1. UNCHANGED <<appQ, call, handler>> /\ stage = "settle" /\ handler = "idle"
    BY <1>13 DEF AfterSettle, AppIdle
  <2>2. InHand /\ ~Waits
    BY <2>1 DEF InHand, Waits, Active
  <2>3. CASE \E result, measured, gain : Publish(result, measured, gain, low)
    <3>1. UNCHANGED <<queue, session>> /\ stage' = "none" /\ pending' = FALSE
      BY <2>3 DEF Publish, motorVars, Forget
    <3>2. (Quiet => Quiet') /\ (NoFeed => NoFeed')
      BY <2>1, <3>1, <1>u
    <3>3. ~Waits'
      BY <3>1 DEF Waits
    <3> QED BY <1>0, <2>1, <2>2, <3>1, <3>2, <3>3 DEF MotorStands
  <2>4. CASE ~\E result, measured, gain : Publish(result, measured, gain, low)
    <3>1. (\E n : queue' = Append(queue, Burst(n))) /\ stage' = "motor" /\ session' = session
      BY <1>13, <2>4 DEF AfterSettle
    <3>2. Quiet => OneBurst'
      BY <2>1, <3>1, Kicks DEF OneBurst
    <3>3. Waits' /\ InHand'
      BY <2>1, <3>1 DEF Waits, InHand, Active
    <3> QED BY <1>0, <2>1, <2>2, <3>1, <3>2, <3>3 DEF MotorStands
  <2> QED BY <2>3, <2>4
<1>14. ASSUME NEW cmd \in BenchCmds, BenchRequest(cmd) PROVE MotorStands'
  <2>1. /\ UNCHANGED <<appQ, session, handler, call, pending, stage>>
        /\ queue' = Append(queue, cmd) /\ cmd \in MotorCmds /\ cmd.kind # "burst"
        /\ bench = "idle" /\ bench' = "asked"
    BY <1>14, CommandsApart DEF BenchRequest, Motor!Accept, jobVars, MotorCmds
  <2>2. InHand => crossed'
    BY <2>1 DEF HNext, Crosses, InHand
  <2>3. Waits' = Waits /\ InHand' = InHand /\ (Waits => InHand)
    BY <2>1 DEF InHand, Waits, Active
  <2>4. NoFeed => NoFeed'
    <3>1. /\ DOMAIN queue' = DOMAIN queue \cup {Len(queue) + 1}
          /\ \A i \in DOMAIN queue : queue'[i] = queue[i]
          /\ queue'[Len(queue) + 1] = cmd
      BY <1>t, <2>1, AppendFacts
    <3> QED BY <2>1, <3>1 DEF NoFeed
  <2> QED BY <1>0, <2>1, <2>2, <2>3, <2>4 DEF MotorStands
<1>15. CASE BenchWaits
  <2>1. UNCHANGED <<appQ, queue, session, handler, call, pending, stage>>
    BY <1>15 DEF BenchWaits, motorVars, jobVars
  <2>2. Waits' = Waits /\ InHand' = InHand
    BY <2>1 DEF InHand, Waits, Active
  <2> QED BY <1>0, <1>u, <2>1, <2>2 DEF MotorStands
<1>16. CASE HopperFilled
  <2>1. UNCHANGED <<appQ, queue, session, handler, call, pending, stage>>
    BY <1>16 DEF HopperFilled, motorVars, jobVars
  <2>2. Waits' = Waits /\ InHand' = InHand
    BY <2>1 DEF InHand, Waits, Active
  <2> QED BY <1>0, <1>u, <2>1, <2>2 DEF MotorStands
<1>17. CASE MotorStep
  <2>1. UNCHANGED <<handler, call, pending, stage>>
    BY <1>17 DEF MotorStep, jobVars
  <2>2. Waits' = Waits /\ InHand' = InHand
    BY <2>1 DEF InHand, Waits, Active
  <2>3. ~Quiet /\ (OneBurst => OneBurst') /\ (NoFeed => NoFeed')
    BY <1>17, MotorServes
  <2> QED BY <1>0, <2>1, <2>2, <2>3 DEF MotorStands
<1> QED
  BY <1>1, <1>2, <1>3, <1>4, <1>5, <1>6, <1>7, <1>8, <1>9, <1>10, <1>11, <1>12, <1>13, <1>14,
     <1>15, <1>16, <1>17 DEF HNext, DispNext, AppStep, Poll, Returns

\* The motor stands where the phase of the job has it, in every state.
LEMMA AlwaysStands == HSpec /\ []Room => []MotorStands
<1>1. HInit => MotorStands
  BY CommandsApart DEF HInit, DispInit, Motor!Init, MotorStands, Waits, InHand, Active, NoFeed, NoCall
<1>2. Typed /\ Room /\ MotorStands /\ [HNext]_hvars => MotorStands'
  <2>1. CASE HNext
    BY <2>1, MotorStandsKept
  <2>2. CASE UNCHANGED hvars
    BY <2>2 DEF hvars, dispVars, motorVars, jobVars, MotorStands, Waits, InHand, Active, NoFeed, Quiet,
                OneBurst, Queued, Turning, Answered, OnlyRequests
  <2> QED BY <2>1, <2>2
<1>3. HSpec => HInit /\ [][HNext]_hvars
  BY DEF HSpec, hvars
<1> QED BY <1>1, <1>2, <1>3, AlwaysTyped, PTL

\* What the motor stands for is what OneBurstPerWait counts.
LEMMA StandsCounts ==
    ASSUME Typed, MotorStands
    PROVE  OneBurstPerWait
<1> DEFINE QueuedBursts == {i \in DOMAIN queue : queue[i].kind = "burst"}
           Told(types) == {i \in DOMAIN appQ : appQ[i].type \in types}
<1> SUFFICES ASSUME ~crossed PROVE OneBurstPerWait
  BY DEF OneBurstPerWait
<1>0. queue \in Seq(MotorCmds) /\ appQ \in Seq(Events) /\ NoMotorCmd.kind # "burst"
  BY CommandsApart DEF Typed, DispTypeOK, Events, Done
<1>1. Cardinality({}) = 0 /\ \A x : Cardinality({x}) = 1
  BY FS_EmptySet, FS_Singleton
<1>2. ASSUME NoFeed
      PROVE  InMotor + Answers({"BURST_DONE"}) = 0
  <2>1. QueuedBursts = {} /\ Told({"BURST_DONE"}) = {} /\ session.kind # "burst"
    BY <1>2 DEF NoFeed
  <2>2. InMotor = 0
    BY <1>1, <2>1 DEF InMotor
  <2>3. Answers({"BURST_DONE"}) = 0
    BY <1>1, <2>1 DEF Answers
  <2> QED BY <2>2, <2>3
<1>3. ASSUME Queued
      PROVE  InMotor + Answers(Answering) = 1
  <2>1. QueuedBursts = {1} /\ Told(Answering) = {} /\ session = NoMotorCmd
    BY <1>0, <1>3 DEF Queued, OnlyRequests, Answering
  <2>2. InMotor = 1
    <3>1. Cardinality(QueuedBursts) = 1
      BY <1>1, <2>1
    <3>2. (IF session # NoMotorCmd /\ session.kind = "burst" THEN 1 ELSE 0) = 0
      BY <2>1
    <3> QED BY <3>1, <3>2 DEF InMotor
  <2>3. Answers(Answering) = 0
    BY <1>1, <2>1 DEF Answers
  <2> QED BY <2>2, <2>3
<1>4. ASSUME Turning
      PROVE  InMotor + Answers(Answering) = 1
  <2>1. QueuedBursts = {} /\ Told(Answering) = {} /\ session # NoMotorCmd /\ session.kind = "burst"
    BY <1>4 DEF Turning, OnlyRequests, Answering
  <2>2. InMotor = 1
    <3>1. Cardinality(QueuedBursts) = 0
      BY <1>1, <2>1
    <3>2. (IF session # NoMotorCmd /\ session.kind = "burst" THEN 1 ELSE 0) = 1
      BY <2>1
    <3> QED BY <3>1, <3>2 DEF InMotor
  <2>3. Answers(Answering) = 0
    BY <1>1, <2>1 DEF Answers
  <2> QED BY <2>2, <2>3
<1>5. ASSUME Answered
      PROVE  InMotor + Answers(Answering) = 1
  <2>1. PICK i \in DOMAIN appQ : /\ appQ[i].type \in Answering
                                 /\ \A j \in DOMAIN appQ \ {i} : appQ[j].type = "REQUEST"
    BY <1>5 DEF Answered
  <2>2. QueuedBursts = {} /\ Told(Answering) = {i} /\ session = NoMotorCmd
    BY <1>5, <2>1 DEF Answered, Answering
  <2>3. InMotor = 0
    BY <1>1, <2>2 DEF InMotor
  <2>4. Answers(Answering) = 1
    BY <1>1, <2>2 DEF Answers
  <2> QED BY <2>3, <2>4
<1>6. CASE Waits
  BY <1>3, <1>4, <1>5, <1>6 DEF MotorStands, OneBurst, OneBurstPerWait, Waits, Answering
<1>7. CASE ~Waits
  BY <1>2, <1>7, QuietHasNoFeed DEF MotorStands, OneBurstPerWait, Waits
<1> QED BY <1>6, <1>7

\* While a job waits for the motor exactly one burst is under way or answered,
\* and none otherwise, as long as no completion event is lost to a full queue:
\* however the submissions race, dispense_kick_motor starts no burst twice and
\* none outlives its job.
THEOREM BurstPerWait == HSpec /\ []Room => []OneBurstPerWait
<1>1. Typed /\ MotorStands => OneBurstPerWait
  BY StandsCounts
<1> QED BY <1>1, AlwaysTyped, AlwaysStands, PTL

-----------------------------------------------------------------------------
(* One request for every mark *)

\* A call is made by the task that submits for its source, and the app task
\* finishes its calls before it starts a job.
OwnCalls ==
    /\ \A t \in Tasks : call[t] # NoCall => TaskOf[call[t].req.source] = t
    /\ call[App] # NoCall => handler = "idle"

\* Every step keeps whose a call is.
LEMMA OwnCallsKept ==
    ASSUME Typed, OwnCalls, HNext
    PROVE  OwnCalls'
<1>t. call \in [Tasks -> Calls] /\ App \in Tasks
  BY DispenseAssumption DEF Typed, DispTypeOK, Calls
<1>1. ASSUME NEW r \in Requests, SubmitCheck(r) PROVE OwnCalls'
  BY <1>1, <1>t, SubmitterIsTask DEF SubmitCheck, OwnCalls
<1>2. ASSUME NEW t \in Tasks, SubmitPost(t) PROVE OwnCalls'
  <2>1. call[t] # NoCall /\ handler' = handler
    BY <1>2 DEF SubmitPost, NoCall
  <2>2. /\ \A u \in Tasks \ {t} : call'[u] = call[u]
        /\ call'[t] = NoCall \/ call'[t] = [call[t] EXCEPT !.step = "mark"]
    BY <1>2, <1>t DEF SubmitPost
  <2>3. [call[t] EXCEPT !.step = "mark"].req = call[t].req
    BY <1>t, <2>1 DEF Calls
  <2>4. \A u \in Tasks : call'[u] # NoCall => call[u] # NoCall /\ call'[u].req = call[u].req
    BY <2>1, <2>2, <2>3
  <2> QED BY <1>t, <2>1, <2>4 DEF OwnCalls
<1>3. ASSUME NEW t \in Tasks, SubmitMark(t) PROVE OwnCalls'
  BY <1>3, <1>t DEF SubmitMark, OwnCalls
<1>k. ASSUME UNCHANGED call, handler' = handler \/ handler' = "idle" \/ handler # "idle" \/ call[App] = NoCall
      PROVE  OwnCalls'
  BY <1>k DEF OwnCalls
<1>4. CASE AppStep
  BY <1>k, <1>4 DEF AppStep, RequestDropped, RequestAccepted, JobBegins, JobKicked, JobRefused, OnBurstDone,
                    OnMotorFault, OnBenchDone, Receive, AppIdle
<1>5. CASE Poll
  BY <1>k, <1>5 DEF Poll, SettleStarts, AfterSettle
<1>6. CASE (\E cmd \in BenchCmds : BenchRequest(cmd)) \/ BenchWaits \/ HopperFilled \/ MotorStep
  BY <1>k, <1>6 DEF BenchRequest, BenchWaits, HopperFilled, MotorStep
<1> QED BY <1>1, <1>2, <1>3, <1>4, <1>5, <1>6 DEF HNext, DispNext, Returns

\* No two tasks are in dispense_submit_* at once, and none is while a job runs.
OneCall == \A t, u \in Tasks : call[t] # NoCall /\ call[u] # NoCall => t = u
CallsFirst == (\E t \in Tasks : call[t] # NoCall) => stage = "none" /\ ~pending

\* There is one request, that of the task that sets the mark or has set it ...
Single == \A i, j \in DOMAIN appQ : appQ[i].type = "REQUEST" /\ appQ[j].type = "REQUEST" => i = j
RequestMarked == HasRequest => Marked
MarkersRequest ==
    \A t \in Tasks : call[t].step = "mark" =>
        \A i \in DOMAIN appQ : appQ[i].type = "REQUEST" => appQ[i].req = call[t].req

\* ... and it is taken before the burst of the job that runs is answered.
Ordered == \A i, j \in DOMAIN appQ : appQ[i].type \in Answering /\ appQ[j].type = "REQUEST" => j < i

\* The slot is that of the job that runs, or of the request that waits.
SlotsJob == job.source = "schedule" /\ (stage # "none" \/ handler # "idle")
SlotsRequest ==
    /\ pending /\ stage = "none" /\ handler = "idle"
    /\ \A i \in DOMAIN appQ : appQ[i].type = "REQUEST" => appQ[i].req.source = "schedule"

InOrder ==
    /\ OneCall /\ CallsFirst
    /\ Single /\ RequestMarked /\ MarkersRequest
    /\ stage = "settle" => ~HasRequest
    /\ stage = "motor" => Ordered
    /\ slot => SlotsJob \/ SlotsRequest

OneRequest == OwnCalls /\ (~divided /\ ~crossed => InOrder)

NoNewRequest ==
    \A i \in DOMAIN appQ' : appQ'[i].type = "REQUEST" => \E k \in DOMAIN appQ : appQ[k] = appQ'[i]

\* A queue that loses its head or gains a completion event keeps its order.
LEMMA QueueOrder ==
    ASSUME Typed, \/ appQ' = appQ
                  \/ \E type : Receive(type)
                  \/ \E d \in Done : appQ' = Append(appQ, [type |-> d])
    PROVE  (Single => Single') /\ (Ordered => Ordered') /\ NoNewRequest
<1>0. appQ \in Seq(Events)
  BY DEF Typed, DispTypeOK, Events, Done
<1>1. CASE appQ' = appQ
  BY <1>1 DEF Single, Ordered, NoNewRequest
<1>2. ASSUME NEW type, Receive(type)
      PROVE  (Single => Single') /\ (Ordered => Ordered') /\ NoNewRequest
  <2>1. /\ DOMAIN appQ \subseteq Int /\ DOMAIN appQ' \subseteq Int
        /\ \A i \in DOMAIN appQ' : i + 1 \in DOMAIN appQ /\ appQ'[i] = appQ[i + 1]
    BY <1>0, <1>2, TailFacts DEF Receive
  <2>2. Single => Single'
    BY <2>1 DEF Single
  <2>3. Ordered => Ordered'
    BY <2>1 DEF Ordered
  <2>4. NoNewRequest
    BY <2>1 DEF NoNewRequest
  <2> QED BY <2>2, <2>3, <2>4
<1>3. ASSUME NEW d \in Done, appQ' = Append(appQ, [type |-> d])
      PROVE  (Single => Single') /\ (Ordered => Ordered') /\ NoNewRequest
  <2>1. [type |-> d] \in Events /\ d # "REQUEST"
    BY DEF Events, Done
  <2>2. /\ DOMAIN appQ' = DOMAIN appQ \cup {Len(appQ) + 1} /\ DOMAIN appQ = 1..Len(appQ) /\ Len(appQ) \in Nat
        /\ \A i \in DOMAIN appQ : appQ'[i] = appQ[i]
        /\ appQ'[Len(appQ) + 1] = [type |-> d]
    BY <1>0, <1>3, <2>1, AppendFacts
  <2>3. appQ'[Len(appQ) + 1].type # "REQUEST"
    BY <2>1, <2>2
  <2>4. Single => Single'
    BY <2>2, <2>3 DEF Single
  <2>5. Ordered => Ordered'
    BY <2>2, <2>3 DEF Ordered
  <2>6. NoNewRequest
    BY <2>2, <2>3 DEF NoNewRequest
  <2> QED BY <2>4, <2>5, <2>6
<1> QED BY <1>1, <1>2, <1>3

\* The only request is taken.
LEMMA TakesTheOnly ==
    ASSUME Typed, Single, Receive("REQUEST")
    PROVE  ~HasRequest'
<1>0. appQ \in Seq(Events)
  BY DEF Typed, DispTypeOK, Events, Done
<1>1. /\ appQ[1].type = "REQUEST" /\ 1 \in DOMAIN appQ
      /\ \A i \in DOMAIN appQ' : i + 1 \in DOMAIN appQ /\ i + 1 # 1 /\ appQ'[i] = appQ[i + 1]
  BY <1>0, TailFacts DEF Receive
<1> QED BY <1>1 DEF Single, HasRequest

\* An answer that is heard has no request behind it.
LEMMA AnswerIsLast ==
    ASSUME Typed, Ordered, NEW type \in Answering, Receive(type)
    PROVE  ~HasRequest'
<1>0. appQ \in Seq(Events)
  BY DEF Typed, DispTypeOK, Events, Done
<1>1. /\ appQ[1].type = type /\ 1 \in DOMAIN appQ /\ DOMAIN appQ \subseteq Nat \ {0}
      /\ \A i \in DOMAIN appQ' : i + 1 \in DOMAIN appQ /\ appQ'[i] = appQ[i + 1]
  BY <1>0, TailFacts DEF Receive
<1>2. \A j \in DOMAIN appQ : appQ[j].type # "REQUEST"
  BY <1>1 DEF Ordered
<1> QED BY <1>1, <1>2 DEF HasRequest

\* Every step keeps the requests in order.
LEMMA InOrderKept ==
    ASSUME Typed, MotorStands, OwnCalls, InOrder, ~crossed, HNext, ~divided'
    PROVE  InOrder'
<1>t. /\ call \in [Tasks -> Calls] /\ queue \in Seq(MotorCmds) /\ appQ \in Seq(Events)
      /\ stage \in {"none", "motor", "settle"} /\ handler \in {"idle", "begin", "kick"}
      /\ pending \in BOOLEAN /\ slot \in BOOLEAN /\ job \in Jobs /\ App \in Tasks
  BY DispenseAssumption DEF Typed, DispTypeOK, Calls, Events, Done
<1>d. ASSUME NEW t \in Tasks, call[t] # NoCall, call'[t] = call[t]
      PROVE  call' = call /\ handler' = handler /\ ~Receive("REQUEST")
  BY <1>d DEF HNext, Divides, Takes, Receive
<1>f. /\ InHand /\ ~Waits => OnlyRequests /\ CanKick
      /\ OnlyRequests => Ordered
  BY Kicks DEF MotorStands, Quiet, OnlyRequests, Ordered, Answering
<1>n. ASSUME ~\E t \in Tasks : call[t] # NoCall, UNCHANGED call
      PROVE  OneCall' /\ CallsFirst' /\ MarkersRequest'
  BY <1>n DEF OneCall, CallsFirst, MarkersRequest, NoCall
<1>h. ~HasRequest' => Single' /\ RequestMarked' /\ Ordered'
  BY DEF HasRequest, Single, RequestMarked, Ordered
<1>k. ASSUME UNCHANGED <<call, pending, stage, job, slot, handler>>,
             \/ appQ' = appQ
             \/ \E type : Receive(type)
             \/ \E d \in Done : appQ' = Append(appQ, [type |-> d])
      PROVE  InOrder'
  <2>1. (Single => Single') /\ (Ordered => Ordered') /\ NoNewRequest
    BY <1>k, QueueOrder
  <2>2. HasRequest' => HasRequest
    BY <2>1 DEF NoNewRequest, HasRequest
  <2>3. OneCall' /\ CallsFirst' /\ RequestMarked'
    BY <1>k, <2>2 DEF InOrder, OneCall, CallsFirst, RequestMarked, Marked
  <2>4. MarkersRequest'
    BY <1>k, <2>1 DEF InOrder, MarkersRequest, NoNewRequest
  <2>5. (SlotsJob => SlotsJob') /\ (SlotsRequest => SlotsRequest')
    BY <1>k, <2>1 DEF SlotsJob, SlotsRequest, NoNewRequest
  <2> QED BY <1>k, <2>1, <2>2, <2>3, <2>4, <2>5 DEF InOrder
<1>1. ASSUME NEW r \in Requests, SubmitCheck(r) PROVE InOrder'
  <2> DEFINE t == TaskOf[r.source]
  <2>1. /\ t \in Tasks /\ call[t] = NoCall /\ call' = [call EXCEPT ![t] = [step |-> "post", req |-> r]]
        /\ call'[t] # NoCall /\ stage = "none" /\ ~pending
        /\ UNCHANGED <<appQ, handler, stage, pending, job, slot>>
    BY <1>1, <1>t, SubmitterIsTask DEF SubmitCheck, Active, jobVars, notices, NoCall
  <2>2. \A u \in Tasks \ {t} : call[u] = NoCall /\ call'[u] = NoCall
    BY <1>d, <1>t, <2>1
  <2>3. ~HasRequest
    BY <2>1, <2>2 DEF InOrder, RequestMarked, Marked, NoCall
  <2>4. ~HasRequest' /\ Single' /\ RequestMarked'
    BY <2>1, <2>3, <1>h DEF HasRequest
  <2>5. OneCall' /\ CallsFirst' /\ MarkersRequest'
    BY <2>1, <2>2, <1>t DEF OneCall, CallsFirst, MarkersRequest, NoCall
  <2> QED BY <2>1, <2>4, <2>5 DEF InOrder, SlotsJob, SlotsRequest
<1>2. ASSUME NEW t \in Tasks, SubmitPost(t) PROVE InOrder'
  <2>1. /\ call[t] # NoCall /\ call[t].step = "post" /\ UNCHANGED <<handler, stage, pending, job, slot>>
    BY <1>2 DEF SubmitPost, NoCall, jobVars, notices
  <2>2. stage = "none" /\ ~pending /\ \A u \in Tasks \ {t} : call[u] = NoCall
    BY <2>1 DEF InOrder, CallsFirst, OneCall
  <2>3. ~HasRequest
    BY <2>1, <2>2 DEF InOrder, RequestMarked, Marked, NoCall
  <2>4. \A u \in Tasks \ {t} : call'[u] = NoCall
    BY <1>2, <1>t, <2>2 DEF SubmitPost
  <2>5. OneCall' /\ CallsFirst'
    BY <2>1, <2>2, <2>4 DEF OneCall, CallsFirst
  <2>6. slot' => SlotsJob'
    BY <2>1, <2>2 DEF InOrder, SlotsJob, SlotsRequest
  <2>7. Single' /\ RequestMarked' /\ MarkersRequest'
    <3>1. CASE Len(appQ) < AppDepth
      <4>1. call[t].req \in Requests
        BY <1>t, <2>1 DEF Calls, NoCall
      <4> DEFINE e == [type |-> "REQUEST", req |-> call[t].req]
      <4>2. e \in Events
        BY <4>1 DEF Events
      <4>3. /\ DOMAIN appQ' = DOMAIN appQ \cup {Len(appQ) + 1}
            /\ \A i \in DOMAIN appQ : appQ'[i] = appQ[i]
            /\ appQ'[Len(appQ) + 1] = e
        <5>1. appQ' = Append(appQ, e)
          BY <1>2, <3>1 DEF SubmitPost
        <5> HIDE DEF e
        <5> QED BY <1>t, <4>2, <5>1, AppendFacts
      <4>4. call'[t] = [call[t] EXCEPT !.step = "mark"]
        BY <1>2, <1>t, <3>1 DEF SubmitPost
      <4>5. call'[t].step = "mark" /\ call'[t].req = call[t].req
        BY <1>t, <2>1, <4>4 DEF Calls, NoCall
      <4>6. \A i \in DOMAIN appQ' : appQ'[i].type = "REQUEST" => i = Len(appQ) + 1 /\ appQ'[i].req = call[t].req
        BY <2>3, <4>3 DEF HasRequest
      <4> QED BY <2>4, <4>5, <4>6 DEF Single, RequestMarked, Marked, MarkersRequest, NoCall
    <3>2. CASE ~(Len(appQ) < AppDepth)
      <4>1. appQ' = appQ /\ call'[t] = NoCall
        BY <1>2, <1>t, <3>2 DEF SubmitPost
      <4>2. ~HasRequest'
        BY <2>3, <4>1 DEF HasRequest
      <4> QED BY <1>h, <2>4, <4>1, <4>2 DEF MarkersRequest, NoCall
    <3> QED BY <3>1, <3>2
  <2> QED BY <2>1, <2>2, <2>5, <2>6, <2>7 DEF InOrder
<1>3. ASSUME NEW t \in Tasks, SubmitMark(t) PROVE InOrder'
  <2>1. /\ call[t] # NoCall /\ call[t].step = "mark" /\ pending' = TRUE
        /\ UNCHANGED <<appQ, handler, stage, job>> /\ slot' = (slot \/ call[t].req.source = "schedule")
    BY <1>3 DEF SubmitMark, NoCall
  <2>2. stage = "none" /\ ~pending /\ \A u \in Tasks \ {t} : call[u] = NoCall
    BY <2>1 DEF InOrder, CallsFirst, OneCall
  <2>3. \A u \in Tasks : call'[u] = NoCall
    BY <1>3, <1>t, <2>2 DEF SubmitMark
  <2>4. OneCall' /\ CallsFirst' /\ MarkersRequest'
    BY <2>3 DEF OneCall, CallsFirst, MarkersRequest, NoCall
  <2>5. Single' /\ RequestMarked'
    BY <2>1 DEF InOrder, Single, RequestMarked, Marked
  <2>6. slot => SlotsJob'
    BY <2>1, <2>2 DEF InOrder, SlotsJob, SlotsRequest
  <2>7. call[t].req.source = "schedule" => SlotsRequest'
    <3> SUFFICES ASSUME call[t].req.source = "schedule" PROVE SlotsRequest'
      OBVIOUS
    <3>1. t = App
      BY <2>1, CommandsApart DEF OwnCalls
    <3>2. handler = "idle"
      BY <2>1, <3>1 DEF OwnCalls
    <3>3. \A i \in DOMAIN appQ : appQ[i].type = "REQUEST" => appQ[i].req.source = "schedule"
      BY <2>1 DEF InOrder, MarkersRequest
    <3> QED BY <2>1, <2>2, <3>2, <3>3 DEF SlotsRequest
  <2> QED BY <2>1, <2>2, <2>4, <2>5, <2>6, <2>7 DEF InOrder
<1>4. CASE RequestDropped
  <2>1. /\ Receive("REQUEST") /\ UNCHANGED <<call, handler, stage, job, slot>>
        /\ ~pending \/ stage # "none"
    BY <1>4 DEF RequestDropped
  <2>2. OneCall' /\ CallsFirst' /\ MarkersRequest'
    BY <1>d, <1>n, <2>1
  <2>3. ~HasRequest' /\ Single' /\ RequestMarked' /\ Ordered'
    BY <1>h, <2>1, TakesTheOnly DEF InOrder
  <2>4. slot' => SlotsJob'
    BY <2>1 DEF InOrder, SlotsJob, SlotsRequest
  <2> QED BY <2>2, <2>3, <2>4 DEF InOrder
<1>5. ASSUME NEW mode \in Modes, RequestAccepted(mode) PROVE InOrder'
  <2>1. /\ Receive("REQUEST") /\ UNCHANGED <<call, stage, slot>> /\ stage = "none" /\ handler' = "begin"
        /\ job'.source = Head(appQ).req.source
    BY <1>5 DEF RequestAccepted, notices
  <2>2. OneCall' /\ CallsFirst' /\ MarkersRequest'
    BY <1>d, <1>n, <2>1
  <2>3. ~HasRequest' /\ Single' /\ RequestMarked' /\ Ordered'
    BY <1>h, <2>1, TakesTheOnly DEF InOrder
  <2>4. handler = "idle" /\ appQ # <<>> /\ Head(appQ).type = "REQUEST"
    BY <2>1 DEF Receive, AppIdle
  <2>5. Head(appQ) = appQ[1] /\ 1 \in DOMAIN appQ
    BY <1>t, <2>4, TailFacts
  <2>6. slot => SlotsRequest
    BY <2>1, <2>4 DEF InOrder, SlotsJob
  <2>7. slot' => SlotsJob'
    BY <2>1, <2>4, <2>5, <2>6 DEF SlotsJob, SlotsRequest
  <2> QED BY <2>1, <2>2, <2>3, <2>7 DEF InOrder
<1>6. ASSUME NEW read \in ScaleReads, JobBegins(read) PROVE InOrder'
  <2>1. /\ UNCHANGED <<appQ, call, pending, job, slot>> /\ handler = "begin" /\ handler' = "kick" /\ stage' = "motor"
    BY <1>6 DEF JobBegins, notices
  <2>2. OneCall' /\ CallsFirst' /\ MarkersRequest'
    BY <1>d, <1>n, <2>1
  <2>3. Ordered'
    BY <1>f, <2>1 DEF InHand, Waits, Ordered
  <2>4. Single' /\ RequestMarked'
    BY <2>1 DEF InOrder, Single, RequestMarked, Marked, HasRequest
  <2>5. slot' => SlotsJob'
    BY <2>1 DEF InOrder, SlotsJob, SlotsRequest
  <2> QED BY <2>1, <2>2, <2>3, <2>4, <2>5 DEF InOrder
<1>7. CASE JobKicked
  <2>1. /\ UNCHANGED <<appQ, call, pending, stage, job, slot>> /\ handler = "kick" /\ handler' = "idle"
        /\ stage = "motor"
    BY <1>7 DEF JobKicked, Motor!Accept, jobVars, notices, MotorStands
  <2>2. OneCall' /\ CallsFirst' /\ MarkersRequest'
    BY <1>d, <1>n, <2>1
  <2>3. Single' /\ RequestMarked' /\ Ordered'
    BY <2>1 DEF InOrder, Single, RequestMarked, Marked, HasRequest, Ordered
  <2>4. slot' => SlotsJob'
    BY <2>1 DEF InOrder, SlotsJob, SlotsRequest
  <2> QED BY <2>1, <2>2, <2>3, <2>4 DEF InOrder
<1>8. CASE JobRefused
  BY <1>8, <1>f DEF JobRefused, InHand, Waits
<1>9. ASSUME NEW type \in Answering, Receive(type), stage = "motor", stage' = "settle",
             UNCHANGED <<handler, call, pending, job, slot>>
      PROVE  InOrder'
  <2>1. ~HasRequest'
    BY <1>9, AnswerIsLast DEF InOrder
  <2>2. OneCall' /\ CallsFirst' /\ MarkersRequest'
    BY <1>9, <1>n DEF InOrder, CallsFirst
  <2>3. slot' => SlotsJob'
    BY <1>9 DEF InOrder, SlotsJob, SlotsRequest
  <2> QED BY <1>9, <1>h, <2>1, <2>2, <2>3 DEF InOrder
<1>10. CASE OnBurstDone
  <2>1. Receive("BURST_DONE") /\ UNCHANGED <<handler, call, pending, job, slot>>
    BY <1>10 DEF OnBurstDone, BeginSettle, jobVars, notices
  <2>2. (stage = "motor" /\ stage' = "settle") \/ stage' = stage
    BY <1>10 DEF OnBurstDone, BeginSettle, jobVars
  <2> QED BY <1>9, <1>k, <2>1, <2>2 DEF Answering
<1>11. CASE OnMotorFault
  <2>1. Receive("MOTOR_FAULT") /\ UNCHANGED <<handler, call, pending, job, slot>>
    BY <1>11 DEF OnMotorFault, BeginSettle, jobVars, notices
  <2>2. (stage = "motor" /\ stage' = "settle") \/ stage' = stage
    BY <1>11 DEF OnMotorFault, BeginSettle, jobVars
  <2> QED BY <1>9, <1>k, <2>1, <2>2 DEF Answering
<1>12. CASE OnBenchDone
  BY <1>12, <1>k DEF OnBenchDone, jobVars, notices
<1>13. CASE SettleStarts
  BY <1>13, <1>k DEF SettleStarts, notices
<1>14. ASSUME NEW read \in ScaleReads, NEW trusted \in BOOLEAN, NEW low \in BOOLEAN,
              AfterSettle(read, trusted, low)
       PROVE  InOrder'
  <2>1. UNCHANGED <<appQ, call, handler>> /\ stage = "settle" /\ handler = "idle"
    BY <1>14 DEF AfterSettle, AppIdle
  <2>2. ~HasRequest'
    BY <2>1 DEF InOrder, HasRequest
  <2>3. Single' /\ RequestMarked' /\ Ordered'
    BY <1>h, <2>2
  <2>4. OneCall' /\ CallsFirst' /\ MarkersRequest'
    BY <1>n, <2>1 DEF InOrder, CallsFirst
  <2>5. slot => job.source = "schedule"
    BY <2>1 DEF InOrder, SlotsJob, SlotsRequest
  <2>6. slot' => SlotsJob'
    <3>1. CASE \E result, measured, gain : Publish(result, measured, gain, low)
      BY <2>5, <3>1 DEF Publish, SettlesSlot
    <3>2. CASE ~\E result, measured, gain : Publish(result, measured, gain, low)
      <4>1. job' = [job EXCEPT !.batch = @ + 1] /\ slot' = slot /\ stage' = "motor"
        BY <1>14, <3>2 DEF AfterSettle, notices
      <4>2. job'.source = job.source
        BY <1>t, <4>1 DEF Jobs
      <4> QED BY <2>5, <4>1, <4>2 DEF SlotsJob
    <3> QED BY <3>1, <3>2
  <2> QED BY <2>2, <2>3, <2>4, <2>6 DEF InOrder
<1>15. ASSUME NEW cmd \in BenchCmds, BenchRequest(cmd) PROVE InOrder'
  BY <1>15, <1>k DEF BenchRequest, Motor!Accept, jobVars, notices
<1>16. CASE BenchWaits \/ HopperFilled
  BY <1>16, <1>k DEF BenchWaits, HopperFilled, jobVars, notices
<1>17. CASE MotorStep
  <2>1. UNCHANGED <<call, pending, stage, job, slot, handler>>
    BY <1>17 DEF MotorStep, jobVars, notices
  <2> QED BY <1>17, <1>k, <2>1, MotorPosts
<1> QED
  BY <1>1, <1>2, <1>3, <1>4, <1>5, <1>6, <1>7, <1>8, <1>10, <1>11, <1>12, <1>13, <1>14,
     <1>15, <1>16, <1>17 DEF HNext, DispNext, AppStep, Poll, Returns

\* The schedule's active slot has a job, or a request for one, as long as no
\* submission was cut, no bench command crossed a job and no completion event
\* was lost: no slot stays `dispensing` without a job.
THEOREM SlotKeepsJob == HSpec /\ []Room => []SlotHasJob
<1>1. HInit => OneRequest
  BY DEF HInit, DispInit, OneRequest, OwnCalls, InOrder, OneCall, CallsFirst, Single, RequestMarked, HasRequest,
         MarkersRequest, NoCall
<1>2. Typed /\ MotorStands /\ OneRequest /\ [HNext]_hvars => OneRequest'
  <2> SUFFICES ASSUME Typed, MotorStands, OneRequest, [HNext]_hvars PROVE OneRequest'
    OBVIOUS
  <2>1. CASE HNext
    <3>1. OwnCalls'
      BY <2>1, OwnCallsKept DEF OneRequest
    <3>2. (divided => divided') /\ (crossed => crossed')
      BY <2>1 DEF HNext
    <3> QED BY <2>1, <3>1, <3>2, InOrderKept DEF OneRequest
  <2>2. CASE UNCHANGED hvars
    BY <2>2 DEF hvars, dispVars, motorVars, jobVars, notices, OneRequest, OwnCalls, InOrder, OneCall, CallsFirst,
                Single, RequestMarked, Marked, HasRequest, MarkersRequest, Ordered, SlotsJob, SlotsRequest
  <2> QED BY <2>1, <2>2
<1>3. HSpec => HInit /\ [][HNext]_hvars
  BY DEF HSpec, hvars
<1>4. OneRequest => SlotHasJob
  BY DEF OneRequest, InOrder, SlotHasJob, SlotsJob, SlotsRequest, Active
<1> QED BY <1>1, <1>2, <1>3, <1>4, AlwaysTyped, AlwaysStands, PTL
=========================================================================
