---- MODULE Battery ----
(***************************************************************************)
(* The battery as the broker is told (battery_monitor.c, battery_pct.c)    *)
(* and the one converter that three tasks share for it (adc_adapter.c,     *)
(* adc_driver.c): the app task reads the pack, the motor task its load     *)
(* while the motor runs, the command line either. Behind the mutex a task  *)
(* moves the multiplexer, samples, moves it back and leaves the reading in *)
(* one static cell, from which it copies it after the mutex is given.      *)
(***************************************************************************)
EXTENDS Integers, NoValue
CONSTANTS Packs,     \* pack voltages in mV
          Shunt,     \* what the shunt reads, in the same unit
          Curve,     \* the knots of the discharge curve
          Intervals, \* BATTERY_MONITOR_INTERVAL_*_MS in ticks, by source
          Readers,   \* app, motor and console
          MaxReads   \* bound: changes of source and pack, connects, reads of the console, failures
ASSUME NoneIsNoReader == None \notin Readers
ASSUME VoltagesAreNatural == Packs \subseteq Nat /\ Shunt \in Nat
\* s_aa_alk_4s_knots: falling voltages, and a charge that falls from 100 to 0
ASSUME CurveFalls ==
    /\ \A i \in 1..6: Curve[i].mv \in Nat /\ Curve[i].pct \in Nat
    /\ \A i \in 1..5: Curve[i].mv > Curve[i + 1].mv /\ Curve[i].pct >= Curve[i + 1].pct
    /\ Curve[1].pct = 100 /\ Curve[6].pct = 0
VARIABLES pack, source,  \* power_source_input: valid and mains
          en,            \* the motor's enable latch
          adc,           \* s_adc_mutex, the multiplexer, s_read_mv
          call,          \* by task: where its read is, what it reads, its reading
          mon,           \* battery_monitor.c and the request that has not been told yet
          charge,        \* what the broker was told last: the charge, that of the task's own reading, and
                         \* whether another read came between
          reads
batteryVars == <<pack, source, en, adc, call, mon, charge, reads>>

BatteryEvent == reads < MaxReads /\ reads' = reads + 1
NoCall == [at |-> "idle", what |-> None, sample |-> None, ok |-> FALSE, cut |-> FALSE]
BatteryInit ==
    /\ pack \in Packs /\ source \in [valid : BOOLEAN, mains : BOOLEAN] /\ en = FALSE
    /\ adc = [owner |-> None, mux |-> "load", value |-> None]
    /\ call = [t \in Readers |-> NoCall]
    /\ mon = [force |-> FALSE, age |-> None, asked |-> FALSE] /\ charge = None /\ reads = 0

------------------------------------------------------------------------------
(* battery_pct_from_mv: linear between the knots, rounded to the nearest.   *)
Between(hi, lo, mv) == lo.pct + ((mv - lo.mv) * (hi.pct - lo.pct) + (hi.mv - lo.mv) \div 2) \div (hi.mv - lo.mv)
Percent(mv) ==
    LET top == Curve[1]  bottom == Curve[6]
        at == CHOOSE i \in 1..5: mv <= Curve[i].mv /\ mv >= Curve[i + 1].mv
    IN  CASE mv >= top.mv -> top.pct
          [] mv <= bottom.mv -> bottom.pct
          [] OTHER -> Between(Curve[at], Curve[at + 1], mv)
Reported(mv) == [mv |-> mv, pct |-> IF mv = 0 THEN None ELSE Percent(mv)]

------------------------------------------------------------------------------
(* adc_adapter.c and adc_driver.c. The motor task does not wait for the     *)
(* mutex. A battery read checks once that the motor is off.                 *)
Begin(t, what) == call' = [call EXCEPT ![t] = [NoCall EXCEPT !.at = "wait", !.what = what]]
Take(t) ==
    /\ call[t].at = "wait" /\ adc.owner = None /\ adc' = [adc EXCEPT !.owner = t]
    /\ call' = [call EXCEPT ![t].at = "mux"] /\ UNCHANGED <<pack, source, en, mon, charge, reads>>
Gives(t, c, mux, value) ==
    /\ adc' = [owner |-> None, mux |-> mux, value |-> value]
    /\ call' = [x \in Readers |-> IF x = t THEN [c EXCEPT !.at = "given"]
                                ELSE IF call[x].at = "given" THEN [call[x] EXCEPT !.cut = TRUE] ELSE call[x]]
Busy(t) ==
    /\ call[t].at = "wait" /\ adc.owner # None
    /\ call' = [call EXCEPT ![t].at = "given"] /\ UNCHANGED <<pack, source, en, adc, mon, charge>>
    /\ IF t = "motor" THEN UNCHANGED reads ELSE BatteryEvent
Wanted(t) == call[t].what
MotorRuns(t) == call[t].what = "pack" /\ en
SelectMux(t) ==
    /\ call[t].at = "mux" /\ ~MotorRuns(t) /\ adc' = [adc EXCEPT !.mux = Wanted(t)]
    /\ call' = [call EXCEPT ![t].at = "sample"] /\ UNCHANGED <<pack, source, en, mon, charge, reads>>
MuxRefused(t) ==
    /\ call[t].at = "mux" /\ MotorRuns(t) /\ Gives(t, call[t], adc.mux, adc.value)
    /\ UNCHANGED <<pack, source, en, mon, charge, reads>>
MuxFails(t) ==
    /\ call[t].at = "mux" /\ BatteryEvent /\ Gives(t, call[t], adc.mux, adc.value)
    /\ UNCHANGED <<pack, source, en, mon, charge>>
Pin == IF adc.mux = "pack" THEN pack ELSE Shunt
Restored(t) == IF call[t].what = "pack" THEN "load" ELSE adc.mux
Sample(t) ==
    /\ call[t].at = "sample"
    /\ Gives(t, [call[t] EXCEPT !.sample = Pin, !.ok = TRUE], Restored(t), Pin)
    /\ UNCHANGED <<pack, source, en, mon, charge, reads>>
(* The converter fails, with the multiplexer moved back; or the pack was    *)
(* sampled and the multiplexer stays.                                       *)
SampleFails(t) ==
    /\ call[t].at = "sample" /\ BatteryEvent
    /\ \/ Gives(t, call[t], Restored(t), adc.value)
       \/ call[t].what = "pack" /\ Gives(t, call[t], adc.mux, adc.value)
    /\ UNCHANGED <<pack, source, en, mon, charge>>

------------------------------------------------------------------------------
(* battery_monitor.c, with what the app task does after the read. A source  *)
(* that is confirmed and a connect to the broker ask for a sample, which a  *)
(* busy or failed read leaves to the next tick.                             *)
Free == call["app"].at = "idle"
Interval == Intervals[source.mains]
Due(m) == source.valid /\ (m.force \/ m.age = None \/ m.age >= Interval)
MonitorPolls(m) ==
    /\ mon' = m
    /\ IF Due(m) THEN Begin("app", "pack") ELSE UNCHANGED call
MonitorTick ==
    /\ Free /\ MonitorPolls([mon EXCEPT !.age = IF @ # None /\ @ < Interval THEN @ + 1 ELSE @])
    /\ UNCHANGED <<pack, source, en, adc, charge, reads>>
ForceSample(m) == [m EXCEPT !.force = TRUE, !.asked = TRUE]
SourceConfirmed ==
    /\ Free /\ BatteryEvent /\ \E mains \in BOOLEAN: source' = [valid |-> TRUE, mains |-> mains]
    /\ mon' = ForceSample(mon) /\ Begin("app", "pack") /\ UNCHANGED <<pack, en, adc, charge>>
Connected ==
    /\ Free /\ BatteryEvent /\ MonitorPolls(ForceSample(mon)) /\ UNCHANGED <<pack, source, en, adc, charge>>
SampledBlindly(m, ok) == [force |-> FALSE, age |-> 0, asked |-> m.asked /\ ~ok]
MonitorSampled(m, ok) == IF ok THEN [force |-> FALSE, age |-> 0, asked |-> FALSE] ELSE m
Copied(t) == IF call[t].ok THEN adc.value ELSE None
Copy(t) ==
    /\ call[t].at = "given" /\ call' = [call EXCEPT ![t] = NoCall]
    /\ IF t = "app"
       THEN /\ mon' = MonitorSampled(mon, call[t].ok)
            /\ charge' = IF call[t].ok THEN [val |-> Reported(Copied(t)), own |-> Reported(call[t].sample),
                                           cut |-> call[t].cut] ELSE charge
       ELSE UNCHANGED <<mon, charge>>
    /\ UNCHANGED <<pack, source, en, adc, reads>>

(* The motor task samples on each slice of a run; the command line when     *)
(* asked to. *)
MotorSwitches == call["motor"].at = "idle" /\ en' = ~en /\ UNCHANGED <<pack, source, adc, call, mon, charge, reads>>
MotorSlice == en /\ call["motor"].at = "idle" /\ Begin("motor", "load")
              /\ UNCHANGED <<pack, source, en, adc, mon, charge, reads>>
BenchRead == /\ call["cli"].at = "idle" /\ BatteryEvent /\ \E w \in {"pack", "load"}: Begin("cli", w)
             /\ UNCHANGED <<pack, source, en, adc, mon, charge>>
PackChanges == BatteryEvent /\ pack' \in Packs \ {pack} /\ UNCHANGED <<source, en, adc, call, mon, charge>>
BatteryNext ==
    \/ MonitorTick \/ SourceConfirmed \/ Connected \/ MotorSwitches \/ MotorSlice \/ BenchRead \/ PackChanges
    \/ \E t \in Readers: \/ Take(t) \/ Busy(t) \/ SelectMux(t) \/ MuxRefused(t) \/ MuxFails(t)
                       \/ Sample(t) \/ SampleFails(t) \/ Copy(t)
BatterySpec == BatteryInit /\ [][BatteryNext]_batteryVars

------------------------------------------------------------------------------
(* A task samples what it asked for, whoever sampled before and whatever    *)
(* failed; the broker is told the task's own reading, as the charge nearest *)
(* to the curve, unless another read ended between giving the mutex and     *)
(* copying; and a sample that a connect or a change of source asked for is  *)
(* not forgotten before it was told.                                        *)
Nearest(r) ==
    \/ r.pct = None /\ r.mv = 0
    \/ \E i \in 1..5:
        LET hi == Curve[i]  lo == Curve[i + 1]
            exact == (r.mv - lo.mv) * (hi.pct - lo.pct) - (r.pct - lo.pct) * (hi.mv - lo.mv)
        IN  r.mv \in lo.mv..hi.mv /\ 2 * exact \in -(hi.mv - lo.mv)..(hi.mv - lo.mv)
    \/ r.mv >= Curve[1].mv /\ r.pct = 100
    \/ r.mv <= Curve[6].mv /\ r.pct = 0 /\ r.mv > 0
BatteryTold ==
    /\ \A t \in Readers: call[t].at = "sample" => adc.owner = t /\ adc.mux = call[t].what
    /\ charge # None => (charge.val = charge.own \/ charge.cut) /\ Nearest(charge.val)
    /\ mon.asked => mon.force
====
