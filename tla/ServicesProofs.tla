--------------------------- MODULE ServicesProofs ---------------------------
(***************************************************************************)
(* Proofs about six parts of the feeder that share no state: the battery,  *)
(* the bus, the clock, the scale, the buttons and the calendar, each for   *)
(* every value of its constants.                                           *)
(***************************************************************************)
EXTENDS Battery, Bus, Buttons, Calendar, Clock, Weighing, FiniteSetTheorems, TLAPS

-----------------------------------------------------------------------------
(***************************************************************************)
(* Battery: what is told of the charge is the sample of the task that      *)
(* tells it. It is not inductive while two tasks move one multiplexer: who *)
(* holds the mutex chose the channel, and what a task was given is in the  *)
(* cell until another is given something.                                  *)
(***************************************************************************)
(* The reading of each task, the converter and the monitor.                 *)
Calls == [at: {"idle", "wait", "mux", "sample", "given"}, what: {"pack", "load", None},
          sample: Nat \cup {None}, ok: BOOLEAN, cut: BOOLEAN]
BatteryTyped ==
    /\ pack \in Nat
    /\ adc \in [owner: Readers \cup {None}, mux: {"pack", "load", None}, value: Nat \cup {None}]
    /\ call \in [Readers -> Calls]
    /\ mon \in [force: BOOLEAN, age: Nat \cup {None}, asked: BOOLEAN]
(* Who moves the multiplexer or samples has the mutex; what a task was given *)
(* is in the cell until another task is given something.                     *)
HoldsConverter ==
    \A t \in Readers: /\ call[t].at \in {"mux", "sample"} => adc.owner = t
                      /\ call[t].at = "sample" => adc.mux = call[t].what
GivenIsInCell ==
    \A t \in Readers: call[t].ok => /\ call[t].at = "given" /\ adc.value \in Nat
                                    /\ call[t].cut \/ call[t].sample = adc.value
ToldIsOwn == charge # None => (charge.val = charge.own \/ charge.cut) /\ Nearest(charge.val)
AskedIsForced == mon.asked => mon.force
BatteryInv == BatteryTyped /\ HoldsConverter /\ GivenIsInCell /\ ToldIsOwn /\ AskedIsForced

-----------------------------------------------------------------------------
\* Adding half of the divisor before a division rounds to the nearest
\* (battery_pct_interpolate).
LEMMA Rounding ==
    ASSUME NEW n \in Nat, NEW d \in Nat, d > 0
    PROVE  /\ (n + d \div 2) \div d \in Nat
           /\ 2 * (n - ((n + d \div 2) \div d) * d) \in -d..d
<1> DEFINE h == d \div 2
           q == (n + h) \div d
<1>1. h \in Nat /\ 2 * h <= d /\ d <= 2 * h + 1
  OBVIOUS
<1>2. q \in Nat /\ q * d <= n + h /\ n + h < q * d + d
  BY <1>1
<1>3. q * d \in Nat
  BY <1>2
<1> HIDE DEF h, q
<1>4. 2 * (n - q * d) \in -d..d
  BY <1>1, <1>2, <1>3
<1> QED BY <1>2, <1>4 DEF h, q

\* Between two knots the charge reported is nearest to their line
\* (battery_pct_interpolate).
LEMMA BetweenIsNearest ==
    ASSUME NEW i \in 1..5, NEW mv \in Nat, mv <= Curve[i].mv, mv >= Curve[i + 1].mv
    PROVE  LET hi == Curve[i]  lo == Curve[i + 1]  pct == Between(hi, lo, mv)
               exact == (mv - lo.mv) * (hi.pct - lo.pct) - (pct - lo.pct) * (hi.mv - lo.mv)
           IN  2 * exact \in -(hi.mv - lo.mv)..(hi.mv - lo.mv)
<1> DEFINE d == Curve[i].mv - Curve[i + 1].mv
           up == Curve[i].pct - Curve[i + 1].pct
           over == mv - Curve[i + 1].mv
           n == over * up
           q == (n + d \div 2) \div d
<1>1. i \in 1..6 /\ i + 1 \in 1..6
  OBVIOUS
<1>2. /\ Curve[i].mv \in Nat /\ Curve[i + 1].mv \in Nat /\ Curve[i].pct \in Nat /\ Curve[i + 1].pct \in Nat
      /\ Curve[i].mv > Curve[i + 1].mv /\ Curve[i].pct >= Curve[i + 1].pct
  BY <1>1, CurveFalls
<1>3. d \in Nat /\ d > 0 /\ up \in Nat /\ over \in Nat
  BY <1>2
<1>4. n \in Nat
  <2> HIDE DEF up, over
  <2> QED BY <1>3
<1>5. q \in Nat /\ 2 * (n - q * d) \in -d..d
  <2> HIDE DEF n, d
  <2> QED BY <1>3, <1>4, Rounding
<1>6. Between(Curve[i], Curve[i + 1], mv) = Curve[i + 1].pct + q
  BY DEF Between
<1>7. Between(Curve[i], Curve[i + 1], mv) - Curve[i + 1].pct = q
  <2> HIDE DEF q
  <2> QED BY <1>2, <1>5, <1>6
<1> HIDE DEF q
<1> QED BY <1>5, <1>7

\* A voltage between the ends of the curve lies between two of its knots.
LEMMA KnotsCover ==
    ASSUME NEW mv \in Nat, ~(mv >= Curve[1].mv), ~(mv <= Curve[6].mv)
    PROVE  \E i \in 1..5: mv <= Curve[i].mv /\ mv >= Curve[i + 1].mv
<1>1. \A i \in 1..6: Curve[i].mv \in Nat
  BY CurveFalls
<1>2. Curve[1].mv \in Nat /\ Curve[2].mv \in Nat /\ Curve[3].mv \in Nat /\ Curve[4].mv \in Nat /\ Curve[5].mv \in Nat
      /\ Curve[6].mv \in Nat
  BY <1>1
<1>3. \/ mv <= Curve[1].mv /\ mv >= Curve[2].mv
      \/ mv <= Curve[2].mv /\ mv >= Curve[3].mv
      \/ mv <= Curve[3].mv /\ mv >= Curve[4].mv
      \/ mv <= Curve[4].mv /\ mv >= Curve[5].mv
      \/ mv <= Curve[5].mv /\ mv >= Curve[6].mv
  BY <1>2
<1> QED BY <1>3, 1 \in 1..5, 2 \in 1..5, 3 \in 1..5, 4 \in 1..5, 5 \in 1..5,
           1 + 1 = 2, 2 + 1 = 3, 3 + 1 = 4, 4 + 1 = 5, 5 + 1 = 6

\* What is reported of any voltage is nearest to the curve, and nothing is
\* reported of none (battery_pct_from_mv, battery_monitor_poll).
LEMMA ReportedIsNearest == ASSUME NEW mv \in Nat PROVE Nearest(Reported(mv))
<1> DEFINE r == Reported(mv)
<1>1. r.mv = mv /\ r.pct = IF mv = 0 THEN None ELSE Percent(mv)
  BY DEF Reported
<1>2. \A i \in 1..6: Curve[i].mv \in Nat /\ Curve[i].pct \in Nat
  BY CurveFalls
<1>3. Curve[1].mv \in Nat /\ Curve[6].mv \in Nat
  BY <1>2
<1>4. CASE mv = 0
  BY <1>1, <1>4 DEF Nearest
<1>5. CASE mv # 0 /\ mv >= Curve[1].mv
  <2>1. Percent(mv) = 100
    BY <1>5, CurveFalls DEF Percent
  <2> QED BY <1>1, <1>5, <2>1 DEF Nearest
<1>6. CASE mv # 0 /\ ~(mv >= Curve[1].mv) /\ mv <= Curve[6].mv
  <2>1. Percent(mv) = 0
    BY <1>6, CurveFalls DEF Percent
  <2> QED BY <1>1, <1>6, <2>1 DEF Nearest
<1>7. CASE mv # 0 /\ ~(mv >= Curve[1].mv) /\ ~(mv <= Curve[6].mv)
  <2> DEFINE at == CHOOSE i \in 1..5: mv <= Curve[i].mv /\ mv >= Curve[i + 1].mv
  <2>1. at \in 1..5 /\ mv <= Curve[at].mv /\ mv >= Curve[at + 1].mv
    BY <1>7, KnotsCover
  <2>2. Percent(mv) = Between(Curve[at], Curve[at + 1], mv)
    BY <1>7 DEF Percent
  <2> HIDE DEF at
  <2>3. r.pct = Between(Curve[at], Curve[at + 1], mv)
    BY <1>1, <1>7, <2>2
  <2>4. Curve[at].mv \in Nat /\ Curve[at + 1].mv \in Nat
    BY <1>2, <2>1
  <2>5. mv \in Curve[at + 1].mv .. Curve[at].mv
    BY <2>1, <2>4
  <2> QED BY <1>1, <2>1, <2>3, <2>5, BetweenIsNearest DEF Nearest
<1> QED BY <1>4, <1>5, <1>6, <1>7

-----------------------------------------------------------------------------
\* What a step that only moves t's read leaves of the invariant: the cell is
\* as it was, and t was given nothing.
LEMMA CallMoves ==
    ASSUME BatteryInv, NEW t \in Readers, NEW c \in Calls, call' = [call EXCEPT ![t] = c],
           ~c.ok, c.at \notin {"mux", "sample"},
           UNCHANGED <<adc, pack, charge>>, mon' \in [force: BOOLEAN, age: Nat \cup {None}, asked: BOOLEAN], AskedIsForced'
    PROVE  BatteryInv'
<1>1. call' \in [Readers -> Calls] /\ call'[t] = c /\ \A x \in Readers \ {t}: call'[x] = call[x]
  BY DEF BatteryInv, BatteryTyped
<1>2. BatteryTyped'
  BY <1>1 DEF BatteryInv, BatteryTyped
<1>3. HoldsConverter' /\ GivenIsInCell'
  BY <1>1 DEF BatteryInv, HoldsConverter, GivenIsInCell
<1>4. ToldIsOwn'
  BY DEF BatteryInv, ToldIsOwn
<1> QED BY <1>2, <1>3, <1>4 DEF BatteryInv

\* A read that begins (adc_port_with_lock) is such a step.
LEMMA BeginKept ==
    ASSUME BatteryInv, NEW t \in Readers, NEW what \in {"pack", "load"}, Begin(t, what),
           UNCHANGED <<adc, pack, charge>>, mon' \in [force: BOOLEAN, age: Nat \cup {None}, asked: BOOLEAN], AskedIsForced'
    PROVE  BatteryInv'
<1> DEFINE c == [NoCall EXCEPT !.at = "wait", !.what = what]
<1>1. c \in Calls /\ ~c.ok /\ c.at = "wait"
  BY DEF NoCall, Calls
<1>2. call' = [call EXCEPT ![t] = c]
  BY DEF Begin
<1> HIDE DEF c
<1> QED BY <1>1, <1>2, CallMoves

\* The two changes of a read that is under way.
LEMMA CallUpdates ==
    ASSUME NEW c \in Calls
    PROVE  /\ [c EXCEPT !.at = "given"] \in Calls /\ [c EXCEPT !.at = "given"].at = "given"
           /\ [c EXCEPT !.at = "given"].ok = c.ok /\ [c EXCEPT !.at = "given"].cut = c.cut
           /\ [c EXCEPT !.at = "given"].sample = c.sample
           /\ [c EXCEPT !.cut = TRUE] \in Calls /\ [c EXCEPT !.cut = TRUE].at = c.at
           /\ [c EXCEPT !.cut = TRUE].cut
BY DEF Calls

\* A reader that gives the mutex: with a reading that it leaves in the cell,
\* or with none and the cell as it was (adc_body_read_battery).
LEMMA GivesKept ==
    ASSUME BatteryInv, NEW t \in Readers, adc.owner = t, NEW c \in Calls, NEW mux \in {"pack", "load", None},
           NEW value \in Nat \cup {None}, Gives(t, c, mux, value),
           ~c.ok => value = adc.value, c.ok => value \in Nat /\ c.sample = value, UNCHANGED <<pack, mon, charge>>
    PROVE  BatteryInv'
<1> USE DEF BatteryInv
<1>1. adc' = [owner |-> None, mux |-> mux, value |-> value]
  BY DEF Gives
<1>2. \A x \in Readers: call'[x] = IF x = t THEN [c EXCEPT !.at = "given"]
                                   ELSE IF call[x].at = "given" THEN [call[x] EXCEPT !.cut = TRUE] ELSE call[x]
  BY DEF Gives
<1>3. \A x \in Readers: call[x] \in Calls
  BY DEF BatteryTyped
<1>4. \A x \in Readers: call'[x] \in Calls
  <2> SUFFICES ASSUME NEW x \in Readers PROVE call'[x] \in Calls
    OBVIOUS
  <2>1. CASE x = t
    <3>1. call'[x] = [c EXCEPT !.at = "given"]
      BY <1>2, <2>1
    <3> QED BY <3>1, CallUpdates
  <2>2. CASE x # t /\ call[x].at = "given"
    <3>1. call'[x] = [call[x] EXCEPT !.cut = TRUE]
      BY <1>2, <2>2
    <3> QED BY <1>3, <3>1, CallUpdates
  <2>3. CASE x # t /\ call[x].at # "given"
    BY <1>2, <1>3, <2>3
  <2> QED BY <2>1, <2>2, <2>3
<1>5. BatteryTyped'
  <2>1. call' \in [Readers -> Calls]
    BY <1>4 DEF Gives
  <2> QED BY <1>1, <2>1 DEF BatteryTyped
<1>6. \A x \in Readers: call'[x].at \notin {"mux", "sample"}
  <2> SUFFICES ASSUME NEW x \in Readers PROVE call'[x].at \notin {"mux", "sample"}
    OBVIOUS
  <2>1. CASE x = t
    BY <1>2, <2>1, CallUpdates
  <2>2. CASE x # t /\ call[x].at = "given"
    BY <1>2, <1>3, <2>2, CallUpdates
  <2>3. CASE x # t /\ call[x].at # "given"
    BY <1>2, <2>3 DEF HoldsConverter
  <2> QED BY <2>1, <2>2, <2>3
<1>7. ASSUME NEW x \in Readers, call'[x].ok
      PROVE  call'[x].at = "given" /\ adc'.value \in Nat /\ (call'[x].cut \/ call'[x].sample = adc'.value)
  <2>1. CASE x = t
    <3>1. call'[t] = [c EXCEPT !.at = "given"]
      BY <1>2
    <3>2. c.ok
      BY <1>7, <2>1, <3>1, CallUpdates
    <3> QED BY <1>1, <2>1, <3>1, <3>2, CallUpdates
  <2>2. CASE x # t /\ call[x].at = "given"
    <3>1. call'[x] = [call[x] EXCEPT !.cut = TRUE]
      BY <1>2, <2>2
    <3>2. call'[x].at = "given" /\ call'[x].cut /\ call[x].ok
      BY <1>3, <1>7, <2>2, <3>1 DEF Calls
    <3>3. adc.value \in Nat
      BY <3>2 DEF GivenIsInCell
    <3>4. adc'.value \in Nat
      BY <1>1, <3>3
    <3> QED BY <3>2, <3>4
  <2>3. CASE x # t /\ call[x].at # "given"
    BY <1>2, <1>7, <2>3 DEF GivenIsInCell
  <2> QED BY <2>1, <2>2, <2>3
<1> QED BY <1>5, <1>6, <1>7 DEF HoldsConverter, GivenIsInCell, ToldIsOwn, AskedIsForced

\* The steps of a reader.
LEMMA ReaderKept ==
    ASSUME BatteryInv, NEW t \in Readers,
           Take(t) \/ Busy(t) \/ SelectMux(t) \/ MuxRefused(t) \/ MuxFails(t) \/ Sample(t) \/ SampleFails(t) \/ Copy(t)
    PROVE  BatteryInv'
<1> DEFINE c == call[t]
<1>0. c \in Calls /\ adc.mux \in {"pack", "load", None} /\ adc.value \in Nat \cup {None} /\ pack \in Nat /\ Shunt \in Nat
  BY VoltagesAreNatural DEF BatteryInv, BatteryTyped
<1>1. c.at # "given" => ~c.ok
  BY DEF BatteryInv, GivenIsInCell
<1>2. CASE Take(t)
  <2>1. call' = [call EXCEPT ![t] = [c EXCEPT !.at = "mux"]] /\ adc' = [adc EXCEPT !.owner = t] /\ adc.owner = None
    BY <1>2 DEF Take
  <2>2. [c EXCEPT !.at = "mux"] \in Calls /\ [c EXCEPT !.at = "mux"].at = "mux" /\ ~[c EXCEPT !.at = "mux"].ok
    BY <1>0, <1>1, <1>2 DEF Calls, Take
  <2>3. BatteryTyped'
    BY <1>2, <2>1, <2>2 DEF BatteryInv, BatteryTyped, Take
  <2>4. call'[t].at = "mux" /\ ~call'[t].ok /\ \A x \in Readers \ {t}: call'[x] = call[x]
    BY <2>1, <2>2 DEF BatteryInv, BatteryTyped
  <2>5. adc'.owner = t /\ adc'.value = adc.value /\ \A x \in Readers: call[x].at \notin {"mux", "sample"}
    BY <2>1, NoneIsNoReader DEF BatteryInv, BatteryTyped, HoldsConverter
  <2> QED BY <1>2, <2>3, <2>4, <2>5 DEF BatteryInv, HoldsConverter, GivenIsInCell, ToldIsOwn, AskedIsForced, Take
<1>3. CASE Busy(t)
  <2>1. call' = [call EXCEPT ![t] = [c EXCEPT !.at = "given"]]
    BY <1>3 DEF Busy
  <2> HIDE DEF c
  <2>2. [c EXCEPT !.at = "given"] \in Calls /\ [c EXCEPT !.at = "given"].at = "given" /\ ~[c EXCEPT !.at = "given"].ok
    BY <1>0, <1>1, <1>3, CallUpdates DEF Busy, c
  <2> QED BY <1>3, <2>1, <2>2, CallMoves DEF Busy, BatteryInv, BatteryTyped, AskedIsForced
<1>4. CASE SelectMux(t)
  <2>1. call' = [call EXCEPT ![t] = [c EXCEPT !.at = "sample"]] /\ adc' = [adc EXCEPT !.mux = c.what] /\ c.at = "mux"
    BY <1>4 DEF SelectMux, Wanted
  <2>2. /\ [c EXCEPT !.at = "sample"] \in Calls /\ [c EXCEPT !.at = "sample"].at = "sample"
        /\ ~[c EXCEPT !.at = "sample"].ok /\ [c EXCEPT !.at = "sample"].what = c.what
    BY <1>0, <1>1, <2>1 DEF Calls
  <2>3. BatteryTyped'
    BY <1>0, <1>4, <2>1, <2>2 DEF BatteryInv, BatteryTyped, SelectMux, Calls
  <2>4. call'[t].at = "sample" /\ call'[t].what = c.what /\ ~call'[t].ok /\ \A x \in Readers \ {t}: call'[x] = call[x]
    BY <2>1, <2>2 DEF BatteryInv, BatteryTyped
  <2>5. adc'.owner = t /\ adc'.mux = c.what /\ adc'.value = adc.value /\ \A x \in Readers \ {t}: call[x].at \notin {"mux", "sample"}
    BY <2>1 DEF BatteryInv, BatteryTyped, HoldsConverter
  <2> QED BY <1>4, <2>3, <2>4, <2>5 DEF BatteryInv, HoldsConverter, GivenIsInCell, ToldIsOwn, AskedIsForced, SelectMux
<1>5. CASE MuxRefused(t) \/ MuxFails(t)
  <2>1. c.at = "mux" /\ Gives(t, c, adc.mux, adc.value) /\ UNCHANGED <<pack, mon, charge>>
    BY <1>5 DEF MuxRefused, MuxFails
  <2>2. adc.owner = t /\ ~c.ok
    BY <1>1, <2>1 DEF BatteryInv, HoldsConverter
  <2> QED BY <1>0, <2>1, <2>2, GivesKept
<1>6. CASE Sample(t)
  <2> DEFINE k == [c EXCEPT !.sample = Pin, !.ok = TRUE]
  <2>1. c.at = "sample" /\ Gives(t, k, Restored(t), Pin) /\ UNCHANGED <<pack, mon, charge>>
    BY <1>6 DEF Sample
  <2>2. Pin \in Nat /\ Restored(t) \in {"pack", "load", None}
    BY <1>0 DEF Pin, Restored
  <2>3. k \in Calls /\ k.ok /\ k.sample = Pin
    BY <1>0, <2>2 DEF Calls
  <2>4. adc.owner = t
    BY <2>1 DEF BatteryInv, HoldsConverter
  <2> HIDE DEF k
  <2> QED BY <2>1, <2>2, <2>3, <2>4, GivesKept
<1>7. CASE SampleFails(t)
  <2>1. \E mux \in {Restored(t), adc.mux}: Gives(t, c, mux, adc.value)
    BY <1>7 DEF SampleFails
  <2>2. c.at = "sample" /\ UNCHANGED <<pack, mon, charge>>
    BY <1>7 DEF SampleFails
  <2>3. adc.owner = t /\ ~c.ok
    BY <1>1, <2>2 DEF BatteryInv, HoldsConverter
  <2>4. Restored(t) \in {"pack", "load", None}
    BY <1>0 DEF Restored
  <2>5. PICK mux \in {Restored(t), adc.mux}: Gives(t, c, mux, adc.value)
    BY <2>1
  <2>6. mux \in {"pack", "load", None}
    BY <1>0, <2>4, <2>5
  <2> QED BY <1>0, <2>2, <2>3, <2>5, <2>6, GivesKept
<1>8. CASE Copy(t)
  <2>1. c.at = "given" /\ call' = [call EXCEPT ![t] = NoCall] /\ UNCHANGED <<adc, pack>>
    BY <1>8 DEF Copy
  <2>2. NoCall \in Calls /\ ~NoCall.ok /\ NoCall.at = "idle"
    BY DEF NoCall, Calls
  <2>3. call'[t] = NoCall /\ call' \in [Readers -> Calls] /\ \A x \in Readers \ {t}: call'[x] = call[x]
    BY <2>1, <2>2 DEF BatteryInv, BatteryTyped
  <2>4. HoldsConverter' /\ GivenIsInCell'
    BY <2>1, <2>2, <2>3 DEF BatteryInv, HoldsConverter, GivenIsInCell
  <2>5. mon' \in [force: BOOLEAN, age: Nat \cup {None}, asked: BOOLEAN] /\ AskedIsForced'
    <3>1. mon' = mon \/ mon' = [force |-> FALSE, age |-> 0, asked |-> FALSE]
      BY <1>8 DEF Copy, MonitorSampled
    <3>2. CASE mon' = mon
      BY <3>2 DEF BatteryInv, BatteryTyped, AskedIsForced
    <3>3. CASE mon' = [force |-> FALSE, age |-> 0, asked |-> FALSE]
      <4>1. mon' \in [force: BOOLEAN, age: Nat \cup {None}, asked: BOOLEAN] /\ ~mon'.asked
        BY <3>3
      <4> QED BY <4>1 DEF AskedIsForced
    <3> QED BY <3>1, <3>2, <3>3
  <2>6. ToldIsOwn'
    <3>1. CASE charge' = charge
      BY <3>1 DEF BatteryInv, ToldIsOwn
    <3>2. CASE charge' # charge
      <4>1. c.ok /\ charge' = [val |-> Reported(Copied(t)), own |-> Reported(c.sample), cut |-> c.cut]
        BY <1>8, <3>2 DEF Copy
      <4>2. Copied(t) = adc.value /\ adc.value \in Nat /\ (c.cut \/ c.sample = adc.value)
        BY <4>1 DEF Copied, BatteryInv, GivenIsInCell
      <4>3. Nearest(Reported(adc.value))
        BY <4>2, ReportedIsNearest
      <4>4. charge'.val = Reported(adc.value) /\ charge'.own = Reported(c.sample) /\ charge'.cut = c.cut
        BY <4>1, <4>2
      <4> QED BY <4>2, <4>3, <4>4 DEF ToldIsOwn
    <3> QED BY <3>1, <3>2
  <2>7. BatteryTyped'
    BY <2>1, <2>3, <2>5 DEF BatteryInv, BatteryTyped
  <2> QED BY <2>4, <2>5, <2>6, <2>7 DEF BatteryInv
<1> QED BY <1>2, <1>3, <1>4, <1>5, <1>6, <1>7, <1>8

\* Every step keeps the invariant.
LEMMA BatteryInvKept == ASSUME BatteryInv, [BatteryNext]_batteryVars PROVE BatteryInv'
<1> DEFINE Monitors == [force: BOOLEAN, age: Nat \cup {None}, asked: BOOLEAN]
<1>0. mon \in Monitors /\ ForceSample(mon) \in Monitors /\ ForceSample(mon).force
  BY DEF BatteryInv, BatteryTyped, ForceSample
<1>1. ASSUME NEW m \in Monitors, m.asked => m.force, MonitorPolls(m), Free, UNCHANGED <<adc, pack, charge>>
      PROVE  BatteryInv'
  <2>1. mon' = m /\ AskedIsForced'
    BY <1>1 DEF MonitorPolls, AskedIsForced
  <2>2. CASE call' = call
    BY <1>1, <2>1, <2>2 DEF BatteryInv, BatteryTyped, HoldsConverter, GivenIsInCell, ToldIsOwn
  <2>3. CASE Begin("app", "pack") /\ "app" \in Readers
    BY <1>1, <2>1, <2>3, BeginKept
  <2>4. CASE Begin("app", "pack") /\ "app" \notin Readers
    <3>1. call' = call
      BY <2>4 DEF Begin, BatteryInv, BatteryTyped
    <3> QED BY <2>2, <3>1
  <2> QED BY <1>1, <2>2, <2>3, <2>4 DEF MonitorPolls
<1>2. CASE MonitorTick
  <2> DEFINE m == [mon EXCEPT !.age = IF @ # None /\ @ < Interval THEN @ + 1 ELSE @]
  <2>1. m \in Monitors /\ m.asked = mon.asked /\ m.force = mon.force
    BY <1>0
  <2> HIDE DEF m
  <2>2. MonitorPolls(m) /\ Free /\ UNCHANGED <<adc, pack, charge>>
    BY <1>2 DEF MonitorTick, m
  <2> QED BY <1>1, <2>1, <2>2 DEF BatteryInv, AskedIsForced
<1>3. CASE SourceConfirmed
  <2>1. mon' \in Monitors /\ AskedIsForced'
    BY <1>0, <1>3 DEF SourceConfirmed, AskedIsForced
  <2>2. CASE "app" \in Readers
    BY <1>3, <2>1, <2>2, BeginKept DEF SourceConfirmed
  <2>3. CASE "app" \notin Readers
    <3>1. call' = call /\ UNCHANGED <<adc, pack, charge>>
      BY <1>3, <2>3 DEF SourceConfirmed, Begin, BatteryInv, BatteryTyped
    <3> QED BY <2>1, <3>1 DEF BatteryInv, BatteryTyped, HoldsConverter, GivenIsInCell, ToldIsOwn
  <2> QED BY <2>2, <2>3
<1>4. CASE Connected
  BY <1>0, <1>1, <1>4 DEF Connected
<1>5. ASSUME NEW t, NEW what \in {"pack", "load"}, Begin(t, what), UNCHANGED <<adc, pack, mon, charge>> PROVE BatteryInv'
  <2>1. CASE t \in Readers
    BY <1>5, <2>1, BeginKept DEF BatteryInv, BatteryTyped, AskedIsForced
  <2>2. CASE t \notin Readers
    <3>1. call' = call
      BY <1>5, <2>2 DEF Begin, BatteryInv, BatteryTyped
    <3> QED BY <1>5, <3>1 DEF BatteryInv, BatteryTyped, HoldsConverter, GivenIsInCell, ToldIsOwn, AskedIsForced
  <2> QED BY <2>1, <2>2
<1>6. CASE MotorSlice \/ BenchRead
  BY <1>5, <1>6 DEF MotorSlice, BenchRead
<1>7. CASE MotorSwitches \/ PackChanges \/ UNCHANGED batteryVars
  <2>1. UNCHANGED <<adc, call, mon, charge>> /\ pack' \in Nat
    BY <1>7, VoltagesAreNatural DEF MotorSwitches, PackChanges, batteryVars, BatteryInv, BatteryTyped
  <2> QED BY <2>1 DEF BatteryInv, BatteryTyped, HoldsConverter, GivenIsInCell, ToldIsOwn, AskedIsForced
<1> QED BY <1>2, <1>3, <1>4, <1>6, <1>7, ReaderKept DEF BatteryNext

-----------------------------------------------------------------------------
\* Whoever reads the converter, in whatever order and whatever fails: a task
\* samples what it asked for, the broker is told the task's own reading unless
\* another read came between, as the charge nearest to the curve, and a sample
\* asked for is not forgotten (adc_adapter.c, battery_monitor.c,
\* battery_pct.c).
THEOREM BatteryIsTold == BatterySpec => []BatteryTold
<1>1. BatteryInit => BatteryInv
  BY VoltagesAreNatural DEF BatteryInit, BatteryInv, BatteryTyped, HoldsConverter, GivenIsInCell, ToldIsOwn, AskedIsForced,
     NoCall, Calls
<1>2. BatteryInv /\ [BatteryNext]_batteryVars => BatteryInv'
  BY BatteryInvKept
<1>3. BatteryInv => BatteryTold
  BY DEF BatteryInv, BatteryTold, HoldsConverter, ToldIsOwn, AskedIsForced
<1> QED BY <1>1, <1>2, <1>3, PTL DEF BatterySpec

-----------------------------------------------------------------------------
(***************************************************************************)
(* Bus: while nobody borrows without asking, the place of each task in its *)
(* call tells what it has of the loan, and the profile of the bus follows  *)
(* from the loan.                                                          *)
(***************************************************************************)
(* The values of the state.                                                 *)
Places == {"idle", "call", "enter", "begin", "mark", "markouter", "body", "flush", "end", "use", "leave",
           "ended", "disown", "give", "unmark"}
Inners == (Pins \X BOOLEAN) \cup {"inputs", None}
Records == [at: Places, outer: Loans \cup {"none"}, inner: Inners, nested: BOOLEAN, then: Places, back: Places]
BusTyped ==
    /\ task \in [Tasks -> Records]
    /\ i2c \in BOOLEAN /\ session \in [held: BOOLEAN, owned: BOOLEAN] /\ borrowed \in BOOLEAN
    /\ sem \in BOOLEAN /\ taken \in BOOLEAN /\ lost \in BOOLEAN
    /\ shadow = [out |-> shadow.out, dirty |-> shadow.dirty] /\ shadow.dirty \in BOOLEAN
ShownIsWritten == shadow.dirty \/ chip = shadow.out

(* While nobody borrows: a task t is where its call can have brought it; it *)
(* has the loan, in a session or not, until it returns the pins, and holds  *)
(* the semaphore until it gives that back too.                              *)
Profiled(t) == task[t].outer \notin {"none", "session"}
Placed(t) ==
    /\ task[t].at \in {"call", "leave"} => task[t].outer # "none"
    /\ task[t].at = "mark" => task[t].outer = "none"
    /\ task[t].at = "markouter" => task[t].outer = "session"
    /\ task[t].at = "begin" => task[t].outer # "session"
    /\ task[t].at = "use" => Profiled(t)
    /\ task[t].at \in {"body", "flush", "end"} => task[t].nested = (task[t].outer = "session")
    /\ task[t].at \in {"begin", "mark"} => ~task[t].nested
    /\ task[t].at \in {"ended", "disown"} => task[t].back = IF Profiled(t) THEN "leave" ELSE "idle"
    /\ task[t].at \in {"give", "unmark"} =>
          task[t].then \in {"idle", "disown"} /\ (task[t].then = "disown" => ~Profiled(t) /\ task[t].back = "idle")
HasLoan(t) ==
    task[t].at \in CASE task[t].outer = "none" -> {"mark", "body", "flush", "end", "ended"}
                     [] task[t].outer = "session" -> {"markouter", "enter", "body", "flush", "end", "leave", "ended"}
                     [] OTHER -> {"enter", "begin", "body", "flush", "end", "ended", "disown", "use", "leave"}
Holds(t) == HasLoan(t) \/ task[t].at = "give"
HasSession(t) ==
    task[t].at \in IF task[t].outer = "session" THEN {"enter", "body", "flush", "end", "leave"} ELSE {"body", "flush", "end"}
(* How the bus is while t holds the semaphore, and while nobody does: set up*)
(* exactly while the loan gives access to the expander, its marks in place  *)
(* unless one was cleared.                                                  *)
LentTo(t) ==
    /\ ~sem /\ (taken \/ lost) /\ i2c = Accessible
    /\ HasLoan(t) => loan = IF Profiled(t) THEN task[t].outer ELSE "EXPANDER"
    /\ ~HasLoan(t) => loan = None
    /\ session.held = HasSession(t) /\ (HasSession(t) => Accessible)
    /\ HasSession(t) \/ task[t].at = "ended" => IF Profiled(t) THEN ~session.owned ELSE session.owned \/ lost
Open ==
    /\ (sem \/ lost) /\ (loan = None \/ (lost /\ ~sem)) /\ i2c = Accessible
    /\ session.held = FALSE
Lent ==
    /\ \A t \in Tasks: Placed(t)
    /\ \A t, u \in Tasks: Holds(t) /\ Holds(u) => t = u
    /\ \A t \in Tasks: Holds(t) => LentTo(t)
    /\ (\A t \in Tasks: ~Holds(t)) => Open
BusInv == BusTyped /\ ShownIsWritten /\ (borrowed \/ Lent)

-----------------------------------------------------------------------------
\* A step that moves one task to a place, in the call it makes.
Goes(t, at) ==
    /\ task' \in [Tasks -> Records] /\ \A u \in Tasks \ {t}: task'[u] = task[u]
    /\ task'[t].at = at
    /\ at # "idle" => /\ task'[t].outer = task[t].outer /\ task'[t].nested = task[t].nested
                      /\ task'[t].then = task[t].then /\ task'[t].back = task[t].back
LEMMA IdleIsTyped == Idle \in Records /\ Idle.at = "idle"
BY DEF Idle, Records, Places, Inners

LEMMA MovesGoes == ASSUME BusTyped, NEW t \in Tasks, NEW at \in Places, Moves(t, at) PROVE Goes(t, at)
<1>1. CASE at = "idle"
  <2>1. task' = [task EXCEPT ![t] = Idle]
    BY <1>1 DEF Moves
  <2> QED BY <1>1, <2>1, IdleIsTyped DEF BusTyped, Goes
<1>2. CASE at # "idle"
  <2>1. task' = [task EXCEPT ![t] = [@ EXCEPT !.at = at]]
    BY <1>2 DEF Moves
  <2>2. [task[t] EXCEPT !.at = at] \in Records
    BY DEF BusTyped, Records
  <2> QED BY <2>1, <2>2 DEF BusTyped, Goes, Records
<1> QED BY <1>1, <1>2

\* A task that gives the semaphore back is to go on at next.
LEMMA GivesBackGoes ==
    ASSUME BusTyped, NEW t \in Tasks, NEW next \in Places, GivesBack(t, next)
    PROVE  /\ task' \in [Tasks -> Records] /\ \A u \in Tasks \ {t}: task'[u] = task[u]
           /\ task'[t].at = "give" /\ task'[t].then = next
           /\ task'[t].outer = task[t].outer /\ task'[t].nested = task[t].nested /\ task'[t].back = task[t].back
<1>1. PICK r: r = [task[t] EXCEPT !.at = "give", !.then = next]
  OBVIOUS
<1>2. task' = [task EXCEPT ![t] = r]
  BY <1>1 DEF GivesBack
<1>3. r \in Records /\ r.at = "give" /\ r.then = next /\ r.outer = task[t].outer /\ r.nested = task[t].nested /\ r.back = task[t].back
  BY <1>1 DEF BusTyped, Records, Places
<1> QED BY <1>2, <1>3 DEF BusTyped

\* A task whose session ends is to go on at next.
LEMMA EndsSessionGoes ==
    ASSUME BusTyped, NEW t \in Tasks, NEW next \in Places, EndsSession(t, next), session.held
    PROVE  /\ task' \in [Tasks -> Records] /\ \A u \in Tasks \ {t}: task'[u] = task[u]
           /\ task'[t].at = "ended" /\ task'[t].back = next
           /\ task'[t].outer = task[t].outer /\ task'[t].nested = task[t].nested /\ task'[t].then = task[t].then
           /\ session'.held = FALSE /\ session'.owned = session.owned /\ session' \in [held: BOOLEAN, owned: BOOLEAN]
<1>1. PICK r: r = [task[t] EXCEPT !.at = "ended", !.back = next]
  OBVIOUS
<1>2. task' = [task EXCEPT ![t] = r] /\ session' = [session EXCEPT !.held = FALSE]
  BY <1>1 DEF EndsSession
<1>3. r \in Records /\ r.at = "ended" /\ r.back = next /\ r.outer = task[t].outer /\ r.nested = task[t].nested /\ r.then = task[t].then
  BY <1>1 DEF BusTyped, Records, Places
<1> QED BY <1>2, <1>3 DEF BusTyped

\* The types of what is lent, by the ways it changes.
LEMMA AcquireTypes ==
    ASSUME BusTyped, NEW t \in Tasks, NEW profile, NEW granted \in Places, NEW failed \in Places,
           Acquire(t, profile, granted, failed)
    PROVE  sem' \in BOOLEAN /\ taken' \in BOOLEAN /\ i2c' \in BOOLEAN /\ task' \in [Tasks -> Records]
<1>1. i2c' = i2c \/ i2c' = (CoversExpander(profile) \/ i2c)
  BY DEF Acquire, SetsUp, lending
<1>2. i2c' \in BOOLEAN
  BY <1>1, Zenon DEF BusTyped
<1>3. Moves(t, granted) \/ Moves(t, failed) \/ GivesBack(t, failed)
  BY DEF Acquire
<1>4. task' \in [Tasks -> Records]
  BY <1>3, MovesGoes, GivesBackGoes DEF Goes
<1>5. sem' \in BOOLEAN /\ taken' \in BOOLEAN
  BY DEF Acquire, BusTyped, lending
<1> QED BY <1>2, <1>4, <1>5
LEMMA ReleaseTypes ==
    ASSUME BusTyped, NEW t \in Tasks, NEW profile, NEW next \in Places, Release(t, profile, next)
    PROVE  sem' \in BOOLEAN /\ taken' \in BOOLEAN /\ i2c' \in BOOLEAN /\ task' \in [Tasks -> Records]
<1>1. i2c' = i2c \/ i2c' = (i2c /\ ~CoversExpander(profile))
  BY DEF Release, TearsDown
<1>2. i2c' \in BOOLEAN
  BY <1>1, Zenon DEF BusTyped
<1>3. Moves(t, next) \/ GivesBack(t, next)
  BY DEF Release
<1>4. task' \in [Tasks -> Records]
  BY <1>3, MovesGoes, GivesBackGoes DEF Goes
<1> QED BY <1>2, <1>4 DEF Release, BusTyped
LEMMA EndsSessionTypes ==
    ASSUME BusTyped, NEW t \in Tasks, NEW next \in Places, EndsSession(t, next)
    PROVE  session' \in [held: BOOLEAN, owned: BOOLEAN] /\ task' \in [Tasks -> Records]
<1>1. CASE session.held
  BY <1>1, EndsSessionGoes
<1>2. CASE ~session.held
  BY <1>2, MovesGoes DEF EndsSession, Goes, BusTyped
<1> QED BY <1>1, <1>2
LEMMA SessionBeginTypes ==
    ASSUME BusTyped, NEW t \in Tasks, NEW next \in Places, NEW failed \in Places, SessionBegin(t, next, failed)
    PROVE  /\ sem' \in BOOLEAN /\ taken' \in BOOLEAN /\ i2c' \in BOOLEAN /\ task' \in [Tasks -> Records]
           /\ session' \in [held: BOOLEAN, owned: BOOLEAN] /\ borrowed' \in BOOLEAN
<1>1. CASE session.held /\ Moves(t, failed) /\ UNCHANGED <<lending, session, borrowed>>
  BY <1>1, MovesGoes DEF BusTyped, lending, Goes
<1>2. CASE /\ ~session.held /\ Accessible /\ session' = [held |-> TRUE, owned |-> FALSE]
           /\ borrowed' = (borrowed \/ ~CoversExpander(task[t].outer)) /\ Moves(t, next) /\ UNCHANGED lending
  <2>1. borrowed' \in BOOLEAN
    BY <1>2, Zenon
  <2> QED BY <1>2, <2>1, MovesGoes DEF BusTyped, lending, Goes
<1>3. CASE Acquire(t, "EXPANDER", IF next = "body" THEN "mark" ELSE "markouter", failed) /\ UNCHANGED <<session, borrowed>>
  <2>1. (IF next = "body" THEN "mark" ELSE "markouter") \in Places
    BY DEF Places
  <2> QED BY <1>3, <2>1, AcquireTypes DEF BusTyped
<1> QED BY <1>1, <1>2, <1>3 DEF SessionBegin

\* Each step keeps the types (BusStep).
LEMMA BusTypesKept == ASSUME BusTyped, NEW t \in Tasks, BusStep(t) PROVE BusTyped'
<1> DEFINE Kept == /\ sem' \in BOOLEAN /\ taken' \in BOOLEAN /\ i2c' \in BOOLEAN /\ task' \in [Tasks -> Records]
                   /\ session' \in [held: BOOLEAN, owned: BOOLEAN] /\ borrowed' \in BOOLEAN
<1>0. /\ {"idle", "enter", "body", "flush", "end", "leave", "use", "ended", "disown", "unmark"} \subseteq Places
      /\ task[t].then \in Places /\ task[t].back \in Places
  BY DEF Places, BusTyped, Records
<1>1. CASE OuterBegin(t)
  <2>1. Kept
    <3>1. CASE SessionBegin(t, "enter", "idle")
      BY <1>0, <3>1, SessionBeginTypes
    <3>2. CASE Acquire(t, task[t].outer, IF task[t].inner = None THEN "use" ELSE "enter", "idle") /\ UNCHANGED <<session, borrowed>>
      <4>1. (IF task[t].inner = None THEN "use" ELSE "enter") \in Places
        BY <1>0
      <4> QED BY <1>0, <3>2, <4>1, AcquireTypes DEF BusTyped
    <3> QED BY <1>1, <3>1, <3>2 DEF OuterBegin
  <2> QED BY <1>1, <2>1 DEF OuterBegin, wires, BusTyped
<1>2. CASE InnerBegin(t)
  <2>1. (IF task[t].outer = "none" THEN "idle" ELSE "leave") \in Places
    BY <1>0
  <2>2. Kept
    BY <1>0, <1>2, <2>1, SessionBeginTypes DEF InnerBegin
  <2> QED BY <1>2, <2>2 DEF InnerBegin, wires, BusTyped
<1>3. CASE Marked(t)
  <2>1. PICK at \in Places: Moves(t, at)
    BY <1>0, <1>3 DEF Marked
  <2>2. borrowed' = (borrowed \/ session.held)
    BY <1>3 DEF Marked
  <2>3. borrowed' \in BOOLEAN
    BY <2>2, Zenon
  <2> QED BY <1>3, <2>1, <2>3, MovesGoes DEF Goes, Marked, BusTyped, lending, wires
<1>4. CASE Enter(t)
  <2>1. PICK at \in {"body", "begin"}: task' = [task EXCEPT ![t].at = at, ![t].nested = session.held]
    BY <1>4 DEF Enter
  <2>2. session.held \in BOOLEAN /\ at \in Places
    BY DEF Places, BusTyped
  <2>3. task' \in [Tasks -> Records]
    BY <2>1, <2>2 DEF BusTyped, Records
  <2>4. borrowed' = (borrowed \/ (session.held /\ task[t].outer # "session"))
    BY <1>4 DEF Enter
  <2>5. borrowed' \in BOOLEAN
    BY <2>4, Zenon
  <2> QED BY <1>4, <2>3, <2>5 DEF Enter, BusTyped, lending
<1>5. CASE Body(t)
  <2>1. task' \in [Tasks -> Records]
    BY <1>0, <1>5, MovesGoes DEF Body, Goes
  <2>2. shadow' = [out |-> shadow'.out, dirty |-> shadow'.dirty] /\ shadow'.dirty \in BOOLEAN
    <3>1. \/ shadow' = shadow
          \/ \E out: shadow' = [out |-> out, dirty |-> shadow.dirty \/ out # shadow.out]
      BY <1>5 DEF Body
    <3>2. ASSUME NEW out, shadow' = [out |-> out, dirty |-> shadow.dirty \/ out # shadow.out]
          PROVE  shadow' = [out |-> shadow'.out, dirty |-> shadow'.dirty] /\ shadow'.dirty \in BOOLEAN
      <4>1. shadow'.out = out /\ shadow'.dirty = (shadow.dirty \/ out # shadow.out)
        BY <3>2, Zenon
      <4>2. shadow'.dirty \in BOOLEAN
        BY <4>1, Zenon
      <4> QED BY <3>2, <4>1, <4>2
    <3> QED BY <3>1, <3>2 DEF BusTyped
  <2>3. borrowed' = (borrowed \/ (Writes(t) /\ args # task[t].inner))
    BY <1>5 DEF Body
  <2>4. borrowed' \in BOOLEAN
    BY <2>3, Zenon
  <2> QED BY <1>5, <2>1, <2>2, <2>4 DEF Body, BusTyped, lending
<1>6. CASE Flush(t)
  <2>1. task' \in [Tasks -> Records]
    BY <1>0, <1>6, MovesGoes DEF Flush, Goes
  <2>2. shadow' = [out |-> shadow'.out, dirty |-> shadow'.dirty] /\ shadow'.dirty \in BOOLEAN
    BY <1>6 DEF Flush, BusTyped
  <2> QED BY <1>6, <2>1, <2>2 DEF Flush, BusTyped, lending
<1>7. CASE Use(t)
  BY <1>0, <1>7, MovesGoes DEF Use, Goes, BusTyped, lending, wires
<1>8. CASE InnerEnd(t)
  <2> DEFINE next == IF task[t].outer = "none" THEN "idle" ELSE "leave"
  <2>1. next \in Places
    BY <1>0
  <2>2. (Moves(t, next) /\ UNCHANGED session) \/ EndsSession(t, next)
    BY <1>8 DEF InnerEnd
  <2> HIDE DEF next
  <2>3. session' \in [held: BOOLEAN, owned: BOOLEAN] /\ task' \in [Tasks -> Records]
    BY <2>1, <2>2, MovesGoes, EndsSessionTypes DEF Goes, BusTyped
  <2> QED BY <1>8, <2>3 DEF InnerEnd, BusTyped, lending, wires
<1>9. CASE OuterEnd(t)
  <2>1. CASE EndsSession(t, "idle") /\ UNCHANGED lending
    BY <1>0, <1>9, <2>1, EndsSessionTypes DEF OuterEnd, BusTyped, lending, wires
  <2>2. CASE Release(t, task[t].outer, "idle") /\ UNCHANGED session
    BY <1>0, <1>9, <2>2, ReleaseTypes DEF OuterEnd, BusTyped, wires
  <2> QED BY <1>9, <2>1, <2>2 DEF OuterEnd
<1>10. CASE Ended(t)
  <2>1. CASE Release(t, "EXPANDER", "disown")
    BY <1>0, <1>10, <2>1, ReleaseTypes DEF Ended, BusTyped, wires
  <2>2. CASE Moves(t, "disown") /\ UNCHANGED lending
    BY <1>0, <1>10, <2>2, MovesGoes DEF Ended, Goes, BusTyped, lending, wires
  <2> QED BY <1>10, <2>1, <2>2 DEF Ended
<1>11. CASE Disown(t)
  <2>1. lost' = (lost \/ \E u \in Tasks \ {t}: OwnSession(u))
    BY <1>11 DEF Disown
  <2>2. lost' \in BOOLEAN
    BY <2>1, Zenon
  <2> QED BY <1>0, <1>11, <2>2, MovesGoes DEF Disown, Goes, BusTyped, lending, wires
<1>12. CASE GiveSem(t)
  BY <1>0, <1>12, MovesGoes DEF GiveSem, Goes, BusTyped, wires
<1>13. CASE Unmark(t)
  <2>1. lost' = (lost \/ ~sem)
    BY <1>13 DEF Unmark
  <2>2. lost' \in BOOLEAN
    BY <2>1, Zenon
  <2> QED BY <1>0, <1>13, <2>2, MovesGoes DEF Unmark, Goes, BusTyped, wires
<1> QED BY <1>1, <1>2, <1>3, <1>4, <1>5, <1>6, <1>7, <1>8, <1>9, <1>10, <1>11, <1>12, <1>13 DEF BusStep

\* The shadow of the outputs is dirty, or it is what the chip has
\* (aw9523b_set_output_bit, aw9523b_flush).
LEMMA ShownKept == ASSUME BusTyped, ShownIsWritten, NEW t \in Tasks, BusStep(t) PROVE ShownIsWritten'
<1>1. CASE Body(t)
  <2>1. chip' = chip
    BY <1>1 DEF Body
  <2>2. \/ shadow' = shadow
        \/ \E out: shadow' = [out |-> out, dirty |-> shadow.dirty \/ out # shadow.out]
    BY <1>1 DEF Body
  <2>3. ASSUME NEW out, shadow' = [out |-> out, dirty |-> shadow.dirty \/ out # shadow.out] PROVE ShownIsWritten'
    <3>1. shadow'.out = out /\ shadow'.dirty = (shadow.dirty \/ out # shadow.out)
      BY <2>3, Zenon
    <3> QED BY <2>1, <3>1 DEF ShownIsWritten
  <2> QED BY <2>1, <2>2, <2>3 DEF ShownIsWritten
<1>2. CASE Flush(t)
  BY <1>2 DEF Flush, ShownIsWritten, BusTyped
<1>3. CASE UNCHANGED <<shadow, chip>>
  BY <1>3 DEF ShownIsWritten
<1> QED BY <1>1, <1>2, <1>3 DEF BusStep, OuterBegin, Marked, Enter, InnerBegin, InnerEnd, Use, OuterEnd, Ended, Disown,
       GiveSem, Unmark, wires

-----------------------------------------------------------------------------
\* What the others have does not change with a step of t.
LEMMA OthersRest ==
    ASSUME NEW t \in Tasks, \A u \in Tasks \ {t}: task'[u] = task[u], NEW u \in Tasks, u # t
    PROVE  /\ HasLoan(u)' = HasLoan(u) /\ Holds(u)' = Holds(u) /\ HasSession(u)' = HasSession(u) /\ Placed(u)' = Placed(u)
           /\ Profiled(u)' = Profiled(u) /\ task'[u].outer = task[u].outer /\ task'[u].at = task[u].at
BY DEF HasLoan, Holds, HasSession, Placed, Profiled

\* Two kinds of steps keep the loan in order: one of the task that holds the
\* semaphore, or takes it from nobody;
LEMMA HolderKept ==
    ASSUME Lent, NEW t \in Tasks, \A u \in Tasks \ {t}: task'[u] = task[u],
           Holds(t) \/ \A u \in Tasks: ~Holds(u),
           Placed(t)', Holds(t)' => LentTo(t)', ~Holds(t)' => Open'
    PROVE  Lent'
<1>1. \A u \in Tasks: u # t => ~Holds(u) /\ ~Holds(u)' /\ Placed(u)'
  BY OthersRest DEF Lent
<1> QED BY <1>1 DEF Lent

\* and one of a task that does not, which clears no mark but as lost says.
LEMMA BystanderKept ==
    ASSUME Lent, NEW t \in Tasks, \A u \in Tasks \ {t}: task'[u] = task[u], ~Holds(t), ~Holds(t)', Placed(t)',
           UNCHANGED <<sem, loan, i2c>>, session'.held = session.held, lost => lost',
           taken' = taken \/ (~sem => lost'),
           session'.owned = session.owned \/ (~session'.owned /\ \A u \in Tasks \ {t}: OwnSession(u) => lost')
    PROVE  Lent'
<1>1. Accessible' = Accessible
  BY DEF Accessible
<1>2. ASSUME NEW u \in Tasks, Holds(u) PROVE LentTo(u)'
  <2>1. u # t /\ LentTo(u)
    BY <1>2 DEF Lent
  <2>2. /\ HasLoan(u)' = HasLoan(u) /\ HasSession(u)' = HasSession(u) /\ Profiled(u)' = Profiled(u)
        /\ task'[u].outer = task[u].outer /\ task'[u].at = task[u].at
    BY <2>1, OthersRest
  <2>3. taken' \/ lost'
    BY <2>1 DEF LentTo
  <2>4. HasSession(u) \/ task[u].at = "ended" => IF Profiled(u) THEN ~session'.owned ELSE session'.owned \/ lost'
    <3>1. (HasSession(u) \/ task[u].at = "ended") /\ ~Profiled(u) => OwnSession(u)
      BY DEF HasSession, Profiled, OwnSession
    <3>2. u \in Tasks \ {t}
      BY <2>1
    <3>3. session'.owned = session.owned \/ (~session'.owned /\ (OwnSession(u) => lost'))
      BY <3>2
    <3> QED BY <2>1, <3>1, <3>3 DEF LentTo
  <2> QED BY <1>1, <2>1, <2>2, <2>3, <2>4 DEF LentTo
<1>3. \A u \in Tasks: Placed(u)' /\ Holds(u)' = Holds(u)
  <2> SUFFICES ASSUME NEW u \in Tasks PROVE Placed(u)' /\ Holds(u)' = Holds(u)
    OBVIOUS
  <2>1. CASE u = t
    BY <2>1 DEF Holds, HasLoan, Placed, Profiled
  <2>2. CASE u # t
    BY <2>2, OthersRest DEF Lent
  <2> QED BY <2>1, <2>2
<1>4. (\A u \in Tasks: ~Holds(u)) => Open'
  BY <1>1 DEF Lent, Open
<1> QED BY <1>2, <1>3, <1>4 DEF Lent

\* Where the parts of Lent come from: a task that holds, one that does not.
LEMMA LentParts ==
    ASSUME Lent, NEW t \in Tasks
    PROVE  /\ Placed(t) /\ (Holds(t) => LentTo(t))
           /\ sem => Open /\ \A u \in Tasks: ~Holds(u)
BY DEF Lent, LentTo

\* A task moves on where it is, with all it has or without any of it.
LEMMA MovesOn ==
    ASSUME Lent, NEW t \in Tasks, NEW at \in Places, Goes(t, at), UNCHANGED <<lending, session, lost>>,
           Placed(t)', HasLoan(t)' = HasLoan(t), task[t].at # "give", at # "give", HasSession(t)' = HasSession(t),
           HasLoan(t) => at # "idle" /\ (at = "ended" => task[t].at = "ended")
    PROVE  Lent'
<1>1. Holds(t)' = Holds(t) /\ Holds(t) = HasLoan(t)
  <2>1. task'[t].at # "give"
    BY DEF Goes
  <2>2. Holds(t)' = HasLoan(t)' /\ Holds(t) = HasLoan(t)
    BY <2>1 DEF Holds, HasLoan
  <2> QED BY <2>2
<1>2. Accessible' = Accessible
  BY DEF Accessible, lending
<1>3. CASE Holds(t)
  <2>1. LentTo(t)'
    BY <1>1, <1>2, <1>3, LentParts DEF LentTo, Goes, Profiled, lending
  <2> QED BY <1>1, <1>3, <2>1, HolderKept DEF Goes
<1>4. CASE ~Holds(t)
  BY <1>1, <1>4, BystanderKept DEF Goes, lending
<1> QED BY <1>3, <1>4

\* Without a session of the task that holds there is none.
LEMMA NotHeld == ASSUME NEW t \in Tasks, LentTo(t), ~HasSession(t) PROVE session.held = FALSE
<1>1. HasSession(t) = FALSE
  BY DEF HasSession
<1> QED BY <1>1, Zenon DEF LentTo

-----------------------------------------------------------------------------
\* wfci_acquire: the semaphore and the pins, the semaphore alone, or nothing.
LEMMA AcquireKept ==
    ASSUME BusTyped, Lent, NEW t \in Tasks, NEW profile, profile # None, NEW granted \in Places, NEW failed \in Places,
           Acquire(t, profile, granted, failed), UNCHANGED <<session, lost>>,
           sem => ~HasLoan(t),
           granted \notin {"idle", "give", "ended"},
           \A at \in Places: Goes(t, at) =>
               /\ at = granted /\ ~HasLoan(t) => /\ Placed(t)' /\ HasLoan(t)' /\ ~HasSession(t)'
                                                 /\ profile = IF Profiled(t)' THEN task'[t].outer ELSE "EXPANDER"
               /\ at = failed => Placed(t)' /\ HasLoan(t)' = HasLoan(t) /\ HasSession(t)' = HasSession(t),
           task[t].at # "give", failed \in {"idle", "leave"}, failed = "leave" => HasLoan(t), HasLoan(t) => failed # "idle"
    PROVE  Lent'
<1>1. CASE sem /\ sem' = FALSE /\ taken' = TRUE /\ loan' = profile /\ SetsUp(profile) /\ Moves(t, granted)
  <2>1. Goes(t, granted)
    BY <1>1, MovesGoes
  <2>2. Placed(t)' /\ HasLoan(t)' /\ ~HasSession(t)' /\ loan' = IF Profiled(t)' THEN task'[t].outer ELSE "EXPANDER"
    BY <1>1, <2>1
  <2>3. Open /\ \A u \in Tasks: ~Holds(u)
    BY <1>1, LentParts
  <2>4. session'.held = FALSE /\ HasSession(t)' = FALSE
    BY <2>2, <2>3 DEF Open, HasSession
  <2>5. i2c' = Accessible'
    BY <1>1, <2>3 DEF Open, Accessible, SetsUp
  <2>6. LentTo(t)' /\ Holds(t)'
    BY <1>1, <2>1, <2>2, <2>4, <2>5 DEF LentTo, Goes, Holds
  <2> QED BY <2>1, <2>2, <2>3, <2>6, HolderKept DEF Goes
<1>2. CASE sem /\ sem' = FALSE /\ taken' = TRUE /\ GivesBack(t, failed) /\ UNCHANGED <<loan, i2c>>
  <2>1. /\ task'[t].at = "give" /\ task'[t].then = failed /\ task'[t].outer = task[t].outer
        /\ \A u \in Tasks \ {t}: task'[u] = task[u]
    BY <1>2, GivesBackGoes
  <2>2. Open /\ (\A u \in Tasks: ~Holds(u)) /\ loan = None
    BY <1>2, LentParts DEF Open
  <2>3. ~HasLoan(t)' /\ HasSession(t)' = FALSE /\ Holds(t)'
    BY <2>1 DEF HasLoan, HasSession, Holds
  <2>4. failed = "idle"
    BY <1>2
  <2>5. Placed(t)'
    BY <2>1, <2>4 DEF Placed, Profiled
  <2>6. LentTo(t)'
    BY <1>2, <2>1, <2>2, <2>3 DEF LentTo, Open, Accessible
  <2> QED BY <2>1, <2>2, <2>3, <2>5, <2>6, HolderKept
<1>3. CASE ~sem /\ Moves(t, failed) /\ UNCHANGED lending
  <2>1. Goes(t, failed) /\ failed # "give"
    BY <1>3, MovesGoes
  <2>2. Placed(t)' /\ HasLoan(t)' = HasLoan(t) /\ HasSession(t)' = HasSession(t)
    BY <2>1
  <2> QED BY <1>3, <2>1, <2>2, MovesOn
<1> QED BY <1>1, <1>2, <1>3 DEF Acquire

\* gpio_expander_loan_begin_common: the session of another refuses it; one in
\* the task's own loan; a loan for it; a loan without the expander refuses it.
\* The place a task goes to decides whether it asked inside a call or around it.
LEMMA SessionBeginKept ==
    ASSUME BusTyped, Lent, NEW t \in Tasks, NEW next, NEW failed, ~borrowed', SessionBegin(t, next, failed), lost' = lost,
           \/ /\ task[t].at = "call" /\ task[t].outer = "session" /\ next = "enter" /\ failed = "idle"
           \/ /\ task[t].at = "begin" /\ next = "body"
              /\ failed = IF task[t].outer = "none" THEN "idle" ELSE "leave"
    PROVE  Lent'
<1>0. Placed(t) /\ (Holds(t) => LentTo(t)) /\ (HasLoan(t) => Holds(t)) /\ failed \in {"idle", "leave"}
  BY LentParts DEF Holds
<1>1. CASE Moves(t, failed) /\ UNCHANGED <<lending, session>>
  <2>1. Goes(t, failed)
    BY <1>0, <1>1, MovesGoes DEF Places
  <2>2. Placed(t)' /\ HasLoan(t)' = HasLoan(t) /\ HasSession(t)' = HasSession(t) /\ (HasLoan(t) => failed # "idle")
    <3>1. CASE failed = "idle"
      <4>1. task'[t].at = "idle" /\ HasLoan(t) = FALSE /\ HasSession(t) = FALSE
        BY <2>1, <3>1 DEF Goes, HasLoan, HasSession
      <4>2. Placed(t)' /\ HasLoan(t)' = FALSE /\ HasSession(t)' = FALSE
        BY <4>1 DEF Placed, HasLoan, HasSession
      <4> QED BY <4>1, <4>2
    <3>2. CASE failed = "leave"
      <4>1. task'[t].at = "leave" /\ Profiled(t) /\ task'[t].outer = task[t].outer /\ task[t].at = "begin"
        BY <1>0, <2>1, <3>2 DEF Goes, Placed, Profiled
      <4> QED BY <3>2, <4>1 DEF Placed, HasLoan, HasSession, Profiled
    <3> QED BY <1>0, <3>1, <3>2
  <2> QED BY <1>0, <1>1, <2>1, <2>2, MovesOn DEF Places
<1>2. CASE /\ ~session.held /\ Accessible /\ session' = [held |-> TRUE, owned |-> FALSE]
           /\ borrowed' = (borrowed \/ ~CoversExpander(task[t].outer)) /\ Moves(t, next) /\ UNCHANGED lending
  <2>1. Profiled(t) /\ task[t].at = "begin" /\ next = "body"
    BY <1>2 DEF CoversExpander, Profiled
  <2>2. Goes(t, "body")
    BY <1>2, <2>1, MovesGoes DEF Places
  <2>3. Placed(t)' /\ HasLoan(t) /\ HasLoan(t)' /\ HasSession(t)' /\ Profiled(t)'
    <3>1. /\ task'[t].at = "body" /\ task'[t].outer = task[t].outer /\ task[t].outer \notin {"none", "session"}
          /\ task'[t].nested = FALSE
      BY <1>0, <2>1, <2>2 DEF Goes, Placed, Profiled, BusTyped, Records
    <3> QED BY <2>1, <3>1 DEF Placed, HasLoan, HasSession, Profiled
  <2>4. Accessible' = Accessible
    BY <1>2 DEF Accessible, lending
  <2>5. session'.held = TRUE /\ session'.owned = FALSE
    BY <1>2
  <2>6. HasSession(t)' = TRUE
    BY <2>3 DEF HasSession
  <2>7. LentTo(t)'
    BY <1>0, <1>2, <2>1, <2>2, <2>3, <2>4, <2>5, <2>6 DEF Goes, LentTo, lending
  <2> QED BY <1>0, <2>2, <2>3, <2>7, HolderKept DEF Goes, Holds
<1>3. CASE ~Accessible /\ Acquire(t, "EXPANDER", IF next = "body" THEN "mark" ELSE "markouter", failed) /\ UNCHANGED session
  <2> DEFINE at == IF next = "body" THEN "mark" ELSE "markouter"
  <2>1. at \in Places /\ at \notin {"idle", "give", "ended"} /\ "EXPANDER" # None
    BY LoansAreNamed DEF Places
  <2>2. sem => ~HasLoan(t)
    BY <1>0 DEF LentTo
  <2>3. failed = "leave" => HasLoan(t)
    BY <1>0 DEF HasLoan, Placed, Profiled
  <2>4. HasLoan(t) => failed # "idle"
    BY DEF HasLoan
  <2>5. ASSUME NEW a \in Places, Goes(t, a), a = at, ~HasLoan(t)
        PROVE  /\ Placed(t)' /\ HasLoan(t)' /\ ~HasSession(t)'
               /\ "EXPANDER" = IF Profiled(t)' THEN task'[t].outer ELSE "EXPANDER"
    <3>1. task[t].at = "begin" => task[t].outer = "none"
      BY <1>0, <2>5 DEF HasLoan, Placed, Profiled
    <3> QED BY <1>0, <2>5, <3>1 DEF Goes, Placed, HasLoan, HasSession, Profiled
  <2>6. ASSUME NEW a \in Places, Goes(t, a), a = failed
        PROVE  Placed(t)' /\ HasLoan(t)' = HasLoan(t) /\ HasSession(t)' = HasSession(t)
    BY <1>0, <2>6 DEF Goes, Placed, HasLoan, HasSession, Profiled
  <2> HIDE DEF at
  <2>7. Acquire(t, "EXPANDER", at, failed)
    BY <1>3 DEF at
  <2> QED BY <1>0, <1>3, <2>1, <2>2, <2>3, <2>4, <2>5, <2>6, <2>7, AcquireKept DEF Places
<1> QED BY <1>1, <1>2, <1>3 DEF SessionBegin

\* gpio_expander_loan_end, of a task in its session.
LEMMA EndsSessionKept ==
    ASSUME BusTyped, Lent, NEW t \in Tasks, HasSession(t), task[t].at \in {"end", "leave"},
           EndsSession(t, IF Profiled(t) THEN "leave" ELSE "idle"), UNCHANGED <<lending, lost>>
    PROVE  Lent'
<1> DEFINE next == IF Profiled(t) THEN "leave" ELSE "idle"
<1>1. Placed(t) /\ HasLoan(t) /\ Holds(t) /\ LentTo(t) /\ session.held
  BY LentParts DEF HasSession, HasLoan, Holds, Placed, LentTo
<1>2. /\ \A u \in Tasks \ {t}: task'[u] = task[u]
      /\ task'[t].at = "ended" /\ task'[t].back = next /\ task'[t].outer = task[t].outer
      /\ session'.held = FALSE /\ session'.owned = session.owned
  BY <1>1, EndsSessionGoes DEF Places
<1>3. /\ Placed(t)' /\ HasLoan(t)' /\ Holds(t)' /\ HasSession(t)' = FALSE /\ Profiled(t)' = Profiled(t)
  BY <1>2 DEF Placed, HasLoan, Holds, HasSession, Profiled
<1>4. LentTo(t)'
  BY <1>1, <1>2, <1>3 DEF LentTo, lending, Accessible
<1> QED BY <1>1, <1>2, <1>3, <1>4, HolderKept

\* wfci_port_release, of the task that has the loan.
LEMMA ReleaseKept ==
    ASSUME BusTyped, Lent, NEW t \in Tasks, HasLoan(t), ~HasSession(t), NEW profile, loan = profile,
           NEW next \in {"idle", "disown"}, next = "disown" => ~Profiled(t) /\ task[t].back = "idle",
           Release(t, profile, next), UNCHANGED <<session, lost>>
    PROVE  Lent'
<1>1. Holds(t) /\ LentTo(t)
  BY LentParts DEF Holds
<1>2. GivesBack(t, next) /\ loan' = None /\ i2c' = (i2c /\ ~CoversExpander(loan)) /\ UNCHANGED <<sem, taken>>
  BY DEF Release, TearsDown
<1>3. /\ task'[t].at = "give" /\ task'[t].then = next /\ task'[t].outer = task[t].outer /\ task'[t].back = task[t].back
      /\ \A u \in Tasks \ {t}: task'[u] = task[u]
  BY <1>2, GivesBackGoes DEF Places
<1>4. Placed(t)' /\ ~HasLoan(t)' /\ Holds(t)' /\ HasSession(t)' = FALSE
  BY <1>3 DEF Placed, HasLoan, Holds, HasSession, Profiled
<1>5. session'.held = FALSE
  BY <1>1, NotHeld
<1>6. i2c' = FALSE /\ Accessible' = FALSE
  <2>1. i2c => CoversExpander(loan)
    BY <1>1 DEF LentTo, Accessible
  <2> QED BY <1>2, <2>1 DEF Accessible
<1>7. LentTo(t)'
  BY <1>1, <1>2, <1>3, <1>4, <1>5, <1>6 DEF LentTo
<1> QED BY <1>1, <1>3, <1>4, <1>7, HolderKept

-----------------------------------------------------------------------------
\* Every step of a task keeps the loan in order as long as nobody borrows.
LEMMA StepLends == ASSUME BusTyped, Lent, NEW t \in Tasks, BusStep(t), ~borrowed' PROVE Lent'
<1>0. Placed(t) /\ (Holds(t) => LentTo(t)) /\ (HasLoan(t) => Holds(t)) /\ (sem => ~Holds(t))
  BY LentParts DEF Holds
<1>1. CASE OuterBegin(t) /\ task[t].outer = "session"
  <2>1. task[t].at = "call" /\ SessionBegin(t, "enter", "idle") /\ lost' = lost
    BY <1>1 DEF OuterBegin
  <2> QED BY <1>1, <2>1, SessionBeginKept
<1>2. CASE OuterBegin(t) /\ task[t].outer # "session"
  <2> DEFINE next == IF task[t].inner = None THEN "use" ELSE "enter"
  <2>1. /\ Profiled(t) /\ task[t].at = "call" /\ ~HasLoan(t) /\ ~HasSession(t) /\ task[t].outer # None
        /\ Acquire(t, task[t].outer, next, "idle") /\ UNCHANGED <<session, lost>>
    BY <1>0, <1>2, LoansAreNamed DEF OuterBegin, Placed, Profiled, HasLoan, HasSession, BusTyped, Records
  <2>2. next \in {"use", "enter"}
    OBVIOUS
  <2> HIDE DEF next
  <2>3. ASSUME NEW a \in Places, Goes(t, a), a = next
        PROVE  /\ Placed(t)' /\ HasLoan(t)' /\ ~HasSession(t)'
               /\ task[t].outer = IF Profiled(t)' THEN task'[t].outer ELSE "EXPANDER"
    BY <2>1, <2>2, <2>3 DEF Goes, Placed, HasLoan, HasSession, Profiled
  <2>4. ASSUME NEW a \in Places, Goes(t, a), a = "idle"
        PROVE  Placed(t)' /\ HasLoan(t)' = HasLoan(t) /\ HasSession(t)' = HasSession(t)
    BY <2>1, <2>4 DEF Goes, Placed, HasLoan, HasSession, Profiled
  <2> QED BY <2>1, <2>2, <2>3, <2>4, AcquireKept DEF Places
<1>3. CASE Marked(t)
  <2> DEFINE next == IF task[t].at = "mark" THEN "body" ELSE "enter"
  <2>1. /\ task[t].at \in {"mark", "markouter"} /\ Moves(t, next) /\ session'.held = TRUE /\ session'.owned = TRUE
        /\ UNCHANGED <<lending, lost>>
    BY <1>3 DEF Marked
  <2>2. Goes(t, next) /\ ~Profiled(t) /\ HasLoan(t)
    BY <1>0, <2>1, MovesGoes DEF Placed, Places, Profiled, HasLoan
  <2>3. Placed(t)' /\ HasLoan(t)' /\ Holds(t)' /\ HasSession(t)' = TRUE /\ ~Profiled(t)'
    <3>1. CASE task[t].at = "mark"
      <4>1. task'[t].at = "body" /\ task'[t].outer = "none" /\ task'[t].nested = task[t].nested /\ ~task[t].nested
        BY <1>0, <2>2, <3>1 DEF Goes, Placed
      <4> QED BY <4>1 DEF Placed, HasLoan, Holds, HasSession, Profiled, BusTyped, Records
    <3>2. CASE task[t].at = "markouter"
      <4>1. task'[t].at = "enter" /\ task'[t].outer = "session"
        BY <1>0, <2>2, <3>2 DEF Goes, Placed
      <4> QED BY <4>1 DEF Placed, HasLoan, Holds, HasSession, Profiled
    <3> QED BY <2>1, <3>1, <3>2
  <2>4. Accessible' = Accessible /\ Accessible
    BY <1>0, <2>1, <2>2, LoansAreNamed DEF LentTo, Accessible, CoversExpander, lending
  <2>5. LentTo(t)'
    BY <1>0, <2>1, <2>2, <2>3, <2>4 DEF LentTo, lending
  <2> QED BY <1>0, <2>2, <2>3, <2>5, HolderKept DEF Goes
<1>4. CASE Enter(t)
  <2>1. task[t].at = "enter" /\ UNCHANGED <<lending, session, lost>> /\ (session.held => task[t].outer = "session")
    BY <1>4 DEF Enter
  <2>2. task[t].outer = "session" => session.held
    BY <1>0, <2>1 DEF LentTo, HasSession, HasLoan
  <2> DEFINE at == IF session.held THEN "body" ELSE "begin"
  <2>3. /\ task'[t].at = at /\ task'[t].nested = session.held /\ task'[t].outer = task[t].outer
        /\ \A u \in Tasks \ {t}: task'[u] = task[u]
    <3>1. task' = [task EXCEPT ![t].at = at, ![t].nested = session.held]
      BY <1>4 DEF Enter
    <3> HIDE DEF at
    <3> QED BY <3>1 DEF BusTyped, Records
  <2>4. Placed(t)' /\ HasLoan(t)' = HasLoan(t) /\ HasSession(t)' = HasSession(t) /\ Profiled(t)' = Profiled(t)
    BY <1>0, <2>1, <2>2, <2>3 DEF Placed, HasLoan, HasSession, Profiled, BusTyped
  <2>5. Holds(t)' = Holds(t)
    BY <2>1, <2>3, <2>4 DEF Holds, HasLoan
  <2>6. Accessible' = Accessible
    BY <2>1 DEF Accessible, lending
  <2>7. CASE Holds(t)
    <3>1. LentTo(t)'
      BY <1>0, <2>1, <2>3, <2>4, <2>6, <2>7 DEF LentTo, lending, HasSession
    <3> QED BY <2>3, <2>4, <2>5, <2>7, <3>1, HolderKept
  <2>8. CASE ~Holds(t)
    BY <2>1, <2>3, <2>4, <2>5, <2>8, BystanderKept DEF lending
  <2> QED BY <2>7, <2>8
<1>5. CASE InnerBegin(t)
  <2>1. task[t].at = "begin" /\ SessionBegin(t, "body", IF task[t].outer = "none" THEN "idle" ELSE "leave") /\ lost' = lost
    BY <1>5 DEF InnerBegin
  <2> QED BY <2>1, SessionBeginKept
<1>6. ASSUME NEW from, NEW to \in Places, task[t].at = from, Moves(t, to), UNCHANGED <<lending, session, lost>>,
             \/ <<from, to>> \in {<<"body", "flush">>, <<"flush", "end">>, <<"use", "leave">>}
             \/ from = "end" /\ to = "leave" /\ task[t].outer = "session"
             \/ from = "ended" /\ to = "disown" /\ Profiled(t)
      PROVE  Lent'
  <2>1. Goes(t, to)
    BY <1>6, MovesGoes
  <2>2. Placed(t)' /\ HasLoan(t)' = HasLoan(t) /\ HasSession(t)' = HasSession(t)
    BY <1>0, <1>6, <2>1 DEF Goes, Placed, HasLoan, HasSession, Profiled
  <2> QED BY <1>6, <2>1, <2>2, MovesOn
<1>7. CASE Body(t) \/ Flush(t) \/ Use(t)
  BY <1>6, <1>7 DEF Body, Flush, Use, Places
<1>8. CASE InnerEnd(t)
  <2> DEFINE next == IF task[t].outer = "none" THEN "idle" ELSE "leave"
  <2>1. task[t].at = "end" /\ HasSession(t) /\ task[t].nested = (task[t].outer = "session") /\ UNCHANGED <<lending, lost>>
    BY <1>0, <1>8 DEF InnerEnd, HasSession, Placed
  <2>2. CASE task[t].outer = "session"
    BY <1>6, <1>8, <2>1, <2>2 DEF InnerEnd, Places
  <2>3. CASE task[t].outer # "session"
    <3>1. EndsSession(t, next)
      BY <1>8, <2>1, <2>3 DEF InnerEnd
    <3>2. next = IF Profiled(t) THEN "leave" ELSE "idle"
      BY <2>3 DEF Profiled
    <3> QED BY <2>1, <3>1, <3>2, EndsSessionKept
  <2> QED BY <2>2, <2>3
<1>9. CASE OuterEnd(t)
  <2>1. task[t].at = "leave" /\ HasLoan(t) /\ lost' = lost
    BY <1>0, <1>9 DEF OuterEnd, HasLoan, Placed
  <2>2. CASE task[t].outer = "session"
    <3>1. HasSession(t) /\ EndsSession(t, "idle") /\ ~Profiled(t) /\ UNCHANGED lending
      BY <1>9, <2>1, <2>2 DEF OuterEnd, HasSession, Profiled
    <3> QED BY <2>1, <3>1, EndsSessionKept
  <2>3. CASE task[t].outer # "session"
    <3>1. Profiled(t) /\ loan = task[t].outer /\ Release(t, loan, "idle") /\ UNCHANGED session /\ ~HasSession(t)
      BY <1>0, <1>9, <2>1, <2>3 DEF OuterEnd, Profiled, Placed, LentTo, HasSession
    <3> QED BY <2>1, <3>1, ReleaseKept
  <2> QED BY <2>2, <2>3
<1>10. CASE Ended(t)
  <2>1. task[t].at = "ended" /\ HasLoan(t) /\ ~HasSession(t) /\ UNCHANGED <<session, lost>> /\ LentTo(t)
        /\ task[t].back = IF Profiled(t) THEN "leave" ELSE "idle"
    BY <1>0, <1>10 DEF Ended, HasLoan, HasSession, Placed
  <2>2. CASE session.owned
    <3>1. ~Profiled(t) /\ loan = "EXPANDER" /\ Release(t, "EXPANDER", "disown")
      BY <1>10, <2>1, <2>2 DEF Ended, LentTo
    <3> QED BY <2>1, <3>1, ReleaseKept
  <2>3. CASE ~session.owned /\ Profiled(t)
    BY <1>6, <1>10, <2>1, <2>3 DEF Ended, Places
  <2>4. CASE ~session.owned /\ ~Profiled(t)
    <3>1. lost /\ Moves(t, "disown") /\ UNCHANGED lending
      BY <1>10, <2>1, <2>4 DEF Ended, LentTo
    <3>2. Goes(t, "disown")
      BY <3>1, MovesGoes DEF Places
    <3>3. Placed(t)' /\ ~Holds(t)'
      BY <2>1, <2>4, <3>2 DEF Goes, Placed, Holds, HasLoan, Profiled
    <3>4. Open'
      <4>1. session.held = FALSE
        BY <2>1, NotHeld
      <4> QED BY <2>1, <3>1, <4>1 DEF Open, LentTo, Accessible, lending
    <3> QED BY <1>0, <2>1, <3>2, <3>3, <3>4, HolderKept DEF Goes
  <2> QED BY <2>2, <2>3, <2>4
<1>11. CASE Disown(t)
  <2>1. /\ task[t].at = "disown" /\ Moves(t, task[t].back) /\ task[t].back = IF Profiled(t) THEN "leave" ELSE "idle"
        /\ UNCHANGED lending
    BY <1>0, <1>11 DEF Disown, Placed
  <2>2. Goes(t, task[t].back)
    BY <2>1, MovesGoes DEF Places
  <2>3. session'.held = session.held /\ session'.owned = FALSE
    BY <1>11 DEF Disown, BusTyped
  <2>4. lost' = (lost \/ \E u \in Tasks \ {t}: OwnSession(u))
    BY <1>11 DEF Disown
  <2>5. Placed(t)' /\ HasLoan(t)' = Profiled(t) /\ HasLoan(t) = Profiled(t) /\ HasSession(t)' = FALSE
    BY <2>1, <2>2 DEF Goes, Placed, HasLoan, HasSession, Profiled
  <2>6. Holds(t)' = Profiled(t) /\ Holds(t) = Profiled(t)
    <3>1. task[t].at # "give" /\ task'[t].at # "give"
      BY <2>1, <2>2 DEF Goes
    <3>2. Holds(t)' = HasLoan(t)' /\ Holds(t) = HasLoan(t)
      BY <3>1 DEF Holds, HasLoan
    <3> QED BY <2>5, <3>2
  <2>7. CASE Profiled(t)
    <3>1. HasSession(t) = FALSE /\ Profiled(t)' /\ task'[t].outer = task[t].outer /\ task'[t].at = "leave"
      BY <2>1, <2>2, <2>7 DEF Goes, HasSession, Profiled
    <3>2. lost => lost'
      BY <2>4
    <3>3. LentTo(t)'
      BY <1>0, <2>1, <2>3, <2>5, <2>6, <2>7, <3>1, <3>2 DEF LentTo, lending, Accessible
    <3> QED BY <2>2, <2>5, <2>6, <2>7, <3>3, HolderKept DEF Goes
  <2>8. CASE ~Profiled(t)
    <3>1. UNCHANGED <<sem, taken, loan, i2c>>
      BY <2>1 DEF lending
    <3>2. (lost => lost') /\ \A u \in Tasks \ {t}: OwnSession(u) => lost'
      BY <2>4
    <3> QED BY <2>2, <2>3, <2>5, <2>6, <2>8, <3>1, <3>2, BystanderKept DEF Goes
  <2> QED BY <2>7, <2>8
<1>12. CASE GiveSem(t)
  <2>1. task[t].at = "give" /\ Holds(t) /\ ~HasLoan(t) /\ LentTo(t) /\ UNCHANGED <<taken, loan, i2c, session, lost>>
    BY <1>0, <1>12 DEF GiveSem, Holds, HasLoan
  <2>2. PICK at \in {"unmark", "idle", "disown"}:
            /\ Moves(t, at) /\ (at = "disown" => ~Profiled(t) /\ task[t].back = "idle")
            /\ sem' = taken
    <3>1. task[t].then \in {"idle", "disown"} /\ (task[t].then = "disown" => ~Profiled(t) /\ task[t].back = "idle")
      BY <1>0, <2>1 DEF Placed
    <3>2. CASE taken
      BY <1>12, <3>2 DEF GiveSem, BusTyped
    <3>3. CASE ~taken
      BY <1>12, <2>1, <3>1, <3>3 DEF GiveSem, BusTyped, LentTo
    <3> QED BY <3>2, <3>3
  <2>3. Goes(t, at)
    BY <2>2, MovesGoes DEF Places
  <2>4. Placed(t)' /\ ~Holds(t)'
    BY <1>0, <2>1, <2>2, <2>3 DEF Goes, Placed, Holds, HasLoan, Profiled
  <2>5. Open'
    <3>1. session.held = FALSE
      BY <2>1, NotHeld DEF HasSession
    <3> QED BY <2>1, <2>2, <3>1 DEF Open, LentTo, Accessible
  <2> QED BY <2>1, <2>3, <2>4, <2>5, HolderKept DEF Goes
<1>13. CASE Unmark(t)
  <2>1. /\ task[t].at = "unmark" /\ Moves(t, task[t].then) /\ lost' = (lost \/ ~sem) /\ UNCHANGED <<sem, loan, i2c, session>>
        /\ task[t].then \in {"idle", "disown"} /\ (task[t].then = "disown" => ~Profiled(t) /\ task[t].back = "idle")
    BY <1>0, <1>13 DEF Unmark, Placed
  <2>2. Goes(t, task[t].then)
    BY <2>1, MovesGoes DEF Places
  <2>3. Placed(t)' /\ ~Holds(t)' /\ ~Holds(t)
    BY <2>1, <2>2 DEF Goes, Placed, Holds, HasLoan, Profiled
  <2> QED BY <2>1, <2>2, <2>3, BystanderKept DEF Goes
<1> QED BY <1>1, <1>2, <1>3, <1>4, <1>5, <1>7, <1>8, <1>9, <1>10, <1>11, <1>12, <1>13 DEF BusStep

\* A call begins where it can.
LEMMA CallKept ==
    ASSUME BusInv, NEW t \in Tasks, NEW outer \in Loans, NEW inner \in Inners, Call(t, outer, inner)
    PROVE  BusInv'
<1> DEFINE new == [Idle EXCEPT !.at = IF outer = "none" THEN "enter" ELSE "call", !.outer = outer, !.inner = inner]
<1>1. task[t].at = "idle" /\ task' = [task EXCEPT ![t] = new] /\ UNCHANGED <<lending, session, wires, borrowed, lost>>
  BY DEF Call
<1>2. new \in Records /\ new.outer = outer /\ new.at = IF outer = "none" THEN "enter" ELSE "call"
  BY DEF Idle, Places, Records
<1> HIDE DEF new
<1>3. BusTyped' /\ ShownIsWritten'
  BY <1>1, <1>2 DEF BusInv, BusTyped, ShownIsWritten, lending, wires
<1>4. task'[t] = new /\ \A u \in Tasks \ {t}: task'[u] = task[u]
  BY <1>1 DEF BusInv, BusTyped
<1>5. ASSUME Lent PROVE Lent'
  <2>1. ~Holds(t) /\ ~Holds(t)' /\ Placed(t)'
    BY <1>1, <1>2, <1>4 DEF Holds, HasLoan, Placed, Profiled
  <2> QED BY <1>1, <1>4, <1>5, <2>1, BystanderKept DEF lending
<1> QED BY <1>1, <1>3, <1>5 DEF BusInv

-----------------------------------------------------------------------------
\* However many tasks share the pins and wherever each is preempted: as long
\* as none used the loan or the arguments of another, a transfer finds the bus
\* set up and lent, to one task at a time; the expander shows what was written
\* unless a transfer failed; and when all have returned Wi-Fi has its pins and
\* the next loan can be had, unless the end of one loan cleared a mark of the
\* next, s_taken.loan_sem or s_loan_owned, which nothing prevents
\* (wfci_bus_adapter.c, gpio_expander_loan.c, aw9523b.c).
THEOREM BusIsIntact == BusSpec => []BusIntact
<1>1. BusInit => BusInv
  <2> SUFFICES ASSUME BusInit PROVE BusInv
    OBVIOUS
  <2>1. Idle \in Records /\ Idle.at = "idle" /\ Idle.outer = "none"
    BY IdleIsTyped DEF Idle
  <2>2. BusTyped /\ ShownIsWritten
    BY <2>1 DEF BusInit, BusTyped, ShownIsWritten
  <2>3. \A t \in Tasks: Placed(t) /\ ~Holds(t)
    BY <2>1 DEF BusInit, Placed, Holds, HasLoan, Profiled
  <2>4. Open
    BY DEF BusInit, Open, Accessible
  <2> QED BY <2>2, <2>3, <2>4 DEF BusInv, Lent
<1>2. BusInv /\ [BusNext]_busVars => BusInv'
  <2> SUFFICES ASSUME BusInv, [BusNext]_busVars PROVE BusInv'
    OBVIOUS
  <2>1. ASSUME NEW t \in Tasks, BusStep(t) PROVE BusInv'
    <3>1. borrowed => borrowed'
      BY <2>1 DEF BusStep, OuterBegin, SessionBegin, Marked, Enter, InnerBegin, Body, Flush, InnerEnd, Use, OuterEnd, Ended, Disown,
         GiveSem, Unmark
    <3> QED BY <2>1, <3>1, BusTypesKept, ShownKept, StepLends DEF BusInv
  <2>2. ASSUME NEW t \in Tasks, NEW o \in Loans, NEW i \in (Pins \X BOOLEAN) \cup {"inputs", None}, Call(t, o, i) PROVE BusInv'
    BY <2>2, CallKept DEF Inners
  <2>3. CASE UNCHANGED busVars
    <3>1. UNCHANGED <<sem, taken, loan, i2c, session, shadow, chip, task, borrowed, lost>>
      BY <2>3 DEF busVars, lending, wires
    <3>2. BusTyped' /\ ShownIsWritten'
      BY <3>1 DEF BusInv, BusTyped, ShownIsWritten
    <3>3. Lent' = Lent
      BY <3>1 DEF Lent, LentTo, Open, Placed, Profiled, Holds, HasLoan, HasSession, Accessible
    <3> QED BY <3>1, <3>2, <3>3 DEF BusInv
  <2> QED BY <2>1, <2>2, <2>3 DEF BusNext
<1>3. BusInv => BusIntact
  <2> SUFFICES ASSUME BusInv, ~borrowed PROVE BusIntact
    BY DEF BusIntact
  <2>1. \A t \in Tasks: Using(t) => Holds(t)
    BY DEF BusInv, Lent, Using, Holds, HasLoan, Placed, Profiled
  <2>2. AllReturned => lost \/ Returned
    <3>1. AllReturned => \A t \in Tasks: ~Holds(t)
      BY DEF AllReturned, Holds, HasLoan
    <3> QED BY <3>1 DEF BusInv, Lent, Open, Returned, Accessible
  <2>3. ASSUME NEW t \in Tasks, task[t].at = "flush" PROVE i2c /\ Accessible
    <3>1. HasSession(t) /\ LentTo(t)
      BY <2>1, <2>3 DEF HasSession, Using, BusInv, Lent
    <3> QED BY <3>1 DEF LentTo
  <2>4. \A t, u \in Tasks: Using(t) /\ Using(u) => t = u
    BY <2>1 DEF BusInv, Lent
  <2> QED BY <2>2, <2>3, <2>4 DEF BusInv, BusIntact, ShownIsWritten
<1> QED BY <1>1, <1>2, <1>3, PTL DEF BusSpec

-----------------------------------------------------------------------------
(***************************************************************************)
(* Clock: how long the schedule was without the time follows from the      *)
(* attempts that were started in a row and the age of the last of them;    *)
(* which rule is cached, from the place of the one edit there is.          *)
(***************************************************************************)
(* The attempt, the request of the SNTP client, the rules and their editors.*)
Attempt == [st: {"UNKNOWN", "SYNCING", "SYNCED"}, wifi: BOOLEAN, last: Nat \cup {None}, retry: Nat \cup {None}]
Request == [started: BOOLEAN, done: BOOLEAN, ok: BOOLEAN, age: 0..Timeout]
ClockTyped ==
    /\ sync \in Attempt /\ sntp \in Request
    /\ edit \in [Editors -> [at: {"idle", "default", "parse"}, to: Zones \cup {None}]]
    /\ zone = [stored |-> zone.stored, cached |-> zone.cached]
    /\ watch \in [blind: Nat, starts: Nat, stuck: BOOLEAN, overlapped: BOOLEAN]
(* A request is part of an attempt, an attempt has a request unless it is   *)
(* stuck; the clock was set if it is synced, and never if it is unknown;    *)
(* and what was never begun needs Wi-Fi, which never goes.                  *)
AttemptAsks ==
    /\ sntp.started => sync.st = "SYNCING"
    /\ watch.stuck => sync.st = "SYNCING" /\ ~sntp.started
    /\ sync.st = "SYNCING" => sync.wifi /\ (sntp.started \/ watch.stuck)
    /\ sync.st = "SYNCED" => sync.wifi /\ sync.last # None
    /\ sync.st = "UNKNOWN" => sync.last = None /\ (sync.wifi => sync.retry # None)
(* The schedule was without the clock for the attempts that were started in *)
(* a row and as long as the last of them waits.                             *)
Waited == IF sntp.started THEN sntp.age ELSE Timeout + 1
BlindWhileAsked == watch.blind <= Waited + (Timeout + 1) * watch.starts
(* Unless edits overlapped there is one, of the rule stored last.           *)
Edited(e) == edit[e].at # "idle"
OneEdits ==
    \/ watch.overlapped
    \/ /\ \A e, f \in Editors: Edited(e) /\ Edited(f) => e = f
       /\ \A e \in Editors: Edited(e) => edit[e].to = zone.stored
       /\ (\A e \in Editors: ~Edited(e)) => zone.cached = zone.stored
ClockInv == ClockTyped /\ AttemptAsks /\ BlindWhileAsked /\ OneEdits

-----------------------------------------------------------------------------
\* An attempt and a request, field by field.
LEMMA AttemptIs ==
    ASSUME NEW s, s \in Attempt
    PROVE  /\ s = [st |-> s.st, wifi |-> s.wifi, last |-> s.last, retry |-> s.retry]
           /\ s.wifi \in BOOLEAN /\ s.last \in Nat \cup {None} /\ s.retry \in Nat \cup {None}
BY DEF Attempt
LEMMA RequestIs ==
    ASSUME NEW r, r \in Request
    PROVE  /\ r = [started |-> r.started, done |-> r.done, ok |-> r.ok, age |-> r.age]
           /\ r.started \in BOOLEAN /\ r.done \in BOOLEAN /\ r.ok \in BOOLEAN /\ r.age \in 0..Timeout
BY DEF Request
LEMMA AttemptOf ==
    ASSUME NEW st \in {"UNKNOWN", "SYNCING", "SYNCED"}, NEW wifi \in BOOLEAN,
           NEW last \in Nat \cup {None}, NEW retry \in Nat \cup {None}
    PROVE  [st |-> st, wifi |-> wifi, last |-> last, retry |-> retry] \in Attempt
BY DEF Attempt
LEMMA SuccessIs ==
    ASSUME NEW s \in Attempt
    PROVE  /\ Succeeded(s) \in Attempt
           /\ Succeeded(s).st = "SYNCED" /\ Succeeded(s).wifi = s.wifi /\ Succeeded(s).last = 0
<1>1. ASSUME NEW last, last \in Nat \cup {None}, NEW t, t = [s EXCEPT !.st = "SYNCED", !.last = last, !.retry = None]
      PROVE  t \in Attempt /\ t.st = "SYNCED" /\ t.wifi = s.wifi /\ t.last = last
  BY <1>1 DEF Attempt
<1> QED BY <1>1 DEF Succeeded
LEMMA RequestOf ==
    ASSUME NEW started \in BOOLEAN, NEW done \in BOOLEAN, NEW ok \in BOOLEAN, NEW age \in 0..Timeout
    PROVE  [started |-> started, done |-> done, ok |-> ok, age |-> age] \in Request
BY DEF Request

\* time_adapter_request_sync
LEMMA AsksRequest ==
    ASSUME NEW s, Asks(s)
    PROVE  sntp' = [started |-> TRUE, done |-> FALSE, ok |-> FALSE, age |-> 0] /\ sntp' \in Request
<1>1. sntp' = [started |-> TRUE, done |-> FALSE, ok |-> FALSE, age |-> 0]
  BY DEF Asks, Unasked
<1>2. 0 \in 0..Timeout
  BY TicksAreNatural
<1> QED BY <1>1, <1>2, RequestOf

-----------------------------------------------------------------------------
\* One more request allows for the time of one more attempt.
LEMMA OneMoreAttempt ==
    ASSUME NEW n \in Nat
    PROVE  /\ (Timeout + 1) * n \in Nat
           /\ (Timeout + 1) * (n + 1) = (Timeout + 1) * n + (Timeout + 1)
BY TicksAreNatural

\* The ages of the last success and of the next retry stay what they are.
LEMMA AgesKept ==
    ASSUME NEW n \in Nat \cup {None}
    PROVE  /\ Passed(n) \in Nat \cup {None} /\ Left(n) \in Nat \cup {None}
           /\ (Passed(n) = None <=> n = None) /\ (Left(n) = None <=> n = None)
BY NoneIsNoNumber DEF Passed, Left

\* What every step but one of the clock leaves: the rules (time_config_apply).
LEMMA RulesRest ==
    ASSUME OneEdits, UNCHANGED <<zone, edit>>, watch'.overlapped = watch.overlapped
    PROVE  OneEdits'
BY DEF OneEdits, Edited

\* A request of Wi-Fi or the console is counted (time_sync_start,
\* time_sync_request_now).
LEMMA AskedKept ==
    ASSUME ClockInv, ~sntp.started, Noted, UNCHANGED <<zone, edit>>,
           sntp' = [Unasked EXCEPT !.started = TRUE],
           sync' = [sync EXCEPT !.st = "SYNCING", !.wifi = TRUE, !.retry = None]
    PROVE  ClockInv'
<1> USE DEF ClockInv, ClockTyped
<1>1. watch' = [watch EXCEPT !.starts = watch.starts + 1, !.stuck = FALSE]
  BY DEF Noted
<1>2. sntp' = [started |-> TRUE, done |-> FALSE, ok |-> FALSE, age |-> 0]
  BY DEF Unasked
<1>3. ClockTyped'
  <2>1. sync = [st |-> sync.st, wifi |-> sync.wifi, last |-> sync.last, retry |-> sync.retry] /\ sync.last \in Nat \cup {None}
    BY AttemptIs
  <2>2. sync' = [st |-> "SYNCING", wifi |-> TRUE, last |-> sync.last, retry |-> None]
    BY <2>1
  <2>3. sync' \in Attempt /\ sntp' \in Request
    <3>1. 0 \in 0..Timeout
      BY TicksAreNatural
    <3>2. sync' \in Attempt
      <4>1. [st |-> "SYNCING", wifi |-> TRUE, last |-> sync.last, retry |-> None] \in Attempt
        BY <2>1 DEF Attempt
      <4> QED BY <2>2, <4>1
    <3> QED BY <1>2, <3>1, <3>2, RequestOf
  <2>4. watch' \in [blind: Nat, starts: Nat, stuck: BOOLEAN, overlapped: BOOLEAN]
    <3>1. watch = [blind |-> watch.blind, starts |-> watch.starts, stuck |-> watch.stuck, overlapped |-> watch.overlapped]
      OBVIOUS
    <3>2. watch' = [blind |-> watch.blind, starts |-> watch.starts + 1, stuck |-> FALSE, overlapped |-> watch.overlapped]
      BY <1>1, <3>1
    <3> QED BY <3>2
  <2> QED BY <2>3, <2>4
<1>6. AttemptAsks'
  BY <1>1, <1>2 DEF AttemptAsks, Attempt
<1>4. BlindWhileAsked'
  BY <1>1, <1>2, OneMoreAttempt, TicksAreNatural DEF BlindWhileAsked, Waited
<1>5. OneEdits'
  BY <1>1, RulesRest
<1> QED BY <1>3, <1>4, <1>5, <1>6

\* EVT_WIFI_STA_READY
LEMMA WifiReadyKept == ASSUME ClockInv, WifiReady PROVE ClockInv'
<1> USE DEF ClockInv, ClockTyped
<1>1. CASE ~sntp.started
  <2>1. sync' = [sync EXCEPT !.st = "SYNCING", !.wifi = TRUE, !.retry = None]
    BY <1>1 DEF WifiReady, Starts, Asks
  <2> QED BY <1>1, <2>1, AskedKept DEF WifiReady, Starts, Asks
<1>2. CASE sntp.started
  <2>1. /\ sync' = [sync EXCEPT !.wifi = TRUE, !.retry = None]
        /\ watch' = [watch EXCEPT !.stuck = FALSE] /\ UNCHANGED <<sntp, zone, edit>>
    BY <1>2 DEF WifiReady, Starts, Noted
  <2> QED BY <1>2, <2>1, RulesRest DEF AttemptAsks, BlindWhileAsked, Waited, Attempt
<1> QED BY <1>1, <1>2

LEMMA RequestNowKept == ASSUME ClockInv, RequestNow PROVE ClockInv'
<1>1. sync' = [sync EXCEPT !.st = "SYNCING", !.wifi = TRUE, !.retry = None]
  BY DEF RequestNow, Asks, ClockInv, ClockTyped
<1> QED BY <1>1, AskedKept DEF RequestNow, Asks

LEMMA AnswerKept == ASSUME ClockInv, Answer PROVE ClockInv'
<1>1. sntp' = [sntp EXCEPT !.done = TRUE, !.ok = TRUE] /\ UNCHANGED <<sync, zone, edit, watch>>
  BY DEF Answer
<1>2. OneEdits'
  BY <1>1, RulesRest DEF ClockInv
<1>3. sntp \in Request /\ sntp = [started |-> sntp.started, done |-> sntp.done, ok |-> sntp.ok, age |-> sntp.age]
  BY RequestIs DEF ClockInv, ClockTyped
<1>4. sntp' = [started |-> sntp.started, done |-> TRUE, ok |-> TRUE, age |-> sntp.age]
  BY <1>1, <1>3
<1>5. sntp' \in Request
  BY <1>3, <1>4, RequestOf, RequestIs DEF Answer
<1> QED BY <1>1, <1>2, <1>4, <1>5 DEF ClockInv, ClockTyped, AttemptAsks, BlindWhileAsked, Waited

-----------------------------------------------------------------------------
\* What time_sync_poll makes of an attempt and of its request.
Polled(s) ==
    \/ sync' = s /\ sntp' = sntp /\ (s.st = "SYNCING" => ~sntp.started)
    \/ s.st = "SYNCING" /\ sntp.started /\ sntp.age < Timeout /\ sync' = s /\ sntp' = [sntp EXCEPT !.age = @ + 1]
    \/ s.st = "SYNCING" /\ sntp.started /\ sync' = Failed(s) /\ sntp' = [sntp EXCEPT !.started = FALSE, !.done = TRUE]
    \/ s.st = "SYNCING" /\ sntp.started /\ sync' \in {s, Succeeded(s)} /\ sntp' = [sntp EXCEPT !.started = FALSE]
    \/ s.st = "SYNCED" /\ ~sntp.started /\ Asks(s)
    \/ s.st = "UNKNOWN" /\ s.wifi /\ ~sntp.started /\ Asks([s EXCEPT !.retry = None])

LEMMA SyncPollsPolled ==
    ASSUME ClockInv, NEW s, s = [sync EXCEPT !.last = Passed(@), !.retry = Left(@)], SyncPolls(s)
    PROVE  Polled(s)
<1>1. s.st = sync.st /\ s.wifi = sync.wifi
  BY DEF ClockInv, ClockTyped
<1>2. s.st = "SYNCING" => s.wifi
  BY <1>1 DEF ClockInv, AttemptAsks
<1>3. s.st # "SYNCING" => ~sntp.started
  BY <1>1 DEF ClockInv, AttemptAsks
<1> QED BY <1>1, <1>2, <1>3 DEF SyncPolls, PollSync, Polled, Starts

\* What becomes of the attempt and of the request, field by field.
LEMMA PolledInto ==
    ASSUME NEW s \in Attempt, sntp \in Request, Polled(s), s.st = "SYNCING" => s.wifi,
           s.st = "SYNCED" => s.wifi /\ s.last # None, s.st = "UNKNOWN" => s.last = None /\ (s.wifi => s.retry # None),
           sntp.started => s.st = "SYNCING"
    PROVE  /\ sync' \in Attempt /\ sntp' \in Request
           /\ sntp'.started => sync'.st = "SYNCING"
           /\ s.st = "SYNCING" /\ sntp'.started => sntp'.age = sntp.age + 1
           /\ sync'.st = "SYNCING" => sync'.wifi /\ (s.st = "SYNCING" \/ sntp'.started)
           /\ sync'.st = "SYNCED" => sync'.wifi /\ sync'.last # None
           /\ sync'.st = "UNKNOWN" => sync'.last = None /\ (sync'.wifi => sync'.retry # None)
           /\ s.st = "SYNCING" /\ ~sntp.started => sync'.st = "SYNCING" /\ ~sntp'.started
<1>0. /\ s = [st |-> s.st, wifi |-> s.wifi, last |-> s.last, retry |-> s.retry]
      /\ s.wifi \in BOOLEAN /\ s.last \in Nat \cup {None} /\ s.retry \in Nat \cup {None}
      /\ sntp = [started |-> sntp.started, done |-> sntp.done, ok |-> sntp.ok, age |-> sntp.age]
      /\ sntp.started \in BOOLEAN /\ sntp.done \in BOOLEAN /\ sntp.ok \in BOOLEAN /\ sntp.age \in 0..Timeout
  BY AttemptIs, RequestIs
<1>1. CASE sync' = s /\ sntp' = sntp /\ (s.st = "SYNCING" => ~sntp.started)
  BY <1>1
<1>2. CASE s.st = "SYNCING" /\ sntp.started /\ sntp.age < Timeout /\ sync' = s /\ sntp' = [sntp EXCEPT !.age = @ + 1]
  <2>1. sntp' = [started |-> sntp.started, done |-> sntp.done, ok |-> sntp.ok, age |-> sntp.age + 1]
    BY <1>0, <1>2
  <2>2. sntp' \in Request
    <3>1. sntp.age + 1 \in 0..Timeout
      BY <1>0, <1>2, TicksAreNatural
    <3> QED BY <1>0, <2>1, <3>1, RequestOf
  <2> QED BY <1>2, <2>1, <2>2
<1>3. CASE s.st = "SYNCING" /\ sntp.started /\ sync' = Failed(s)
           /\ sntp' = [sntp EXCEPT !.started = FALSE, !.done = TRUE]
  <2>1. sntp' = [started |-> FALSE, done |-> TRUE, ok |-> sntp.ok, age |-> sntp.age]
    BY <1>0, <1>3
  <2>2. sntp' \in Request
    BY <1>0, <2>1, RequestOf
  <2>3. CASE s.last # None
    <3>1. sync' = [st |-> "SYNCED", wifi |-> s.wifi, last |-> s.last, retry |-> s.retry]
      BY <1>0, <1>3, <2>3 DEF Failed
    <3> QED BY <1>0, <1>3, <2>1, <2>2, <2>3, <3>1, AttemptOf
  <2>4. CASE s.last = None
    <3>1. sync' = [st |-> "UNKNOWN", wifi |-> s.wifi, last |-> s.last, retry |-> Retry]
      BY <1>0, <1>3, <2>4 DEF Failed
    <3> QED BY <1>0, <1>3, <2>1, <2>2, <2>4, <3>1, AttemptOf, TicksAreNatural, NoneIsNoNumber
  <2> QED BY <2>3, <2>4
<1>4. CASE s.st = "SYNCING" /\ sntp.started /\ sync' \in {s, Succeeded(s)} /\ sntp' = [sntp EXCEPT !.started = FALSE]
  <2>1. sntp' = [started |-> FALSE, done |-> sntp.done, ok |-> sntp.ok, age |-> sntp.age]
    BY <1>0, <1>4
  <2>2. sntp' \in Request
    BY <1>0, <2>1, RequestOf
  <2>3. Succeeded(s) \in Attempt /\ Succeeded(s).st = "SYNCED" /\ Succeeded(s).wifi = s.wifi /\ Succeeded(s).last = 0
    BY SuccessIs
  <2> QED BY <1>0, <1>4, <2>1, <2>2, <2>3, NoneIsNoNumber
<1>5. CASE s.st = "SYNCED" /\ ~sntp.started /\ Asks(s)
  <2>1. sync' = [st |-> "SYNCING", wifi |-> s.wifi, last |-> s.last, retry |-> s.retry]
    BY <1>0, <1>5 DEF Asks
  <2>2. sync' \in Attempt
    BY <1>0, <2>1, AttemptOf
  <2> QED BY <1>5, <2>1, <2>2, AsksRequest
<1>6. CASE s.st = "UNKNOWN" /\ s.wifi /\ ~sntp.started /\ Asks([s EXCEPT !.retry = None])
  <2>1. sync' = [st |-> "SYNCING", wifi |-> s.wifi, last |-> s.last, retry |-> None]
    BY <1>0, <1>6 DEF Asks
  <2>2. sync' \in Attempt
    BY <1>0, <2>1, AttemptOf
  <2> QED BY <1>6, <2>1, <2>2, AsksRequest
<1> QED BY <1>1, <1>2, <1>3, <1>4, <1>5, <1>6 DEF Polled

\* EVT_TIMER_TICK: the schedule reads the clock, then the attempt goes on.
LEMMA ClockTickKept == ASSUME ClockInv, ClockTick PROVE ClockInv'
<1> DEFINE s == [sync EXCEPT !.last = Passed(@), !.retry = Left(@)]
           blind == IF Valid \/ sync.last = None THEN 0 ELSE watch.blind + 1
<1> USE DEF ClockInv
<1>1. /\ s \in Attempt
      /\ s.st = sync.st /\ s.wifi = sync.wifi
      /\ (s.last = None <=> sync.last = None) /\ (s.retry = None <=> sync.retry = None)
  BY AgesKept DEF ClockTyped, Attempt
<1>2. Polled(s) /\ UNCHANGED <<zone, edit>>
  BY SyncPollsPolled DEF ClockTick
<1>3. watch' = [watch EXCEPT !.blind = IF watch.stuck THEN 0 ELSE blind,
                             !.starts = IF blind = 0 THEN 0 ELSE @,
                             !.stuck = @ \/ (sync.st = "SYNCING" /\ ~sntp'.started /\ sync'.st = "SYNCING")]
  BY DEF ClockTick
<1>4. blind \in Nat
  BY DEF ClockTyped
<1> HIDE DEF s, blind
<1>5. /\ watch'.blind = (IF watch.stuck THEN 0 ELSE blind) /\ watch'.starts = (IF blind = 0 THEN 0 ELSE watch.starts)
      /\ watch'.overlapped = watch.overlapped
      /\ watch'.stuck = (watch.stuck \/ (sync.st = "SYNCING" /\ ~sntp'.started /\ sync'.st = "SYNCING"))
  BY <1>3 DEF ClockTyped
<1>6. watch'.stuck \in BOOLEAN
  BY <1>5, Zenon
<1>7. watch' \in [blind: Nat, starts: Nat, stuck: BOOLEAN, overlapped: BOOLEAN]
  BY <1>3, <1>4, <1>5, <1>6 DEF ClockTyped
<1>8. OneEdits'
  BY <1>2, <1>5, RulesRest
<1>9. /\ sync' \in Attempt /\ sntp' \in Request
      /\ sntp'.started => sync'.st = "SYNCING"
      /\ s.st = "SYNCING" /\ sntp'.started => sntp'.age = sntp.age + 1
      /\ sync'.st = "SYNCING" => sync'.wifi /\ (s.st = "SYNCING" \/ sntp'.started)
      /\ sync'.st = "SYNCED" => sync'.wifi /\ sync'.last # None
      /\ sync'.st = "UNKNOWN" => sync'.last = None /\ (sync'.wifi => sync'.retry # None)
      /\ s.st = "SYNCING" /\ ~sntp.started => sync'.st = "SYNCING" /\ ~sntp'.started
  BY <1>1, <1>2, PolledInto DEF ClockTyped, AttemptAsks
<1>11. ClockTyped'
  BY <1>2, <1>7, <1>9 DEF ClockTyped
<1>12. AttemptAsks'
  BY <1>1, <1>5, <1>9 DEF AttemptAsks
<1>13. BlindWhileAsked'
  <2>1. Waited' \in Nat /\ (Timeout + 1) * watch'.starts \in Nat
    BY <1>7, <1>9, OneMoreAttempt, TicksAreNatural DEF Waited, Request
  <2>2. CASE watch'.blind = 0
    BY <2>1, <2>2 DEF BlindWhileAsked
  <2>3. CASE watch'.blind # 0
    <3>1. watch'.blind = watch.blind + 1 /\ ~watch.stuck /\ sync.last # None /\ sync.st = "SYNCING" /\ sntp.started
      BY <1>5, <2>3 DEF blind, AttemptAsks, Valid, ClockTyped, Attempt
    <3>2. watch'.starts = watch.starts
      BY <1>5, <2>3
    <3>3. Waited' >= sntp.age + 1
      <4>1. sntp'.started => sntp'.age = sntp.age + 1
        BY <1>1, <1>9, <3>1
      <4> QED BY <4>1, TicksAreNatural DEF Waited, ClockTyped, Request
    <3> QED BY <2>1, <3>1, <3>2, <3>3, TicksAreNatural DEF BlindWhileAsked, Waited, ClockTyped, Request
  <2> QED BY <2>2, <2>3
<1> QED BY <1>8, <1>11, <1>12, <1>13

-----------------------------------------------------------------------------
\* The three steps of storing a rule leave the attempt alone.
LEMMA ApplyKept == ASSUME ClockInv, NEW e \in Editors, NEW z \in Zones, Apply(e, z) PROVE ClockInv'
<1> USE DEF ClockInv
<1>1. CASE UNCHANGED <<zone, edit, watch>>
  BY <1>1 DEF Apply, ClockTyped, AttemptAsks, BlindWhileAsked, Waited, OneEdits, Edited
<1>2. CASE /\ zone' = [zone EXCEPT !.stored = z] /\ edit' = [edit EXCEPT ![e] = [at |-> "default", to |-> z]]
           /\ watch' = [watch EXCEPT !.overlapped = @ \/ \E x \in Editors: edit[x].at # "idle"]
  <2>1. watch'.overlapped = (watch.overlapped \/ \E x \in Editors: edit[x].at # "idle")
    BY <1>2 DEF ClockTyped
  <2>2. watch'.overlapped \in BOOLEAN
    BY <2>1, Zenon
  <2>3. watch' = [blind |-> watch.blind, starts |-> watch.starts, stuck |-> watch.stuck, overlapped |-> watch'.overlapped]
    BY <1>2 DEF ClockTyped
  <2>4. UNCHANGED <<sync, sntp>>
    BY DEF Apply
  <2>5. ClockTyped'
    BY <1>2, <2>2, <2>3, <2>4 DEF ClockTyped
  <2>6. AttemptAsks' /\ BlindWhileAsked'
    BY <2>3, <2>4 DEF AttemptAsks, BlindWhileAsked, Waited
  <2>7. OneEdits'
    <3>1. CASE watch'.overlapped
      BY <3>1 DEF OneEdits
    <3>2. CASE ~watch'.overlapped
      <4>1. \A x \in Editors: ~Edited(x)
        BY <2>1, <3>2, Zenon DEF Edited
      <4>2. /\ edit'[e] = [at |-> "default", to |-> z] /\ zone'.stored = z
            /\ \A x \in Editors \ {e}: edit'[x] = edit[x]
        BY <1>2 DEF ClockTyped
      <4>3. \A x \in Editors: Edited(x)' => x = e
        BY <4>1, <4>2 DEF Edited
      <4>4. Edited(e)' /\ edit'[e].to = zone'.stored
        BY <4>2 DEF Edited
      <4> QED BY <4>3, <4>4 DEF OneEdits
    <3> QED BY <3>1, <3>2
  <2> QED BY <2>5, <2>6, <2>7
<1> QED BY <1>1, <1>2 DEF Apply

LEMMA CacheDefaultKept == ASSUME ClockInv, NEW e \in Editors, CacheDefault(e) PROVE ClockInv'
<1>1. /\ zone' = [zone EXCEPT !.cached = Default] /\ edit' = [edit EXCEPT ![e].at = "parse"]
      /\ UNCHANGED <<sync, sntp, watch>> /\ edit[e].at = "default"
  BY DEF CacheDefault
<1>2. /\ edit'[e].at = "parse" /\ edit'[e].to = edit[e].to /\ \A x \in Editors \ {e}: edit'[x] = edit[x]
      /\ zone'.stored = zone.stored
  BY <1>1 DEF ClockInv, ClockTyped
<1>3. \A x \in Editors: Edited(x)' = Edited(x) /\ edit'[x].to = edit[x].to
  BY <1>1, <1>2 DEF Edited
<1>4. Edited(e)
  BY <1>1 DEF Edited
<1>5. OneEdits'
  BY <1>1, <1>2, <1>3, <1>4 DEF ClockInv, OneEdits
<1> QED BY <1>1, <1>5 DEF ClockInv, ClockTyped, AttemptAsks, BlindWhileAsked, Waited

LEMMA CacheParsedKept == ASSUME ClockInv, NEW e \in Editors, CacheParsed(e) PROVE ClockInv'
<1>1. /\ zone' = [zone EXCEPT !.cached = edit[e].to] /\ edit' = [edit EXCEPT ![e] = Resting]
      /\ UNCHANGED <<sync, sntp, watch>> /\ edit[e].at = "parse"
  BY DEF CacheParsed, ParsedInto
<1>2. /\ edit'[e].at = "idle" /\ \A x \in Editors \ {e}: edit'[x] = edit[x]
      /\ zone'.stored = zone.stored /\ zone'.cached = edit[e].to
  BY <1>1 DEF ClockInv, ClockTyped, Resting
<1>3. Edited(e)
  BY <1>1 DEF Edited
<1>4. ASSUME ~watch.overlapped PROVE \A x \in Editors: ~Edited(x)'
  BY <1>2, <1>3, <1>4 DEF ClockInv, OneEdits, Edited
<1>5. OneEdits'
  BY <1>1, <1>2, <1>3, <1>4 DEF ClockInv, OneEdits
<1> QED BY <1>1, <1>5 DEF ClockInv, ClockTyped, AttemptAsks, BlindWhileAsked, Waited, Resting

\* Where the clock begins, at the first boot and at every other.
LEMMA BeginsKept ==
    ASSUME sync = [st |-> "UNKNOWN", wifi |-> FALSE, last |-> None, retry |-> None], sntp = Unasked,
           edit = [e \in Editors |-> Resting], zone = [stored |-> zone.stored, cached |-> zone.stored],
           watch = [blind |-> 0, starts |-> 0, stuck |-> FALSE, overlapped |-> FALSE]
    PROVE  ClockInv
BY TicksAreNatural, OneMoreAttempt
DEF ClockInv, ClockTyped, AttemptAsks, BlindWhileAsked, Waited, OneEdits, Edited, Unasked, Resting, Attempt, Request

-----------------------------------------------------------------------------
\* Once it was set, the schedule is without the clock for no longer than the
\* attempts take that were started in a row; an attempt waits for a request or
\* is stuck; a clock never set will be tried again; and the cached rule is the
\* stored one when nobody stores one, but after edits that overlapped
\* (time_sync.c, time_adapter.c, tz_rule.c, time_config.c).
THEOREM ClockIsKept == ClockSpec => []ClockKept
<1>1. ClockInit => ClockInv
  <2> SUFFICES ASSUME ClockInit PROVE ClockInv
    OBVIOUS
  <2>1. zone = [stored |-> zone.stored, cached |-> zone.stored]
    BY DEF ClockInit
  <2> QED BY <2>1, BeginsKept DEF ClockInit
<1>2. ClockInv /\ [ClockNext]_clockVars => ClockInv'
  <2> SUFFICES ASSUME ClockInv, [ClockNext]_clockVars PROVE ClockInv'
    OBVIOUS
  <2>1. CASE Restart
    <3>1. zone' = [stored |-> zone'.stored, cached |-> zone'.stored]
      BY <2>1 DEF Restart, ClockInv, ClockTyped
    <3>2. /\ sync' = [st |-> "UNKNOWN", wifi |-> FALSE, last |-> None, retry |-> None] /\ sntp' = Unasked
          /\ edit' = [e \in Editors |-> Resting]
          /\ watch' = [blind |-> 0, starts |-> 0, stuck |-> FALSE, overlapped |-> FALSE]
      BY <2>1 DEF Restart
    <3> QED BY <3>1, <3>2, TicksAreNatural, OneMoreAttempt
            DEF ClockInv, ClockTyped, AttemptAsks, BlindWhileAsked, Waited, OneEdits, Edited, Unasked, Resting, Attempt, Request
  <2>2. CASE UNCHANGED clockVars
    BY <2>2 DEF clockVars, ClockInv, ClockTyped, AttemptAsks, BlindWhileAsked, Waited, OneEdits, Edited
  <2> QED BY <2>1, <2>2, WifiReadyKept, RequestNowKept, AnswerKept, ClockTickKept, ApplyKept, CacheDefaultKept,
             CacheParsedKept DEF ClockNext
<1>3. ClockInv => ClockKept
  <2> SUFFICES ASSUME ClockInv PROVE ClockKept
    OBVIOUS
  <2>1. watch.blind <= (Timeout + 1) * (watch.starts + 1)
    <3>1. Waited <= Timeout + 1 /\ Waited \in Nat
      BY TicksAreNatural DEF Waited, ClockInv, ClockTyped, Request
    <3> QED BY <3>1, OneMoreAttempt, TicksAreNatural DEF ClockInv, ClockTyped, BlindWhileAsked
  <2>2. (\A e \in Editors: edit[e].at = "idle") => zone.cached = zone.stored \/ watch.overlapped
    BY DEF ClockInv, OneEdits, Edited
  <2> QED BY <2>1, <2>2 DEF ClockInv, ClockKept, ClockServes, NeverGivesUp, AttemptAsks
<1> QED BY <1>1, <1>2, <1>3, PTL DEF ClockSpec

-----------------------------------------------------------------------------
(***************************************************************************)
(* Weighing: the weight that is shown goes back to the correction made     *)
(* when the bowl last rested, so that the drift since then and what was    *)
(* eaten or fed since are all that parts it from the load.                 *)
(***************************************************************************)
(* The values of the state.                                                 *)
Worlds == [food: Int, bowl: BOOLEAN, drift: -MaxDrift..MaxDrift]
Scales == {"cold", "powered", "settling", "ready", "off"}
Samples == [boot: {"pending", "settling", "done"}, dg: Int, valid: BOOLEAN, dispensing: BOOLEAN, resample: BOOLEAN]
Tares == [stable: Int, offset: Int, ok: BOOLEAN, pending: BOOLEAN, prev: Int \cup {None}, quiet: 0..Streak,
          error: {None, "none", "missing", "span", "incomplete"}]
Pasts == [seen: Int, at: Int, from: Int, kept: BOOLEAN, lag: Nat, away: BOOLEAN, torn: BOOLEAN]
Weights == Nat \cup {None}
Keys == [zero: Weights, spanG: Weights, spanRaw: Weights]
WeighTyped ==
    /\ world \in Worlds /\ scale \in Scales /\ app \in Samples /\ tare \in Tares /\ past \in Pasts
    /\ cal \in [zero: Weights, span: Weights] /\ flash \in Keys
    /\ bench \in BOOLEAN /\ spent \in Nat
(* An anchor is there or wanted; a scale settles for who waits.             *)
TareOK(t) == t.ok = ~t.pending
SettlesForSome == scale = "settling" => bench \/ app.boot = "settling"
(* What the panel shows goes back to the reading of the last correction:    *)
(* the load of that reading, and the drift there was.                       *)
Corrected == tare.stable - tare.offset - past.from
SampleIsSeen == app.valid => app.dg = past.seen + world.drift
AnchorHolds ==
    past.kept /\ tare.ok => /\ Corrected \in -MaxDrift..MaxDrift
                            /\ world.drift - Corrected \in -(Rate * past.lag)..(Rate * past.lag)
(* In flash as in use, the span belongs to the zero.                        *)
FlashOfItsZero ==
    /\ cal.zero = flash.zero
    /\ cal.span # None => cal.span = cal.zero \/ past.torn
    /\ flash.spanRaw # None => flash.spanRaw = flash.zero \/ past.torn
WeighInv ==
    /\ WeighTyped /\ TareOK(tare) /\ SettlesForSome
    /\ SampleIsSeen /\ AnchorHolds
    /\ NoAnchorWithoutBowl /\ FlashOfItsZero

-----------------------------------------------------------------------------
\* The steps of auto_tare.c, field by field.
LEMMA UntrackedIs ==
    ASSUME NEW t \in Tares
    PROVE  /\ Untracked(t) \in Tares
           /\ Untracked(t).stable = t.stable /\ Untracked(t).offset = t.offset /\ Untracked(t).ok = t.ok
           /\ Untracked(t).pending = t.pending /\ Untracked(t).error = t.error /\ Untracked(t).prev = None
<1>1. ASSUME NEW quiet \in 0..Streak, NEW u, u = [t EXCEPT !.prev = None, !.quiet = quiet]
      PROVE  /\ u \in Tares /\ u.prev = None
             /\ u.stable = t.stable /\ u.offset = t.offset /\ u.ok = t.ok /\ u.pending = t.pending /\ u.error = t.error
  BY <1>1 DEF Tares
<1>2. 0 \in 0..Streak
  BY RatesAreNatural
<1> QED BY <1>1, <1>2 DEF Untracked

LEMMA AnchorIs ==
    ASSUME NEW t \in Tares, NEW dg \in Int
    PROVE  /\ Anchor(t, dg) \in Tares /\ Anchor(t, dg).stable = dg /\ Anchor(t, dg).offset = 0
           /\ Anchor(t, dg).ok = TRUE /\ Anchor(t, dg).pending = FALSE
           /\ Anchor(t, dg).error = t.error /\ Anchor(t, dg).prev = None
<1>1. ASSUME NEW zero \in Int, NEW u, u = [t EXCEPT !.stable = dg, !.offset = zero, !.ok = TRUE, !.pending = FALSE]
      PROVE  u \in Tares /\ u.stable = dg /\ u.offset = zero /\ u.ok = TRUE /\ u.pending = FALSE /\ u.error = t.error
  BY <1>1 DEF Tares
<1>2. 0 \in Int
  OBVIOUS
<1>3. PICK u: u = [t EXCEPT !.stable = dg, !.offset = 0, !.ok = TRUE, !.pending = FALSE]
  OBVIOUS
<1>4. u \in Tares /\ u.stable = dg /\ u.offset = 0 /\ u.ok = TRUE /\ u.pending = FALSE /\ u.error = t.error
  BY <1>1, <1>2, <1>3, Zenon
<1>5. Anchor(t, dg) = Untracked(u)
  BY <1>3, Zenon DEF Anchor
<1> QED BY <1>4, <1>5, UntrackedIs

LEMMA RemovedIs ==
    ASSUME NEW t \in Tares
    PROVE  Removed(t) \in Tares /\ Removed(t).ok = FALSE /\ Removed(t).pending = TRUE /\ Removed(t).error = t.error
<1>1. ASSUME NEW zero \in Int, NEW u, u = [t EXCEPT !.ok = FALSE, !.pending = TRUE, !.offset = zero]
      PROVE  u \in Tares /\ u.ok = FALSE /\ u.pending = TRUE /\ u.error = t.error
  BY <1>1 DEF Tares
<1>2. 0 \in Int
  OBVIOUS
<1>3. PICK u: u = [t EXCEPT !.ok = FALSE, !.pending = TRUE, !.offset = 0]
  OBVIOUS
<1>4. u \in Tares /\ u.ok = FALSE /\ u.pending = TRUE /\ u.error = t.error
  BY <1>1, <1>2, <1>3, Zenon
<1>5. Removed(t) = Untracked(u)
  BY <1>3, Zenon DEF Removed
<1> QED BY <1>4, <1>5, UntrackedIs

\* auto_tare_sync_bowl_error: an error that appears leaves no anchor.
LEMMA SyncErrorIs ==
    ASSUME NEW t \in Tares, TareOK(t), NEW e \in {"none", "missing", "span", "incomplete"}
    PROVE  /\ SyncError(t, e) \in Tares /\ TareOK(SyncError(t, e)) /\ SyncError(t, e).error = e
           /\ Active(e) /\ ~Active(t.error) => SyncError(t, e).pending
           /\ SyncError(t, e).ok => /\ t.ok /\ SyncError(t, e).stable = t.stable /\ SyncError(t, e).offset = t.offset
           /\ SyncError(t, e).pending = t.pending \/ SyncError(t, e).pending
<1> DEFINE u == [t EXCEPT !.error = e]
<1>1. /\ u \in Tares /\ TareOK(u) /\ u.error = e /\ u.ok = t.ok /\ u.pending = t.pending
      /\ u.stable = t.stable /\ u.offset = t.offset
  BY DEF Tares, TareOK
<1> HIDE DEF u
<1>2. SyncError(t, e) \in {u, Removed(u), Untracked(u)} /\ (Active(e) /\ ~Active(t.error) => SyncError(t, e) = Removed(u))
  BY DEF SyncError, u
<1>3. CASE SyncError(t, e) = u
  BY <1>1, <1>2, <1>3, RemovedIs
<1>4. CASE SyncError(t, e) = Removed(u)
  BY <1>1, <1>4, RemovedIs DEF TareOK
<1>5. CASE SyncError(t, e) = Untracked(u)
  <2>1. CASE Active(e) /\ ~Active(t.error)
    <3>1. SyncError(t, e) = Removed(u)
      BY <1>2, <2>1
    <3> QED BY <1>1, <3>1, RemovedIs DEF TareOK
  <2>2. CASE ~(Active(e) /\ ~Active(t.error))
    BY <1>1, <1>5, <2>2, UntrackedIs DEF TareOK
  <2> QED BY <2>1, <2>2
<1> QED BY <1>2, <1>3, <1>4, <1>5

\* auto_tare_on_idle_sample: it anchors, or corrects what an anchor shows, or
\* leaves it.
Quiet(t, a) == a.dg - t.prev \in -Rate..Rate
LEMMA IdleSampleIs ==
    ASSUME NEW t \in Tares, TareOK(t), NEW a \in Samples
    PROVE  LET u == IdleSample(t, a)
               anchored == a.valid /\ u.prev = None
               corrected == a.valid /\ t.prev # None /\ Quiet(t, a)
           IN  /\ u \in Tares /\ TareOK(u) /\ u.error = t.error
               /\ anchored => u.stable = a.dg /\ u.offset = 0 /\ u.ok
               /\ ~anchored => /\ u.pending = t.pending /\ u.ok = t.ok /\ u.stable = t.stable
                               /\ t.ok => u.offset = IF corrected THEN t.stable - a.dg ELSE t.offset
<1> DEFINE tracked == [t EXCEPT !.prev = a.dg]
           quiet == t.prev = None \/ a.dg - t.prev \in -Rate..Rate
           streak == IF quiet THEN t.quiet + 1 ELSE 0
<1>0. a.dg \in Int /\ a.dg # None /\ t.quiet \in 0..Streak /\ t.stable \in Int /\ t.ok \in BOOLEAN /\ t.pending \in BOOLEAN
  BY NoneIsNoNumber DEF Samples, Tares
<1>1. ASSUME NEW dg \in Int, NEW u, u = [t EXCEPT !.prev = dg]
      PROVE  /\ u \in Tares /\ u.prev = dg /\ u.ok = t.ok /\ u.pending = t.pending /\ u.error = t.error
             /\ u.stable = t.stable /\ u.offset = t.offset
  BY <1>1 DEF Tares
<1>2. CASE ~a.valid
  <2>1. IdleSample(t, a) = Untracked(t)
    BY <1>2 DEF IdleSample
  <2> QED BY <1>2, <2>1, UntrackedIs DEF TareOK
<1>3. CASE a.valid /\ t.pending /\ streak >= Streak
  <2>1. IdleSample(t, a) = Anchor(t, a.dg)
    BY <1>3 DEF IdleSample
  <2>2. a.valid /\ a.dg \in Int
    BY <1>0, <1>3
  <2> HIDE DEF streak, quiet, tracked
  <2>3. PICK u: u = IdleSample(t, a)
    OBVIOUS
  <2>4. /\ u \in Tares /\ u.stable = a.dg /\ u.offset = 0 /\ u.ok = TRUE /\ u.pending = FALSE
        /\ u.error = t.error /\ u.prev = None
    <3>1. u = Anchor(t, a.dg)
      BY <2>1, <2>3, Zenon
    <3> QED BY <2>2, <3>1, AnchorIs
  <2> QED BY <2>2, <2>3, <2>4 DEF TareOK
<1>4. CASE a.valid /\ t.pending /\ ~(streak >= Streak)
  <2>1. IdleSample(t, a) = [tracked EXCEPT !.quiet = streak]
    BY <1>4 DEF IdleSample
  <2>2. streak \in 0..Streak
    BY <1>0, <1>4, RatesAreNatural
  <2>3. tracked \in Tares /\ tracked.prev = a.dg /\ tracked.pending = t.pending /\ tracked.error = t.error
        /\ tracked.ok = t.ok /\ tracked.stable = t.stable
    BY <1>0, <1>1
  <2> HIDE DEF tracked, streak
  <2>4. ASSUME NEW u, u = [tracked EXCEPT !.quiet = streak]
        PROVE  u \in Tares /\ u.prev = a.dg /\ u.pending = t.pending /\ u.error = t.error /\ u.ok = t.ok /\ u.stable = t.stable
    BY <2>2, <2>3, <2>4 DEF Tares
  <2> QED BY <1>0, <1>4, <2>1, <2>4 DEF TareOK
<1>5. CASE a.valid /\ ~t.pending /\ t.prev # None /\ Quiet(t, a)
  <2>1. IdleSample(t, a) = [tracked EXCEPT !.offset = t.stable - a.dg]
    BY <1>0, <1>5 DEF IdleSample, TareOK, Quiet
  <2>2. tracked \in Tares /\ tracked.prev = a.dg /\ tracked.pending = t.pending /\ tracked.error = t.error
        /\ tracked.ok = t.ok /\ tracked.stable = t.stable
    BY <1>0, <1>1
  <2> HIDE DEF tracked
  <2>3. PICK offset \in Int: offset = t.stable - a.dg
    BY <1>0
  <2>4. PICK u: u = [tracked EXCEPT !.offset = offset]
    OBVIOUS
  <2>5. /\ u \in Tares /\ u.prev = a.dg /\ u.pending = t.pending /\ u.error = t.error /\ u.ok = t.ok
        /\ u.stable = t.stable /\ u.offset = offset
    BY <2>2, <2>4 DEF Tares
  <2>6. IdleSample(t, a) = u
    BY <2>1, <2>3, <2>4, Zenon
  <2> QED BY <1>0, <1>5, <2>3, <2>5, <2>6 DEF TareOK
<1>6. CASE a.valid /\ ~t.pending /\ ~(t.prev # None /\ Quiet(t, a))
  <2>1. IdleSample(t, a) = tracked
    BY <1>6 DEF IdleSample, Quiet
  <2> QED BY <1>0, <1>1, <1>6, <2>1 DEF TareOK
<1> QED BY <1>2, <1>3, <1>4, <1>5, <1>6

-----------------------------------------------------------------------------
\* What a reading leaves in the history, field by field.
LEMMA RememberIs ==
    ASSUME world \in Worlds, past \in Pasts, NEW err, NEW u, NEW anchored \in BOOLEAN, NEW corrected \in BOOLEAN,
           Remember(err, u, anchored, corrected)
    PROVE  /\ past' \in Pasts /\ past'.torn = past.torn
           /\ past'.seen = IF err = "ok" THEN Load ELSE past.seen
           /\ past'.from = IF anchored \/ corrected THEN past'.seen ELSE past.from
           /\ past'.kept => anchored \/ past.kept
           /\ ~u.pending => past'.away = IF anchored THEN Active(u.error) ELSE past.away
           /\ anchored \/ corrected => past'.lag = 0
           /\ ~anchored /\ ~corrected => IF err = "ok" THEN past'.lag \in {past.lag + 1, 2 * MaxDrift}
                                         ELSE past'.lag \in {past.lag, 2 * MaxDrift}
<1>1. Load \in Int
  BY WeightsAreIntegers DEF Load, Worlds
<1>2. PICK seen \in Int: seen = IF err = "ok" THEN Load ELSE past.seen
  BY <1>1 DEF Pasts
<1>3. PICK more \in Nat: more = IF err = "ok" THEN past.lag + 1 ELSE past.lag
  BY DEF Pasts
<1>4. PICK at \in Int: at = IF anchored THEN seen ELSE past.at
  BY DEF Pasts
<1>5. PICK kept \in BOOLEAN: kept = (anchored \/ past.kept)
  BY Zenon
<1>14. PICK from \in Int: from = IF anchored \/ corrected THEN seen ELSE past.from
  BY DEF Pasts
<1>6. PICK lag \in Nat: lag = IF anchored \/ corrected THEN 0 ELSE IF more > 2 * MaxDrift THEN 2 * MaxDrift ELSE more
  BY RatesAreNatural
<1>7. PICK away \in BOOLEAN: away = IF u.pending THEN FALSE ELSE IF anchored THEN Active(u.error) ELSE past.away
  <2>1. past.away \in BOOLEAN
    BY DEF Pasts
  <2>2. (IF u.pending THEN FALSE ELSE IF anchored THEN Active(u.error) ELSE past.away) \in BOOLEAN
    BY <2>1, Zenon DEF Active
  <2> QED BY <2>2, Zenon
<1>8. past' = [past EXCEPT !.seen = seen, !.at = at, !.from = from, !.kept = kept, !.lag = lag, !.away = away]
  BY <1>2, <1>3, <1>4, <1>5, <1>6, <1>7, <1>14, Zenon DEF Remember
<1>9. /\ past' \in Pasts /\ past'.torn = past.torn /\ past'.seen = seen /\ past'.from = from /\ past'.kept = kept
      /\ past'.lag = lag /\ past'.away = away
  BY <1>8 DEF Pasts
<1>10. anchored \/ corrected => lag = 0
  BY <1>6, Zenon
<1>11. ~anchored /\ ~corrected => IF err = "ok" THEN lag \in {past.lag + 1, 2 * MaxDrift} ELSE lag \in {past.lag, 2 * MaxDrift}
  BY <1>3, <1>6, Zenon
<1>12. past'.kept => anchored \/ past.kept
  BY <1>5, <1>9, Zenon
<1>13. ~u.pending => past'.away = IF anchored THEN Active(u.error) ELSE past.away
  BY <1>7, <1>9, Zenon
<1> QED BY <1>2, <1>9, <1>10, <1>11, <1>12, <1>13, <1>14

\* A reading, and what the tare makes of it, keep to the load that was
\* anchored: the error is what the sensor drifted since the last correction.
LEMMA ReadingKept ==
    ASSUME WeighInv, NEW err, NEW d \in Drifts(err), NEW u \in Tares, NEW anchored \in BOOLEAN, NEW corrected \in BOOLEAN,
           world' = [world EXCEPT !.drift = d], tare' = u, Remember(err, u, anchored, corrected), app' \in Samples,
           app'.valid => IF err = "ok" THEN app'.dg = Load + d ELSE app.valid /\ app'.dg = app.dg,
           anchored \/ corrected => app'.valid,
           anchored => u.stable = app'.dg /\ u.offset = 0,
           ~anchored /\ u.ok => /\ tare.ok /\ u.stable = tare.stable
                                /\ u.offset = IF corrected THEN tare.stable - app'.dg ELSE tare.offset,
           Active(u.error) /\ ~u.pending => anchored \/ (Active(tare.error) /\ ~tare.pending)
    PROVE  /\ world' \in Worlds /\ past' \in Pasts /\ past'.torn = past.torn
           /\ SampleIsSeen' /\ AnchorHolds' /\ NoAnchorWithoutBowl'
<1> USE DEF WeighInv, WeighTyped
<1>1. /\ past' \in Pasts /\ past'.torn = past.torn
      /\ past'.seen = IF err = "ok" THEN Load ELSE past.seen
      /\ past'.from = IF anchored \/ corrected THEN past'.seen ELSE past.from
      /\ past'.kept => anchored \/ past.kept
      /\ ~u.pending => past'.away = IF anchored THEN Active(u.error) ELSE past.away
      /\ anchored \/ corrected => past'.lag = 0
      /\ ~anchored /\ ~corrected => IF err = "ok" THEN past'.lag \in {past.lag + 1, 2 * MaxDrift}
                                    ELSE past'.lag \in {past.lag, 2 * MaxDrift}
  BY RememberIs
<1>2. /\ d \in -MaxDrift..MaxDrift /\ world.drift \in -MaxDrift..MaxDrift
      /\ err = "ok" => d - world.drift \in -Rate..Rate
      /\ err # "ok" => d = world.drift
  BY DEF Drifts, Worlds
<1>3. world' \in Worlds /\ world'.drift = d
  BY <1>2 DEF Worlds
<1>4. SampleIsSeen'
  BY <1>1, <1>2, <1>3 DEF SampleIsSeen
<1>6. AnchorHolds'
  <2> SUFFICES ASSUME past'.kept, u.ok PROVE AnchorHolds'
    BY DEF AnchorHolds
  <2>0. /\ past.lag \in Nat /\ past'.lag \in Nat /\ past.from \in Int /\ past'.from \in Int /\ past'.seen \in Int /\ app'.dg \in Int
        /\ tare.stable \in Int /\ tare.offset \in Int /\ u.stable \in Int /\ u.offset \in Int
    BY <1>1 DEF Pasts, Tares, Samples
  <2>1. CASE anchored \/ corrected
    <3>1. app'.dg = past'.seen + d /\ past'.seen = past'.from
      BY <1>1, <1>3, <1>4, <2>1 DEF SampleIsSeen
    <3>2. u.stable - u.offset = app'.dg
      BY <2>0, <2>1
    <3>3. Corrected' = d
      BY <2>0, <3>1, <3>2, <1>2 DEF Corrected
    <3>4. world'.drift - Corrected' = 0 /\ Rate * past'.lag = 0
      BY <1>1, <1>2, <1>3, <2>1, <3>3, RatesAreNatural
    <3> QED BY <1>2, <3>3, <3>4 DEF AnchorHolds
  <2>2. CASE ~anchored /\ ~corrected
    <3>1. past.kept /\ tare.ok /\ Corrected' = Corrected
      BY <1>1, <2>2 DEF Corrected
    <3>2. Corrected \in -MaxDrift..MaxDrift /\ world.drift - Corrected \in -(Rate * past.lag)..(Rate * past.lag)
      BY <3>1 DEF AnchorHolds
    <3>3. Corrected \in Int
      BY <2>0 DEF Corrected
    <3>4. d - Corrected \in -(Rate * past'.lag)..(Rate * past'.lag)
      <4>1. Rate * past.lag \in Nat /\ Rate * (past.lag + 1) = Rate * past.lag + Rate
        BY <2>0, RatesAreNatural
      <4>2. CASE err # "ok" /\ past'.lag = past.lag
        BY <1>2, <3>2, <4>2
      <4>3. CASE err = "ok" /\ past'.lag = past.lag + 1
        BY <1>2, <3>2, <3>3, <4>1, <4>3, RatesAreNatural
      <4>4. CASE past'.lag = 2 * MaxDrift
        <5>1. CASE Rate = 0
          <6>1. Rate * past.lag = 0 /\ Rate * past'.lag = 0
            BY <2>0, <5>1
          <6>2. d - world.drift = 0
            BY <1>2, <5>1, RatesAreNatural
          <6> QED BY <1>2, <3>2, <3>3, <6>1, <6>2, RatesAreNatural
        <5>2. CASE Rate > 0
          <6>1. Rate * (2 * MaxDrift) >= 2 * MaxDrift
            BY <5>2, RatesAreNatural
          <6> QED BY <1>2, <3>2, <3>3, <4>4, <6>1, RatesAreNatural
        <5> QED BY <5>1, <5>2, RatesAreNatural
      <4> QED BY <1>1, <2>2, <4>2, <4>3, <4>4
    <3> QED BY <1>3, <3>1, <3>2, <3>4 DEF AnchorHolds
  <2> QED BY <2>1, <2>2
<1>7. NoAnchorWithoutBowl'
  BY <1>1 DEF NoAnchorWithoutBowl
<1> QED BY <1>1, <1>3, <1>4, <1>6, <1>7

-----------------------------------------------------------------------------
\* weight_ensure_booted and the loan: how an attempt ends.
LEMMA AttemptsAre ==
    ASSUME NEW s \in Scales, NEW r \in Attempts(s)
    PROVE  r.err \in {"ok", "busy", "fail"} /\ r.scale \in Scales /\ (r.scale = "settling" => s = "settling")
BY DEF Attempts, Scales

\* port_boot_begin: a boot that began settles.
LEMMA BootBeginIs ==
    ASSUME NEW s \in Scales, NEW b \in BootBegin(s)
    PROVE  b.scale \in Scales /\ b.began \in BOOLEAN /\ (b.scale = "settling" => b.began = TRUE)
<1>1. CASE b = [began |-> TRUE, scale |-> "settling"]
  BY <1>1 DEF Scales
<1>2. CASE b \in [began: {FALSE}, scale: IF s \in {"cold", "off"} THEN {s} ELSE {"off", "powered"}]
  <2>1. b.began = FALSE /\ b.scale \in {s, "off", "powered"} /\ (b.scale = s => s \in {"cold", "off", "powered"})
    BY <1>2
  <2> QED BY <2>1 DEF Scales
<1> QED BY <1>1, <1>2 DEF BootBegin

\* A sample, field by field.
LEMMA SampledIs ==
    ASSUME world \in Worlds, NEW a \in Samples, NEW err, NEW d \in Drifts(err)
    PROVE  /\ Sampled(a, err, d) \in Samples /\ Sampled(a, err, d).boot = a.boot
           /\ Sampled(a, err, d).valid => IF err = "ok" THEN Sampled(a, err, d).dg = Load + d
                                          ELSE a.valid /\ Sampled(a, err, d).dg = a.dg
           /\ err = "ok" => Sampled(a, err, d).valid /\ Sampled(a, err, d).dg = Load + d
<1>1. PICK dg \in Int: dg = Load + d
  <2>1. Load \in Int /\ d \in Int
    BY WeightsAreIntegers, RatesAreNatural DEF Load, Worlds, Drifts
  <2> QED BY <2>1
<1>2. CASE err = "ok"
  <2>1. PICK b: b = [a EXCEPT !.dg = dg, !.valid = TRUE]
    OBVIOUS
  <2>2. b \in Samples /\ b.boot = a.boot /\ b.valid = TRUE /\ b.dg = dg
    BY <2>1 DEF Samples
  <2>3. Sampled(a, err, d) = b
    BY <1>1, <1>2, <2>1, Zenon DEF Sampled
  <2> QED BY <1>1, <1>2, <2>2, <2>3
<1>3. CASE err = "fail"
  <2>1. PICK b: b = [a EXCEPT !.valid = FALSE]
    OBVIOUS
  <2>2. b \in Samples /\ b.boot = a.boot /\ b.valid = FALSE
    BY <2>1 DEF Samples
  <2>3. Sampled(a, err, d) = b
    BY <1>3, <2>1 DEF Sampled
  <2> QED BY <1>3, <2>2, <2>3
<1>4. CASE err # "ok" /\ err # "fail"
  BY <1>4 DEF Sampled
<1> QED BY <1>2, <1>3, <1>4

\* The calibration does not change with a reading.
LEMMA FlashRests ==
    ASSUME FlashOfItsZero, UNCHANGED <<cal, flash>>, past'.torn = past.torn
    PROVE  FlashOfItsZero'
BY DEF FlashOfItsZero

\* weigh_housekeeping
LEMMA HousekeepKept == ASSUME WeighInv, HousekeepTick PROVE WeighInv'
<1> USE DEF WeighInv, WeighTyped
<1>0. UNCHANGED <<cal, flash, tare, bench, spent>>
  BY DEF HousekeepTick
<1>1. CASE /\ app.boot = "pending" /\ app' = [app EXCEPT !.boot = "settling"]
           /\ (\E b \in BootBegin(scale): scale' = b.scale) /\ UNCHANGED <<world, past>>
  <2>1. app' \in Samples /\ app'.boot = "settling" /\ app'.valid = app.valid /\ app'.dg = app.dg
    BY <1>1 DEF Samples
  <2>2. scale' \in Scales
    BY <1>1, BootBeginIs
  <2> QED BY <1>0, <1>1, <2>1, <2>2
          DEF TareOK, SettlesForSome, SampleIsSeen, AnchorHolds, Corrected, NoAnchorWithoutBowl, FlashOfItsZero
<1>2. CASE /\ scale \notin {"settling", "ready"} /\ app' = [app EXCEPT !.boot = "done"] /\ UNCHANGED <<world, scale, past>>
  <2>1. app' \in Samples /\ app'.valid = app.valid /\ app'.dg = app.dg
    BY <1>2 DEF Samples
  <2> QED BY <1>0, <1>2, <2>1
          DEF TareOK, SettlesForSome, SampleIsSeen, AnchorHolds, Corrected, NoAnchorWithoutBowl, FlashOfItsZero
<1>3. ASSUME NEW r \in Attempts("ready"), NEW d \in Drifts(r.err), Read(r, d),
             app' = [Sampled(app, r.err, d) EXCEPT !.boot = "done"], Remember(r.err, tare, FALSE, FALSE)
      PROVE  WeighInv'
  <2>1. PICK a \in Samples: a = Sampled(app, r.err, d)
    BY SampledIs
  <2>2. app' \in Samples /\ app'.boot = "done" /\ app'.valid = a.valid /\ app'.dg = a.dg
    BY <1>3, <2>1 DEF Samples
  <2>3. app'.valid => IF r.err = "ok" THEN app'.dg = Load + d ELSE app.valid /\ app'.dg = app.dg
    <3>1. a.valid => IF r.err = "ok" THEN a.dg = Load + d ELSE app.valid /\ a.dg = app.dg
      BY <2>1, SampledIs
    <3> QED BY <2>2, <3>1
  <2>4. scale' \in Scales /\ scale' # "settling" /\ world' = [world EXCEPT !.drift = d]
    BY <1>3, AttemptsAre DEF Scales, Read
  <2>5. /\ world' \in Worlds /\ past' \in Pasts /\ past'.torn = past.torn
        /\ SampleIsSeen' /\ AnchorHolds' /\ NoAnchorWithoutBowl'
    BY <1>0, <1>3, <2>2, <2>3, <2>4, ReadingKept DEF TareOK
  <2> QED BY <1>0, <2>2, <2>4, <2>5, FlashRests DEF SettlesForSome, TareOK
<1> QED BY <1>1, <1>2, <1>3 DEF HousekeepTick, Housekeep

LEMMA ResampleKept == ASSUME WeighInv, Resample PROVE WeighInv'
<1> USE DEF WeighInv, WeighTyped
<1>0. UNCHANGED <<cal, flash, tare, bench, spent>>
  BY DEF Resample
<1>1. PICK r \in Attempts(scale): \E d \in Drifts(r.err):
        /\ Read(r, d) /\ app' = [Sampled(app, r.err, d) EXCEPT !.resample = FALSE]
        /\ Remember(r.err, tare, FALSE, FALSE)
  BY DEF Resample
<1>2. PICK d \in Drifts(r.err): Read(r, d) /\ app' = [Sampled(app, r.err, d) EXCEPT !.resample = FALSE]
                                /\ Remember(r.err, tare, FALSE, FALSE)
  BY <1>1
<1>3. PICK a \in Samples: a = Sampled(app, r.err, d)
  BY SampledIs
<1>4. app' \in Samples /\ app'.boot = a.boot /\ app'.valid = a.valid /\ app'.dg = a.dg
  BY <1>2, <1>3 DEF Samples
<1>5. app'.boot = app.boot /\ (app'.valid => IF r.err = "ok" THEN app'.dg = Load + d ELSE app.valid /\ app'.dg = app.dg)
  BY <1>3, <1>4, SampledIs
<1>6. scale' \in Scales /\ (scale' = "settling" => scale = "settling") /\ world' = [world EXCEPT !.drift = d]
  BY <1>2, AttemptsAre DEF Read
<1>7. /\ world' \in Worlds /\ past' \in Pasts /\ past'.torn = past.torn
      /\ SampleIsSeen' /\ AnchorHolds' /\ NoAnchorWithoutBowl'
  BY <1>0, <1>2, <1>4, <1>5, <1>6, ReadingKept DEF TareOK
<1> QED BY <1>0, <1>4, <1>5, <1>6, <1>7, FlashRests DEF SettlesForSome, TareOK

\* bowl_error_eval
LEMMA BowlErrorIs == ASSUME NEW a PROVE BowlError(a) \in {"none", "missing", "span", "incomplete"}
BY DEF BowlError

\* A tick of the idle scale: a sample, the error of the bowl, the tare.
LEMMA IdleTickKept == ASSUME WeighInv, IdleTick PROVE WeighInv'
<1> USE DEF WeighInv, WeighTyped
<1>0. UNCHANGED <<cal, flash, bench, spent>>
  BY DEF IdleTick
<1>1. PICK r \in Attempts(scale): \E d \in Drifts(r.err): \E a \in {Sampled(app, r.err, d)}:
       \E t \in {SyncError(tare, BowlError(a))}: \E u \in {IdleSample(t, a)}:
            /\ Read(r, d) /\ app' = a /\ tare' = u
            /\ Remember(r.err, u, a.valid /\ u.prev = None, a.valid /\ t.prev # None /\ a.dg - t.prev \in -Rate..Rate)
  BY DEF IdleTick
<1>2. PICK d \in Drifts(r.err): \E a \in {Sampled(app, r.err, d)}:
       \E t \in {SyncError(tare, BowlError(a))}: \E u \in {IdleSample(t, a)}:
            /\ Read(r, d) /\ app' = a /\ tare' = u
            /\ Remember(r.err, u, a.valid /\ u.prev = None, a.valid /\ t.prev # None /\ a.dg - t.prev \in -Rate..Rate)
  BY <1>1
<1>3. PICK a \in {Sampled(app, r.err, d)}:
       \E t \in {SyncError(tare, BowlError(a))}: \E u \in {IdleSample(t, a)}:
            /\ Read(r, d) /\ app' = a /\ tare' = u
            /\ Remember(r.err, u, a.valid /\ u.prev = None, a.valid /\ t.prev # None /\ a.dg - t.prev \in -Rate..Rate)
  BY <1>2
<1>4. PICK t \in {SyncError(tare, BowlError(a))}: \E u \in {IdleSample(t, a)}:
            /\ Read(r, d) /\ app' = a /\ tare' = u
            /\ Remember(r.err, u, a.valid /\ u.prev = None, a.valid /\ t.prev # None /\ a.dg - t.prev \in -Rate..Rate)
  BY <1>3
<1>5. PICK u \in {IdleSample(t, a)}:
            /\ Read(r, d) /\ app' = a /\ tare' = u
            /\ Remember(r.err, u, a.valid /\ u.prev = None, a.valid /\ t.prev # None /\ a.dg - t.prev \in -Rate..Rate)
  BY <1>4
<1> DEFINE anchored == a.valid /\ u.prev = None
           corrected == a.valid /\ t.prev # None /\ Quiet(t, a)
<1>6. a \in Samples /\ a.boot = app.boot /\ (a.valid => IF r.err = "ok" THEN a.dg = Load + d ELSE app.valid /\ a.dg = app.dg)
  BY SampledIs
<1>7. /\ t \in Tares /\ TareOK(t) /\ t.error = BowlError(a)
      /\ Active(t.error) /\ ~Active(tare.error) => t.pending
      /\ t.ok => tare.ok /\ t.stable = tare.stable /\ t.offset = tare.offset
      /\ t.pending = tare.pending \/ t.pending
  BY BowlErrorIs, SyncErrorIs
<1>8. /\ u \in Tares /\ TareOK(u) /\ u.error = t.error
      /\ anchored => u.stable = a.dg /\ u.offset = 0 /\ u.ok
      /\ ~anchored => /\ u.pending = t.pending /\ u.ok = t.ok /\ u.stable = t.stable
                      /\ t.ok => u.offset = IF corrected THEN t.stable - a.dg ELSE t.offset
  BY <1>6, <1>7, IdleSampleIs
<1>9. scale' \in Scales /\ (scale' = "settling" => scale = "settling") /\ world' = [world EXCEPT !.drift = d]
  BY <1>5, AttemptsAre DEF Read
<1>10. Remember(r.err, u, anchored, corrected)
  BY <1>5 DEF Quiet
<1>11. anchored \in BOOLEAN /\ corrected \in BOOLEAN /\ (anchored \/ corrected => a.valid)
  BY <1>6 DEF Quiet, Samples
<1> HIDE DEF anchored, corrected
<1>12. ~anchored /\ u.ok => /\ tare.ok /\ u.stable = tare.stable
                            /\ u.offset = IF corrected THEN tare.stable - a.dg ELSE tare.offset
  BY <1>7, <1>8
<1>13. Active(u.error) /\ ~u.pending => anchored \/ (Active(tare.error) /\ ~tare.pending)
  BY <1>7, <1>8, Zenon
<1>14. app' = a /\ tare' = u
  BY <1>5
<1>15. /\ world' \in Worlds /\ past' \in Pasts /\ past'.torn = past.torn
       /\ SampleIsSeen' /\ AnchorHolds' /\ NoAnchorWithoutBowl'
  BY <1>6, <1>8, <1>9, <1>10, <1>11, <1>12, <1>13, <1>14, ReadingKept
<1> QED BY <1>0, <1>6, <1>8, <1>9, <1>14, <1>15, FlashRests DEF SettlesForSome

\* A feeding that reads anchors at what it reads, or leaves the tare.
LEMMA TakesKept ==
    ASSUME WeighInv, NEW anchors \in BOOLEAN, NEW a \in Samples, a.valid = app.valid, a.dg = app.dg, a.boot = app.boot,
           Takes(anchors, a), UNCHANGED <<cal, flash, bench, spent>>
    PROVE  WeighInv'
<1> USE DEF WeighInv, WeighTyped
<1>1. PICK r \in Attempts(scale): \E d \in Drifts(r.err):
        LET ok == r.err = "ok"
            u == IF ok /\ anchors THEN Anchor(tare, Load + d) ELSE tare
        IN  /\ Read(r, d) /\ tare' = u /\ Remember(r.err, u, ok /\ anchors, FALSE)
            /\ app' = IF ok THEN Sampled(a, r.err, d) ELSE a
  BY DEF Takes
<1>2. PICK d \in Drifts(r.err):
        LET ok == r.err = "ok"
            u == IF ok /\ anchors THEN Anchor(tare, Load + d) ELSE tare
        IN  /\ Read(r, d) /\ tare' = u /\ Remember(r.err, u, ok /\ anchors, FALSE)
            /\ app' = IF ok THEN Sampled(a, r.err, d) ELSE a
  BY <1>1
<1> DEFINE anchored == r.err = "ok" /\ anchors
<1>3. /\ Read(r, d) /\ Remember(r.err, tare', anchored, FALSE)
      /\ tare' = IF anchored THEN Anchor(tare, Load + d) ELSE tare
      /\ app' = IF r.err = "ok" THEN Sampled(a, r.err, d) ELSE a
  BY <1>2
<1>4. anchored \in BOOLEAN /\ (anchored => r.err = "ok")
  OBVIOUS
<1> HIDE DEF anchored
<1>5. app' \in Samples /\ app'.boot = app.boot
      /\ (r.err = "ok" => app'.valid /\ app'.dg = Load + d) /\ (r.err # "ok" => app'.valid = app.valid /\ app'.dg = app.dg)
  <2>1. CASE r.err = "ok"
    BY <1>3, <2>1, SampledIs
  <2>2. CASE r.err # "ok"
    BY <1>3, <2>2
  <2> QED BY <2>1, <2>2
<1>6. Load + d \in Int
  <2>1. Load \in Int /\ d \in Int
    BY WeightsAreIntegers, RatesAreNatural DEF Load, Worlds, Drifts
  <2> QED BY <2>1
<1>7. /\ tare' \in Tares /\ TareOK(tare')
      /\ anchored => tare'.stable = Load + d /\ tare'.offset = 0
      /\ ~anchored => tare' = tare
  <2>1. CASE anchored
    <3>1. tare' = Anchor(tare, Load + d)
      BY <1>3, <2>1
    <3>2. /\ tare' \in Tares /\ tare'.stable = Load + d /\ tare'.offset = 0 /\ tare'.ok = TRUE /\ tare'.pending = FALSE
      BY <1>6, <3>1, AnchorIs
    <3> QED BY <2>1, <3>2 DEF TareOK
  <2>2. CASE ~anchored
    BY <1>3, <2>2
  <2> QED BY <2>1, <2>2
<1>8. scale' \in Scales /\ (scale' = "settling" => scale = "settling") /\ world' = [world EXCEPT !.drift = d]
  BY <1>3, AttemptsAre DEF Read
<1>9. app'.valid => IF r.err = "ok" THEN app'.dg = Load + d ELSE app.valid /\ app'.dg = app.dg
  BY <1>5
<1>10. /\ anchored => app'.valid /\ tare'.stable = app'.dg /\ tare'.offset = 0
       /\ ~anchored /\ tare'.ok => tare.ok /\ tare'.stable = tare.stable /\ tare'.offset = tare.offset
       /\ Active(tare'.error) /\ ~tare'.pending => anchored \/ (Active(tare.error) /\ ~tare.pending)
  BY <1>4, <1>5, <1>7
<1>11. /\ world' \in Worlds /\ past' \in Pasts /\ past'.torn = past.torn
       /\ SampleIsSeen' /\ AnchorHolds' /\ NoAnchorWithoutBowl'
  <2> HIDE DEF WeighInv, WeighTyped
  <2>1. /\ WeighInv /\ FALSE \in BOOLEAN /\ anchored \in BOOLEAN /\ tare' \in Tares /\ app' \in Samples
        /\ world' = [world EXCEPT !.drift = d] /\ Remember(r.err, tare', anchored, FALSE)
    BY <1>3, <1>4, <1>5, <1>7, <1>8
  <2>2. /\ anchored \/ FALSE => app'.valid
        /\ anchored => tare'.stable = app'.dg /\ tare'.offset = 0
        /\ ~anchored /\ tare'.ok => /\ tare.ok /\ tare'.stable = tare.stable
                                   /\ tare'.offset = IF FALSE THEN tare.stable - app'.dg ELSE tare.offset
    BY <1>10
  <2> QED BY <1>9, <1>10, <2>1, <2>2, ReadingKept
<1> QED BY <1>5, <1>7, <1>8, <1>11, FlashRests DEF SettlesForSome

LEMMA DispenseBeginKept == ASSUME WeighInv, DispenseBegin PROVE WeighInv'
<1> USE DEF WeighInv, WeighTyped
<1>1. PICK a: a = [app EXCEPT !.dispensing = TRUE]
  OBVIOUS
<1>2. a \in Samples /\ a.valid = app.valid /\ a.dg = app.dg /\ a.boot = app.boot
  BY <1>1 DEF Samples
<1>3. UNCHANGED <<cal, flash, bench, spent>>
  BY DEF DispenseBegin
<1>4. CASE Takes(tare.pending, a)
  <2>1. tare.pending \in BOOLEAN
    BY DEF Tares
  <2> QED BY <1>2, <1>3, <1>4, <2>1, TakesKept
<1>5. CASE app' = a /\ UNCHANGED <<world, scale, tare, past>>
  BY <1>2, <1>3, <1>5
     DEF TareOK, SettlesForSome, SampleIsSeen, AnchorHolds, Corrected, NoAnchorWithoutBowl, FlashOfItsZero
<1> QED BY <1>1, <1>4, <1>5 DEF DispenseBegin

LEMMA SettledKept == ASSUME WeighInv, NEW last \in BOOLEAN, Settled(last) PROVE WeighInv'
<1> USE DEF WeighInv, WeighTyped
<1>1. PICK resample \in BOOLEAN: resample = ((app.boot = "done") \/ app.resample)
  BY Zenon DEF Samples
<1>2. PICK a: a = IF last THEN [app EXCEPT !.dispensing = FALSE, !.resample = resample] ELSE app
  OBVIOUS
<1>3. a \in Samples /\ a.valid = app.valid /\ a.dg = app.dg /\ a.boot = app.boot
  <2>1. CASE last
    <3>1. a = [app EXCEPT !.dispensing = FALSE, !.resample = resample]
      BY <1>2, <2>1
    <3> QED BY <3>1 DEF Samples
  <2>2. CASE ~last
    BY <1>2, <2>2
  <2> QED BY <2>1, <2>2
<1>4. Takes(TRUE, a) /\ UNCHANGED <<cal, flash, bench, spent>>
  BY <1>1, <1>2, Zenon DEF Settled
<1>5. TRUE \in BOOLEAN
  OBVIOUS
<1> QED BY <1>3, <1>4, <1>5, TakesKept

-----------------------------------------------------------------------------
\* The console powers the scale, food comes and goes and the bowl moves: what
\* the app has of the scale does not change with it.
LEMMA ScaleMovesKept ==
    ASSUME WeighInv, scale' \in Scales, bench' \in BOOLEAN, scale' = "settling" => bench' \/ app.boot = "settling",
           world' \in Worlds, world'.drift = world.drift, spent' \in Nat, UNCHANGED <<cal, flash, app, tare, past>>
    PROVE  WeighInv'
BY DEF WeighInv, WeighTyped, TareOK, SettlesForSome, SampleIsSeen, AnchorHolds, Corrected,
       NoAnchorWithoutBowl, FlashOfItsZero

LEMMA OrdersKept ==
    ASSUME WeighInv, PowerOnBegin \/ PowerOnPoll \/ PowerOff \/ BowlMoves \/ \E m \in Masses: FoodChanges(m)
    PROVE  WeighInv'
<1> USE DEF WeighInv, WeighTyped
<1>1. CASE PowerOnBegin
  <2>1. PICK b \in BootBegin(scale): scale' = b.scale /\ bench' = b.began
    BY <1>1 DEF PowerOnBegin
  <2>2. b.scale \in Scales /\ b.began \in BOOLEAN /\ (b.scale = "settling" => b.began = TRUE)
    BY BootBeginIs
  <2>3. spent' \in Nat /\ UNCHANGED <<world, cal, flash, app, tare, past>>
    BY <1>1 DEF PowerOnBegin, Ordered
  <2>4. scale' \in Scales /\ bench' \in BOOLEAN /\ (scale' = "settling" => bench' \/ app.boot = "settling")
    BY <2>1, <2>2
  <2>5. world' \in Worlds /\ world'.drift = world.drift
    BY <2>3
  <2> QED BY <2>3, <2>4, <2>5, ScaleMovesKept
<1>2. CASE PowerOnPoll
  BY <1>2, ScaleMovesKept DEF PowerOnPoll, Scales
<1>3. CASE PowerOff
  BY <1>3, ScaleMovesKept DEF PowerOff, Scales, Ordered
<1>4. CASE BowlMoves
  <2>1. PICK bowl \in BOOLEAN: world' = [world EXCEPT !.bowl = bowl]
    BY <1>4, Zenon DEF BowlMoves, Worlds
  <2>2. world' \in Worlds /\ world'.drift = world.drift
    BY <2>1 DEF Worlds
  <2> QED BY <1>4, <2>2, ScaleMovesKept DEF BowlMoves, Ordered, SettlesForSome
<1>5. ASSUME NEW m \in Masses, FoodChanges(m) PROVE WeighInv'
  <2>1. m \in Int
    BY WeightsAreIntegers
  <2>2. world' \in Worlds /\ world'.drift = world.drift
    BY <1>5, <2>1 DEF Worlds, FoodChanges
  <2> QED BY <1>5, <2>2, ScaleMovesKept DEF FoodChanges, Ordered, SettlesForSome
<1> QED BY <1>1, <1>2, <1>3, <1>4, <1>5

\* weigh_cal.c: how flash is after the erasure, and what a load takes of it.
LEMMA ErasedIs ==
    ASSUME NEW f \in Keys, NEW failed \in SUBSET {"spanG", "spanRaw"}
    PROVE  /\ SpanErased(f, failed) \in Keys /\ SpanErased(f, failed).zero = f.zero
           /\ SpanErased(f, failed).spanRaw = IF "spanRaw" \in failed THEN f.spanRaw ELSE None
           /\ SpanErased(f, failed).spanG = IF "spanG" \in failed THEN f.spanG ELSE None
<1> DEFINE g == SpanErased(f, failed)
<1>1. DOMAIN f = {"zero", "spanG", "spanRaw"} /\ f.zero \in Weights /\ f.spanG \in Weights /\ f.spanRaw \in Weights
  BY DEF Keys
<1>2. g = [key \in {"zero", "spanG", "spanRaw"} |-> IF key = "zero" \/ key \in failed THEN f[key] ELSE None]
  BY <1>1 DEF SpanErased
<1> HIDE DEF g
<1>3. /\ g.zero = f.zero
      /\ g.spanRaw = IF "spanRaw" \in failed THEN f.spanRaw ELSE None
      /\ g.spanG = IF "spanG" \in failed THEN f.spanG ELSE None
  BY <1>2
<1>4. g \in Keys
  BY <1>1, <1>2, <1>3 DEF Keys, Weights
<1> QED BY <1>3, <1>4 DEF g

LEMMA LoadedIs ==
    ASSUME NEW f \in Keys
    PROVE  /\ Loaded(f) \in [zero: Weights, span: Weights] /\ Loaded(f).zero = f.zero
           /\ Loaded(f).span # None => Loaded(f).span = f.spanRaw /\ f.spanG # None
BY DEF Loaded, Keys, Weights

\* A boot, and a calibration that goes on: flash and use agree if flash does.
LEMMA BootsKept ==
    ASSUME WeighInv, flash' \in Keys, Boots(flash'), UNCHANGED world, spent' \in Nat, past' \in Pasts, ~past'.kept,
           past'.seen = past.seen, flash'.spanRaw # None => flash'.spanRaw = flash'.zero \/ past'.torn
    PROVE  WeighInv'
<1>1. cal' \in [zero: Weights, span: Weights] /\ cal'.zero = flash'.zero
      /\ (cal'.span # None => cal'.span = flash'.spanRaw)
  BY LoadedIs DEF Boots
<1>2. app' \in Samples /\ app'.valid = FALSE
  BY DEF Boots, ColdApp, Samples
<1>3. tare' \in Tares /\ TareOK(tare)' /\ ~tare'.ok /\ tare'.pending /\ tare'.error = None
  <2>1. 0 \in 0..Streak /\ 0 \in Int
    BY RatesAreNatural
  <2>2. tare' = NoTare
    BY DEF Boots
  <2>3. NoTare \in Tares /\ NoTare.ok = FALSE /\ NoTare.pending = TRUE /\ NoTare.error = None
    BY <2>1 DEF NoTare, Tares
  <2> QED BY <2>2, <2>3 DEF TareOK
<1>4. scale' \in Scales /\ scale' # "settling" /\ bench' = FALSE
  BY DEF Boots, Scales
<1>5. WeighTyped'
  BY <1>1, <1>2, <1>3, <1>4 DEF WeighInv, WeighTyped
<1>6. SettlesForSome' /\ SampleIsSeen' /\ AnchorHolds' /\ NoAnchorWithoutBowl'
  BY <1>2, <1>3, <1>4 DEF SettlesForSome, SampleIsSeen, AnchorHolds, NoAnchorWithoutBowl
<1>7. FlashOfItsZero'
  BY <1>1 DEF FlashOfItsZero
<1> QED BY <1>3, <1>5, <1>6, <1>7 DEF WeighInv

LEMMA KeepsKept ==
    ASSUME WeighInv, flash' \in Keys, cal' \in [zero: Weights, span: Weights], Keeps(cal'), UNCHANGED world,
           spent' \in Nat, past' \in Pasts, ~past'.kept, past'.seen = past.seen, past'.away = past.away, FlashOfItsZero'
    PROVE  WeighInv'
<1>1. scale' = "ready" /\ UNCHANGED <<app, tare, bench>>
  BY DEF Keeps
<1>2. WeighTyped'
  BY <1>1 DEF WeighInv, WeighTyped, Scales
<1>3. SettlesForSome' /\ SampleIsSeen' /\ AnchorHolds' /\ NoAnchorWithoutBowl'
  BY <1>1 DEF WeighInv, SettlesForSome, SampleIsSeen, AnchorHolds, NoAnchorWithoutBowl
<1> QED BY <1>1, <1>2, <1>3 DEF WeighInv, TareOK

\* What a calibration notes: whether a span of another zero stays.
LEMMA TornIs ==
    ASSUME past \in Pasts, NEW torn \in BOOLEAN, past' = [past EXCEPT !.torn = torn, !.kept = FALSE]
    PROVE  /\ past' \in Pasts /\ past'.torn = torn /\ past'.kept = FALSE
           /\ past'.seen = past.seen /\ past'.away = past.away
BY DEF Pasts

LEMMA CalZeroKept == ASSUME WeighInv, NEW cut \in BOOLEAN, CalZero(cut) PROVE WeighInv'
<1> USE DEF WeighInv, WeighTyped
<1>1. PICK failed \in SUBSET {"spanG", "spanRaw"}:
        /\ cut => failed \in {{"spanG", "spanRaw"}, {"spanRaw"}}
        /\ flash' = SpanErased([flash EXCEPT !.zero = spent + 1], failed)
        /\ past' = [past EXCEPT !.torn = flash.spanRaw # None /\ "spanRaw" \in failed, !.kept = FALSE]
  BY DEF CalZero
<1>2. UNCHANGED world /\ spent' = spent + 1 /\ spent' \in Nat
  BY DEF CalZero, CanCalibrate, Ordered
<1>3. PICK f: f = [flash EXCEPT !.zero = spent + 1]
  OBVIOUS
<1>4. f \in Keys /\ f.zero = spent + 1 /\ f.spanRaw = flash.spanRaw /\ spent + 1 \in Weights
  BY <1>3 DEF Keys, Weights
<1>5. /\ flash' \in Keys /\ flash'.zero = spent + 1
      /\ flash'.spanRaw = IF "spanRaw" \in failed THEN flash.spanRaw ELSE None
  BY <1>1, <1>3, <1>4, ErasedIs
<1>6. PICK torn \in BOOLEAN: torn = (flash.spanRaw # None /\ "spanRaw" \in failed)
  BY Zenon
<1>7. past' = [past EXCEPT !.torn = torn, !.kept = FALSE]
  BY <1>1, <1>6, Zenon
<1>8. past' \in Pasts /\ past'.torn = torn /\ past'.kept = FALSE /\ past'.seen = past.seen /\ past'.away = past.away
  BY <1>7, TornIs
<1>9. flash'.spanRaw # None => past'.torn
  BY <1>5, <1>6, <1>8
<1>10. CASE cut
  BY <1>2, <1>5, <1>8, <1>9, <1>10, BootsKept DEF CalZero
<1>11. CASE ~cut
  <2>1. Keeps(cal') /\ cal' = [zero |-> spent + 1, span |-> None]
    BY <1>11 DEF CalZero, Keeps
  <2>2. cal' \in [zero: Weights, span: Weights] /\ cal'.zero = flash'.zero /\ cal'.span = None
    BY <1>4, <1>5, <2>1 DEF Weights
  <2>3. FlashOfItsZero'
    BY <1>9, <2>2 DEF FlashOfItsZero
  <2> QED BY <1>2, <1>5, <1>8, <2>1, <2>2, <2>3, KeepsKept
<1> QED BY <1>10, <1>11

LEMMA CalSpanKept == ASSUME WeighInv, NEW written \in 0..2, NEW cut \in BOOLEAN, CalSpan(written, cut) PROVE WeighInv'
<1> USE DEF WeighInv, WeighTyped
<1>1. UNCHANGED world /\ spent' = spent + 1 /\ spent' \in Nat /\ cal.zero # None /\ (written = 2 => ~cut)
  BY DEF CalSpan, CanCalibrate, Ordered
<1>2. PICK torn \in BOOLEAN: torn = (past.torn /\ written < 2)
  BY Zenon
<1>3. past' = [past EXCEPT !.torn = torn, !.kept = FALSE]
  BY <1>2, Zenon DEF CalSpan
<1>4. past' \in Pasts /\ past'.torn = torn /\ past'.kept = FALSE /\ past'.seen = past.seen /\ past'.away = past.away
  BY <1>3, TornIs
<1>5. cal.zero \in Weights /\ cal.span \in Weights /\ cal.zero = flash.zero
  BY DEF FlashOfItsZero
<1>6. CASE written = 2
  <2>1. flash' = [flash EXCEPT !.spanG = cal.zero, !.spanRaw = cal.zero] /\ ~cut
    BY <1>1, <1>6 DEF CalSpan
  <2>2. flash' \in Keys /\ flash'.zero = cal.zero /\ flash'.spanRaw = cal.zero
    BY <1>5, <2>1 DEF Keys
  <2>3. Keeps(cal') /\ cal' = [cal EXCEPT !.span = cal.zero]
    BY <1>6, <2>1 DEF CalSpan, Keeps
  <2>4. cal' \in [zero: Weights, span: Weights] /\ cal'.zero = cal.zero /\ cal'.span = cal.zero
    BY <1>5, <2>3
  <2>5. FlashOfItsZero'
    BY <2>2, <2>4 DEF FlashOfItsZero
  <2> QED BY <1>1, <1>4, <2>2, <2>3, <2>4, <2>5, KeepsKept
<1>7. CASE written # 2
  <2>1. flash' = flash \/ flash' = [flash EXCEPT !.spanG = cal.zero]
    BY <1>7 DEF CalSpan
  <2>2. flash' \in Keys /\ flash'.zero = flash.zero /\ flash'.spanRaw = flash.spanRaw
    BY <1>5, <2>1 DEF Keys
  <2>3. past'.torn = past.torn
    <3>1. written < 2
      BY <1>7
    <3> QED BY <1>2, <1>4, <3>1 DEF Pasts
  <2>4. flash'.spanRaw # None => flash'.spanRaw = flash'.zero \/ past'.torn
    BY <2>2, <2>3 DEF FlashOfItsZero
  <2>5. CASE cut
    BY <1>1, <1>4, <2>2, <2>4, <2>5, BootsKept DEF CalSpan
  <2>6. CASE ~cut
    <3>1. Keeps(cal') /\ cal' = cal
      BY <1>7, <2>6 DEF CalSpan, Keeps
    <3>2. FlashOfItsZero'
      BY <2>2, <2>3, <3>1 DEF FlashOfItsZero
    <3> QED BY <1>1, <1>4, <2>2, <3>1, <3>2, KeepsKept
  <2> QED BY <2>5, <2>6
<1> QED BY <1>6, <1>7

-----------------------------------------------------------------------------
\* Whatever lies on the scale, is fed or eaten, however it drifts, and wherever
\* a calibration fails or is cut off: the panel departs from the anchored weight
\* as the load does from the one last compensated, but for the drift since; an
\* anchor does not outlive the bowl; and a span is used with its own zero, unless
\* its erasure failed (weight_adapter.c, weigh_cal.c, app.c, auto_tare.c).
THEOREM BowlIsTrusted == WeighSpec => []BowlTrusted
<1>1. WeighInit => WeighInv
  <2> SUFFICES ASSUME WeighInit PROVE WeighInv
    OBVIOUS
  <2>1. 0 \in -MaxDrift..MaxDrift /\ 0 \in 0..Streak
    BY RatesAreNatural
  <2>2. world \in Worlds /\ scale \in Scales /\ app \in Samples /\ tare \in Tares /\ past \in Pasts
    BY <2>1 DEF WeighInit, Worlds, Scales, ColdApp, Samples, NoTare, Tares, Pasts
  <2>3. PICK k \in {<<None, None>>, <<0, None>>, <<0, 0>>}:
          flash = [zero |-> k[1], spanG |-> k[2], spanRaw |-> k[2]] /\ cal = [zero |-> k[1], span |-> k[2]]
    BY DEF WeighInit
  <2>4. k[1] \in Weights /\ k[2] \in Weights /\ (k[2] # None => k[2] = k[1])
    BY <2>3 DEF Weights
  <2>5. flash \in Keys /\ cal \in [zero: Weights, span: Weights] /\ FlashOfItsZero
    BY <2>3, <2>4 DEF Keys, FlashOfItsZero
  <2>6. app.valid = FALSE /\ tare.ok = FALSE /\ tare.pending = TRUE /\ tare.error = None /\ past.kept = FALSE
        /\ scale = "cold"
    BY DEF WeighInit, ColdApp, NoTare
  <2>7. bench \in BOOLEAN /\ spent \in Nat
    BY DEF WeighInit
  <2> QED BY <2>2, <2>5, <2>6, <2>7 DEF WeighInv, WeighTyped, TareOK, SettlesForSome, SampleIsSeen,
          AnchorHolds, NoAnchorWithoutBowl
<1>2. WeighInv /\ [WeighNext]_weighVars => WeighInv'
  <2> SUFFICES ASSUME WeighInv, [WeighNext]_weighVars PROVE WeighInv'
    OBVIOUS
  <2>1. CASE UNCHANGED weighVars
    BY <2>1 DEF weighVars, WeighInv, WeighTyped, TareOK, SettlesForSome, SampleIsSeen, AnchorHolds,
       Corrected, NoAnchorWithoutBowl, FlashOfItsZero
  <2>2. CASE HousekeepTick \/ IdleTick \/ Resample \/ DispenseBegin
    BY <2>2, HousekeepKept, IdleTickKept, ResampleKept, DispenseBeginKept
  <2>3. CASE PowerOnBegin \/ PowerOnPoll \/ PowerOff \/ BowlMoves \/ \E m \in Masses: FoodChanges(m)
    BY <2>3, OrdersKept
  <2>4. CASE \E b \in BOOLEAN: Settled(b) \/ CalZero(b) \/ \E w \in 0..2: CalSpan(w, b)
    BY <2>4, SettledKept, CalZeroKept, CalSpanKept
  <2> QED BY <2>1, <2>2, <2>3, <2>4 DEF WeighNext
<1>3. WeighInv => BowlTrusted
  <2> SUFFICES ASSUME WeighInv PROVE BowlTrusted
    OBVIOUS
  <2>1. WeighTypeOK
    BY DEF WeighInv, WeighTyped, Worlds, Scales, Samples, Tares, TareOK, SettlesForSome, WeighTypeOK
  <2>2. ChangesTold
    <3> SUFFICES ASSUME app.valid, tare.ok, ~tare.pending, past.kept
                 PROVE  Presented - tare.stable - (past.seen - past.from) \in -(Rate * past.lag)..(Rate * past.lag)
      BY DEF ChangesTold, Compensated, ShownAs
    <3>1. Presented = app.dg + tare.offset /\ app.dg = past.seen + world.drift
      BY DEF Presented, WeighInv, SampleIsSeen
    <3>2. world.drift - Corrected \in -(Rate * past.lag)..(Rate * past.lag)
      BY DEF WeighInv, AnchorHolds
    <3>3. tare.stable \in Int /\ tare.offset \in Int /\ past.seen \in Int /\ past.from \in Int /\ world.drift \in Int
      BY DEF WeighInv, WeighTyped, Tares, Pasts, Worlds
    <3>4. Presented - tare.stable - (past.seen - past.from) = world.drift - Corrected
      BY <3>1, <3>3 DEF Corrected
    <3> QED BY <3>2, <3>4
  <2>3. SpanOfItsZero
    BY DEF WeighInv, FlashOfItsZero, SpanOfItsZero, Complete
  <2> QED BY <2>1, <2>2, <2>3 DEF BowlTrusted, WeighInv
<1> QED BY <1>1, <1>2, <1>3, PTL DEF WeighSpec

-----------------------------------------------------------------------------
(***************************************************************************)
(* Buttons: what a poll makes of a press follows from the channels before  *)
(* and after it; what a press was given, and whether another was mixed     *)
(* into it, from the state of its gesture and the session of the combo.    *)
(***************************************************************************)
(* The values of the state.                                                 *)
Ids == {"power", "reset", "dispense"}
Times == 0..(Wrap - 1)
Presses == [Buttons -> [age: Nat, wrapped: BOOLEAN, given: BOOLEAN, mixed: BOOLEAN]]
Channels == [Buttons -> [state: {"idle", "held", "long"}, down: Times]]
Combos == [active: BOOLEAN, start: Times, fired: BOOLEAN, session: BOOLEAN]
BtnTyped ==
    /\ clock \in 0..MaxTicks /\ gate \in Times /\ irq \in BOOLEAN /\ locked \in BOOLEAN /\ gateWrapped \in BOOLEAN
    /\ finger \subseteq Buttons /\ moves \in 0..MaxMoves
    /\ ch.last \subseteq Buttons /\ ch.confirmed \subseteq Buttons
    /\ ges \in Channels /\ combo \in Combos /\ press \in Presses /\ calm \in [Buttons -> Nat]

(* A channel is idle exactly while its button is up; a combo is active      *)
(* exactly while both partners are down, and began with one of them.        *)
ComboStands(k, gs, down) ==
    /\ k.active <=> BothDown(down)
    /\ k.active => k.session /\ k.start \in {gs["reset"].down, gs["dispense"].down}
Stands(gs, k, down) ==
    /\ gs \in Channels /\ k \in Combos /\ down \subseteq Buttons
    /\ \A b \in Buttons: gs[b].state = "idle" <=> b \notin down
    /\ ComboStands(k, gs, down)
(* What the presses P of the buttons down are at the time at: as old as     *)
(* their channels say, with nothing given while held, and in the session if *)
(* the other partner was down in them.                                      *)
Mixed(P, down) == {b \in down: P[b].mixed}
PressesStand(P, gs, down, at) ==
    \A b \in down: /\ at <= gs[b].down + P[b].age
                   /\ P[b].wrapped \/ \A d \in DOMAIN Long: gs[b].down + Long[d] < Wrap
                   /\ gs[b].state = "held" => ~P[b].given
MixedInSession(P, k, down) == \A b \in down: P[b].mixed => b \in Partners /\ k.session

-----------------------------------------------------------------------------
\* button_gesture_update_combo
LEMMA ComboIs ==
    ASSUME NEW k \in Combos, NEW gs \in Channels, NEW down \in SUBSET Buttons,
           k.active /\ BothDown(down) => k.session /\ k.start \in {gs["reset"].down, gs["dispense"].down}
    PROVE  /\ UpdateCombo(k, gs, down) \in Combos
           /\ ComboStands(UpdateCombo(k, gs, down), gs, down)
           /\ k.session /\ Partners \cap down # {} => UpdateCombo(k, gs, down).session
<1>1. CASE BothDown(down) /\ k.active
  <2>1. UpdateCombo(k, gs, down) = k
    BY <1>1 DEF UpdateCombo
  <2> QED BY <1>1, <2>1 DEF ComboStands
<1>2. CASE BothDown(down) /\ ~k.active
  <2>1. "reset" \in Buttons /\ "dispense" \in Buttons
    BY <1>2 DEF BothDown, Partners
  <2>2. PICK s \in Times: s = IF gs["reset"].down < gs["dispense"].down THEN gs["reset"].down ELSE gs["dispense"].down
    BY <2>1 DEF Channels
  <2>3. PICK u: u = [active |-> TRUE, start |-> s, fired |-> FALSE, session |-> TRUE]
    OBVIOUS
  <2>4. u \in Combos /\ u.active /\ u.session /\ u.start = s
    BY <2>3 DEF Combos
  <2>5. UpdateCombo(k, gs, down) = u
    BY <1>2, <2>2, <2>3 DEF UpdateCombo
  <2>6. s \in {gs["reset"].down, gs["dispense"].down}
    BY <2>2
  <2> QED BY <1>2, <2>4, <2>5, <2>6 DEF ComboStands
<1>3. CASE ~BothDown(down)
  <2>1. PICK s \in BOOLEAN: s = (k.session /\ Partners \cap down # {})
    OBVIOUS
  <2>2. PICK u: u = [active |-> FALSE, start |-> k.start, fired |-> FALSE, session |-> s]
    OBVIOUS
  <2>3. u \in Combos /\ ~u.active /\ (u.session = s)
    BY <2>2, <2>1 DEF Combos
  <2>4. UpdateCombo(k, gs, down) = u
    BY <1>3, <2>1, <2>2 DEF UpdateCombo
  <2> QED BY <1>3, <2>1, <2>3, <2>4 DEF ComboStands
<1> QED BY <1>1, <1>2, <1>3

\* What an event appended to the queue leaves in it.
LEMMA QueueAdds == ASSUME NEW q, NEW e PROVE \A f \in Queue(q, e): f \in q \/ f = e
BY DEF Queue

\* What a transition of the button b makes of the gestures g.
TransitionDone(g, r, b, c, at) ==
    /\ Stands(r.ges, r.combo, r.down)
    /\ r.down = (g.down \ {b}) \cup (c.confirmed \cap {b})
    /\ \A u \in Buttons: u # b => r.ges[u] = g.ges[u]
    /\ b \in c.confirmed \ ch.confirmed => r.ges[b] = [state |-> "held", down |-> at]
    /\ b \in ch.confirmed \cap c.confirmed => r.ges[b] = g.ges[b]
    /\ g.combo.session /\ Partners \cap r.down # {} => r.combo.session
    /\ \A e \in r.q: \/ e \in g.q
                     \/ /\ e = Event(b, "short") /\ b \in ch.confirmed \ c.confirmed
                        /\ g.ges[b].state = "held" /\ ~InSession(g.combo, b)
\* button_gesture_on_transition: the channel of the button follows it, and
\* nothing is queued but the short press of one that was held, out of session.
LEMMA TransitionIs ==
    ASSUME NEW g, Stands(g.ges, g.combo, g.down), NEW c, c.confirmed \subseteq Buttons, ch.confirmed \subseteq Buttons,
           NEW at \in Times, NEW b, b \in g.down <=> b \in ch.confirmed,
           NEW r, r = OnTransition(g, b, c, at)
    PROVE  TransitionDone(g, r, b, c, at)
<1> USE DEF TransitionDone
<1>1. CASE b \in c.confirmed \ ch.confirmed
  <2>1. PICK gs: gs = [g.ges EXCEPT ![b] = [state |-> "held", down |-> at]]
    OBVIOUS
  <2>2. PICK down: down = g.down \cup {b}
    OBVIOUS
  <2>3. b \in Buttons /\ b \notin g.down /\ g.ges \in Channels /\ g.combo \in Combos /\ g.down \subseteq Buttons
    BY <1>1 DEF Stands
  <2>4. /\ gs \in Channels /\ gs[b] = [state |-> "held", down |-> at] /\ gs[b].state = "held"
        /\ \A u \in Buttons \ {b}: gs[u] = g.ges[u]
    BY <2>1, <2>3 DEF Channels
  <2>5. g.combo.active /\ BothDown(down) => g.combo.session /\ g.combo.start \in {gs["reset"].down, gs["dispense"].down}
    <3> SUFFICES ASSUME g.combo.active PROVE g.combo.session /\ g.combo.start \in {gs["reset"].down, gs["dispense"].down}
      OBVIOUS
    <3>1. BothDown(g.down) /\ g.combo.session /\ g.combo.start \in {g.ges["reset"].down, g.ges["dispense"].down}
      BY DEF Stands, ComboStands
    <3>2. "reset" \in g.down /\ "dispense" \in g.down
      BY <3>1 DEF BothDown, Partners
    <3>3. gs["reset"] = g.ges["reset"] /\ gs["dispense"] = g.ges["dispense"]
      BY <3>2, <2>3, <2>4
    <3> QED BY <3>1, <3>3
  <2>6. down \in SUBSET Buttons
    BY <2>2, <2>3
  <2>7. PICK k: k = UpdateCombo(g.combo, gs, down)
    OBVIOUS
  <2>8. k \in Combos /\ ComboStands(k, gs, down) /\ (g.combo.session /\ Partners \cap down # {} => k.session)
    BY <2>3, <2>4, <2>5, <2>6, <2>7, ComboIs
  <2>9. r = [ges |-> gs, down |-> down, combo |-> k, q |-> g.q]
    BY <1>1, <2>1, <2>2, <2>7 DEF OnTransition, OnDown
  <2>10. r.ges = gs /\ r.down = down /\ r.combo = k /\ r.q = g.q
    BY <2>9
  <2>11. \A u \in Buttons: gs[u].state = "idle" <=> u \notin down
    BY <2>2, <2>4, <2>3 DEF Stands
  <2>12. Stands(gs, k, down)
    BY <2>4, <2>6, <2>8, <2>11 DEF Stands
  <2>13. down = (g.down \ {b}) \cup (c.confirmed \cap {b})
    BY <2>2, <1>1
  <2> QED BY <1>1, <2>4, <2>8, <2>10, <2>12, <2>13
<1>2. CASE b \in ch.confirmed \ c.confirmed
  <2>3. b \in Buttons /\ b \in g.down /\ g.ges \in Channels /\ g.combo \in Combos /\ g.down \subseteq Buttons
    BY <1>2 DEF Stands
  <2>a. PICK d \in Times: d = g.ges[b].down
    BY <2>3 DEF Channels
  <2>1. PICK gs: gs = [g.ges EXCEPT ![b] = [state |-> "idle", down |-> d]]
    OBVIOUS
  <2>2. PICK down: down = g.down \ {b}
    OBVIOUS
  <2>4. gs \in Channels /\ gs[b].state = "idle" /\ \A u \in Buttons \ {b}: gs[u] = g.ges[u]
    BY <2>1, <2>3 DEF Channels
  <2>5. g.combo.active /\ BothDown(down) => g.combo.session /\ g.combo.start \in {gs["reset"].down, gs["dispense"].down}
    <3> SUFFICES ASSUME g.combo.active, BothDown(down) PROVE g.combo.session /\ g.combo.start \in {gs["reset"].down, gs["dispense"].down}
      OBVIOUS
    <3>1. g.combo.session /\ g.combo.start \in {g.ges["reset"].down, g.ges["dispense"].down}
      BY DEF Stands, ComboStands
    <3>2. "reset" \in down /\ "dispense" \in down
      BY DEF BothDown, Partners
    <3>3. gs["reset"] = g.ges["reset"] /\ gs["dispense"] = g.ges["dispense"]
      BY <3>2, <2>3, <2>2, <2>4
    <3> QED BY <3>1, <3>3
  <2>6. down \in SUBSET Buttons
    BY <2>2, <2>3
  <2>7. PICK k: k = UpdateCombo(g.combo, gs, down)
    OBVIOUS
  <2>8. k \in Combos /\ ComboStands(k, gs, down) /\ (g.combo.session /\ Partners \cap down # {} => k.session)
    BY <2>3, <2>4, <2>5, <2>6, <2>7, ComboIs
  <2>b. PICK q: q = IF g.ges[b].state = "held" /\ ~InSession(g.combo, b) THEN Queue(g.q, Event(b, "short")) ELSE g.q
    OBVIOUS
  <2>9. r = [ges |-> gs, down |-> down, combo |-> k, q |-> q]
    BY <1>2, <2>a, <2>b, <2>1, <2>2, <2>7 DEF OnTransition, OnUp
  <2>10. r.ges = gs /\ r.down = down /\ r.combo = k /\ r.q = q
    BY <2>9
  <2>11. \A u \in Buttons: gs[u].state = "idle" <=> u \notin down
    BY <2>2, <2>4, <2>3 DEF Stands
  <2>12. Stands(gs, k, down)
    BY <2>4, <2>6, <2>8, <2>11 DEF Stands
  <2>13. down = (g.down \ {b}) \cup (c.confirmed \cap {b})
    BY <2>2, <1>2
  <2>14. \A e \in q: e \in g.q \/ (e = Event(b, "short") /\ g.ges[b].state = "held" /\ ~InSession(g.combo, b))
    BY <2>b, QueueAdds
  <2> QED BY <1>2, <2>4, <2>8, <2>10, <2>12, <2>13, <2>14
<1>3. CASE b \notin c.confirmed \ ch.confirmed /\ b \notin ch.confirmed \ c.confirmed
  <2>1. r = g
    BY <1>3 DEF OnTransition
  <2>2. g.down = (g.down \ {b}) \cup (c.confirmed \cap {b})
    BY <1>3
  <2> QED BY <1>3, <2>1, <2>2
<1> QED BY <1>1, <1>2, <1>3

\* app_button_apply_transitions: the channels follow their buttons; who was
\* mixed and is down is still in the session; only short presses are queued,
\* of who was held and was not mixed.
IsShort(e, c) ==
    e = Event(e.id, "short") /\ e.id \in ch.confirmed \ c.confirmed /\ ges[e.id].state = "held"
TurnedDone(g, c, at, M) ==
    /\ Stands(g.ges, g.combo, g.down) /\ g.down = c.confirmed
    /\ \A b \in c.confirmed \ ch.confirmed: g.ges[b] = [state |-> "held", down |-> at]
    /\ \A b \in c.confirmed \cap ch.confirmed: g.ges[b] = ges[b]
    /\ M \cap c.confirmed # {} => g.combo.session
    /\ \A e \in g.q: IsShort(e, c) /\ e.id \notin M
LEMMA TurnedIs ==
    ASSUME BtnTyped, Stands(ges, combo, ch.confirmed), NEW c, c.confirmed \subseteq Buttons, NEW at \in Times,
           NEW M \in SUBSET (Partners \cap ch.confirmed), M # {} => combo.session,
           NEW g, g = Turned([ges |-> ges, down |-> ch.confirmed, combo |-> combo, q |-> {}], c, at)
    PROVE  TurnedDone(g, c, at, M)
<1> USE DEF TurnedDone
<1>0. PICK g0: g0 = [ges |-> ges, down |-> ch.confirmed, combo |-> combo, q |-> {}]
  OBVIOUS
<1>1. g0.ges = ges /\ g0.down = ch.confirmed /\ g0.combo = combo /\ g0.q = {}
  BY <1>0
<1>2. PICK g1: g1 = OnTransition(g0, "power", c, at)
  OBVIOUS
<1>3. PICK g2: g2 = OnTransition(g1, "reset", c, at)
  OBVIOUS
<1>4. g = OnTransition(g2, "dispense", c, at)
  BY <1>0, <1>2, <1>3 DEF Turned
<1>c. ch.confirmed \subseteq Buttons /\ Buttons \subseteq Ids
  BY ButtonsAreThree DEF BtnTyped, Ids
<1>5. TransitionDone(g0, g1, "power", c, at)
  <2>1. Stands(g0.ges, g0.combo, g0.down) /\ ("power" \in g0.down <=> "power" \in ch.confirmed)
    BY <1>1
  <2> QED BY <2>1, <1>2, <1>c, TransitionIs
<1>6. TransitionDone(g1, g2, "reset", c, at)
  <2>1. Stands(g1.ges, g1.combo, g1.down) /\ ("reset" \in g1.down <=> "reset" \in ch.confirmed)
    BY <1>1, <1>5 DEF TransitionDone
  <2> QED BY <2>1, <1>3, <1>c, TransitionIs
<1>7. TransitionDone(g2, g, "dispense", c, at)
  <2>1. Stands(g2.ges, g2.combo, g2.down) /\ ("dispense" \in g2.down <=> "dispense" \in ch.confirmed)
    BY <1>1, <1>5, <1>6 DEF TransitionDone
  <2> QED BY <2>1, <1>4, <1>c, TransitionIs
<1>d. /\ g1.down = (ch.confirmed \ {"power"}) \cup (c.confirmed \cap {"power"})
      /\ g2.down = (g1.down \ {"reset"}) \cup (c.confirmed \cap {"reset"})
      /\ g.down = (g2.down \ {"dispense"}) \cup (c.confirmed \cap {"dispense"})
  BY <1>1, <1>5, <1>6, <1>7 DEF TransitionDone
<1>8. g.down = c.confirmed
  <2>1. g.down \subseteq Ids /\ c.confirmed \subseteq Ids
    BY <1>7, <1>c DEF TransitionDone, Stands
  <2>2. \A x \in Ids: x \in g.down <=> x \in c.confirmed
    BY <1>d DEF Ids
  <2> QED BY <2>1, <2>2
<1>e. /\ \A u \in Buttons: u # "power" => g1.ges[u] = ges[u]
      /\ \A u \in Buttons: u # "reset" => g2.ges[u] = g1.ges[u]
      /\ \A u \in Buttons: u # "dispense" => g.ges[u] = g2.ges[u]
  BY <1>1, <1>5, <1>6, <1>7 DEF TransitionDone
<1>f. \A e \in g1.q: /\ e = Event("power", "short") /\ "power" \in ch.confirmed \ c.confirmed
                     /\ ges["power"].state = "held"
  BY <1>1, <1>5 DEF TransitionDone
<1> USE DEF TransitionDone
<1>9. \A b \in c.confirmed \ ch.confirmed: g.ges[b] = [state |-> "held", down |-> at]
  <2> SUFFICES ASSUME NEW b \in c.confirmed \ ch.confirmed PROVE g.ges[b] = [state |-> "held", down |-> at]
    OBVIOUS
  <2>1. b \in Buttons /\ b \in Ids
    BY <1>c
  <2>2. CASE b = "power"
    <3>1. g.ges[b] = g1.ges[b]
      BY <2>2, <2>1, <1>e
    <3>2. g1.ges[b] = [state |-> "held", down |-> at]
      BY <2>2, <1>5
    <3> QED BY <3>1, <3>2
  <2>3. CASE b = "reset"
    BY <2>3, <2>1, <1>6, <1>7
  <2>4. CASE b = "dispense"
    BY <2>4, <2>1, <1>7
  <2> QED BY <2>1, <2>2, <2>3, <2>4 DEF Ids
<1>10. \A b \in c.confirmed \cap ch.confirmed: g.ges[b] = ges[b]
  <2> SUFFICES ASSUME NEW b \in c.confirmed \cap ch.confirmed PROVE g.ges[b] = ges[b]
    OBVIOUS
  <2>1. b \in Buttons /\ b \in Ids
    BY <1>c
  <2>2. CASE b = "power"
    <3>1. g.ges[b] = g1.ges[b]
      BY <2>2, <2>1, <1>e
    <3>2. g1.ges[b] = ges[b]
      BY <2>2, <1>1, <1>5
    <3> QED BY <3>1, <3>2
  <2>3. CASE b = "reset"
    BY <2>3, <2>1, <1>1, <1>5, <1>6, <1>7
  <2>4. CASE b = "dispense"
    BY <2>4, <2>1, <1>1, <1>5, <1>6, <1>7
  <2> QED BY <2>1, <2>2, <2>3, <2>4 DEF Ids
<1>11. M \cap c.confirmed # {} => g.combo.session
  <2> SUFFICES ASSUME NEW b \in M \cap c.confirmed PROVE g.combo.session
    OBVIOUS
  <2>1. combo.session /\ b \in Partners /\ b \in g1.down /\ b \in g2.down /\ b \in g.down
    BY <1>1, <1>5, <1>6, <1>7, <1>8
  <2>2. Partners \cap g1.down # {} /\ Partners \cap g2.down # {} /\ Partners \cap g.down # {}
    BY <2>1
  <2> QED BY <2>1, <2>2, <1>1, <1>5, <1>6, <1>7
<1>12. \A e \in g.q: IsShort(e, c) /\ e.id \notin M
  <2>1. \A b: Event(b, "short").id = b /\ Event(b, "short").kind = "short"
    BY DEF Event
  <2>2. ASSUME NEW e \in g1.q PROVE IsShort(e, c) /\ e.id \notin M
    <3>1. e = Event("power", "short") /\ "power" \in ch.confirmed \ c.confirmed /\ ges["power"].state = "held"
      BY <1>f
    <3>2. "power" \notin Partners
      BY DEF Partners
    <3> QED BY <3>1, <3>2, <2>1 DEF IsShort
  <2>3. ASSUME NEW e \in g2.q PROVE IsShort(e, c) /\ e.id \notin M
    <3>1. CASE e \in g1.q
      BY <3>1, <2>2
    <3>2. CASE e \notin g1.q
      <4>1. e = Event("reset", "short") /\ "reset" \in ch.confirmed \ c.confirmed /\ ges["reset"].state = "held" /\ ~InSession(g1.combo, "reset")
        BY <1>1, <1>5, <1>6, <3>2, <1>c
      <4>2. "reset" \in Partners
        BY DEF Partners
      <4>3. ~g1.combo.session
        BY <4>1, <4>2 DEF InSession
      <4>4. "reset" \in g1.down
        BY <1>1, <1>5, <4>1
      <4>5. "reset" \notin M
        BY <4>2, <4>3, <4>4, <1>1, <1>5
      <4> QED BY <4>1, <4>5, <2>1 DEF IsShort
    <3> QED BY <3>1, <3>2
  <2>4. ASSUME NEW e \in g.q PROVE IsShort(e, c) /\ e.id \notin M
    <3>1. CASE e \in g2.q
      BY <3>1, <2>3
    <3>2. CASE e \notin g2.q
      <4>1. e = Event("dispense", "short") /\ "dispense" \in ch.confirmed \ c.confirmed /\ ges["dispense"].state = "held" /\ ~InSession(g2.combo, "dispense")
        <5>0. "dispense" \in Buttons
          BY <1>7, <3>2, <1>c
        <5>1. g2.ges["dispense"] = ges["dispense"]
          BY <5>0, <1>e
        <5> QED BY <1>7, <3>2, <5>1
      <4>2. "dispense" \in Partners
        BY DEF Partners
      <4>3. ~g2.combo.session
        BY <4>1, <4>2 DEF InSession
      <4>4. "dispense" \in g1.down /\ "dispense" \in g2.down
        BY <1>1, <1>5, <1>6, <4>1
      <4>5. "dispense" \notin M
        BY <4>2, <4>3, <4>4, <1>1, <1>5, <1>6
      <4> QED BY <4>1, <4>5, <2>1 DEF IsShort
    <3> QED BY <3>1, <3>2
  <2> QED BY <2>4
<1> QED BY <1>7, <1>8, <1>9, <1>10, <1>11, <1>12

\* button_gesture_step: the toggle.
LEMMA StepComboIs ==
    ASSUME NEW g, Stands(g.ges, g.combo, g.down), NEW at \in Times, NEW r, r = StepCombo(g, at)
    PROVE  /\ Stands(r.ges, r.combo, r.down) /\ r.ges = g.ges /\ r.down = g.down
           /\ r.combo.session <=> g.combo.session
           /\ \A e \in r.q: e \in g.q \/ (e = Event("reset", "toggle") /\ ComboDue(g, at))
<1>1. CASE ~ComboDue(g, at)
  BY <1>1 DEF StepCombo
<1>2. CASE ComboDue(g, at)
  <2>1. PICK k: k = [g.combo EXCEPT !.fired = TRUE]
    OBVIOUS
  <2>2. g.combo \in Combos
    BY DEF Stands
  <2>3. k \in Combos /\ k.active = g.combo.active /\ k.start = g.combo.start /\ k.session = g.combo.session
    BY <2>1, <2>2, Zenon DEF Combos
  <2>4. r = [ges |-> g.ges, down |-> g.down, combo |-> k, q |-> {e \in Queue(g.q, Event("reset", "toggle")): ~PartnerGesture(e)}]
    BY <1>2, <2>1 DEF StepCombo
  <2>5. r.ges = g.ges /\ r.down = g.down /\ r.combo = k /\ r.q \subseteq Queue(g.q, Event("reset", "toggle"))
    BY <2>4
  <2>6. \A e \in r.q: e \in g.q \/ e = Event("reset", "toggle")
    BY <2>5, QueueAdds
  <2>7. Stands(g.ges, k, g.down)
    BY <2>3 DEF Stands, ComboStands
  <2> QED BY <1>2, <2>3, <2>5, <2>6, <2>7
<1> QED BY <1>1, <1>2

\* A long press of one button, and what is said of it.
IsDue(g, e, b, at) == e = Event(b, "long") /\ b \in Buttons /\ LongDue(g, b, at)
StepDone(g, r, b, at) ==
    /\ Stands(r.ges, r.combo, r.down) /\ r.combo = g.combo /\ r.down = g.down
    /\ \A u \in Buttons: u # b => r.ges[u] = g.ges[u]
    /\ b \in Buttons /\ LongDue(g, b, at) => r.ges[b].state = "long" /\ r.ges[b].down = g.ges[b].down
    /\ ~LongDue(g, b, at) => r.ges[b] = g.ges[b]
    /\ \A e \in r.q: e \in g.q \/ IsDue(g, e, b, at)
LEMMA StepLongIs ==
    ASSUME NEW g, Stands(g.ges, g.combo, g.down), NEW at \in Times, NEW b, NEW r, r = StepLong(g, b, at)
    PROVE  StepDone(g, r, b, at)
<1> USE DEF StepDone, IsDue
<1>1. CASE ~(b \in Buttons /\ LongDue(g, b, at))
  BY <1>1 DEF StepLong
<1>2. CASE b \in Buttons /\ LongDue(g, b, at)
  <2>1. g.ges \in Channels /\ g.combo \in Combos /\ g.down \subseteq Buttons
    BY DEF Stands
  <2>2. PICK d \in Times: d = g.ges[b].down
    BY <2>1, <1>2 DEF Channels
  <2>3. PICK gs: gs = [g.ges EXCEPT ![b] = [state |-> "long", down |-> d]]
    OBVIOUS
  <2>4. gs \in Channels /\ gs[b].state = "long" /\ gs[b].down = d /\ \A u \in Buttons \ {b}: gs[u] = g.ges[u]
    BY <1>2, <2>1, <2>3 DEF Channels
  <2>5. PICK q: q = Queue(g.q, Event(b, "long"))
    OBVIOUS
  <2>6. r = [ges |-> gs, down |-> g.down, combo |-> g.combo, q |-> q]
    BY <1>2, <2>2, <2>3, <2>5 DEF StepLong
  <2>7. r.ges = gs /\ r.down = g.down /\ r.combo = g.combo /\ r.q = q
    BY <2>6
  <2>8. \A e \in q: e \in g.q \/ e = Event(b, "long")
    BY <2>5, QueueAdds
  <2>9. b \in g.down
    BY <1>2, <2>1 DEF Stands, LongDue
  <2>10. \A u \in Buttons: gs[u].state = "idle" <=> u \notin g.down
    BY <2>4, <2>9, <1>2 DEF Stands
  <2>11. \A u \in Buttons: gs[u].down = g.ges[u].down
    BY <2>2, <2>4
  <2>12. ComboStands(g.combo, gs, g.down)
    <3> SUFFICES ASSUME g.combo.active PROVE gs["reset"].down = g.ges["reset"].down /\ gs["dispense"].down = g.ges["dispense"].down
      BY DEF Stands, ComboStands
    <3>1. "reset" \in Buttons /\ "dispense" \in Buttons
      BY <2>1 DEF Stands, ComboStands, BothDown, Partners
    <3> QED BY <3>1, <2>11
  <2>13. Stands(gs, g.combo, g.down)
    BY <2>1, <2>4, <2>10, <2>12 DEF Stands
  <2> QED BY <1>2, <2>2, <2>4, <2>7, <2>8, <2>13
<1> QED BY <1>1, <1>2

\* What the gestures of a poll say and leave behind, by the channels after it.
IsLong(g, e, at) == e = Event(e.id, "long") /\ e.id \in Buttons /\ LongDue(g, e.id, at)
IsToggle(g, e, at) == e = Event("reset", "toggle") /\ ComboDue(g, at)
LEMMA SteppedIs ==
    ASSUME NEW g, Stands(g.ges, g.combo, g.down), NEW at \in Times, NEW r, r = Stepped(g, at)
    PROVE  /\ Stands(r.ges, r.combo, r.down) /\ r.combo = g.combo /\ r.down = g.down
           /\ \A b \in Buttons: IF LongDue(g, b, at) THEN r.ges[b].state = "long" /\ r.ges[b].down = g.ges[b].down
                                ELSE r.ges[b] = g.ges[b]
           /\ \A e \in r.q: e \in g.q \/ IsLong(g, e, at)
<1>1. PICK g1: g1 = StepLong(g, "power", at)
  OBVIOUS
<1>2. PICK g2: g2 = StepLong(g1, "reset", at)
  OBVIOUS
<1>3. r = StepLong(g2, "dispense", at)
  BY <1>1, <1>2 DEF Stepped
<1>4. StepDone(g, g1, "power", at)
  BY <1>1, StepLongIs
<1>5. StepDone(g1, g2, "reset", at)
  BY <1>2, <1>4, StepLongIs DEF StepDone
<1>6. StepDone(g2, r, "dispense", at)
  BY <1>3, <1>5, StepLongIs DEF StepDone
<1>7. g1.combo = g.combo /\ g2.combo = g.combo /\ r.combo = g.combo /\ r.down = g.down
  BY <1>4, <1>5, <1>6 DEF StepDone
<1>8. /\ \A u \in Buttons: u # "power" => g1.ges[u] = g.ges[u]
      /\ \A u \in Buttons: u # "reset" => g2.ges[u] = g1.ges[u]
      /\ \A u \in Buttons: u # "dispense" => r.ges[u] = g2.ges[u]
  BY <1>4, <1>5, <1>6 DEF StepDone
<1>9. \A h \in {g, g1, g2}: \A b:
        LongDue(h, b, at) <=> /\ h.ges[b].state = "held" /\ ~InSession(g.combo, b)
                              /\ at >= (h.ges[b].down + Long[b]) % Wrap
  BY <1>7 DEF LongDue
<1>10. /\ "reset" \in Buttons => (LongDue(g1, "reset", at) <=> LongDue(g, "reset", at))
       /\ "dispense" \in Buttons => (LongDue(g2, "dispense", at) <=> LongDue(g, "dispense", at))
  <2>1. "reset" \in Buttons => g1.ges["reset"] = g.ges["reset"]
    BY <1>8
  <2>2. "dispense" \in Buttons => g2.ges["dispense"] = g.ges["dispense"]
    BY <1>8
  <2> QED BY <2>1, <2>2, <1>9
<1>11. ASSUME NEW b \in Buttons
       PROVE  IF LongDue(g, b, at) THEN r.ges[b].state = "long" /\ r.ges[b].down = g.ges[b].down
              ELSE r.ges[b] = g.ges[b]
  <2>1. CASE b = "power"
    <3>1. r.ges[b] = g1.ges[b]
      BY <2>1, <1>8
    <3> QED BY <2>1, <3>1, <1>4 DEF StepDone
  <2>2. CASE b = "reset"
    <3>1. r.ges[b] = g2.ges[b] /\ g1.ges[b] = g.ges[b]
      BY <2>2, <1>8
    <3>2. LongDue(g1, b, at) <=> LongDue(g, b, at)
      BY <2>2, <1>10
    <3> QED BY <2>2, <3>1, <3>2, <1>5 DEF StepDone
  <2>3. CASE b = "dispense"
    <3>1. g2.ges[b] = g.ges[b]
      BY <2>3, <1>8
    <3>2. LongDue(g2, b, at) <=> LongDue(g, b, at)
      BY <2>3, <1>10
    <3> QED BY <2>3, <3>1, <3>2, <1>6 DEF StepDone
  <2> QED BY <2>1, <2>2, <2>3, ButtonsAreThree
<1>12. ASSUME NEW e \in r.q PROVE e \in g.q \/ IsLong(g, e, at)
  <2>1. \A b: Event(b, "long").id = b /\ Event(b, "long").kind = "long"
    BY DEF Event
  <2>2. \A h, b: IsDue(h, e, b, at) => e = Event(e.id, "long") /\ e.id = b /\ b \in Buttons /\ LongDue(h, b, at)
    BY <2>1 DEF IsDue
  <2>3. e \in g.q \/ IsDue(g, e, "power", at) \/ IsDue(g1, e, "reset", at) \/ IsDue(g2, e, "dispense", at)
    BY <1>4, <1>5, <1>6 DEF StepDone
  <2> QED BY <2>2, <2>3, <1>10 DEF IsLong
<1> QED BY <1>6, <1>7, <1>11, <1>12 DEF StepDone

\* The gestures of a poll that finds the channels c: a press keeps the time it
\* began at; it stays held only if it was; and what is said of it was due.
ShortRightly(e, c, M) == IsShort(e, c) /\ e.id \notin M
LongRightly(e, r, c, at) ==
    /\ e = Event(e.id, "long") /\ e.id \in c.confirmed /\ (e.id \in ch.confirmed => ges[e.id].state = "held")
    /\ r.ges[e.id].state = "long" /\ ~InSession(r.combo, e.id) /\ at >= (r.ges[e.id].down + Long[e.id]) % Wrap
ToggleRightly(e, r, c, at) ==
    /\ e = Event("reset", "toggle") /\ Partners \subseteq c.confirmed
    /\ \E p \in Partners: at >= (r.ges[p].down + Long["combo"]) % Wrap
GesturesDone(r, c, at, M) ==
    /\ Stands(r.ges, r.combo, c.confirmed)
    /\ \A b \in c.confirmed: /\ r.ges[b].down = IF b \in ch.confirmed THEN ges[b].down ELSE at
                             /\ r.ges[b].state = "held" /\ b \in ch.confirmed => ges[b].state = "held"
    /\ M \cap c.confirmed # {} => r.combo.session
    /\ \A e \in r.q: ShortRightly(e, c, M) \/ LongRightly(e, r, c, at) \/ ToggleRightly(e, r, c, at)
LEMMA GesturesAre ==
    ASSUME BtnTyped, Stands(ges, combo, ch.confirmed), NEW c, c.confirmed \subseteq Buttons, NEW at \in Times,
           NEW M \in SUBSET (Partners \cap ch.confirmed), M # {} => combo.session,
           NEW r, r = Gestures(c, at)
    PROVE  GesturesDone(r, c, at, M)
<1>1. PICK g: g = Turned([ges |-> ges, down |-> ch.confirmed, combo |-> combo, q |-> {}], c, at)
  OBVIOUS
<1>2. PICK h: h = StepCombo(g, at)
  OBVIOUS
<1>3. r = Stepped(h, at)
  BY <1>1, <1>2 DEF Gestures
<1>4. /\ Stands(g.ges, g.combo, g.down) /\ g.down = c.confirmed
      /\ \A b \in c.confirmed \ ch.confirmed: g.ges[b] = [state |-> "held", down |-> at]
      /\ \A b \in c.confirmed \cap ch.confirmed: g.ges[b] = ges[b]
      /\ M \cap c.confirmed # {} => g.combo.session
      /\ \A e \in g.q: IsShort(e, c) /\ e.id \notin M
  <2>1. TurnedDone(g, c, at, M)
    BY <1>1, TurnedIs
  <2> QED BY <2>1 DEF TurnedDone
<1>5. /\ Stands(h.ges, h.combo, h.down) /\ h.ges = g.ges /\ h.down = g.down
      /\ h.combo.session <=> g.combo.session
      /\ \A e \in h.q: e \in g.q \/ (e = Event("reset", "toggle") /\ ComboDue(g, at))
  BY <1>2, <1>4, StepComboIs
<1>6. /\ Stands(r.ges, r.combo, r.down) /\ r.combo = h.combo /\ r.down = h.down
      /\ \A b \in Buttons: IF LongDue(h, b, at) THEN r.ges[b].state = "long" /\ r.ges[b].down = h.ges[b].down
                           ELSE r.ges[b] = h.ges[b]
      /\ \A e \in r.q: e \in h.q \/ IsLong(h, e, at)
  BY <1>3, <1>5, SteppedIs
<1>7. ASSUME NEW b \in c.confirmed
      PROVE  /\ r.ges[b].down = IF b \in ch.confirmed THEN ges[b].down ELSE at
             /\ b \in ch.confirmed => g.ges[b] = ges[b]
             /\ r.ges[b].state = "held" /\ b \in ch.confirmed => ges[b].state = "held"
  <2>0. r.ges[b].down = g.ges[b].down /\ (r.ges[b].state = "held" => g.ges[b].state = "held")
    BY <1>5, <1>6
  <2>1. CASE b \in ch.confirmed
    BY <2>0, <2>1, <1>4
  <2>2. CASE b \notin ch.confirmed
    <3>1. g.ges[b] = [state |-> "held", down |-> at]
      BY <2>2, <1>4
    <3> QED BY <2>0, <2>2, <3>1
  <2> QED BY <2>1, <2>2
<1>8. ASSUME NEW e \in r.q PROVE ShortRightly(e, c, M) \/ LongRightly(e, r, c, at) \/ ToggleRightly(e, r, c, at)
  <2>1. CASE e \in g.q
    BY <2>1, <1>4 DEF ShortRightly
  <2>2. CASE e = Event("reset", "toggle") /\ ComboDue(g, at)
    <3>1. g.combo.active /\ Partners \subseteq c.confirmed /\ at >= (g.combo.start + Long["combo"]) % Wrap
      BY <2>2, <1>4 DEF ComboDue, BothDown
    <3>2. g.combo.start \in {g.ges["reset"].down, g.ges["dispense"].down}
      BY <3>1, <1>4 DEF Stands, ComboStands
    <3>3. r.ges["reset"].down = g.ges["reset"].down /\ r.ges["dispense"].down = g.ges["dispense"].down
      BY <3>1, <1>5, <1>6 DEF Partners
    <3>4. \E p \in Partners: at >= (r.ges[p].down + Long["combo"]) % Wrap
      BY <3>1, <3>2, <3>3 DEF Partners
    <3> QED BY <2>2, <3>1, <3>4 DEF ToggleRightly
  <2>3. CASE IsLong(h, e, at)
    <3>1. e = Event(e.id, "long") /\ e.id \in Buttons /\ LongDue(h, e.id, at)
      BY <2>3 DEF IsLong
    <3>2. /\ h.ges[e.id].state = "held" /\ ~InSession(r.combo, e.id)
          /\ at >= (r.ges[e.id].down + Long[e.id]) % Wrap /\ r.ges[e.id].state = "long"
      BY <3>1, <1>6 DEF LongDue
    <3>3. e.id \in c.confirmed
      BY <3>1, <3>2, <1>4, <1>5 DEF Stands
    <3>4. e.id \in ch.confirmed => ges[e.id].state = "held"
      BY <3>2, <3>3, <1>4, <1>5
    <3> QED BY <3>1, <3>2, <3>3, <3>4 DEF LongRightly
  <2> QED BY <2>1, <2>2, <2>3, <1>5, <1>6
<1>9. Stands(r.ges, r.combo, c.confirmed) /\ (M \cap c.confirmed # {} => r.combo.session)
  BY <1>4, <1>5, <1>6
<1> QED BY <1>7, <1>8, <1>9 DEF GesturesDone

-----------------------------------------------------------------------------
\* The presses as the gestures see them, and as they are after them.
LEMMA SeenIs ==
    ASSUME NEW P \in Presses, NEW c, NEW at \in Times
    PROVE  /\ Seen(P, c, at) \in Presses
           /\ \A b \in Buttons \ c.confirmed: Seen(P, c, at)[b] = P[b]
           /\ \A b \in Buttons \cap c.confirmed:
                LET p == Seen(P, c, at)[b]
                IN  /\ p.age = IF b \in ch.confirmed THEN P[b].age ELSE 0
                    /\ p.wrapped <=> IF b \in ch.confirmed THEN P[b].wrapped ELSE NearWrap(at)
                    /\ p.given <=> b \in ch.confirmed /\ P[b].given
                    /\ p.mixed <=> (b \in ch.confirmed /\ P[b].mixed) \/ (b \in Partners /\ Partners \subseteq c.confirmed)
<1> DEFINE Press == [age: Nat, wrapped: BOOLEAN, given: BOOLEAN, mixed: BOOLEAN]
           seen(b) == IF b \notin c.confirmed THEN P[b]
                      ELSE LET p == IF b \in ch.confirmed THEN P[b] ELSE [NoPress EXCEPT !.wrapped = NearWrap(at)]
                           IN  [p EXCEPT !.mixed = @ \/ (b \in Partners /\ Partners \subseteq c.confirmed)]
<1>1. Seen(P, c, at) = [b \in Buttons |-> seen(b)]
  BY DEF Seen
<1>2. \A b \in Buttons: P[b] \in Press
  BY DEF Presses
<1>3. ASSUME NEW b \in Buttons, b \in c.confirmed
      PROVE  /\ seen(b) \in Press
             /\ seen(b).age = IF b \in ch.confirmed THEN P[b].age ELSE 0
             /\ seen(b).wrapped <=> IF b \in ch.confirmed THEN P[b].wrapped ELSE NearWrap(at)
             /\ seen(b).given <=> b \in ch.confirmed /\ P[b].given
             /\ seen(b).mixed <=> (b \in ch.confirmed /\ P[b].mixed) \/ (b \in Partners /\ Partners \subseteq c.confirmed)
  <2>1. PICK near \in BOOLEAN: near <=> NearWrap(at)
    OBVIOUS
  <2>a. NearWrap(at) \in BOOLEAN
    BY DEF NearWrap
  <2>b. near = NearWrap(at)
    BY <2>1, <2>a
  <2>2. PICK n: n = [NoPress EXCEPT !.wrapped = near]
    OBVIOUS
  <2>3. n \in Press /\ n.age = 0 /\ n.wrapped = near /\ n.given = FALSE /\ n.mixed = FALSE
    BY <2>2 DEF NoPress
  <2>4. n = [NoPress EXCEPT !.wrapped = NearWrap(at)]
    BY <2>2, <2>b
  <2>5. PICK p: p = IF b \in ch.confirmed THEN P[b] ELSE n
    OBVIOUS
  <2>6. p \in Press
    BY <2>3, <2>5, <1>2
  <2>7. PICK m \in BOOLEAN: m = (p.mixed \/ (b \in Partners /\ Partners \subseteq c.confirmed))
    OBVIOUS
  <2>8. PICK q: q = [p EXCEPT !.mixed = m]
    OBVIOUS
  <2>9. q \in Press /\ q.age = p.age /\ q.wrapped = p.wrapped /\ q.given = p.given /\ q.mixed = m
    BY <2>6, <2>8
  <2>10. seen(b) = q
    BY <1>3, <2>4, <2>5, <2>7, <2>8
  <2> HIDE DEF seen, Press
  <2>11. CASE b \in ch.confirmed
    <3>1. p = P[b]
      BY <2>5, <2>11
    <3> QED BY <2>7, <2>9, <2>10, <2>11, <3>1
  <2>12. CASE b \notin ch.confirmed
    <3>1. p = n
      BY <2>5, <2>12
    <3> QED BY <2>1, <2>3, <2>7, <2>9, <2>10, <2>12, <3>1
  <2> QED BY <2>11, <2>12
<1>4. \A b \in Buttons: b \notin c.confirmed => seen(b) = P[b]
  OBVIOUS
<1> HIDE DEF seen
<1>5. Seen(P, c, at) \in Presses
  <2>1. \A b \in Buttons: seen(b) \in Press
    BY <1>2, <1>3, <1>4
  <2> QED BY <1>1, <2>1 DEF Presses
<1>6. \A b \in Buttons: Seen(P, c, at)[b] = seen(b)
  BY <1>1
<1> QED BY <1>3, <1>4, <1>5, <1>6

LEMMA AgedIs ==
    ASSUME NEW S \in Presses, NEW c, NEW q
    PROVE  /\ Aged(S, c, q) \in Presses
           /\ \A b \in Buttons \cap c.confirmed:
                LET p == Aged(S, c, q)[b]
                IN  /\ p.age = S[b].age /\ (p.wrapped <=> S[b].wrapped) /\ (p.mixed <=> S[b].mixed)
                    /\ p.given <=> S[b].given \/ Given(b, q)
<1> DEFINE Press == [age: Nat, wrapped: BOOLEAN, given: BOOLEAN, mixed: BOOLEAN]
           aged(b) == IF b \in c.confirmed THEN [S[b] EXCEPT !.given = @ \/ Given(b, q)] ELSE NoPress
<1>1. Aged(S, c, q) = [b \in Buttons |-> aged(b)]
  BY DEF Aged
<1>2. ASSUME NEW b \in Buttons, b \in c.confirmed
      PROVE  /\ aged(b) \in Press /\ aged(b).age = S[b].age /\ (aged(b).wrapped <=> S[b].wrapped)
             /\ aged(b).mixed <=> S[b].mixed
             /\ aged(b).given <=> S[b].given \/ Given(b, q)
  <2>1. PICK p \in Press: p = S[b]
    BY DEF Presses
  <2>2. PICK m \in BOOLEAN: m = (p.given \/ Given(b, q))
    OBVIOUS
  <2>3. PICK r: r = [p EXCEPT !.given = m]
    OBVIOUS
  <2>4. r \in Press /\ r.age = p.age /\ r.wrapped = p.wrapped /\ r.given = m /\ r.mixed = p.mixed
    BY <2>1, <2>3
  <2>5. aged(b) = r
    BY <1>2, <2>1, <2>2, <2>3
  <2> QED BY <2>1, <2>2, <2>4, <2>5
<1>3. \A b \in Buttons: b \notin c.confirmed => aged(b) \in Press
  BY DEF NoPress
<1> HIDE DEF aged
<1>4. Aged(S, c, q) \in Presses
  BY <1>1, <1>2, <1>3 DEF Presses
<1>5. \A b \in Buttons: Aged(S, c, q)[b] = aged(b)
  BY <1>1
<1> QED BY <1>2, <1>4, <1>5

\* The channels after a sample are sets of buttons.
LEMMA DebouncedIs ==
    ASSUME BtnTyped, NEW at, NEW g
    PROVE  Debounced(at, g).last \subseteq Buttons /\ Debounced(at, g).confirmed \subseteq Buttons
BY DEF BtnTyped, Debounced

\* A time that has come and did not wrap is as far away as it was put.
LEMMA Lasts ==
    ASSUME NEW at \in Nat, NEW down \in Nat, NEW d \in Nat, NEW age \in Nat,
           at >= (down + d) % Wrap, down + d < Wrap, at <= down + age
    PROVE  age >= d
<1>1. (down + d) % Wrap = down + d
  BY ThresholdsAreTicks
<1> QED BY <1>1

-----------------------------------------------------------------------------
\* app_button_poll: whatever the channels become, the presses stand, and what
\* is told of them is right.
PollDone(P, at) ==
    /\ Stands(ges', combo', ch'.confirmed) /\ ch'.last \subseteq Buttons /\ locked' \in BOOLEAN
    /\ press' \in Presses /\ PressesStand(press', ges', ch'.confirmed, at) /\ MixedInSession(press', combo', ch'.confirmed)
    /\ OneVoice'
LEMMA PollKept ==
    ASSUME BtnTyped, Stands(ges, combo, ch.confirmed), NEW P \in Presses, NEW at \in Times, NEW g, NEW read \in BOOLEAN,
           PressesStand(P, ges, ch.confirmed, at), MixedInSession(P, combo, ch.confirmed), Poll(at, g, P, read)
    PROVE  PollDone(P, at)
<1>1. PICK c: c = IF read THEN Debounced(at, g) ELSE ch
  OBVIOUS
<1>2. PICK r: r = Gestures(c, at)
  OBVIOUS
<1>3. PICK h: h = Handled(r.q)
  OBVIOUS
<1>4. PICK S: S = Seen(P, c, at)
  OBVIOUS
<1>5. /\ ch' = c /\ ges' = r.ges /\ combo' = r.combo
      /\ locked' \in IF Toggles(h) THEN BOOLEAN ELSE {locked}
      /\ said' = Told(S, h) /\ press' = Aged(S, c, h)
  BY <1>1, <1>2, <1>3, <1>4 DEF Poll
<1>6. c.last \subseteq Buttons /\ c.confirmed \subseteq Buttons
  <2>1. CASE read
    BY <1>1, <2>1, DebouncedIs
  <2>2. CASE ~read
    BY <1>1, <2>2 DEF BtnTyped
  <2> QED BY <2>1, <2>2
<1>7. PICK M \in SUBSET (Partners \cap ch.confirmed): M = {b \in Partners \cap ch.confirmed: P[b].mixed}
  OBVIOUS
<1>8. M # {} => combo.session
  BY <1>7 DEF MixedInSession
<1>9. GesturesDone(r, c, at, M)
  BY <1>2, <1>6, <1>8, GesturesAre
<1>10. h \subseteq r.q
  BY <1>3 DEF Handled
<1>11. /\ S \in Presses
       /\ \A b \in Buttons \ c.confirmed: S[b] = P[b]
       /\ \A b \in c.confirmed:
            /\ S[b].age = IF b \in ch.confirmed THEN P[b].age ELSE 0
            /\ S[b].wrapped <=> IF b \in ch.confirmed THEN P[b].wrapped ELSE NearWrap(at)
            /\ S[b].given <=> b \in ch.confirmed /\ P[b].given
            /\ S[b].mixed <=> (b \in ch.confirmed /\ P[b].mixed) \/ (b \in Partners /\ Partners \subseteq c.confirmed)
  BY <1>4, <1>6, SeenIs
<1>12. ch.confirmed \subseteq Buttons /\ ges \in Channels /\ locked \in BOOLEAN
  BY DEF BtnTyped
<1>13. \A b \in c.confirmed: at <= r.ges[b].down + S[b].age
  <2> SUFFICES ASSUME NEW b \in c.confirmed PROVE at <= r.ges[b].down + S[b].age
    OBVIOUS
  <2>1. CASE b \in ch.confirmed
    BY <2>1, <1>9, <1>11 DEF GesturesDone, PressesStand
  <2>2. CASE b \notin ch.confirmed
    BY <2>2, <1>9, <1>11 DEF GesturesDone, Times
  <2> QED BY <2>1, <2>2
<1>14. \A b \in c.confirmed: S[b].wrapped \/ \A d \in DOMAIN Long: r.ges[b].down + Long[d] < Wrap
  <2> SUFFICES ASSUME NEW b \in c.confirmed, ~S[b].wrapped, NEW d \in DOMAIN Long PROVE r.ges[b].down + Long[d] < Wrap
    OBVIOUS
  <2>1. CASE b \in ch.confirmed
    BY <2>1, <1>9, <1>11 DEF GesturesDone, PressesStand
  <2>2. CASE b \notin ch.confirmed
    <3>1. ~NearWrap(at) /\ r.ges[b].down = at
      BY <2>2, <1>9, <1>11 DEF GesturesDone
    <3>2. Long[d] \in Nat /\ at \in Int /\ Wrap \in Int
      BY ThresholdsAreTicks DEF Times
    <3> QED BY <3>1, <3>2 DEF NearWrap
  <2> QED BY <2>1, <2>2
<1>15. \A b \in c.confirmed: r.ges[b].state = "held" => ~S[b].given
  BY <1>9, <1>11 DEF GesturesDone, PressesStand
<1>16. \A b \in c.confirmed: S[b].mixed => b \in Partners /\ r.combo.session
  <2> SUFFICES ASSUME NEW b \in c.confirmed, S[b].mixed PROVE b \in Partners /\ r.combo.session
    OBVIOUS
  <2>1. CASE b \in ch.confirmed /\ P[b].mixed
    <3>1. b \in Partners
      BY <2>1 DEF MixedInSession
    <3>2. b \in M \cap c.confirmed
      BY <2>1, <3>1, <1>7
    <3> QED BY <3>1, <3>2, <1>9 DEF GesturesDone
  <2>2. CASE b \in Partners /\ Partners \subseteq c.confirmed
    BY <2>2, <1>9 DEF GesturesDone, Stands, ComboStands, BothDown
  <2> QED BY <2>1, <2>2, <1>11
<1>17. /\ press' \in Presses
       /\ \A b \in c.confirmed: /\ press'[b].age = S[b].age /\ (press'[b].wrapped <=> S[b].wrapped)
                                /\ press'[b].mixed <=> S[b].mixed
                                /\ press'[b].given <=> S[b].given \/ Given(b, h)
  BY <1>5, <1>6, <1>11, AgedIs
<1>18. \A b \in c.confirmed: Given(b, h) => r.ges[b].state = "long"
  <2> SUFFICES ASSUME NEW e \in h, e.id \in c.confirmed, e.kind # "toggle" PROVE r.ges[e.id].state = "long"
    BY DEF Given
  <2>1. ~ShortRightly(e, c, M)
    BY DEF ShortRightly, IsShort
  <2>2. ~ToggleRightly(e, r, c, at)
    BY DEF ToggleRightly, Event
  <2> QED BY <2>1, <2>2, <1>9, <1>10 DEF GesturesDone, LongRightly
<1>19. PressesStand(press', r.ges, c.confirmed, at) /\ MixedInSession(press', r.combo, c.confirmed)
  BY <1>13, <1>14, <1>15, <1>16, <1>17, <1>18 DEF PressesStand, MixedInSession
<1>20. ASSUME NEW e \in h
       PROVE  /\ e.kind # "toggle" => e.id \in Buttons /\ ~S[e.id].given /\ ~S[e.id].mixed
              /\ e.kind = "long" => S[e.id].age >= Long[e.id] \/ S[e.id].wrapped
              /\ e.kind = "toggle" => /\ e.id = "reset"
                                      /\ \E p \in Partners: S[p].age >= Long["combo"] \/ S[p].wrapped
  <2>1. CASE ShortRightly(e, c, M)
    <3>1. e.kind = "short" /\ e.id \in ch.confirmed \ c.confirmed /\ ges[e.id].state = "held" /\ e.id \notin M
      BY <2>1 DEF ShortRightly, IsShort, Event
    <3>2. S[e.id] = P[e.id] /\ ~P[e.id].given
      BY <3>1, <1>11, <1>12 DEF PressesStand
    <3>3. ~P[e.id].mixed
      BY <3>1, <1>7 DEF MixedInSession
    <3> QED BY <3>1, <3>2, <3>3, <1>12
  <2>2. CASE LongRightly(e, r, c, at)
    <3>1. /\ e.kind = "long" /\ e.id \in c.confirmed /\ (e.id \in ch.confirmed => ges[e.id].state = "held")
          /\ ~InSession(r.combo, e.id) /\ at >= (r.ges[e.id].down + Long[e.id]) % Wrap
      BY <2>2 DEF LongRightly, Event
    <3>2. ~S[e.id].given
      BY <3>1, <1>11 DEF PressesStand
    <3>3. ~S[e.id].mixed
      BY <3>1, <1>16 DEF InSession
    <3>4. S[e.id].age >= Long[e.id] \/ S[e.id].wrapped
      <4> SUFFICES ASSUME ~S[e.id].wrapped PROVE S[e.id].age >= Long[e.id]
        OBVIOUS
      <4>1. e.id \in DOMAIN Long /\ Long[e.id] \in Nat
        BY <3>1, <1>6, ThresholdsAreTicks
      <4>2. r.ges[e.id].down + Long[e.id] < Wrap /\ at <= r.ges[e.id].down + S[e.id].age
        BY <3>1, <4>1, <1>13, <1>14
      <4>3. r.ges[e.id].down \in Nat /\ S[e.id].age \in Nat /\ at \in Nat
        BY <3>1, <1>6, <1>9, <1>11 DEF GesturesDone, Stands, Channels, Presses, Times
      <4> QED BY <3>1, <4>1, <4>2, <4>3, Lasts
    <3> QED BY <3>1, <3>2, <3>3, <3>4, <1>6
  <2>3. CASE ToggleRightly(e, r, c, at)
    <3>1. e.kind = "toggle" /\ e.id = "reset" /\ Partners \subseteq c.confirmed
      BY <2>3 DEF ToggleRightly, Event
    <3>2. PICK p \in Partners: at >= (r.ges[p].down + Long["combo"]) % Wrap
      BY <2>3 DEF ToggleRightly
    <3>3. S[p].age >= Long["combo"] \/ S[p].wrapped
      <4> SUFFICES ASSUME ~S[p].wrapped PROVE S[p].age >= Long["combo"]
        OBVIOUS
      <4>1. "combo" \in DOMAIN Long /\ Long["combo"] \in Nat
        BY ThresholdsAreTicks
      <4>2. r.ges[p].down + Long["combo"] < Wrap /\ at <= r.ges[p].down + S[p].age
        BY <3>1, <4>1, <1>13, <1>14
      <4>3. r.ges[p].down \in Nat /\ S[p].age \in Nat /\ at \in Nat
        BY <3>1, <1>6, <1>9, <1>11 DEF GesturesDone, Stands, Channels, Presses, Times
      <4> QED BY <3>2, <4>1, <4>2, <4>3, Lasts
    <3> QED BY <3>1, <3>3
  <2> QED BY <2>1, <2>2, <2>3, <1>9, <1>10 DEF GesturesDone
<1>21. ASSUME NEW e \in h, NEW f \in h, e.id = f.id, e.kind # "toggle", f.kind # "toggle"
       PROVE  e = f
  <2>1. \A x \in h: x.kind # "toggle" => \/ x = Event(x.id, "short") /\ x.id \notin c.confirmed
                                         \/ x = Event(x.id, "long") /\ x.id \in c.confirmed
    <3> SUFFICES ASSUME NEW x \in h, x.kind # "toggle" PROVE \/ x = Event(x.id, "short") /\ x.id \notin c.confirmed
                                                             \/ x = Event(x.id, "long") /\ x.id \in c.confirmed
      OBVIOUS
    <3>1. ~ToggleRightly(x, r, c, at)
      BY DEF ToggleRightly, Event
    <3> QED BY <3>1, <1>9, <1>10 DEF GesturesDone, ShortRightly, IsShort, LongRightly
  <2> QED BY <2>1, <1>21
<1>22. OneVoice'
  <2> DEFINE of(e) == [event |-> e, of |-> S[e.id], other |-> IF e.kind = "toggle" THEN S["dispense"] ELSE NoPress]
  <2>1. said' = {of(e): e \in h}
    BY <1>5 DEF Told
  <2>2. ASSUME NEW e \in h PROVE Rightly(of(e))
    <3>1. of(e).event = e /\ of(e).of = S[e.id] /\ (e.kind = "toggle" => of(e).other = S["dispense"])
      OBVIOUS
    <3>2. e.kind = "toggle" => \/ S["reset"].age >= Long["combo"] \/ S["reset"].wrapped
                               \/ S["dispense"].age >= Long["combo"] \/ S["dispense"].wrapped
      BY <1>20 DEF Partners
    <3> HIDE DEF of
    <3> QED BY <3>1, <3>2, <1>20 DEF Rightly
  <2>3. \A e \in h: of(e).event = e
    OBVIOUS
  <2> HIDE DEF of
  <2>4. \A s \in said': Rightly(s)
    BY <2>1, <2>2
  <2>5. ASSUME NEW s \in said', NEW t \in said', s.event.id = t.event.id, s.event.kind # "toggle", t.event.kind # "toggle"
        PROVE  s = t
    <3>1. PICK e \in h: s = of(e)
      BY <2>1
    <3>2. PICK f \in h: t = of(f)
      BY <2>1
    <3>3. e = f
      BY <3>1, <3>2, <2>3, <2>5, <1>21
    <3> QED BY <3>1, <3>2, <3>3
  <2> QED BY <2>4, <2>5 DEF OneVoice, Rightly
<1>23. Stands(r.ges, r.combo, c.confirmed)
  BY <1>9 DEF GesturesDone
<1>24. locked' \in BOOLEAN
  BY <1>5, <1>12
<1> QED BY <1>5, <1>6, <1>17, <1>19, <1>22, <1>23, <1>24 DEF PollDone

-----------------------------------------------------------------------------
(* While the clock has not wrapped since the gate was set, an interrupt put *)
(* the gate no further than the debounce; the ticks since then have read    *)
(* what the finger is.                                                      *)
Late(b) == b \in IrqBacked /\ gateWrapped
GateIsNear ==
    ~gateWrapped /\ gate # 0 => \A b \in Buttons \cap IrqBacked: gate + calm[b] <= Now + Debounce
FingerIsSeen == \A b \in Buttons: calm[b] >= Debounce => (b \in ch.last <=> b \in finger) \/ Late(b)
BtnInv ==
    /\ BtnTyped /\ Stands(ges, combo, ch.confirmed)
    /\ PressesStand(press, ges, ch.confirmed, Now) /\ MixedInSession(press, combo, ch.confirmed) /\ OneVoice
    /\ GateIsNear /\ FingerIsSeen /\ PressSeen

\* The clock goes on by one, or wraps.
LEMMA ClockWraps ==
    ASSUME NEW n \in Nat
    PROVE  /\ n % Wrap \in Times /\ (n + 1) % Wrap \in Times
           /\ (n + 1) % Wrap = IF (n % Wrap) + 1 = Wrap THEN 0 ELSE (n % Wrap) + 1
<1>1. Wrap \in Nat /\ Wrap > 0
  BY ThresholdsAreTicks
<1>2. PICK w \in Nat: w = Wrap /\ w > 0
  BY <1>1
<1>3. n % w \in 0..(w - 1) /\ (n + 1) % w \in 0..(w - 1)
  BY <1>2
<1>4. PICK q \in Nat, r \in 0..(w - 1): n = w * q + r /\ r = n % w
  <2>1. PICK q \in Nat: q = n \div w
    BY <1>2
  <2>2. PICK r \in 0..(w - 1): r = n % w
    BY <1>3
  <2>3. n = w * q + r
    BY <1>2, <2>1, <2>2
  <2> QED BY <2>2, <2>3
<1>5. PICK p \in Nat, s \in 0..(w - 1): n + 1 = w * p + s /\ s = (n + 1) % w
  <2>1. PICK p \in Nat: p = (n + 1) \div w
    BY <1>2
  <2>2. PICK s \in 0..(w - 1): s = (n + 1) % w
    BY <1>3
  <2>3. n + 1 = w * p + s
    BY <1>2, <2>1, <2>2
  <2> QED BY <2>2, <2>3
<1>6. w * (p - q) = r + 1 - s
  BY <1>2, <1>4, <1>5
<1>7. p - q \in {0, 1}
  <2>1. p - q \in Int
    BY <1>4, <1>5
  <2>2. CASE p - q >= 2
    <3>1. w * (p - q) >= w * 2
      BY <1>2, <2>1, <2>2
    <3> QED BY <3>1, <1>2, <1>4, <1>5, <1>6
  <2>3. CASE p - q <= -1
    <3>1. w * (p - q) <= -w
      BY <1>2, <2>1, <2>3
    <3> QED BY <3>1, <1>2, <1>4, <1>5, <1>6
  <2> QED BY <2>1, <2>2, <2>3
<1>8. s = IF r + 1 = w THEN 0 ELSE r + 1
  <2>1. CASE p - q = 0
    <3>1. w * (p - q) = 0
      BY <2>1, <1>2
    <3> QED BY <3>1, <1>4, <1>5, <1>6
  <2>2. CASE p - q = 1
    <3>1. w * (p - q) = w
      BY <2>2, <1>2
    <3> QED BY <3>1, <1>2, <1>4, <1>5, <1>6
  <2> QED BY <1>7, <2>1, <2>2
<1> QED BY <1>2, <1>3, <1>4, <1>5, <1>8 DEF Times

LEMMA SumWraps ==
    ASSUME NEW a \in Nat, NEW d \in Nat
    PROVE  (a + d) % Wrap \in Times /\ (a + d) % Wrap <= a + d
<1>1. PICK w \in Nat: w = Wrap /\ w > 0
  BY ThresholdsAreTicks
<1>2. (a + d) % w \in 0..(w - 1) /\ (a + d) % w <= a + d
  BY <1>1
<1> QED BY <1>1, <1>2 DEF Times

\* The presses get older with the clock.
LEMMA OlderStand ==
    ASSUME BtnTyped, PressesStand(press, ges, ch.confirmed, Now), MixedInSession(press, combo, ch.confirmed),
           NEW at \in Nat, at <= Now + 1
    PROVE  /\ Older \in Presses /\ PressesStand(Older, ges, ch.confirmed, at) /\ MixedInSession(Older, combo, ch.confirmed)
<1> DEFINE Press == [age: Nat, wrapped: BOOLEAN, given: BOOLEAN, mixed: BOOLEAN]
           older(b) == IF b \in ch.confirmed THEN [press[b] EXCEPT !.age = @ + 1] ELSE press[b]
<1>1. Older = [b \in Buttons |-> older(b)]
  BY DEF Older
<1>2. ASSUME NEW b \in Buttons, b \in ch.confirmed
      PROVE  /\ older(b) \in Press /\ older(b).age = press[b].age + 1 /\ (older(b).wrapped <=> press[b].wrapped)
             /\ (older(b).given <=> press[b].given) /\ (older(b).mixed <=> press[b].mixed)
  <2>1. PICK p \in Press: p = press[b]
    BY DEF BtnTyped, Presses
  <2>2. PICK n \in Nat: n = p.age + 1
    OBVIOUS
  <2>3. PICK q: q = [p EXCEPT !.age = n]
    OBVIOUS
  <2>4. q \in Press /\ q.age = n /\ q.wrapped = p.wrapped /\ q.given = p.given /\ q.mixed = p.mixed
    BY <2>1, <2>3
  <2>5. older(b) = q
    BY <1>2, <2>1, <2>2, <2>3
  <2> QED BY <2>1, <2>2, <2>4, <2>5
<1>3. \A b \in Buttons: b \notin ch.confirmed => older(b) \in Press
  BY DEF BtnTyped, Presses
<1> HIDE DEF older
<1>4. Older \in Presses
  BY <1>1, <1>2, <1>3 DEF Presses
<1>5. \A b \in ch.confirmed: /\ Older[b].age = press[b].age + 1 /\ (Older[b].wrapped <=> press[b].wrapped)
                             /\ (Older[b].given <=> press[b].given) /\ (Older[b].mixed <=> press[b].mixed)
  BY <1>1, <1>2 DEF BtnTyped
<1>6. MixedInSession(Older, combo, ch.confirmed)
  BY <1>5 DEF MixedInSession
<1>7. ASSUME NEW b \in ch.confirmed PROVE at <= ges[b].down + Older[b].age
  <2>1. Now <= ges[b].down + press[b].age
    BY DEF PressesStand
  <2>2. ges[b].down \in Nat /\ press[b].age \in Nat /\ Now \in Int
    BY ClockWraps DEF BtnTyped, Channels, Presses, Times, Now
  <2> QED BY <2>1, <2>2, <1>5
<1>8. PressesStand(Older, ges, ch.confirmed, at)
  BY <1>5, <1>7 DEF PressesStand
<1> QED BY <1>4, <1>6, <1>8

\* A sample of a finger: who may be read is read, and confirmed when read twice.
LEMMA SampleIs ==
    ASSUME BtnTyped, NEW at, NEW g, NEW b \in Buttons
    PROVE  /\ MaySample(b, at, g) => /\ b \in Debounced(at, g).last <=> b \in finger
                                     /\ (b \in ch.last <=> b \in finger) => (b \in Debounced(at, g).confirmed <=> b \in finger)
           /\ ~MaySample(b, at, g) => /\ b \in Debounced(at, g).last <=> b \in ch.last
                                      /\ b \in Debounced(at, g).confirmed <=> b \in ch.confirmed
           /\ (b \in ch.last <=> b \in finger) /\ (b \in ch.confirmed <=> b \in finger)
                => (b \in Debounced(at, g).confirmed <=> b \in finger)
BY DEF BtnTyped, Debounced

LEMMA TickKept == ASSUME BtnInv, AppTick PROVE BtnInv'
<1> USE DEF BtnInv
<1>1. clock \in Nat /\ clock < MaxTicks /\ clock' = clock + 1 /\ clock' \in 0..MaxTicks
  BY BoundsAreNatural DEF AppTick, BtnTyped
<1>2. PICK at \in Times: at = Now'
  BY <1>1, ClockWraps DEF Now
<1>3. Now \in Nat /\ at \in Nat /\ at = IF Now + 1 = Wrap THEN 0 ELSE Now + 1
  BY <1>1, <1>2, ClockWraps DEF Now, Times
<1>4. Older \in Presses /\ PressesStand(Older, ges, ch.confirmed, at) /\ MixedInSession(Older, combo, ch.confirmed)
  BY <1>3, OlderStand
<1>5. PICK read \in BOOLEAN:
        /\ Poll(at, gate, Older, read)
        /\ calm' = [b \in Buttons |-> IF read /\ calm[b] <= Debounce THEN calm[b] + 1 ELSE calm[b]]
  BY <1>2 DEF AppTick
<1>6. PollDone(Older, at)
  BY <1>4, <1>5, PollKept
<1>7. UNCHANGED <<finger, irq, gate, moves>> /\ gateWrapped' = (gateWrapped \/ (at = 0 /\ gate # 0))
  BY <1>2 DEF AppTick
<1>8. gateWrapped' \in BOOLEAN
  BY <1>7
<1>9. ges' \in Channels /\ combo' \in Combos /\ ch'.confirmed \subseteq Buttons
  BY <1>6 DEF PollDone, Stands
<1>10. \A b \in Buttons: calm[b] \in Nat /\ calm'[b] = IF read /\ calm[b] <= Debounce THEN calm[b] + 1 ELSE calm[b]
  BY <1>5 DEF BtnTyped
<1>11. calm' \in [Buttons -> Nat]
  BY <1>5, ThresholdsAreTicks DEF BtnTyped
<1>12. BtnTyped'
  BY <1>1, <1>6, <1>7, <1>8, <1>9, <1>11 DEF BtnTyped, PollDone
<1>13. gate \in Nat /\ Debounce \in Nat /\ Debounce > 0
  BY ThresholdsAreTicks DEF BtnTyped, Times
<1>14. GateIsNear'
  <2> SUFFICES ASSUME ~gateWrapped', gate # 0, NEW b \in Buttons \cap IrqBacked PROVE gate + calm'[b] <= at + Debounce
    BY <1>2, <1>7 DEF GateIsNear
  <2>1. ~gateWrapped /\ at # 0
    BY <1>7
  <2>2. gate + calm[b] <= Now + Debounce /\ at = Now + 1
    BY <2>1, <1>3 DEF GateIsNear
  <2>3. calm'[b] \in {calm[b], calm[b] + 1} /\ calm[b] \in Nat
    BY <1>10
  <2> QED BY <2>2, <2>3, <1>3, <1>13
<1>15. ASSUME NEW b \in Buttons, ~Late(b)', calm'[b] >= Debounce
       PROVE  /\ b \in ch'.last <=> b \in finger
              /\ calm'[b] > Debounce => (b \in ch'.confirmed <=> b \in finger)
  <2>1. ~Late(b)
    BY <1>15, <1>7 DEF Late
  <2>2. CASE ~read
    <3>1. ch' = ch /\ calm'[b] = calm[b]
      BY <2>2, <1>5, <1>10 DEF Poll
    <3> QED BY <3>1, <2>1, <1>15 DEF FingerIsSeen, PressSeen, Late
  <2>3. CASE read
    <3>1. ch' = Debounced(at, gate)
      BY <2>3, <1>5 DEF Poll
    <3>2. /\ calm[b] \in Nat /\ calm[b] + 1 >= Debounce /\ (calm'[b] > Debounce => calm[b] >= Debounce)
      BY <2>3, <1>10, <1>13, <1>15
    <3>3. MaySample(b, at, gate)
      <4> SUFFICES ASSUME b \in IrqBacked, gate # 0 PROVE at >= gate
        BY DEF MaySample
      <4>1. ~gateWrapped /\ at # 0
        BY <1>15, <1>7 DEF Late
      <4>2. gate + calm[b] <= Now + Debounce /\ at = Now + 1
        BY <4>1, <1>3 DEF GateIsNear
      <4> QED BY <4>2, <3>2, <1>3, <1>13
    <3>4. calm'[b] > Debounce => (b \in ch.last <=> b \in finger)
      BY <2>1, <3>2 DEF FingerIsSeen
    <3> QED BY <3>1, <3>3, <3>4, SampleIs
  <2> QED BY <2>2, <2>3
<1>16. FingerIsSeen' /\ PressSeen'
  <2>1. Debounce' = Debounce /\ \A b \in Buttons: calm'[b] > Debounce => calm'[b] >= Debounce
    BY <1>11, <1>13
  <2> QED BY <2>1, <1>15, <1>7 DEF FingerIsSeen, PressSeen, Late
<1>17. PressesStand(press', ges', ch'.confirmed, Now')
  BY <1>2, <1>6 DEF PollDone
<1> QED BY <1>6, <1>12, <1>14, <1>16, <1>17 DEF PollDone

LEMMA IrqKept == ASSUME BtnInv, AppIrq PROVE BtnInv'
<1> USE DEF BtnInv
<1>1. Now \in Times /\ Now \in Nat /\ clock' = clock /\ Now' = Now
  <2>1. clock \in Nat
    BY BoundsAreNatural DEF BtnTyped
  <2> QED BY <2>1, ClockWraps DEF AppIrq, Now, Times
<1>2. PICK read \in BOOLEAN: Poll(Now, gate', press, read)
  BY DEF AppIrq
<1>3. press \in Presses
  BY DEF BtnTyped
<1>4. PollDone(press, Now)
  BY <1>1, <1>2, <1>3, PollKept
<1>5. /\ irq' = FALSE /\ gate' = NotifyIrq(gate, Now) /\ gateWrapped' = (gateWrapped /\ gate' = gate)
      /\ calm' = [b \in Buttons |-> IF b \in IrqBacked THEN 0 ELSE calm[b]] /\ UNCHANGED <<clock, finger, moves>>
  BY DEF AppIrq
<1>6. gate' \in Times /\ gate' \in Nat /\ gate \in Nat /\ Debounce \in Nat /\ Debounce > 0
      /\ (gate' = gate \/ gate' <= Now + Debounce)
  <2>1. Debounce \in Nat /\ Debounce > 0 /\ gate \in Times
    BY ThresholdsAreTicks DEF BtnTyped
  <2>2. (Now + Debounce) % Wrap \in Times /\ (Now + Debounce) % Wrap <= Now + Debounce
    BY <1>1, <2>1, SumWraps
  <2> QED BY <1>5, <2>1, <2>2 DEF NotifyIrq, Times
<1>7. calm' \in [Buttons -> Nat] /\ \A b \in Buttons: calm'[b] = IF b \in IrqBacked THEN 0 ELSE calm[b]
  BY <1>5 DEF BtnTyped
<1>8. gateWrapped' \in BOOLEAN
  BY <1>5
<1>9. ges' \in Channels /\ combo' \in Combos /\ ch'.confirmed \subseteq Buttons
  BY <1>4 DEF PollDone, Stands
<1>10. BtnTyped'
  BY <1>4, <1>5, <1>6, <1>7, <1>8, <1>9 DEF BtnTyped, PollDone
<1>11. GateIsNear'
  <2> SUFFICES ASSUME ~gateWrapped', gate' # 0, NEW b \in Buttons \cap IrqBacked PROVE gate' + 0 <= Now + Debounce
    BY <1>1, <1>7 DEF GateIsNear
  <2>1. CASE gate' = gate
    <3>1. ~gateWrapped
      BY <2>1, <1>5
    <3>2. gate + calm[b] <= Now + Debounce /\ calm[b] \in Nat
      BY <2>1, <3>1 DEF GateIsNear, BtnTyped
    <3> QED BY <2>1, <3>2, <1>1, <1>6
  <2>2. CASE gate' # gate
    <3>1. PICK x \in Nat: x = gate'
      BY <1>6
    <3>2. x <= Now + Debounce
      BY <2>2, <3>1, <1>6
    <3> QED BY <3>1, <3>2
  <2> QED BY <2>1, <2>2
<1>12. ASSUME NEW b \in Buttons, calm'[b] >= Debounce
       PROVE  /\ b \in ch'.last <=> b \in finger
              /\ calm'[b] > Debounce => (b \in ch'.confirmed <=> b \in finger)
  <2>1. b \notin IrqBacked /\ calm'[b] = calm[b]
    BY <1>6, <1>7, <1>12
  <2>2. /\ b \in ch.last <=> b \in finger
        /\ calm[b] > Debounce => (b \in ch.confirmed <=> b \in finger)
    BY <2>1, <1>12 DEF FingerIsSeen, PressSeen, Late
  <2>3. CASE ~read
    BY <2>1, <2>2, <2>3, <1>2 DEF Poll
  <2>4. CASE read
    <3>1. ch' = Debounced(Now, gate')
      BY <2>4, <1>2 DEF Poll
    <3>2. MaySample(b, Now, gate')
      BY <2>1 DEF MaySample
    <3> QED BY <2>1, <2>2, <3>1, <3>2, SampleIs
  <2> QED BY <2>3, <2>4
<1>13. FingerIsSeen' /\ PressSeen'
  <2>1. \A b \in Buttons: calm'[b] > Debounce => calm'[b] >= Debounce
    BY <1>6, <1>7 DEF BtnTyped
  <2> QED BY <2>1, <1>12, <1>5 DEF FingerIsSeen, PressSeen
<1>14. PressesStand(press', ges', ch'.confirmed, Now')
  BY <1>1, <1>4 DEF PollDone
<1> QED BY <1>4, <1>10, <1>11, <1>13, <1>14 DEF PollDone

LEMMA FingerKept == ASSUME BtnInv, NEW f \in Buttons, Finger(f) PROVE BtnInv'
<1> USE DEF BtnInv
<1>1. /\ UNCHANGED <<clock, ch, gate, ges, combo, locked, press, gateWrapped>> /\ said' = {}
      /\ calm' = [calm EXCEPT ![f] = 0] /\ finger' = (finger \ {f}) \cup ({f} \ finger)
      /\ moves' \in 0..MaxMoves /\ irq' \in BOOLEAN
  BY BoundsAreNatural DEF Finger, BtnTyped
<1>2. calm' \in [Buttons -> Nat] /\ calm'[f] = 0 /\ \A b \in Buttons \ {f}: calm'[b] = calm[b]
  BY <1>1 DEF BtnTyped
<1>3. BtnTyped'
  BY <1>1, <1>2 DEF BtnTyped
<1>4. Debounce \in Nat /\ Debounce > 0
  BY ThresholdsAreTicks
<1>5. GateIsNear'
  <2> SUFFICES ASSUME ~gateWrapped, gate # 0, NEW b \in Buttons \cap IrqBacked PROVE gate + calm'[b] <= Now + Debounce
    BY <1>1 DEF GateIsNear, Now
  <2>1. gate + calm[b] <= Now + Debounce
    BY DEF GateIsNear
  <2>2. gate \in Nat /\ calm[b] \in Nat /\ clock \in Nat
    BY BoundsAreNatural DEF BtnTyped, Times
  <2>3. Now \in Nat
    BY <2>2, ClockWraps DEF Now, Times
  <2> QED BY <2>1, <2>2, <2>3, <1>2, <1>4
<1>6. FingerIsSeen' /\ PressSeen'
  <2>1. \A b \in Buttons \ {f}: b \in finger' <=> b \in finger
    BY <1>1
  <2>2. ~(calm'[f] >= Debounce) /\ ~(calm'[f] > Debounce)
    BY <1>2, <1>4
  <2> QED BY <1>1, <1>2, <2>1, <2>2 DEF FingerIsSeen, PressSeen, Late
<1>7. OneVoice'
  BY <1>1 DEF OneVoice
<1> QED BY <1>1, <1>3, <1>5, <1>6, <1>7 DEF Now

LEMMA BtnKept == ASSUME BtnInv, [BtnNext]_btnVars PROVE BtnInv'
<1>1. CASE UNCHANGED btnVars
  BY <1>1 DEF BtnInv, btnVars, BtnTyped, Now, OneVoice, GateIsNear, FingerIsSeen, PressSeen, Late
<1> QED BY <1>1, TickKept, IrqKept, FingerKept DEF BtnNext

LEMMA BtnBegins == BtnInit => BtnInv
<1> SUFFICES ASSUME BtnInit PROVE BtnInv
  OBVIOUS
<1> USE DEF BtnInit
<1>0. Wrap \in Nat /\ Wrap > 0 /\ 0 \in Times
  BY ThresholdsAreTicks DEF Times
<1>1. ges \in Channels /\ combo \in Combos /\ press \in Presses /\ calm \in [Buttons -> Nat]
  BY <1>0 DEF Channels, Combos, Presses, NoPress, NoCombo
<1>2. BtnTyped
  <2>1. locked \in BOOLEAN /\ irq \in BOOLEAN /\ gateWrapped \in BOOLEAN
    OBVIOUS
  <2>2. clock \in 0..MaxTicks /\ moves \in 0..MaxMoves /\ gate \in Times
    BY <1>0, BoundsAreNatural
  <2>3. finger \subseteq Buttons /\ ch.last \subseteq Buttons /\ ch.confirmed \subseteq Buttons
    OBVIOUS
  <2> QED BY <1>1, <2>1, <2>2, <2>3 DEF BtnTyped
<1>3. Stands(ges, combo, ch.confirmed)
  <2>1. ~BothDown({})
    BY DEF BothDown, Partners
  <2> QED BY <1>1, <2>1 DEF Stands, ComboStands, NoCombo
<1> QED BY <1>2, <1>3, ThresholdsAreTicks
        DEF BtnInv, PressesStand, MixedInSession, OneVoice, GateIsNear, FingerIsSeen, PressSeen

\* However fingers move and whenever interrupts come, on any buttons and with
\* any thresholds: a press is told once and as what it was, and one that lasts
\* is seen, with the exceptions of a clock that wraps (button_input.c,
\* button_gesture.c, app.c).
THEOREM PressIsHeardOnce == BtnSpec => []PressHeardOnce
<1>1. BtnInv => PressHeardOnce
  <2> SUFFICES ASSUME BtnInv PROVE BtnTypeOK
    BY DEF BtnInv, PressHeardOnce
  <2>1. combo.start \in Times /\ (combo.active => combo.session)
    BY DEF BtnInv, Stands, ComboStands, Combos
  <2>2. \A b \in Buttons: /\ ges[b].state \in {"idle", "held", "long"} /\ ges[b].down \in Times
                          /\ ges[b].state = "idle" <=> b \notin ch.confirmed
    BY DEF BtnInv, Stands, Channels
  <2> QED BY <2>1, <2>2 DEF BtnInv, BtnTyped, BtnTypeOK, Times
<1> QED BY <1>1, BtnBegins, BtnKept, PTL DEF BtnSpec

-----------------------------------------------------------------------------
(***************************************************************************)
(* Calendar: the arithmetic of the code is brought to closed forms, which  *)
(* the days of the walk go through; and it is summer when the day is past  *)
(* the turn that the rule names, in its own year.                          *)
(***************************************************************************)
(* The days before a year and before a month, in closed form. *)
\* Every fourth year is a leap year: 2000 is one, 2100 is not reached.
LEMMA LeapIs == ASSUME NEW y, y \in 1970..2099 PROVE LeapYear(y) <=> y % 4 = 0
<1>1. y % 100 = 0 => y = 2000
  OBVIOUS
<1> QED BY <1>1 DEF LeapYear
LEMMA LeapsAre ==
    ASSUME NEW y \in Years
    PROVE  Cardinality({x \in 1970..(y - 1): LeapYear(x)}) = (y - 1969) \div 4
<1> DEFINE n == (y - 1969) \div 4
           S == {x \in 1970..(y - 1): LeapYear(x)}
           f == [k \in 1..n |-> 1968 + 4 * k]
<1>1. y \in Int /\ y >= 1970 /\ y <= 2100
  BY DEF Years
<1>2. n \in Nat /\ 4 * n <= y - 1969 /\ y - 1969 < 4 * n + 4
  BY <1>1
<1>3. \A x \in 1970..(y - 1): x \in S <=> x % 4 = 0
  BY <1>1, LeapIs
<1>4. f \in [1..n -> S]
  <2> SUFFICES ASSUME NEW k \in 1..n PROVE 1968 + 4 * k \in S
    OBVIOUS
  <2>1. 1968 + 4 * k \in 1970..(y - 1) /\ (1968 + 4 * k) % 4 = 0
    BY <1>1, <1>2
  <2> QED BY <2>1, <1>3
<1>5. \A a, b \in 1..n: f[a] = f[b] => a = b
  OBVIOUS
<1>6. \A x \in S: \E k \in 1..n: f[k] = x
  <2> SUFFICES ASSUME NEW x \in S PROVE \E k \in 1..n: f[k] = x
    OBVIOUS
  <2>1. x \in 1970..(y - 1) /\ x % 4 = 0
    BY <1>3
  <2>2. PICK q \in Nat: q = x \div 4 /\ x = 4 * q
    BY <1>1, <2>1
  <2>3. q - 492 \in 1..n /\ 1968 + 4 * (q - 492) = x
    BY <1>1, <1>2, <2>1, <2>2
  <2> QED BY <2>3
<1>7. ExistsBijection(1..n, S)
  <2>1. DOMAIN f = 1..n
    OBVIOUS
  <2> HIDE DEF f, n, S
  <2>2. f \in Injection(1..n, S)
    BY <1>4, <1>5, <2>1 DEF Injection, IsInjective
  <2>3. f \in Surjection(1..n, S)
    BY <1>4, <1>6 DEF Surjection
  <2> QED BY <2>2, <2>3 DEF ExistsBijection, Bijection
<1> HIDE DEF n, S
<1>8. Cardinality(S) = n
  BY <1>2, <1>7, FS_CountingElements
<1> QED BY <1>8 DEF n, S

LEMMA YearStartIs == ASSUME NEW y \in Years PROVE YearStart[y] = 365 * (y - 1970) + (y - 1969) \div 4
BY LeapsAre DEF YearStart
LEMMA YearGrows ==
    ASSUME NEW y, y \in 1970..2099
    PROVE  YearStart[y] \in Nat /\ YearStart[y + 1] = YearStart[y] + YearDays(y)
<1>1. y \in Years /\ y + 1 \in Years
  BY DEF Years
<1> QED BY <1>1, YearStartIs, LeapIs DEF YearDays
LEMMA YearsApart ==
    ASSUME NEW y \in Years, NEW z \in Years, y < z
    PROVE  YearStart[y] + 365 <= YearStart[z] /\ (y < 2100 => YearStart[y + 1] <= YearStart[z])
<1>1. y \in Int /\ z \in Int /\ y >= 1970 /\ z <= 2100 /\ y + 1 \in Years
  BY DEF Years
<1> QED BY <1>1, YearStartIs
InYear(n, y) == y \in 1970..2099 /\ n \in Int /\ YearStart[y] <= n /\ n < YearStart[y + 1]
LEMMA YearOfIs ==
    ASSUME NEW y, NEW n, InYear(n, y)
    PROVE  YearOf(n) = y
<1>0. y \in 1970..2099 /\ n \in Int /\ YearStart[y] <= n /\ n < YearStart[y + 1]
  BY DEF InYear
<1>1. ASSUME NEW z \in 1970..2099, YearStart[z] <= n, n < YearStart[z + 1] PROVE z = y
  <2>1. y \in Years /\ z \in Years /\ y + 1 \in Years /\ z + 1 \in Years
    BY <1>0 DEF Years
  <2>2. YearStart[y] \in Int /\ YearStart[z] \in Int /\ YearStart[y + 1] \in Int /\ YearStart[z + 1] \in Int
    BY <2>1, YearStartIs
  <2>3. CASE y < z
    BY <2>1, <2>2, <2>3, <1>0, <1>1, YearsApart
  <2>4. CASE z < y
    BY <2>1, <2>2, <2>4, <1>0, <1>1, YearsApart
  <2> QED BY <1>0, <2>3, <2>4
<1> QED BY <1>0, <1>1 DEF YearOf

(* The days of a year before each month, without the leap day. *)
Firsts == <<0, 31, 59, 90, 120, 151, 181, 212, 243, 273, 304, 334, 365>>
LEMMA MonthStartIs ==
    ASSUME NEW leap \in BOOLEAN, NEW m, m \in 1..13
    PROVE  MonthStart[leap][m] = Firsts[m] + (IF leap /\ m > 2 THEN 1 ELSE 0)
<1> DEFINE y == IF leap THEN 2000 ELSE 2001
           F == [n \in 1..13 |-> Firsts[n] + (IF leap /\ n > 2 THEN 1 ELSE 0)]
           R(g) == [n \in 1..13 |-> IF n = 1 THEN 0 ELSE g[n - 1] + DaysInMonth(y, n - 1)]
<1>1. LeapYear(y) <=> leap
  BY DEF LeapYear
<1>2. \A n \in 2..13: F[n] = F[n - 1] + DaysInMonth(y, n - 1)
  <2> SUFFICES ASSUME NEW n \in 2..13 PROVE F[n] = F[n - 1] + DaysInMonth(y, n - 1)
    OBVIOUS
  <2> HIDE DEF y
  <2>1. n \in {2, 3, 4, 5, 6, 7, 8, 9, 10, 11, 12, 13}
    OBVIOUS
  <2> QED BY <2>1, <1>1 DEF Firsts, DaysInMonth
<1>3. F = R(F)
  BY <1>2 DEF Firsts
<1>4. ASSUME NEW g, g = R(g) PROVE g = F
  <2> HIDE DEF y
  <2>1. g = [n \in 1..13 |-> g[n]] /\ F = [n \in 1..13 |-> F[n]]
    BY <1>4
  <2>2. g[1] = 0 /\ F[1] = 0
    BY <1>4 DEF Firsts
  <2>3. \A n \in 2..13: g[n] = g[n - 1] + DaysInMonth(y, n - 1)
    BY <1>4
  <2> HIDE DEF F, R
  <2>4. \A n \in 2..13: g[n - 1] = F[n - 1] => g[n] = F[n]
    BY <2>3, <1>2
  <2>5. g[2] = F[2] /\ g[3] = F[3] /\ g[4] = F[4] /\ g[5] = F[5]
    BY <2>2, <2>4
  <2>6. g[6] = F[6] /\ g[7] = F[7] /\ g[8] = F[8] /\ g[9] = F[9]
    BY <2>5, <2>4
  <2>7. g[10] = F[10] /\ g[11] = F[11] /\ g[12] = F[12] /\ g[13] = F[13]
    BY <2>6, <2>4
  <2>8. \A n \in 1..13: n \in {1, 2, 3, 4, 5, 6, 7, 8, 9, 10, 11, 12, 13}
    OBVIOUS
  <2>9. \A n \in 1..13: g[n] = F[n]
    BY <2>2, <2>5, <2>6, <2>7, <2>8
  <2> QED BY <2>1, <2>9
<1>5. MonthStart[leap] = CHOOSE g: g = R(g)
  BY DEF MonthStart
<1> HIDE DEF F, R
<1>6. MonthStart[leap] = F
  BY <1>3, <1>4, <1>5
<1> QED BY <1>6 DEF F

\* The days of a month go up to the next one's first, and no month overlaps.
LEMMA MonthGrows ==
    ASSUME NEW y \in Years, NEW m, m \in 1..12
    PROVE  /\ DaysInMonth(y, m) \in 28..31
           /\ MonthStart[LeapYear(y)][m] \in Nat
           /\ MonthStart[LeapYear(y)][m + 1] = MonthStart[LeapYear(y)][m] + DaysInMonth(y, m)
           /\ MonthStart[LeapYear(y)][1] = 0 /\ MonthStart[LeapYear(y)][13] = YearDays(y)
<1>1. LeapYear(y) \in BOOLEAN
  BY DEF LeapYear
<1>2. PICK leap \in BOOLEAN: leap = LeapYear(y)
  BY <1>1
<1>3. m \in {1, 2, 3, 4, 5, 6, 7, 8, 9, 10, 11, 12} /\ m + 1 \in 1..13
  OBVIOUS
<1>4. /\ MonthStart[leap][m] = Firsts[m] + (IF leap /\ m > 2 THEN 1 ELSE 0)
      /\ MonthStart[leap][m + 1] = Firsts[m + 1] + (IF leap /\ m + 1 > 2 THEN 1 ELSE 0)
      /\ MonthStart[leap][1] = Firsts[1] /\ MonthStart[leap][13] = Firsts[13] + (IF leap THEN 1 ELSE 0)
  BY <1>3, MonthStartIs DEF Firsts
<1> QED BY <1>2, <1>3, <1>4 DEF Firsts, DaysInMonth, YearDays
LEMMA MonthsApart ==
    ASSUME NEW y \in Years, NEW m, m \in 1..13, NEW n, n \in 1..13, m < n
    PROVE  MonthStart[LeapYear(y)][m] + DaysInMonth(y, m) <= MonthStart[LeapYear(y)][n]
<1>1. LeapYear(y) \in BOOLEAN
  BY DEF LeapYear
<1>2. PICK leap \in BOOLEAN: leap = LeapYear(y)
  BY <1>1
<1>3. m \in {1, 2, 3, 4, 5, 6, 7, 8, 9, 10, 11, 12} /\ n \in {2, 3, 4, 5, 6, 7, 8, 9, 10, 11, 12, 13}
  OBVIOUS
<1>4. /\ MonthStart[leap][m] = Firsts[m] + (IF leap /\ m > 2 THEN 1 ELSE 0)
      /\ MonthStart[leap][n] = Firsts[n] + (IF leap /\ n > 2 THEN 1 ELSE 0)
  BY MonthStartIs
<1> QED BY <1>2, <1>3, <1>4 DEF Firsts, DaysInMonth

-----------------------------------------------------------------------------
(* A day number and its date are each other's inverse. *)
Civil(y, m, d) == y \in 1970..2099 /\ m \in 1..12 /\ d \in 1..DaysInMonth(y, m)
LEMMA CivilHas ==
    ASSUME NEW y, NEW m, NEW d, Civil(y, m, d)
    PROVE  y \in 1970..2099 /\ y \in Years /\ m \in 1..12 /\ d \in 1..DaysInMonth(y, m) /\ d \in 1..31
BY DEF Civil, Years, DaysInMonth
LEMMA DaysInMonthIs == \A y, m: DaysInMonth(y, m) \in 28..31
BY DEF DaysInMonth
LEMMA WithinYear ==
    ASSUME NEW y \in Years, NEW m, m \in 1..12, NEW d, d \in 1..DaysInMonth(y, m)
    PROVE  /\ DaysInMonth(y, m) \in 28..31 /\ d \in 1..31
           /\ MonthStart[LeapYear(y)][m] \in Nat
           /\ MonthStart[LeapYear(y)][m] + d <= YearDays(y)
<1>1. /\ DaysInMonth(y, m) \in 28..31 /\ MonthStart[LeapYear(y)][m] \in Nat
      /\ MonthStart[LeapYear(y)][13] = YearDays(y)
  BY MonthGrows
<1>2. YearDays(y) \in {365, 366} /\ m < 13 /\ 13 \in 1..13 /\ m \in 1..13
  BY DEF YearDays
<1>3. MonthStart[LeapYear(y)][m] + DaysInMonth(y, m) <= YearDays(y)
  BY <1>1, <1>2, MonthsApart
<1> QED BY <1>1, <1>3, <1>2
InOrder(y, n, m) == /\ MonthStart[LeapYear(y)][n + 1] <= MonthStart[LeapYear(y)][m]
                    /\ MonthStart[LeapYear(y)][n] + DaysInMonth(y, n) <= MonthStart[LeapYear(y)][m]
LEMMA MonthsInOrder ==
    ASSUME NEW y, y \in Years, NEW m, m \in 1..12, NEW n, n \in 1..12, n < m
    PROVE  InOrder(y, n, m)
<1>1. MonthStart[LeapYear(y)][n + 1] = MonthStart[LeapYear(y)][n] + DaysInMonth(y, n)
  BY MonthGrows
<1>2. n \in 1..13 /\ m \in 1..13
  OBVIOUS
<1>3. MonthStart[LeapYear(y)][n] + DaysInMonth(y, n) <= MonthStart[LeapYear(y)][m]
  BY <1>2, MonthsApart
<1> QED BY <1>1, <1>3 DEF InOrder
LEMMA DayOfIs ==
    ASSUME NEW y, NEW m, NEW d, Civil(y, m, d)
    PROVE  /\ DayOf(y, m, d) \in Nat
           /\ YearStart[y] <= DayOf(y, m, d) /\ DayOf(y, m, d) < YearStart[y + 1]
           /\ YearOf(DayOf(y, m, d)) = y
<1>1. y \in 1970..2099 /\ y \in Years /\ m \in 1..12 /\ d \in 1..DaysInMonth(y, m)
  BY CivilHas
<1>2. YearStart[y] \in Nat /\ YearStart[y + 1] = YearStart[y] + YearDays(y) /\ YearDays(y) \in Nat
  <2>1. YearDays(y) \in Nat
    BY DEF YearDays
  <2> QED BY <1>1, <2>1, YearGrows
<1>3. MonthStart[LeapYear(y)][m] \in Nat /\ MonthStart[LeapYear(y)][m] + d <= YearDays(y) /\ d \in 1..31
  BY <1>1, WithinYear
<1>4. /\ DayOf(y, m, d) \in Nat
      /\ YearStart[y] <= DayOf(y, m, d) /\ DayOf(y, m, d) < YearStart[y + 1]
  BY <1>2, <1>3 DEF DayOf
<1>5. YearOf(DayOf(y, m, d)) = y
  <2>1. DayOf(y, m, d) \in Int
    BY <1>4
  <2>2. PICK n: n = DayOf(y, m, d)
    OBVIOUS
  <2>3. InYear(n, y)
    BY <2>1, <2>2, <1>1, <1>4 DEF InYear
  <2> QED BY <2>2, <2>3, YearOfIs
<1> QED BY <1>4, <1>5
IsTold(y, m, d, q) ==
    ToCivil(DayOf(y, m, d) * 1440 + q) =
        [y |-> y, m |-> m, d |-> d, h |-> q \div 60, min |-> q % 60, wday |-> (DayOf(y, m, d) + 4) % 7]
LEMMA CivilIs ==
    ASSUME NEW y, NEW m, NEW d, Civil(y, m, d), NEW q, q \in 0..1439
    PROVE  IsTold(y, m, d, q)
<1>0. y \in 1970..2099 /\ y \in Years /\ m \in 1..12 /\ d \in 1..DaysInMonth(y, m)
  BY CivilHas
<1>1. PICK n \in Nat: n = DayOf(y, m, d)
  <2>1. DayOf(y, m, d) \in Nat
    BY DayOfIs
  <2> QED BY <2>1
<1>2. PICK t \in Nat: t = n * 1440 + q
  BY <1>1
<1>3. t \div 1440 = n /\ t % 1440 = q /\ t % 60 = q % 60
  BY <1>2
<1>4. YearOf(n) = y /\ y \in Years
  <2>1. YearOf(DayOf(y, m, d)) = y
    BY DayOfIs
  <2> QED BY <1>0, <1>1, <2>1
<1> DEFINE ms(x) == MonthStart[LeapYear(y)][x]
           rest == n - YearStart[y]
<1>5. YearStart[y] \in Nat
  BY <1>0, YearGrows
<1>6. ms(m) \in Nat /\ d \in 1..31 /\ rest = ms(m) + d - 1 /\ rest - ms(m) + 1 = d
  BY <1>0, <1>1, <1>4, <1>5, WithinYear DEF DayOf
<1>7. ms(m) <= rest /\ rest < ms(m + 1)
  <2>1. ms(m + 1) = ms(m) + DaysInMonth(y, m) /\ DaysInMonth(y, m) \in Nat
    BY <1>0, <1>4, MonthGrows
  <2> QED BY <1>0, <2>1, <1>6
<1>8. ASSUME NEW x, x \in 1..12, ms(x) <= rest, rest < ms(x + 1) PROVE x = m
  <2>0. ms(x) \in Nat /\ ms(x + 1) \in Nat
    <3>1. ms(x + 1) = ms(x) + DaysInMonth(y, x) /\ ms(x) \in Nat /\ DaysInMonth(y, x) \in 28..31
      BY <1>0, <1>4, <1>8, MonthGrows
    <3> QED BY <3>1
  <2>1. CASE x < m
    <3>1. ms(x + 1) <= ms(m)
      <4>1. InOrder(y, x, m)
        BY <2>1, <1>0, <1>8, MonthsInOrder
      <4> QED BY <4>1 DEF InOrder
    <3> QED BY <3>1, <2>0, <1>6, <1>8
  <2>2. CASE x > m
    <3>1. ms(m) + DaysInMonth(y, m) <= ms(x) /\ DaysInMonth(y, m) \in 28..31
      <4>1. InOrder(y, m, x)
        BY <2>2, <1>0, <1>8, MonthsInOrder
      <4> QED BY <4>1, DaysInMonthIs DEF InOrder
    <3> QED BY <3>1, <1>0, <2>0, <1>6, <1>8
  <2> QED BY <1>0, <1>8, <2>1, <2>2
<1>9. MonthOf(y, rest) = m
  BY <1>0, <1>7, <1>8 DEF MonthOf
<1>10. (n + 4) % 7 = (DayOf(y, m, d) + 4) % 7 /\ DayOf(y, m, d) * 1440 + q = t
  BY <1>1, <1>2
<1>11. ToCivil(t) = [y |-> y, m |-> m, d |-> d, h |-> q \div 60, min |-> q % 60, wday |-> (n + 4) % 7]
  <2> HIDE DEF rest
  <2> QED BY <1>3, <1>4, <1>6, <1>9 DEF ToCivil, rest
<1>12. ToCivil(DayOf(y, m, d) * 1440 + q) =
           [y |-> y, m |-> m, d |-> d, h |-> q \div 60, min |-> q % 60, wday |-> (DayOf(y, m, d) + 4) % 7]
  BY <1>10, <1>11
<1> HIDE DEF ms, rest
<1> QED BY <1>12 DEF IsTold

\* The date after this one has the next number.
LEMMA TomorrowIs ==
    ASSUME NEW y, NEW m, NEW d, Civil(y, m, d)
    PROVE  /\ d < DaysInMonth(y, m) => DayOf(y, m, d + 1) = DayOf(y, m, d) + 1
           /\ d = DaysInMonth(y, m) /\ m < 12 => DayOf(y, m + 1, 1) = DayOf(y, m, d) + 1
           /\ d = DaysInMonth(y, m) /\ m = 12 => YearStart[y + 1] = DayOf(y, m, d) + 1
<1>1. y \in 1970..2099 /\ y \in Years /\ m \in 1..12 /\ d \in 1..DaysInMonth(y, m) /\ d \in 1..31
  BY CivilHas
<1>2. YearStart[y] \in Nat /\ YearStart[y + 1] = YearStart[y] + YearDays(y) /\ YearDays(y) \in Nat
  <2>1. YearDays(y) \in Nat
    BY DEF YearDays
  <2> QED BY <1>1, <2>1, YearGrows
<1>3. /\ DaysInMonth(y, m) \in Nat /\ MonthStart[LeapYear(y)][m] \in Nat /\ MonthStart[LeapYear(y)][13] = YearDays(y)
      /\ MonthStart[LeapYear(y)][m + 1] = MonthStart[LeapYear(y)][m] + DaysInMonth(y, m)
  BY <1>1, MonthGrows
<1>4. d \in Nat
  BY <1>1, <1>3
<1> QED BY <1>2, <1>3, <1>4 DEF DayOf
LEMMA NewYearIs == ASSUME NEW y, y \in 1970..2099 PROVE DayOf(y, 1, 1) = YearStart[y] /\ 1 \in 1..DaysInMonth(y, 1)
<1>1. y \in Years /\ 1 \in 1..12
  BY DEF Years
<1>2. MonthStart[LeapYear(y)][1] = 0 /\ DaysInMonth(y, 1) \in 28..31
  BY <1>1, MonthGrows
<1>3. YearStart[y] \in Nat
  BY YearGrows
<1> QED BY <1>2, <1>3 DEF DayOf

-----------------------------------------------------------------------------
(* Zeller's congruence counts the weekdays from Saturday: a term for the    *)
(* month, and one for the year, which goes with the days before it.         *)
Zeller(z) == (z % 100) + (z % 100) \div 4 + (z \div 100) \div 4 + 5 * (z \div 100)
LEMMA ZellerIs ==
    ASSUME NEW c \in 0..32, NEW r \in 0..3, NEW z \in Int, z = 1968 + 4 * c + r
    PROVE  Zeller(z) = 5 * c + r + 65 + (IF c < 8 THEN 119 ELSE 0)
<1>1. CASE c < 8
  <2>1. z % 100 = 68 + 4 * c + r /\ z \div 100 = 19
    BY <1>1
  <2>2. (z % 100) \div 4 = 17 + c
    BY <2>1, <1>1
  <2> QED BY <2>1, <2>2, <1>1 DEF Zeller
<1>2. CASE c >= 8
  <2>1. z % 100 = 4 * (c - 8) + r /\ z \div 100 = 20
    BY <1>2
  <2>2. (z % 100) \div 4 = c - 8
    BY <2>1, <1>2
  <2> QED BY <2>1, <2>2, <1>2 DEF Zeller
<1> QED BY <1>1, <1>2
LEMMA SameWeekday == \A a, b, j \in Int: a = b + 7 * j => a % 7 = b % 7
OBVIOUS
LEMMA WeekdayIs ==
    ASSUME NEW y, NEW m, NEW d, Civil(y, m, d)
    PROVE  Weekday(y, m, d) = (DayOf(y, m, d) + 5) % 7
<1>1. y \in 1970..2099 /\ y \in Years /\ m \in 1..12 /\ d \in 1..DaysInMonth(y, m) /\ d \in 1..31
  BY CivilHas
<1>2. PICK leap \in BOOLEAN: leap = LeapYear(y) /\ (leap <=> y % 4 = 0)
  <2>1. LeapYear(y) \in BOOLEAN
    BY DEF LeapYear
  <2>2. LeapYear(y) <=> y % 4 = 0
    BY <1>1, LeapIs
  <2> QED BY <2>1, <2>2
<1>3. PICK c \in 0..32, r \in 0..3: y = 1968 + 4 * c + r /\ (leap <=> r = 0)
  <2>1. PICK c \in 0..32: c = (y - 1968) \div 4
    BY <1>1
  <2>2. PICK r \in 0..3: r = (y - 1968) % 4
    BY <1>1
  <2> QED BY <1>1, <2>1, <2>2, <1>2
<1>4. YearStart[y] = 1461 * c + 365 * r + (IF r = 0 THEN 0 ELSE 1) - 731
  <2>1. YearStart[y] = 365 * (y - 1970) + (y - 1969) \div 4
    BY <1>1, YearStartIs
  <2>2. (y - 1969) \div 4 = IF r = 0 THEN c - 1 ELSE c
    BY <1>3
  <2> QED BY <2>1, <2>2, <1>3
<1>5. MonthStart[leap][m] = Firsts[m] + (IF leap /\ m > 2 THEN 1 ELSE 0) /\ m \in {1,2,3,4,5,6,7,8,9,10,11,12}
  BY <1>1, <1>2, MonthStartIs
<1>6. DayOf(y, m, d) = YearStart[y] + MonthStart[leap][m] + d - 1
  BY <1>2 DEF DayOf
<1>7. CASE m >= 3
  <2>1. Weekday(y, m, d) = (d + (13 * (m + 1)) \div 5 + Zeller(y)) % 7
    BY <1>1, <1>7 DEF Weekday, Zeller
  <2>2. Zeller(y) = 5 * c + r + 65 + (IF c < 8 THEN 119 ELSE 0)
    BY <1>3, ZellerIs
  <2>3. d + (13 * (m + 1)) \div 5 + Zeller(y) \in Int /\ DayOf(y, m, d) + 5 \in Int
    BY <1>1, <2>2, <1>3, <1>4, <1>5, <1>6, <1>7 DEF Firsts
  <2>4. Firsts[m] = (13 * (m + 1)) \div 5 + 7 * (4 * m - 5)
    BY <1>5, <1>7 DEF Firsts
  <2>5. DayOf(y, m, d) + 5 = d + (13 * (m + 1)) \div 5 + Zeller(y) + 7 * (208 * c + 52 * r - 113 + (4 * m - 5) - (IF c < 8 THEN 17 ELSE 0))
    BY <1>1, <2>2, <2>4, <1>3, <1>4, <1>5, <1>6, <1>7
  <2> QED BY <2>1, <2>3, <2>5, <1>1, <1>3, SameWeekday
<1>8. CASE m < 3
  <2>1. Weekday(y, m, d) = (d + (13 * (m + 13)) \div 5 + Zeller(y - 1)) % 7
    BY <1>1, <1>8 DEF Weekday, Zeller
  <2>2. r > 0 => Zeller(y - 1) = 5 * c + r - 1 + 65 + (IF c < 8 THEN 119 ELSE 0)
    <3> SUFFICES ASSUME r > 0 PROVE Zeller(y - 1) = 5 * c + r - 1 + 65 + (IF c < 8 THEN 119 ELSE 0)
      OBVIOUS
    <3>1. r - 1 \in 0..3 /\ y - 1 \in Int /\ y - 1 = 1968 + 4 * c + (r - 1)
      BY <1>3
    <3>2. Zeller(y - 1) = 5 * c + (r - 1) + 65 + (IF c < 8 THEN 119 ELSE 0)
      BY <3>1, ZellerIs
    <3> QED BY <3>2
  <2>3. r = 0 => Zeller(y - 1) = 5 * c + 63 + (IF c < 9 THEN 119 ELSE 0)
    <3> SUFFICES ASSUME r = 0 PROVE Zeller(y - 1) = 5 * c + 63 + (IF c < 9 THEN 119 ELSE 0)
      OBVIOUS
    <3>1. c - 1 \in 0..32 /\ y - 1 \in Int /\ y - 1 = 1968 + 4 * (c - 1) + 3
      BY <1>1, <1>3
    <3>2. Zeller(y - 1) = 5 * (c - 1) + 3 + 65 + (IF c - 1 < 8 THEN 119 ELSE 0)
      BY <3>1, ZellerIs
    <3> QED BY <3>2
  <2>4. d + (13 * (m + 13)) \div 5 + Zeller(y - 1) \in Int /\ DayOf(y, m, d) + 5 \in Int
    BY <1>1, <2>2, <2>3, <1>3, <1>4, <1>5, <1>6, <1>8 DEF Firsts
  <2>5. Firsts[m] = (13 * (m + 13)) \div 5 - 36 + 7 * (4 * m - 4)
    BY <1>5, <1>8 DEF Firsts
  <2>6. r > 0 => DayOf(y, m, d) + 5 = d + (13 * (m + 13)) \div 5 + Zeller(y - 1)
                     + 7 * (208 * c + 52 * r - 118 + (4 * m - 4) - (IF c < 8 THEN 17 ELSE 0))
    BY <1>1, <2>2, <2>5, <1>3, <1>4, <1>5, <1>6, <1>8
  <2>7. r = 0 => DayOf(y, m, d) + 5 = d + (13 * (m + 13)) \div 5 + Zeller(y - 1)
                     + 7 * (208 * c - 118 + (4 * m - 4) - (IF c < 9 THEN 17 ELSE 0))
    BY <1>1, <2>3, <2>5, <1>3, <1>4, <1>5, <1>6, <1>8
  <2> QED BY <2>1, <2>4, <2>6, <2>7, <1>1, <1>3, SameWeekday
<1> QED BY <1>1, <1>7, <1>8

(* The n-th weekday of a month is the n-th that a walk through it meets. *)
LEMMA LastDayIs == ASSUME NEW y, y \in 1970..2099, NEW m, m \in 1..12 PROVE LastDay(y, m) = DaysInMonth(y, m)
<1>1. LeapYear(y) <=> y % 4 = 0
  BY LeapIs
<1> QED BY <1>1 DEF LastDay, DaysInMonth, Has31
Counted(y, m, base) == base \in Nat /\ \A d: Civil(y, m, d) => Weekday(y, m, d) = (d + base) % 7
LEMMA MonthWeekdays ==
    ASSUME NEW y, y \in 1970..2099, NEW m, m \in 1..12
    PROVE  \E base: Counted(y, m, base)
<1>1. DaysInMonth(y, m) \in 28..31 /\ y \in Years
  BY DaysInMonthIs DEF Years
<1>2. YearStart[y] \in Nat /\ MonthStart[LeapYear(y)][m] \in Nat
  <2>1. YearStart[y] \in Nat
    BY YearGrows
  <2>2. MonthStart[LeapYear(y)][m] \in Nat
    BY <1>1, MonthGrows
  <2> QED BY <2>1, <2>2
<1>3. PICK base \in Nat: base = YearStart[y] + MonthStart[LeapYear(y)][m] + 4
  BY <1>2
<1>4. ASSUME NEW d, Civil(y, m, d) PROVE Weekday(y, m, d) = (d + base) % 7
  <2>1. d \in 1..DaysInMonth(y, m) /\ d \in 1..31
    BY <1>4, CivilHas
  <2>2. Weekday(y, m, d) = (DayOf(y, m, d) + 5) % 7
    BY <1>4, WeekdayIs
  <2>3. DayOf(y, m, d) + 5 = d + base
    BY <2>1, <1>1, <1>2, <1>3 DEF DayOf
  <2> QED BY <2>2, <2>3
<1>5. Counted(y, m, base)
  BY <1>3, <1>4 DEF Counted
<1> QED BY <1>5
FirstOf(base, wd) == 1 + ((wd - ((1 + base) % 7) + 7) % 7)
Weekly(f, base, wd) ==
    f \in 1..7 /\ \A d \in 1..31: (d + base) % 7 = wd <=> \E i \in 0..4: d = f + 7 * i
LEMMA FirstIs == ASSUME NEW base, base \in Nat, NEW wd, wd \in 0..6 PROVE Weekly(FirstOf(base, wd), base, wd)
<1>1. PICK q \in Nat, r \in 0..6: base = 7 * q + r
  <2>1. PICK q \in Nat: q = base \div 7
    OBVIOUS
  <2>2. PICK r \in 0..6: r = base % 7
    OBVIOUS
  <2> QED BY <2>1, <2>2
<1>2. PICK f \in 1..7: f = FirstOf(base, wd)
  BY DEF FirstOf
<1>3. (f + r) % 7 = wd
  BY <1>1, <1>2 DEF FirstOf
<1>4. ASSUME NEW d \in 1..31 PROVE (d + base) % 7 = (d + r) % 7
  BY <1>1
<1>5. ASSUME NEW d \in 1..31 PROVE (d + r) % 7 = wd <=> \E i \in 0..4: d = f + 7 * i
  <2>1. ASSUME (d + r) % 7 = wd PROVE \E i \in 0..4: d = f + 7 * i
    <3>1. (d - f) % 7 = 0 /\ d - f \in -6..30
      BY <2>1, <1>3
    <3>2. d = f + 7 * ((d - f) \div 7) /\ (d - f) \div 7 \in 0..4
      BY <3>1
    <3> QED BY <3>2
  <2>2. ASSUME NEW i \in 0..4, d = f + 7 * i PROVE (d + r) % 7 = wd
    BY <2>2, <1>3
  <2> QED BY <2>1, <2>2
<1> QED BY <1>2, <1>4, <1>5 DEF Weekly

NthOf(y, at, n) ==
    /\ Civil(y, at.m, n) /\ (at.w < 5 => n <= 28) /\ (at.w > 1 => n > 7)
    /\ \A d \in 1..DaysInMonth(y, at.m):
          d = n <=> /\ Weekday(y, at.m, d) = at.d
                    /\ IF at.w = 5 THEN d + 7 > LastDay(y, at.m) ELSE (d - 1) \div 7 + 1 = at.w
LEMMA NthIs ==
    ASSUME NEW y, y \in 1970..2099, NEW at \in Days
    PROVE  NthOf(y, at, NthWeekday(y, at.m, at.w, at.d))
<1>1. at.m \in 1..12 /\ at.w \in 1..5 /\ at.d \in 0..6
  BY DEF Days
<1>2. PICK m \in 1..12, w \in 1..5, wd \in 0..6: m = at.m /\ w = at.w /\ wd = at.d
  BY <1>1
<1>3. PICK dim \in 28..31: dim = DaysInMonth(y, m) /\ dim = LastDay(y, m)
  <2>1. DaysInMonth(y, m) \in 28..31 /\ LastDay(y, m) = DaysInMonth(y, m)
    BY DaysInMonthIs, LastDayIs
  <2> QED BY <2>1
<1>4. PICK base: base \in Nat /\ Counted(y, m, base)
  BY MonthWeekdays DEF Counted
<1>5. PICK f \in 1..7: f = FirstOf(base, wd) /\ Weekly(f, base, wd)
  <2>1. Weekly(FirstOf(base, wd), base, wd)
    BY <1>4, FirstIs
  <2> QED BY <2>1 DEF Weekly
<1>6. \A d \in 1..dim: Weekday(y, m, d) = wd <=> \E i \in 0..4: d = f + 7 * i
  <2> SUFFICES ASSUME NEW d, d \in 1..dim PROVE Weekday(y, m, d) = wd <=> \E i \in 0..4: d = f + 7 * i
    OBVIOUS
  <2>1. Civil(y, m, d) /\ d \in 1..31
    BY <1>3 DEF Civil
  <2>2. Weekday(y, m, d) = (d + base) % 7
    BY <2>1, <1>4 DEF Counted
  <2> QED BY <2>1, <2>2, <1>5 DEF Weekly
<1>7. f = 1 + ((wd - Weekday(y, m, 1) + 7) % 7)
  <2>1. Civil(y, m, 1)
    BY <1>3 DEF Civil
  <2>2. Weekday(y, m, 1) = (1 + base) % 7
    BY <2>1, <1>4 DEF Counted
  <2> QED BY <2>2, <1>5 DEF FirstOf
<1> DEFINE nth == NthWeekday(y, m, w, wd)
<1> DEFINE Done == /\ Civil(y, m, nth)
                   /\ \A d \in 1..dim: d = nth <=> Weekday(y, m, d) = wd /\ IF w = 5 THEN d + 7 > dim ELSE (d - 1) \div 7 + 1 = w
                   /\ w < 5 => nth <= 28
                   /\ w > 1 => nth > 7
<1>8. CASE w < 5
  <2>1. nth = f + 7 * (w - 1) /\ nth <= 28 /\ nth \in 1..dim /\ (w > 1 => nth > 7)
    BY <1>3, <1>7, <1>8 DEF NthWeekday
  <2> HIDE DEF nth
  <2>2. ASSUME NEW d \in 1..dim PROVE d = nth <=> Weekday(y, m, d) = wd /\ (d - 1) \div 7 + 1 = w
    <3>1. ASSUME NEW i \in 0..4, d = f + 7 * i PROVE (d - 1) \div 7 = i
      BY <3>1
    <3>2. Weekday(y, m, d) = wd <=> \E i \in 0..4: d = f + 7 * i
      BY <1>6
    <3>3. w - 1 \in 0..4
      BY <1>8
    <3> QED BY <3>1, <3>2, <3>3, <2>1
  <2>3. Civil(y, m, nth)
    BY <2>1, <1>3 DEF Civil
  <2>4. Done
    BY <2>1, <2>2, <2>3, <1>8
  <2> QED BY <2>4, <1>2, <1>3 DEF nth, NthOf
<1>9. CASE w = 5
  <2>1. PICK l \in {f + 21, f + 28}: l \in 1..dim /\ l + 7 > dim /\ l > 7
    BY <1>3
  <2>2. \E i \in 0..4: l = f + 7 * i
    <3>1. l = f + 7 * 3 \/ l = f + 7 * 4
      BY <2>1
    <3> QED BY <3>1
  <2>3. Weekday(y, m, l) = wd
    BY <2>1, <2>2, <1>6
  <2>4. ASSUME NEW d \in 1..dim, d + 7 > dim, Weekday(y, m, d) = wd PROVE d = l
    <3>1. PICK i \in 0..4: d = f + 7 * i
      BY <2>4, <1>6
    <3>2. PICK j \in 0..4: l = f + 7 * j
      BY <2>2
    <3> QED BY <3>1, <3>2, <2>1, <2>4, <1>3
  <2>5. nth = l
    <3>1. DaysInMonth(y, m) = dim
      BY <1>3
    <3>2. l \in (dim - 6)..dim /\ \A e \in (dim - 6)..dim: e \in 1..dim /\ e + 7 > dim
      BY <1>3, <2>1
    <3>3. \A e \in (dim - 6)..dim: Weekday(y, m, e) = wd => e = l
      BY <3>2, <2>4
    <3>4. (CHOOSE e \in (dim - 6)..dim: Weekday(y, m, e) = wd) = l
      BY <3>2, <3>3, <2>3
    <3>5. nth = CHOOSE e \in (DaysInMonth(y, m) - 6)..DaysInMonth(y, m): Weekday(y, m, e) = wd
      BY <1>9 DEF NthWeekday
    <3> QED BY <3>1, <3>4, <3>5
  <2> HIDE DEF nth
  <2>6. \A d \in 1..dim: d = nth <=> Weekday(y, m, d) = wd /\ d + 7 > dim
    BY <2>1, <2>3, <2>4, <2>5
  <2> QED BY <2>1, <2>5, <2>6, <1>2, <1>3, <1>9 DEF nth, Civil, NthOf
<1> QED BY <1>8, <1>9

-----------------------------------------------------------------------------
(* The day of a year on which a rule turns, and what the walk meets.        *)
LEMMA DatesApart ==
    ASSUME NEW y, NEW m, NEW d, Civil(y, m, d), NEW n, NEW e, Civil(y, n, e)
    PROVE  /\ m < n => DayOf(y, m, d) < DayOf(y, n, e)
           /\ DayOf(y, m, d) = DayOf(y, n, e) => m = n /\ d = e
<1>1. y \in 1970..2099 /\ y \in Years /\ m \in 1..12 /\ d \in 1..DaysInMonth(y, m) /\ d \in 1..31
  BY CivilHas
<1>2. n \in 1..12 /\ e \in 1..DaysInMonth(y, n) /\ e \in 1..31
  BY CivilHas
<1>3. YearStart[y] \in Nat
  BY <1>1, YearGrows
<1> DEFINE ms(x) == MonthStart[LeapYear(y)][x]
<1>4. ms(m) \in Nat /\ ms(n) \in Nat
  BY <1>1, <1>2, MonthGrows
<1>5. m < n => ms(m) + DaysInMonth(y, m) <= ms(n)
  BY <1>1, <1>2, MonthsInOrder DEF InOrder
<1>6. n < m => ms(n) + DaysInMonth(y, n) <= ms(m)
  BY <1>1, <1>2, MonthsInOrder DEF InOrder
<1>8. DaysInMonth(y, m) \in 28..31 /\ DaysInMonth(y, n) \in 28..31
  BY DaysInMonthIs
<1>7. DayOf(y, m, d) = YearStart[y] + ms(m) + d - 1 /\ DayOf(y, n, e) = YearStart[y] + ms(n) + e - 1
  BY DEF DayOf
<1> HIDE DEF ms
<1> QED BY <1>1, <1>2, <1>3, <1>4, <1>5, <1>6, <1>7, <1>8
TurnDay(y, at) == DayOf(y, at.m, NthWeekday(y, at.m, at.w, at.d))
LEMMA TurnDayIs ==
    ASSUME NEW y, y \in 1970..2099, NEW at \in Days
    PROVE  /\ TurnDay(y, at) \in Nat
           /\ ~NewYears(at) => YearStart[y] + 7 <= TurnDay(y, at) /\ TurnDay(y, at) + 4 <= YearStart[y + 1]
<1>1. at.m \in 1..12 /\ at.w \in 1..5 /\ y \in Years
  BY DEF Days, Years
<1>2. PICK n: n = NthWeekday(y, at.m, at.w, at.d)
  OBVIOUS
<1>3. Civil(y, at.m, n) /\ (at.w < 5 => n <= 28) /\ (at.w > 1 => n > 7)
  <2>1. NthOf(y, at, n)
    BY <1>2, NthIs
  <2> QED BY <2>1 DEF NthOf
<1>4. n \in 1..31 /\ n \in 1..DaysInMonth(y, at.m)
  BY <1>3, CivilHas
<1>5. TurnDay(y, at) \in Nat
  BY <1>2, <1>3, DayOfIs DEF TurnDay
<1> DEFINE ms(x) == MonthStart[LeapYear(y)][x]
<1>6. TurnDay(y, at) = YearStart[y] + ms(at.m) + n - 1
  BY <1>2 DEF TurnDay, DayOf
<1>7. YearStart[y] \in Nat /\ YearStart[y + 1] = YearStart[y] + YearDays(y) /\ YearDays(y) \in {365, 366}
  <2>1. YearDays(y) \in {365, 366}
    BY DEF YearDays
  <2> QED BY <2>1, YearGrows
<1>8. ms(at.m) \in Nat /\ ms(1) = 0
  BY <1>1, MonthGrows
<1>9. ms(2) = 31 /\ ms(12) \in Nat /\ ms(12) + 31 = YearDays(y)
  <2>1. 1 \in 1..12 /\ 12 \in 1..12 /\ 1 + 1 = 2 /\ 12 + 1 = 13
    OBVIOUS
  <2>2. ms(1 + 1) = ms(1) + DaysInMonth(y, 1) /\ ms(12 + 1) = ms(12) + DaysInMonth(y, 12) /\ ms(13) = YearDays(y) /\ ms(12) \in Nat
    BY <1>1, <2>1, MonthGrows
  <2>3. DaysInMonth(y, 1) = 31 /\ DaysInMonth(y, 12) = 31
    BY DEF DaysInMonth
  <2> QED BY <1>8, <2>1, <2>2, <2>3
<1>10. at.m > 1 => ms(2) <= ms(at.m)
  <2> SUFFICES ASSUME at.m > 1 PROVE ms(1 + 1) <= ms(at.m)
    OBVIOUS
  <2>1. 1 \in 1..12 /\ 1 < at.m
    OBVIOUS
  <2>2. InOrder(y, 1, at.m)
    BY <2>1, <1>1, MonthsInOrder
  <2> QED BY <2>2 DEF InOrder
<1>11. at.m < 12 => ms(at.m) + n <= ms(12)
  <2> SUFFICES ASSUME at.m < 12 PROVE ms(at.m) + n <= ms(12)
    OBVIOUS
  <2>1. 12 \in 1..12 /\ 12 > at.m
    BY <1>1
  <2>2. ms(at.m) + DaysInMonth(y, at.m) <= ms(12) /\ DaysInMonth(y, at.m) \in 28..31
    <3>1. InOrder(y, at.m, 12)
      BY <2>1, <1>1, MonthsInOrder
    <3> QED BY <3>1, DaysInMonthIs DEF InOrder
  <2> QED BY <2>2, <1>4, <1>8, <1>9
<1> HIDE DEF ms
<1>12. ASSUME ~NewYears(at)
       PROVE  YearStart[y] + 7 <= TurnDay(y, at) /\ TurnDay(y, at) + 4 <= YearStart[y + 1]
  <2>1. ms(at.m) + n >= 8
    BY <1>1, <1>3, <1>4, <1>8, <1>9, <1>10, <1>12 DEF NewYears
  <2>2. ms(at.m) + n + 3 <= YearDays(y)
    BY <1>1, <1>3, <1>4, <1>8, <1>9, <1>11, <1>12 DEF NewYears
  <2> QED BY <2>1, <2>2, <1>4, <1>6, <1>7, <1>8
<1> QED BY <1>5, <1>12
LEMMA MeetsIs ==
    ASSUME Civil(date.y, date.m, date.d), dow = (DayOf(date.y, date.m, date.d) + 4) % 7, NEW at \in Days
    PROVE  Meets(at, DayAfter(dow)) <=> DayOf(date.y, date.m, date.d) = TurnDay(date.y, at)
<1>1. date.y \in 1970..2099 /\ date.m \in 1..12 /\ date.d \in 1..DaysInMonth(date.y, date.m)
  BY CivilHas
<1>2. PICK y, m, d, n: y = date.y /\ m = date.m /\ d = date.d /\ n = DayOf(date.y, date.m, date.d)
  OBVIOUS
<1>3. n \in Nat /\ Weekday(y, m, d) = (n + 5) % 7
  BY <1>2, DayOfIs, WeekdayIs
<1>4. DayAfter(dow) = Weekday(y, m, d)
  <2>1. (((n + 4) % 7) + 1) % 7 = (n + 5) % 7
    BY <1>3
  <2> QED BY <2>1, <1>2, <1>3 DEF DayAfter
<1>5. PICK e: e = NthWeekday(y, at.m, at.w, at.d)
  OBVIOUS
<1>6. NthOf(y, at, e)
  BY <1>1, <1>2, <1>5, NthIs
<1>7. m = at.m => (Meets(at, DayAfter(dow)) <=> d = e)
  BY <1>1, <1>2, <1>4, <1>6 DEF Meets, NthOf
<1>8. m # at.m => ~Meets(at, DayAfter(dow))
  BY <1>2 DEF Meets
<1>9. n = TurnDay(y, at) <=> m = at.m /\ d = e
  <2>1. TurnDay(y, at) = DayOf(y, at.m, e)
    BY <1>5 DEF TurnDay
  <2>2. n = DayOf(y, at.m, e) => m = at.m /\ d = e
    <3>1. Civil(y, m, d) /\ Civil(y, at.m, e)
      BY <1>2, <1>6 DEF NthOf
    <3>2. DayOf(y, m, d) = DayOf(y, at.m, e) => m = at.m /\ d = e
      BY <3>1, DatesApart
    <3> QED BY <3>2, <1>2
  <2> QED BY <2>1, <2>2, <1>2
<1> QED BY <1>2, <1>7, <1>8, <1>9

-----------------------------------------------------------------------------
(* What a text is read as. A rule that turns has two days and an offset of  *)
(* at most 14 hours.                                                        *)
Rules == [std: -720..840, dst: Int, start: Days, end: Days]
NoTurns == [std: Int, dst: Int, start: {NoDay}, end: {NoDay}]
WithWindow(x, r) == [[r EXCEPT !.start = x.window[1]] EXCEPT !.end = x.window[2]]
LEMMA WindowIs ==
    ASSUME NEW x, x \in Texts, NEW r
    PROVE  /\ Len(x.window) \in Nat /\ (Len(x.window) = 0 <=> x.window = <<>>)
           /\ Window(x, r).ok <=> ~x.tail /\ Len(x.window) # 1
           /\ Window(x, r).ok => Window(x, r).rule = IF x.window = <<>> THEN r ELSE WithWindow(x, r)
           /\ Len(x.window) > 1 => x.window[1] \in Days /\ x.window[2] \in Days
<1>1. x.window \in Seq(Days) /\ x.tail \in BOOLEAN
  BY DEF Texts
<1>2. Len(x.window) \in Nat /\ (Len(x.window) = 0 <=> x.window = <<>>)
  BY <1>1
<1>3. Len(x.window) > 1 => x.window[1] \in Days /\ x.window[2] \in Days
  BY <1>1
<1>4. CASE Len(x.window) = 0
  BY <1>4, <1>1, <1>2 DEF Window, Accepted, Refused
<1>5. CASE Len(x.window) = 1
  BY <1>5, <1>1, <1>2 DEF Window, Accepted, Refused
<1>6. CASE Len(x.window) > 1
  BY <1>6, <1>1, <1>2, <1>3 DEF Window, Accepted, Refused, WithWindow
<1>7. Len(x.window) = 0 \/ Len(x.window) = 1 \/ Len(x.window) > 1
  <2>1. PICK l \in Nat: l = Len(x.window)
    BY <1>2
  <2>2. l = 0 \/ l = 1 \/ l > 1
    OBVIOUS
  <2> QED BY <2>1, <2>2
<1> QED BY <1>4, <1>5, <1>6, <1>7
LEMMA OffsetsAre ==
    ASSUME NEW x, x \in Texts, x.std # None
    PROVE  /\ Offsets(x).ok \in BOOLEAN
           /\ Offsets(x).ok <=> InRange(x.std) /\ (x.second => InRange(IF x.dst = None THEN x.std - 60 ELSE x.dst))
           /\ Offsets(x).ok => Offsets(x).rule = [std |-> -x.std, start |-> NoDay, end |-> NoDay,
                  dst |-> IF ~x.second THEN -x.std ELSE IF x.dst = None THEN 60 - x.std ELSE -x.dst]
<1>1. x.std \in Int /\ (x.dst # None => x.dst \in Int) /\ x.second \in BOOLEAN
  BY DEF Texts
<1>2. East(x.std) = IF InRange(x.std) THEN -x.std ELSE None
  BY <1>1 DEF East, InRange
<1>3. x.dst # None => East(x.dst) = IF InRange(x.dst) THEN -x.dst ELSE None
  BY <1>1 DEF East, InRange
<1> DEFINE R(std, dst) == [Utc EXCEPT !.std = std, !.dst = dst]
<1>9. \A s, d: R(s, d) = [std |-> s, start |-> NoDay, end |-> NoDay, dst |-> d]
  <2> TAKE s, d
  <2>1. PICK v: v = R(s, d)
    OBVIOUS
  <2>2. v \in [std: {s}, dst: {d}, start: {NoDay}, end: {NoDay}]
    BY <2>1 DEF Utc
  <2> QED BY <2>1, <2>2
<1>4. CASE ~InRange(x.std)
  BY <1>2, <1>4 DEF Offsets, Refused
<1>5. CASE InRange(x.std) /\ ~x.second
  <2>1. -x.std # None
    BY <1>1, NoneIsNoNumber
  <2>2. Offsets(x) = Accepted(R(-x.std, -x.std))
    BY <2>1, <1>2, <1>5 DEF Offsets
  <2> HIDE DEF R
  <2> QED BY <2>2, <1>5, <1>9 DEF Accepted
<1>6. CASE InRange(x.std) /\ x.second /\ x.dst = None
  <2>1. -x.std # None
    BY <1>1, NoneIsNoNumber
  <2>2. Offsets(x) = IF -x.std + 60 \in -720..840 THEN Accepted(R(-x.std, -x.std + 60)) ELSE Refused(R(-x.std, -x.std + 60))
    BY <2>1, <1>2, <1>6 DEF Offsets
  <2>3. -x.std + 60 = 60 - x.std /\ (-x.std + 60 \in -720..840 <=> InRange(x.std - 60))
    <3>1. PICK w \in Int: w = x.std
      BY <1>1
    <3>2. -w + 60 = 60 - w /\ (-w + 60 \in -720..840 <=> InRange(w - 60))
      BY DEF InRange
    <3> QED BY <3>1, <3>2
  <2> HIDE DEF R
  <2> QED BY <2>2, <2>3, <1>6, <1>9 DEF Accepted, Refused
<1>7. CASE InRange(x.std) /\ x.second /\ x.dst # None
  <2>1. -x.std # None /\ (East(x.dst) \in -720..840 <=> InRange(x.dst))
    <3>1. PICK w \in Int, v \in Int: w = x.std /\ v = x.dst
      BY <1>1, <1>7
    <3>2. -w # None /\ (InRange(v) <=> -v \in -720..840) /\ None \notin -720..840
      BY NoneIsNoNumber DEF InRange
    <3> QED BY <3>1, <3>2, <1>3, <1>7
  <2>2. Offsets(x) = IF East(x.dst) \in -720..840 THEN Accepted(R(-x.std, East(x.dst))) ELSE Refused(R(-x.std, 0))
    BY <2>1, <1>2, <1>7 DEF Offsets
  <2> HIDE DEF R
  <2> QED BY <2>1, <2>2, <1>3, <1>7, <1>9 DEF Accepted, Refused
<1> QED BY <1>4, <1>5, <1>6, <1>7, <1>1

-----------------------------------------------------------------------------
(* When it is summer at the beginning of a day, counted in days, and in the *)
(* minutes of its standard time. The year's turns are not near its ends.    *)
North(r) == r.start.m < r.end.m
Season(r, y, n) ==
    IF North(r) THEN TurnDay(y, r.start) < n /\ n <= TurnDay(y, r.end)
    ELSE TurnDay(y, r.start) < n \/ n <= TurnDay(y, r.end)
TurnAt(y, at) == TurnDay(y, at) * 1440 + at.h * 60
SummerAt(r, y, l) ==
    IF North(r) THEN TurnAt(y, r.start) <= l /\ l < TurnAt(y, r.end)
    ELSE TurnAt(y, r.start) <= l \/ l < TurnAt(y, r.end)
TurnsApart(r, y) ==
    /\ TurnDay(y, r.start) \in Nat /\ TurnDay(y, r.end) \in Nat
    /\ YearStart[y] + 7 <= TurnDay(y, r.start) /\ TurnDay(y, r.start) + 4 <= YearStart[y + 1]
    /\ YearStart[y] + 7 <= TurnDay(y, r.end) /\ TurnDay(y, r.end) + 4 <= YearStart[y + 1]
    /\ IF North(r) THEN TurnDay(y, r.start) < TurnDay(y, r.end) ELSE TurnDay(y, r.end) < TurnDay(y, r.start)
LEMMA TurnIsDate ==
    ASSUME NEW y, y \in 1970..2099, NEW at \in Days
    PROVE  \E d: Civil(y, at.m, d) /\ TurnDay(y, at) = DayOf(y, at.m, d)
<1>1. NthOf(y, at, NthWeekday(y, at.m, at.w, at.d))
  BY NthIs
<1> QED BY <1>1 DEF NthOf, TurnDay
LEMMA TurnsAreApart ==
    ASSUME NEW r \in Rules, SeasonsApart(r), NEW y, y \in 1970..2099
    PROVE  TurnsApart(r, y)
<1>1. r.start \in Days /\ r.end \in Days /\ ~NewYears(r.start) /\ ~NewYears(r.end) /\ r.start.m # r.end.m
  BY DEF Rules, SeasonsApart
<1>2. PICK a \in Days, b \in Days: a = r.start /\ b = r.end
  BY <1>1
<1>3. /\ TurnDay(y, a) \in Nat /\ YearStart[y] + 7 <= TurnDay(y, a) /\ TurnDay(y, a) + 4 <= YearStart[y + 1]
      /\ TurnDay(y, b) \in Nat /\ YearStart[y] + 7 <= TurnDay(y, b) /\ TurnDay(y, b) + 4 <= YearStart[y + 1]
  BY <1>1, <1>2, TurnDayIs
<1>6. PICK d: Civil(y, a.m, d) /\ TurnDay(y, a) = DayOf(y, a.m, d)
  BY TurnIsDate
<1>7. PICK e: Civil(y, b.m, e) /\ TurnDay(y, b) = DayOf(y, b.m, e)
  BY TurnIsDate
<1>8. (a.m < b.m => TurnDay(y, a) < TurnDay(y, b)) /\ (b.m < a.m => TurnDay(y, b) < TurnDay(y, a))
  BY <1>6, <1>7, DatesApart
<1>9. a.m \in 1..12 /\ b.m \in 1..12 /\ a.m # b.m
  BY <1>1, <1>2 DEF Days
<1> QED BY <1>2, <1>3, <1>8, <1>9 DEF TurnsApart, North

\* From one day to the next the season changes on a turn only.
LEMMA SeasonGoesOn ==
    ASSUME NEW r, NEW y, TurnsApart(r, y), NEW n \in Int
    PROVE  Season(r, y, n + 1) <=> IF n = TurnDay(y, r.start) \/ n = TurnDay(y, r.end) THEN ~Season(r, y, n) ELSE Season(r, y, n)
BY DEF TurnsApart, Season
LEMMA SeasonBegins ==
    ASSUME NEW r, NEW y, y \in 1970..2099, TurnsApart(r, y)
    PROVE  /\ Season(r, y, YearStart[y]) <=> ~North(r)
           /\ Season(r, y, YearStart[y + 1]) <=> ~North(r)
           /\ TurnDay(y, r.start) < YearStart[y + 1] - 1 /\ TurnDay(y, r.end) < YearStart[y + 1] - 1
<1>1. YearStart[y] \in Nat /\ YearStart[y + 1] \in Nat
  <2>1. YearDays(y) \in Nat
    BY DEF YearDays
  <2> QED BY <2>1, YearGrows
<1> QED BY <1>1 DEF TurnsApart, Season

-----------------------------------------------------------------------------
(* What InSummer computes of a time, whose year in UTC may be the one       *)
(* before or after, is what the minutes of standard time say.               *)
Minutes(l, n, q) == n \in Int /\ q \in 0..1439 /\ l \in Int /\ l = n * 1440 + q
AsUtc(t, l, std) == t \in Int /\ t = l - std /\ std \in -720..840
LEMMA TurnYearIs ==
    ASSUME NEW y, NEW n, InYear(n, y), NEW q, NEW l, Minutes(l, n, q), NEW std, NEW t, AsUtc(t, l, std)
    PROVE  \/ TurnYear(t) = y
           \/ TurnYear(t) = y - 1 /\ y > 1970 /\ n = YearStart[y]
           \/ TurnYear(t) = y + 1 /\ y < 2099 /\ n + 1 = YearStart[y + 1]
<1>1. y \in 1970..2099 /\ n \in Int /\ YearStart[y] <= n /\ n < YearStart[y + 1] /\ y \in Years /\ y + 1 \in Years
  BY DEF InYear, Years
<1>2. YearStart[y] \in Nat /\ YearStart[y + 1] \in Nat
  BY <1>1, YearStartIs
<1>3. PICK day \in Int: day = t \div 1440 /\ day >= n - 1 /\ day <= n + 1
  BY <1>1 DEF Minutes, AsUtc
<1>4. YearStart[1970] = 0 /\ YearStart[2100] \in Nat /\ 1970 \in Years /\ 2100 \in Years
  <2>1. 1970 \in Years /\ 2100 \in Years
    BY DEF Years
  <2>2. YearStart[1970] = 365 * (1970 - 1970) + (1970 - 1969) \div 4 /\ YearStart[2100] = 365 * (2100 - 1970) + (2100 - 1969) \div 4
    BY <2>1, YearStartIs
  <2> QED BY <2>1, <2>2
<1>5. CASE day < 0
  <2>1. TurnYear(t) = 1970
    BY <1>3, <1>5 DEF TurnYear
  <2>2. y = 1970
    <3>1. y > 1970 => YearStart[1970] + 365 <= YearStart[y]
      BY <1>1, <1>4, YearsApart
    <3> QED BY <3>1, <1>1, <1>2, <1>3, <1>4, <1>5
  <2> QED BY <2>1, <2>2
<1>6. CASE day >= YearStart[2100]
  <2>1. TurnYear(t) = 2099
    BY <1>3, <1>4, <1>6 DEF TurnYear
  <2>2. y = 2099
    <3>1. y + 1 < 2100 => YearStart[y + 1] + 365 <= YearStart[2100]
      BY <1>1, <1>4, YearsApart
    <3> QED BY <3>1, <1>1, <1>2, <1>3, <1>4, <1>6
  <2> QED BY <2>1, <2>2
<1>7. CASE 0 <= day /\ day < YearStart[2100]
  <2>1. TurnYear(t) = YearOf(day)
    BY <1>3, <1>4, <1>7 DEF TurnYear
  <2>2. CASE YearStart[y] <= day /\ day < YearStart[y + 1]
    <3>1. InYear(day, y)
      BY <2>2, <1>1 DEF InYear
    <3> QED BY <3>1, <2>1, YearOfIs
  <2>3. CASE day < YearStart[y]
    <3>1. y > 1970 /\ day = YearStart[y] - 1 /\ n = YearStart[y]
      BY <2>3, <1>1, <1>2, <1>3, <1>4, <1>7
    <3>2. PICK z \in 1970..2099: z = y - 1
      BY <3>1, <1>1
    <3>3. z \in Years /\ z < y /\ z + 1 = y
      BY <3>1, <3>2, <1>1 DEF Years
    <3>4. YearStart[z] + 365 <= YearStart[y] /\ YearStart[z] \in Nat
      BY <3>3, <1>1, YearsApart, YearGrows
    <3>5. InYear(day, z)
      BY <3>1, <3>2, <3>3, <3>4, <1>2 DEF InYear
    <3> QED BY <3>1, <3>2, <3>5, <2>1, YearOfIs
  <2>4. CASE day >= YearStart[y + 1]
    <3>1. day = YearStart[y + 1] /\ n + 1 = YearStart[y + 1] /\ y < 2099
      BY <2>4, <1>1, <1>2, <1>3, <1>7
    <3>2. PICK z \in 1970..2099: z = y + 1
      BY <3>1, <1>1
    <3>3. z \in Years /\ z + 1 \in Years /\ z < z + 1
      BY <3>2 DEF Years
    <3>4. YearStart[z] + 365 <= YearStart[z + 1] /\ YearStart[z + 1] \in Int
      BY <3>3, YearsApart, YearStartIs
    <3>5. InYear(day, z)
      BY <3>1, <3>2, <3>4, <1>2 DEF InYear
    <3> QED BY <3>1, <3>2, <3>5, <2>1, YearOfIs
  <2> QED BY <2>2, <2>3, <2>4, <1>2, <1>3
<1> QED BY <1>3, <1>4, <1>5, <1>6, <1>7

\* A text that is accepted with two offsets has a rule of two days, or none.
LEMMA RuleIs ==
    ASSUME NEW x, x \in Texts, Parse(x).ok, DstEnabled(Rule(x))
    PROVE  Rule(x) \in Rules \/ (Rule(x).start = NoDay /\ Rule(x).end = NoDay)
<1>1. PICK r: r = Offsets(x).rule
  OBVIOUS
<1>2. Parse(x).ok /\ DstEnabled(Rule(x))
  OBVIOUS
<1>3. x.name /\ x.std # None
  BY <1>2 DEF Parse, Refused
<1>4. CASE ~x.second /\ x.window # <<>>
  <2>1. Parse(x) = Window(x, Utc)
    BY <1>3, <1>4 DEF Parse
  <2>2. Rule(x) = WithWindow(x, Utc)
    BY <2>1, <1>2, <1>4, WindowIs DEF Rule
  <2> QED BY <2>2, <1>2 DEF WithWindow, DstEnabled, Utc
<1>5. CASE x.second \/ x.window = <<>>
  <2>1. Parse(x) = IF Offsets(x).ok THEN Window(x, r) ELSE Offsets(x)
    BY <1>1, <1>3, <1>5 DEF Parse
  <2>2. Offsets(x).ok
    BY <2>1, <1>2
  <2>3. Window(x, r).ok /\ Rule(x) = Window(x, r).rule
    BY <2>1, <2>2, <1>2 DEF Rule
  <2>4. InRange(x.std) /\ r = [std |-> -x.std, start |-> NoDay, end |-> NoDay,
              dst |-> IF ~x.second THEN -x.std ELSE IF x.dst = None THEN 60 - x.std ELSE -x.dst]
    BY <2>2, <1>1, <1>3, OffsetsAre
  <2>5. x.std \in Int /\ (x.dst # None => x.dst \in Int) /\ x.std \in -840..720
    BY <2>4, <1>3 DEF Texts, InRange
  <2>6. CASE x.window = <<>>
    <3>1. x.window = <<>> => Rule(x) = r
      BY <2>3, WindowIs
    <3> QED BY <3>1, <2>4, <2>6
  <2>12. CASE x.window # <<>>
    <3>1. x.window[1] \in Days /\ x.window[2] \in Days /\ Rule(x) = WithWindow(x, r)
      <4>1. Len(x.window) > 1
        <5>1. Len(x.window) \in Nat /\ Len(x.window) # 0 /\ Len(x.window) # 1
          BY <2>3, <2>12, WindowIs
        <5>2. PICK l \in Nat: l = Len(x.window)
          BY <5>1
        <5>3. l # 0 /\ l # 1 => l > 1
          OBVIOUS
        <5> QED BY <5>1, <5>2, <5>3
      <4> QED BY <4>1, <2>3, <2>12, WindowIs
    <3>2. PICK v, w, a, b: v = r.std /\ w = r.dst /\ a = x.window[1] /\ b = x.window[2]
      OBVIOUS
    <3>3. v \in -720..840 /\ w \in Int /\ r = [std |-> v, dst |-> w, start |-> NoDay, end |-> NoDay]
      <4>1. r.std = -x.std /\ r.dst = IF ~x.second THEN -x.std ELSE IF x.dst = None THEN 60 - x.std ELSE -x.dst
        BY <2>4
      <4>2. PICK s \in -840..720: s = x.std
        BY <2>5
      <4>3. -s \in -720..840 /\ 60 - s \in Int /\ -s \in Int
        OBVIOUS
      <4>4. x.dst # None => -x.dst \in Int
        BY <2>5
      <4>5. v \in -720..840 /\ w \in Int
        BY <4>1, <4>2, <4>3, <4>4, <3>2
      <4> QED BY <4>5, <2>4, <3>2
    <3>4. WithWindow(x, r) \in [std: {v}, dst: {w}, start: {a}, end: {b}]
      BY <3>2, <3>3 DEF WithWindow
    <3> QED BY <3>1, <3>2, <3>3, <3>4 DEF Rules
  <2> QED BY <2>6, <2>12
<1> QED BY <1>4, <1>5
LEMMA ReadsIs == ASSUME NEW x, x \in Texts PROVE Reads(x)
<1>1. SUFFICES ASSUME x.second \/ x.window = <<>>
      PROVE (Parse(x).ok = Whole(x)) /\ (Whole(x) => Rule(x) = Says(x))
  BY DEF Reads
<1>2. CASE ~x.name \/ x.std = None
  <2>1. Parse(x) = Refused(Utc)
    BY <1>2 DEF Parse
  <2>2. ~Whole(x) /\ Whole(x) = FALSE
    BY <1>2 DEF Whole
  <2>3. Parse(x).ok = FALSE
    BY <2>1 DEF Refused
  <2> QED BY <2>2, <2>3
<1>3. CASE x.name /\ x.std # None
  <2>1. PICK r: r = Offsets(x).rule
    OBVIOUS
  <2>2. Parse(x) = IF Offsets(x).ok THEN Window(x, r) ELSE Offsets(x)
    BY <2>1, <1>1, <1>3 DEF Parse
  <2>3. /\ Offsets(x).ok \in BOOLEAN
        /\ Offsets(x).ok <=> InRange(x.std) /\ (x.second => InRange(IF x.dst = None THEN x.std - 60 ELSE x.dst))
        /\ Offsets(x).ok => r = [std |-> -x.std, start |-> NoDay, end |-> NoDay,
               dst |-> IF ~x.second THEN -x.std ELSE IF x.dst = None THEN 60 - x.std ELSE -x.dst]
    BY <2>1, <1>3, OffsetsAre
  <2>4. /\ Window(x, r).ok <=> ~x.tail /\ Len(x.window) # 1
        /\ Window(x, r).ok => Window(x, r).rule = IF x.window = <<>> THEN r ELSE WithWindow(x, r)
        /\ Window(x, r).ok \in BOOLEAN
    <3>1. Window(x, r).ok \in BOOLEAN
      BY DEF Window, Refused, Accepted
    <3> QED BY <3>1, WindowIs
  <2>5. Parse(x).ok = Whole(x)
    <3>1. Parse(x).ok \in BOOLEAN /\ Whole(x) \in BOOLEAN
      BY <2>2, <2>3, <2>4 DEF Whole
    <3>2. Parse(x).ok <=> Whole(x)
      <4>1. PICK o \in BOOLEAN, v \in BOOLEAN: o = Offsets(x).ok /\ v = Window(x, r).ok
        BY <2>3, <2>4
      <4>2. Parse(x).ok <=> o /\ v
        BY <4>1, <2>2
      <4>3. o <=> InRange(x.std) /\ (x.second => InRange(IF x.dst = None THEN x.std - 60 ELSE x.dst))
        BY <4>1, <2>3
      <4>4. v <=> ~x.tail /\ Len(x.window) # 1
        BY <4>1, <2>4
      <4> QED BY <4>2, <4>3, <4>4, <1>3 DEF Whole
    <3> QED BY <3>1, <3>2
  <2>6. ASSUME Whole(x) PROVE Rule(x) = Says(x)
    <3>1. Offsets(x).ok /\ Window(x, r).ok /\ Rule(x) = IF x.window = <<>> THEN r ELSE WithWindow(x, r)
      BY <2>2, <2>3, <2>4, <2>5, <2>6 DEF Rule, Whole
    <3>2. PICK v, w, a, b: /\ v = -x.std /\ w = IF ~x.second THEN -x.std ELSE IF x.dst = None THEN 60 - x.std ELSE -x.dst
                           /\ a = x.window[1] /\ b = x.window[2]
      OBVIOUS
    <3>3. r = [std |-> v, dst |-> w, start |-> NoDay, end |-> NoDay]
      BY <2>3, <3>1, <3>2
    <3>4. WithWindow(x, r) \in [std: {v}, dst: {w}, start: {a}, end: {b}]
      BY <3>2, <3>3 DEF WithWindow
    <3>5. WithWindow(x, r) = [std |-> v, dst |-> w, start |-> a, end |-> b]
      BY <3>4
    <3>6. x.window = <<>> => Says(x) = [std |-> v, dst |-> w, start |-> NoDay, end |-> NoDay]
      BY <3>2 DEF Says
    <3>7. x.window # <<>> => Says(x) = [std |-> v, dst |-> w, start |-> a, end |-> b]
      BY <3>2 DEF Says
    <3> QED BY <3>1, <3>3, <3>5, <3>6, <3>7
  <2> QED BY <2>5, <2>6
<1> QED BY <1>2, <1>3

LEMMA TurningIs ==
    ASSUME NEW x, x \in Texts, Parse(x).ok
    PROVE  /\ Turning(x) => Rule(x) \in Rules /\ DstEnabled(Rule(x)) /\ Rule(x).start # NoDay
           /\ ~Turning(x) => ~DstEnabled(Rule(x)) \/ (Rule(x).start = NoDay /\ Rule(x).end = NoDay)
<1>1. Rule(x) \in Rules => Rule(x).start # NoDay
  BY DEF Rules, Days, NoDay
<1> QED BY <1>1, RuleIs DEF Turning

-----------------------------------------------------------------------------
LEMMA SummerIs ==
    ASSUME NEW r \in Rules, SeasonsApart(r), DstEnabled(r), r.start # NoDay, NEW t \in Int,
           NEW y, y \in 1970..2099, TurnYear(t) = y
    PROVE  InSummer(r, t) <=> SummerAt(r, y, t + r.std)
<1>1. PICK a \in Days, b \in Days, std \in Int: a = r.start /\ b = r.end /\ std = r.std
  <2>1. r.start \in Days /\ r.end \in Days /\ r.std \in Int
    BY DEF Rules
  <2> QED BY <2>1
<1>2. TurnDay(y, a) \in Nat /\ TurnDay(y, b) \in Nat
  BY TurnDayIs
<1>3. PICK i \in Nat, j \in Nat: i = TurnDay(y, a) /\ j = TurnDay(y, b)
  BY <1>2
<1>4. a.h \in Int /\ b.h \in Int /\ a.m \in Int /\ b.m \in Int
  BY DEF Days
<1>5. Turn(r, y, a) = TurnAt(y, a) - std /\ Turn(r, y, b) = TurnAt(y, b) - std
  <2>1. Turn(r, y, a) = TurnDay(y, a) * 1440 + a.h * 60 + 0 - std /\ Turn(r, y, b) = TurnDay(y, b) * 1440 + b.h * 60 + 0 - std
    BY <1>1 DEF Turn, FromCivil, TurnDay
  <2>2. TurnAt(y, a) = i * 1440 + a.h * 60 /\ TurnAt(y, b) = j * 1440 + b.h * 60
    BY <1>3 DEF TurnAt
  <2> QED BY <2>1, <2>2, <1>3, <1>4
<1>6. PICK from \in Int, to \in Int: from = TurnAt(y, a) /\ to = TurnAt(y, b)
  BY <1>3, <1>4 DEF TurnAt
<1>7. InSummer(r, t) <=> InWindow(r, t, from - std, to - std)
  BY <1>1, <1>5, <1>6 DEF InSummer
<1>8. InWindow(r, t, from - std, to - std) <=> IF North(r) THEN t >= from - std /\ t < to - std ELSE t >= from - std \/ t < to - std
  BY DEF InWindow, North, SeasonsApart
<1>9. SummerAt(r, y, t + std) <=> IF North(r) THEN from <= t + std /\ t + std < to ELSE from <= t + std \/ t + std < to
  BY <1>1, <1>6 DEF SummerAt
<1> QED BY <1>1, <1>6, <1>7, <1>8, <1>9
\* The hour of a turn counts on its day only.
HasTurned(at, q) == at.h * 60 <= q
SummerOn(r, y, n, q) ==
    IF n = TurnDay(y, r.start) THEN HasTurned(r.start, q) # Season(r, y, n)
    ELSE IF n = TurnDay(y, r.end) THEN HasTurned(r.end, q) # Season(r, y, n) ELSE Season(r, y, n)
LEMMA SeasonIsOneOfTwo == \A r, y, n: Season(r, y, n) \in BOOLEAN
BY DEF Season
LEMMA SummerOnIs ==
    ASSUME NEW r \in Rules, NEW y, TurnsApart(r, y), NEW n, NEW q, NEW l, Minutes(l, n, q)
    PROVE  SummerAt(r, y, l) <=> SummerOn(r, y, n, q)
<1>1. PICK a \in Days, b \in Days: a = r.start /\ b = r.end
  BY DEF Rules
<1>2. PICK i \in Nat, j \in Nat: i = TurnDay(y, a) /\ j = TurnDay(y, b)
  BY <1>1 DEF TurnsApart
<1>3. IF North(r) THEN i < j ELSE j < i
  BY <1>1, <1>2 DEF TurnsApart
<1>4. PICK g \in 0..23, h \in 0..23: g = a.h /\ h = b.h
  BY DEF Days
<1>5. SummerAt(r, y, l) <=> IF North(r) THEN i * 1440 + g * 60 <= l /\ l < j * 1440 + h * 60
                                       ELSE i * 1440 + g * 60 <= l \/ l < j * 1440 + h * 60
  BY <1>1, <1>2, <1>4 DEF SummerAt, TurnAt
<1>6. Season(r, y, n) <=> IF North(r) THEN i < n /\ n <= j ELSE i < n \/ n <= j
  BY <1>1, <1>2 DEF Season
<1>7. SummerOn(r, y, n, q) <=> IF n = i THEN ((g * 60 <= q) # Season(r, y, n)) ELSE IF n = j THEN ((h * 60 <= q) # Season(r, y, n)) ELSE Season(r, y, n)
  BY <1>1, <1>2, <1>4 DEF SummerOn, HasTurned
<1>8. Season(r, y, n) \in BOOLEAN
  BY DEF Season
<1>9. n \in Int /\ q \in 0..1439 /\ l = n * 1440 + q
  BY DEF Minutes
<1> QED BY <1>9, <1>3, <1>5, <1>6, <1>7, <1>8
LEMMA InSummerIs ==
    ASSUME NEW r \in Rules, SeasonsApart(r), DstEnabled(r), r.start # NoDay,
           NEW y, NEW n, InYear(n, y), NEW q, NEW l, Minutes(l, n, q)
    PROVE  InSummer(r, l - r.std) <=> SummerOn(r, y, n, q)
<1>1. y \in 1970..2099 /\ n \in Int /\ y - 1 \in Int /\ YearStart[y] <= n /\ n < YearStart[y + 1]
  BY DEF InYear
<1>2. PICK std \in -720..840: std = r.std
  BY DEF Rules
<1>13. l \in Int /\ q \in 0..1439 /\ l = n * 1440 + q
  BY DEF Minutes
<1>3. PICK t \in Int: t = l - std
  BY <1>13
<1>4. t + std = l
  BY <1>3, <1>13
<1>5. \/ TurnYear(t) = y
      \/ TurnYear(t) = y - 1 /\ y > 1970 /\ n = YearStart[y]
      \/ TurnYear(t) = y + 1 /\ y < 2099 /\ n + 1 = YearStart[y + 1]
  <2>1. AsUtc(t, l, std)
    BY <1>3 DEF AsUtc
  <2> QED BY <2>1, TurnYearIs
<1>6. TurnsApart(r, y)
  BY <1>1, TurnsAreApart
<1>7. SummerAt(r, y, l) <=> SummerOn(r, y, n, q)
  BY <1>1, <1>6, SummerOnIs
<1>8. CASE TurnYear(t) = y
  <2>1. InSummer(r, t) <=> SummerAt(r, y, t + r.std)
    BY <1>1, <1>8, SummerIs
  <2> QED BY <2>1, <1>2, <1>3, <1>4, <1>7
<1>9. PICK a \in Days, b \in Days: a = r.start /\ b = r.end
  BY DEF Rules
<1>10. PICK g \in 0..23, h \in 0..23: g = a.h /\ h = b.h
  BY DEF Days
<1>11. CASE TurnYear(t) = y - 1 /\ y > 1970 /\ n = YearStart[y]
  <2>1. PICK z: z = y - 1 /\ z \in 1970..2099 /\ z + 1 = y
    BY <1>1, <1>11
  <2>2. TurnsApart(r, z)
    BY <2>1, TurnsAreApart
  <2>3. InSummer(r, t) <=> SummerAt(r, z, t + r.std)
    BY <2>1, <1>11, SummerIs
  <2>4. PICK i \in Nat, j \in Nat, k \in Nat, m \in Nat:
            i = TurnDay(y, a) /\ j = TurnDay(y, b) /\ k = TurnDay(z, a) /\ m = TurnDay(z, b)
    BY <1>6, <1>9, <2>2 DEF TurnsApart
  <2>5. n + 7 <= i /\ n + 7 <= j /\ k + 4 <= n /\ m + 4 <= n
    BY <1>6, <1>9, <1>11, <2>1, <2>2, <2>4 DEF TurnsApart
  <2>6. SummerAt(r, y, l) <=> ~North(r)
    <3>1. SummerAt(r, y, l) <=> IF North(r) THEN i * 1440 + g * 60 <= l /\ l < j * 1440 + h * 60
                                ELSE i * 1440 + g * 60 <= l \/ l < j * 1440 + h * 60
      BY <1>9, <1>10, <2>4 DEF SummerAt, TurnAt
    <3> QED BY <3>1, <2>5, <1>1, <1>13
  <2>7. SummerAt(r, z, l) <=> ~North(r)
    <3>1. SummerAt(r, z, l) <=> IF North(r) THEN k * 1440 + g * 60 <= l /\ l < m * 1440 + h * 60
                                ELSE k * 1440 + g * 60 <= l \/ l < m * 1440 + h * 60
      BY <1>9, <1>10, <2>4 DEF SummerAt, TurnAt
    <3> QED BY <3>1, <2>5, <1>1, <1>13
  <2> QED BY <2>3, <2>6, <2>7, <1>2, <1>3, <1>4, <1>7
<1>12. CASE TurnYear(t) = y + 1 /\ y < 2099 /\ n + 1 = YearStart[y + 1]
  <2>1. PICK z: z = y + 1 /\ z \in 1970..2099
    BY <1>1, <1>12
  <2>2. TurnsApart(r, z)
    BY <2>1, TurnsAreApart
  <2>3. InSummer(r, t) <=> SummerAt(r, z, t + r.std)
    BY <2>1, <1>12, SummerIs
  <2>4. PICK i \in Nat, j \in Nat, k \in Nat, m \in Nat:
            i = TurnDay(y, a) /\ j = TurnDay(y, b) /\ k = TurnDay(z, a) /\ m = TurnDay(z, b)
    BY <1>6, <1>9, <2>2 DEF TurnsApart
  <2>5. i + 4 <= n + 1 /\ j + 4 <= n + 1 /\ n + 8 <= k /\ n + 8 <= m
    BY <1>1, <1>6, <1>9, <1>12, <2>1, <2>2, <2>4 DEF TurnsApart
  <2>6. SummerAt(r, y, l) <=> ~North(r)
    <3>1. SummerAt(r, y, l) <=> IF North(r) THEN i * 1440 + g * 60 <= l /\ l < j * 1440 + h * 60
                                ELSE i * 1440 + g * 60 <= l \/ l < j * 1440 + h * 60
      BY <1>9, <1>10, <2>4 DEF SummerAt, TurnAt
    <3> QED BY <3>1, <2>5, <1>1, <1>13
  <2>7. SummerAt(r, z, l) <=> ~North(r)
    <3>1. SummerAt(r, z, l) <=> IF North(r) THEN k * 1440 + g * 60 <= l /\ l < m * 1440 + h * 60
                                ELSE k * 1440 + g * 60 <= l \/ l < m * 1440 + h * 60
      BY <1>9, <1>10, <2>4 DEF SummerAt, TurnAt
    <3> QED BY <3>1, <2>5, <1>1, <1>13
  <2> QED BY <2>3, <2>6, <2>7, <1>2, <1>3, <1>4, <1>7
<1> QED BY <1>5, <1>8, <1>11, <1>12

-----------------------------------------------------------------------------
(* The walk: its date, its number and its weekday go together, and it is    *)
(* summer when the season of the rule says so.                              *)
Dated == /\ date \in [y: Int, m: Int, d: Int] /\ Civil(date.y, date.m, date.d) /\ date.y <= walk.to
         /\ days = DayOf(date.y, date.m, date.d) /\ dow = (days + 4) % 7
InSeason == summer \in BOOLEAN /\ (summer <=> Turning(walk.text) /\ Season(Rule(walk.text), date.y, days))
CalInv == walk \in Walks /\ Dated /\ InSeason
LEMMA WalkHas ==
    ASSUME walk \in Walks
    PROVE  /\ walk.text \in Texts /\ walk.to \in Int /\ walk.to <= 2099
           /\ Turning(walk.text) => /\ Rule(walk.text) \in Rules /\ SeasonsApart(Rule(walk.text))
                                   /\ DstEnabled(Rule(walk.text)) /\ Rule(walk.text).start # NoDay
<1>1. walk.text \in Texts /\ walk.from.y \in 1970..2099 /\ walk.to \in walk.from.y..2099 /\ (Turning(walk.text) => SeasonsApart(Rule(walk.text)))
  BY WalksAreReal
<1>2. Turning(walk.text) => Rule(walk.text) \in Rules /\ DstEnabled(Rule(walk.text)) /\ Rule(walk.text).start # NoDay
  BY <1>1, TurningIs DEF Turning
<1> QED BY <1>1, <1>2
LEMMA TurnsAre ==
    ASSUME CalInv
    PROVE  /\ Turning(walk.text) => \A at: at \in Turns(Rule(walk.text), DayAfter(dow)) <=>
                   at \in {Rule(walk.text).start, Rule(walk.text).end} /\ days = TurnDay(date.y, at)
           /\ Parse(walk.text).ok /\ ~Turning(walk.text) => Turns(Rule(walk.text), DayAfter(dow)) = {}
<1>1. walk \in Walks /\ Civil(date.y, date.m, date.d) /\ days = DayOf(date.y, date.m, date.d) /\ dow = (days + 4) % 7
  BY DEF CalInv, Dated
<1>2. PICK r: r = Rule(walk.text)
  OBVIOUS
<1>3. ASSUME Turning(walk.text) PROVE \A at: at \in Turns(r, DayAfter(dow)) <=> at \in {r.start, r.end} /\ days = TurnDay(date.y, at)
  <2>1. DstEnabled(r) /\ r.start \in Days /\ r.end \in Days
    BY <1>1, <1>2, <1>3, WalkHas DEF Rules
  <2>2. Meets(r.start, DayAfter(dow)) <=> days = TurnDay(date.y, r.start)
    BY <1>1, <2>1, MeetsIs
  <2>3. Meets(r.end, DayAfter(dow)) <=> days = TurnDay(date.y, r.end)
    BY <1>1, <2>1, MeetsIs
  <2> QED BY <2>1, <2>2, <2>3 DEF Turns
<1>4. ASSUME Parse(walk.text).ok, ~Turning(walk.text) PROVE Turns(r, DayAfter(dow)) = {}
  <2>1. ~DstEnabled(r) \/ (r.start = NoDay /\ r.end = NoDay)
    BY <1>1, <1>2, <1>4, WalkHas, TurningIs
  <2>2. ~Meets(NoDay, DayAfter(dow))
    BY <1>1, CivilHas DEF Meets, NoDay
  <2> QED BY <2>1, <2>2 DEF Turns
<1> QED BY <1>2, <1>3, <1>4
LEMMA WalkStarts == CalInit => CalInv
<1> SUFFICES ASSUME CalInit PROVE CalInv
  OBVIOUS
<1>1. /\ walk \in Walks /\ date = [y |-> walk.from.y, m |-> 1, d |-> 1] /\ dow = walk.from.dow /\ days = walk.from.days
      /\ summer = walk.from.summer
  BY DEF CalInit
<1>2. /\ walk.from.y \in 1970..2099 /\ walk.to \in walk.from.y..2099
      /\ walk.from.days = 365 * (walk.from.y - 1970) + (walk.from.y - 1969) \div 4 /\ walk.from.dow = (walk.from.days + 4) % 7
      /\ walk.from.summer = (Turning(walk.text) /\ Rule(walk.text).start.m > Rule(walk.text).end.m)
  BY <1>1, WalksAreReal
<1>3. PICK y: y = walk.from.y /\ y \in 1970..2099 /\ y \in Years
  BY <1>2 DEF Years
<1>4. days = YearStart[y] /\ YearStart[y] = DayOf(y, 1, 1) /\ 1 \in 1..DaysInMonth(y, 1)
  BY <1>1, <1>2, <1>3, YearStartIs, NewYearIs
<1>5. date.y = y /\ date.m = 1 /\ date.d = 1 /\ date \in [y: Int, m: Int, d: Int]
  BY <1>1, <1>3
<1>6. Civil(y, 1, 1)
  BY <1>3, <1>4 DEF Civil
<1>7. Dated
  BY <1>1, <1>2, <1>3, <1>4, <1>5, <1>6 DEF Dated
<1>8. InSeason
  <2>1. PICK r: r = Rule(walk.text)
    OBVIOUS
  <2>2. ASSUME Turning(walk.text) PROVE Season(r, y, YearStart[y]) <=> r.start.m > r.end.m
    <3>1. r \in Rules /\ SeasonsApart(r)
      BY <1>1, <2>1, <2>2, WalkHas
    <3>2. TurnsApart(r, y)
      BY <3>1, <1>3, TurnsAreApart
    <3>3. Season(r, y, YearStart[y]) <=> ~North(r)
      BY <3>2, <1>3, SeasonBegins
    <3>4. r.start.m \in Int /\ r.end.m \in Int /\ r.start.m # r.end.m
      BY <3>1 DEF Rules, Days, SeasonsApart
    <3> QED BY <3>3, <3>4 DEF North
  <2>3. summer = (Turning(walk.text) /\ r.start.m > r.end.m)
    BY <2>1, <1>1, <1>2
  <2>4. summer \in BOOLEAN /\ (summer <=> Turning(walk.text) /\ r.start.m > r.end.m)
    BY <2>3
  <2>5. summer <=> Turning(walk.text) /\ Season(r, y, YearStart[y])
    BY <2>2, <2>4
  <2> QED BY <2>1, <2>4, <2>5, <1>4, <1>5 DEF InSeason
<1> QED BY <1>1, <1>7, <1>8 DEF CalInv
LEMMA WalkGoesOn == CalInv /\ [CalNext]_calVars => CalInv'
<1>1. CASE UNCHANGED calVars
  BY <1>1 DEF CalInv, Dated, InSeason, calVars
<1>2. ASSUME CalInv, NextDay PROVE CalInv'
  <2>1. /\ walk \in Walks /\ date \in [y: Int, m: Int, d: Int] /\ Civil(date.y, date.m, date.d) /\ date.y <= walk.to
        /\ days = DayOf(date.y, date.m, date.d) /\ dow = (days + 4) % 7 /\ summer \in BOOLEAN
        /\ summer <=> Turning(walk.text) /\ Season(Rule(walk.text), date.y, days)
    BY <1>2 DEF CalInv, Dated, InSeason
  <2>2. walk' = walk /\ days' = days + 1 /\ dow' = (dow + 1) % 7 /\ Parse(walk.text).ok
    BY <1>2 DEF NextDay
  <2>3. PICK y \in Int, m \in Int, d \in Int: date = [y |-> y, m |-> m, d |-> d]
    BY <2>1
  <2>4. Civil(y, m, d) /\ days = DayOf(y, m, d) /\ y <= walk.to
    BY <2>1, <2>3
  <2>5. y \in 1970..2099 /\ m \in 1..12 /\ d \in 1..DaysInMonth(y, m) /\ LastDay(y, m) = DaysInMonth(y, m) /\ DaysInMonth(y, m) \in 28..31
    <3>1. y \in 1970..2099 /\ m \in 1..12 /\ d \in 1..DaysInMonth(y, m)
      BY <2>4, CivilHas
    <3> QED BY <3>1, LastDayIs, DaysInMonthIs
  <2>6. days \in Nat /\ YearStart[y] <= days /\ days < YearStart[y + 1]
    BY <2>4, DayOfIs
  <2>7. /\ date' = CASE d < LastDay(y, m) -> [date EXCEPT !.d = @ + 1]
                      [] d = LastDay(y, m) /\ m < 12 -> [date EXCEPT !.m = @ + 1, !.d = 1]
                      [] OTHER -> [y |-> y + 1, m |-> 1, d |-> 1]
        /\ y < walk.to \/ m < 12 \/ d < 31
    BY <1>2, <2>3 DEF NextDay
  <2>8. /\ d < DaysInMonth(y, m) => date' = [y |-> y, m |-> m, d |-> d + 1]
        /\ d = DaysInMonth(y, m) /\ m < 12 => date' = [y |-> y, m |-> m + 1, d |-> 1]
        /\ d = DaysInMonth(y, m) /\ m = 12 => date' = [y |-> y + 1, m |-> 1, d |-> 1] /\ y < walk.to
    <3>1. DaysInMonth(y, 12) = 31
      BY DEF DaysInMonth
    <3>2. [date EXCEPT !.d = @ + 1] = [y |-> y, m |-> m, d |-> d + 1]
      BY <2>3
    <3>3. [date EXCEPT !.m = @ + 1, !.d = 1] = [y |-> y, m |-> m + 1, d |-> 1]
      <4>1. PICK v: v = [date EXCEPT !.m = @ + 1, !.d = 1]
        OBVIOUS
      <4>2. v \in [y: {y}, m: {m + 1}, d: {1}]
        BY <2>3, <4>1
      <4> QED BY <4>1, <4>2
    <3>4. ASSUME d < DaysInMonth(y, m) PROVE date' = [y |-> y, m |-> m, d |-> d + 1]
      BY <3>2, <3>4, <2>5, <2>7
    <3>5. ASSUME d = DaysInMonth(y, m), m < 12 PROVE date' = [y |-> y, m |-> m + 1, d |-> 1]
      BY <3>3, <3>5, <2>5, <2>7
    <3>6. ASSUME d = DaysInMonth(y, m), m = 12 PROVE date' = [y |-> y + 1, m |-> 1, d |-> 1] /\ y < walk.to
      BY <3>1, <3>6, <2>5, <2>7
    <3> QED BY <3>4, <3>5, <3>6
  <2>9. walk.to \in Int /\ walk.to <= 2099
    BY <2>1, WalkHas
  <2>10. PICK z, n, e: /\ date' = [y |-> z, m |-> n, d |-> e] /\ Civil(z, n, e) /\ z <= walk.to /\ DayOf(z, n, e) = days + 1
                       /\ z = y \/ (z = y + 1 /\ days + 1 = YearStart[y + 1])
    <3>1. CASE d < DaysInMonth(y, m)
      <4>1. Civil(y, m, d + 1)
        BY <3>1, <2>5 DEF Civil
      <4>2. DayOf(y, m, d + 1) = days + 1
        BY <3>1, <2>4, TomorrowIs
      <4> QED BY <3>1, <4>1, <4>2, <2>4, <2>8
    <3>2. CASE d = DaysInMonth(y, m) /\ m < 12
      <4>1. DaysInMonth(y, m + 1) \in 28..31
        BY DaysInMonthIs
      <4>2. Civil(y, m + 1, 1)
        BY <3>2, <4>1, <2>5 DEF Civil
      <4>3. DayOf(y, m + 1, 1) = days + 1
        BY <3>2, <2>4, TomorrowIs
      <4> QED BY <3>2, <4>2, <4>3, <2>4, <2>8
    <3>3. CASE d = DaysInMonth(y, m) /\ m = 12
      <4>1. y + 1 \in 1970..2099 /\ y + 1 <= walk.to
        BY <3>3, <2>5, <2>8, <2>9
      <4>2. PICK z: z = y + 1 /\ z \in 1970..2099
        BY <4>1
      <4>3. DayOf(z, 1, 1) = YearStart[z] /\ 1 \in 1..DaysInMonth(z, 1)
        BY <4>2, NewYearIs
      <4>4. Civil(z, 1, 1)
        BY <4>2, <4>3 DEF Civil
      <4>5. YearStart[y + 1] = days + 1
        BY <3>3, <2>4, TomorrowIs
      <4> QED BY <3>3, <4>1, <4>2, <4>3, <4>4, <4>5, <2>8
    <3>4. d < DaysInMonth(y, m) \/ d = DaysInMonth(y, m)
      BY <2>5
    <3>5. m < 12 \/ m = 12
      BY <2>5
    <3> QED BY <3>1, <3>2, <3>3, <3>4, <3>5
  <2>11. z \in 1970..2099 /\ n \in 1..12 /\ e \in 1..31
    BY <2>10, CivilHas
  <2>12. date' \in [y: Int, m: Int, d: Int] /\ date'.y = z /\ date'.m = n /\ date'.d = e
    BY <2>10, <2>11
  <2>13. dow' = (days + 5) % 7
    <3>1. (((days + 4) % 7) + 1) % 7 = (days + 5) % 7
      BY <2>6
    <3> QED BY <3>1, <2>1, <2>2
  <2>14. Dated'
    <3>1. dow' = (days' + 4) % 7
      BY <2>2, <2>6, <2>13
    <3> QED BY <3>1, <2>2, <2>10, <2>12 DEF Dated
  <2>15. InSeason'
    <3>1. PICK r: r = Rule(walk.text)
      OBVIOUS
    <3>2. summer' = IF Turns(r, DayAfter(dow)) # {} THEN ~summer ELSE summer
      BY <1>2, <3>1 DEF NextDay
    <3>3. CASE ~Turning(walk.text)
      <4>1. Turns(r, DayAfter(dow)) = {}
        BY <1>2, <2>2, <3>1, <3>3, TurnsAre
      <4> QED BY <4>1, <3>2, <3>3, <2>1, <2>2 DEF InSeason
    <3>4. CASE Turning(walk.text)
      <4>1. r \in Rules /\ SeasonsApart(r)
        BY <2>1, <3>1, <3>4, WalkHas
      <4>2. TurnsApart(r, y)
        BY <4>1, <2>5, TurnsAreApart
      <4>3. Turns(r, DayAfter(dow)) # {} <=> days = TurnDay(y, r.start) \/ days = TurnDay(y, r.end)
        <5>1. date.y = y
          BY <2>3
        <5> QED BY <5>1, <1>2, <3>1, <3>4, TurnsAre
      <4>4. Season(r, y, days + 1) <=> IF days = TurnDay(y, r.start) \/ days = TurnDay(y, r.end) THEN ~Season(r, y, days) ELSE Season(r, y, days)
        BY <4>2, <2>6, SeasonGoesOn
      <4>5. Season(r, z, days + 1) <=> Season(r, y, days + 1)
        <5>1. CASE z = y
          BY <5>1
        <5>2. CASE z = y + 1 /\ days + 1 = YearStart[y + 1]
          <6>1. TurnsApart(r, z)
            BY <4>1, <2>11, TurnsAreApart
          <6>2. Season(r, z, YearStart[z]) <=> ~North(r)
            BY <6>1, <2>11, SeasonBegins
          <6>3. Season(r, y, YearStart[y + 1]) <=> ~North(r)
            BY <4>2, <2>5, SeasonBegins
          <6> QED BY <5>2, <6>2, <6>3
        <5> QED BY <5>1, <5>2, <2>10
      <4>6. summer <=> Season(r, y, days)
        BY <2>1, <2>3, <3>1, <3>4
      <4>7. summer' \in BOOLEAN /\ (summer' <=> Season(r, z, days + 1))
        BY <4>3, <4>4, <4>5, <4>6, <3>2, <2>1
      <4> QED BY <4>7, <3>1, <3>4, <2>2, <2>12 DEF InSeason
    <3> QED BY <3>3, <3>4
  <2> QED BY <2>1, <2>2, <2>14, <2>15 DEF CalInv
<1> QED BY <1>1, <1>2 DEF CalNext
\* What the code says of a minute of the day on which the walk is.
LEMMA InSummerToday ==
    ASSUME CalInv, Turning(walk.text), NEW q, q \in 0..1439, NEW r, r = Rule(walk.text)
    PROVE  InSummer(r, days * 1440 + q - r.std) <=>
               IF \E at \in Turns(r, DayAfter(dow)): HasTurned(at, q) THEN ~summer ELSE summer
<1>1. /\ walk \in Walks /\ Civil(date.y, date.m, date.d) /\ days = DayOf(date.y, date.m, date.d)
      /\ summer \in BOOLEAN /\ (summer <=> Season(r, date.y, days))
  BY DEF CalInv, Dated, InSeason
<1>2. r \in Rules /\ SeasonsApart(r) /\ DstEnabled(r) /\ r.start # NoDay
  BY <1>1, WalkHas
<1>3. PICK y: y = date.y /\ y \in 1970..2099
  BY <1>1, CivilHas
<1>4. PICK n \in Nat: n = days /\ YearStart[y] <= n /\ n < YearStart[y + 1]
  BY <1>1, <1>3, DayOfIs
<1>5. InYear(n, y)
  BY <1>3, <1>4 DEF InYear
<1>6. PICK l: l = n * 1440 + q
  OBVIOUS
<1>7. Minutes(l, n, q)
  BY <1>4, <1>6 DEF Minutes
<1>8. InSummer(r, l - r.std) <=> SummerOn(r, y, n, q)
  BY <1>2, <1>5, <1>7, InSummerIs
<1>9. TurnsApart(r, y)
  BY <1>2, <1>3, TurnsAreApart
<1>10. TurnDay(y, r.start) # TurnDay(y, r.end)
  <2>1. PICK i \in Nat, j \in Nat: i = TurnDay(y, r.start) /\ j = TurnDay(y, r.end)
    BY <1>9 DEF TurnsApart
  <2>2. IF North(r) THEN i < j ELSE j < i
    BY <2>1, <1>9 DEF TurnsApart
  <2> QED BY <2>1, <2>2
<1>11. \A at: at \in Turns(r, DayAfter(dow)) <=> at \in {r.start, r.end} /\ n = TurnDay(y, at)
  BY <1>3, <1>4, TurnsAre
<1>12. (\E at \in Turns(r, DayAfter(dow)): HasTurned(at, q)) <=>
           \/ n = TurnDay(y, r.start) /\ HasTurned(r.start, q)
           \/ n = TurnDay(y, r.end) /\ HasTurned(r.end, q)
  BY <1>11
<1>13. HasTurned(r.start, q) \in BOOLEAN /\ HasTurned(r.end, q) \in BOOLEAN /\ Season(r, y, n) \in BOOLEAN
  <2>1. r.start.h \in Int /\ r.end.h \in Int
    BY <1>2 DEF Rules, Days
  <2>2. HasTurned(r.start, q) \in BOOLEAN /\ HasTurned(r.end, q) \in BOOLEAN
    BY <2>1 DEF HasTurned
  <2>3. Season(r, y, n) \in BOOLEAN
    BY SeasonIsOneOfTwo
  <2> QED BY <2>2, <2>3
<1>14. SummerOn(r, y, n, q) <=> IF \E at \in Turns(r, DayAfter(dow)): HasTurned(at, q) THEN ~Season(r, y, n) ELSE Season(r, y, n)
  BY <1>10, <1>12, <1>13 DEF SummerOn
<1>15. l = days * 1440 + q
  BY <1>4, <1>6
<1>16. summer <=> Season(r, y, n)
  BY <1>1, <1>3, <1>4
<1>17. InSummer(r, l - r.std) <=> IF \E at \in Turns(r, DayAfter(dow)): HasTurned(at, q) THEN ~summer ELSE summer
  BY <1>8, <1>14, <1>16
<1> DEFINE u == days * 1440 + q - r.std
<1>18. PICK t: t = l - r.std
  OBVIOUS
<1>19. t = u
  <2>1. PICK std \in Int: std = r.std
    BY <1>2 DEF Rules
  <2>2. n * 1440 + q - std = l - std
    BY <1>6
  <2> QED BY <2>1, <2>2, <1>4, <1>18
<1>20. InSummer(r, t) <=> IF \E at \in Turns(r, DayAfter(dow)): HasTurned(at, q) THEN ~summer ELSE summer
  BY <1>17, <1>18
<1> HIDE DEF u
<1>21. InSummer(r, u) <=> IF \E at \in Turns(r, DayAfter(dow)): HasTurned(at, q) THEN ~summer ELSE summer
  BY <1>19, <1>20
<1> QED BY <1>21 DEF u
LEMMA TurnsAreOnEves == ASSUME CalInv, Parse(walk.text).ok PROVE TurnsOnEves
<1>1. PICK r, today: r = Rule(walk.text) /\ today = Turns(r, DayAfter(dow))
  OBVIOUS
<1>2. summer \in BOOLEAN /\ walk \in Walks
  BY DEF CalInv, InSeason
<1>3. \A t: InSummer(r, t) \in BOOLEAN
  BY DEF InSummer
<1> DEFINE In(q) == InSummer(r, days * 1440 + q - r.std)
<1>4. SUFFICES /\ In(0) <=> IF \E at \in today: at.h = 0 THEN ~summer ELSE summer
               /\ In(1439) <=> IF today # {} THEN ~summer ELSE summer
               /\ \A at \in today: (at.h > 0 => (In(at.h * 60 - 1) <=> summer)) /\ (In(at.h * 60) <=> ~summer)
  BY <1>1, <1>2, <1>3 DEF TurnsOnEves
<1>5. CASE ~Turning(walk.text)
  <2>1. ~DstEnabled(r) \/ r.start = NoDay
    BY <1>1, <1>5 DEF Turning
  <2>2. \A t: ~InSummer(r, t)
    BY <2>1 DEF InSummer
  <2>3. ~summer
    BY <1>5 DEF CalInv, InSeason
  <2>4. today = {}
    BY <1>1, <1>5, TurnsAre
  <2> QED BY <2>2, <2>3, <2>4
<1>6. CASE Turning(walk.text)
  <2>1. \A q: q \in 0..1439 => (In(q) <=> IF \E at \in today: HasTurned(at, q) THEN ~summer ELSE summer)
    BY <1>1, <1>6, InSummerToday
  <2>2. r \in Rules /\ SeasonsApart(r)
    BY <1>1, <1>2, <1>6, WalkHas
  <2>3. r.start \in Days /\ r.end \in Days
    BY <2>2 DEF Rules
  <2>4. PICK y: y = date.y /\ y \in 1970..2099
    BY CivilHas DEF CalInv, Dated
  <2>5. TurnDay(y, r.start) # TurnDay(y, r.end)
    <3>1. TurnsApart(r, y)
      BY <2>2, <2>4, TurnsAreApart
    <3>2. PICK i \in Nat, j \in Nat: i = TurnDay(y, r.start) /\ j = TurnDay(y, r.end)
      BY <3>1 DEF TurnsApart
    <3>3. IF North(r) THEN i < j ELSE j < i
      BY <3>1, <3>2 DEF TurnsApart
    <3> QED BY <3>2, <3>3
  <2>6. \A at: at \in today <=> at \in {r.start, r.end} /\ days = TurnDay(y, at)
    BY <1>1, <1>6, <2>4, TurnsAre
  <2>7. \A at \in today, bt \in today: at = bt
    BY <2>5, <2>6
  <2>8. \A at \in today: at \in Days
    BY <2>3, <2>6
  <2>9. \A at \in today: at.h \in Int /\ at.h >= 0 /\ at.h <= 23
    BY <2>8 DEF Days
  <2> HIDE DEF In
  <2>10. In(0) <=> IF \E at \in today: at.h = 0 THEN ~summer ELSE summer
    <3>1. \A at \in today: HasTurned(at, 0) <=> at.h = 0
      BY <2>9 DEF HasTurned
    <3>2. 0 \in 0..1439
      OBVIOUS
    <3> QED BY <3>1, <3>2, <2>1
  <2>11. In(1439) <=> IF today # {} THEN ~summer ELSE summer
    <3>1. \A at \in today: HasTurned(at, 1439)
      BY <2>9 DEF HasTurned
    <3>2. 1439 \in 0..1439
      OBVIOUS
    <3> QED BY <3>1, <3>2, <2>1
  <2>12. ASSUME NEW at \in today PROVE (at.h > 0 => (In(at.h * 60 - 1) <=> summer)) /\ (In(at.h * 60) <=> ~summer)
    <3>1. PICK h \in 0..23: h = at.h
      BY <2>9
    <3>2. PICK q: q = h * 60 /\ q \in 0..1439
      BY <3>1
    <3>3. HasTurned(at, q)
      BY <3>1, <3>2 DEF HasTurned
    <3>4. In(q) <=> ~summer
      BY <3>2, <3>3, <2>1
    <3>5. ASSUME at.h > 0 PROVE In(at.h * 60 - 1) <=> summer
      <4>1. PICK p: p = h * 60 - 1 /\ p \in 0..1439
        BY <3>1, <3>5
      <4>2. ~HasTurned(at, p)
        BY <3>1, <4>1 DEF HasTurned
      <4>3. ~ \E bt \in today: HasTurned(bt, p)
        BY <4>2, <2>7
      <4> QED BY <4>1, <4>3, <3>1, <2>1
    <3> QED BY <3>1, <3>2, <3>4, <3>5
  <2> QED BY <2>10, <2>11, <2>12
<1> QED BY <1>5, <1>6
LEMMA DaysAreCounted == CalInv => Counts
<1> SUFFICES ASSUME CalInv PROVE Counts
  OBVIOUS
<1>1. PICK y, m, d, n: /\ y = date.y /\ m = date.m /\ d = date.d /\ n = DayOf(y, m, d) /\ Civil(y, m, d)
                       /\ days = n /\ dow = (n + 4) % 7
  BY DEF CalInv, Dated
<1>2. IsTold(y, m, d, 0) /\ IsTold(y, m, d, 1439)
  <2>1. \A q: q \in 0..1439 => IsTold(y, m, d, q)
    BY <1>1, CivilIs
  <2>2. 0 \in 0..1439 /\ 1439 \in 0..1439
    OBVIOUS
  <2> QED BY <2>1, <2>2
<1>4. \A q \in {0, 1439}: IsTold(y, m, d, q)
  BY <1>2
<1>5. DayOf(date.y, date.m, date.d) = days
  BY <1>1
<1>6. \A q \in {0, 1439}: ToCivil(days * 1440 + q) = [y |-> date.y, m |-> date.m, d |-> date.d, h |-> q \div 60, min |-> q % 60, wday |-> dow]
  BY <1>1, <1>4 DEF IsTold
<1> QED BY <1>5, <1>6 DEF Counts
(* In the walk of any zone rule with two turns in different months, through *)
(* any of the years that the clock can show, the dates and weekdays of      *)
(* epoch_calendar.c are those of a calendar, a text is read as tz_rule.c    *)
(* says, and summer time turns at the rule's hour on the n-th of the days   *)
(* before the weekday that the rule names, and at no other time.            *)
THEOREM CalendarIsTrue == CalSpec => []CalendarTrue
<1>1. CalInv => CalendarTrue
  <2> SUFFICES ASSUME CalInv PROVE CalendarTrue
    OBVIOUS
  <2>1. Reads(walk.text)
    BY WalkHas, ReadsIs DEF CalInv
  <2> QED BY <2>1, DaysAreCounted, TurnsAreOnEves DEF CalendarTrue
<1> QED BY <1>1, WalkStarts, WalkGoesOn, PTL DEF CalSpec
=============================================================================
