---- MODULE Weighing ----
(***************************************************************************)
(* The scale: its power and boot (weight_adapter.c, weight_driver.c), its  *)
(* calibration and the copy in flash (weigh_cal.c), the samples of the app *)
(* task (app.c) and the compensation of drift (auto_tare.c), with feedings *)
(* that read the scale before and after, the bench commands, and power     *)
(* cuts. A reading is what lies on the scale plus the drift of the sensor. *)
(***************************************************************************)
EXTENDS Integers, NoValue
CONSTANTS Masses,       \* food in the bowl, which a cat or a feeding changes, by more than Rate
          Away,         \* what a scale without its bowl reads
          Missing,      \* WEIGH_BOWL_MISSING_THRESHOLD_DG
          Rate,         \* AUTO_TARE_DRIFT_RATE_MAX_DG, and what the sensor drifts between two readings
          MaxDrift,     \* bound: of the drift, to either side
          Streak,       \* AUTO_TARE_INITIAL_STABLE_STREAK
          MaxOrders     \* bound: changes of what lies on the scale, bench commands and calibrations
ASSUME WeightsAreIntegers == Masses \subseteq Int /\ Away \in Int /\ Missing \in Int
ASSUME RatesAreNatural == Rate \in Nat /\ MaxDrift \in Nat /\ Streak \in Nat
VARIABLES world,     \* what lies on the scale, the bowl's food and the drift
          scale,     \* weight_driver_state_t: cold, settling, ready, off, or powered and not booted
          cal,       \* weigh_cal_model_t: the calibration that zero and span come from
          flash,     \* its keys: zero, spanG and spanRaw
          app,       \* s_weight_boot, s_bowl_dg, s_bowl_valid, dispense active, resample wanted
          tare,      \* the statics of auto_tare.c
          bench,     \* the console waits in weigh power on
          past,      \* history: load of the last reading, of the anchor and of the last correction, and what happened since
          spent      \* changes and commands so far
weighVars == <<world, scale, cal, flash, app, tare, bench, past, spent>>

NoTare == [stable |-> 0, offset |-> 0, ok |-> FALSE, pending |-> TRUE, prev |-> None, quiet |-> 0, error |-> None]
ColdApp == [boot |-> "pending", dg |-> 0, valid |-> FALSE, dispensing |-> FALSE, resample |-> FALSE]
WeighInit ==
    /\ world = [food |-> 0, bowl |-> TRUE, drift |-> 0]
    /\ \E k \in {<<None, None>>, <<0, None>>, <<0, 0>>}:
            flash = [zero |-> k[1], spanG |-> k[2], spanRaw |-> k[2]] /\ cal = [zero |-> k[1], span |-> k[2]]
    /\ scale = "cold" /\ app = ColdApp /\ tare = NoTare /\ bench = FALSE
    /\ past = [seen |-> 0, at |-> 0, from |-> 0, kept |-> FALSE, lag |-> 0, away |-> FALSE, torn |-> FALSE]
    /\ spent = 0

------------------------------------------------------------------------------
(* weigh_cal.c: the zero is written before the span of the last calibration *)
(* is erased, and whether the erasure worked is not looked at. A load takes *)
(* a span only with both its keys and a zero.                               *)
Complete == cal.zero # None /\ cal.span # None
SpanErased(f, failed) == [key \in DOMAIN f |-> IF key = "zero" \/ key \in failed THEN f[key] ELSE None]
Loaded(f) == [zero |-> f.zero, span |-> IF f.zero # None /\ f.spanG # None THEN f.spanRaw ELSE None]

(* weight_ensure_booted and the loan of the bus: a reading boots a scale    *)
(* that was never powered, is refused by one that settles or is off, may    *)
(* find the bus or the sensor failing, and needs a complete calibration.    *)
Attempts(s) ==
    CASE s = "off" -> {[err |-> "fail", scale |-> s]}
      [] s = "settling" -> {[err |-> "busy", scale |-> s]}
      [] OTHER -> [err: {"busy", "fail"}, scale: {s, "ready"}]
                  \cup (IF Complete THEN {[err |-> "ok", scale |-> "ready"]} ELSE {})
(* port_boot_begin: off and on again, over two loans that may be refused.   *)
BootBegin(s) == [began: {FALSE}, scale: IF s \in {"cold", "off"} THEN {s} ELSE {"off", "powered"}]
                \cup {[began |-> TRUE, scale |-> "settling"]}

(* bowl_error_eval, on the raw sample *)
BowlError(a) ==
    CASE cal.zero = None -> "incomplete"
      [] cal.zero # None /\ cal.span = None -> "span"
      [] OTHER -> IF a.valid /\ a.dg < -Missing THEN "missing" ELSE "none"

(* auto_tare.c. A bowl error that appears drops the anchor, one that goes   *)
(* restarts the tracking.                                                   *)
Untracked(t) == [t EXCEPT !.prev = None, !.quiet = 0]
AnchorKeepsOffset(t, dg) == Untracked([t EXCEPT !.stable = dg, !.ok = TRUE, !.pending = FALSE])
Anchor(t, dg) == Untracked([t EXCEPT !.stable = dg, !.offset = 0, !.ok = TRUE, !.pending = FALSE])
Removed(t) == Untracked([t EXCEPT !.ok = FALSE, !.pending = TRUE, !.offset = 0])
Active(e) == e \notin {None, "none"}
SyncError(t, e) ==
    LET u == [t EXCEPT !.error = e]
    IN  CASE ~Active(t.error) /\ Active(e) -> Removed(u)
          [] Active(t.error) /\ ~Active(e) -> Untracked(u)
          [] OTHER -> u
(* A sample of the idle scale: before the anchor, quiet samples in a row    *)
(* make one; after it, two samples that differ by at most Rate make the     *)
(* panel show the anchor again.                                             *)
IdleSample(t, a) ==
    LET tracked == [t EXCEPT !.prev = a.dg]
        quiet == t.prev = None \/ a.dg - t.prev \in -Rate..Rate
        streak == IF quiet THEN t.quiet + 1 ELSE 0
    IN  CASE ~a.valid -> Untracked(t)
          [] a.valid /\ t.pending -> IF streak >= Streak THEN Anchor(t, a.dg) ELSE [tracked EXCEPT !.quiet = streak]
          [] OTHER -> IF t.ok /\ t.prev # None /\ quiet THEN [tracked EXCEPT !.offset = t.stable - a.dg] ELSE tracked
Presented == IF app.valid /\ tare.ok /\ ~tare.pending THEN app.dg + tare.offset ELSE app.dg

------------------------------------------------------------------------------
(* A reading of the app task, blocking or not: a sample that finds the bus  *)
(* busy keeps the last value, another error invalidates it.                 *)
Drifts(err) == IF err = "ok" THEN {d \in -MaxDrift..MaxDrift: d - world.drift \in -Rate..Rate} ELSE {world.drift}
Load == IF world.bowl THEN world.food ELSE Away
Sampled(a, err, drift) == CASE err = "ok" -> [a EXCEPT !.dg = Load + drift, !.valid = TRUE]
                            [] err = "fail" -> [a EXCEPT !.valid = FALSE]
                            [] OTHER -> a
Read(r, drift) == scale' = r.scale /\ world' = [world EXCEPT !.drift = drift]

(* History of a step that read with err and left the tare at u. An anchor   *)
(* remembers the load of its reading, and so does a correction; lag counts  *)
(* the readings since the last of either. An anchor is kept until the next  *)
(* calibration.                                                             *)
Remember(err, u, anchored, corrected) ==
    LET seen == IF err = "ok" THEN Load ELSE past.seen
        lag == IF err = "ok" THEN past.lag + 1 ELSE past.lag
    IN  past' = [past EXCEPT !.seen = seen,
                             !.at = IF anchored THEN seen ELSE @,
                             !.from = IF anchored \/ corrected THEN seen ELSE @,
                             !.kept = anchored \/ @,
                             !.lag = IF anchored \/ corrected THEN 0 ELSE IF lag > 2 * MaxDrift THEN 2 * MaxDrift ELSE lag,
                             !.away = IF u.pending THEN FALSE ELSE IF anchored THEN Active(u.error) ELSE @]
Housekeep ==
    \/ /\ app.boot = "pending" /\ app' = [app EXCEPT !.boot = "settling"]
       /\ \E b \in BootBegin(scale): scale' = b.scale
       /\ UNCHANGED <<world, past>>
    \/ /\ app.boot = "settling" /\ scale \notin {"settling", "ready"} /\ app' = [app EXCEPT !.boot = "done"]
       /\ UNCHANGED <<world, scale, past>>
    \/ /\ app.boot = "settling" /\ scale \in {"settling", "ready"}
       /\ \E r \in Attempts("ready"): \E d \in Drifts(r.err):
            /\ Read(r, d) /\ app' = [Sampled(app, r.err, d) EXCEPT !.boot = "done"]
            /\ Remember(r.err, tare, FALSE, FALSE)
HousekeepTick == Housekeep /\ UNCHANGED <<cal, flash, tare, bench, spent>>

IdleTick ==
    /\ app.boot = "done" /\ ~app.dispensing
    /\ \E r \in Attempts(scale): \E d \in Drifts(r.err): \E a \in {Sampled(app, r.err, d)}:
       \E t \in {SyncError(tare, BowlError(a))}: \E u \in {IdleSample(t, a)}:
            /\ Read(r, d) /\ app' = a /\ tare' = u
            /\ Remember(r.err, u, a.valid /\ u.prev = None, a.valid /\ t.prev # None /\ a.dg - t.prev \in -Rate..Rate)
    /\ UNCHANGED <<cal, flash, bench, spent>>
Resample ==
    /\ app.resample
    /\ \E r \in Attempts(scale): \E d \in Drifts(r.err):
            /\ Read(r, d) /\ app' = [Sampled(app, r.err, d) EXCEPT !.resample = FALSE]
            /\ Remember(r.err, tare, FALSE, FALSE)
    /\ UNCHANGED <<cal, flash, tare, bench, spent>>

(* A feeding takes its baseline: the reading that anchors a pending tare, a *)
(* recent sample, or one of its own; and after each batch it anchors at     *)
(* what it reads. Neither looks at the bowl.                                *)
Takes(anchors, a) ==
    \E r \in Attempts(scale): \E d \in Drifts(r.err):
        LET ok == r.err = "ok"
            u == IF ok /\ anchors THEN Anchor(tare, Load + d) ELSE tare
        IN  /\ Read(r, d) /\ tare' = u /\ Remember(r.err, u, ok /\ anchors, FALSE)
            /\ app' = IF ok THEN Sampled(a, r.err, d) ELSE a
DispenseBegin ==
    /\ ~app.dispensing
    /\ LET a == [app EXCEPT !.dispensing = TRUE]
       IN  \/ Takes(tare.pending, a)
           \/ ~tare.pending /\ app.boot = "done" /\ app.valid /\ app' = a /\ UNCHANGED <<world, scale, tare, past>>
    /\ UNCHANGED <<cal, flash, bench, spent>>
Settled(last) ==
    /\ app.dispensing
    /\ Takes(TRUE, IF last THEN [app EXCEPT !.dispensing = FALSE, !.resample = (app.boot = "done") \/ @] ELSE app)
    /\ UNCHANGED <<cal, flash, bench, spent>>

------------------------------------------------------------------------------
(* The console: power on begins a boot and polls it until it is not busy,   *)
(* power off may be refused the bus.                                        *)
Ordered == spent < MaxOrders /\ spent' = spent + 1
PowerOnBegin ==
    /\ ~bench /\ Ordered
    /\ \E b \in BootBegin(scale): scale' = b.scale /\ bench' = b.began
    /\ UNCHANGED <<world, cal, flash, app, tare, past>>
PowerOnPoll ==
    /\ bench /\ bench' = FALSE /\ scale' = IF scale = "settling" THEN "ready" ELSE scale
    /\ UNCHANGED <<world, cal, flash, app, tare, past, spent>>
PowerOff ==
    /\ ~bench /\ Ordered /\ scale' = "off"
    /\ UNCHANGED <<world, cal, flash, app, tare, bench, past>>

(* Calibration: of the zero, and of the span after it. Each write to flash  *)
(* may fail, or be the last one before the power goes.                      *)
Boots(f) == cal' = Loaded(f) /\ scale' = "cold" /\ app' = ColdApp /\ tare' = NoTare /\ bench' = FALSE
Keeps(c) == cal' = c /\ scale' = "ready" /\ UNCHANGED <<app, tare, bench>>
CanCalibrate == ~bench /\ scale \notin {"off", "settling"} /\ Ordered
CalZero(cut) ==
    /\ CanCalibrate
    /\ \E failed \in SUBSET {"spanG", "spanRaw"}:
        /\ cut => failed \in {{"spanG", "spanRaw"}, {"spanRaw"}}
        /\ flash' = SpanErased([flash EXCEPT !.zero = spent + 1], failed)
        /\ past' = [past EXCEPT !.torn = flash.spanRaw # None /\ "spanRaw" \in failed, !.kept = FALSE]
    /\ IF cut THEN Boots(flash') ELSE Keeps([zero |-> spent + 1, span |-> None])
    /\ UNCHANGED world
CalSpan(written, cut) ==
    /\ CanCalibrate /\ cal.zero # None /\ (written = 2 => ~cut)
    /\ flash' = CASE written = 0 -> flash
                  [] written = 1 -> [flash EXCEPT !.spanG = cal.zero]
                  [] OTHER -> [flash EXCEPT !.spanG = cal.zero, !.spanRaw = cal.zero]
    /\ past' = [past EXCEPT !.torn = @ /\ written < 2, !.kept = FALSE]
    /\ IF cut THEN Boots(flash') ELSE Keeps(IF written = 2 THEN [cal EXCEPT !.span = cal.zero] ELSE cal)
    /\ UNCHANGED world

(* The food changes, and the bowl is taken away and put back.               *)
FoodChanges(m) ==
    /\ Ordered /\ m # world.food /\ world.bowl /\ world' = [world EXCEPT !.food = m]
    /\ UNCHANGED <<scale, cal, flash, app, tare, bench, past>>
BowlMoves ==
    /\ Ordered /\ world' = [world EXCEPT !.bowl = ~@]
    /\ UNCHANGED <<scale, cal, flash, app, tare, bench, past>>
WeighNext ==
    \/ HousekeepTick \/ IdleTick \/ Resample \/ DispenseBegin
    \/ PowerOnBegin \/ PowerOnPoll \/ PowerOff \/ BowlMoves
    \/ \E b \in BOOLEAN: Settled(b) \/ CalZero(b) \/ \E w \in 0..2: CalSpan(w, b)
    \/ \E m \in Masses: FoodChanges(m)
WeighSpec == WeighInit /\ [][WeighNext]_weighVars

------------------------------------------------------------------------------
WeighTypeOK ==
    /\ scale \in {"cold", "powered", "settling", "ready", "off"} /\ world.drift \in -MaxDrift..MaxDrift
    /\ app.boot \in {"pending", "settling", "done"} /\ tare.quiet \in 0..Streak /\ bench \in BOOLEAN
    /\ (tare.ok = ~tare.pending) /\ (scale = "settling" => bench \/ app.boot = "settling")

(* What the panel and the topic tell departs from the anchored weight as    *)
(* the load does from the one that was last compensated, but for what the   *)
(* sensor drifted since: a change is told when it is read, until two        *)
(* readings in a row agree on the new load and it is compensated as well.   *)
Compensated == app.valid /\ tare.ok /\ ~tare.pending /\ past.kept
ShownAs(change) == Presented - tare.stable - change \in -(Rate * past.lag)..(Rate * past.lag)
ChangesTold == Compensated => ShownAs(past.seen - past.from)
(* What was eaten stays told: "The feeder reports the current weight of     *)
(* food in the bowl" (spec/20-stories/monitoring.md:10).                    *)
EatenStaysTold == Compensated /\ past.seen < past.at => ShownAs(past.seen - past.at)
(* An anchor does not outlive the bowl: while the error that was told last  *)
(* is active there is none. The exception is an anchor set during the error *)
(* itself: quiet samples and feedings anchor a scale without its bowl.      *)
NoAnchorWithoutBowl == Active(tare.error) => tare.pending \/ past.away
(* A span is used with the zero it was taken with. The exception is a span  *)
(* whose erasure failed, or was cut off, when the zero was taken.           *)
SpanOfItsZero == Complete => cal.span = cal.zero \/ past.torn
BowlTrusted == WeighTypeOK /\ ChangesTold /\ NoAnchorWithoutBowl /\ SpanOfItsZero
====
