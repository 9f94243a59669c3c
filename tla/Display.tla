---- MODULE Display ----
(***************************************************************************)
(* The front panel: the scene of display_presentation.c with its steady,   *)
(* blinking and patterned icons, the indicators that set it, the child     *)
(* lock's feedback, and the drawing, which skips a frame while the bus is  *)
(* lent to another. All of it runs in the app task. Time is counted in     *)
(* display ticks. The animation of the console is left out.                *)
(***************************************************************************)
EXTENDS Integers, Sequences, FiniteSets, NoValue
CONSTANTS Icons,          \* of wifi, child_lock, dispensing, bowl_error, bar_orange, bar_green
          MaxBlinks,      \* DISPLAY_PRESENTATION_MAX_BLINKS
          Cadence,        \* by cause of blinking: ticks on and off
          ErrorPattern,   \* s_mqtt_error_pattern: ticks and visibility of each phase
          SampleEvery,    \* APP_WEIGHT_SAMPLE_MS in ticks
          FeedbackTicks,  \* DISPLAY_CHILD_LOCK_BLOCKED_MS in ticks
          MaxPics         \* bound: events that change an indicator
Causes == {"wifi_connecting", "wifi_ap", "dispensing", "child_lock", "cal_incomplete", "span_pending", "mqtt_connecting"}
ASSUME IconsAreFinite == IsFiniteSet(Icons) /\ MaxBlinks \in Nat
ASSUME CadencesAreTicks == Cadence \in [Causes -> [on: Nat, off: Nat]]
ASSUME PatternHasPhases == ErrorPattern \in Seq([ticks: Nat, visible: BOOLEAN]) /\ Len(ErrorPattern) > 0
ASSUME PeriodsAreTicks == SampleEvery \in Nat \ {0} /\ FeedbackTicks \in Nat \ {0}
VARIABLES sc,             \* s_pres: steady, blink, pattern, digits, ota, dirty
          shown,          \* what was drawn last
          feedback,       \* ticks left of the lock's feedback, 0 when inactive
          lock,           \* the child lock
          bowl,           \* what the samples of the scale tell: the error kind and the digits
          sample,         \* ticks to the next sample
          pics
panelVars == <<sc, shown, feedback, lock, bowl, sample, pics>>

\* What blinks or follows a pattern, and what does neither.
BlinkSlot == [lit: BOOLEAN, left: Nat, cause: Causes]
PatternSlot == [phase: 1..Len(ErrorPattern), left: Nat]
ASSUME NoneIsNoSlot == None \notin BlinkSlot /\ None \notin PatternSlot
Blinking(s) == {i \in Icons: s.blink[i] # None}
Patterned(s) == {i \in Icons: s.pattern[i] # None}
(* presentation_effective_icon_mask: a pattern before a blink before steady; *)
(* the update's picture leaves only the Wi-Fi icon.                          *)
Visible(s, i) == CASE s.pattern[i] # None -> ErrorPattern[s.pattern[i].phase].visible
                   [] s.pattern[i] = None /\ s.blink[i] # None -> s.blink[i].lit
                   [] OTHER -> i \in s.steady
Mask(s) == {i \in Icons: (s.ota => i = "wifi") /\ Visible(s, i)}
Picture(s) == [digits |-> IF s.ota THEN "bar" ELSE s.digits, icons |-> Mask(s)]

PanelInit ==
    /\ sc = [steady |-> {}, blink |-> [i \in Icons |-> None], pattern |-> [i \in Icons |-> None],
             digits |-> "blank", ota |-> FALSE, dirty |-> FALSE]
    /\ shown = Picture(sc) /\ feedback = 0 /\ lock = FALSE
    /\ bowl = [error |-> "none", digits |-> "grams"] /\ sample = 0 /\ pics = 0

------------------------------------------------------------------------------
(* The setters of the scene. A blink or a pattern that finds no free slot   *)
(* is refused.                                                              *)
DirtyForgotten(s) == s
Dirty(s) == [s EXCEPT !.dirty = TRUE]
IconSet(s, i, on) == Dirty([s EXCEPT !.steady = IF on THEN @ \cup {i} ELSE @ \ {i}])
BlinkStop(s, i) == Dirty([s EXCEPT !.blink[i] = None])
PatternStop(s, i) == Dirty([s EXCEPT !.pattern[i] = None])
Blink(s, i, cause) ==
    IF i \notin Blinking(s) /\ Cardinality(Blinking(s)) >= MaxBlinks THEN s
    ELSE [PatternStop(s, i) EXCEPT !.blink[i] = [lit |-> TRUE, left |-> Cadence[cause].on, cause |-> cause]]
Pattern(s, i) == [BlinkStop(s, i) EXCEPT !.pattern[i] = [phase |-> 1, left |-> ErrorPattern[1].ticks]]
SetDigits(s, d) == Dirty([s EXCEPT !.digits = d])
OtaShow(s) == Dirty([s EXCEPT !.ota = TRUE])
OtaStop(s) == Dirty([s EXCEPT !.ota = FALSE])

(* display_presentation_refresh: power, brightness and the grids, each of   *)
(* which may fail; the scene stays dirty then.                              *)
Refresh(s) == \/ sc' = [s EXCEPT !.dirty = FALSE] /\ shown' = Picture(s)
              \/ sc' = s /\ UNCHANGED shown
Unshown(s) == sc' = s /\ UNCHANGED shown
Steady(s, i, on) == IconSet(BlinkStop(s, i), i, on)
Blinks(s, i, cause) == Blink(IconSet(s, i, FALSE), i, cause)

(* The indicators, each for its events.                                     *)
PanelEvent == pics < MaxPics /\ pics' = pics + 1
WifiIndicator(phase) ==
    /\ "wifi" \in Icons /\ PanelEvent
    /\ Unshown(CASE phase = "connecting" -> Blinks(sc, "wifi", "wifi_connecting")
                 [] phase = "ap" -> Blinks(sc, "wifi", "wifi_ap")
                 [] phase = "connected" -> Steady(sc, "wifi", TRUE)
                 [] OTHER -> Steady(sc, "wifi", FALSE))
    /\ UNCHANGED <<feedback, lock, bowl, sample>>
ClearBar(s, i) == IF i \notin Icons THEN s ELSE IconSet(BlinkStop(PatternStop(s, i), i), i, FALSE)
ClearBars(s) == ClearBar(ClearBar(s, "bar_orange"), "bar_green")
MqttIndicator(phase) ==
    /\ {"bar_orange", "bar_green"} \subseteq Icons /\ PanelEvent
    /\ Unshown(CASE phase = "connecting" -> Blink(ClearBars(sc), "bar_orange", "mqtt_connecting")
                 [] phase = "connected" -> IconSet(ClearBars(sc), "bar_green", TRUE)
                 [] phase = "error" -> Pattern(ClearBars(sc), "bar_orange")
                 [] OTHER -> ClearBars(sc))
    /\ UNCHANGED <<feedback, lock, bowl, sample>>
DispenseIndicator(active) ==
    /\ "dispensing" \in Icons /\ PanelEvent
    /\ LET s == IconSet(sc, "dispensing", FALSE)
           b == Blink(s, "dispensing", "dispensing")
       IN  IF active THEN IF "dispensing" \in Blinking(b) THEN Refresh(b) ELSE Unshown(s)
           ELSE Refresh(Steady(sc, "dispensing", FALSE))
    /\ UNCHANGED <<feedback, lock, bowl, sample>>
OtaIndicator(active) ==
    /\ PanelEvent /\ Unshown(IF active THEN OtaShow(sc) ELSE OtaStop(sc))
    /\ UNCHANGED <<feedback, lock, bowl, sample>>

(* The child lock: a blocked gesture blanks the digits and blinks the icon; *)
(* the toggle ends that and shows the lock.                                 *)
LockSync(s, active, on) == IF active THEN s ELSE IconSet(BlinkStop(s, "child_lock"), "child_lock", on)
BlockedFeedback ==
    /\ "child_lock" \in Icons /\ lock /\ PanelEvent /\ feedback' = FeedbackTicks
    /\ Refresh(Blinks(SetDigits(sc, "blank"), "child_lock", "child_lock"))
    /\ UNCHANGED <<lock, bowl, sample>>
LockToggle ==
    /\ "child_lock" \in Icons /\ PanelEvent /\ lock' = ~lock /\ feedback' = 0
    /\ Unshown(LockSync(IF feedback > 0 THEN BlinkStop(sc, "child_lock") ELSE sc, FALSE, lock'))
    /\ UNCHANGED <<bowl, sample>>

(* The scale has something else to tell.                                    *)
BowlChanges(e, d) ==
    /\ PanelEvent /\ bowl' = [error |-> e, digits |-> d]
    /\ UNCHANGED <<sc, shown, feedback, lock, sample>>

------------------------------------------------------------------------------
(* A display tick: a sample of the scale, if one is due and no feedback is  *)
(* on, sets the bowl icon and the digits (app_weight_sync_display_scene);   *)
(* the blinks and patterns advance and the scene is drawn if anything in it *)
(* moved; a feedback that ends shows lock and bowl again.                   *)
BowlSync(s, e) ==
    IF "bowl_error" \notin Icons THEN s
    ELSE CASE e \in {"cal_incomplete", "span_pending"} -> Blinks(s, "bowl_error", e)
           [] e = "missing" -> Steady(s, "bowl_error", TRUE)
           [] OTHER -> Steady(s, "bowl_error", FALSE)
SceneSync(s) == SetDigits(BowlSync(s, bowl.error), bowl.digits)
Frozen(s, i) == s.ota /\ i # "wifi"
BlinkAgedOnce(s, i) ==
    LET b == s.blink[i]
    IN  IF b = None \/ Frozen(s, i) \/ ~b.lit THEN b
        ELSE IF b.left > 1 THEN [b EXCEPT !.left = @ - 1] ELSE [b EXCEPT !.lit = FALSE, !.left = Cadence[b.cause].off]
BlinkAged(s, i) ==
    LET b == s.blink[i]
    IN  IF b = None \/ Frozen(s, i) THEN b
        ELSE IF b.left > 1 THEN [b EXCEPT !.left = @ - 1]
        ELSE [b EXCEPT !.lit = ~@, !.left = IF b.lit THEN Cadence[b.cause].off ELSE Cadence[b.cause].on]
PatternAged(s, i) ==
    LET p == s.pattern[i]
        next == (p.phase % Len(ErrorPattern)) + 1
    IN  IF p = None \/ Frozen(s, i) THEN p
        ELSE IF p.left > 1 THEN [p EXCEPT !.left = @ - 1]
        ELSE [phase |-> next, left |-> ErrorPattern[next].ticks]
Aged(s) == [s EXCEPT !.blink = [i \in Icons |-> BlinkAged(s, i)], !.pattern = [i \in Icons |-> PatternAged(s, i)]]
Moved(s, t) == t.dirty \/ \E i \in Icons: Visible(s, i) # Visible(t, i)

SampleDue == feedback = 0 /\ sample = 0
Restored(s) == SceneSync(LockSync(BlinkStop(s, "child_lock"), FALSE, lock))
PanelTick ==
    \E sampled \in {IF SampleDue THEN SceneSync(sc) ELSE sc}:
    \E aged \in {Aged(sampled)}:
    \E drawn \in {IF feedback = 1 THEN Restored(aged) ELSE aged}:
        /\ sample' = IF feedback > 0 THEN sample ELSE IF sample = 0 THEN SampleEvery - 1 ELSE sample - 1
        /\ feedback' = IF feedback > 0 THEN feedback - 1 ELSE 0
        /\ IF feedback = 1 \/ Moved(sampled, aged) THEN Refresh(drawn) ELSE Unshown(drawn)
        /\ UNCHANGED <<lock, bowl, pics>>
PanelNext ==
    \/ PanelTick \/ BlockedFeedback \/ LockToggle
    \/ \E p \in {"connecting", "ap", "connected", "off"}: WifiIndicator(p)
    \/ \E p \in {"connecting", "connected", "error", "off"}: MqttIndicator(p)
    \/ \E a \in BOOLEAN: DispenseIndicator(a) \/ OtaIndicator(a)
    \/ \E e \in {"none", "missing", "cal_incomplete", "span_pending"}, d \in {"grams", "dash"}: BowlChanges(e, d)
PanelSpec == PanelInit /\ [][PanelNext]_panelVars
PanelFairness == WF_panelVars(PanelTick)

PanelTypeOK ==
    /\ Cardinality(Blinking(sc)) <= MaxBlinks /\ sc.steady \subseteq Icons /\ sc.digits \in {"blank", "grams", "dash"}
    /\ \A i \in Icons: sc.blink[i] = None \/ sc.pattern[i] = None
    /\ feedback \in 0..FeedbackTicks /\ sample \in 0..(SampleEvery - 1) /\ lock \in BOOLEAN

(* What is on the panel is the scene, once the scene is not dirty: the      *)
(* digits, the update's bar, every icon that neither blinks nor follows a   *)
(* pattern; and outside of a feedback the lock's icon is the lock.          *)
PanelShows ==
    /\ PanelTypeOK
    /\ ~sc.dirty => /\ shown.digits = Picture(sc).digits
                    /\ \A i \in Icons \ (Blinking(sc) \cup Patterned(sc)): (i \in shown.icons) = (i \in Mask(sc))
    /\ "child_lock" \in Icons /\ feedback = 0 => ("child_lock" \in sc.steady) = lock /\ "child_lock" \notin Blinking(sc)

(* An icon that is left to blink goes on and off for ever. The exception is *)
(* the bowl icon of an incomplete calibration: each sample of the scale     *)
(* starts its blink again before its time on is over, so it never goes off. *)
Left(i) == sc.blink[i] # None /\ sc.blink[i].cause # "cal_incomplete" /\ ~Frozen(sc, i)
Alternates == \A i \in Icons: []<>(Left(i) => Visible(sc, i)) /\ []<>(Left(i) => ~Visible(sc, i))
====
