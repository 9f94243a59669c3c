---- MODULE Buttons ----
(***************************************************************************)
(* The three buttons: debouncing (button_input.c), gestures                *)
(* (button_gesture.c) and what the app task makes of them (app.c), with    *)
(* the interrupt that wakes it and the child lock. A poll comes with every *)
(* display tick and every interrupt event, and drains what it queues; time *)
(* is counted in ticks and, like the firmware's milliseconds, it wraps.    *)
(***************************************************************************)
EXTENDS Integers, FiniteSets
CONSTANTS Buttons,       \* the buttons of s_channels
          Debounce,      \* BUTTON_INPUT_DEBOUNCE_MS
          Long,          \* the long threshold of each button, and of "combo"
          Wrap,          \* the clock counts modulo Wrap (2^32 ms)
          MaxTicks, MaxMoves   \* bounds: ticks, and movements of fingers
ASSUME ButtonsAreThree == Buttons \subseteq {"power", "reset", "dispense"}
ASSUME ThresholdsAreTicks == Debounce \in Nat \ {0} /\ Long \in [Buttons \cup {"combo"} -> Nat] /\ Wrap \in Nat \ {0}
ASSUME BoundsAreNatural == MaxTicks \in Nat /\ MaxMoves \in Nat
Partners == {"reset", "dispense"}
IrqBacked == {"power", "dispense"}
QueueDepth == 4        \* BUTTON_GESTURE_EVENT_QUEUE_DEPTH, one place of which stays free

VARIABLES clock, finger, irq,   \* time, the buttons pressed, and EVT_BUTTON_IRQ in the queue (one, the rest coalesce)
          ch, gate,             \* s_channels of button_input.c, as sets of buttons, and s_irq_sample_after_ms
          ges, combo,           \* s_channels and the combo of button_gesture.c
          locked,               \* the child lock
          fed,                  \* history: the portions submitted by this poll
          press,                \* history, by button: of its confirmed press, the true age, whether a sum of its
                                \* start and a threshold wraps, whether a gesture was given, whether the
                                \* other partner was down in it
          calm,                 \* history, by button: the ticks that read its finger since it moved, and
                                \* since the last interrupt if it has one
          gateWrapped,          \* history: the clock wrapped since the gate was set
          said,                 \* history: what this poll handed to the app, with the press it is about
          moves
btnVars == <<clock, finger, irq, ch, gate, ges, combo, locked, fed, press, calm, gateWrapped, said, moves>>

Now == clock % Wrap
NoPress == [age |-> 0, wrapped |-> FALSE, given |-> FALSE, mixed |-> FALSE]
NoCombo == [active |-> FALSE, start |-> 0, fired |-> FALSE, session |-> FALSE]
BtnInit ==
    /\ clock = 0 /\ finger = {} /\ irq = FALSE /\ gate = 0
    /\ ch = [last |-> {}, confirmed |-> {}]
    /\ ges = [b \in Buttons |-> [state |-> "idle", down |-> 0]] /\ combo = NoCombo
    /\ locked \in BOOLEAN /\ fed = 0 /\ press = [b \in Buttons |-> NoPress] /\ calm = [b \in Buttons |-> 0]
    /\ gateWrapped = FALSE /\ said = {} /\ moves = 0

------------------------------------------------------------------------------
(* button_input.c: two equal samples in a row confirm. *)
MaySample(b, at, g) == b \notin IrqBacked \/ g = 0 \/ at >= g
Debounced(at, g) ==
    LET read == {b \in Buttons: MaySample(b, at, g)}
        same == {b \in read: b \in ch.last <=> b \in finger}
    IN  [last |-> (ch.last \ read) \cup (finger \cap read), confirmed |-> (ch.confirmed \ same) \cup (finger \cap same)]

(* button_gesture.c, on g = [ges, combo, q, down]: its channels, the combo,  *)
(* what is queued (no event is queued twice in a poll) and what is down. A   *)
(* combo starts with the older of the two presses.                           *)
BothDown(down) == Partners \subseteq down
UpdateCombo(k, gs, down) ==
    IF BothDown(down)
    THEN IF k.active THEN k
         ELSE LET r == gs["reset"].down  d == gs["dispense"].down
              IN  [active |-> TRUE, start |-> IF r < d THEN r ELSE d, fired |-> FALSE, session |-> TRUE]
    ELSE [active |-> FALSE, start |-> k.start, fired |-> FALSE, session |-> k.session /\ Partners \cap down # {}]
Event(b, kind) == [id |-> b, kind |-> kind]
Queue(q, e) == IF Cardinality(q) >= QueueDepth - 1 THEN q ELSE q \cup {e}
InSession(k, b) == k.session /\ b \in Partners
OnDown(g, b, at) ==
    LET gs == [g.ges EXCEPT ![b] = [state |-> "held", down |-> at]]
        down == g.down \cup {b}
    IN  [ges |-> gs, down |-> down, combo |-> UpdateCombo(g.combo, gs, down), q |-> g.q]
OnUp(g, b) ==
    LET gs == [g.ges EXCEPT ![b] = [state |-> "idle", down |-> g.ges[b].down]]
        down == g.down \ {b}
    IN  [ges |-> gs, down |-> down, combo |-> UpdateCombo(g.combo, gs, down),
         q |-> IF g.ges[b].state = "held" /\ ~InSession(g.combo, b) THEN Queue(g.q, Event(b, "short")) ELSE g.q]
OnTransition(g, b, c, at) ==
    IF b \in c.confirmed \ ch.confirmed THEN OnDown(g, b, at)
    ELSE IF b \in ch.confirmed \ c.confirmed THEN OnUp(g, b) ELSE g

(* button_gesture_step: the toggle of the lock, which removes what its      *)
(* partners have queued, then the long presses.                             *)
ComboDue(g, at) == g.combo.active /\ ~g.combo.fired /\ BothDown(g.down) /\ at >= (g.combo.start + Long["combo"]) % Wrap
PartnerGesture(e) == e.kind # "toggle" /\ e.id \in Partners
StepCombo(g, at) ==
    IF ~ComboDue(g, at) THEN g
    ELSE [ges |-> g.ges, down |-> g.down, combo |-> [g.combo EXCEPT !.fired = TRUE],
          q |-> {e \in Queue(g.q, Event("reset", "toggle")): ~PartnerGesture(e)}]
LongDueInSession(g, b, at) == g.ges[b].state = "held" /\ at >= (g.ges[b].down + Long[b]) % Wrap
LongDue(g, b, at) == g.ges[b].state = "held" /\ ~InSession(g.combo, b) /\ at >= (g.ges[b].down + Long[b]) % Wrap
StepLong(g, b, at) ==
    IF b \in Buttons /\ LongDue(g, b, at)
    THEN [ges |-> [g.ges EXCEPT ![b] = [state |-> "long", down |-> g.ges[b].down]], down |-> g.down, combo |-> g.combo,
          q |-> Queue(g.q, Event(b, "long"))]
    ELSE g
(* The loops over the channels go by power, reset, dispense. *)
Turned(g, c, at) == OnTransition(OnTransition(OnTransition(g, "power", c, at), "reset", c, at), "dispense", c, at)
Stepped(g, at) == StepLong(StepLong(StepLong(g, "power", at), "reset", at), "dispense", at)
Gestures(c, at) ==
    LET start == [ges |-> ges, down |-> ch.confirmed, combo |-> combo, q |-> {}]
    IN  Stepped(StepCombo(Turned(start, c, at), at), at)

(* app_button_drain_gestures and app_button_handle_gesture: after a toggle  *)
(* the partners of the same drain are dropped. The lock's store may fail:   *)
(* then it keeps its value.                                                 *)
Toggles(q) == \E e \in q: e.kind = "toggle"
Handled(q) == IF Toggles(q) THEN {e \in q: ~PartnerGesture(e)} ELSE q
Feeds(q) == ~locked /\ Event("dispense", "short") \in q

------------------------------------------------------------------------------
(* History of the presses across a poll with channels c and events q.       *)
Given(b, q) == \E e \in q: e.id = b /\ e.kind # "toggle"
NearWrap(at) == \E b \in DOMAIN Long: at + Long[b] >= Wrap
(* the presses as the gestures of the poll see them: a released one still ends in it *)
Seen(known, c, at) ==
    [b \in Buttons |->
        IF b \notin c.confirmed THEN known[b]
        ELSE LET p == IF b \in ch.confirmed THEN known[b] ELSE [NoPress EXCEPT !.wrapped = NearWrap(at)]
             IN  [p EXCEPT !.mixed = @ \/ (b \in Partners /\ Partners \subseteq c.confirmed)]]
Aged(seen, c, q) == [b \in Buttons |-> IF b \in c.confirmed THEN [seen[b] EXCEPT !.given = @ \/ Given(b, q)] ELSE NoPress]
Told(seen, q) ==
    {[event |-> e, of |-> seen[e.id], other |-> IF e.kind = "toggle" THEN seen["dispense"] ELSE NoPress]: e \in q}

(* app_button_poll with the time at, the gate g and what is known of the    *)
(* presses. A read that fails leaves the channels, but the gestures step.   *)
Poll(at, g, known, read) ==
    LET c == IF read THEN Debounced(at, g) ELSE ch
        r == Gestures(c, at)
        h == Handled(r.q)
        seen == Seen(known, c, at)
    IN  /\ ch' = c /\ ges' = r.ges /\ combo' = r.combo
        /\ fed' = IF Feeds(h) THEN 1 ELSE 0
        /\ locked' \in IF Toggles(h) THEN BOOLEAN ELSE {locked}
        /\ said' = Told(seen, h) /\ press' = Aged(seen, c, h)

(* EVT_DISPLAY_TICK: a tick has passed. *)
Older == [b \in Buttons |-> IF b \in ch.confirmed THEN [press[b] EXCEPT !.age = @ + 1] ELSE press[b]]
AppTick ==
    /\ clock < MaxTicks /\ clock' = clock + 1
    /\ \E read \in BOOLEAN:
        /\ Poll(Now', gate, Older, read)
        /\ calm' = [b \in Buttons |-> IF read /\ calm[b] <= Debounce THEN calm[b] + 1 ELSE calm[b]]
    /\ gateWrapped' = (gateWrapped \/ (Now' = 0 /\ gate # 0))
    /\ UNCHANGED <<finger, irq, gate, moves>>
(* EVT_BUTTON_IRQ: the gate is put forward, then a poll. *)
NotifyIrq(g, at) == IF (at + Debounce) % Wrap > g THEN (at + Debounce) % Wrap ELSE g
AppIrq ==
    /\ irq /\ irq' = FALSE /\ gate' = NotifyIrq(gate, Now)
    /\ gateWrapped' = (gateWrapped /\ gate' = gate)
    /\ \E read \in BOOLEAN: Poll(Now, gate', press, read)
    /\ calm' = [b \in Buttons |-> IF b \in IrqBacked THEN 0 ELSE calm[b]]
    /\ UNCHANGED <<clock, finger, moves>>
Finger(b) ==
    /\ moves < MaxMoves /\ moves' = moves + 1 /\ finger' = (finger \ {b}) \cup ({b} \ finger)
    /\ irq' = (irq \/ b \in IrqBacked) /\ calm' = [calm EXCEPT ![b] = 0]
    /\ said' = {} /\ fed' = 0
    /\ UNCHANGED <<clock, ch, gate, ges, combo, locked, press, gateWrapped>>
BtnNext == AppTick \/ AppIrq \/ \E b \in Buttons: Finger(b)
BtnSpec == BtnInit /\ [][BtnNext]_btnVars

BtnTypeOK ==
    /\ clock \in 0..MaxTicks /\ gate \in 0..(Wrap - 1) /\ irq \in BOOLEAN /\ locked \in BOOLEAN /\ finger \subseteq Buttons
    /\ \A b \in Buttons: /\ ges[b].state \in {"idle", "held", "long"} /\ ges[b].down \in 0..(Wrap - 1)
                         /\ ges[b].state = "idle" <=> b \notin ch.confirmed
    /\ combo.start \in 0..(Wrap - 1) /\ (combo.active => combo.session) /\ moves \in 0..MaxMoves

(* What the app is told of a press: one gesture at most; a short press or a *)
(* long one of a partner never in a press that overlapped with the other    *)
(* partner's; a long press, and the older press of a toggle, lasted as long *)
(* as they should, unless they began so close to the wrap of the clock that *)
(* the time they end at wraps: those are long at once.                      *)
Rightly(s) ==
    LET e == s.event  p == s.of  o == s.other
    IN  /\ (e.kind # "toggle" => ~p.given /\ ~p.mixed)
        /\ (e.kind = "long" => p.age >= Long[e.id] \/ p.wrapped)
        /\ (e.kind = "toggle" => p.age >= Long["combo"] \/ o.age >= Long["combo"] \/ p.wrapped \/ o.wrapped)
OneVoice ==
    /\ \A s \in said: Rightly(s)
    /\ \A s, t \in said: s.event.id = t.event.id /\ s.event.kind # "toggle" /\ t.event.kind # "toggle" => s = t

(* A press that lasts is seen: a finger that ticks over the debounce and    *)
(* one more find unmoved, with no interrupt of these buttons between them,  *)
(* is the confirmed state, unless the clock wrapped after the last          *)
(* interrupt: then the gate is not reached for another round.               *)
PressSeen ==
    \A b \in Buttons: calm[b] > Debounce => (b \in ch.confirmed <=> b \in finger) \/ (b \in IrqBacked /\ gateWrapped)

(* A press that lasts is seen, and told to the app once, and rightly.       *)
PressHeardOnce == BtnTypeOK /\ OneVoice /\ PressSeen
====
