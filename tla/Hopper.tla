---- MODULE Hopper ----
(***************************************************************************)
(* The level of the hopper as the broker is told: the light barrier and    *)
(* its debounce (hopper_input.c), what a finished job adds (hopper_level.c)*)
(* and the mains sense that decides how often the barrier is read          *)
(* (power_source_input.c), polled in this order by the app task on each    *)
(* display tick. The barrier and the plug change at any time. A tick       *)
(* stands for the period of the display timer, which is longer than the    *)
(* gate of 50 ms after an interrupt.                                       *)
(***************************************************************************)
EXTENDS Naturals, Sequences, NoValue
CONSTANTS LowStreak,    \* HOPPER_INPUT_LOW_STREAK_REQUIRED
          NormalStreak, \* HOPPER_INPUT_NORMAL_STREAK_REQUIRED
          Interval,     \* HOPPER_INPUT_DEBOUNCE_INTERVAL_MS in ticks
          Background,   \* HOPPER_INPUT_BACKGROUND_INTERVAL_MS in ticks
          LevelDepth,   \* HOPPER_LEVEL_TRANSITION_QUEUE_DEPTH
          MaxMoves      \* bound: moves of food and plug, jobs, updates, connects and failed reads
ASSUME StreaksAreOrdered == NormalStreak \in Nat \ {0} /\ LowStreak \in Nat /\ NormalStreak <= LowStreak
ASSUME IntervalsAreTicks == Interval \in Nat /\ Background \in Nat
\* A job and a reading between two polls fit into the queue.
ASSUME QueueHoldsATick == LevelDepth \in Nat /\ LevelDepth >= 3
VARIABLES beam,    \* blocked (food) or clear
          plug,    \* mains is there
          input,   \* hopper_input.c; next and bg count ticks
          level,   \* hopper_level.c
          power,   \* power_source_input.c
          ota,     \* feeder_runtime_ota_active
          told,    \* what mqtt_hopper_sync and mqtt_mains_sync were last told
          seen,    \* history: readings of one kind in a row, ticks since the first and the last,
                   \* the row that last turned the level, a debounce reading that came too soon
          moved
hopperVars == <<beam, plug, input, level, power, ota, told, seen, moved>>
sensorVars == <<input, level, power, told, seen>>

Beams == {"blocked", "clear"}
HopperEvent == moved < MaxMoves /\ moved' = moved + 1
Unread == [kind |-> None, run |-> 0, span |-> 0, gap |-> 0]
HopperInit ==
    /\ beam \in Beams /\ plug \in BOOLEAN /\ ota = FALSE /\ moved = 0
    /\ input = [lvl |-> "normal", clear |-> 0, blocked |-> 0, debounce |-> FALSE, force |-> FALSE,
                next |-> 0, bg |-> None]
    /\ level = [state |-> "normal", latched |-> FALSE, queue |-> <<>>]
    /\ power \in {[last |-> p, confirmed |-> p, valid |-> p = plug, gate |-> FALSE]: p \in {plug, FALSE}}
    /\ told = [hopper |-> None, mains |-> None]
    /\ seen = [now |-> Unread, turn |-> Unread, job |-> FALSE, soon |-> FALSE]

------------------------------------------------------------------------------
(* hopper_level.c *)
Compute(latched, lvl) == IF latched THEN "empty" ELSE lvl
Enqueue(q, state) == IF Len(q) = LevelDepth - 1 THEN q ELSE Append(q, state)
Published(l, lvl) ==
    LET state == Compute(l.latched, lvl)
    IN  IF state = l.state THEN l ELSE [l EXCEPT !.state = state, !.queue = Enqueue(@, state)]
ShouldLatch(outcome, fed, measured) ==
    outcome = "underfill" \/ (outcome = "success" /\ measured /\ ~fed /\ input.lvl = "low")
AskedMidStreak(i) == [i EXCEPT !.force = TRUE]
Asked(i) == [i EXCEPT !.clear = 0, !.force = TRUE]
(* dispense_publish_terminal: the finished job, with the sample it asks for *)
(* that starts the count of clear readings anew. A job takes longer than a  *)
(* tick.                                                                    *)
DispenseFinished(outcome, fed, measured) ==
    /\ HopperEvent /\ ~seen.job /\ ~ota
    /\ LET emptied == IF outcome = "success" /\ measured /\ fed THEN FALSE ELSE level.latched
       IN  level' = Published([level EXCEPT !.latched = emptied \/ ShouldLatch(outcome, fed, measured)], input.lvl)
    /\ input' = Asked(input)
    /\ seen' = [seen EXCEPT !.job = TRUE, !.now = IF @.kind = "clear" THEN Unread ELSE @]
    /\ UNCHANGED <<beam, plug, power, ota, told>>

------------------------------------------------------------------------------
(* hopper_input.c. A failed reading uses up the sample a job asked for.     *)
Passed(n) == IF n = 0 THEN 0 ELSE n - 1
Timed(i) == [i EXCEPT !.next = Passed(@), !.bg = IF @ = None \/ @ = Background THEN @ ELSE @ + 1]
SeedsBackground(i, bg) == ~i.force /\ ~i.debounce /\ bg /\ i.bg = None
ShouldSampleOnce(i, bg) == i.force \/ (~i.debounce /\ bg /\ i.bg = Background)
ShouldSample(i, bg) ==
    \/ i.force
    \/ i.debounce /\ i.next = 0
    \/ ~i.debounce /\ bg /\ i.bg = Background
Waits(i) == [i EXCEPT !.debounce = TRUE, !.next = Interval]
Settled(i, lvl) == [i EXCEPT !.lvl = lvl, !.clear = 0, !.blocked = 0, !.debounce = FALSE]
BlockedRead(i) ==
    LET b == [i EXCEPT !.clear = 0, !.blocked = @ + 1]
    IN  CASE i.lvl = "normal" -> [b EXCEPT !.blocked = i.blocked, !.debounce = FALSE]
          [] i.lvl = "low" /\ b.blocked >= NormalStreak -> Settled(b, "normal")
          [] OTHER -> Waits(b)
ClearRead(i) ==
    LET c == [i EXCEPT !.blocked = 0, !.clear = @ + 1]
    IN  CASE i.lvl = "low" -> [c EXCEPT !.clear = i.clear]
          [] i.lvl = "normal" /\ c.clear >= LowStreak -> Settled(c, "low")
          [] OTHER -> Waits(c)
Read(i) == IF beam = "blocked" THEN BlockedRead(i) ELSE ClearRead(i)
Sampled(i, bg, ok) ==
    LET background == bg /\ ~i.force /\ ~i.debounce
        taken == [i EXCEPT !.force = FALSE]
    IN  IF ok THEN Read([taken EXCEPT !.bg = IF background THEN 0 ELSE @]) ELSE taken
Polled(i, bg, ok) ==
    CASE SeedsBackground(i, bg) -> [i EXCEPT !.bg = 0]
      [] ShouldSample(i, bg) -> Sampled(i, bg, ok)
      [] OTHER -> i
(* hopper_level_poll *)
Recovered(l, lvl) == IF lvl = "normal" THEN [l EXCEPT !.latched = FALSE] ELSE l
LevelPolled(i) == IF i.lvl = input.lvl THEN level ELSE Published(Recovered(level, i.lvl), i.lvl)

(* power_source_input.c: a level is believed when it is read twice.         *)
PowerRead(p) == [p EXCEPT !.valid = TRUE, !.confirmed = IF plug = p.last THEN plug ELSE @, !.last = plug]
PowerPolled(ok) == IF ok THEN PowerRead([power EXCEPT !.gate = FALSE]) ELSE [power EXCEPT !.gate = FALSE]

(* EVT_DISPLAY_TICK: the gate of an interrupt may still hold.               *)
Reads(bg, ok) == LET i == Timed(input) IN ~ota /\ ~SeedsBackground(i, bg) /\ ShouldSample(i, bg) /\ ok
Aged(s) == [s EXCEPT !.span = IF @ < LowStreak * Interval THEN @ + 1 ELSE @, !.gap = IF @ < Interval THEN @ + 1 ELSE @]
ReadOn(s) == IF s.kind = beam THEN [Aged(s) EXCEPT !.run = IF @ < LowStreak THEN @ + 1 ELSE @, !.gap = 0]
             ELSE [kind |-> beam, run |-> 1, span |-> 0, gap |-> 0]
Noted(s, read) == IF read THEN ReadOn(s) ELSE Aged(s)
(* A clear reading of a low level leaves the debounce on, without a next    *)
(* time: from then on every tick reads.                                     *)
Stuck == input.lvl = "low" /\ seen.now.kind = "clear"
TooSoon(read) == read /\ input.debounce /\ ~input.force /\ ~Stuck /\ seen.now.kind # None /\ seen.now.gap + 1 < Interval
DisplayTick(gated, okPower, okBeam) ==
    LET p == IF gated THEN [power EXCEPT !.gate = FALSE] ELSE PowerPolled(okPower)
        bg == p.valid /\ p.confirmed
        i == IF ota THEN Timed(input) ELSE Polled(Timed(input), bg, okBeam)
        l == LevelPolled(i)
        s == Noted(seen.now, Reads(bg, okBeam))
    IN  /\ gated => power.gate
        /\ power' = p /\ input' = i /\ level' = [l EXCEPT !.queue = <<>>]
        /\ told' = [hopper |-> IF l.queue = <<>> THEN told.hopper ELSE l.queue[Len(l.queue)],
                    mains |-> IF p.confirmed = power.confirmed THEN told.mains ELSE p.confirmed]
        /\ seen' = [now |-> s, turn |-> IF i.lvl = input.lvl THEN seen.turn ELSE s, job |-> FALSE,
                    soon |-> seen.soon \/ TooSoon(Reads(bg, okBeam))]
        /\ UNCHANGED <<beam, plug, ota>>
GoodTick == DisplayTick(FALSE, TRUE, TRUE) /\ UNCHANGED moved
BadTick == \/ \E p, b \in BOOLEAN: ~(p /\ b) /\ DisplayTick(FALSE, p, b) /\ HopperEvent
           \/ \E b \in BOOLEAN: DisplayTick(TRUE, TRUE, b) /\ HopperEvent
(* EVT_BUTTON_IRQ, which the plug's line raises too: the poll that follows  *)
(* is behind the gate.                                                      *)
PlugMoves == /\ HopperEvent /\ plug' = ~plug /\ power' = [power EXCEPT !.gate = TRUE]
             /\ UNCHANGED <<beam, input, level, ota, told, seen>>
BeamMoves == HopperEvent /\ beam' \in Beams \ {beam} /\ UNCHANGED <<plug, ota>> /\ UNCHANGED sensorVars
OtaStarts == HopperEvent /\ ~ota /\ ota' = TRUE /\ UNCHANGED <<beam, plug>> /\ UNCHANGED sensorVars
OtaEnds == ota /\ ota' = FALSE /\ UNCHANGED <<beam, plug, moved>> /\ UNCHANGED sensorVars
(* app_mqtt_on_connected *)
Connected == /\ HopperEvent /\ told' = [hopper |-> level.state, mains |-> IF power.valid THEN power.confirmed ELSE told.mains]
             /\ UNCHANGED <<beam, plug, input, level, power, ota, seen>>
Outcomes == {"success", "underfill", "stuck"}
HopperNext ==
    \/ GoodTick \/ BadTick \/ PlugMoves \/ BeamMoves \/ OtaStarts \/ OtaEnds \/ Connected
    \/ \E o \in Outcomes, fed, measured \in BOOLEAN: DispenseFinished(o, fed, measured)
HopperSpec == HopperInit /\ [][HopperNext]_hopperVars
HopperFairness == WF_hopperVars(GoodTick) /\ WF_hopperVars(OtaEnds)

------------------------------------------------------------------------------
(* The level turns low only when the barrier was read clear in a row for as *)
(* long as the debounce takes, jobs included, and normal after the streak;  *)
(* what is published follows from the level and the latch, and is what the  *)
(* broker is told at the latest on the next tick; and a debounce reads no   *)
(* more often than it should, unless it is stuck.                           *)
HopperTold ==
    /\ input.lvl = "low" =>
         seen.turn.kind = "clear" /\ seen.turn.run >= LowStreak /\ seen.turn.span >= (LowStreak - 1) * Interval
    /\ input.lvl = "normal" /\ seen.turn.kind # None => seen.turn.kind = "blocked" /\ seen.turn.run >= NormalStreak
    /\ level.state = Compute(level.latched, input.lvl)
    /\ told.hopper # None /\ level.queue = <<>> => told.hopper = level.state
    /\ told.mains # None => told.mains = power.confirmed
    /\ ~seen.soon
(* When food and plug stay as they are, the broker ends up knowing both: on *)
(* mains the level is low exactly if the barrier is clear, unless a job     *)
(* that ran out of food latched it; on battery the barrier is read after    *)
(* jobs only.                                                               *)
HopperSettles ==
    <>[](/\ power.valid /\ power.confirmed = plug /\ told.mains \in {plug, None}
         /\ plug => input.lvl = (IF beam = "clear" THEN "low" ELSE "normal")
         /\ told.hopper \in {None, Compute(level.latched, input.lvl)})
====
