----------------------------- MODULE Schedule -----------------------------
(***************************************************************************)
(* The feeding schedule (firmware/src/schedule.c) with the command layer   *)
(* above it (schedule_cmd.c), the flash copy of its configuration, and the *)
(* dispense supervisor it fires, as far as the schedule sees it            *)
(* (feed_schedule_fire, schedule_on_dispense_complete).                    *)
(*                                                                         *)
(* A slot is keyed by its minute of the day.  The local civil clock is a   *)
(* count of minutes; it advances one by one, and jumps when the network    *)
(* time, the zone rule or daylight saving moves it.  The app task polls    *)
(* the schedule twice a second while the time is known; every              *)
(* resynchronisation (time_sync.c) makes it unknown until it ends, and the *)
(* minutes that pass meanwhile are polled by nobody.                       *)
(***************************************************************************)
EXTENDS Integers, FiniteSets

CONSTANTS
    Keys,       \* minutes of the day at which slots are set
    DayLen,     \* minutes of a day
    WeekLen,    \* days of a week
    MaxTime,    \* bound: the local clock stays in 0..MaxTime
    Jumps,      \* from where to where the clock may jump: pairs of times
    MaxSlots,   \* SCHEDULE_MAX_SLOTS
    InitSlots,  \* the configurations found in flash at the first boot
    Masks,      \* the sets of weekdays that commands give slots
    Ops,        \* which commands and events may happen in an instance
    NoSlot,     \* no slot is being fed
    Manual,     \* the supervisor runs a job that is not the schedule's
    NoClock     \* the clock has not been polled since boot

AllOps == {"set", "delete", "toggle", "skip", "enable", "today", "write_fails",
           "reboot", "drop", "manual", "full"}

\* Slot configurations: [days, enabled]; the grams play no part here.
Config == [days : SUBSET (0 .. WeekLen - 1), enabled : BOOLEAN]

ASSUME ScheduleAssumption ==
    /\ DayLen \in Nat \ {0}
    /\ WeekLen \in Nat \ {0}
    /\ Keys \subseteq 0 .. DayLen - 1
    /\ MaxTime \in Nat
    /\ Jumps \subseteq (0 .. MaxTime) \X (0 .. MaxTime)
    /\ MaxSlots \in Nat
    /\ Masks \subseteq SUBSET (0 .. WeekLen - 1)
    /\ Ops \subseteq AllOps

States == {"pending", "to_be_skipped", "skipped", "skipped_full",
           "dispensing", "dispensed", "failed"}
Terminal == {"dispensing", "dispensed", "failed", "skipped_full"}

VARIABLES
    slots,   \* s_slots[].cfg: a function from the keys in use
    rt,      \* s_slots[].rt: [state, skip, fired], on the same keys
    global,  \* s_global_enabled
    today,   \* s_today_enabled
    active,  \* s_active_hour and s_active_min, or NoSlot
    last,    \* s_last_yday, s_last_hour, s_last_min, or NoClock
    now,     \* the local civil clock
    synced,  \* time_sync_is_valid()
    flash,   \* what is stored: [slots, global]
    dirty,   \* the keys of the configuration whose last write failed
    job,     \* the supervisor's job: a key, Manual or NoSlot
    full,    \* the bowl is known to be full (overfill protection)
    turned,  \* history: a poll found an earlier date than the poll before it
    lost,    \* history: a job of the active slot was given up on the date of the last poll
    fed      \* history: how often a slot was fed on a date since it was set and
             \* the device booted, at most 2

config == <<slots, global, flash, dirty>>
clock == <<now, synced>>
supervisor == <<job, full, lost>>
history == <<turned, fed>>
schedVars == <<slots, rt, global, today, active, last, clock, flash, dirty, supervisor, history>>

Day(t) == t \div DayLen
Min(t) == t % DayLen
Dates == 0 .. Day(MaxTime)

Fresh == [state |-> "pending", skip |-> FALSE, fired |-> FALSE]
AppliesToday(k, t) == (Day(t) % WeekLen) \in slots[k].days

-----------------------------------------------------------------------------
(* schedule_poll *)

\* schedule_mark_missed_before
MarkMissed(r, k) ==
    IF /\ slots[k].enabled
       /\ global
       /\ AppliesToday(k, now)
       /\ ~r.fired
       /\ ~r.skip
       /\ k < Min(now)
       /\ r.state \notin Terminal
    THEN [r EXCEPT !.state = "skipped"]
    ELSE r

\* Mistakes, to show that the properties notice them (as are the other
\* definitions below that name what is done wrong): a slot is fed again; a slot
\* is fed only while it shows as pending, or while no other is being fed.
FiresAgain(r, k) ==
    /\ global /\ today /\ slots[k].enabled /\ ~r.skip
    /\ AppliesToday(k, now) /\ k = Min(now)
FiresPending(r, k) ==
    /\ global /\ today /\ slots[k].enabled /\ ~r.skip /\ ~r.fired
    /\ r.state = "pending"
    /\ AppliesToday(k, now) /\ k = Min(now)

\* schedule_try_fire_current: whether slot k is given to the fire callback.
Fires(r, k) ==
    /\ global
    /\ today
    /\ slots[k].enabled
    /\ ~r.skip
    /\ ~r.fired
    /\ AppliesToday(k, now)
    /\ k = Min(now)

\* feed_schedule_fire: a full bowl skips the feed, a running job refuses it.
FireResult == IF full THEN "full" ELSE IF job = NoSlot THEN "ok" ELSE "busy"

AfterFire(r) ==
    CASE FireResult = "ok"   -> [r EXCEPT !.fired = TRUE, !.state = "dispensing"]
      [] FireResult = "full" -> [r EXCEPT !.fired = TRUE, !.state = "skipped_full"]
      [] FireResult = "busy" -> r

\* schedule_refresh_entry_state; future: the slot is still to come today.
Refresh(r, k, todayV, future) ==
    CASE r.state \in Terminal -> r
      [] r.state \notin Terminal /\ r.skip ->
            [r EXCEPT !.state = IF future THEN "to_be_skipped" ELSE "skipped"]
      [] r.state \notin Terminal /\ ~r.skip /\ ~todayV /\ future /\ AppliesToday(k, now) ->
            [r EXCEPT !.state = "skipped"]
      [] OTHER -> r

\* The polls of a day call a later minute future even on a day the slot is not
\* set for.
Future(k) == k > Min(now)

PollFires ==
    LET missed == [k \in DOMAIN slots |-> MarkMissed(rt[k], k)]
        due    == {k \in DOMAIN slots : Fires(missed[k], k)}
        fed1   == IF FireResult = "ok" THEN due ELSE {}
    IN /\ rt' = [k \in DOMAIN slots |->
                    Refresh(IF k \in due THEN AfterFire(missed[k]) ELSE missed[k], k, today, Future(k))]
       /\ active' = IF fed1 = {} THEN active ELSE CHOOSE k \in fed1 : TRUE
       /\ job' = IF fed1 = {} THEN job ELSE CHOOSE k \in fed1 : TRUE
       /\ fed' = [p \in DOMAIN fed |->
                    IF p[1] \in fed1 /\ p[2] = Day(now) /\ fed[p] < 2 THEN fed[p] + 1 ELSE fed[p]]
       /\ UNCHANGED <<today, lost>>

PollNewDayKeepsState ==
    /\ today' = TRUE
    /\ rt' = [k \in DOMAIN slots |-> [rt[k] EXCEPT !.skip = FALSE, !.fired = FALSE]]
    /\ active' = NoSlot
    /\ lost' = FALSE
    /\ UNCHANGED <<job, fed>>

\* schedule_reset_runtime: the first poll of a new date clears what belongs to
\* the old one, and leaves the firing to the next change of the minute.
PollNewDay ==
    /\ today' = TRUE
    /\ rt' = [k \in DOMAIN slots |-> Refresh(Fresh, k, TRUE, Future(k))]
    /\ active' = NoSlot
    /\ lost' = FALSE
    /\ UNCHANGED <<job, fed>>

PollSameMinute ==
    /\ rt' = [k \in DOMAIN slots |-> Refresh(rt[k], k, today, Future(k))]
    /\ UNCHANGED <<today, active, job, lost, fed>>

Poll ==
    /\ synced
    /\ last' = now
    /\ \/ last # NoClock /\ Day(last) # Day(now) /\ PollNewDay
       \/ last = NoClock /\ PollFires
       \/ last # NoClock /\ Day(last) = Day(now) /\ last # now /\ PollFires
       \/ last = now /\ PollSameMinute
    /\ turned' = (turned \/ (last # NoClock /\ Day(now) < Day(last)))
    /\ UNCHANGED <<config, clock, full>>

\* schedule_format_state_json: publishing the state refreshes it once more, and
\* a slot that is not set for today is not future here.
PublishState ==
    /\ synced
    /\ rt' = [k \in DOMAIN slots |->
                 Refresh(rt[k], k, today, Future(k) /\ AppliesToday(k, now))]
    /\ UNCHANGED <<config, today, active, last, clock, supervisor, history>>

-----------------------------------------------------------------------------
(* The supervisor *)

\* The job ends.  If it was the schedule's, schedule_on_dispense_complete
\* settles the active slot, which may have been deleted meanwhile.
JobDone(ok) ==
    /\ job # NoSlot
    /\ job' = NoSlot
    /\ IF job # Manual /\ active # NoSlot
       THEN /\ active' = NoSlot
            /\ rt' = IF active \in DOMAIN slots
                     THEN [rt EXCEPT ![active].state = IF ok THEN "dispensed" ELSE "failed"]
                     ELSE rt
       ELSE UNCHANGED <<active, rt>>
    /\ UNCHANGED <<config, today, last, clock, full, lost, history>>

\* dispense_start_from_request gives the job up: the schedule is not told.
JobDropped ==
    /\ "drop" \in Ops
    /\ job \in Keys
    /\ job' = NoSlot
    /\ lost' = (lost \/ active # NoSlot)
    /\ UNCHANGED <<config, rt, today, active, last, clock, full, history>>

ManualJob ==
    /\ "manual" \in Ops
    /\ job = NoSlot
    /\ job' = Manual
    /\ UNCHANGED <<config, rt, today, active, last, clock, full, lost, history>>

BowlChanges ==
    /\ "full" \in Ops
    /\ full' = ~full
    /\ UNCHANGED <<config, rt, today, active, last, clock, job, lost, history>>

-----------------------------------------------------------------------------
(* schedule_cmd_*: the change is made in RAM first and saved after it. *)

Saves == IF "write_fails" \in Ops THEN BOOLEAN ELSE {TRUE}

\* schedule_save_slots_blob
SaveSlots(saved) ==
    /\ dirty' = IF saved THEN dirty \ {"slots"} ELSE dirty \cup {"slots"}
    /\ flash' = IF saved THEN [flash EXCEPT !.slots = slots'] ELSE flash

Unsaid == <<today, active, last, clock, supervisor>>

\* schedule_set_slot keeps the runtime of a slot that exists.
SetSlot(k, cfg, saved) ==
    /\ "set" \in Ops
    /\ k \in DOMAIN slots \/ Cardinality(DOMAIN slots) < MaxSlots
    /\ slots' = [j \in DOMAIN slots \cup {k} |-> IF j = k THEN cfg ELSE slots[j]]
    /\ rt' = [j \in DOMAIN slots \cup {k} |-> IF j \in DOMAIN slots THEN rt[j] ELSE Fresh]
    /\ SaveSlots(saved)
    /\ UNCHANGED <<global, history, Unsaid>>

DeleteSlot(k, saved) ==
    /\ "delete" \in Ops
    /\ k \in DOMAIN slots
    /\ slots' = [j \in DOMAIN slots \ {k} |-> slots[j]]
    /\ rt' = [j \in DOMAIN slots \ {k} |-> rt[j]]
    /\ fed' = [p \in DOMAIN fed |-> IF p[1] = k THEN 0 ELSE fed[p]]
    /\ SaveSlots(saved)
    /\ UNCHANGED <<global, turned, Unsaid>>

ToggleSlotUnsaved(k, saved) ==
    /\ "toggle" \in Ops
    /\ k \in DOMAIN slots
    /\ slots' = [slots EXCEPT ![k].enabled = ~@]
    /\ UNCHANGED <<rt, global, flash, dirty, history, Unsaid>>

ToggleSlot(k, saved) ==
    /\ "toggle" \in Ops
    /\ k \in DOMAIN slots
    /\ slots' = [slots EXCEPT ![k].enabled = ~@]
    /\ SaveSlots(saved)
    /\ UNCHANGED <<rt, global, history, Unsaid>>

SkipSlot(k, skip) ==
    /\ "skip" \in Ops
    /\ k \in DOMAIN slots
    /\ rt' = [rt EXCEPT ![k].skip = skip]
    /\ UNCHANGED <<config, history, Unsaid>>

\* schedule_set_global_enabled has a key of its own in flash; a value that is
\* in force already is not saved again, even if its write had failed.
SetGlobal(on, saved) ==
    /\ "enable" \in Ops
    /\ on # global
    /\ global' = on
    /\ flash' = IF saved THEN [flash EXCEPT !.global = on] ELSE flash
    /\ dirty' = IF saved THEN dirty \ {"global"} ELSE dirty \cup {"global"}
    /\ UNCHANGED <<slots, rt, history, Unsaid>>

SetToday ==
    /\ "today" \in Ops
    /\ today' = ~today
    /\ UNCHANGED <<config, rt, active, last, clock, supervisor, history>>

-----------------------------------------------------------------------------
(* The clock, and reboots *)

\* A minute passes: while the time is known not before it was polled.
Tick ==
    /\ now < MaxTime
    /\ synced => last = now
    /\ now' = now + 1
    /\ UNCHANGED <<config, rt, today, active, last, synced, supervisor, history>>

Jump(to) ==
    /\ <<now, to>> \in Jumps
    /\ now' = to
    /\ UNCHANGED <<config, rt, today, active, last, synced, supervisor, history>>

\* time_sync_start, every six hours, when Wi-Fi is back and by a command: until
\* the answer is there the time counts as unknown, and it stays so when the RTC
\* cannot be read back.
Resync ==
    /\ synced
    /\ synced' = FALSE
    /\ UNCHANGED <<config, rt, today, active, last, now, supervisor, history>>

\* time_sync_on_finish: the answer is there, or failed after an earlier success.
Sync ==
    /\ ~synced
    /\ synced' = TRUE
    /\ UNCHANGED <<config, rt, today, active, last, now, supervisor, history>>

\* schedule_init loads the stored configuration; the runtime starts afresh.
Reboot ==
    /\ "reboot" \in Ops
    /\ slots' = flash.slots
    /\ global' = flash.global
    /\ rt' = [k \in DOMAIN flash.slots |-> Fresh]
    /\ today' = TRUE
    /\ active' = NoSlot
    /\ last' = NoClock
    /\ synced' = FALSE
    /\ job' = NoSlot
    /\ lost' = FALSE
    /\ turned' = FALSE
    /\ dirty' = {}
    /\ fed' = [p \in DOMAIN fed |-> 0]
    /\ UNCHANGED <<now, flash, full>>

-----------------------------------------------------------------------------
SchedInit ==
    /\ slots \in InitSlots
    /\ rt = [k \in DOMAIN slots |-> Fresh]
    /\ global = TRUE
    /\ today = TRUE
    /\ active = NoSlot
    /\ last = NoClock
    /\ now = 0
    /\ synced = FALSE
    /\ flash = [slots |-> slots, global |-> TRUE]
    /\ dirty = {}
    /\ job = NoSlot
    /\ full = FALSE
    /\ lost = FALSE
    /\ turned = FALSE
    /\ fed = [p \in Keys \X Dates |-> 0]

Command ==
    \/ \E k \in Keys, days \in Masks, saved \in Saves :
          SetSlot(k, [days |-> days, enabled |-> TRUE], saved)
    \/ \E k \in Keys, saved \in Saves : DeleteSlot(k, saved) \/ ToggleSlot(k, saved)
    \/ \E k \in Keys, skip \in BOOLEAN : SkipSlot(k, skip)
    \/ \E on \in BOOLEAN, saved \in Saves : SetGlobal(on, saved)
    \/ SetToday

JobEnds == \E ok \in BOOLEAN : JobDone(ok)

SchedNext ==
    \/ Poll
    \/ PublishState
    \/ JobEnds
    \/ JobDropped
    \/ ManualJob
    \/ BowlChanges
    \/ Command
    \/ Tick
    \/ \E to \in 0 .. MaxTime : Jump(to)
    \/ Resync
    \/ Sync
    \/ Reboot

SchedSpec == SchedInit /\ [][SchedNext]_schedVars

-----------------------------------------------------------------------------
(* Properties *)

SchedTypeOK ==
    /\ DOMAIN slots \subseteq Keys
    /\ \A k \in DOMAIN slots : slots[k] \in Config
    /\ rt \in [DOMAIN slots -> [state : States, skip : BOOLEAN, fired : BOOLEAN]]
    /\ global \in BOOLEAN
    /\ today \in BOOLEAN
    /\ active \in Keys \cup {NoSlot}
    /\ last \in (0 .. MaxTime) \cup {NoClock}
    /\ now \in 0 .. MaxTime
    /\ synced \in BOOLEAN
    /\ dirty \subseteq {"slots", "global"}
    /\ job \in Keys \cup {Manual, NoSlot}
    /\ full \in BOOLEAN
    /\ lost \in BOOLEAN
    /\ turned \in BOOLEAN
    /\ fed \in [Keys \X Dates -> 0 .. 2]

\* A slot feeds at most once on a date, whatever the commands and the clock do
\* meanwhile: a clock set back over the slot or forward over midnight, a slot
\* switched off and on, a skip undone, minutes that nobody polled.  The flags are
\* cleared by every change of the date, so that a clock set back over midnight
\* feeds again; they are kept in RAM with the slot, so that a reboot or a slot
\* deleted and set again starts anew.
\* (scheduler-engine.md promises it for the repeated hour of daylight saving.)
FedOnce == turned \/ \A p \in DOMAIN fed : fed[p] <= 1

\* A slot that shows `dispensing` is the one whose job the supervisor runs, so
\* that the end of the job is credited to it and to no other slot.
DispensingHasJob ==
    \A k \in DOMAIN slots : rt[k].state = "dispensing" => active = k /\ job = k

\* The end of a job settles the slot it was started for, or none.
ActiveIsJob == active # NoSlot => active = job

\* Until the supervisor gives the active slot's job up unsaid, which the next
\* date heals, the entry shown as dispensing, the active entry and the job are
\* one and the same.
JobSettlesItsSlot == lost \/ (DispensingHasJob /\ ActiveIsJob)

\* What a reboot restores is what the commands set, up to writes that failed:
\* none of the commands forgets to save, saves before it changes, or hides the
\* failure of another's write.
FlashFollowsRam ==
    /\ "slots" \notin dirty => flash.slots = slots
    /\ "global" \notin dirty => flash.global = global

\* The flash copy of the slots and switches differs from RAM only by a write
\* that failed, whatever commands and reboots came in between; the types are
\* checked along with it.
ConfigKept == SchedTypeOK /\ FlashFollowsRam

Due(k) ==
    /\ k = Min(now)
    /\ slots[k].enabled
    /\ global
    /\ AppliesToday(k, now)
    /\ ~rt[k].skip
    /\ ~rt[k].fired
SeesMinute == last' = now /\ last # now
SameDate == last # NoClock => Day(last) = Day(now)
FeedsDue == \A k \in DOMAIN slots : Due(k) /\ today /\ FireResult = "ok" => job' = k

\* The poll that sees a new minute feeds the slot that is due in it, whatever the
\* slot shows and whatever minutes went unseen before, unless the supervisor is
\* busy, the bowl full or the date another than at the poll before: the first
\* minute that schedule_poll sees of a new date feeds nothing.
DueIsFed == [][SeesMinute /\ SameDate => FeedsDue]_schedVars

\* What scheduler-engine.md:107 says: the first minute of a date feeds as well.
EveryDueIsFed == [][SeesMinute => FeedsDue]_schedVars
=============================================================================
