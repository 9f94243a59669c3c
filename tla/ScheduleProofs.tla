-------------------------- MODULE ScheduleProofs --------------------------
(***************************************************************************)
(* Proofs about Schedule for any slots, minutes, weeks and commands.       *)
(*                                                                         *)
(* That a slot feeds once on a date is not inductive: until a poll finds an *)
(* earlier date, the counts of the date of the last poll follow the slots' *)
(* fired flags, and the dates to come have none (Counted).                 *)
(* That the end of a job settles its own slot is kept by every step but    *)
(* the loss of the active slot's job, and holds anew on the next date.  A  *)
(* poll that finds the date it knows feeds what is due (PollFacts).        *)
(***************************************************************************)
EXTENDS Schedule, TLAPS

SlotMaps == UNION {[K -> Config] : K \in SUBSET Keys}
Runtime == [state : States, skip : BOOLEAN, fired : BOOLEAN]

\* The constants of an instance that are no keys, and the first configuration.
Instance ==
    /\ InitSlots \subseteq SlotMaps
    /\ NoSlot \notin Keys /\ Manual \notin Keys /\ Manual # NoSlot
    /\ NoClock \notin 0 .. MaxTime

FlashTyped == flash = [slots |-> flash.slots, global |-> flash.global]
              /\ flash.slots \in SlotMaps /\ flash.global \in BOOLEAN
Stored == SchedTypeOK /\ slots \in SlotMaps /\ FlashTyped /\ FlashFollowsRam

Counted ==
    turned \/
        /\ last = NoClock => \A p \in DOMAIN fed : fed[p] = 0
        /\ last # NoClock =>
            \A p \in DOMAIN fed :
                /\ p[2] > Day(last) => fed[p] = 0
                /\ p[2] = Day(last) /\ fed[p] # 0 => p[1] \in DOMAIN slots /\ rt[p[1]].fired
        /\ \A p \in DOMAIN fed : fed[p] <= 1

Settles == DispensingHasJob /\ ActiveIsJob

-----------------------------------------------------------------------------
(* The clock *)

\* Dates and minutes of the day are numbers.
LEMMA DayFacts ==
    \A t \in Nat : Day(t) \in Nat /\ Min(t) \in 0 .. DayLen - 1
<1>1. DayLen \in Nat \ {0}
  BY ScheduleAssumption
<1>2. ASSUME NEW t \in Nat PROVE t \div DayLen \in Nat /\ t % DayLen \in 0 .. DayLen - 1
  BY <1>1
<1> QED BY <1>2 DEF Day, Min

-----------------------------------------------------------------------------
(* What a poll makes of an entry *)

\* Marking and refreshing keep the flags of an entry and never show it as
\* being fed.
LEMMA EntryKept ==
    ASSUME NEW r \in Runtime, NEW k, NEW todayV, NEW future
    PROVE  /\ MarkMissed(r, k) \in Runtime
           /\ MarkMissed(r, k).fired = r.fired /\ MarkMissed(r, k).skip = r.skip
           /\ MarkMissed(r, k).state = "dispensing" => r.state = "dispensing"
           /\ Refresh(r, k, todayV, future) \in Runtime
           /\ Refresh(r, k, todayV, future).fired = r.fired
           /\ Refresh(r, k, todayV, future).state = "dispensing" => r.state = "dispensing"
<1>1. /\ MarkMissed(r, k) \in Runtime
      /\ MarkMissed(r, k).fired = r.fired /\ MarkMissed(r, k).skip = r.skip
      /\ MarkMissed(r, k).state = "dispensing" => r.state = "dispensing"
  <2>1. MarkMissed(r, k) = r \/ MarkMissed(r, k) = [r EXCEPT !.state = "skipped"]
    BY DEF MarkMissed
  <2> QED BY <2>1 DEF Runtime, States
<1>2. Refresh(r, k, todayV, future) = r
      \/ Refresh(r, k, todayV, future) = [r EXCEPT !.state = "to_be_skipped"]
      \/ Refresh(r, k, todayV, future) = [r EXCEPT !.state = "skipped"]
  BY DEF Refresh
<1>3. /\ Refresh(r, k, todayV, future) \in Runtime
      /\ Refresh(r, k, todayV, future).fired = r.fired
      /\ Refresh(r, k, todayV, future).state = "dispensing" => r.state = "dispensing"
  BY <1>2 DEF Runtime, States
<1> QED BY <1>1, <1>3

\* A fresh entry that is refreshed is not being fed and has not fired.
LEMMA FreshEntry == Fresh \in Runtime /\ ~Fresh.fired /\ Fresh.state # "dispensing"
BY DEF Fresh, Runtime, States

\* Nor is it after it was refreshed.
LEMMA FreshRefreshed ==
    \A k, f : Refresh(Fresh, k, TRUE, f).state # "dispensing"
<1> SUFFICES ASSUME NEW k, NEW f PROVE Refresh(Fresh, k, TRUE, f).state # "dispensing"
  OBVIOUS
<1>1. Fresh.state = "pending" /\ Fresh.skip = FALSE /\ Terminal = {"dispensing", "dispensed", "failed", "skipped_full"}
  BY DEF Fresh, Terminal
<1>2. Refresh(Fresh, k, TRUE, f) = Fresh
  BY <1>1 DEF Refresh
<1> QED BY <1>1, <1>2

\* An entry given to the callback has fired if the callback took it.
LEMMA AfterFireKept ==
    ASSUME NEW r \in Runtime
    PROVE  /\ AfterFire(r) \in Runtime
           /\ FireResult = "ok" => AfterFire(r).fired
           /\ r.fired => AfterFire(r).fired
           /\ FireResult # "ok" /\ AfterFire(r).state = "dispensing" => r.state = "dispensing"
<1>1. FireResult \in {"ok", "full", "busy"}
  BY DEF FireResult
<1>2. CASE FireResult = "ok"
  <2>1. AfterFire(r) = [r EXCEPT !.fired = TRUE, !.state = "dispensing"]
    BY <1>2 DEF AfterFire
  <2> QED BY <1>2, <2>1 DEF Runtime, States
<1>3. CASE FireResult = "full"
  <2>1. AfterFire(r) = [r EXCEPT !.fired = TRUE, !.state = "skipped_full"]
    BY <1>3 DEF AfterFire
  <2> QED BY <1>3, <2>1 DEF Runtime, States
<1>4. CASE FireResult = "busy"
  <2>1. AfterFire(r) = r
    BY <1>4 DEF AfterFire
  <2> QED BY <1>4, <2>1
<1> QED BY <1>1, <1>2, <1>3, <1>4

\* The poll of a new minute feeds at most the slot of that minute, and only one
\* that has not fired; every entry keeps its fired flag.
LEMMA PollFacts ==
    ASSUME SchedTypeOK, PollFires
    PROVE  \E fed1 \in SUBSET (Keys \cap DOMAIN slots) :
            /\ \A k \in fed1 : k = Min(now) /\ ~rt[k].fired /\ FireResult = "ok" /\ rt'[k].fired
            /\ active' = (IF fed1 = {} THEN active ELSE CHOOSE k \in fed1 : TRUE)
            /\ job' = (IF fed1 = {} THEN job ELSE CHOOSE k \in fed1 : TRUE)
            /\ fed' = [p \in DOMAIN fed |-> IF p[1] \in fed1 /\ p[2] = Day(now) /\ fed[p] < 2 THEN fed[p] + 1 ELSE fed[p]]
            /\ rt' \in [DOMAIN slots -> Runtime]
            /\ \A k \in DOMAIN slots : rt[k].fired => rt'[k].fired
            /\ \A k \in DOMAIN slots \ fed1 : rt'[k].state = "dispensing" => rt[k].state = "dispensing"
            /\ \A k \in DOMAIN slots : Due(k) /\ today /\ FireResult = "ok" => k \in fed1
            /\ today' = today /\ lost' = lost
<1> DEFINE missed == [k \in DOMAIN slots |-> MarkMissed(rt[k], k)]
           due == {k \in DOMAIN slots : Fires(missed[k], k)}
           fed1 == IF FireResult = "ok" THEN due ELSE {}
           tried(k) == IF k \in due THEN AfterFire(missed[k]) ELSE missed[k]
<1>1. /\ rt' = [k \in DOMAIN slots |-> Refresh(tried(k), k, today, Future(k))]
      /\ active' = (IF fed1 = {} THEN active ELSE CHOOSE k \in fed1 : TRUE)
      /\ job' = (IF fed1 = {} THEN job ELSE CHOOSE k \in fed1 : TRUE)
      /\ fed' = [p \in DOMAIN fed |-> IF p[1] \in fed1 /\ p[2] = Day(now) /\ fed[p] < 2 THEN fed[p] + 1 ELSE fed[p]]
      /\ today' = today /\ lost' = lost
  BY DEF PollFires
<1>2. \A k \in DOMAIN slots : rt[k] \in Runtime
  BY DEF SchedTypeOK, Runtime
<1>3. \A k \in DOMAIN slots :
        /\ missed[k] \in Runtime /\ missed[k].fired = rt[k].fired /\ missed[k].skip = rt[k].skip
        /\ missed[k].state = "dispensing" => rt[k].state = "dispensing"
  BY <1>2, EntryKept
<1>4. \A k \in DOMAIN slots :
        /\ tried(k) \in Runtime
        /\ rt[k].fired => tried(k).fired
        /\ k \in fed1 => tried(k).fired
        /\ k \notin fed1 /\ tried(k).state = "dispensing" => rt[k].state = "dispensing"
  <2> HIDE DEF missed
  <2> SUFFICES ASSUME NEW k \in DOMAIN slots
               PROVE  /\ tried(k) \in Runtime
                      /\ rt[k].fired => tried(k).fired
                      /\ k \in fed1 => tried(k).fired
                      /\ k \notin fed1 /\ tried(k).state = "dispensing" => rt[k].state = "dispensing"
    OBVIOUS
  <2> QED BY <1>3, AfterFireKept
<1>5. \A k \in DOMAIN slots : Fires(missed[k], k) <=> Due(k) /\ today
  <2> HIDE DEF missed
  <2> QED BY <1>3 DEF Fires, Due
<1>6. \A k \in DOMAIN slots : k \in fed1 <=> Due(k) /\ today /\ FireResult = "ok"
  <2> HIDE DEF missed
  <2> QED BY <1>5
<1> HIDE DEF tried, fed1
<1>7. \A k \in DOMAIN slots :
        /\ rt'[k] \in Runtime
        /\ rt'[k].fired = tried(k).fired
        /\ rt'[k].state = "dispensing" => tried(k).state = "dispensing"
  BY <1>1, <1>4, EntryKept
<1>8. rt' \in [DOMAIN slots -> Runtime]
  BY <1>1, <1>4, EntryKept
<1>9. fed1 \in SUBSET (Keys \cap DOMAIN slots)
  BY DEF fed1, SchedTypeOK
<1>10. \A k \in fed1 : k = Min(now) /\ ~rt[k].fired /\ FireResult = "ok" /\ rt'[k].fired
  BY <1>4, <1>6, <1>7, <1>9 DEF Due
<1>11. \A k \in DOMAIN slots : rt[k].fired => rt'[k].fired
  BY <1>4, <1>7
<1>12. \A k \in DOMAIN slots \ fed1 : rt'[k].state = "dispensing" => rt[k].state = "dispensing"
  BY <1>4, <1>7
<1> QED BY <1>1, <1>6, <1>8, <1>9, <1>10, <1>11, <1>12

-----------------------------------------------------------------------------
(* Types, and the flash copy *)

\* A command that saves leaves the copy true or remembers that it is not.
LEMMA SaveFacts ==
    ASSUME FlashTyped, FlashFollowsRam, dirty \subseteq {"slots", "global"}, NEW saved,
           SaveSlots(saved), slots' \in SlotMaps, global' = global
    PROVE  FlashTyped' /\ FlashFollowsRam' /\ dirty' \subseteq {"slots", "global"}
<1>1. CASE saved
  <2>1. flash' = [flash EXCEPT !.slots = slots'] /\ dirty' = dirty \ {"slots"}
    BY <1>1 DEF SaveSlots
  <2>2. flash'.slots = slots' /\ flash'.global = flash.global /\ flash' = [slots |-> slots', global |-> flash.global]
    BY <2>1 DEF FlashTyped
  <2> QED BY <2>1, <2>2 DEF FlashTyped, FlashFollowsRam
<1>2. CASE ~saved
  BY <1>2 DEF SaveSlots, FlashTyped, FlashFollowsRam
<1> QED BY <1>1, <1>2

\* A map of slots is one on keys.
LEMMA SlotMapFacts ==
    ASSUME NEW m
    PROVE  m \in SlotMaps <=> DOMAIN m \subseteq Keys /\ m \in [DOMAIN m -> Config]
BY DEF SlotMaps

\* Every step keeps the types, and the flash copy up to failed writes.
LEMMA StoredKept == ASSUME Instance, Stored, [SchedNext]_schedVars PROVE Stored'
<1> USE DEF Stored
<1>1. /\ slots \in SlotMaps /\ rt \in [DOMAIN slots -> Runtime]
      /\ global \in BOOLEAN /\ today \in BOOLEAN /\ active \in Keys \cup {NoSlot}
      /\ last \in (0 .. MaxTime) \cup {NoClock} /\ now \in 0 .. MaxTime /\ synced \in BOOLEAN
      /\ dirty \subseteq {"slots", "global"} /\ job \in Keys \cup {Manual, NoSlot}
      /\ full \in BOOLEAN /\ lost \in BOOLEAN /\ turned \in BOOLEAN /\ fed \in [Keys \X Dates -> 0 .. 2] /\ MaxTime \in Nat
  BY ScheduleAssumption DEF SchedTypeOK, Runtime
<1>2. ASSUME slots' \in SlotMaps /\ rt' \in [DOMAIN slots' -> Runtime],
             global' \in BOOLEAN /\ today' \in BOOLEAN /\ active' \in Keys \cup {NoSlot},
             last' \in (0 .. MaxTime) \cup {NoClock} /\ now' \in 0 .. MaxTime /\ synced' \in BOOLEAN,
             dirty' \subseteq {"slots", "global"} /\ job' \in Keys \cup {Manual, NoSlot},
             full' \in BOOLEAN /\ lost' \in BOOLEAN /\ turned' \in BOOLEAN /\ fed' \in [Keys \X Dates -> 0 .. 2]
      PROVE  SchedTypeOK' /\ slots' \in SlotMaps
  BY <1>2, SlotMapFacts DEF SchedTypeOK, Runtime
<1>3. UNCHANGED config => FlashTyped' /\ FlashFollowsRam'
  BY DEF config, FlashTyped, FlashFollowsRam
<1>4. CASE Poll
  <2>1. synced /\ last' = now /\ UNCHANGED <<slots, global, flash, dirty, now, synced, full>>
    BY <1>4 DEF Poll, config, clock, history
  <2>2. /\ rt' \in [DOMAIN slots -> Runtime] /\ today' \in BOOLEAN /\ active' \in Keys \cup {NoSlot}
        /\ job' \in Keys \cup {Manual, NoSlot} /\ fed' \in [Keys \X Dates -> 0 .. 2] /\ lost' \in BOOLEAN /\ turned' \in BOOLEAN
    <3>0. turned' \in BOOLEAN
      <4>1. turned' = (turned \/ (last # NoClock /\ Day(now) < Day(last)))
        BY <1>4 DEF Poll
      <4> QED BY <4>1, Zenon
    <3>1. CASE PollFires
      <4>1. PICK fed1 \in SUBSET (Keys \cap DOMAIN slots) :
              /\ active' = (IF fed1 = {} THEN active ELSE CHOOSE k \in fed1 : TRUE)
              /\ job' = (IF fed1 = {} THEN job ELSE CHOOSE k \in fed1 : TRUE)
              /\ fed' = [p \in DOMAIN fed |-> IF p[1] \in fed1 /\ p[2] = Day(now) /\ fed[p] < 2 THEN fed[p] + 1 ELSE fed[p]]
              /\ rt' \in [DOMAIN slots -> Runtime] /\ today' = today /\ lost' = lost
        BY <3>1, PollFacts, Zenon
      <4>2. fed1 # {} => (CHOOSE k \in fed1 : TRUE) \in Keys
        OBVIOUS
      <4>3. fed' \in [Keys \X Dates -> 0 .. 2]
        <5>1. DOMAIN fed = Keys \X Dates /\ \A p \in Keys \X Dates : fed[p] \in 0 .. 2
          BY <1>1
        <5>2. \A p \in Keys \X Dates : fed[p] < 2 => fed[p] + 1 \in 0 .. 2
          BY <5>1
        <5> QED BY <4>1, <5>1, <5>2
      <4> QED BY <1>1, <3>0, <4>1, <4>2, <4>3
    <3>2. CASE PollNewDay
      BY <1>1, <3>0, <3>2, EntryKept, FreshEntry DEF PollNewDay
    <3>3. CASE PollSameMinute
      BY <1>1, <3>0, <3>3, EntryKept DEF PollSameMinute
    <3> QED BY <1>4, <3>0, <3>1, <3>2, <3>3 DEF Poll
  <2> QED BY <1>1, <1>2, <1>3, <2>1, <2>2 DEF config, history
<1>5. CASE PublishState
  <2>1. rt' \in [DOMAIN slots -> Runtime]
    BY <1>1, <1>5, EntryKept DEF PublishState
  <2>2. UNCHANGED <<slots, global, flash, dirty, today, active, last, now, synced, job, full, lost, turned, fed>>
    BY <1>5 DEF PublishState, config, clock, supervisor, history
  <2> QED BY <1>1, <1>2, <1>3, <2>1, <2>2 DEF config, history
<1>6. ASSUME NEW ok \in BOOLEAN, JobDone(ok) PROVE Stored'
  <2>1. rt' \in [DOMAIN slots -> Runtime]
    <3>1. ASSUME NEW k, NEW st \in States PROVE [rt EXCEPT ![k].state = st] \in [DOMAIN slots -> Runtime]
      BY <1>1 DEF Runtime
    <3> QED BY <1>1, <1>6, <3>1 DEF JobDone, States
  <2>2. active' \in Keys \cup {NoSlot} /\ job' = NoSlot
        /\ UNCHANGED <<slots, global, flash, dirty, today, last, now, synced, full, lost, turned, fed>>
    BY <1>1, <1>6 DEF JobDone, config, clock, history
  <2> QED BY <1>1, <1>2, <1>3, <2>1, <2>2 DEF config, history
<1>7. CASE JobDropped \/ ManualJob \/ BowlChanges
  <2>1. job' \in Keys \cup {Manual, NoSlot} /\ full' \in BOOLEAN /\ lost' \in BOOLEAN
        /\ UNCHANGED <<slots, rt, global, flash, dirty, today, active, last, now, synced, turned, fed>>
    BY <1>1, <1>7 DEF JobDropped, ManualJob, BowlChanges, config, clock, history
  <2> QED BY <1>1, <1>2, <1>3, <2>1 DEF config, history
<1>8. ASSUME NEW k \in Keys, NEW days \in Masks, NEW saved, SetSlot(k, [days |-> days, enabled |-> TRUE], saved)
      PROVE  Stored'
  <2> DEFINE cfg == [days |-> days, enabled |-> TRUE]
  <2>1. cfg \in Config
    BY ScheduleAssumption DEF Config
  <2>2. /\ slots' = [j \in DOMAIN slots \cup {k} |-> IF j = k THEN cfg ELSE slots[j]]
        /\ rt' = [j \in DOMAIN slots \cup {k} |-> IF j \in DOMAIN slots THEN rt[j] ELSE Fresh]
        /\ SaveSlots(saved)
        /\ UNCHANGED <<global, fed, today, active, last, now, synced, job, full, lost, turned>>
    BY <1>8 DEF SetSlot, Unsaid, clock, supervisor, history
  <2> HIDE DEF cfg
  <2>3. slots' \in SlotMaps /\ rt' \in [DOMAIN slots' -> Runtime]
    BY <1>1, <2>1, <2>2, FreshEntry, SlotMapFacts
  <2>4. FlashTyped' /\ FlashFollowsRam' /\ dirty' \subseteq {"slots", "global"}
    BY <1>1, <2>2, <2>3, SaveFacts
  <2> QED BY <1>1, <1>2, <2>2, <2>3, <2>4
<1>9. ASSUME NEW k \in Keys, NEW saved, DeleteSlot(k, saved) PROVE Stored'
  <2>1. /\ slots' = [j \in DOMAIN slots \ {k} |-> slots[j]]
        /\ rt' = [j \in DOMAIN slots \ {k} |-> rt[j]]
        /\ fed' = [p \in DOMAIN fed |-> IF p[1] = k THEN 0 ELSE fed[p]]
        /\ SaveSlots(saved)
        /\ UNCHANGED <<global, today, active, last, now, synced, job, full, lost, turned>>
    BY <1>9 DEF DeleteSlot, Unsaid, clock, supervisor, history
  <2>2. slots' \in SlotMaps /\ rt' \in [DOMAIN slots' -> Runtime]
    BY <1>1, <2>1, SlotMapFacts
  <2>3. fed' \in [Keys \X Dates -> 0 .. 2]
    BY <1>1, <2>1
  <2>4. FlashTyped' /\ FlashFollowsRam' /\ dirty' \subseteq {"slots", "global"}
    BY <1>1, <2>1, <2>2, SaveFacts
  <2> QED BY <1>1, <1>2, <2>1, <2>2, <2>3, <2>4
<1>10. ASSUME NEW k \in Keys, NEW saved, ToggleSlot(k, saved) PROVE Stored'
  <2>1. /\ k \in DOMAIN slots
        /\ slots' = [slots EXCEPT ![k].enabled = ~@]
        /\ SaveSlots(saved)
        /\ UNCHANGED <<rt, global, fed, today, active, last, now, synced, job, full, lost, turned>>
    BY <1>10 DEF ToggleSlot, Unsaid, clock, supervisor, history
  <2>2. slots[k] \in Config
    BY <1>1, <2>1, SlotMapFacts
  <2>3. [slots[k] EXCEPT !.enabled = ~@] \in Config
    BY <2>2 DEF Config
  <2>4. slots' = [slots EXCEPT ![k] = [slots[k] EXCEPT !.enabled = ~@]]
    BY <2>1
  <2>5. slots' \in SlotMaps /\ rt' \in [DOMAIN slots' -> Runtime]
    BY <1>1, <2>1, <2>3, <2>4, SlotMapFacts
  <2>6. FlashTyped' /\ FlashFollowsRam' /\ dirty' \subseteq {"slots", "global"}
    BY <1>1, <2>1, <2>5, SaveFacts
  <2> QED BY <1>1, <1>2, <2>1, <2>5, <2>6
<1>11. ASSUME NEW k \in Keys, NEW skip \in BOOLEAN, SkipSlot(k, skip) PROVE Stored'
  <2>1. rt' \in [DOMAIN slots -> Runtime]
    BY <1>1, <1>11 DEF SkipSlot, Runtime
  <2>2. UNCHANGED <<slots, global, flash, dirty, today, active, last, now, synced, job, full, lost, turned, fed>>
    BY <1>11 DEF SkipSlot, Unsaid, clock, supervisor, config, history
  <2> QED BY <1>1, <1>2, <1>3, <2>1, <2>2 DEF config, history
<1>12. ASSUME NEW on \in BOOLEAN, NEW saved, SetGlobal(on, saved) PROVE Stored'
  <2>1. /\ global' = on
        /\ flash' = IF saved THEN [flash EXCEPT !.global = on] ELSE flash
        /\ dirty' = IF saved THEN dirty \ {"global"} ELSE dirty \cup {"global"}
        /\ UNCHANGED <<slots, rt, fed, today, active, last, now, synced, job, full, lost, turned>>
    BY <1>12 DEF SetGlobal, Unsaid, clock, supervisor, history
  <2>2. CASE saved
    <3>1. flash' = [slots |-> flash.slots, global |-> on]
      BY <2>1, <2>2 DEF FlashTyped
    <3>2. FlashTyped' /\ FlashFollowsRam'
      BY <1>1, <2>1, <2>2, <3>1 DEF FlashTyped, FlashFollowsRam
    <3> QED BY <1>1, <1>2, <2>1, <2>2, <3>2
  <2>3. CASE ~saved
    <3>1. FlashTyped' /\ FlashFollowsRam'
      BY <1>1, <2>1, <2>3 DEF FlashTyped, FlashFollowsRam
    <3> QED BY <1>1, <1>2, <2>1, <2>3, <3>1
  <2> QED BY <2>2, <2>3
<1>13. CASE SetToday
  <2>1. today' \in BOOLEAN /\ UNCHANGED <<slots, rt, global, flash, dirty, active, last, now, synced, job, full, lost, turned, fed>>
    BY <1>1, <1>13 DEF SetToday, config, clock, supervisor, history
  <2> QED BY <1>1, <1>2, <1>3, <2>1 DEF config, history
<1>14. ASSUME Tick \/ Resync \/ Sync \/ \E to \in 0 .. MaxTime : Jump(to) PROVE Stored'
  <2>1. /\ now' \in 0 .. MaxTime /\ synced' \in BOOLEAN
        /\ UNCHANGED <<slots, rt, global, flash, dirty, today, active, last, job, full, lost, turned, fed>>
    <3>1. CASE Tick
      BY <1>1, <3>1 DEF Tick, config, supervisor, history
    <3>2. CASE Resync \/ Sync
      BY <1>1, <3>2 DEF Resync, Sync, config, supervisor, history
    <3>3. ASSUME NEW to \in 0 .. MaxTime, Jump(to)
          PROVE  now' \in 0 .. MaxTime /\ UNCHANGED <<slots, rt, global, flash, dirty, today, active, last, synced, job, full, lost, turned, fed>>
      BY <1>1, <3>3 DEF Jump, config, supervisor, history
    <3> QED BY <1>1, <1>14, <3>1, <3>2, <3>3
  <2> QED BY <1>1, <1>2, <1>3, <2>1 DEF config, history
<1>15. CASE Reboot
  <2>1. /\ slots' = flash.slots /\ global' = flash.global /\ rt' = [k \in DOMAIN flash.slots |-> Fresh]
        /\ today' = TRUE /\ active' = NoSlot /\ last' = NoClock /\ synced' = FALSE /\ job' = NoSlot
        /\ dirty' = {} /\ fed' = [p \in DOMAIN fed |-> 0] /\ UNCHANGED <<now, flash, full>> /\ lost' = FALSE /\ turned' = FALSE
    BY <1>15 DEF Reboot
  <2>2. slots' \in SlotMaps /\ rt' \in [DOMAIN slots' -> Runtime] /\ global' \in BOOLEAN
    BY <2>1, FreshEntry DEF FlashTyped
  <2>3. FlashTyped' /\ FlashFollowsRam'
    BY <2>1 DEF FlashTyped, FlashFollowsRam
  <2>4. fed' \in [Keys \X Dates -> 0 .. 2]
    BY <1>1, <2>1
  <2>5. SchedTypeOK' /\ slots' \in SlotMaps
    BY <1>1, <1>2, <2>1, <2>2, <2>4
  <2> QED BY <2>1, <2>3, <2>5
<1>16. CASE UNCHANGED schedVars
  <2>1. UNCHANGED <<slots, rt, global, flash, dirty, today, active, last, now, synced, job, full, lost, turned, fed>>
    BY <1>16 DEF schedVars, config, clock, supervisor, history
  <2> QED BY <1>1, <1>2, <1>3, <2>1 DEF config, history
<1> QED
  BY <1>4, <1>5, <1>6, <1>7, <1>8, <1>9, <1>10, <1>11, <1>12, <1>13, <1>14, <1>15, <1>16
  DEF SchedNext, Command, JobEnds

-----------------------------------------------------------------------------
(* How often a slot is fed *)

\* Dates are compared as the numbers they are.
LEMMA DateFacts ==
    ASSUME Stored
    PROVE  /\ now \in Nat /\ Day(now) \in Nat /\ Min(now) \in Nat
           /\ last # NoClock => last \in Nat /\ Day(last) \in Nat
           /\ DOMAIN fed = Keys \X Dates
           /\ \A p \in Keys \X Dates : p[1] \in Keys /\ p[2] \in Int /\ fed[p] \in 0 .. 2
<1>1. now \in Nat /\ (last # NoClock => last \in Nat) /\ fed \in [Keys \X Dates -> 0 .. 2]
  BY ScheduleAssumption DEF Stored, SchedTypeOK
<1>2. Day(now) \in Nat /\ Min(now) \in Nat /\ (last # NoClock => Day(last) \in Nat)
  BY <1>1, DayFacts
<1>3. \A p \in Keys \X Dates : p[1] \in Keys /\ p[2] \in Int /\ fed[p] \in 0 .. 2
  BY <1>1 DEF Dates
<1> QED BY <1>1, <1>2, <1>3

\* The counts stay as they are while the fired flags and the last poll do.
LEMMA CountedStays ==
    ASSUME Counted, UNCHANGED <<last, history>>,
           \A k \in DOMAIN slots : rt[k].fired => k \in DOMAIN slots' /\ rt'[k].fired
    PROVE  Counted'
BY DEF Counted, Day, history

\* A poll feeds what has not fired, on a date with no counts to come unless the
\* date went back.
LEMMA PollCounted == ASSUME Instance, Stored, Counted, Poll PROVE Counted'
<1>0. CASE turned'
  BY <1>0 DEF Counted
<1> SUFFICES ASSUME ~turned' PROVE Counted'
  BY <1>0
<1>1. last' = now /\ now' = now /\ slots' = slots /\ last' # NoClock
  <2>1. last' = now /\ now' = now /\ slots' = slots /\ now \in 0 .. MaxTime
    BY DEF Poll, config, clock, Stored, SchedTypeOK
  <2> QED BY <2>1 DEF Instance
<1>2. /\ now \in Nat /\ Day(now) \in Nat /\ (last # NoClock => Day(last) \in Nat)
      /\ DOMAIN fed = Keys \X Dates
      /\ \A p \in Keys \X Dates : p[1] \in Keys /\ p[2] \in Int /\ fed[p] \in 0 .. 2
  BY DateFacts
<1>3. Day(last') = Day(now) /\ ~turned /\ (last # NoClock => Day(last) <= Day(now))
  <2>1. turned' = (turned \/ (last # NoClock /\ Day(now) < Day(last)))
    BY DEF Poll
  <2>2. ~turned /\ ~(last # NoClock /\ Day(now) < Day(last))
    BY <2>1, Zenon
  <2> QED BY <1>1, <1>2, <2>2
<1>4. \A p \in Keys \X Dates :
        /\ fed[p] <= 1
        /\ p[2] > Day(now) => fed[p] = 0
        /\ p[2] = Day(now) /\ fed[p] # 0 =>
             last # NoClock /\ Day(last) = Day(now) /\ p[1] \in DOMAIN slots /\ rt[p[1]].fired
  BY <1>2, <1>3 DEF Counted
<1>5. SUFFICES
        /\ DOMAIN fed' = Keys \X Dates
        /\ \A p \in Keys \X Dates :
            /\ fed'[p] <= 1
            /\ p[2] > Day(now) => fed'[p] = 0
            /\ p[2] = Day(now) /\ fed'[p] # 0 => p[1] \in DOMAIN slots /\ rt'[p[1]].fired
  BY <1>1, <1>2, <1>3 DEF Counted
<1>6. CASE PollFires
  <2>1. PICK fed1 \in SUBSET (Keys \cap DOMAIN slots) :
          /\ \A k \in fed1 : k = Min(now) /\ ~rt[k].fired /\ FireResult = "ok" /\ rt'[k].fired
          /\ fed' = [p \in DOMAIN fed |-> IF p[1] \in fed1 /\ p[2] = Day(now) /\ fed[p] < 2 THEN fed[p] + 1 ELSE fed[p]]
          /\ \A k \in DOMAIN slots : rt[k].fired => rt'[k].fired
    BY <1>6, PollFacts, Zenon DEF Stored
  <2> SUFFICES ASSUME NEW p \in Keys \X Dates
               PROVE  /\ fed'[p] <= 1
                      /\ p[2] > Day(now) => fed'[p] = 0
                      /\ p[2] = Day(now) /\ fed'[p] # 0 => p[1] \in DOMAIN slots /\ rt'[p[1]].fired
    BY <1>2, <2>1
  <2>2. CASE p[1] \in fed1 /\ p[2] = Day(now)
    <3>1. fed[p] = 0
      BY <1>4, <2>1, <2>2
    <3>2. fed'[p] = 1
      BY <1>2, <2>1, <2>2, <3>1
    <3> QED BY <1>2, <2>1, <2>2, <3>2
  <2>3. CASE ~(p[1] \in fed1 /\ p[2] = Day(now))
    <3>1. fed'[p] = fed[p]
      BY <1>2, <2>1, <2>3
    <3> QED BY <1>4, <2>1, <3>1
  <2> QED BY <2>2, <2>3
<1>7. CASE last # NoClock /\ Day(last) # Day(now) /\ PollNewDay
  <2>1. fed' = fed
    BY <1>7 DEF PollNewDay
  <2> QED BY <1>2, <1>4, <1>7, <2>1
<1>8. CASE last = now /\ PollSameMinute
  <2>1. fed' = fed /\ \A k \in DOMAIN slots : rt'[k].fired = rt[k].fired
    <3>1. \A k \in DOMAIN slots : rt[k] \in Runtime
      BY DEF Stored, SchedTypeOK, Runtime
    <3> QED BY <1>8, <3>1, EntryKept DEF PollSameMinute
  <2> QED BY <1>2, <1>4, <2>1
<1> QED BY <1>6, <1>7, <1>8 DEF Poll

\* No step but a poll feeds, and none takes a fired flag without the slot's
\* counts.
LEMMA CountedKept == ASSUME Instance, Stored, Counted, [SchedNext]_schedVars PROVE Counted'
<1>1. /\ \A k \in DOMAIN slots : rt[k] \in Runtime
      /\ rt \in [DOMAIN slots -> Runtime]
  BY DEF Stored, SchedTypeOK, Runtime
<1>2. ASSUME UNCHANGED <<last, history, slots>>,
             \A k \in DOMAIN slots : rt[k].fired => rt'[k].fired
      PROVE  Counted'
  BY <1>2, CountedStays
<1>3. CASE Poll
  BY <1>3, PollCounted
<1>4. CASE PublishState
  BY <1>1, <1>2, <1>4, EntryKept DEF PublishState, config, clock
<1>5. ASSUME NEW ok, JobDone(ok) PROVE Counted'
  <2>1. \A k \in DOMAIN slots : rt'[k].fired = rt[k].fired
    <3>1. ASSUME NEW k \in DOMAIN slots, NEW st, NEW j \in DOMAIN slots PROVE [rt EXCEPT ![k].state = st][j].fired = rt[j].fired
      BY <1>1 DEF Runtime
    <3>2. CASE rt' = rt
      BY <3>2
    <3>3. CASE active \in DOMAIN slots /\ rt' = [rt EXCEPT ![active].state = IF ok THEN "dispensed" ELSE "failed"]
      <4> DEFINE st == IF ok THEN "dispensed" ELSE "failed"
      <4> HIDE DEF st
      <4>1. rt' = [rt EXCEPT ![active].state = st]
        BY <3>3 DEF st
      <4> QED BY <3>1, <3>3, <4>1
    <3> QED BY <1>5, <3>2, <3>3 DEF JobDone
  <2> QED BY <1>2, <1>5, <2>1 DEF JobDone, config, clock
<1>6. CASE JobDropped \/ ManualJob \/ BowlChanges \/ SetToday \/ \E on \in BOOLEAN, saved \in Saves : SetGlobal(on, saved)
  <2>1. UNCHANGED <<slots, rt, last, history>>
    BY <1>6 DEF JobDropped, ManualJob, BowlChanges, SetToday, SetGlobal, Unsaid, config, clock
  <2> QED BY <1>2, <2>1
<1>7. ASSUME NEW k \in Keys, NEW cfg, NEW saved, SetSlot(k, cfg, saved) PROVE Counted'
  <2>1. /\ UNCHANGED <<last, history>> /\ DOMAIN slots' = DOMAIN slots \cup {k}
        /\ \A j \in DOMAIN slots : rt'[j] = rt[j]
    BY <1>7 DEF SetSlot, Unsaid, clock
  <2> QED BY <2>1, CountedStays
<1>8. ASSUME NEW k \in Keys, NEW saved, DeleteSlot(k, saved) PROVE Counted'
  <2>1. /\ UNCHANGED <<last, turned>> /\ DOMAIN slots' = DOMAIN slots \ {k}
        /\ fed' = [p \in DOMAIN fed |-> IF p[1] = k THEN 0 ELSE fed[p]]
        /\ \A j \in DOMAIN slots \ {k} : rt'[j] = rt[j]
    BY <1>8 DEF DeleteSlot, Unsaid, clock
  <2> QED BY <2>1 DEF Counted, Day
<1>9. ASSUME NEW k \in Keys, NEW saved, ToggleSlot(k, saved) PROVE Counted'
  <2>1. UNCHANGED <<rt, last, history>> /\ DOMAIN slots' = DOMAIN slots
    BY <1>9 DEF ToggleSlot, Unsaid
  <2> QED BY <2>1, CountedStays
<1>10. ASSUME NEW k \in Keys, NEW skip, SkipSlot(k, skip) PROVE Counted'
  <2>1. \A j \in DOMAIN slots : rt'[j].fired = rt[j].fired
    BY <1>1, <1>10 DEF SkipSlot, Runtime
  <2> QED BY <1>2, <1>10, <2>1 DEF SkipSlot, Unsaid, config, clock
<1>11. ASSUME Tick \/ Resync \/ Sync \/ \E to \in 0 .. MaxTime : Jump(to) PROVE Counted'
  BY <1>2, <1>11 DEF Tick, Resync, Sync, Jump, config
<1>12. CASE Reboot
  BY <1>12 DEF Reboot, Counted
<1>13. CASE UNCHANGED schedVars
  BY <1>2, <1>13 DEF schedVars
<1> QED
  BY <1>3, <1>4, <1>5, <1>6, <1>7, <1>8, <1>9, <1>10, <1>11, <1>12, <1>13
  DEF SchedNext, Command, JobEnds

-----------------------------------------------------------------------------
(* Whose job it is *)

\* A new date and a reboot leave no entry being fed and none active.
LEMMA AnewSettles == ASSUME (slots' = slots /\ PollNewDay) \/ Reboot PROVE Settles'
<1>1. CASE slots' = slots /\ PollNewDay
  <2>1. \A k \in DOMAIN slots : rt'[k] = Refresh(Fresh, k, TRUE, Future(k))
    BY <1>1 DEF PollNewDay
  <2>2. \A k \in DOMAIN slots : rt'[k].state # "dispensing"
    BY <2>1, FreshRefreshed
  <2> QED BY <1>1, <2>2 DEF PollNewDay, Settles, DispensingHasJob, ActiveIsJob
<1>2. CASE Reboot
  BY <1>2, FreshEntry DEF Reboot, Settles, DispensingHasJob, ActiveIsJob
<1> QED BY <1>1, <1>2

\* Unless the active slot's job is given up, the entry that shows as being fed
\* is the active one, and its job runs.
LEMMA SettlesKept == ASSUME Instance, Stored, Settles, [SchedNext]_schedVars, ~(JobDropped /\ active # NoSlot) PROVE Settles'
<1> USE DEF Settles, DispensingHasJob, ActiveIsJob
<1>1. /\ rt \in [DOMAIN slots -> Runtime] /\ DOMAIN slots \subseteq Keys
      /\ active \in Keys \cup {NoSlot} /\ job \in Keys \cup {Manual, NoSlot}
  BY DEF Stored, SchedTypeOK, Runtime
<1>2. \A k \in DOMAIN slots : rt[k] \in Runtime /\ k \in Keys
  BY <1>1
<1>3. ASSUME UNCHANGED <<active, job>>,
             \A k \in DOMAIN slots' : rt'[k].state = "dispensing" => k \in DOMAIN slots /\ rt[k].state = "dispensing"
      PROVE  Settles'
  BY <1>3
<1>4. CASE Poll
  <2>1. slots' = slots
    BY <1>4 DEF Poll, config
  <2>2. CASE PollFires
    <3>1. PICK fed1 \in SUBSET (Keys \cap DOMAIN slots) :
            /\ \A k \in fed1 : k = Min(now) /\ FireResult = "ok"
            /\ active' = (IF fed1 = {} THEN active ELSE CHOOSE k \in fed1 : TRUE)
            /\ job' = (IF fed1 = {} THEN job ELSE CHOOSE k \in fed1 : TRUE)
            /\ \A k \in DOMAIN slots \ fed1 : rt'[k].state = "dispensing" => rt[k].state = "dispensing"
      BY <2>2, PollFacts, Zenon DEF Stored
    <3>2. CASE fed1 = {}
      BY <1>3, <2>1, <3>1, <3>2
    <3>3. CASE fed1 # {}
      <4>1. job = NoSlot
        BY <3>1, <3>3 DEF FireResult
      <4>2. \A k \in DOMAIN slots : rt[k].state # "dispensing"
        BY <1>2, <4>1 DEF Instance
      <4>3. fed1 = {Min(now)} /\ (CHOOSE k \in fed1 : TRUE) = Min(now)
        BY <3>1, <3>3
      <4> QED BY <2>1, <3>1, <3>3, <4>2, <4>3
    <3> QED BY <3>2, <3>3
  <2>3. CASE PollNewDay
    BY <2>1, <2>3, AnewSettles
  <2>4. CASE PollSameMinute
    <3>1. \A k \in DOMAIN slots : rt'[k].state = "dispensing" => rt[k].state = "dispensing"
      BY <1>2, <2>4, EntryKept DEF PollSameMinute
    <3> QED BY <1>3, <2>1, <2>4, <3>1 DEF PollSameMinute
  <2> QED BY <1>4, <2>2, <2>3, <2>4 DEF Poll
<1>5. CASE PublishState
  <2>1. slots' = slots /\ UNCHANGED <<active, job>>
        /\ \A k \in DOMAIN slots : rt'[k].state = "dispensing" => rt[k].state = "dispensing"
    BY <1>2, <1>5, EntryKept DEF PublishState, config, supervisor
  <2> QED BY <1>3, <2>1
<1>6. ASSUME NEW ok, JobDone(ok) PROVE Settles'
  <2>1. job' = NoSlot /\ slots' = slots /\ job # NoSlot
    BY <1>6 DEF JobDone, config
  <2>2. CASE job # Manual /\ active # NoSlot
    <3>1. active' = NoSlot
      BY <1>6, <2>2 DEF JobDone
    <3>2. ASSUME NEW k \in DOMAIN slots PROVE rt'[k].state # "dispensing"
      <4>1. CASE k = active
        <5>1. rt' = [rt EXCEPT ![active].state = IF ok THEN "dispensed" ELSE "failed"]
          BY <1>6, <2>2, <4>1, <3>2 DEF JobDone
        <5>2. rt'[active].state \in {"dispensed", "failed"}
          BY <1>1, <1>2, <3>2, <4>1, <5>1 DEF Runtime
        <5> QED BY <4>1, <5>2
      <4>2. CASE k # active
        <5>1. rt[k].state # "dispensing"
          BY <3>2, <4>2
        <5>2. rt'[k] = rt[k]
          BY <1>1, <1>6, <2>2, <3>2, <4>2 DEF JobDone
        <5> QED BY <5>1, <5>2
      <4> QED BY <4>1, <4>2
    <3> QED BY <2>1, <3>1, <3>2
  <2>3. CASE ~(job # Manual /\ active # NoSlot)
    <3>1. UNCHANGED <<active, rt>>
      BY <1>6, <2>3 DEF JobDone
    <3>2. active = NoSlot
      BY <1>1, <2>3 DEF Instance
    <3>3. \A k \in DOMAIN slots : rt[k].state # "dispensing"
      BY <1>2, <3>2 DEF Instance
    <3> QED BY <2>1, <3>1, <3>2, <3>3
  <2> QED BY <2>2, <2>3
<1>7. CASE JobDropped
  <2>1. active = NoSlot /\ \A k \in DOMAIN slots : rt[k].state # "dispensing"
    BY <1>2, <1>7 DEF Instance
  <2> QED BY <1>7, <2>1 DEF JobDropped, config
<1>8. CASE ManualJob
  <2>1. active = NoSlot /\ \A k \in DOMAIN slots : rt[k].state # "dispensing"
    BY <1>2, <1>8 DEF ManualJob, Instance
  <2> QED BY <1>8, <2>1 DEF ManualJob, config
<1>9. CASE BowlChanges \/ SetToday \/ \E on \in BOOLEAN, saved \in Saves : SetGlobal(on, saved)
  BY <1>3, <1>9 DEF BowlChanges, SetToday, SetGlobal, Unsaid, config, supervisor
<1>10. ASSUME NEW k \in Keys, NEW cfg, NEW saved, SetSlot(k, cfg, saved) PROVE Settles'
  <2>1. /\ UNCHANGED <<active, job>> /\ DOMAIN slots' = DOMAIN slots \cup {k}
        /\ \A j \in DOMAIN slots' : rt'[j] = IF j \in DOMAIN slots THEN rt[j] ELSE Fresh
    BY <1>10 DEF SetSlot, Unsaid, supervisor
  <2> QED BY <1>3, <2>1, FreshEntry
<1>11. ASSUME NEW k \in Keys, NEW saved, DeleteSlot(k, saved) PROVE Settles'
  <2>1. UNCHANGED <<active, job>> /\ DOMAIN slots' = DOMAIN slots \ {k} /\ \A j \in DOMAIN slots' : rt'[j] = rt[j]
    BY <1>11 DEF DeleteSlot, Unsaid, supervisor
  <2> QED BY <1>3, <2>1
<1>12. ASSUME NEW k \in Keys, NEW saved, ToggleSlot(k, saved) PROVE Settles'
  <2>1. UNCHANGED <<active, job, rt>> /\ DOMAIN slots' = DOMAIN slots
    BY <1>12 DEF ToggleSlot, Unsaid, supervisor
  <2> QED BY <1>3, <2>1
<1>13. ASSUME NEW k \in Keys, NEW skip, SkipSlot(k, skip) PROVE Settles'
  <2>1. UNCHANGED <<active, job, slots>> /\ \A j \in DOMAIN slots : rt'[j].state = rt[j].state
    BY <1>1, <1>2, <1>13 DEF SkipSlot, Unsaid, supervisor, config, Runtime
  <2> QED BY <1>3, <2>1
<1>14. ASSUME Tick \/ Resync \/ Sync \/ \E to \in 0 .. MaxTime : Jump(to) PROVE Settles'
  BY <1>3, <1>14 DEF Tick, Resync, Sync, Jump, config, supervisor
<1>15. CASE Reboot
  BY <1>15, AnewSettles
<1>16. CASE UNCHANGED schedVars
  BY <1>3, <1>16 DEF schedVars, supervisor
<1> QED
  BY <1>4, <1>5, <1>6, <1>7, <1>8, <1>9, <1>10, <1>11, <1>12, <1>13, <1>14, <1>15, <1>16
  DEF SchedNext, Command, JobEnds

\* A loss is forgotten only where nothing is left to settle.
LEMMA JobSettlesKept ==
    ASSUME Instance, Stored, JobSettlesItsSlot, [SchedNext]_schedVars
    PROVE  JobSettlesItsSlot'
<1>1. CASE JobDropped /\ active # NoSlot
  BY <1>1 DEF JobDropped, JobSettlesItsSlot
<1>2. CASE ~lost /\ ~(JobDropped /\ active # NoSlot)
  BY <1>2, SettlesKept DEF JobSettlesItsSlot, Settles
<1>3. CASE lost
  <2>1. CASE Poll
    <3>1. slots' = slots
      BY <2>1 DEF Poll, config
    <3>2. CASE PollNewDay
      BY <3>1, <3>2, AnewSettles DEF JobSettlesItsSlot, Settles
    <3>3. CASE PollFires \/ PollSameMinute
      <4>1. UNCHANGED lost
        BY <3>3 DEF PollFires, PollSameMinute
      <4> QED BY <1>3, <4>1 DEF JobSettlesItsSlot
    <3> QED BY <2>1, <3>2, <3>3 DEF Poll
  <2>2. CASE Reboot
    BY <2>2, AnewSettles DEF JobSettlesItsSlot, Settles
  <2>3. CASE ~Poll /\ ~Reboot
    <3>1. lost'
      BY <1>3, <2>3
      DEF SchedNext, Command, JobEnds, PublishState, JobDone, JobDropped, ManualJob, BowlChanges, SetSlot, DeleteSlot,
          ToggleSlot, SkipSlot, SetGlobal, SetToday, Tick, Jump, Resync, Sync, Unsaid, schedVars, supervisor
    <3> QED BY <3>1 DEF JobSettlesItsSlot
  <2> QED BY <2>1, <2>2, <2>3
<1> QED BY <1>1, <1>2, <1>3

-----------------------------------------------------------------------------
(* A due slot is fed *)

\* The poll that sees a new minute of a date that it knows feeds the slot that is
\* due in it.
LEMMA DueFed == ASSUME Instance, Stored, [SchedNext]_schedVars, SeesMinute, SameDate PROVE FeedsDue
<1>1. now \in 0 .. MaxTime /\ last' # last /\ last' # NoClock
  BY DEF Stored, SchedTypeOK, SeesMinute, Instance
<1>2. Poll
  BY <1>1 DEF SchedNext, Command, JobEnds, PublishState, JobDone, JobDropped, ManualJob, BowlChanges, SetSlot, DeleteSlot,
              ToggleSlot, SkipSlot, SetGlobal, SetToday, Unsaid, Tick, Jump, Resync, Sync, Reboot, schedVars
<1>3. PollFires
  BY <1>2 DEF Poll, SeesMinute, SameDate
<1> SUFFICES ASSUME NEW k \in DOMAIN slots, Due(k), today, FireResult = "ok" PROVE job' = k
  BY DEF FeedsDue
<1>4. PICK fed1 \in SUBSET (Keys \cap DOMAIN slots) :
        /\ \A j \in fed1 : j = Min(now)
        /\ job' = (IF fed1 = {} THEN job ELSE CHOOSE j \in fed1 : TRUE)
        /\ k \in fed1
  BY <1>3, PollFacts, Zenon DEF Stored
<1>5. fed1 = {k}
  BY <1>4
<1> QED BY <1>4, <1>5

-----------------------------------------------------------------------------
(* The theorems *)

\* The first configuration is stored, with nothing counted, fed or seen.
LEMMA InitHolds == ASSUME Instance, SchedInit PROVE Stored /\ Counted /\ Settles
<1>1. slots \in SlotMaps /\ 0 \in 0 .. MaxTime
  BY ScheduleAssumption DEF SchedInit, Instance
<1>2. rt \in [DOMAIN slots -> Runtime] /\ \A k \in DOMAIN slots : rt[k] = Fresh
  BY FreshEntry DEF SchedInit
<1>3. SchedTypeOK
  <2>1. fed \in [Keys \X Dates -> 0 .. 2]
    BY DEF SchedInit
  <2>2. DOMAIN slots \subseteq Keys /\ \A k \in DOMAIN slots : slots[k] \in Config
    BY <1>1, SlotMapFacts
  <2>3. rt \in [DOMAIN slots -> [state : States, skip : BOOLEAN, fired : BOOLEAN]]
    BY <1>2 DEF Runtime
  <2>4. /\ global \in BOOLEAN /\ today \in BOOLEAN /\ synced \in BOOLEAN /\ full \in BOOLEAN /\ lost \in BOOLEAN /\ turned \in BOOLEAN
        /\ active = NoSlot /\ last = NoClock /\ now \in 0 .. MaxTime /\ dirty = {} /\ job = NoSlot
    BY <1>1 DEF SchedInit
  <2> QED BY <2>1, <2>2, <2>3, <2>4 DEF SchedTypeOK
<1>4. FlashTyped /\ FlashFollowsRam
  BY <1>1 DEF SchedInit, FlashTyped, FlashFollowsRam
<1>5. Counted
  BY DEF SchedInit, Counted
<1>6. Settles
  BY <1>2, FreshEntry DEF SchedInit, Settles, DispensingHasJob, ActiveIsJob
<1> QED BY <1>1, <1>3, <1>4, <1>5, <1>6 DEF SchedInit, Stored

\* What a reboot restores is what the commands set, but for writes that failed,
\* for every order of commands, failures and reboots (schedule_cmd.c,
\* schedule_save_slots_blob).
THEOREM ConfigIsKept == ASSUME Instance PROVE SchedSpec => []ConfigKept
<1>1. Stored => ConfigKept
  BY DEF Stored, ConfigKept
<1>2. SchedInit => Stored
  BY InitHolds
<1>3. Stored /\ [SchedNext]_schedVars => Stored'
  BY StoredKept
<1> QED BY <1>1, <1>2, <1>3, PTL DEF SchedSpec

\* A slot feeds at most once on a date until a poll finds the clock on an earlier
\* date, for any number of slots, commands, resynchronisations and changes of the
\* clock (schedule_poll, schedule_try_fire_current).
THEOREM SlotsFeedOnce == ASSUME Instance PROVE SchedSpec => []FedOnce
<1>1. Stored /\ Counted => FedOnce
  BY DEF Counted, FedOnce
<1>2. SchedInit => Stored /\ Counted
  BY InitHolds
<1>3. Stored /\ Counted /\ [SchedNext]_schedVars => (Stored /\ Counted)'
  BY StoredKept, CountedKept
<1> QED BY <1>1, <1>2, <1>3, PTL DEF SchedSpec

\* Until the supervisor gives the active slot's job up unsaid, and again from the
\* next date on, the end of a job settles the slot it was started for
\* (schedule_on_dispense_complete, dispense_start_from_request).
THEOREM JobsSettleTheirSlot == ASSUME Instance PROVE SchedSpec => []JobSettlesItsSlot
<1>1. SchedInit => Stored /\ JobSettlesItsSlot
  BY InitHolds DEF JobSettlesItsSlot, Settles
<1>2. Stored /\ JobSettlesItsSlot /\ [SchedNext]_schedVars => (Stored /\ JobSettlesItsSlot)'
  BY StoredKept, JobSettlesKept
<1> QED BY <1>1, <1>2, PTL DEF SchedSpec

\* The poll that sees a new minute feeds the slot that is due in it, unless the
\* supervisor is busy, the bowl full or the date another than at the poll before
\* (schedule_poll, schedule_try_fire_current): for any slots, and any clock,
\* steady or not, polled in every minute or not.
THEOREM DueSlotsAreFed == ASSUME Instance PROVE SchedSpec => DueIsFed
<1>1. SchedInit => Stored
  BY InitHolds
<1>2. Stored /\ [SchedNext]_schedVars => Stored'
  BY StoredKept
<1>3. Stored /\ [SchedNext]_schedVars => (SeesMinute /\ SameDate => FeedsDue)
  BY DueFed
<1> QED BY <1>1, <1>2, <1>3, PTL DEF SchedSpec, DueIsFed
===========================================================================
