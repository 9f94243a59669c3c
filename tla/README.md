# TLA+ models of the IV2001 feeder firmware

These modules model the firmware in `src/firmware/` of a pet feeder: an auger
motor driven over I2C, a bowl scale, a hopper sensor, a schedule, MQTT and Wi-Fi,
a web server, command lines, and over-the-air updates into two flash banks.
They are written from the C source, read with the documents in `src/spec/` and
the tests. TLC checks them on small instances; TLAPS proves safety properties of the
motor task, the dispense supervisor, the application banks, the event queue, the
schedule, the provisioning store, the MQTT session, the panel, the hopper, the
battery, the bus, the clock and the scale for all values of their constants.

## 1. Inventory of the system

The firmware runs FreeRTOS tasks: the app task (events, schedule, dispense,
sensors, display), the `motor_ctrl` task, the MQTT task, the UART command line,
the remote command line, the web server, the SDK's Wi-Fi task, and interrupts.

| Component | State it keeps | Operations | Talks to | Hard behaviours | What makes it correct |
|---|---|---|---|---|---|
| Motor controller (`motor_ctrl.c`, `motor_driver.c`, `adc_jam_isr_adapter.c`) | command queue, session mutex, phase, pulse and jam counters, pins | request burst / park / bench run / stop; task loop; anti-jam; teardown | senders in any task (queue), app queue (events), ADC, index sensor, GPIO expander | check-then-enqueue by several senders; I2C writes that fail half way; jams that come back; notification bit that outlives a session | one session at a time, mutex back on every path, motor off and unwatched at rest, direction right and switched unpowered, pulses exact, one event per command, every session ends |
| Dispense supervisor (`dispense.c`, `dispense_cli.c`, `motor_cli.c`, `feed_bowl.c`, `hopper_level.c`) | pending mark, phase, job, baseline, batch, settle timer, empty latch | submit, start, burst done, fault, poll, publish | app queue, motor port, scale, schedule, command line, MQTT | unlocked submission from several tasks; check far from use; events that name no command | a job ends; one burst per wait; a mark has a request; a slot that shows dispensing has a job |
| Schedule (`schedule.c`, `schedule_cmd.c`) | slots, runtime per slot, global and today switches, active slot, last polled minute, flash copy | poll, set / delete / toggle / skip, enable, reload | local clock, dispense, NVDM, MQTT | clock jumps, midnight, reboots, failed saves, jobs that end late | due is fed, and once; the end of a job is credited to its slot; flash follows RAM |
| App event queue and app task (`app_event_port.c`, `app_task.c`, `app.c`) | queue of 32, coalescing counters | post, receive, batch dispatch | every producer, interrupts | counter checked before the send and raised after it, released after dispatch; full queue; batch of 16 | no input lost for good, ticks do not starve commands |
| MQTT client (`mqtt_client.c`, `mqtt_outbox.c`, `mqtt_backoff.c`, `mqtt_adapter.c`) | connection state, backoff, outbox, credentials | connect, subscribe, publish, drain, reconnect | broker, Wi-Fi, app queue | callbacks in another task, reconnects during a drain, full outbox | no publish before the connection is up; what is queued is published or counted as lost |
| MQTT publishers (`mqtt_*.c`) | last published value each | publish on change, discovery after connect | MQTT client | stale caches over a reconnect | the broker's retained state follows the device |
| Wi-Fi station (`wifi_sta.c`, `wifi_session.c`, `wifi_adapter.c`) | state, retries, credentials | connect, poll, disconnect, scan | SDK callbacks, provisioning, MQTT | late callbacks of an earlier attempt, timeouts | one attempt at a time; a lost link is retried |
| Update and boot (`ota_client.c`, `ota_preflight.c`, `ota_adapter.c`, `ota_slot_health.c`, `boot_bank*.c`, `bl_*.c`, `flash_bank_*`) | boot control record, trial counter, download state | preflight, download, verify, commit, boot, confirm, roll back | HTTP, flash, boot loader | power loss between any two flash writes; images that do not come up | some bank always boots; an update is confirmed or rolled back |
| Buttons (`button_input.c`, `button_gesture.c`) | debouncers, press timers, child lock | sample, gesture, lock | expander, app | interrupts lost while coalesced, simultaneous presses | one gesture per press |
| Power, hopper, battery (`power_source_input.c`, `hopper_input.c`, `battery_monitor.c`, `battery_pct.c`) | debouncers, sampling schedule | sample, classify, publish | ADC, IR sensor, app | stale samples, thresholds | a stable change is reported once |
| Weighing (`weight_*.c`, `weigh_cal.c`, `cs1270.c`, `auto_tare.c`, `bowl_error.c`) | calibration, tare, error state | read, calibrate, tare | scale ADC, bus loan, dispense | partial calibration, noise, tare during a feed | tare and calibration are used together or not at all |
| Bus arbitration (`gpio_expander_loan.c`, `wfci_bus_*`, `wfcm_bus_loan.c`, `adc_bus_adapter.c`) | owner, nesting | take, give, restore | all bus users | loans from several tasks, errors while loaned | one owner; pins restored |
| Provisioning (`provision*.c`) | portal state, pending credentials | scan, form, try, commit, reset | Wi-Fi, web server, NVDM | trial of credentials against reboot | only credentials that worked are kept |
| Display (`display_*.c`, `tm1637.c`) | scene, indicators | present, tick | app, driver | scenes that pre-empt each other | every override ends |
| Configuration stores (`feed_config.c`, `time_config.c`, `nvdm_*`) | cached values | get, set | NVDM | failed writes | cache follows flash |
| Time (`time_sync.c`, `time_local.c`, `tz_rule.c`, `epoch_calendar.c`) | offset, zone rule | sync, convert | network, schedule | daylight-saving edges, calendar edges | conversions agree with the calendar |
| Consoles (`remote_cli.c`, `console_*.c`, `app_*cli.c`) | line buffers, active console | read a line, dispatch | all components | two consoles at once | output goes to who asked |
| Web (`web_ui.c`, `web_api.c`, `http_server_adapter.c`) | none of its own | render, accept forms | all components | runs in a task of its own | commands as those of the components |
| Drivers and logging | registers | read, write | buses | none at this grain | modelled where used |

The hazards of this code, each at its line with the property that covers it or
the reason why none does, are listed under `hazards` in `PROJECT.json`.

## 2. Plan

In the order of what matters most to an animal that waits for food:

1. `MotorCtrl` with the abstract `MotorPort`, `MotorCtrlProofs` and
   `MotorPortProofs` (done).
2. `Dispense`, over the instance of `MotorPort`, with `DispenseProofs` (done).
3. `Schedule` with `ScheduleProofs` (done), and the supervisor as it sees it.
4. `BootBanks` with `BootBanksProofs` (done): the control block, its writers,
   the boot loader, the update.
5. `AppQueue` (done; proofs in `ToldProofs`): the coalescing event queue of the app
   task and its batches.
6. `MqttSession` (done; proofs in `LinkProofs`) and `MqttPublish` (done): Wi-Fi station,
   session with backoff and the suspensions of an update; publishers, outbox and what the broker retains.
7. `Provision` (done; proofs in `LinkProofs`): the portal, the trial of credentials and its commit.
8. `Hopper` (proofs in `ToldProofs`), `Battery`, `Weighing`, `Bus` (proofs in
   `ServicesProofs`) (done): the sensors and the pins and the converter they share.
9. `Buttons` (proofs in `ServicesProofs`) and `Display` (proofs in `LinkProofs`)
   (done): gestures, child lock, and the panel's scenes.
10. `Calendar` and `Clock` (done; proofs in `ServicesProofs`): dates and
    zone rules against a walk through the days; synchronisation and the cached rule.
11. More proofs and compositions, below.

Composition: `Dispense` is built on `MotorPort`, and `MotorCtrl` is shown to
implement `MotorPort`, so that what holds of jobs over the port holds over the
task. `Schedule` uses of `Dispense` only that a job ends (`JobEnds`) and is
reported to the schedule (`SettlesSlot`) or dropped. The other modules meet at
interfaces of one bit or one event: `AppQueue` carries the ticks that the panel,
the hopper, the battery and the schedule are polled on; `MqttSession` provides
the session over which `MqttPublish` and `Hopper` tell; `Provision` stores the
network that `MqttSession` joins. Each is checked against a free environment at
that interface, which is weaker than the neighbour.

Left for later: a composition of the schedule with the supervisor, with the
schedule's abstract supervisor as what `Dispense` implements; the lost update of
the outbox count as a run of its own; the array shifts of the schedule under an
unlocked reader. Theorems worth proving next: that the app queue never fills
while no bench command crosses a job, which would free the theorems about
`Dispense` of their assumption.

## 3. The modules

### MotorCtrl
The motor task at the grain of its blocking calls. `pc` says where the task is:
in the queue receive (`recv`), at the poll (`poll`), at the two samples of the
index detector (`index`, `beam`), in the notification wait (`wait`) or in the
settle delay between PH and EN (`start_run`, `start_bench`, `start_antijam`).
Other tasks run between two of these steps and only there, since the task has
the highest application priority. Senders are two-step (`CheckIdle`, `Enqueue`),
as `motor_ctrl_request_*` looks at `s_phase` and enqueues later. What the ADC,
the detector and the I2C bus answer is chosen freely in every step.

Time is counted in loop slices. Counters that are only compared with a limit
stop at the limit, so that `elapsed` needs no further bound. The index interrupt
only wakes the task early; it is the freedom to sample or not. `enLost` says that
the last write that should have lowered EN failed: the driver has cleared its
running flag by then and stops no second time, so the motor stays powered.
`SafeAtRest` allows a powered motor at rest in that case and in no other.

### MotorPort
What `motor_port.h` promises its callers, without anti-jam, pins or time:
commands are queued, taken one at a time, and answered once by their own
completion or a fault. `MCMotorCtrl` maps it: `session` is the active command
while the mutex is held, and `busy` is the phase not being idle.

### Dispense
Submission in three steps per task (`SubmitCheck`, `SubmitPost`, `SubmitMark`)
because `dispense_submit_*` tests, posts and marks with no lock; the start of a
job in the app task in three (`RequestAccepted`, `JobBegins`, `JobKicked` or
`JobRefused`). The mark is cleared some statements before the phase is set
(`dispense.c:500-501`, `:543-553`), and a task that preempts the app task between
the two sees neither: that gap is short in the code and as long as any other in
the model. Phase and baseline are one step, since nobody else reads the baseline;
it may take the 50 ms of a reading of the scale, in which other tasks run before
the kick. The rest of the app task's handlers are one step each. The
scale reads anything within `MaxWeight` or fails. The bench command line sends
commands of its own and waits for the end afterwards.

`MCDispense` adds two history variables that remember whether submissions cut
each other (`divided`) and whether a bench command overlapped with a job
(`crossed`), so that one run can say which properties survive which overlap.

### Schedule
Slots by minute of the day, the runtime of each, the clock as a count of local
minutes with jumps, the poll as `schedule_poll` does it (new date, new minute,
same minute), every command with a save that may fail, and reboots that load
what was saved. The clock that the poll looks at is valid (`synced`) or not: a
resynchronisation (`Resync`: every six hours, when Wi-Fi is ready, or on the
console) makes it invalid until an answer comes (`Sync`), and any number of
minutes may pass in between that nobody polls. While it is valid each minute is
polled, as the app task polls many times a minute; minutes are also left out and
repeated when the clock is set. `turned` remembers that a poll found an earlier
date than the poll before. The supervisor is one job at a time that ends well or badly, is
somebody else's, or is dropped silently as `dispense_start_from_request` may.
Commands are atomic here: that the web server edits the array of slots while the
app task polls it is below the grain of the model.

### BootBanks
A bank holds an image that stays up, one that starts and is reset within its
minute (a partial one is of that kind), or nothing that boots. A write of the
control block is `BeginWrite` (read and change a copy), `EraseBlock` and
`WriteBlock`, for the boot loader, the app task, the update worker and the
console each; between the last two the block reads as blank, which means bank A,
confirmed. `EndWrite` says what the writer does next. Power may fail at any
step, and an image on trial crashes whenever it likes.

`hurt` records the four things that the code does not survive: `torn` (the block
was lost between erase and write), `failed` (the boot loader could not store its
choice), `overlap` (the confirmation met an update or a switch) and `trial` (an
update was started in an image that was not confirmed). The properties of the
banks are stated for histories without them, so each says exactly what the code
does promise; the run `boot_running` shows what an overlap does. `proven` is the
set of banks whose image once stayed up.

### AppQueue
`app_event_post` and `app_event_post_from_isr` are one step for ticks, since the
timer task and the interrupt are not preempted by the app task; the events of
other producers are numbered. A batch is `Receive`, `Collect` while there is
something and room, one `Dispatch` and `Release` per event, and `DispatchLate`
for the display tick that was deferred. A wait that times out dispatches a tick
of its own and changes nothing here.

### MqttSession
Each blocking call of a task is a step: `StaTask` (connect task of the station),
`IoTask` (mqtt_io at its decisions in `mqtt_client_step`), `WorkerTask` (a connect
worker through handshake, subscription, greeting and report), the console's and
the update's orders, and the network that loses and restores link, broker or TCP
connection. `cl` holds the client's flags, `ad` the adapter's two, which disagree
with the network until a yield notices. `stray` remembers that an order cleared
the worker flags under a running worker.

### MqttPublish
The app task publishes by topic: plain ones on change, the weight behind a
threshold and a window that coalesces, the state behind a pending mark that the
drain clears, and the schedule in a buffer of its own. `todo` is what the current
handler has yet to enqueue, since mqtt_io may send between two of them.
`lp` is what each publisher noted as last published. `dropped`, `raced` and
`restaged` remember the three ways in which a value is lost.

### Provision
`start` is the portal task, `form` the submission that is tried (station, broker,
three writes, answer), `timer` the one-shot restoration. Every radio, server and
flash call may fail, and power may fail between any two steps. The scan list is a
recursive function of the entries in the order in which they were seen
(`MergeAll`), which is `Overrun` from the entry on that is written past the end, compared with a definition that knows no order (`Strongest`).

### Display
The scene (`sc`) with steady, blinking and patterned icons, digits and the bar of
an update; `shown` is the last frame that reached the panel. Indicators are the
operations that `app.c` calls; `PanelTick` is the display tick with ageing,
restoring, sampling and drawing, which the bus may refuse.

### Hopper and Battery
`Hopper` is one display tick after another: mains sense, barrier with its two
streaks, level with the empty latch, and the telling; jobs, updates and failed
reads come between. `seen` is a history of the readings themselves. `Battery` has
the converter's steps behind the mutex for three tasks, the interval and the
forced samples, and the discharge curve as `Percent`.

### Weighing and Bus
`Weighing` adds a drift to what lies on the scale and asks what the code takes
back out: the drift, and with it a change of the load that two readings in a row
agree on. `past` remembers the loads of the last reading (`seen`), of the anchor
(`at`) and of the last correction (`from`): `ChangesTold` says that what is told
departs from the anchored weight as the load does from that of the last
correction, up to the drift since, and `EatenStaysTold` asks for the anchor's load
in its place, which the code does not keep. Its operations are the readings of the app
task and of a feeding, the boot of the rail in its phases, the two calibrations
with their flash writes, and the bench commands. `Bus` has the outer loan, the
session of the expander and the transfer in separate steps for each task. The end
is in steps too, since it holds no lock: no longer held (`EndsSession`), the loan
returned (`Ended`), the semaphore given (`GiveSem`) and its mark cleared
(`Unmark`), no longer owned (`Disown`). `lost` remembers that one of the last two
cleared a mark of another task's loan.

### Buttons
`AppTick` and `AppIrq` are the two polls: sample, debounce, gestures, and what the
app makes of them, in one step since the app task does them in one handler.
Fingers move between polls; the down buttons are sets of buttons in both layers.
`press` is a history of each press, against which `OneVoice` judges what was
said, and `calm` one of each finger, by which `PressSeen` says when a press must
have been noticed: counted in ticks that read the expander, from its last
movement and, for a button with an interrupt, from the last interrupt.

### Calendar and Clock
`Calendar` has no state of the program: its variables walk through the days as a
reader of a wall calendar would, and its operators are the conversions.
`MCCalendar` gives the walks, whose starts `WalksAreReal` checks by Julian leap years
(those of 1970 to 2099 are the same) and whose rules, if they turn, do so in two
different months and not in the week of New Year. `TurnYear` is the year whose
turns count, which is the one in UTC. The walk counts its weekdays as a calendar
does; `TurnsOnEves` judges a rule's turns by them. `Clock` is the synchronisation's state machine
polled by the timer tick, the SNTP client, and the editors of the stored rule.
## 4. The runs

| Run | Instance | Shows |
|---|---|---|
| `feeding` | motor task: two senders, burst of 2, park, reverse, stop; every I2C write may fail; one retry. Schedule, as three instances: two slots, two days of four minutes (the second to its third minute) with commands and a clock set by -1 and +2 within a date; the same days with the clock set over midnight, jobs of others and a full bowl; three minutes with writes that fail, reboots, dropped jobs. All with resynchronisations | types, the mutex follows the session, the motor at rest is unwatched, and off unless the stop could not write it, direction matches phase; once per date, the end of a job settles its slot, flash follows RAM up to failed writes, due is fed |
| `job` | supervisor: app and command line submit, bench runs besides; weights 0..1, two batches. Motor task: one sender, two retries, cutoff of 4 slices, no failing writes | every job that starts ends, always; one burst per wait, a request per mark, a job per slot, each unless the overlap it names happened; the task implements `MotorPort` with its liveness; every session ends; PH is never switched with EN high; `BURST_DONE` means the pulses asked for were counted |
| `motor_cap` (violation) | one burst, two retries | a session outlasts the 20 s cutoff: each retry restarts it |
| `disp_wedge` (violation) | the supervisor of `job` without bench | a mark set after its request was dropped stays for ever |
| `sched_midnight` (violation) | one slot at 00:00 | it is never fed |
| `boot_banks` | images of two chunks, three strikes, three attempts, one power failure, control writes that fail | the last known good image is kept, nothing unconfirmed is taken for confirmed, the device comes back to an image that works, suspended tasks come back |
| `boot_running` (violation) | the same, nothing fails | an update writes the running bank when the confirmation has just erased the control block |
| `link` | two workers, one loss, two orders; three networks, lists of two from scans of three, three forms, two faults; six icons, two blinking at once | a client that is off has no session, mqtt_io keeps off a handshake, an armed client is served again; what is stored is one submission, the list is the best of the scan, the portal returns; the panel shows the scene, blinking icons alternate |
| `told` | three topics and the schedule, an outbox of three, one change and one cut; barrier and mains with three changes; a queue of four, batches of three, five other events | the broker ends up with what the device has; level and mains are what was read, debounced; marks stand for ticks, order is kept, timer ticks are served |
| `services` | two buttons and a clock that wraps; two masses, drift, one bowl; two tasks on two pins; 1970-2005, 2095-2099, three real rules and every incomplete text; two zones and two editors; three tasks at one converter | each press once, the weight trusted, the bus intact, dates and turns true, the clock kept, the battery told |
| `loan_returned` (violation) | two tasks on two pins, nothing borrowed | a loan whose mark was cleared by the end of the one before is never given back |
| `eaten_stays_told` (violation) | the scale of `services` | food that was eaten is told as gone by one reading and as still there by the next |

Why the bounds are enough. Retries, batches and the failure streak are compared
with a limit of 1 to 3 in the code and are run at or just below it; a queue of
one or two commands already has a command behind a running one; two senders or
submitters are all that a race between a check and a use needs. Two slots make
the credit of a job ambiguous, two days make every reset happen with work in
hand. The app queue of `job` has 7 places, more than its actors can fill:
with 5 they fill it, a completion is lost, and a job that waits for it never
ends, because it has no timeout of its own. The product has 32 places and
more producers; that hazard is real and is listed.

The combined runs (`feeding`, `job`, `link`, `told`, `services`) put several modules
into one: `focus` names the part whose variables move, the others rest in an
initial state, so the state space is the sum of the parts and not their product,
and a liveness property of a part is about its own behaviours only. The parts do
not constrain each other; nothing is composed by it.

The session has two workers, since an order can leave one running while the next
one starts, and no third; one loss of each kind and two orders make every pair
meet. The portal has three networks and lists of two, so that a third entry must
displace one, repeat one or overrun the list. The outbox of three places is filled by the snapshots of
one connect, as the real one of 24 by its. Debounce and retry limits are the
least at which the counter passes through the middle (the barrier's 6 and 3
readings are run as 3 and 2). The clock of the buttons
wraps within a behaviour. Constraint `NotRaced` (`told`) and `NotBorrowed`
(`services`, `loan_returned`) end a behaviour after a race that the code does lose, which the
properties except: what follows is not claimed.

Deadlock checking is on for the motor task (`feeding`, in which the schedule may
rest, since its clock stops at `MaxTime`) and for the banks. It is off in `job`,
where the wedge of `disp_wedge` is a state from which the supervisor really does not
go on, and in the other combined runs, whose environments stop at their bounds.

Fairness. The motor task has the highest application priority and never blocks
without a timeout while a session is open: weak fairness of its loop. In
`Dispense`, every task gets to run (weak fairness per task), the motor serves
(which `job` shows of the task), and the timer ticks that poll the
supervisor keep coming. No fairness is assumed of commands, of the weather on
the scale, or of anything that might not happen. `Schedule` has safety
properties only and assumes none. In `BootBanks` the boot loader, a write that
was begun, an update under way and a reboot that was decided go on (weak
fairness): each is straight-line code or a task that is ready. An image on trial
that does not stay up is reset in the end, by its own fault or by the watchdog.
No fairness is assumed of the confirmation, of the console or of the server.

In `MqttSession` the tasks are ready whenever they have work, a backoff elapses,
and a network that was lost returns (weak fairness): without the last nothing
could be promised. Orders, losses and the resumption after an update are not
fair; `SessionReturns` is for behaviours in which they stopped. In `MqttPublish`
the actions of mqtt_io and the greeting are strongly fair, since a session that
comes and goes disables them again and again, and so does a full ring; the run
shows convergence for a session that lasts in the end. In `Provision` the task,
the timer, the restart and each step of a trial go on; faults, forms and power
cuts are bounded and not fair, and the portal must return after them. In
`Display` and `Hopper` the display tick keeps coming (it has a timer, and a
timeout of 50 ms behind it), and an update ends, since the update task's watch
on its download ends it (`ServicesReturn` of `BootBanks`). In `AppQueue` the app
task runs, and the housekeeping timer keeps expiring.

## 5. Proofs

`MotorCtrlProofs` proves, for every set of senders and commands, every queue
depth and every limit, with and without failing writes:

- `TypesAreKept`, `MutexFollowsSession`, `MotorSafeAtRest`, `DirectionIsRight`:
  the motor task's invariants of `feeding` as theorems of `Spec`. The third says that a
  motor at rest is off unless the last write to EN failed, with and without
  failing writes.

They follow from one inductive invariant, `IInv`. `MutexIffSession` alone is not
inductive, since whether a step opens or closes a session depends on where the
loop is: `LoopInv` ties the phase to the active command and the samples to runs.
`DirectionMatchesPhase` is about a motor that runs, while PH was written before
the settle delay: `StartInv` carries it over the delay. `SafeAtRest` is about
EN, which is low at the end only because it followed the running flag
(`EnFollowsRunning`), but for a failed write that `enLost` remembers. There is one lemma per action; those
about teardown and starts are shared. The only assumptions are `MotorAssumption`.

`MotorPortProofs` uses `IInv` for what single steps do:

- `TaskKeepsPromise`: `Spec => Port!Init /\ [][Port!Next]_(Port!vars)`, the safety
  of the refinement that the run `job` checks with its liveness: every
  step is one of the abstract port's or a stutter. Each lemma says which: a
  taken command is `Open` or `Answer`, the first start is `Turn`, every end with an
  event is `Close`, a command for the end is `Stop`. That the end is answered by
  an event of the session's own command needs `LoopInv` again.
- `PinSwitchesUnpowered`: `PhSwitchesUnpowered`, when no write fails (with a
  failed EN write the pin may be switched under power).
- `BurstsAreCounted`: `BurstDoneCounted`. It needs one invariant more,
  `UnderTarget`: no step leaves a burst with its target reached, and a start is
  made with no pulses counted.

`DispenseProofs` proves, for any tasks, requests, bench commands, queue depths,
weights and limits (`DispenseAssumption`, `CommandsApart`):

- `MarkHasRequest`: `PendingHasRequest`, the types of `Dispense` among it.
- `BurstPerWait` and `SlotKeepsJob`: `OneBurstPerWait` and `SlotHasJob`, under
  `[]Room`: no completion event is lost to a full app queue. (A lost one leaves a
  job that waits for it. The run `job` does not assume it: in its instance
  the queue fills only after a bench command has crossed a job.)

`OneBurstPerWait` counts bursts and is not inductive: `MotorStands` says where the
motor stands in every phase of a job. While the job waits there is one burst,
queued, turning or answered, and requests besides; in the other phases the motor
is quiet; between jobs it has no burst, but may be at a bench command.
`SlotHasJob` needs that the job of an accepted request is never refused, which
`MotorStands` gives, and that a request is not dropped with the slot left behind.
That is `OneRequest`: undivided submissions are made one at a time and only while
no job is in hand; so there is one request at most, that of the task that sets
the mark or has set it, and it is taken before the answer of the burst that runs
(`Ordered`), since it was posted before the kick.

`BootBanksProofs` proves, for every length of an image, every limit of attempts
and failures and every number of power failures, with and without failing writes
of the control block:

- `BanksTyped`, `LastGoodKept`, `OnlyProvenVerified`: the invariants of
  `boot_banks` as theorems of `Spec`.

Its `IInv` is `TypeOK` and, while `hurt` is empty, `Inv` and `Erased`. That the
last good image is kept depends on the update asking for the bank that does not
run, which it computes from the control block: `NamesRunning` says that the
block names the running bank whenever it may be read for that. `NamesRunning`
holds only because one task at a time writes the block (`Solo`, `Places`), and
because what is about to be written is as good as what was read
(`WritesAreGood`). `Solo` is what the hazards `overlap` and `torn` break, so
the proof is by cases on `hurt` being empty after the step; `HazardsStay` says it
was then empty before. `Erased` is about the block between its erase and its
write: it reads as blank, so nobody takes it for a verified one. Again there is
one lemma per action; `EndedInv` (the end of a write), `BegunFacts` (its
beginning) and `QuietFacts` (none) are shared. The only assumptions are
`BootAssumption`.

`ToldProofs` is about two modules of the run `told`. For every depth of the queue,
every length of a batch and any number of events:

- `QueueIsKept`: `QueueKept` as a theorem of `QueueSpec`.

`QueueKept` is inductive as it stands, but none of its parts is. That a tick is
marked exactly while it is under way needs to know where it is: moving from the
queue to the batch, to the end of the batch and into the hands of the loop it
must leave one place for the next, which is the `Once` part of `MarksStand`, and
a batch is begun only when the last one is done, which is the last part of
`QueueTypeOK`. That the events stay in order needs the batch to precede the
queue (`Before`) and no number to be used twice (`UpTo`). The lemmas before the
actions say what a sequence holds after one end of it changed; `Moved` and
`Shortened` are shared by the actions that move an event. The only assumptions
are `QueueAssumption`.

For any streaks, intervals and a queue that holds what a poll can put into it:

- `HopperIsTold`: `HopperTold` as a theorem of `HopperSpec`.

`HopperInv` says of the two counters how they come from the readings: `Counts` that
each is the length of the present row of equal readings, capped at its limit,
`Spaced` that the row is as old as its readings are far apart, `Turned` that the
row that turned the level was long enough. The length of the row is part of the
history `seen`, and the code knows only the counter; `Counts` ties them. That the
next tick tells the change needs `QueueIsLatest`: the queue never holds more than
one change, the one a job made since the last poll. It is assumed that the normal
streak is not the longer one (`StreaksAreOrdered`, 3 and 6 in the code), and that
the queue has three places (`QueueHoldsATick`, 4 in the code).

`ScheduleProofs` proves, for any set of slots, length of day and week, bound of
the clock, jumps of the clock, commands and failures of writes, with the
constants that are no keys kept apart (`Instance`):

- `ConfigIsKept`: `ConfigKept`, which the run `feeding` checks in its small
  instance with failing writes and reboots.
- `SlotsFeedOnce`: `FedOnce`, for any jumps of the clock: the property excepts what
  follows a poll that finds an earlier date than the poll before (`turned`), after
  which the code does feed twice, see section 6.
- `JobsSettleTheirSlot`: `JobSettlesItsSlot`: the slot that shows as dispensing is
  the active one, and the active one has the supervisor's job. `lost` remembers
  that the supervisor dropped the job of the active slot without a word; the
  property excepts what follows, until the next date or a reboot clears the slots.
  `AnewSettles` shows that it does clear them.
- `DueSlotsAreFed`: `DueIsFed`, for any slots and any clock, with minutes that
  nobody polls while the time is being resynchronised. The property excepts the
  first minute that is seen of another date, which the code lets go by: a slot at
  00:00 is never fed, and neither is the slot in whose minute the first poll after
  a resynchronisation over midnight lands. That `scheduler-engine.md:107` promises
  more is what the run `sched_midnight` shows.

`Stored` is the types and the stored copy. `FedOnce` is a bound on a history and
not inductive: `Counted` says that, until the date goes back, the counts of the
date of the last poll are those of slots that exist and have fired, and that no
later date has any; a poll then either finds the fired flag or starts a date that
nobody has fed on. `Settles` needs that at most the one slot of the minute is fed,
and only while no job runs. `DueIsFed` follows from the types and from `PollFacts`,
which says once what a poll does to every entry.

`LinkProofs` is about three modules of the run `link`. For any networks, signal
levels, number of faults and forms:

- `StoreIsWhole`: `StoredWhole`. While a form is saved the store is a mixture that
  the property excuses by where the saving stands; it is inductive with
  `Written`: the keys already written are those of the form under way.

For any number of connect workers, delays, faults and orders that are natural
numbers (`Bounds`):

- `OffIsQuiet` and `HandshakeIsLeftAlone`: the invariant `QuietWhenOff` and the
  action property `YieldGuard`.

Both are stated for histories in which no order reset the flags under a running
worker (`stray`); until then `Lone` holds: there is one worker at most, a worker
means that the client is armed, says it runs and is not told to disconnect, and a
client that is off with nothing left to close has no session. No part is
inductive alone: that one worker runs is known from `running`, that a session
is not opened for a disarmed client from the worker's arming.

For any icons, number of blinks, cadences, pattern and periods:

- `PanelIsShown`: `PanelShows` as a theorem of `PanelSpec`.

A scene that is not dirty is the one drawn last, so every change of the scene must
either set the mark or leave what the frame shows alone: one lemma per operation of
`display_presentation.c` says which. Ageing a blink is the hard one, since it may
change an icon's phase, release its slot and leave the steady icon behind
(`Ages`, with `LeavesBut` for the icons it does not touch). The lock's icon needs
that the feedback's blink is the only other thing that touches it (`LockShown`).
A cause of blinking sets the icon's slot and no other (`BlinkSlot`), which the
assumption `NoneIsNoSlot` keeps apart from an empty one.

`ServicesProofs` is about the six modules of the run `services`, each for all values of
its constants:

- `BatteryIsTold`: `BatteryTold` as a theorem of `BatterySpec`. `GivenIsInCell`
  says that what a task was given is still in the shared cell, or that another
  read cut it; `HoldsConverter` that whoever moves the multiplexer has the mutex.
  What a percentage has to do with the curve is arithmetic: `Rounding` and
  `BetweenIsNearest` show that adding half of the divisor gives the nearest percent
  between any two knots, `KnotsCover` that a voltage within the curve lies
  between two. `CurveFalls` is what is assumed of the curve.
- `BusIsIntact`: `BusIntact` as a theorem of `BusSpec`. `Lent` says from the place of
  each task in its call whether it has the loan and is in a session, that one task
  at most has it, that the bus is set up exactly while the loan calls for it, and
  where a semaphore that was given may meet a mark that was not yet cleared. It
  ends at the first borrowing, `ShownIsWritten` does not: a shadow that is
  written out is clean. One lemma per kind of step (moving, taking, entering,
  leaving, giving back) describes it; every action is one of them. That all is
  returned when all calls are over is proved for histories in which no mark was
  cleared for another (`lost`): that the code clears some is `loan_returned`.
- `ClockIsKept`: `ClockKept` as a theorem of `ClockSpec`. `BlindWhileAsked` bounds the
  polls without a clock by the attempts started in a row and the age of the last;
  it needs `AttemptAsks`, since an attempt ends only by its request. The cached rule
  needs `OneEdits`: unless edits overlapped there is one, of what was stored last.
- `BowlIsTrusted`: `BowlTrusted` as a theorem of `WeighSpec`, changes of the load
  among its histories. That what is told departs by the drift only from what the
  readings saw is not inductive, since nobody knows the drift: `AnchorHolds` says
  that anchor and offset go back to one reading, so that the error is the drift
  since and the change of the load since (`ChangesTold`); the history knows the load
  of that reading and of the last one. `FlashOfItsZero` is about a calibration whose
  power fails between its writes. It says nothing of whether what was eaten stays
  told: that is `eaten_stays_told`.
- `PressIsHeardOnce`: `PressHeardOnce` as a theorem of `BtnSpec`, for any of the
  three buttons, thresholds, debounce, and period of the clock. What a poll hands
  to the app is worked out layer by layer (`TransitionIs`, `TurnedIs`, `StepComboIs`,
  `SteppedIs`, `GesturesAre`); what the history then says of each gesture needs
  that a press that was given something is no longer held (`PressesStand`), that
  a held one began its age ago unless its threshold wraps, and that a press that
  met the other partner is in a session (`MixedInSession`). That a lasting press is
  seen needs `GateIsNear`: unless the clock wrapped behind it, the gate is at most
  a debounce after the last interrupt; and `FingerIsSeen`, that the sample before
  the confirming one was of the finger. `ThresholdsAreTicks` is all that is assumed
  of the numbers: no threshold need be shorter than the clock's period.
- `CalendarIsTrue`: `CalendarTrue` as a theorem of `CalSpec`, for every rule and
  every walk within 1970 to 2099. The inductive invariant `CalInv` says that date,
  number and weekday go together (`Dated`) and that it is summer when the day is
  past one turn of the rule and not past the other, in its own year (`InSeason`).
  What the code counts is brought to closed forms first: the leap days before a
  year (`YearStartIs`), the days before a month (`MonthStartIs`), Zeller's congruence
  as the number of the day modulo seven (`WeekdayIs`; it is one ahead of the
  weekday that counts from Sunday, on every date, so that every turn is on the eve
  of its day: `TurnsOnEves`), the only day of a month that is its n-th of
  a weekday (`NthIs`). Dates and numbers are then each other's inverse
  (`CivilIs`), and tomorrow's number is the next (`TomorrowIs`). `InSummerIs` is
  the hard one: the code looks at the turns of the year in UTC, which on the
  first and last day may not be that of the date; no turn is near them, and
  there both years' turns say the same. `ReadsIs` and `RuleIs` are about the text.
  `WalksAreReal` is what is assumed of a walk; it leaves out rules with both turns
  in one month or within the week of New Year, which no zone of today has and which the
  code orders by the numbers of week and weekday.

Model-checked only, because the prover has no liveness: `SessionEnds`,
`JobEnds`, `BackInService`, `ServicesReturn`, `TicksAreServed`, `SessionReturns`,
`PublishConverges`, `LevelSettles`, `PortalReturns`, `IconsAlternate` and the fairness of
`MotorPort`. Because it has no induction over data: what the recursive function
`MergeAll` of `Provision` computes for lists of every length (`ScanBest`). Every other
invariant that a passing run checks is stated by a theorem.

Modules that are checked together share the value of what is not there, `NoValue`,
whose one assumption is that it is no number. All assumptions on constants are
what the code's numbers satisfy, and every run evaluates them.

## 6. What the models and the documents disagree about

The violation runs, with the lines they contradict, are in `PROJECT.json`.
Others were met while modelling and have no run of their own: a stop waits behind a deferred command (`motor_ctrl.c:737`); a bench
fault is taken for a job's (`dispense.c:584`); a clock set back over midnight
feeds a slot twice (`schedule.c:614`); a skip that was undone is still shown
(`schedule.c:138`); a park that is done at once is never answered
(`motor_cli.c:226`); a job refused by the motor leaves its slot dispensing
(`dispense.c:513`); what was fired today is forgotten by a reboot within the
minute (`schedule.c:594`); the jam bit outlives a session
(`adc_jam_isr_adapter.c:40`). Some of them are exceptions in properties, and
the hazards whose property excepts what bites there say so in their note.

More were met in the modules of the combined runs; their properties name the
exception where they meet one.

- Weekdays. `epoch_calendar_weekday_sun0` numbers from Saturday
  (`epoch_calendar.c:41`), while a rule's day 0 is Sunday
  (`scheduler-engine.md:181`): daylight saving starts and ends a day early, on the
  eve of the day that the rule names. The test of the module expects the same
  numbers as the code (`test_epoch_calendar.c:79-84`). `TurnsOnEves` states what the
  code does against the weekdays of the calendar, so that the shift is in the
  property and not in the reference; what the document says is violated by every
  rule that turns. `CalendarTrue` also says that the weekday given to the
  schedule, which is computed otherwise, is right.
- Hopper. A clear reading at level low leaves the debounce active with its old
  deadline (`hopper_input.c:95-97`), so the barrier is read on every tick from
  then on, on battery too; `hopper-sensing.md` spaces the readings by a second
  and reads on battery after jobs only. `HopperTold` excepts it (`Stuck`).
- Panel. The bowl icon of an incomplete calibration never goes off, because each
  sample of the scale starts its blink again. `IconsAlternate` excepts it.
- Provisioning. After a power cut between the keys of Wi-Fi and those of the
  broker a network is stored, so no portal opens, and there is no broker; a
  failed access point leaves no portal until a reboot. The exceptions are in
  `StoredWhole` and `PortalReturns` (`wrong`).
- Session. A client is armed again after an update only if Wi-Fi is up at that
  moment (`mqtt_client.c:701`), and a station's connect that timed out is not
  tried again; `SessionReturns` is about armed clients. A suspension clears the
  flags of a worker that is running (`mqtt_client.c:692`): `stray`.
- Outbox. The count is changed by two tasks without a lock
  (`mqtt_outbox.c:104`), and the publisher notes what it published after mqtt_io
  may have drained it: `raced`. A topic refused by a full ring is published when
  it changes or a session begins, not before: `dropped`. A connect's burst is
  24 messages, exactly the depth; `mqtt-protocol.md:473` says 16.
- Scale. A weight that changed is told by the first reading and compensated by the
  next one that agrees with it (`auto_tare.c:142-146`): after a meal the panel goes
  back to the weight before it. `eaten_stays_told` shows it; `BowlTrusted` says
  what remains true of a change. Quiet samples without the bowl anchor the empty
  scale; a failed erasure leaves the span of an earlier zero. `BowlTrusted` excepts
  both.
- Pins. A session joins the loan of another task, and the arguments of a call
  are static: `borrowed`. `wfci-bus-arbitration.md` wants a semaphore. What a loan
  was marked with is cleared after it was given back, when the next task may have
  been granted it (`wfci_bus_adapter.c:125-126`, `gpio_expander_loan.c:59-63`):
  `loan_returned` shows that its loan is then never given back.
- Scan list. A newcomer that is stronger than the last of a full list and no other
  is written past its end (`provision_scan_list.c:38`, `:49`, `:65`). The one caller
  hands over at most as many records as the list holds, so that it does not
  happen there: `ScanBest` allows it for longer scans only.
- Minutes. The first poll of another date fires nothing (`schedule.c:614-621`). That
  is the slot at 00:00 (`sched_midnight`), and any slot in whose minute the clock
  becomes valid again when a resynchronisation lasts over midnight. `DueIsFed`
  excepts that poll and no other.
- Buttons. Near the wrap of the millisecond clock a press is long at once, and
  the gate after an interrupt is not reached for a round: `OneVoice` and
  `PressSeen` except both.
- Clock. An answer after which the RTC cannot be read leaves the state syncing
  until Wi-Fi comes up again (`time_sync.c:107`); two tasks that store a zone at
  once leave either in the cache. `ClockKept` excepts both.
- Converter. The reading is copied after the mutex was given
  (`adc_adapter.c:117`), so a task may get another's: `BatteryTold` excepts it.

## 7. What is not modelled

Text: JSON, HTML, command parsing, log lines, display segments. Real time below
a slice or a minute, and the exact milliseconds of the limits. Register access
of the drivers. The SDK's TCP, TLS and Wi-Fi, which enter as choices. Messages from
the broker (`mqtt_route.c`), which are commands of the components by another
way. The animation of the panel. The components marked `not_modelled` in
`PROJECT.json`, each with its reason there.
