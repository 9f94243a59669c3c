---- MODULE Clock ----
(***************************************************************************)
(* The synchronisation of the clock (time_sync.c over time_adapter.c) and  *)
(* the cached time zone rule (tz_rule.c, time_config.c): the app task      *)
(* polls on each timer tick, the schedule first; the SNTP client answers   *)
(* or not; the console asks for a sync; console and web server store a     *)
(* rule and refresh the cache in two steps. A time of 0 in the code, which *)
(* stands for never, is None here.                                         *)
(***************************************************************************)
EXTENDS Integers, NoValue
CONSTANTS Resync,     \* TIME_SYNC_RESYNC_MS in ticks
          Retry,      \* TIME_SYNC_RETRY_MS in ticks
          Timeout,    \* TIME_SNTP_TIMEOUT_MS in ticks
          Zones,      \* rules stored in turn, the default among them
          Default,    \* UTC0
          Editors,    \* console and web server
          MaxClockEvents   \* bound: sync requests, Wi-Fi events, stored rules and RTC failures
ASSUME TicksAreNatural == Resync \in Nat /\ Retry \in Nat /\ Timeout \in Nat
ASSUME DefaultIsAZone == Default \in Zones
VARIABLES sync,       \* s_state, s_wifi_ready, ticks since s_last_success_ms, ticks to s_next_retry_ms
          sntp,       \* s_sntp_started, s_sntp_done, s_sntp_ok, and the age of the request
          zone,       \* the rule stored and the one cached
          edit,       \* by editor: where time_config_apply is, and its rule
          watch,      \* history: polls of the schedule without a clock in a row, syncs started among
                      \* them, a reading that failed after an answer, edits that overlapped
          events
clockVars == <<sync, sntp, zone, edit, watch, events>>

Unasked == [started |-> FALSE, done |-> FALSE, ok |-> FALSE, age |-> 0]
Resting == [at |-> "idle", to |-> None]
ClockInit ==
    /\ sync = [st |-> "UNKNOWN", wifi |-> FALSE, last |-> None, retry |-> None]
    /\ sntp = Unasked /\ zone \in {[stored |-> z, cached |-> z]: z \in Zones}
    /\ edit = [e \in Editors |-> Resting]
    /\ watch = [blind |-> 0, starts |-> 0, stuck |-> FALSE, overlapped |-> FALSE] /\ events = 0

(* time_sync_start over time_adapter_request_sync: refused while a request  *)
(* is under way.                                                            *)
Asks(s) == /\ sntp' = [Unasked EXCEPT !.started = TRUE]
           /\ sync' = [s EXCEPT !.st = "SYNCING"]
Starts(s) == IF sntp.started THEN sync' = s /\ UNCHANGED sntp ELSE Asks(s)
ClockEvent == events < MaxClockEvents /\ events' = events + 1
Noted == watch' = [watch EXCEPT !.starts = IF sntp.started THEN @ ELSE @ + 1, !.stuck = FALSE]

(* EVT_WIFI_STA_READY; nothing takes s_wifi_ready back.                     *)
WifiReady ==
    /\ ClockEvent /\ Starts([sync EXCEPT !.wifi = TRUE, !.retry = None]) /\ Noted
    /\ UNCHANGED <<zone, edit>>
(* time_sync_request_now *)
RequestNow ==
    /\ ClockEvent /\ sync.wifi /\ sync.st # "SYNCING" /\ ~sntp.started
    /\ Asks([sync EXCEPT !.retry = None]) /\ Noted
    /\ UNCHANGED <<zone, edit>>
(* time_adapter_sntp_cb, which the SNTP client calls with the RTC set.      *)
Answer ==
    /\ sntp.started /\ ~sntp.done /\ sntp' = [sntp EXCEPT !.done = TRUE, !.ok = TRUE]
    /\ UNCHANGED <<sync, zone, edit, watch, events>>

(* time_adapter_poll_sync and time_sync_on_finish: an attempt that fails is *)
(* tried again after a while if none succeeded since boot; later ones leave *)
(* the clock synced, with the next sync due at once. An answer after which  *)
(* the RTC cannot be read ends the request and not the attempt.             *)
Passed(n) == IF n = None THEN None ELSE IF n < Resync THEN n + 1 ELSE n
Left(n) == IF n = None \/ n = 0 THEN n ELSE n - 1
FailedForGood(s) == IF s.last # None THEN [s EXCEPT !.st = "SYNCED"] ELSE [s EXCEPT !.st = "UNKNOWN"]
Failed(s) == IF s.last # None THEN [s EXCEPT !.st = "SYNCED"] ELSE [s EXCEPT !.st = "UNKNOWN", !.retry = Retry]
Succeeded(s) == [s EXCEPT !.st = "SYNCED", !.last = 0, !.retry = None]
PollSync(s) ==
    CASE ~sntp.started -> sync' = s /\ UNCHANGED <<sntp, events>>
      [] sntp.started /\ ~sntp.done /\ sntp.age < Timeout ->
            sync' = s /\ sntp' = [sntp EXCEPT !.age = @ + 1] /\ UNCHANGED events
      [] sntp.started /\ ~sntp.done /\ sntp.age >= Timeout ->
            sync' = Failed(s) /\ sntp' = [sntp EXCEPT !.started = FALSE, !.done = TRUE] /\ UNCHANGED events
      [] OTHER -> /\ sntp' = [sntp EXCEPT !.started = FALSE]
                  /\ \/ sync' = Succeeded(s) /\ UNCHANGED events
                     \/ sync' = s /\ ClockEvent
(* time_sync_poll *)
SyncPolls(s) ==
    CASE ~s.wifi -> sync' = s /\ UNCHANGED <<sntp, events>>
      [] s.wifi /\ s.st = "SYNCING" -> PollSync(s)
      [] s.wifi /\ s.st = "SYNCED" /\ s.last # None /\ s.last >= Resync -> Starts(s) /\ UNCHANGED events
      [] s.wifi /\ s.st = "UNKNOWN" /\ s.retry = 0 -> Starts([s EXCEPT !.retry = None]) /\ UNCHANGED events
      [] OTHER -> sync' = s /\ UNCHANGED <<sntp, events>>
(* EVT_TIMER_TICK: schedule_poll reads the clock before time_sync_poll.     *)
Valid == sync.st = "SYNCED"
ClockTick ==
    /\ SyncPolls([sync EXCEPT !.last = Passed(@), !.retry = Left(@)])
    /\ LET blind == IF Valid \/ sync.last = None THEN 0 ELSE watch.blind + 1
       IN  watch' = [watch EXCEPT !.blind = IF watch.stuck THEN 0 ELSE blind,
                                  !.starts = IF blind = 0 THEN 0 ELSE @,
                                  !.stuck = @ \/ (sync.st = "SYNCING" /\ ~sntp'.started /\ sync'.st = "SYNCING")]
    /\ UNCHANGED <<zone, edit>>

(* time_config_apply: the rule is written, unless it is the default, whose  *)
(* key is erased; either may fail. Then the cache is set to UTC and to the  *)
(* parsed rule.                                                             *)
Apply(e, z) ==
    /\ edit[e].at = "idle" /\ ClockEvent
    /\ \/ zone' = [zone EXCEPT !.stored = z] /\ edit' = [edit EXCEPT ![e] = [at |-> "default", to |-> z]]
          /\ watch' = [watch EXCEPT !.overlapped = @ \/ \E x \in Editors: edit[x].at # "idle"]
       \/ UNCHANGED <<zone, edit, watch>>
    /\ UNCHANGED <<sync, sntp>>
CacheDefault(e) ==
    /\ edit[e].at = "default" /\ zone' = [zone EXCEPT !.cached = Default]
    /\ edit' = [edit EXCEPT ![e].at = "parse"] /\ UNCHANGED <<sync, sntp, watch, events>>
ParsedInto(e) == edit[e].to
CacheParsed(e) ==
    /\ edit[e].at = "parse" /\ zone' = [zone EXCEPT !.cached = ParsedInto(e)]
    /\ edit' = [edit EXCEPT ![e] = Resting] /\ UNCHANGED <<sync, sntp, watch, events>>
(* tz_rule_init and time_sync_init *)
Restart ==
    /\ ClockEvent /\ sync' = [st |-> "UNKNOWN", wifi |-> FALSE, last |-> None, retry |-> None] /\ sntp' = Unasked
    /\ zone' = [zone EXCEPT !.cached = zone.stored] /\ edit' = [e \in Editors |-> Resting]
    /\ watch' = [blind |-> 0, starts |-> 0, stuck |-> FALSE, overlapped |-> FALSE]
ClockNext ==
    \/ WifiReady \/ RequestNow \/ Answer \/ ClockTick \/ Restart
    \/ \E e \in Editors: CacheDefault(e) \/ CacheParsed(e) \/ \E z \in Zones: Apply(e, z)
ClockSpec == ClockInit /\ [][ClockNext]_clockVars

------------------------------------------------------------------------------
(* Once the clock was set, the schedule is without it for the time of one   *)
(* attempt, and for that of each attempt that Wi-Fi or the console started  *)
(* in a row; and the cached rule is the stored one when nobody stores one.  *)
(* The exceptions are an answer after which the RTC could not be read, from *)
(* which only another Wi-Fi event recovers, and two tasks that stored rules *)
(* at the same time.                                                        *)
ClockServes ==
    /\ watch.blind <= (Timeout + 1) * (watch.starts + 1)
    /\ (\A e \in Editors: edit[e].at = "idle") => zone.cached = zone.stored \/ watch.overlapped
(* An attempt that the app task waits for is under way, or it is stuck; and *)
(* a clock that was never set is being set or will be, once Wi-Fi was up.   *)
NeverGivesUp ==
    /\ sync.st = "SYNCING" => sntp.started \/ watch.stuck
    /\ sync.st = "UNKNOWN" /\ sync.wifi => sync.retry # None
ClockKept == ClockServes /\ NeverGivesUp
====
