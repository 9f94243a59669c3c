---- MODULE MqttPublish ----
(***************************************************************************)
(* What the broker retains of the feeder's state: the publishers (mqtt_    *)
(* state.c, mqtt_bowl_weight.c, mqtt_hopper.c and its kin, mqtt_schedule.c,*)
(* mqtt_ha_discovery.c) run in the app task and put messages in the ring   *)
(* of mqtt_outbox.c; mqtt_io drains the ring and the schedule's own buffer.*)
(* The ring has no lock, and mqtt_io has the higher priority: it may run   *)
(* between the app task's load and store of the count, which then stays one*)
(* too high for good, or between the store and the publisher's note of     *)
(* what it published, which then waits for a drain that has been. The      *)
(* model notes that this happened (raced) and stops there.                 *)
(***************************************************************************)
EXTENDS Integers, Sequences, SequencesExt, NoValue
CONSTANTS Plain,          \* topics published when their value changes (hopper, mains ...; discovery entries never do)
          Burst,          \* the order of the snapshots after a connect
          Depth,          \* MQTT_OUTBOX_DEPTH
          MaxWeight, Threshold, \* weights are 0..MaxWeight; a change of Threshold is published
          MaxChanges, MaxCuts   \* bounds: changes of a value, ends of a session
ASSUME BurstFits == Len(Burst) <= Depth
VARIABLES up,       \* the session, as mqtt->is_connected tells
          accepting,\* s_accepting: FALSE while an update has the client suspended
          greet,    \* EVT_MQTT_CONNECTED is on its way to the app task
          dev,      \* each topic's value in the device
          broker,   \* what the broker retains
          ring,     \* the messages of the outbox
          todo,     \* the publications the app task has still to make
          lp,       \* each publisher's last published value (s_last_published_...)
          st,       \* mqtt_state.c: s_publish_pending, s_pending_bowl_error
          wt,       \* mqtt_bowl_weight.c: the coalesced value; recent: within the coalescing window
          sch,      \* mqtt_schedule.c: s_state_dirty, and whether mqtt_io is publishing the staged text
          dropped,  \* history: plain topics whose last publication was refused
          raced,    \* history: mqtt_io ran in the middle of a publication
          restaged, \* history: the schedule was staged while it was being published
          changes, cuts
pubVars == <<up, accepting, greet, dev, broker, ring, todo, lp, st, wt, sch, dropped, raced, restaged, changes, cuts>>

Topics == Plain \cup {"weight", "state"}
EmptyRing == <<>>
Value(t) == IF t = "weight" THEN 0..MaxWeight ELSE 0..1
Abs(n) == IF n < 0 THEN -n ELSE n

PubInit ==
    /\ up = FALSE /\ accepting = TRUE /\ greet = FALSE /\ dev = [t \in Topics \cup {"schedule"} |-> 0]
    /\ broker = [t \in Topics \cup {"schedule"} |-> None]
    /\ ring = EmptyRing /\ todo = <<>> /\ lp = [t \in Topics |-> None]
    /\ st = [pending |-> FALSE, value |-> 0] /\ wt = [coalesced |-> None, recent |-> FALSE]
    /\ sch = [dirty |-> FALSE, sending |-> FALSE]
    /\ dropped = {} /\ raced = FALSE /\ restaged = FALSE /\ changes = 0 /\ cuts = 0

------------------------------------------------------------------------------
(* The app task. A publisher decides (todo), mqtt_outbox_enqueue follows.   *)
AppIdle == todo = <<>>
Put(t, v) == [topic |-> t, value |-> v]
Todo(s) == todo' = s
Counted(b) == IF b THEN changes < MaxChanges /\ changes' = changes + 1 ELSE UNCHANGED changes
AppRest == UNCHANGED <<up, accepting, broker, ring, raced, cuts>>

(* mqtt_hopper_sync and its kin: called on a change only. *)
AppChanges(t) ==
    /\ AppIdle /\ t \in Plain /\ dev' = [dev EXCEPT ![t] = 1 - @] /\ Counted(TRUE)
    /\ Todo(IF lp[t] = dev'[t] THEN <<>> ELSE <<Put(t, dev'[t])>>)
    /\ AppRest /\ UNCHANGED <<greet, lp, st, wt, sch, dropped, restaged>>
(* A sample of the scale: mqtt_state_sync, then mqtt_bowl_weight_sync, which *)
(* sends the coalesced value before it looks at the new one (AppWeighs).    *)
Coalesced == IF wt.coalesced = None \/ wt.recent THEN <<>> ELSE <<Put("weight", wt.coalesced)>>
StateMoved(s) == IF st.pending \/ lp["state"] = s THEN <<>> ELSE <<Put("state", s)>>
AppSamples(v, s) ==
    /\ AppIdle /\ dev' = [dev EXCEPT !["weight"] = v, !["state"] = s] /\ Counted(dev' # dev)
    /\ Todo(StateMoved(s) \o Coalesced \o <<Put("sample", v)>>)
    /\ AppRest /\ UNCHANGED <<greet, lp, st, wt, sch, dropped, restaged>>
WeightMoved(v) == lp["weight"] = None \/ Abs(v - lp["weight"]) >= Threshold
AppWeighs ==
    /\ ~AppIdle /\ Head(todo).topic = "sample"
    /\ LET v == Head(todo).value
           hold == lp["weight"] # None /\ wt.recent
       IN  /\ Todo((IF WeightMoved(v) /\ ~hold THEN <<Put("weight", v)>> ELSE <<>>) \o Tail(todo))
           /\ wt' = IF WeightMoved(v) /\ hold THEN [wt EXCEPT !.coalesced = v] ELSE wt
    /\ AppRest /\ UNCHANGED <<greet, dev, lp, st, sch, dropped, restaged, changes>>
WindowCloses ==
    /\ wt.recent /\ wt' = [wt EXCEPT !.recent = FALSE]
    /\ AppRest /\ UNCHANGED <<greet, dev, todo, lp, st, sch, dropped, restaged, changes>>
(* mqtt_schedule_request_publish, after a command or a slot's change of state. *)
AppStagesSchedule ==
    /\ AppIdle /\ dev' = [dev EXCEPT !["schedule"] = 1 - @] /\ Counted(TRUE)
    /\ sch' = [sch EXCEPT !.dirty = TRUE] /\ restaged' = (restaged \/ sch.sending)
    /\ AppRest /\ UNCHANGED <<greet, todo, lp, st, wt, dropped>>
(* app_mqtt_on_connected: every publisher forgets what it published and sends a snapshot. *)
Snapshot(t) == Put(t, dev[t])
AppGreets ==
    /\ AppIdle /\ greet /\ greet' = FALSE /\ lp' = [t \in Topics |-> None]
    /\ st' = [st EXCEPT !.pending = FALSE] /\ wt' = [wt EXCEPT !.coalesced = None]
    /\ Todo([i \in DOMAIN Burst |-> Snapshot(Burst[i])])
    /\ sch' = [sch EXCEPT !.dirty = TRUE] /\ restaged' = (restaged \/ sch.sending)
    /\ AppRest /\ UNCHANGED <<dev, dropped, changes>>

(* mqtt_outbox_enqueue; then the publisher notes what it published.         *)
Mark(m) == IF m.topic = "state" THEN st' = [pending |-> TRUE, value |-> m.value] /\ UNCHANGED lp
           ELSE lp' = [lp EXCEPT ![m.topic] = m.value] /\ UNCHANGED st
Enqueued(m) ==
    /\ ring' = Append(ring, m) /\ Mark(m) /\ dropped' = dropped \ {m.topic}
    /\ wt' = IF m.topic = "weight" THEN [coalesced |-> None, recent |-> TRUE] ELSE wt
RefusedNoted(m) == /\ dropped' = dropped \cup ({m.topic} \cap Plain) /\ lp' = [lp EXCEPT ![m.topic] = m.value]
                   /\ UNCHANGED <<ring, st, wt>>
Refused(m) == dropped' = dropped \cup ({m.topic} \cap Plain) /\ UNCHANGED <<ring, lp, st, wt>>
AppEnqueues ==
    /\ ~AppIdle /\ Head(todo).topic # "sample" /\ Todo(Tail(todo))
    /\ IF ~accepting \/ Len(ring) >= Depth THEN Refused(Head(todo)) ELSE Enqueued(Head(todo))
    /\ raced' \in {FALSE, up /\ Len(ring) < Depth}
    /\ UNCHANGED <<up, accepting, greet, dev, broker, sch, restaged, changes, cuts>>

------------------------------------------------------------------------------
(* mqtt_io publishes the head; on success the callback for the state and    *)
(* the removal follow.                                                      *)
Drained(m) == IF st.pending /\ m.topic = "state"
              THEN st' = [st EXCEPT !.pending = FALSE] /\ lp' = [lp EXCEPT !["state"] = st.value]
              ELSE UNCHANGED <<st, lp>>
IoSends ==
    /\ up /\ ring # EmptyRing /\ ~sch.sending
    /\ broker' = [broker EXCEPT ![Head(ring).topic] = Head(ring).value]
    /\ Drained(Head(ring)) /\ ring' = Tail(ring)
    /\ UNCHANGED <<up, accepting, greet, dev, todo, wt, sch, dropped, raced, restaged, changes, cuts>>
IoSendsSchedule ==
    /\ up /\ ~sch.sending /\ sch.dirty
    /\ sch' = [sch EXCEPT !.sending = TRUE] /\ broker' = [broker EXCEPT !["schedule"] = dev["schedule"]]
    /\ UNCHANGED <<up, accepting, greet, dev, ring, todo, lp, st, wt, dropped, raced, restaged, changes, cuts>>
IoClearsSchedule ==
    /\ sch.sending /\ sch' = [dirty |-> FALSE, sending |-> FALSE]
    /\ UNCHANGED <<up, accepting, greet, dev, broker, ring, todo, lp, st, wt, dropped, raced, restaged, changes, cuts>>

------------------------------------------------------------------------------
(* The session comes and goes; a loss leaves the ring as it is, an ordered  *)
(* disconnect (mqtt_client_do_disconnect) empties it; the one for an update *)
(* also refuses messages until the client is resumed and connects.          *)
Connects ==
    /\ ~up /\ ~sch.sending /\ up' = TRUE /\ greet' = TRUE /\ accepting' = TRUE
    /\ UNCHANGED <<dev, broker, ring, todo, lp, st, wt, sch, dropped, raced, restaged, changes, cuts>>
LosesSession ==
    /\ up /\ cuts < MaxCuts /\ cuts' = cuts + 1 /\ up' = FALSE
    /\ UNCHANGED <<accepting, greet, dev, broker, ring, todo, lp, st, wt, sch, dropped, raced, restaged, changes>>
OutboxReset ==
    /\ up /\ ~sch.sending /\ cuts < MaxCuts /\ cuts' = cuts + 1 /\ up' = FALSE
    /\ accepting' \in BOOLEAN /\ ring' = EmptyRing /\ lp' = [t \in Topics |-> None]
    /\ st' = [st EXCEPT !.pending = FALSE] /\ wt' = [wt EXCEPT !.coalesced = None]
    /\ sch' = [sch EXCEPT !.dirty = FALSE]
    /\ UNCHANGED <<greet, dev, broker, todo, dropped, raced, restaged, changes>>

AppWorks == AppWeighs \/ AppEnqueues \/ AppGreets
IoWorks == IoSends \/ IoSendsSchedule \/ IoClearsSchedule
PubNext ==
    \/ \E t \in Plain: AppChanges(t)
    \/ \E v \in Value("weight"), s \in Value("state"): AppSamples(v, s)
    \/ AppStagesSchedule \/ WindowCloses \/ AppWorks \/ IoWorks \/ Connects \/ LosesSession \/ OutboxReset
PubFairness ==
    /\ WF_pubVars(AppWeighs) /\ WF_pubVars(AppEnqueues) /\ SF_pubVars(AppGreets)
    /\ SF_pubVars(IoSends)
    /\ SF_pubVars(IoSendsSchedule) /\ WF_pubVars(IoClearsSchedule)
    /\ SF_pubVars(AppSamples(dev["weight"], dev["state"]))
    /\ WF_pubVars(WindowCloses) /\ WF_pubVars(Connects)

PubTypeOK ==
    /\ up \in BOOLEAN /\ accepting \in BOOLEAN /\ greet \in BOOLEAN /\ raced \in BOOLEAN /\ restaged \in BOOLEAN
    /\ \A t \in Topics: dev[t] \in Value(t) /\ broker[t] \in Value(t) \cup {None} /\ lp[t] \in Value(t) \cup {None}
    /\ Len(ring) <= Depth /\ Len(todo) <= Depth
    /\ dropped \subseteq Plain

(* When changes and losses have stopped and the session lasts, the broker   *)
(* retains the device's weight (within the threshold) and state, even after *)
(* a full ring refused them; any other topic, unless its last publication   *)
(* was refused; and the schedule, unless it was staged while being sent.    *)
(* All of it holds unless mqtt_io ran in the middle of a publication.       *)
Retained ==
    /\ broker["weight"] # None /\ Abs(broker["weight"] - dev["weight"]) < Threshold
    /\ broker["state"] = dev["state"]
    /\ \A t \in Plain: t \in dropped \/ broker[t] = dev[t]
    /\ restaged \/ broker["schedule"] = dev["schedule"]
Converges == <>[]up => <>[](Retained \/ raced)
====
