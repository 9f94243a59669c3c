------------------------------- MODULE MCTold -------------------------------
(***************************************************************************)
(* What the broker is told, for TLC: the publishers with their outbox      *)
(* (MqttPublish), and food level and mains (Hopper); and the event queue   *)
(* through which the app task learns of either (AppQueue). A behaviour is  *)
(* one part's, named by focus; the variables of the others rest.           *)
(***************************************************************************)
EXTENDS MqttPublish, AppQueue, Hopper

VARIABLE focus

\* The order of the snapshots after a connect; they fill the outbox.
MCBurst == <<"state", "weight", "hopper">>

-----------------------------------------------------------------------------
Init ==
    /\ focus \in {"publish", "hopper", "queue"}
    /\ PubInit
    /\ HopperInit /\ (focus # "hopper" => beam = "blocked" /\ plug /\ power.valid)
    /\ QueueInit

vars == <<focus, pubVars, hopperVars, queueVars>>

PublishOnly(A) == focus = "publish" /\ A /\ UNCHANGED <<focus, hopperVars, queueVars>>
HopperOnly(A) == focus = "hopper" /\ A /\ UNCHANGED <<focus, pubVars, queueVars>>
QueueOnly(A) == focus = "queue" /\ A /\ UNCHANGED <<focus, pubVars, hopperVars>>
Next ==
    \/ PublishOnly(PubNext)
    \/ HopperOnly(HopperNext)
    \/ QueueOnly(QueueNext)

\* The fairness of each module, in its own behaviours.
Fairness ==
    /\ WF_vars(PublishOnly(AppWeighs))
    /\ WF_vars(PublishOnly(AppEnqueues))
    /\ SF_vars(PublishOnly(AppGreets))
    /\ SF_vars(PublishOnly(IoSends))
    /\ SF_vars(PublishOnly(IoSendsSchedule))
    /\ WF_vars(PublishOnly(IoClearsSchedule))
    /\ SF_vars(PublishOnly(AppSamples(dev["weight"], dev["state"])))
    /\ WF_vars(PublishOnly(WindowCloses))
    /\ WF_vars(PublishOnly(Connects))
    /\ WF_vars(HopperOnly(GoodTick))
    /\ WF_vars(HopperOnly(OtaEnds))
    /\ WF_vars(QueueOnly(AppLoop))
    /\ WF_vars(QueueOnly(PostTick(Timer)))
Spec == Init /\ [][Next]_vars /\ Fairness

\* Behaviours in which mqtt_io ran in the middle of a publication are not
\* followed further (MqttPublish).
NotRaced == ~raced

-----------------------------------------------------------------------------
\* The broker ends up with what the device has; the types are checked along
\* with it (MqttPublish).
PublishConverges == []PubTypeOK /\ (focus = "publish" => Converges)

\* When nothing moves, the broker ends up knowing level and mains (Hopper).
LevelSettles == focus = "hopper" => HopperSettles

\* Timer ticks are dispatched for ever (AppQueue).
TicksAreServed == focus = "queue" => TicksServed
=============================================================================
