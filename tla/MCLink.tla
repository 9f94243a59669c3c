------------------------------- MODULE MCLink -------------------------------
(***************************************************************************)
(* What ties the feeder to its network, for TLC: the station and the       *)
(* broker's session (MqttSession), the portal that stores the network      *)
(* (Provision), and the panel that shows it (Display). A behaviour is one  *)
(* part's, named by focus; the variables of the others rest.               *)
(***************************************************************************)
EXTENDS MqttSession, Provision, Display

VARIABLE focus

\* The blinks of each indicator, and the pattern of a broker that refuses.
OnOff(on, off) == [on |-> on, off |-> off]
MCCadence == [wifi_connecting |-> OnOff(2, 2), wifi_ap |-> OnOff(1, 1), dispensing |-> OnOff(1, 1),
              child_lock |-> OnOff(1, 1), cal_incomplete |-> OnOff(3, 3), span_pending |-> OnOff(1, 1),
              mqtt_connecting |-> OnOff(3, 1)]
MCErrorPattern == <<[ticks |-> 1, visible |-> FALSE], [ticks |-> 1, visible |-> FALSE], [ticks |-> 2, visible |-> TRUE]>>

-----------------------------------------------------------------------------
Init ==
    /\ focus \in {"session", "portal", "panel"}
    /\ SessInit
    /\ ProvInit
    /\ PanelInit

vars == <<focus, sessVars, provVars, panelVars>>

SessionOnly(A) == focus = "session" /\ A /\ UNCHANGED <<focus, provVars, panelVars>>
PortalOnly(A) == focus = "portal" /\ A /\ UNCHANGED <<focus, sessVars, panelVars>>
PanelOnly(A) == focus = "panel" /\ A /\ UNCHANGED <<focus, sessVars, provVars>>
Next ==
    \/ SessionOnly(SessNext)
    \/ PortalOnly(ProvNext)
    \/ PanelOnly(PanelNext)

\* The fairness of each module, in its own behaviours.
Fairness ==
    /\ WF_vars(SessionOnly(StaTask))
    /\ WF_vars(SessionOnly(IoTask))
    /\ WF_vars(SessionOnly(BackoffElapses))
    /\ WF_vars(SessionOnly(AppWifiReady))
    /\ WF_vars(SessionOnly(OtaSuspends))
    /\ WF_vars(SessionOnly(LinkBack))
    /\ WF_vars(SessionOnly(BrokerBack))
    /\ \A w \in {1, 2} : WF_vars(SessionOnly(WorkerTask(w)))
    /\ WF_vars(PortalOnly(OpenAp))
    /\ WF_vars(PortalOnly(\E list \in Scans : OpenPortal(list)))
    /\ WF_vars(PortalOnly(WifiTry))
    /\ WF_vars(PortalOnly(MqttProbe))
    /\ WF_vars(PortalOnly(Respond))
    /\ WF_vars(PortalOnly(RestoreTimer))
    /\ WF_vars(PortalOnly(Reboot))
    /\ \A k \in {"ssid", "pass", "mqtt"} : WF_vars(PortalOnly(Save(k)))
    /\ WF_vars(PanelOnly(PanelTick))
Spec == Init /\ [][Next]_vars /\ Fairness

-----------------------------------------------------------------------------
\* A feeder without a network can always be provisioned (Provision): in the
\* behaviours of the portal. The types are checked along with it.
PortalReturns == []ProvTypeOK /\ (focus = "portal" => PortalReopens)

\* An icon that is left to blink goes on and off for ever (Display).
IconsAlternate == focus = "panel" => Alternates
=============================================================================
