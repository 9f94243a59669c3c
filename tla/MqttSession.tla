---- MODULE MqttSession ----
(***************************************************************************)
(* The way to the broker: the Wi-Fi station's connect task (wifi_sta.c),   *)
(* the MQTT orchestration (mqtt_client.c) with its short-lived connect     *)
(* workers, the adapter's session flags (mqtt_adapter.c) and the firmware  *)
(* update that suspends both (ota_preflight.c).                            *)
(*                                                                         *)
(* Processes: mqtt_io (Io...), the connect workers (W...), the wifi_sta    *)
(* task (Sta...), the app task (App...), the console (Cli...), the update  *)
(* (Ota...), and the network, which loses and restores what it carries.    *)
(***************************************************************************)
EXTENDS Naturals
CONSTANTS Workers,       \* the connect workers that may exist at once (a bound of the model)
          MaxDelay,      \* doublings of the backoff before it is capped
          MaxLosses,     \* losses of Wi-Fi, broker or session in a behaviour
          MaxOrders      \* console orders and updates in a behaviour
VARIABLES net,           \* radio: on; link: associated with an address; broker: reachable; tcp: the connection lives
          ad,            \* the adapter: sess = s_session_up, cli = s_client.isconnected
          cl,            \* the flags of mqtt_client.c
          worker,        \* what each connect worker does next
          sta,           \* the station's task: task, s_connect_busy, s_pending_op, its notification, s_suspended_for_ota
          readyPosted,   \* EVT_WIFI_STA_READY is in the queue of the app task
          wifiReady,     \* s_wifi_ready
          phase,         \* s_session_phase, what the indicator was told
          ota,           \* where the update is
          stray,         \* history: an order reset the worker flags while a worker ran
          faults, orders \* counters for the bounds
sessVars == <<net, ad, cl, worker, sta, readyPosted, wifiReady, phase, ota, stray, faults, orders>>

Down == [sess |-> FALSE, cli |-> FALSE]
Connected == ad.sess /\ ad.cli
WifiIsReady == wifiReady /\ net.link
NoWorker == \A w \in Workers: worker[w] = "none"
(* mqtt_adapter_yield: a yield notices that the connection is gone and clears both flags. *)
AfterYieldBlind == ad
AfterYield == IF ad.sess /\ ~net.tcp THEN Down ELSE ad

(* mqtt_client_derive_session_phase, on the flags c and the adapter a of the moment. *)
PhaseGiven(ready, c, a) ==
    IF c.suspended \/ ~c.armed \/ ~ready THEN "off"
    ELSE IF a.sess /\ a.cli THEN "connected"
    ELSE IF c.waiting THEN "error"
    ELSE IF c.busy \/ c.pending THEN "connecting" ELSE "off"
PhaseOf(c, a) == PhaseGiven(WifiIsReady, c, a)

SessInit ==
    /\ net = [radio |-> FALSE, link |-> FALSE, broker |-> TRUE, tcp |-> FALSE] /\ ad = Down
    /\ cl = [armed |-> FALSE, pending |-> FALSE, busy |-> FALSE, disconnect |-> FALSE, suspended |-> FALSE,
             waiting |-> FALSE, delay |-> 0, running |-> FALSE, done |-> FALSE, ok |-> FALSE]
    /\ worker = [w \in Workers |-> "none"]
    /\ sta = [task |-> "idle", busy |-> TRUE, op |-> "connect", notified |-> TRUE, held |-> FALSE]
    /\ readyPosted = FALSE /\ wifiReady = FALSE /\ phase = "off" /\ ota = "idle"
    /\ stray = FALSE /\ faults = 0 /\ orders = 0

------------------------------------------------------------------------------
(* The station's task. A connect that times out posts a failure, on which   *)
(* nothing retries; the SDK may still associate later (LinkBack).           *)
StaWakes ==
    /\ sta.task = "idle" /\ sta.notified
    /\ sta' = [sta EXCEPT !.notified = FALSE, !.task = IF sta.held THEN "none" ELSE "run",
                          !.busy = sta.busy /\ ~sta.held, !.op = IF sta.held THEN "none" ELSE sta.op]
    /\ UNCHANGED <<net, ad, cl, worker, readyPosted, wifiReady, phase, ota, stray, faults, orders>>
StaEnds(s) == [s EXCEPT !.task = IF s.held THEN "none" ELSE "idle", !.busy = FALSE, !.op = "none"]
(* wifi_session_connect: credentials, radio and association are set going, and *)
(* the wait for the address succeeds or times out.                          *)
RadioUp(n) == [n EXCEPT !.radio = TRUE]
RadioDown(n) == [n EXCEPT !.radio = FALSE, !.link = FALSE, !.tcp = FALSE]
GetsAddress(n) == [n EXCEPT !.link = TRUE]
SessionConnect(ok) == net' = IF ok THEN GetsAddress(RadioUp(net)) ELSE RadioUp(net)
StaConnects ==
    /\ sta.task = "run" /\ sta.op = "connect" /\ sta' = StaEnds(sta)
    /\ \E ok \in BOOLEAN: SessionConnect(ok) /\ readyPosted' = (readyPosted \/ ok)
    /\ UNCHANGED <<ad, cl, worker, wifiReady, phase, ota, stray, faults, orders>>
StaDisconnects ==
    /\ sta.task = "run" /\ sta.op = "disconnect" /\ sta' = StaEnds(sta)
    /\ net' = RadioDown(net)
    /\ UNCHANGED <<ad, cl, worker, readyPosted, wifiReady, phase, ota, stray, faults, orders>>
(* wifi_sta_queue_op, from the console. *)
CliWifi(op) ==
    /\ sta.task # "none" /\ ~sta.busy /\ orders < MaxOrders /\ orders' = orders + 1
    /\ sta' = [sta EXCEPT !.busy = TRUE, !.op = op, !.notified = TRUE]
    /\ UNCHANGED <<net, ad, cl, worker, readyPosted, wifiReady, phase, ota, stray, faults>>

------------------------------------------------------------------------------
(* mqtt_client_request_connect on the flags c: refused while suspended,     *)
(* without Wi-Fi or during an attempt.                                      *)
Requested(c) == IF c.suspended \/ c.busy THEN c
                ELSE [c EXCEPT !.armed = TRUE, !.busy = TRUE, !.pending = TRUE]
AppWifiReady ==
    /\ readyPosted /\ readyPosted' = FALSE /\ wifiReady' = TRUE
    /\ cl' = IF net.link THEN Requested(cl) ELSE cl
    /\ phase' = IF cl' = cl THEN phase ELSE PhaseGiven(TRUE, cl', ad)
    /\ UNCHANGED <<net, ad, worker, sta, ota, stray, faults, orders>>
CliConnect ==
    /\ WifiIsReady /\ ~cl.running /\ cl' = Requested(cl) /\ cl' # cl /\ phase' = PhaseOf(cl', ad)
    /\ UNCHANGED <<net, ad, worker, sta, readyPosted, wifiReady, ota, stray, faults>>
    /\ orders < MaxOrders /\ orders' = orders + 1
(* What mqtt_client_stop and mqtt_client_suspend_for_ota have in common. *)
DisarmedOnly(c) == [c EXCEPT !.armed = FALSE, !.pending = FALSE, !.busy = FALSE, !.waiting = FALSE,
                             !.running = FALSE, !.done = FALSE]
Disarmed(c) == [c EXCEPT !.armed = FALSE, !.pending = FALSE, !.busy = FALSE, !.disconnect = TRUE,
                         !.waiting = FALSE, !.running = FALSE, !.done = FALSE]
CliStop ==
    /\ cl.armed /\ cl' = [Disarmed(cl) EXCEPT !.delay = 0] /\ stray' = (stray \/ ~NoWorker)
    /\ orders < MaxOrders /\ orders' = orders + 1
    /\ UNCHANGED <<net, ad, worker, sta, readyPosted, wifiReady, phase, ota, faults>>

------------------------------------------------------------------------------
(* One turn of mqtt_client_step, by the branch it takes.                    *)
IoReady == ~cl.disconnect /\ ~cl.suspended /\ cl.armed /\ WifiIsReady
ServedDuringHandshake == Connected
Served == ~cl.running /\ Connected
Trying == IoReady /\ ~Served /\ (cl.pending \/ ~cl.waiting)
IoEnd == phase' = PhaseOf(cl', ad') /\ UNCHANGED <<net, sta, readyPosted, wifiReady, ota, stray, faults, orders>>

IoDisconnects ==
    /\ cl.disconnect /\ ad' = Down
    /\ cl' = [cl EXCEPT !.disconnect = FALSE, !.pending = FALSE, !.busy = FALSE, !.waiting = FALSE,
                        !.running = FALSE, !.done = FALSE]
    /\ UNCHANGED worker /\ IoEnd
IoIdles ==
    /\ ~cl.disconnect /\ (~IoReady \/ (~Served /\ ~Trying))
    /\ UNCHANGED <<ad, cl, worker>> /\ IoEnd
IoServes ==
    /\ IoReady /\ Served /\ ad' = AfterYield
    /\ cl' = IF cl.pending THEN [cl EXCEPT !.pending = FALSE, !.busy = FALSE] ELSE cl
    /\ UNCHANGED worker /\ IoEnd
IoBegins ==
    /\ Trying /\ ~cl.running /\ ~cl.done
    /\ \E w \in Workers: worker[w] = "none" /\ worker' = [worker EXCEPT ![w] = "start"]
    /\ cl' = [cl EXCEPT !.pending = TRUE, !.running = TRUE]
    /\ UNCHANGED ad /\ IoEnd
IoPolls ==
    /\ Trying /\ cl.running /\ cl' = [cl EXCEPT !.pending = TRUE]
    /\ UNCHANGED <<ad, worker>> /\ IoEnd
IoCollects ==
    /\ Trying /\ ~cl.running /\ cl.done
    /\ cl' = [cl EXCEPT !.done = FALSE, !.pending = FALSE, !.busy = FALSE, !.waiting = ~cl.ok,
                        !.delay = IF cl.ok \/ cl.delay = MaxDelay THEN cl.delay ELSE cl.delay + 1]
    /\ ad' = IF cl.ok THEN ad ELSE Down
    /\ UNCHANGED worker /\ IoEnd
BackoffElapses ==
    /\ cl.waiting /\ cl' = [cl EXCEPT !.waiting = FALSE]
    /\ UNCHANGED <<net, ad, worker, sta, readyPosted, wifiReady, phase, ota, stray, faults, orders>>

------------------------------------------------------------------------------
(* A connect worker runs mqtt_client_do_connect; the orders of other tasks  *)
(* come between its blocking calls.                                         *)
WEnds(w, ok, c) == /\ worker' = [worker EXCEPT ![w] = "none"]
                   /\ cl' = [c EXCEPT !.running = FALSE, !.done = TRUE, !.ok = ok]
WGoes(w, pc) == worker' = [worker EXCEPT ![w] = pc] /\ UNCHANGED cl
WRest == UNCHANGED <<sta, readyPosted, wifiReady, phase, ota, stray, faults, orders>>
WStarts(w) ==
    /\ worker[w] = "start" /\ IF cl.suspended THEN WEnds(w, FALSE, cl) ELSE WGoes(w, "connect")
    /\ WRest /\ UNCHANGED <<net, ad>>
(* mqtt_adapter_connect: a session that is up counts as connected, even a dead one. *)
WConnects(w) ==
    /\ worker[w] = "connect" /\ WRest
    /\ \/ ad.sess /\ WGoes(w, "subscribe") /\ UNCHANGED <<net, ad>>
       \/ /\ ~ad.sess /\ net.link /\ net.broker /\ WGoes(w, "subscribe")
          /\ net' = [net EXCEPT !.tcp = TRUE] /\ ad' = [sess |-> TRUE, cli |-> TRUE]
       \/ ~ad.sess /\ ~(net.link /\ net.broker) /\ WEnds(w, FALSE, cl) /\ UNCHANGED <<net, ad>>
(* A publication or a subscription goes through while the connection lives. *)
CallSucceeds == ad.sess /\ net.tcp
(* The subscription and the retained "online"; a failure disconnects. *)
WSends(w) ==
    /\ worker[w] \in {"subscribe", "online"} /\ WRest /\ UNCHANGED net
    /\ IF CallSucceeds THEN WGoes(w, IF worker[w] = "subscribe" THEN "online" ELSE "yield") /\ UNCHANGED ad
       ELSE ad' = Down /\ WEnds(w, FALSE, cl)
WReports(w) ==
    /\ worker[w] = "yield" /\ ad' = AfterYield /\ WEnds(w, TRUE, [cl EXCEPT !.delay = 0])
    /\ WRest /\ UNCHANGED net

------------------------------------------------------------------------------
(* ota_preflight_suspend_idle_tasks and ota_preflight_resume_idle_tasks.    *)
OtaBegins ==
    /\ ota = "idle" /\ orders < MaxOrders /\ orders' = orders + 1
    /\ ota' = "station" /\ sta' = [sta EXCEPT !.held = TRUE]
    /\ UNCHANGED <<net, ad, cl, worker, readyPosted, wifiReady, phase, stray, faults>>
(* The task reclaimed itself, or is deleted when the wait times out, whatever it was doing. *)
OtaSuspends ==
    /\ ota = "station" /\ ota' = "closing"
    /\ sta' = [sta EXCEPT !.task = "none", !.busy = FALSE, !.op = "none", !.notified = FALSE]
    /\ cl' = [Disarmed(cl) EXCEPT !.suspended = TRUE] /\ stray' = (stray \/ ~NoWorker)
    /\ UNCHANGED <<net, ad, worker, readyPosted, wifiReady, phase, faults, orders>>
(* The download failed: an update that succeeds reboots. *)
OtaResumes ==
    /\ ota = "closing" /\ ota' = "idle"
    /\ sta' = [sta EXCEPT !.held = FALSE, !.task = "idle"]
    /\ LET c == [cl EXCEPT !.suspended = FALSE]
       IN  cl' = IF WifiIsReady THEN Requested(c) ELSE c
    /\ phase' = IF WifiIsReady THEN PhaseOf(cl', ad) ELSE phase
    /\ UNCHANGED <<net, ad, worker, readyPosted, wifiReady, stray, faults, orders>>

------------------------------------------------------------------------------
(* The network.                                                             *)
NetRest == UNCHANGED <<ad, cl, worker, sta, readyPosted, wifiReady, phase, ota, stray, orders>>
Loses(n) == faults < MaxLosses /\ faults' = faults + 1 /\ net' = n /\ NetRest
LinkLost == net.link /\ Loses([net EXCEPT !.link = FALSE, !.tcp = FALSE])
BrokerLost == net.broker /\ Loses([net EXCEPT !.broker = FALSE, !.tcp = FALSE])
TcpLost == net.tcp /\ Loses([net EXCEPT !.tcp = FALSE])
LinkBack == net.radio /\ ~net.link /\ net' = [net EXCEPT !.link = TRUE] /\ NetRest /\ UNCHANGED faults
BrokerBack == ~net.broker /\ net' = [net EXCEPT !.broker = TRUE] /\ NetRest /\ UNCHANGED faults

StaTask == StaWakes \/ StaConnects \/ StaDisconnects
IoTask == IoDisconnects \/ IoIdles \/ IoServes \/ IoBegins \/ IoPolls \/ IoCollects
WorkerTask(w) == WStarts(w) \/ WConnects(w) \/ WSends(w) \/ WReports(w)
SessNext ==
    \/ StaTask \/ IoTask \/ BackoffElapses \/ AppWifiReady
    \/ \E w \in Workers: WorkerTask(w)
    \/ CliWifi("connect") \/ CliWifi("disconnect") \/ CliConnect \/ CliStop
    \/ OtaBegins \/ OtaSuspends \/ OtaResumes
    \/ LinkLost \/ BrokerLost \/ TcpLost \/ LinkBack \/ BrokerBack

SessSpec == SessInit /\ [][SessNext]_sessVars

SessTypeOK ==
    /\ net \in [radio: BOOLEAN, link: BOOLEAN, broker: BOOLEAN, tcp: BOOLEAN] /\ ad \in [sess: BOOLEAN, cli: BOOLEAN]
    /\ cl \in [armed: BOOLEAN, pending: BOOLEAN, busy: BOOLEAN, disconnect: BOOLEAN, suspended: BOOLEAN,
               waiting: BOOLEAN, delay: 0..MaxDelay, running: BOOLEAN, done: BOOLEAN, ok: BOOLEAN]
    /\ worker \in [Workers -> {"none", "start", "connect", "subscribe", "online", "yield"}]
    /\ sta \in [task: {"idle", "run", "none"}, busy: BOOLEAN, op: {"none", "connect", "disconnect"},
                notified: BOOLEAN, held: BOOLEAN]
    /\ readyPosted \in BOOLEAN /\ wifiReady \in BOOLEAN /\ stray \in BOOLEAN
    /\ phase \in {"off", "connecting", "connected", "error"} /\ ota \in {"idle", "station", "closing"}
    /\ faults \in 0..MaxLosses /\ orders \in 0..MaxOrders

(* mqtt_io leaves the connection alone during a worker's handshake (the      *)
(* yield guard of mqtt_client_step), unless an order has cleared the worker  *)
(* flags under a running worker.                                             *)
YieldGuard == [][IoServes => stray \/ \A w \in Workers: worker[w] \notin {"subscribe", "online", "yield"}]_sessVars

(* After an order to disarm or suspend is carried out, no session is up,     *)
(* unless a worker outlived the order: nobody serves that session, and it    *)
(* stays until the broker drops it.                                          *)
QuietWhenOff ==
    /\ SessTypeOK
    /\ (cl.suspended \/ ~cl.armed) /\ ~cl.disconnect /\ Connected => stray

(* Once losses and orders have stopped, a client that is armed, with the     *)
(* radio on, is served and says so. It is not armed after a station's connect that timed out,    *)
(* after mqtt disconnect, and after an update that failed while Wi-Fi was    *)
(* down.                                                                     *)
SessionReturns == <>[](cl.armed /\ ~cl.suspended /\ net.radio) => <>[](Connected /\ net.tcp /\ phase = "connected")
SessFairness ==
    /\ WF_sessVars(StaTask) /\ WF_sessVars(IoTask) /\ WF_sessVars(BackoffElapses) /\ WF_sessVars(AppWifiReady)
    /\ \A w \in Workers: WF_sessVars(WorkerTask(w))
    /\ WF_sessVars(OtaSuspends) /\ WF_sessVars(LinkBack) /\ WF_sessVars(BrokerBack)
====
