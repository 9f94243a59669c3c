----------------------------- MODULE LinkProofs -----------------------------
(***************************************************************************)
(* Proofs about what ties the feeder to its network, for any networks,     *)
(* levels, forms, faults, connect workers, orders, icons and cadences: the *)
(* portal, the session of the broker, and the panel.                       *)
(***************************************************************************)
EXTENDS Provision, MqttSession, Display, FiniteSetTheorems, SequenceTheorems, TLAPS

-----------------------------------------------------------------------------
(***************************************************************************)
(* Provision: that what is stored is one submission is not inductive while *)
(* a form is being saved: then the keys already written are those of this  *)
(* form.                                                                   *)
(***************************************************************************)
Keys == {"ssid", "pass", "mqtt"}
FormTyped ==
    /\ nv \in [Keys -> Nets \cup {None}]
    /\ form \in [at: {"idle", "try", "probe", "ssid", "pass", "mqtt", "reboot", "answer"}, net: Nets \cup {None}]
    /\ form.at \in {"try", "probe", "ssid", "pass", "mqtt", "reboot"} => form.net \in Nets
Written ==
    /\ form.at \in {"pass", "mqtt"} => nv.ssid = form.net
    /\ form.at = "mqtt" => nv.pass = form.net
FormInv == FormTyped /\ Written /\ StoredWhole

-----------------------------------------------------------------------------
\* Writing a key changes this key.
LEMMA StoreTypes ==
    ASSUME NEW s \in [Keys -> Nets \cup {None}], NEW k \in Keys, NEW n \in Nets
    PROVE  /\ [s EXCEPT ![k] = n] \in [Keys -> Nets \cup {None}]
           /\ [s EXCEPT ![k] = n][k] = n
           /\ \A j \in Keys \ {k} : [s EXCEPT ![k] = n][j] = s[j]
OBVIOUS

\* A form that was stored whole is one submission.
LEMMA ThreeKeys ==
    ASSUME NEW s \in [Keys -> Nets \cup {None}], NEW n, s.ssid = n, s.pass = n, s.mqtt = n
    PROVE  s = [ssid |-> n, pass |-> n, mqtt |-> n]
BY DEF Keys

\* A form moves on and stays the form of its network.
LEMMA FormMoves ==
    ASSUME FormTyped, NEW at \in {"idle", "try", "probe", "ssid", "pass", "mqtt", "reboot", "answer"}
    PROVE  LET f == [form EXCEPT !.at = at]
           IN  /\ f.at = at /\ f.net = form.net
               /\ f \in [at: {"idle", "try", "probe", "ssid", "pass", "mqtt", "reboot", "answer"}, net: Nets \cup {None}]
BY DEF FormTyped

\* A form that is answered leaves the store as it is.
LEMMA AnswerKept ==
    ASSUME FormInv, NEW kind, Answers(kind), nv' = nv, form.at \in {"try", "probe", "ssid"}, wrong \subseteq wrong'
    PROVE  FormInv'
<1>1. form' = [form EXCEPT !.at = "answer"]
  BY DEF Answers
<1>2. form'.at = "answer" /\ FormTyped'
  BY <1>1, FormMoves DEF FormTyped, FormInv
<1> QED BY <1>2 DEF FormInv, Written, StoredWhole, Whole

\* A boot with a whole store begins without a form.
LEMMA RestartKept ==
    ASSUME NEW s \in [Keys -> Nets \cup {None}], Restarts(s),
           s \in {Blank} \cup {[ssid |-> n, pass |-> n, mqtt |-> n] : n \in Nets} \/ "store" \in wrong'
    PROVE  FormInv'
<1>1. nv' = s /\ form' = NoForm
  BY DEF Restarts
<1>2. FormTyped' /\ form'.at = "idle"
  BY <1>1 DEF FormTyped, NoForm
<1> QED BY <1>1, <1>2 DEF FormInv, Written, StoredWhole, Whole

\* A key that is written is the form's; one that fails erases all, or is
\* remembered.
LEMMA SaveKept == ASSUME FormInv, NEW k \in Keys, Save(k) PROVE FormInv'
<1>1. form.at = k /\ form.net \in Nets /\ nv \in [Keys -> Nets \cup {None}]
  BY DEF Save, FormInv, FormTyped, Keys
<1>2. CASE nv' = [nv EXCEPT ![k] = form.net] /\ form' = [form EXCEPT !.at = After[k]] /\ Works
  <2>1. After[k] \in {"pass", "mqtt", "reboot"} /\ (k = "ssid" => After[k] = "pass")
        /\ (k = "pass" => After[k] = "mqtt") /\ (k = "mqtt" => After[k] = "reboot")
    BY DEF After, Keys
  <2>2. /\ form'.at = After[k] /\ form'.net = form.net
        /\ form' \in [at: {"idle", "try", "probe", "ssid", "pass", "mqtt", "reboot", "answer"}, net: Nets \cup {None}]
    BY <1>2, <2>1, FormMoves DEF FormInv
  <2>3. nv' \in [Keys -> Nets \cup {None}] /\ nv'[k] = form.net /\ \A j \in Keys \ {k} : nv'[j] = nv[j]
    BY <1>1, <1>2, StoreTypes
  <2>4. FormTyped'
    BY <1>1, <2>2, <2>3 DEF FormTyped
  <2>5. Written'
    BY <1>1, <2>1, <2>2, <2>3 DEF FormInv, Written, Keys
  <2>6. ASSUME k = "mqtt" PROVE Whole'
    <3>1. nv'.ssid = form.net /\ nv'.pass = form.net /\ nv'.mqtt = form.net
      BY <1>1, <2>3, <2>6 DEF FormInv, Written, Keys
    <3>2. nv' = [ssid |-> form.net, pass |-> form.net, mqtt |-> form.net]
      BY <2>3, <3>1, ThreeKeys
    <3> QED BY <1>1, <3>2 DEF Whole
  <2>7. StoredWhole'
    BY <2>1, <2>2, <2>6 DEF StoredWhole, Keys
  <2> QED BY <2>4, <2>5, <2>7 DEF FormInv
<1>3. CASE (nv' = Blank \/ (nv' = nv /\ "store" \in wrong')) /\ Answers(RestoreOf("save"))
  <2>1. form' = [form EXCEPT !.at = "answer"]
    BY <1>3 DEF Answers
  <2>2. /\ form'.at = "answer"
        /\ form' \in [at: {"idle", "try", "probe", "ssid", "pass", "mqtt", "reboot", "answer"}, net: Nets \cup {None}]
    BY <2>1, FormMoves DEF FormInv
  <2>3. nv' \in [Keys -> Nets \cup {None}] /\ (Whole' \/ "store" \in wrong')
    BY <1>1, <1>3 DEF Blank, Whole, Keys
  <2> QED BY <2>2, <2>3 DEF FormInv, FormTyped, Written, StoredWhole
<1>4. ASSUME nv' = nv, Fails("store"), Answers(RestoreOf("save")) PROVE FormInv'
  BY <1>3, <1>4 DEF Fails
<1>5. ASSUME nv' = RolledBack(nv), Answers(RestoreOf("save")) PROVE FormInv'
  BY <1>3, <1>5 DEF RolledBack
<1> QED BY <1>2, <1>4, <1>5 DEF Save

\* Every step keeps the invariant.
LEMMA IInvKept == ASSUME FormInv, [ProvNext]_provVars PROVE FormInv'
<1>1. CASE UNCHANGED <<nv, form>> /\ ("store" \in wrong => "store" \in wrong')
  BY <1>1 DEF FormInv, FormTyped, Written, StoredWhole, Whole
<1>2. CASE OpenAp
  BY <1>1, <1>2 DEF OpenAp, Silent, Works, Fails
<1>3. CASE WifiTry
  <2>1. wrong \subseteq wrong' /\ nv' = nv /\ form.at = "try"
    BY <1>3 DEF WifiTry, Works, Fails
  <2>2. CASE form' = [form EXCEPT !.at = "probe"]
    BY <2>1, <2>2, FormMoves DEF FormInv, FormTyped, Written, StoredWhole, Whole
  <2> QED BY <1>3, <2>1, <2>2, AnswerKept DEF WifiTry
<1>4. CASE MqttProbe
  <2>1. wrong' = wrong /\ nv' = nv /\ form.at = "probe"
    BY <1>4 DEF MqttProbe, Works
  <2>2. CASE form' = [form EXCEPT !.at = "ssid"]
    BY <2>1, <2>2, FormMoves DEF FormInv, FormTyped, Written, StoredWhole, Whole
  <2> QED BY <1>4, <2>1, <2>2, AnswerKept DEF MqttProbe
<1>5. CASE Respond
  <2>1. form' = NoForm /\ nv' = nv /\ wrong \subseteq wrong' /\ form.at = "answer"
    BY <1>5 DEF Respond, Works
  <2> QED BY <2>1 DEF FormInv, FormTyped, NoForm, Written, StoredWhole, Whole
<1>6. CASE RestoreTimer
  BY <1>1, <1>6 DEF RestoreTimer, Works, Fails
<1>7. CASE Reboot
  <2>1. Restarts(nv) /\ wrong' = wrong \ {"portal"} /\ form.at = "reboot" /\ nv \in [Keys -> Nets \cup {None}]
    BY <1>7 DEF Reboot, FormInv, FormTyped
  <2> QED BY <2>1, RestartKept DEF FormInv, StoredWhole, Whole
<1>8. CASE PowerCut
  <2>1. Restarts(nv) /\ nv \in [Keys -> Nets \cup {None}] /\ ("store" \in wrong => "store" \in wrong')
        /\ (form.at \in {"pass", "mqtt"} => "store" \in wrong')
    BY <1>8 DEF PowerCut, FormInv, FormTyped
  <2> QED BY <2>1, RestartKept DEF FormInv, StoredWhole, Whole
<1>9. CASE FactoryReset
  <2>1. CASE Restarts(Blank)
    <3>1. Blank \in [Keys -> Nets \cup {None}]
      BY DEF Blank, Keys
    <3> QED BY <2>1, <3>1, RestartKept
  <2>2. CASE nv' = [nv EXCEPT !.ssid = None, !.pass = None] /\ form' = form /\ form = NoForm /\ wrong' = {"store", "portal"}
    <3>1. nv' \in [Keys -> Nets \cup {None}]
      BY <2>2 DEF FormInv, FormTyped
    <3> QED BY <2>2, <3>1 DEF FormInv, FormTyped, NoForm, Written, StoredWhole
  <2> QED BY <1>9, <2>1, <2>2 DEF FactoryReset
<1>10. ASSUME NEW k \in Keys, Save(k) PROVE FormInv'
  BY <1>10, SaveKept
<1>11. ASSUME NEW n \in Nets, NEW v \in BOOLEAN, Post(n, v) PROVE FormInv'
  <2>1. form' = [at |-> IF v THEN "try" ELSE "answer", net |-> n] /\ nv' = nv /\ wrong' = wrong /\ form = NoForm
    BY <1>11 DEF Post
  <2> QED BY <2>1 DEF FormInv, FormTyped, NoForm, Written, StoredWhole, Whole
<1>12. ASSUME NEW list, Page(list) PROVE FormInv'
  <2>1. form' = [NoForm EXCEPT !.at = "answer"] /\ nv' = nv /\ wrong' = wrong /\ form = NoForm
    BY <1>12 DEF Page
  <2> QED BY <2>1 DEF FormInv, FormTyped, NoForm, Written, StoredWhole, Whole
<1>13. ASSUME NEW list, OpenPortal(list) PROVE FormInv'
  BY <1>1, <1>13 DEF OpenPortal, Silent, Works, Fails
<1>14. CASE UNCHANGED provVars
  BY <1>1, <1>14 DEF provVars
<1> QED
  BY <1>2, <1>3, <1>4, <1>5, <1>6, <1>7, <1>8, <1>9, <1>10, <1>11, <1>12, <1>13, <1>14 DEF ProvNext, Keys

-----------------------------------------------------------------------------
\* What is stored is one submission, complete, or nothing, for any number of
\* forms and faults and whatever is cut short, but for the two losses that
\* StoredWhole names (provision_flow.c, provision_pending.c).
THEOREM StoreIsWhole == ProvSpec => []StoredWhole
<1>1. ProvInit => FormInv
  BY DEF ProvInit, FormInv, FormTyped, Written, StoredWhole, Whole, NoForm, Blank, Keys
<1>2. FormInv /\ [ProvNext]_provVars => FormInv'
  BY IInvKept
<1>3. FormInv => StoredWhole
  BY DEF FormInv
<1> QED BY <1>1, <1>2, <1>3, PTL DEF ProvSpec

-----------------------------------------------------------------------------
(***************************************************************************)
(* MqttSession: both properties follow from what holds until an order      *)
(* resets the worker flags under a running worker: there is one worker at  *)
(* most, and while there is one the client is armed and says that it runs. *)
(***************************************************************************)
Bounds == MaxDelay \in Nat /\ MaxLosses \in Nat /\ MaxOrders \in Nat

\* The types of SessTypeOK, by variable.
Flags == [armed: BOOLEAN, pending: BOOLEAN, busy: BOOLEAN, disconnect: BOOLEAN, suspended: BOOLEAN,
          waiting: BOOLEAN, delay: 0..MaxDelay, running: BOOLEAN, done: BOOLEAN, ok: BOOLEAN]
Ways == [radio: BOOLEAN, link: BOOLEAN, broker: BOOLEAN, tcp: BOOLEAN]
Ends == [sess: BOOLEAN, cli: BOOLEAN]
Places == {"none", "start", "connect", "subscribe", "online", "yield"}
Stations == [task: {"idle", "run", "none"}, busy: BOOLEAN, op: {"none", "connect", "disconnect"},
             notified: BOOLEAN, held: BOOLEAN]
Phases == {"off", "connecting", "connected", "error"}
Rest == /\ readyPosted \in BOOLEAN /\ wifiReady \in BOOLEAN /\ stray \in BOOLEAN /\ phase \in Phases
        /\ ota \in {"idle", "station", "closing"} /\ faults \in 0..MaxLosses /\ orders \in 0..MaxOrders
Typed == net \in Ways /\ ad \in Ends /\ cl \in Flags /\ worker \in [Workers -> Places] /\ sta \in Stations /\ Rest

Alone == \A v, w \in Workers : worker[v] # "none" /\ worker[w] # "none" => v = w
Marked == ~NoWorker => cl.running /\ cl.armed /\ ~cl.suspended /\ ~cl.disconnect
Closed == (cl.suspended \/ ~cl.armed) /\ ~cl.disconnect => ~ad.sess
Lone == Alone /\ Marked /\ Closed
SessionInv == Typed /\ (~stray => Lone)

-----------------------------------------------------------------------------
(* What the assignments of the code make of a record. *)

\* The flags stay flags, whatever is done to them.
LEMMA FlagTypes ==
    /\ \A c \in Flags : Requested(c) \in Flags /\ Disarmed(c) \in Flags
    /\ \A c \in Flags, b \in BOOLEAN :
        /\ [c EXCEPT !.suspended = b] \in Flags
        /\ [c EXCEPT !.waiting = b] \in Flags
        /\ [c EXCEPT !.pending = b] \in Flags
        /\ [c EXCEPT !.running = FALSE, !.done = TRUE, !.ok = b] \in Flags
    /\ \A c \in Flags, d \in 0..MaxDelay : [c EXCEPT !.delay = d] \in Flags
    /\ \A c \in Flags :
        /\ [c EXCEPT !.pending = FALSE, !.busy = FALSE] \in Flags
        /\ [c EXCEPT !.pending = TRUE, !.running = TRUE] \in Flags
        /\ [c EXCEPT !.disconnect = FALSE, !.pending = FALSE, !.busy = FALSE, !.waiting = FALSE,
                     !.running = FALSE, !.done = FALSE] \in Flags
    /\ \A c \in Flags, b \in BOOLEAN, d \in 0..MaxDelay :
        [c EXCEPT !.done = FALSE, !.pending = FALSE, !.busy = FALSE, !.waiting = b, !.delay = d] \in Flags
<1>1. ASSUME NEW c \in Flags PROVE Requested(c) \in Flags
  BY Zenon DEF Flags, Requested
<1>2. ASSUME NEW c \in Flags PROVE Disarmed(c) \in Flags
  BY Zenon DEF Flags, Disarmed
<1>3. ASSUME NEW c \in Flags, NEW b \in BOOLEAN
      PROVE  [c EXCEPT !.suspended = b] \in Flags /\ [c EXCEPT !.waiting = b] \in Flags /\ [c EXCEPT !.pending = b] \in Flags
  BY Zenon DEF Flags
<1>4. ASSUME NEW c \in Flags, NEW d \in 0..MaxDelay PROVE [c EXCEPT !.delay = d] \in Flags
  BY Zenon DEF Flags
<1>5. ASSUME NEW c \in Flags
      PROVE  [c EXCEPT !.pending = FALSE, !.busy = FALSE] \in Flags /\ [c EXCEPT !.pending = TRUE, !.running = TRUE] \in Flags
  BY Zenon DEF Flags
<1>6. ASSUME NEW c \in Flags, NEW b \in BOOLEAN PROVE [c EXCEPT !.running = FALSE, !.done = TRUE, !.ok = b] \in Flags
  BY Zenon DEF Flags
<1>7. ASSUME NEW c \in Flags
      PROVE  [c EXCEPT !.disconnect = FALSE, !.pending = FALSE, !.busy = FALSE, !.waiting = FALSE,
                       !.running = FALSE, !.done = FALSE] \in Flags
  BY Zenon DEF Flags
<1>8. ASSUME NEW c \in Flags, NEW b \in BOOLEAN, NEW d \in 0..MaxDelay
      PROVE  [c EXCEPT !.done = FALSE, !.pending = FALSE, !.busy = FALSE, !.waiting = b, !.delay = d] \in Flags
  BY Zenon DEF Flags
<1> QED BY <1>1, <1>2, <1>3, <1>4, <1>5, <1>6, <1>7, <1>8, Zenon

\* A request arms the client or changes nothing; an order to disarm asks for
\* the session's end.
LEMMA FlagFields ==
    ASSUME NEW c \in Flags
    PROVE  /\ Requested(c).running = c.running
           /\ Requested(c).suspended = c.suspended
           /\ Requested(c).disconnect = c.disconnect
           /\ c.armed => Requested(c).armed
           /\ Disarmed(c).disconnect
           /\ \A d : [c EXCEPT !.delay = d].disconnect = c.disconnect
           /\ \A b : LET s == [c EXCEPT !.suspended = b]
                    IN  s.suspended = b /\ s.running = c.running /\ s.armed = c.armed /\ s.disconnect = c.disconnect
BY DEF Flags, Requested, Disarmed

\* What the network carries stays so.
LEMMA WayTypes ==
    /\ \A n \in Ways : /\ RadioUp(n) \in Ways /\ RadioDown(n) \in Ways /\ GetsAddress(n) \in Ways
                       /\ [n EXCEPT !.link = FALSE, !.tcp = FALSE] \in Ways
                       /\ [n EXCEPT !.broker = FALSE, !.tcp = FALSE] \in Ways
    /\ \A n \in Ways, b \in BOOLEAN : /\ [n EXCEPT !.tcp = b] \in Ways
                                      /\ [n EXCEPT !.link = b] \in Ways
                                      /\ [n EXCEPT !.broker = b] \in Ways
<1>1. ASSUME NEW n \in Ways PROVE RadioUp(n) \in Ways /\ RadioDown(n) \in Ways /\ GetsAddress(n) \in Ways
  BY Zenon DEF Ways, RadioUp, RadioDown, GetsAddress
<1>2. ASSUME NEW n \in Ways
      PROVE  [n EXCEPT !.link = FALSE, !.tcp = FALSE] \in Ways /\ [n EXCEPT !.broker = FALSE, !.tcp = FALSE] \in Ways
  BY Zenon DEF Ways
<1>3. ASSUME NEW n \in Ways, NEW b \in BOOLEAN
      PROVE  [n EXCEPT !.tcp = b] \in Ways /\ [n EXCEPT !.link = b] \in Ways /\ [n EXCEPT !.broker = b] \in Ways
  BY Zenon DEF Ways
<1> QED BY <1>1, <1>2, <1>3, Zenon

\* So does the station's task.
LEMMA StationTypes ==
    \A s \in Stations :
        /\ StaEnds(s) \in Stations
        /\ [s EXCEPT !.notified = FALSE, !.task = IF s.held THEN "none" ELSE "run",
                     !.busy = s.busy /\ ~s.held, !.op = IF s.held THEN "none" ELSE s.op] \in Stations
        /\ \A op \in {"connect", "disconnect"} : [s EXCEPT !.busy = TRUE, !.op = op, !.notified = TRUE] \in Stations
        /\ [s EXCEPT !.held = TRUE] \in Stations
        /\ [s EXCEPT !.held = FALSE, !.task = "idle"] \in Stations
        /\ [s EXCEPT !.task = "none", !.busy = FALSE, !.op = "none", !.notified = FALSE] \in Stations
<1> SUFFICES ASSUME NEW s \in Stations
    PROVE  /\ StaEnds(s) \in Stations
           /\ [s EXCEPT !.notified = FALSE, !.task = IF s.held THEN "none" ELSE "run",
                        !.busy = s.busy /\ ~s.held, !.op = IF s.held THEN "none" ELSE s.op] \in Stations
           /\ \A op \in {"connect", "disconnect"} : [s EXCEPT !.busy = TRUE, !.op = op, !.notified = TRUE] \in Stations
           /\ [s EXCEPT !.held = TRUE] \in Stations
           /\ [s EXCEPT !.held = FALSE, !.task = "idle"] \in Stations
           /\ [s EXCEPT !.task = "none", !.busy = FALSE, !.op = "none", !.notified = FALSE] \in Stations
  BY Zenon
<1>1. StaEnds(s) \in Stations
  BY Zenon DEF Stations, StaEnds
<1>2. [s EXCEPT !.notified = FALSE, !.task = IF s.held THEN "none" ELSE "run",
                !.busy = s.busy /\ ~s.held, !.op = IF s.held THEN "none" ELSE s.op] \in Stations
  <2>1. s.op \in {"none", "connect", "disconnect"} /\ s.busy \in BOOLEAN /\ s.held \in BOOLEAN
    BY DEF Stations
  <2>2. CASE s.held = TRUE
    BY <2>1, <2>2, Zenon DEF Stations
  <2>3. CASE s.held = FALSE
    BY <2>1, <2>3, Zenon DEF Stations
  <2> QED BY <2>1, <2>2, <2>3
<1>3. ASSUME NEW op \in {"connect", "disconnect"} PROVE [s EXCEPT !.busy = TRUE, !.op = op, !.notified = TRUE] \in Stations
  BY Zenon DEF Stations
<1>4. [s EXCEPT !.held = TRUE] \in Stations /\ [s EXCEPT !.held = FALSE, !.task = "idle"] \in Stations
  BY Zenon DEF Stations
<1>5. [s EXCEPT !.task = "none", !.busy = FALSE, !.op = "none", !.notified = FALSE] \in Stations
  BY Zenon DEF Stations
<1> QED BY <1>1, <1>2, <1>3, <1>4, <1>5, Zenon

\* The ends of a connection and the phase are among their values.
LEMMA EndTypes ==
    /\ Down \in Ends /\ [sess |-> TRUE, cli |-> TRUE] \in Ends
    /\ ad \in Ends => AfterYield \in Ends
    /\ ~Down.sess
    /\ ad \in Ends /\ AfterYield.sess => ad.sess
    /\ \A c, a : PhaseOf(c, a) \in Phases
BY DEF Down, AfterYield, Ends, PhaseGiven, PhaseOf, Phases

-----------------------------------------------------------------------------
(* The steps keep the types of what they change. *)

\* A turn of mqtt_io keeps the types.
LEMMA IoTypes == ASSUME Bounds, Typed, IoTask PROVE Typed'
<1>1. ad \in Ends /\ cl \in Flags /\ worker \in [Workers -> Places] /\ net \in Ways /\ sta \in Stations /\ Rest
  BY DEF Typed
<1>2. cl' \in Flags /\ ad' \in Ends /\ worker' \in [Workers -> Places] /\ IoEnd
  <2>1. CASE IoDisconnects
    BY <1>1, <2>1, FlagTypes, EndTypes DEF IoDisconnects
  <2>2. CASE IoIdles
    BY <1>1, <2>2 DEF IoIdles
  <2>3. CASE IoServes
    BY <1>1, <2>3, FlagTypes, EndTypes DEF IoServes
  <2>4. CASE IoBegins
    BY <1>1, <2>4, FlagTypes DEF IoBegins, Places
  <2>5. CASE IoPolls
    BY <1>1, <2>5, FlagTypes DEF IoPolls
  <2>6. CASE IoCollects
    <3>1. (IF cl.ok \/ cl.delay = MaxDelay THEN cl.delay ELSE cl.delay + 1) \in 0..MaxDelay
      <4>1. cl.delay \in 0..MaxDelay
        BY <1>1 DEF Flags
      <4> QED BY <4>1 DEF Bounds
    <3>2. (~cl.ok) \in BOOLEAN
      OBVIOUS
    <3>3. cl' \in Flags
      BY <1>1, <2>6, <3>1, <3>2, FlagTypes DEF IoCollects
    <3> QED BY <1>1, <2>6, <3>3, EndTypes DEF IoCollects
  <2> QED BY <2>1, <2>2, <2>3, <2>4, <2>5, <2>6 DEF IoTask
<1>3. Rest' /\ net' \in Ways /\ sta' \in Stations
  BY <1>1, <1>2, EndTypes DEF IoEnd, Rest
<1> QED BY <1>2, <1>3 DEF Typed

\* A connect worker's steps keep the types.
LEMMA WorkerTypes == ASSUME Bounds, Typed, NEW w \in Workers, WorkerTask(w) PROVE Typed'
<1>1. ad \in Ends /\ cl \in Flags /\ worker \in [Workers -> Places] /\ net \in Ways /\ sta \in Stations /\ Rest
  BY DEF Typed
<1>2. [net EXCEPT !.tcp = TRUE] \in Ways
  BY <1>1, WayTypes
<1>3. [cl EXCEPT !.delay = 0] \in Flags
  <2>1. 0 \in 0..MaxDelay
    BY DEF Bounds
  <2> QED BY <1>1, <2>1, FlagTypes
<1>4. ASSUME NEW ok \in BOOLEAN, NEW c \in Flags, WEnds(w, ok, c) PROVE cl' \in Flags /\ worker' \in [Workers -> Places]
  BY <1>1, <1>4, FlagTypes DEF WEnds, Places
<1>5. ASSUME NEW pc \in Places, WGoes(w, pc) PROVE cl' \in Flags /\ worker' \in [Workers -> Places]
  BY <1>1, <1>5 DEF WGoes
<1>6. cl' \in Flags /\ worker' \in [Workers -> Places] /\ ad' \in Ends /\ net' \in Ways /\ WRest
  <2>1. CASE WStarts(w)
    BY <1>1, <1>4, <1>5, <2>1 DEF WStarts, Places
  <2>2. CASE WConnects(w)
    BY <1>1, <1>2, <1>4, <1>5, <2>2, EndTypes DEF WConnects, Places
  <2>3. CASE WSends(w)
    BY <1>1, <1>4, <1>5, <2>3, EndTypes DEF WSends, Places
  <2>4. CASE WReports(w)
    BY <1>1, <1>3, <1>4, <2>4, EndTypes DEF WReports
  <2> QED BY <2>1, <2>2, <2>3, <2>4 DEF WorkerTask
<1>7. Rest' /\ sta' \in Stations
  BY <1>1, <1>6 DEF WRest, Rest
<1> QED BY <1>6, <1>7 DEF Typed

\* Every step keeps the types.
LEMMA TypesKept == ASSUME Bounds, Typed, [SessNext]_sessVars PROVE Typed'
<1>1. ad \in Ends /\ cl \in Flags /\ worker \in [Workers -> Places] /\ net \in Ways /\ sta \in Stations /\ Rest
  BY DEF Typed
<1>2. CASE StaTask
  <2>1. net' \in Ways /\ sta' \in Stations
    BY <1>1, <1>2, WayTypes, StationTypes DEF StaTask, StaWakes, StaConnects, StaDisconnects, SessionConnect
  <2>2. readyPosted' \in BOOLEAN /\ UNCHANGED <<ad, cl, worker, wifiReady, phase, ota, stray, faults, orders>>
    BY <1>1, <1>2 DEF StaTask, StaWakes, StaConnects, StaDisconnects, Rest
  <2> QED BY <1>1, <2>1, <2>2 DEF Typed, Rest
<1>3. CASE IoTask
  BY <1>3, IoTypes
<1>4. CASE BackoffElapses \/ AppWifiReady
  <2>1. cl' \in Flags
    BY <1>1, <1>4, FlagTypes DEF BackoffElapses, AppWifiReady
  <2>2. readyPosted' \in BOOLEAN /\ wifiReady' \in BOOLEAN /\ phase' \in Phases
        /\ UNCHANGED <<net, ad, worker, sta, ota, stray, faults, orders>>
    BY <1>1, <1>4 DEF BackoffElapses, AppWifiReady, Rest, PhaseGiven, Phases
  <2> QED BY <1>1, <2>1, <2>2 DEF Typed, Rest
<1>5. ASSUME NEW w \in Workers, WorkerTask(w) PROVE Typed'
  BY <1>5, WorkerTypes
<1>6. CASE CliWifi("connect") \/ CliWifi("disconnect") \/ CliConnect \/ CliStop
  <2>1. [Disarmed(cl) EXCEPT !.delay = 0] \in Flags
    <3>1. 0 \in 0..MaxDelay
      BY DEF Bounds
    <3> QED BY <1>1, <3>1, FlagTypes
  <2>2. cl' \in Flags /\ sta' \in Stations
    BY <1>1, <1>6, <2>1, FlagTypes, StationTypes DEF CliWifi, CliConnect, CliStop
  <2>3. orders' \in 0..MaxOrders
    BY <1>1, <1>6 DEF CliWifi, CliConnect, CliStop, Rest, Bounds
  <2>4. phase' \in Phases /\ stray' \in BOOLEAN
        /\ UNCHANGED <<net, ad, worker, readyPosted, wifiReady, ota, faults>>
    BY <1>1, <1>6, EndTypes DEF CliWifi, CliConnect, CliStop, Rest
  <2> QED BY <1>1, <2>2, <2>3, <2>4 DEF Typed, Rest
<1>7. CASE OtaBegins \/ OtaSuspends \/ OtaResumes
  <2>1. [Disarmed(cl) EXCEPT !.suspended = TRUE] \in Flags /\ [cl EXCEPT !.suspended = FALSE] \in Flags
    BY <1>1, FlagTypes
  <2>2. Requested([cl EXCEPT !.suspended = FALSE]) \in Flags
    BY <2>1, FlagTypes
  <2>3. cl' \in Flags
    BY <1>1, <1>7, <2>1, <2>2 DEF OtaBegins, OtaSuspends, OtaResumes
  <2>4. sta' \in Stations
    BY <1>1, <1>7, StationTypes DEF OtaBegins, OtaSuspends, OtaResumes
  <2>5. orders' \in 0..MaxOrders
    BY <1>1, <1>7 DEF OtaBegins, OtaSuspends, OtaResumes, Rest, Bounds
  <2>6. phase' \in Phases
    BY <1>1, <1>7, EndTypes DEF OtaBegins, OtaSuspends, OtaResumes, Rest
  <2>7. stray' \in BOOLEAN /\ ota' \in {"idle", "station", "closing"}
        /\ UNCHANGED <<net, ad, worker, readyPosted, wifiReady, faults>>
    BY <1>1, <1>7 DEF OtaBegins, OtaSuspends, OtaResumes, Rest
  <2> QED BY <1>1, <2>3, <2>4, <2>5, <2>6, <2>7 DEF Typed, Rest
<1>8. CASE LinkLost \/ BrokerLost \/ TcpLost \/ LinkBack \/ BrokerBack
  <2>1. net' \in Ways
    BY <1>1, <1>8, WayTypes DEF LinkLost, BrokerLost, TcpLost, LinkBack, BrokerBack, Loses
  <2>2. faults' \in 0..MaxLosses
    BY <1>1, <1>8 DEF LinkLost, BrokerLost, TcpLost, LinkBack, BrokerBack, Loses, Rest, Bounds
  <2>3. NetRest
    BY <1>8 DEF LinkLost, BrokerLost, TcpLost, LinkBack, BrokerBack, Loses
  <2> QED BY <1>1, <2>1, <2>2, <2>3 DEF Typed, NetRest, Rest
<1>9. CASE UNCHANGED sessVars
  BY <1>1, <1>9 DEF sessVars, Typed, Rest
<1> QED BY <1>2, <1>3, <1>4, <1>5, <1>6, <1>7, <1>8, <1>9 DEF SessNext

-----------------------------------------------------------------------------
(* Until an order comes under a running worker, workers come one after the *)
(* other, to an armed client, and a client that is off has no session.     *)

\* A turn of mqtt_io starts a worker only for an armed client without one.
LEMMA IoLone == ASSUME Typed, Lone, IoTask PROVE Lone'
<1> USE DEF Lone, Alone, Marked, Closed, NoWorker
<1>1. ad \in Ends /\ cl \in Flags /\ worker \in [Workers -> Places]
  BY DEF Typed
<1>2. CASE IoDisconnects
  BY <1>1, <1>2, EndTypes DEF IoDisconnects, Flags
<1>3. CASE IoIdles
  BY <1>3 DEF IoIdles
<1>4. CASE IoServes
  BY <1>1, <1>4, EndTypes DEF IoServes, Flags
<1>5. CASE IoBegins
  BY <1>1, <1>5 DEF IoBegins, Trying, IoReady, Flags
<1>6. CASE IoPolls
  BY <1>1, <1>6 DEF IoPolls, Flags
<1>7. CASE IoCollects
  BY <1>1, <1>7, EndTypes DEF IoCollects, Flags
<1> QED BY <1>2, <1>3, <1>4, <1>5, <1>6, <1>7 DEF IoTask

\* A worker opens a session only for an armed client, and ends alone.
LEMMA WorkerLone == ASSUME Typed, Lone, NEW w \in Workers, WorkerTask(w) PROVE Lone'
<1> USE DEF Lone, Alone, Marked, Closed, NoWorker
<1>1. ad \in Ends /\ cl \in Flags /\ worker \in [Workers -> Places]
  BY DEF Typed
<1>2. cl.running /\ cl.armed /\ ~cl.suspended /\ ~cl.disconnect /\ \A v \in Workers : v # w => worker[v] = "none"
  BY DEF WorkerTask, WStarts, WConnects, WSends, WReports
<1>3. ASSUME NEW ok, NEW c \in Flags, c = cl \/ c = [cl EXCEPT !.delay = 0], WEnds(w, ok, c)
      PROVE  (\A v \in Workers : worker'[v] = "none") /\ cl'.armed /\ ~cl'.suspended
  BY <1>1, <1>2, <1>3 DEF WEnds, Flags
<1>4. ASSUME NEW pc, WGoes(w, pc)
      PROVE  cl' = cl /\ \A v \in Workers : v # w => worker'[v] = "none"
  BY <1>1, <1>2, <1>4 DEF WGoes
<1>5. CASE WStarts(w)
  BY <1>1, <1>2, <1>3, <1>4, <1>5 DEF WStarts
<1>6. CASE WConnects(w)
  BY <1>1, <1>2, <1>3, <1>4, <1>6 DEF WConnects
<1>7. CASE WSends(w)
  BY <1>1, <1>2, <1>3, <1>4, <1>7 DEF WSends
<1>8. CASE WReports(w)
  <2>1. [cl EXCEPT !.delay = 0].armed /\ ~[cl EXCEPT !.delay = 0].suspended
    BY <1>1, <1>2 DEF Flags
  <2>2. (\A v \in Workers : worker'[v] = "none") /\ cl'.armed /\ ~cl'.suspended
    BY <1>1, <1>2, <1>8, <2>1 DEF WReports, WEnds, Flags
  <2> QED BY <2>2
<1> QED BY <1>5, <1>6, <1>7, <1>8 DEF WorkerTask

\* No other step starts a worker, opens a session or disarms under a worker.
LEMMA LoneKept == ASSUME Typed, Lone, ~stray', [SessNext]_sessVars PROVE Lone'
<1>1. cl \in Flags
  BY DEF Typed
<1>2. CASE IoTask
  BY <1>2, IoLone
<1>3. ASSUME NEW w \in Workers, WorkerTask(w) PROVE Lone'
  BY <1>3, WorkerLone
<1> USE DEF Lone, Alone, Marked, Closed, NoWorker
<1>4. CASE UNCHANGED <<worker, cl, ad>>
  BY <1>4
<1>5. CASE BackoffElapses
  BY <1>1, <1>5 DEF BackoffElapses, Flags
<1>6. CASE AppWifiReady
  BY <1>1, <1>6, FlagFields DEF AppWifiReady
<1>7. CASE CliConnect
  BY <1>1, <1>7, FlagFields DEF CliConnect
<1>8. CASE CliStop
  <2>1. Disarmed(cl) \in Flags /\ Disarmed(cl).disconnect
    BY <1>1, FlagFields, FlagTypes
  <2>2. [Disarmed(cl) EXCEPT !.delay = 0].disconnect
    BY <2>1, FlagFields
  <2> QED BY <1>8, <2>2 DEF CliStop
<1>9. CASE OtaSuspends
  <2>1. Disarmed(cl) \in Flags /\ Disarmed(cl).disconnect
    BY <1>1, FlagFields, FlagTypes
  <2>2. [Disarmed(cl) EXCEPT !.suspended = TRUE].disconnect
    BY <2>1, FlagFields
  <2> QED BY <1>9, <2>2 DEF OtaSuspends
<1>10. CASE OtaResumes
  <2> DEFINE c == [cl EXCEPT !.suspended = FALSE]
  <2>1. c \in Flags /\ c.running = cl.running /\ ~c.suspended /\ c.armed = cl.armed /\ c.disconnect = cl.disconnect
    <3>1. c \in Flags
      BY <1>1, FlagTypes
    <3> QED BY <1>1, <3>1, FlagFields
  <2>2. Requested(c).running = cl.running /\ ~Requested(c).suspended /\ Requested(c).disconnect = cl.disconnect
        /\ (cl.armed => Requested(c).armed)
    BY <2>1, FlagFields
  <2>3. (cl' = Requested(c) \/ cl' = c) /\ UNCHANGED <<worker, ad>>
    BY <1>10 DEF OtaResumes
  <2> HIDE DEF c
  <2> QED BY <2>1, <2>2, <2>3
<1> QED
  BY <1>2, <1>3, <1>4, <1>5, <1>6, <1>7, <1>8, <1>9, <1>10
  DEF SessNext, sessVars, StaTask, StaWakes, StaConnects, StaDisconnects, CliWifi, OtaBegins,
      LinkLost, BrokerLost, TcpLost, LinkBack, BrokerBack, Loses, NetRest

\* A stray worker is not forgotten.
LEMMA StrayStays == ASSUME stray, [SessNext]_sessVars PROVE stray'
BY DEF SessNext, sessVars, StaTask, StaWakes, StaConnects, StaDisconnects, IoTask, IoDisconnects, IoIdles,
       IoServes, IoBegins, IoPolls, IoCollects, IoEnd, BackoffElapses, AppWifiReady, WorkerTask, WStarts,
       WConnects, WSends, WReports, WRest, CliWifi, CliConnect, CliStop, OtaBegins, OtaSuspends, OtaResumes,
       LinkLost, BrokerLost, TcpLost, LinkBack, BrokerBack, Loses, NetRest

\* The invariant holds at first and is kept.
LEMMA IInvHolds == ASSUME Bounds PROVE SessSpec => []SessionInv
<1>1. SessInit => SessionInv
  <2> SUFFICES ASSUME SessInit PROVE SessionInv
    OBVIOUS
  <2>1. net \in Ways /\ ad \in Ends /\ worker \in [Workers -> Places] /\ sta \in Stations
    BY DEF SessInit, Ways, Ends, Down, Places, Stations
  <2>2. cl \in Flags
    BY DEF SessInit, Flags, Bounds
  <2>3. Rest
    <3>1. 0 \in 0..MaxLosses /\ 0 \in 0..MaxOrders
      BY DEF Bounds
    <3> QED BY <3>1 DEF SessInit, Rest, Phases
  <2>4. Lone
    BY DEF SessInit, Lone, Alone, Marked, Closed, NoWorker, Down
  <2> QED BY <2>1, <2>2, <2>3, <2>4 DEF SessionInv, Typed
<1>2. SessionInv /\ [SessNext]_sessVars => SessionInv'
  <2> SUFFICES ASSUME SessionInv, [SessNext]_sessVars PROVE SessionInv'
    OBVIOUS
  <2>1. Typed'
    BY TypesKept DEF SessionInv
  <2>2. ~stray' => Lone'
    BY StrayStays, LoneKept DEF SessionInv
  <2> QED BY <2>1, <2>2 DEF SessionInv
<1> QED BY <1>1, <1>2, PTL DEF SessSpec

-----------------------------------------------------------------------------
\* A client that is disarmed or suspended has no session once the order is
\* carried out, however many workers there may be, unless one outlived the
\* order (mqtt_client_stop, mqtt_client_suspend_for_ota).
THEOREM OffIsQuiet == ASSUME Bounds PROVE SessSpec => []QuietWhenOff
<1>1. SessionInv => SessTypeOK
  BY DEF SessionInv, Typed, Flags, Ways, Ends, Places, Stations, Phases, Rest, SessTypeOK
<1>2. SessionInv => QuietWhenOff
  BY <1>1 DEF SessionInv, Lone, Closed, QuietWhenOff, Connected
<1> QED BY <1>1, <1>2, IInvHolds, PTL

\* mqtt_io never serves a connection on which a worker's handshake is under
\* way, unless an order reset the flags under it (mqtt_client_step).
THEOREM HandshakeIsLeftAlone == ASSUME Bounds PROVE SessSpec => YieldGuard
<1>1. SessionInv => (IoServes => stray \/ \A w \in Workers: worker[w] \notin {"subscribe", "online", "yield"})
  BY DEF SessionInv, Lone, Marked, NoWorker, IoServes, Served
<1> QED BY <1>1, IInvHolds, PTL DEF YieldGuard

-----------------------------------------------------------------------------
(***************************************************************************)
(* Display: what was drawn is the scene while it is not dirty, and every   *)
(* setter marks it dirty and leaves the icons of others; so the icon of    *)
(* the lock is the lock whenever no feedback is on.                        *)
(***************************************************************************)
Digits == {"blank", "grams", "dash"}
Scene == [steady: SUBSET Icons, blink: [Icons -> BlinkSlot \cup {None}], pattern: [Icons -> PatternSlot \cup {None}],
          digits: Digits, ota: BOOLEAN, dirty: BOOLEAN]
\* A scene with no more blinks than there are slots, each icon in one of them.
Sound(s) == /\ s \in Scene /\ Cardinality(Blinking(s)) <= MaxBlinks
            /\ \A i \in Icons : s.blink[i] = None \/ s.pattern[i] = None
\* A change of the scene that is shown later and touches one icon at most.
Leaves(s, r, i) == \A j \in Icons \ {i} : ((j \in r.steady) <=> (j \in s.steady)) /\ r.blink[j] = s.blink[j]
Sets(s, r, i) == Sound(r) /\ r.dirty /\ Leaves(s, r, i)

LEMMA BlinkingIs ==
    ASSUME NEW s, NEW r, s \in Scene, r \in Scene, Cardinality(Blinking(s)) <= MaxBlinks,
           \A j \in Icons : r.blink[j] # None => s.blink[j] # None
    PROVE  Cardinality(Blinking(r)) <= MaxBlinks
<1>1. Blinking(s) \subseteq Icons /\ Blinking(r) \subseteq Blinking(s)
  BY DEF Blinking
<1>2. IsFiniteSet(Blinking(s))
  BY <1>1, IconsAreFinite, FS_Subset
<1>3. Cardinality(Blinking(s)) \in Nat /\ Cardinality(Blinking(r)) \in Nat /\ Cardinality(Blinking(r)) <= Cardinality(Blinking(s))
  BY <1>1, <1>2, FS_Subset, FS_CardinalityType
<1> QED BY <1>3, IconsAreFinite

\* The setters of one field, each with what it leaves.
LEMMA DirtyIs ==
    ASSUME NEW s \in Scene
    PROVE  /\ Dirty(s) \in Scene /\ Dirty(s).dirty
           /\ Dirty(s).steady = s.steady /\ Dirty(s).blink = s.blink /\ Dirty(s).pattern = s.pattern
           /\ Dirty(s).digits = s.digits /\ (Dirty(s).ota <=> s.ota)
BY Zenon DEF Scene, Dirty

LEMMA SteadyIs ==
    ASSUME NEW s \in Scene, NEW i \in Icons, NEW on \in BOOLEAN
    PROVE  /\ IconSet(s, i, on) \in Scene /\ IconSet(s, i, on).dirty
           /\ IconSet(s, i, on).blink = s.blink /\ IconSet(s, i, on).pattern = s.pattern
           /\ (i \in IconSet(s, i, on).steady) <=> on
           /\ \A j \in Icons \ {i} : (j \in IconSet(s, i, on).steady) <=> (j \in s.steady)
<1>1. PICK t \in SUBSET Icons : t = IF on THEN s.steady \cup {i} ELSE s.steady \ {i}
  BY DEF Scene
<1>2. PICK k : k = [s EXCEPT !.steady = t]
  OBVIOUS
<1>3. k \in Scene /\ k.steady = t /\ k.blink = s.blink /\ k.pattern = s.pattern
  BY <1>2, Zenon DEF Scene
<1>4. IconSet(s, i, on) = Dirty(k)
  BY <1>1, <1>2, Zenon DEF IconSet
<1> QED BY <1>1, <1>3, <1>4, DirtyIs

LEMMA BlinkStopIs ==
    ASSUME NEW s \in Scene, NEW i \in Icons
    PROVE  /\ BlinkStop(s, i) \in Scene /\ BlinkStop(s, i).dirty
           /\ BlinkStop(s, i).steady = s.steady /\ BlinkStop(s, i).pattern = s.pattern
           /\ BlinkStop(s, i).blink = [s.blink EXCEPT ![i] = None]
<1>1. PICK f \in [Icons -> BlinkSlot \cup {None}] : f = [s.blink EXCEPT ![i] = None]
  BY Zenon DEF Scene
<1>2. PICK k : k = [s EXCEPT !.blink = f]
  OBVIOUS
<1>3. k \in Scene /\ k.steady = s.steady /\ k.blink = f /\ k.pattern = s.pattern
  BY <1>2, Zenon DEF Scene
<1>4. BlinkStop(s, i) = Dirty(k)
  BY <1>1, <1>2, Zenon DEF BlinkStop
<1> QED BY <1>1, <1>3, <1>4, DirtyIs

LEMMA PatternStopIs ==
    ASSUME NEW s \in Scene, NEW i \in Icons
    PROVE  /\ PatternStop(s, i) \in Scene /\ PatternStop(s, i).dirty
           /\ PatternStop(s, i).steady = s.steady /\ PatternStop(s, i).blink = s.blink
           /\ PatternStop(s, i).pattern = [s.pattern EXCEPT ![i] = None]
<1>1. PICK f \in [Icons -> PatternSlot \cup {None}] : f = [s.pattern EXCEPT ![i] = None]
  BY Zenon DEF Scene
<1>2. PICK k : k = [s EXCEPT !.pattern = f]
  OBVIOUS
<1>3. k \in Scene /\ k.steady = s.steady /\ k.blink = s.blink /\ k.pattern = f
  BY <1>2, Zenon DEF Scene
<1>4. PatternStop(s, i) = Dirty(k)
  BY <1>1, <1>2, Zenon DEF PatternStop
<1> QED BY <1>1, <1>3, <1>4, DirtyIs

\* Whole changes: each keeps the scene sound and leaves the other icons.
LEMMA IconSetSets ==
    ASSUME NEW s, Sound(s), NEW i \in Icons, NEW on \in BOOLEAN
    PROVE  Sets(s, IconSet(s, i, on), i)
<1>1. PICK r : r = IconSet(s, i, on)
  OBVIOUS
<1>2. s \in Scene
  BY DEF Sound
<1>3. r \in Scene /\ r.dirty /\ r.blink = s.blink /\ r.pattern = s.pattern
      /\ \A j \in Icons \ {i} : (j \in r.steady) <=> (j \in s.steady)
  BY <1>1, <1>2, SteadyIs
<1>4. Cardinality(Blinking(r)) <= MaxBlinks
  BY <1>2, <1>3, BlinkingIs DEF Sound
<1> QED BY <1>1, <1>3, <1>4 DEF Sets, Sound, Leaves

LEMMA BlinkStopSets ==
    ASSUME NEW s, Sound(s), NEW i \in Icons
    PROVE  Sets(s, BlinkStop(s, i), i) /\ BlinkStop(s, i).blink[i] = None
<1>1. PICK r : r = BlinkStop(s, i)
  OBVIOUS
<1>2. s \in Scene
  BY DEF Sound
<1>3. r \in Scene /\ r.dirty /\ r.blink = [s.blink EXCEPT ![i] = None] /\ r.pattern = s.pattern /\ r.steady = s.steady
  BY <1>1, <1>2, BlinkStopIs
<1>4. r.blink[i] = None /\ \A j \in Icons \ {i} : r.blink[j] = s.blink[j]
  BY <1>2, <1>3 DEF Scene
<1>5. Cardinality(Blinking(r)) <= MaxBlinks
  BY <1>2, <1>3, <1>4, BlinkingIs DEF Sound
<1> QED BY <1>1, <1>3, <1>4, <1>5 DEF Sets, Sound, Leaves

LEMMA PatternStopSets ==
    ASSUME NEW s, Sound(s), NEW i \in Icons
    PROVE  Sets(s, PatternStop(s, i), i)
<1>1. PICK r : r = PatternStop(s, i)
  OBVIOUS
<1>2. s \in Scene
  BY DEF Sound
<1>3. r \in Scene /\ r.dirty /\ r.pattern = [s.pattern EXCEPT ![i] = None] /\ r.blink = s.blink /\ r.steady = s.steady
  BY <1>1, <1>2, PatternStopIs
<1>4. r.pattern[i] = None /\ \A j \in Icons \ {i} : r.pattern[j] = s.pattern[j]
  BY <1>2, <1>3 DEF Scene
<1>5. Cardinality(Blinking(r)) <= MaxBlinks
  BY <1>2, <1>3, BlinkingIs DEF Sound
<1> QED BY <1>1, <1>3, <1>4, <1>5 DEF Sets, Sound, Leaves

LEMMA PhasesAre ==
    ASSUME NEW n \in 1..Len(ErrorPattern)
    PROVE  ErrorPattern[n].ticks \in Nat
<1>1. ErrorPattern[n] \in [ticks : Nat, visible : BOOLEAN]
  BY PatternHasPhases, ElementOfSeq
<1> QED BY <1>1

LEMMA PatternSets ==
    ASSUME NEW s, Sound(s), NEW i \in Icons
    PROVE  Sets(s, Pattern(s, i), i)
<1>1. PICK b : b = BlinkStop(s, i)
  OBVIOUS
<1>2. Sets(s, b, i) /\ b.blink[i] = None /\ b \in Scene
  BY <1>1, BlinkStopSets DEF Sets, Sound
<1>3. PICK slot \in PatternSlot : slot = [phase |-> 1, left |-> ErrorPattern[1].ticks]
  <2>1. 1 \in 1..Len(ErrorPattern)
    BY PatternHasPhases
  <2>2. ErrorPattern[1].ticks \in Nat
    BY <2>1, PhasesAre
  <2> QED BY <2>1, <2>2 DEF PatternSlot
<1>4. PICK f \in [Icons -> PatternSlot \cup {None}] : f = [b.pattern EXCEPT ![i] = slot]
  BY <1>2, Zenon DEF Scene
<1>5. PICK r : r = [b EXCEPT !.pattern = f]
  OBVIOUS
<1>6. r \in Scene /\ r.steady = b.steady /\ r.blink = b.blink /\ r.pattern = f /\ (r.dirty <=> b.dirty)
  BY <1>2, <1>5, Zenon DEF Scene
<1>7. Pattern(s, i) = r
  BY <1>1, <1>3, <1>4, <1>5, Zenon DEF Pattern
<1>8. Cardinality(Blinking(r)) <= MaxBlinks
  BY <1>2, <1>6, BlinkingIs DEF Sets, Sound
<1>9. \A j \in Icons \ {i} : r.pattern[j] = b.pattern[j]
  BY <1>2, <1>4, <1>6 DEF Scene
<1> QED BY <1>2, <1>6, <1>7, <1>8, <1>9 DEF Sets, Sound, Leaves

\* A blink that finds no slot leaves the scene; else it takes one.
LEMMA BlinkSets ==
    ASSUME NEW s, Sound(s), NEW i \in Icons, NEW cause \in Causes
    PROVE  Blink(s, i, cause) = s \/ Sets(s, Blink(s, i, cause), i)
<1>1. CASE i \notin Blinking(s) /\ Cardinality(Blinking(s)) >= MaxBlinks
  BY <1>1 DEF Blink
<1>2. CASE i \in Blinking(s) \/ ~(Cardinality(Blinking(s)) >= MaxBlinks)
  <2>1. PICK p : p = PatternStop(s, i)
    OBVIOUS
  <2>2. s \in Scene /\ p \in Scene /\ p.dirty /\ p.steady = s.steady /\ p.blink = s.blink
        /\ p.pattern = [s.pattern EXCEPT ![i] = None]
    BY <2>1, PatternStopIs DEF Sound
  <2>3. PICK slot \in BlinkSlot : slot = [lit |-> TRUE, left |-> Cadence[cause].on, cause |-> cause]
    <3>1. PICK ticks \in Nat : ticks = Cadence[cause].on
      BY CadencesAreTicks
    <3> QED BY <3>1, Zenon DEF BlinkSlot
  <2>4. PICK f \in [Icons -> BlinkSlot \cup {None}] : f = [p.blink EXCEPT ![i] = slot]
    BY <2>2, Zenon DEF Scene
  <2>5. PICK r : r = [p EXCEPT !.blink = f]
    OBVIOUS
  <2>6. r \in Scene /\ r.steady = s.steady /\ r.blink = f /\ r.pattern = p.pattern /\ r.dirty
    BY <2>2, <2>5, Zenon DEF Scene
  <2>7. Blink(s, i, cause) = r
    BY <1>2, <2>1, <2>3, <2>4, <2>5, Zenon DEF Blink
  <2>8. f[i] = slot /\ slot # None /\ \A j \in Icons \ {i} : f[j] = s.blink[j]
    BY <2>2, <2>3, <2>4, NoneIsNoSlot DEF Scene
  <2>9. \A j \in Icons : r.blink[j] = None \/ r.pattern[j] = None
    BY <2>2, <2>6, <2>8 DEF Sound, Scene
  <2>10. Cardinality(Blinking(r)) <= MaxBlinks
    <3>1. CASE i \in Blinking(s)
      BY <2>2, <2>6, <2>8, <3>1, BlinkingIs DEF Sound, Blinking
    <3>2. CASE i \notin Blinking(s)
      <4>1. Blinking(r) = Blinking(s) \cup {i}
        BY <2>6, <2>8 DEF Blinking
      <4>2. IsFiniteSet(Blinking(s))
        BY IconsAreFinite, FS_Subset DEF Blinking
      <4>3. Cardinality(Blinking(s)) \in Nat /\ Cardinality(Blinking(r)) = Cardinality(Blinking(s)) + 1
        BY <3>2, <4>1, <4>2, FS_AddElement, FS_CardinalityType
      <4> QED BY <1>2, <3>2, <4>3, IconsAreFinite
    <3> QED BY <3>1, <3>2
  <2> QED BY <2>6, <2>7, <2>8, <2>9, <2>10 DEF Sets, Sound, Leaves
<1> QED BY <1>1, <1>2

LEMMA DigitsSets ==
    ASSUME NEW s, Sound(s), NEW d \in Digits, NEW i
    PROVE  Sets(s, SetDigits(s, d), i)
<1>1. PICK k : k = [s EXCEPT !.digits = d]
  OBVIOUS
<1>2. s \in Scene
  BY DEF Sound
<1>3. k \in Scene /\ k.steady = s.steady /\ k.blink = s.blink /\ k.pattern = s.pattern
  BY <1>1, <1>2, Zenon DEF Scene
<1>4. PICK r : r = SetDigits(s, d)
  OBVIOUS
<1>5. r = Dirty(k)
  BY <1>1, <1>4, Zenon DEF SetDigits
<1>6. r \in Scene /\ r.dirty /\ r.steady = s.steady /\ r.blink = s.blink /\ r.pattern = s.pattern
  BY <1>3, <1>5, DirtyIs
<1>7. Cardinality(Blinking(r)) <= MaxBlinks
  BY <1>2, <1>6, BlinkingIs DEF Sound
<1> QED BY <1>4, <1>6, <1>7 DEF Sets, Sound, Leaves

LEMMA OtaSets ==
    ASSUME NEW s, Sound(s), NEW i
    PROVE  Sets(s, OtaShow(s), i) /\ Sets(s, OtaStop(s), i)
<1> s \in Scene
  BY DEF Sound
<1>1. ASSUME NEW on \in BOOLEAN, NEW r, r = Dirty([s EXCEPT !.ota = on]) PROVE Sets(s, r, i)
  <2>1. PICK k : k = [s EXCEPT !.ota = on]
    OBVIOUS
  <2>2. k \in Scene /\ k.steady = s.steady /\ k.blink = s.blink /\ k.pattern = s.pattern
    BY <2>1, Zenon DEF Scene
  <2>3. r \in Scene /\ r.dirty /\ r.steady = s.steady /\ r.blink = s.blink /\ r.pattern = s.pattern
    BY <1>1, <2>1, <2>2, DirtyIs
  <2>4. Cardinality(Blinking(r)) <= MaxBlinks
    BY <2>3, BlinkingIs DEF Sound
  <2> QED BY <2>3, <2>4 DEF Sets, Sound, Leaves
<1>2. OtaShow(s) = Dirty([s EXCEPT !.ota = TRUE]) /\ OtaStop(s) = Dirty([s EXCEPT !.ota = FALSE])
  BY Zenon DEF OtaShow, OtaStop
<1> QED BY <1>1, <1>2

\* Changes in a row.
LEMMA SetsOn ==
    ASSUME NEW s, NEW r, NEW t, NEW i, r = s \/ Sets(s, r, i), Sets(r, t, i)
    PROVE  Sets(s, t, i)
BY DEF Sets, Leaves

LEMMA SteadySets ==
    ASSUME NEW s, Sound(s), NEW i \in Icons, NEW on \in BOOLEAN
    PROVE  /\ Sets(s, Steady(s, i, on), i)
           /\ Steady(s, i, on).blink[i] = None /\ ((i \in Steady(s, i, on).steady) <=> on)
<1>1. PICK b : b = BlinkStop(s, i)
  OBVIOUS
<1>2. Sets(s, b, i) /\ b.blink[i] = None
  BY <1>1, BlinkStopSets
<1>3. PICK r : r = IconSet(b, i, on)
  OBVIOUS
<1>4. Sets(b, r, i) /\ r.blink = b.blink /\ ((i \in r.steady) <=> on)
  BY <1>2, <1>3, IconSetSets, SteadyIs DEF Sets, Sound
<1>5. Steady(s, i, on) = r
  BY <1>1, <1>3 DEF Steady
<1> QED BY <1>2, <1>4, <1>5, SetsOn

LEMMA BlinksSets ==
    ASSUME NEW s, Sound(s), NEW i \in Icons, NEW cause \in Causes
    PROVE  Sets(s, Blinks(s, i, cause), i)
<1>1. PICK r : r = IconSet(s, i, FALSE)
  OBVIOUS
<1>2. Sets(s, r, i)
  BY <1>1, IconSetSets
<1>3. Blinks(s, i, cause) = Blink(r, i, cause)
  BY <1>1 DEF Blinks
<1>4. Blink(r, i, cause) = r \/ Sets(r, Blink(r, i, cause), i)
  BY <1>2, BlinkSets DEF Sets
<1> QED BY <1>2, <1>3, <1>4, SetsOn

\* The bars of the broker, each of which may be absent.
Bars == {"bar_orange", "bar_green"}
LeavesBut(s, r, I) == \A j \in Icons \ I : ((j \in r.steady) <=> (j \in s.steady)) /\ r.blink[j] = s.blink[j]
LEMMA ClearBarSets ==
    ASSUME NEW s, Sound(s), NEW i \in Icons
    PROVE  Sets(s, ClearBar(s, i), i)
<1>1. PICK p : p = PatternStop(s, i)
  OBVIOUS
<1>2. Sets(s, p, i)
  BY <1>1, PatternStopSets
<1>3. PICK b : b = BlinkStop(p, i)
  OBVIOUS
<1>4. Sets(p, b, i)
  BY <1>2, <1>3, BlinkStopSets DEF Sets
<1>5. PICK r : r = IconSet(b, i, FALSE)
  OBVIOUS
<1>6. Sets(b, r, i)
  BY <1>4, <1>5, IconSetSets DEF Sets
<1>7. ClearBar(s, i) = r
  BY <1>1, <1>3, <1>5 DEF ClearBar
<1> QED BY <1>2, <1>4, <1>6, <1>7, SetsOn

LEMMA BarsSet ==
    ASSUME NEW s, Sound(s), Bars \subseteq Icons
    PROVE  \A r : r \in {Blink(ClearBars(s), "bar_orange", "mqtt_connecting"), IconSet(ClearBars(s), "bar_green", TRUE),
                         Pattern(ClearBars(s), "bar_orange"), ClearBars(s)} =>
                 Sound(r) /\ r.dirty /\ LeavesBut(s, r, Bars)
<1>0. "bar_orange" \in Icons /\ "bar_green" \in Icons
  BY DEF Bars
<1>1. PICK o : o = ClearBar(s, "bar_orange")
  OBVIOUS
<1>2. Sets(s, o, "bar_orange")
  BY <1>0, <1>1, ClearBarSets
<1>3. PICK c : c = ClearBar(o, "bar_green")
  OBVIOUS
<1>4. Sets(o, c, "bar_green")
  BY <1>0, <1>2, <1>3, ClearBarSets DEF Sets
<1>5. ClearBars(s) = c
  BY <1>1, <1>3 DEF ClearBars
<1>6. Sound(c) /\ c.dirty /\ LeavesBut(s, c, Bars)
  BY <1>2, <1>4 DEF Sets, Leaves, LeavesBut, Bars
<1>7. ASSUME NEW r, NEW i \in Bars, r = c \/ Sets(c, r, i) PROVE Sound(r) /\ r.dirty /\ LeavesBut(s, r, Bars)
  BY <1>6, <1>7 DEF Sets, Leaves, LeavesBut
<1>8. "mqtt_connecting" \in Causes
  BY DEF Causes
<1>9. /\ Blink(c, "bar_orange", "mqtt_connecting") = c \/ Sets(c, Blink(c, "bar_orange", "mqtt_connecting"), "bar_orange")
      /\ Sets(c, IconSet(c, "bar_green", TRUE), "bar_green") /\ Sets(c, Pattern(c, "bar_orange"), "bar_orange")
  BY <1>0, <1>6, <1>8, BlinkSets, IconSetSets, PatternSets
<1>10. "bar_orange" \in Bars /\ "bar_green" \in Bars
  BY DEF Bars
<1> QED BY <1>5, <1>6, <1>7, <1>9, <1>10

LEMMA BowlSets ==
    ASSUME NEW s, Sound(s), NEW e \in {"none", "missing", "cal_incomplete", "span_pending"}, NEW d \in Digits
    PROVE  Sets(s, SetDigits(BowlSync(s, e), d), "bowl_error")
<1>1. PICK b : b = BowlSync(s, e)
  OBVIOUS
<1>2. b = s \/ Sets(s, b, "bowl_error")
  <2>1. CASE "bowl_error" \notin Icons
    BY <1>1, <2>1 DEF BowlSync
  <2>2. CASE "bowl_error" \in Icons
    <3>1. "cal_incomplete" \in Causes /\ "span_pending" \in Causes
      BY DEF Causes
    <3>2. /\ e \in {"cal_incomplete", "span_pending"} => b = Blinks(s, "bowl_error", e)
          /\ e = "missing" => b = Steady(s, "bowl_error", TRUE)
          /\ e = "none" => b = Steady(s, "bowl_error", FALSE)
      BY <1>1, <2>2 DEF BowlSync
    <3> QED BY <2>2, <3>1, <3>2, BlinksSets, SteadySets
  <2> QED BY <2>1, <2>2
<1>3. Sound(b)
  BY <1>2 DEF Sets
<1> QED BY <1>1, <1>2, <1>3, DigitsSets, SetsOn

-----------------------------------------------------------------------------
\* Time: what blinks goes on blinking.
LEMMA BlinkAges ==
    ASSUME NEW s \in Scene, NEW i \in Icons
    PROVE  BlinkAged(s, i) \in BlinkSlot \cup {None} /\ (BlinkAged(s, i) = None <=> s.blink[i] = None)
<1>1. PICK b \in BlinkSlot \cup {None} : b = s.blink[i]
  BY DEF Scene
<1>2. CASE b = None \/ Frozen(s, i)
  BY <1>1, <1>2 DEF BlinkAged
<1>3. CASE b # None /\ ~Frozen(s, i)
  <2>1. b.left \in Nat /\ b.cause \in Causes
    BY <1>1, <1>3 DEF BlinkSlot
  <2>2. b \in BlinkSlot
    BY <1>3
  <2>3. CASE b.left > 1
    <3>1. PICK n \in Nat : n = b.left - 1
      BY <2>1, <2>3
    <3>2. PICK r : r = [b EXCEPT !.left = n]
      OBVIOUS
    <3>3. r \in BlinkSlot
      BY <2>2, <3>2, Zenon DEF BlinkSlot
    <3>4. BlinkAged(s, i) = r
      BY <1>1, <1>3, <2>3, <3>1, <3>2, Zenon DEF BlinkAged
    <3> QED BY <1>1, <1>3, <3>3, <3>4, NoneIsNoSlot
  <2>4. CASE ~(b.left > 1)
    <3>1. PICK n \in Nat : n = IF b.lit THEN Cadence[b.cause].off ELSE Cadence[b.cause].on
      <4>1. Cadence[b.cause].off \in Nat /\ Cadence[b.cause].on \in Nat
        BY <2>1, CadencesAreTicks
      <4> QED BY <4>1
    <3>2. PICK r : r = [b EXCEPT !.lit = ~@, !.left = n]
      OBVIOUS
    <3>3. r \in BlinkSlot
      BY <2>2, <3>2, Zenon DEF BlinkSlot
    <3>4. BlinkAged(s, i) = r
      BY <1>1, <1>3, <2>4, <3>1, <3>2, Zenon DEF BlinkAged
    <3> QED BY <1>1, <1>3, <3>3, <3>4, NoneIsNoSlot
  <2> QED BY <2>3, <2>4
<1> QED BY <1>2, <1>3

LEMMA PatternAges ==
    ASSUME NEW s \in Scene, NEW i \in Icons
    PROVE  PatternAged(s, i) \in PatternSlot \cup {None} /\ (PatternAged(s, i) = None <=> s.pattern[i] = None)
<1>1. PICK p \in PatternSlot \cup {None} : p = s.pattern[i]
  BY DEF Scene
<1>2. CASE p = None \/ Frozen(s, i)
  BY <1>1, <1>2 DEF PatternAged
<1>3. CASE p # None /\ ~Frozen(s, i)
  <2>1. p \in PatternSlot /\ p.phase \in 1..Len(ErrorPattern) /\ p.left \in Nat
    BY <1>1, <1>3 DEF PatternSlot
  <2>2. CASE p.left > 1
    <3>1. PICK n \in Nat : n = p.left - 1
      BY <2>1, <2>2
    <3>2. PICK r : r = [p EXCEPT !.left = n]
      OBVIOUS
    <3>3. r \in PatternSlot
      BY <2>1, <3>2, Zenon DEF PatternSlot
    <3>4. PatternAged(s, i) = r
      BY <1>1, <1>3, <2>2, <3>1, <3>2, Zenon DEF PatternAged
    <3> QED BY <1>1, <1>3, <3>3, <3>4, NoneIsNoSlot
  <2>3. CASE ~(p.left > 1)
    <3>1. PICK next \in 1..Len(ErrorPattern) : next = (p.phase % Len(ErrorPattern)) + 1
      <4>1. PICK len \in Nat \ {0} : len = Len(ErrorPattern)
        BY PatternHasPhases
      <4>2. p.phase % len \in 0..(len - 1)
        BY <2>1, <4>1
      <4> QED BY <4>1, <4>2
    <3>2. PICK n \in Nat : n = ErrorPattern[next].ticks
      BY PhasesAre
    <3>3. PICK r : r = [phase |-> next, left |-> n]
      OBVIOUS
    <3>4. r \in PatternSlot
      BY <3>3, Zenon DEF PatternSlot
    <3>5. PatternAged(s, i) = r
      BY <1>1, <1>3, <2>3, <3>1, <3>2, <3>3, Zenon DEF PatternAged
    <3> QED BY <1>1, <1>3, <3>4, <3>5, NoneIsNoSlot
  <2> QED BY <2>2, <2>3
<1> QED BY <1>2, <1>3

LEMMA AgedKeeps ==
    ASSUME NEW s, Sound(s)
    PROVE  /\ Sound(Aged(s)) /\ (Aged(s).dirty <=> s.dirty) /\ Aged(s).steady = s.steady
           /\ Aged(s).digits = s.digits /\ (Aged(s).ota <=> s.ota)
           /\ \A i \in Icons : /\ Aged(s).blink[i] = None <=> s.blink[i] = None
                               /\ Aged(s).pattern[i] = None <=> s.pattern[i] = None
<1> s \in Scene
  BY DEF Sound
<1>1. PICK f : f = [i \in Icons |-> BlinkAged(s, i)]
  OBVIOUS
<1>2. f \in [Icons -> BlinkSlot \cup {None}] /\ \A i \in Icons : f[i] = None <=> s.blink[i] = None
  BY <1>1, BlinkAges, Zenon
<1>3. PICK g : g = [i \in Icons |-> PatternAged(s, i)]
  OBVIOUS
<1>4. g \in [Icons -> PatternSlot \cup {None}] /\ \A i \in Icons : g[i] = None <=> s.pattern[i] = None
  BY <1>3, PatternAges, Zenon
<1>5. PICK r : r = [s EXCEPT !.blink = f, !.pattern = g]
  OBVIOUS
<1>6. r \in Scene /\ r.blink = f /\ r.pattern = g /\ r.steady = s.steady /\ r.digits = s.digits
      /\ (r.ota <=> s.ota) /\ (r.dirty <=> s.dirty)
  BY <1>2, <1>4, <1>5, Zenon DEF Scene
<1>7. Aged(s) = r
  BY <1>1, <1>3, <1>5, Zenon DEF Aged
<1>8. Cardinality(Blinking(r)) <= MaxBlinks
  BY <1>2, <1>6, BlinkingIs DEF Sound
<1>9. Sound(r)
  BY <1>2, <1>4, <1>6, <1>8 DEF Sound
<1> QED BY <1>2, <1>4, <1>6, <1>7, <1>9

-----------------------------------------------------------------------------
\* What is drawn.
LockShown(s, on) == "child_lock" \in Icons => (("child_lock" \in s.steady) <=> on) /\ s.blink["child_lock"] = None
DrawnAs(s, p) == /\ p.digits = Picture(s).digits
                 /\ \A i \in Icons \ (Blinking(s) \cup Patterned(s)) : (i \in p.icons) <=> (i \in Mask(s))
\* What a picture takes from the scene, blinks and patterns apart.
Alike(s, r) == /\ r.steady = s.steady /\ r.digits = s.digits /\ (r.ota <=> s.ota)
               /\ \A i \in Icons : /\ r.blink[i] = None <=> s.blink[i] = None
                                   /\ r.pattern[i] = None <=> s.pattern[i] = None

LEMMA RestedAre ==
    ASSUME NEW s, NEW i \in Icons, i \notin Blinking(s) \cup Patterned(s)
    PROVE  (i \in Mask(s)) <=> ((s.ota => i = "wifi") /\ i \in s.steady)
<1>1. s.blink[i] = None /\ s.pattern[i] = None
  BY DEF Blinking, Patterned
<1>2. Visible(s, i) <=> i \in s.steady
  BY <1>1, Zenon DEF Visible
<1> QED BY <1>2 DEF Mask

LEMMA DrawnKept ==
    ASSUME NEW s, NEW r, NEW p, DrawnAs(s, p), Alike(s, r)
    PROVE  DrawnAs(r, p)
<1>1. Blinking(r) = Blinking(s) /\ Patterned(r) = Patterned(s)
  BY DEF Alike, Blinking, Patterned
<1>2. Picture(r).digits = Picture(s).digits
  BY DEF Alike, Picture
<1>3. \A i \in Icons \ (Blinking(r) \cup Patterned(r)) : (i \in Mask(r)) <=> (i \in Mask(s))
  BY <1>1, RestedAre DEF Alike
<1> QED BY <1>1, <1>2, <1>3 DEF DrawnAs

LEMMA CleanIs ==
    ASSUME NEW s, Sound(s)
    PROVE  Sound([s EXCEPT !.dirty = FALSE]) /\ Alike(s, [s EXCEPT !.dirty = FALSE])
<1>1. PICK r : r = [s EXCEPT !.dirty = FALSE]
  OBVIOUS
<1>2. s \in Scene
  BY DEF Sound
<1>3. r \in Scene /\ r.steady = s.steady /\ r.blink = s.blink /\ r.pattern = s.pattern /\ r.digits = s.digits /\ (r.ota <=> s.ota)
  BY <1>1, <1>2, Zenon DEF Scene
<1>4. Cardinality(Blinking(r)) <= MaxBlinks
  BY <1>2, <1>3, BlinkingIs DEF Sound
<1> QED BY <1>1, <1>3, <1>4 DEF Sound, Alike

\* A refresh that is refused leaves a scene that was dirty dirty.
LEMMA RefreshKept ==
    ASSUME NEW s, Sound(s), ~s.dirty => DrawnAs(s, shown), Refresh(s)
    PROVE  Sound(sc') /\ (~sc'.dirty => DrawnAs(sc', shown')) /\ Alike(s, sc')
<1>1. CASE sc' = [s EXCEPT !.dirty = FALSE] /\ shown' = Picture(s)
  <2>1. DrawnAs(s, shown')
    BY <1>1 DEF DrawnAs, Picture
  <2>2. Sound(sc') /\ Alike(s, sc')
    BY <1>1, CleanIs
  <2> QED BY <2>1, <2>2, DrawnKept
<1>2. CASE sc' = s /\ UNCHANGED shown
  BY <1>2 DEF Alike
<1> QED BY <1>1, <1>2 DEF Refresh

-----------------------------------------------------------------------------
\* The invariant: the scene is sound, what was drawn last is the scene when
\* it is not dirty, and the lock's icon is the lock unless the feedback is on.
PanelInv ==
    /\ Sound(sc) /\ lock \in BOOLEAN /\ feedback \in 0..FeedbackTicks /\ sample \in 0..(SampleEvery - 1)
    /\ bowl.error \in {"none", "missing", "cal_incomplete", "span_pending"} /\ bowl.digits \in {"grams", "dash"}
    /\ ~sc.dirty => DrawnAs(sc, shown)
    /\ IF feedback = 0 THEN LockShown(sc, lock) ELSE "child_lock" \in Icons

\* The lock's icon survives what touches other icons.
LEMMA LockStays ==
    ASSUME NEW s, NEW r, NEW I, LeavesBut(s, r, I), "child_lock" \notin I, NEW on, LockShown(s, on)
    PROVE  LockShown(r, on)
BY DEF LeavesBut, LockShown

LEMMA SetsLeaves ==
    ASSUME NEW s, NEW r, NEW i, Sets(s, r, i)
    PROVE  Sound(r) /\ r.dirty /\ LeavesBut(s, r, {i})
BY DEF Sets, Leaves, LeavesBut

LEMMA LockStaysAlike ==
    ASSUME NEW s, NEW r, Alike(s, r), NEW on, LockShown(s, on)
    PROVE  LockShown(r, on)
BY DEF Alike, LockShown

\* An indicator that leaves the lock's icon alone, drawn later or at once.
LEMMA IndicatorKept ==
    ASSUME PanelInv, NEW r, NEW I, Sound(r), r.dirty, LeavesBut(sc, r, I), "child_lock" \notin I,
           Unshown(r) \/ Refresh(r), UNCHANGED <<feedback, lock, bowl, sample>>
    PROVE  PanelInv'
<1>1. Sound(sc') /\ (~sc'.dirty => DrawnAs(sc', shown')) /\ Alike(r, sc')
  <2>1. CASE Unshown(r)
    BY <2>1 DEF Unshown, Alike
  <2>2. CASE Refresh(r)
    BY <2>2, RefreshKept
  <2> QED BY <2>1, <2>2
<1>2. feedback' = 0 => LockShown(sc', lock')
  BY <1>1, LockStays, LockStaysAlike DEF PanelInv
<1> QED BY <1>1, <1>2 DEF PanelInv

LEMMA WifiKept ==
    ASSUME PanelInv, NEW p, WifiIndicator(p)
    PROVE  PanelInv'
<1>1. "wifi" \in Icons /\ Sound(sc)
  BY DEF WifiIndicator, PanelInv
<1>2. "wifi_connecting" \in Causes /\ "wifi_ap" \in Causes
  BY DEF Causes
<1>3. PICK r : /\ Unshown(r)
               /\ r \in {Blinks(sc, "wifi", "wifi_connecting"), Blinks(sc, "wifi", "wifi_ap"),
                        Steady(sc, "wifi", TRUE), Steady(sc, "wifi", FALSE)}
  <2>1. CASE p = "connecting"
    BY <2>1 DEF WifiIndicator
  <2>2. CASE p = "ap"
    BY <2>2 DEF WifiIndicator
  <2>3. CASE p = "connected"
    BY <2>3 DEF WifiIndicator
  <2>4. CASE p \notin {"connecting", "ap", "connected"}
    BY <2>4 DEF WifiIndicator
  <2> QED BY <2>1, <2>2, <2>3, <2>4
<1>4. Sets(sc, r, "wifi")
  BY <1>1, <1>2, <1>3, BlinksSets, SteadySets
<1>5. Sound(r) /\ r.dirty /\ LeavesBut(sc, r, {"wifi"}) /\ "child_lock" \notin {"wifi"}
  BY <1>4, SetsLeaves
<1>6. UNCHANGED <<feedback, lock, bowl, sample>>
  BY DEF WifiIndicator
<1> QED BY <1>3, <1>5, <1>6, IndicatorKept

LEMMA MqttKept ==
    ASSUME PanelInv, NEW p, MqttIndicator(p)
    PROVE  PanelInv'
<1>1. Bars \subseteq Icons /\ Sound(sc)
  BY DEF MqttIndicator, PanelInv, Bars
<1>2. PICK r : /\ Unshown(r)
               /\ r \in {Blink(ClearBars(sc), "bar_orange", "mqtt_connecting"), IconSet(ClearBars(sc), "bar_green", TRUE),
                        Pattern(ClearBars(sc), "bar_orange"), ClearBars(sc)}
  <2>1. CASE p = "connecting"
    BY <2>1 DEF MqttIndicator
  <2>2. CASE p = "connected"
    BY <2>2 DEF MqttIndicator
  <2>3. CASE p = "error"
    BY <2>3 DEF MqttIndicator
  <2>4. CASE p \notin {"connecting", "error", "connected"}
    BY <2>4 DEF MqttIndicator
  <2> QED BY <2>1, <2>2, <2>3, <2>4
<1>3. Sound(r) /\ r.dirty /\ LeavesBut(sc, r, Bars) /\ "child_lock" \notin Bars
  <2>1. "child_lock" \notin Bars
    BY DEF Bars
  <2> QED BY <1>1, <1>2, <2>1, BarsSet
<1>4. UNCHANGED <<feedback, lock, bowl, sample>>
  BY DEF MqttIndicator
<1> QED BY <1>2, <1>3, <1>4, IndicatorKept

LEMMA DispenseKept ==
    ASSUME PanelInv, NEW active \in BOOLEAN, DispenseIndicator(active)
    PROVE  PanelInv'
<1>1. "dispensing" \in Icons /\ Sound(sc) /\ UNCHANGED <<feedback, lock, bowl, sample>> /\ "dispensing" \in Causes
  BY DEF DispenseIndicator, PanelInv, Causes
<1>2. PICK s : s = IconSet(sc, "dispensing", FALSE)
  OBVIOUS
<1>3. PICK b : b = Blink(s, "dispensing", "dispensing")
  OBVIOUS
<1>4. PICK t : t = Steady(sc, "dispensing", FALSE)
  OBVIOUS
<1>5. Sets(sc, s, "dispensing") /\ Sets(sc, t, "dispensing")
  BY <1>1, <1>2, <1>4, IconSetSets, SteadySets
<1>6. b = s \/ Sets(s, b, "dispensing")
  BY <1>1, <1>3, <1>5, BlinkSets DEF Sets
<1>7. Sets(sc, b, "dispensing")
  BY <1>5, <1>6, SetsOn
<1>8. Unshown(s) \/ Refresh(b) \/ Refresh(t)
  BY <1>2, <1>3, <1>4 DEF DispenseIndicator
<1>9. PICK r \in {s, b, t} : Unshown(r) \/ Refresh(r)
  BY <1>8
<1>10. Sound(r) /\ r.dirty /\ LeavesBut(sc, r, {"dispensing"}) /\ "child_lock" \notin {"dispensing"}
  BY <1>5, <1>7, <1>9, SetsLeaves
<1> QED BY <1>1, <1>9, <1>10, IndicatorKept

LEMMA OtaKept ==
    ASSUME PanelInv, NEW active \in BOOLEAN, OtaIndicator(active)
    PROVE  PanelInv'
<1>1. Sound(sc) /\ UNCHANGED <<feedback, lock, bowl, sample>>
  BY DEF OtaIndicator, PanelInv
<1>2. PICK r : Unshown(r) /\ r \in {OtaShow(sc), OtaStop(sc)}
  BY DEF OtaIndicator
<1>3. Sets(sc, r, "wifi")
  BY <1>1, <1>2, OtaSets
<1>4. Sound(r) /\ r.dirty /\ LeavesBut(sc, r, {"wifi"}) /\ "child_lock" \notin {"wifi"}
  BY <1>3, SetsLeaves
<1> QED BY <1>1, <1>2, <1>4, IndicatorKept

\* The lock's own feedback, whose end shows the lock again.
LEMMA LockSynced ==
    ASSUME NEW s, Sound(s), "child_lock" \in Icons, NEW on \in BOOLEAN
    PROVE  LET r == LockSync(s, FALSE, on) IN Sound(r) /\ r.dirty /\ LockShown(r, on)
<1>1. LockSync(s, FALSE, on) = Steady(s, "child_lock", on)
  BY DEF LockSync, Steady
<1>2. PICK r : r = Steady(s, "child_lock", on)
  OBVIOUS
<1>3. Sets(s, r, "child_lock") /\ r.blink["child_lock"] = None /\ (("child_lock" \in r.steady) <=> on)
  BY <1>2, SteadySets, Zenon
<1>4. LockShown(r, on)
  BY <1>3, Zenon DEF LockShown
<1> QED BY <1>1, <1>2, <1>3, <1>4 DEF Sets

LEMMA BlockedKept ==
    ASSUME PanelInv, BlockedFeedback
    PROVE  PanelInv'
<1>1. /\ "child_lock" \in Icons /\ Sound(sc) /\ "child_lock" \in Causes /\ "blank" \in Digits
      /\ feedback' = FeedbackTicks /\ UNCHANGED <<lock, bowl, sample>>
  BY DEF BlockedFeedback, PanelInv, Causes, Digits
<1>2. PICK d : d = SetDigits(sc, "blank")
  OBVIOUS
<1>3. Sets(sc, d, "child_lock")
  BY <1>1, <1>2, DigitsSets
<1>4. PICK r : r = Blinks(d, "child_lock", "child_lock")
  OBVIOUS
<1>5. Sets(d, r, "child_lock")
  BY <1>1, <1>3, <1>4, BlinksSets DEF Sets
<1>6. Sound(r) /\ r.dirty /\ Refresh(r)
  BY <1>2, <1>4, <1>5 DEF BlockedFeedback, Sets
<1>7. Sound(sc') /\ (~sc'.dirty => DrawnAs(sc', shown'))
  BY <1>6, RefreshKept
<1> QED BY <1>1, <1>7, PeriodsAreTicks DEF PanelInv

LEMMA ToggleKept ==
    ASSUME PanelInv, LockToggle
    PROVE  PanelInv'
<1>1. /\ "child_lock" \in Icons /\ Sound(sc) /\ lock \in BOOLEAN
      /\ feedback' = 0 /\ UNCHANGED <<bowl, sample>> /\ 0 \in 0..FeedbackTicks
  BY PeriodsAreTicks DEF LockToggle, PanelInv
<1>2. PICK on \in BOOLEAN : on = ~lock
  BY <1>1
<1>3. lock' = on
  BY <1>2 DEF LockToggle
<1>4. PICK s : s = IF feedback > 0 THEN BlinkStop(sc, "child_lock") ELSE sc
  OBVIOUS
<1>5. Sound(s)
  BY <1>1, <1>4, BlinkStopSets DEF Sets
<1>6. PICK r : r = LockSync(s, FALSE, on)
  OBVIOUS
<1>7. Sound(r) /\ r.dirty /\ LockShown(r, on)
  BY <1>1, <1>5, <1>6, LockSynced
<1>8. sc' = r /\ shown' = shown
  BY <1>3, <1>4, <1>6, Zenon DEF LockToggle, Unshown
<1> QED BY <1>1, <1>3, <1>7, <1>8 DEF PanelInv

\* A tick: the sample, the ageing, the end of the feedback and the drawing.
LEMMA RestoredIs ==
    ASSUME NEW s, Sound(s), PanelInv, feedback = 1
    PROVE  Sound(Restored(s)) /\ Restored(s).dirty /\ LockShown(Restored(s), lock)
<1>0. "child_lock" \in Icons /\ lock \in BOOLEAN /\ bowl.digits \in Digits /\ bowl.error \in {"none", "missing", "cal_incomplete", "span_pending"}
  BY DEF PanelInv, Digits
<1>1. PICK b : b = BlinkStop(s, "child_lock")
  OBVIOUS
<1>2. PICK k : k = LockSync(b, FALSE, lock)
  OBVIOUS
<1>3. Restored(s) = SceneSync(k)
  BY <1>1, <1>2 DEF Restored
<1>4. Sound(b)
  BY <1>0, <1>1, BlinkStopSets DEF Sets
<1>5. Sound(k) /\ LockShown(k, lock)
  BY <1>0, <1>2, <1>4, LockSynced
<1>6. Sets(k, SceneSync(k), "bowl_error")
  BY <1>0, <1>5, BowlSets DEF SceneSync
<1>7. Sound(SceneSync(k)) /\ SceneSync(k).dirty /\ LeavesBut(k, SceneSync(k), {"bowl_error"})
  BY <1>6, SetsLeaves
<1> QED BY <1>3, <1>5, <1>7, LockStays

LEMMA TickKept ==
    ASSUME PanelInv, PanelTick
    PROVE  PanelInv'
<1> DEFINE Drawing(sampled, aged, drawn) ==
             /\ sample' = IF feedback > 0 THEN sample ELSE IF sample = 0 THEN SampleEvery - 1 ELSE sample - 1
             /\ feedback' = IF feedback > 0 THEN feedback - 1 ELSE 0
             /\ IF feedback = 1 \/ Moved(sampled, aged) THEN Refresh(drawn) ELSE Unshown(drawn)
             /\ UNCHANGED <<lock, bowl, pics>>
<1>1. PICK sampled : sampled = IF SampleDue THEN SceneSync(sc) ELSE sc
  OBVIOUS
<1>2. PICK aged : aged = Aged(sampled)
  OBVIOUS
<1>3. PICK drawn : drawn = (IF feedback = 1 THEN Restored(aged) ELSE aged) /\ Drawing(sampled, aged, drawn)
  BY <1>1, <1>2 DEF PanelTick
<1>4. sampled = sc \/ Sets(sc, sampled, "bowl_error")
  <2>1. bowl.digits \in Digits
    BY DEF PanelInv, Digits
  <2> QED BY <1>1, <2>1, BowlSets DEF PanelInv, SceneSync
<1>5. Sound(sampled) /\ (~sampled.dirty => DrawnAs(sampled, shown)) /\ (feedback = 0 => LockShown(sampled, lock))
  <2>1. CASE sampled = sc
    BY <2>1 DEF PanelInv
  <2>2. CASE Sets(sc, sampled, "bowl_error")
    <3>1. Sound(sampled) /\ sampled.dirty /\ LeavesBut(sc, sampled, {"bowl_error"})
      BY <2>2, SetsLeaves
    <3>2. feedback = 0 => LockShown(sampled, lock)
      BY <3>1, LockStays DEF PanelInv
    <3> QED BY <3>1, <3>2
  <2> QED BY <1>4, <2>1, <2>2
<1>6. Sound(aged) /\ Alike(sampled, aged) /\ (aged.dirty <=> sampled.dirty)
  BY <1>2, <1>5, AgedKeeps DEF Alike
<1>7. (~aged.dirty => DrawnAs(aged, shown)) /\ (feedback = 0 => LockShown(aged, lock))
  BY <1>5, <1>6, DrawnKept, LockStaysAlike
<1>8. Sound(drawn) /\ (~drawn.dirty => DrawnAs(drawn, shown)) /\ (feedback \in {0, 1} => LockShown(drawn, lock))
  <2>1. CASE feedback = 1
    BY <1>3, <1>6, <2>1, RestoredIs
  <2>2. CASE feedback # 1
    BY <1>3, <1>6, <1>7, <2>2
  <2> QED BY <2>1, <2>2
<1>9. Sound(sc') /\ (~sc'.dirty => DrawnAs(sc', shown')) /\ Alike(drawn, sc')
  <2>1. CASE Refresh(drawn)
    BY <1>8, <2>1, RefreshKept
  <2>2. CASE Unshown(drawn)
    BY <1>8, <2>2 DEF Unshown, Alike
  <2> QED BY <1>3, <2>1, <2>2
<1>10. sample' \in 0..(SampleEvery - 1) /\ feedback' \in 0..FeedbackTicks /\ (feedback' = 0 => feedback \in {0, 1})
  BY <1>3, PeriodsAreTicks DEF PanelInv
<1>11. feedback' = 0 => LockShown(sc', lock')
  BY <1>3, <1>8, <1>9, <1>10, LockStaysAlike
<1> QED BY <1>3, <1>9, <1>10, <1>11 DEF PanelInv

LEMMA PanelBegins == PanelInit => PanelInv
<1> SUFFICES ASSUME PanelInit PROVE PanelInv
  OBVIOUS
<1>1. sc \in Scene
  BY Zenon DEF PanelInit, Scene, Digits
<1>2. Blinking(sc) = {} /\ \A i \in Icons : sc.blink[i] = None
  BY DEF PanelInit, Blinking
<1>3. Cardinality(Blinking(sc)) <= MaxBlinks
  BY <1>2, FS_EmptySet, IconsAreFinite
<1>4. DrawnAs(sc, shown)
  BY DEF PanelInit, DrawnAs, Picture
<1>5. LockShown(sc, lock)
  BY <1>2, Zenon DEF PanelInit, LockShown
<1>6. bowl.error = "none" /\ bowl.digits = "grams" /\ lock \in BOOLEAN /\ feedback = 0 /\ sample = 0
  BY DEF PanelInit
<1> QED BY <1>1, <1>2, <1>3, <1>4, <1>5, <1>6, PeriodsAreTicks DEF PanelInv, Sound

LEMMA PanelKept == PanelInv /\ [PanelNext]_panelVars => PanelInv'
<1> SUFFICES ASSUME PanelInv, [PanelNext]_panelVars PROVE PanelInv'
  OBVIOUS
<1>1. CASE PanelTick
  BY <1>1, TickKept
<1>2. CASE BlockedFeedback
  BY <1>2, BlockedKept
<1>3. CASE LockToggle
  BY <1>3, ToggleKept
<1>4. CASE \E p \in {"connecting", "ap", "connected", "off"} : WifiIndicator(p)
  BY <1>4, WifiKept
<1>5. CASE \E p \in {"connecting", "connected", "error", "off"} : MqttIndicator(p)
  BY <1>5, MqttKept
<1>6. CASE \E a \in BOOLEAN : DispenseIndicator(a) \/ OtaIndicator(a)
  BY <1>6, DispenseKept, OtaKept
<1>7. CASE \E e \in {"none", "missing", "cal_incomplete", "span_pending"}, d \in {"grams", "dash"} : BowlChanges(e, d)
  BY <1>7 DEF BowlChanges, PanelInv
<1>8. CASE UNCHANGED panelVars
  BY <1>8 DEF panelVars, PanelInv
<1> QED BY <1>1, <1>2, <1>3, <1>4, <1>5, <1>6, <1>7, <1>8 DEF PanelNext

\* The panel shows the scene, and the lock, for any icons, any number of slots
\* for blinking, any cadences and any length of the feedback (PanelShows).
THEOREM PanelIsShown == PanelSpec => []PanelShows
<1>1. PanelInv => PanelShows
  <2> SUFFICES ASSUME PanelInv PROVE PanelShows
    OBVIOUS
  <2>1. PanelTypeOK
    BY DEF PanelInv, PanelTypeOK, Sound, Scene, Digits
  <2>2. "child_lock" \in Icons /\ feedback = 0 => ("child_lock" \in sc.steady) = lock /\ "child_lock" \notin Blinking(sc)
    <3>1. PICK on \in BOOLEAN : on = lock
      BY DEF PanelInv
    <3>2. PICK shows \in BOOLEAN : shows <=> "child_lock" \in sc.steady
      OBVIOUS
    <3>3. "child_lock" \in Icons /\ feedback = 0 => (shows <=> on) /\ sc.blink["child_lock"] = None
      BY <3>1, <3>2 DEF PanelInv, LockShown
    <3>4. (shows <=> on) => shows = on
      OBVIOUS
    <3>5. ("child_lock" \in sc.steady) = shows
      BY <3>2
    <3> QED BY <3>1, <3>3, <3>4, <3>5 DEF Blinking
  <2>3. ~sc.dirty => /\ shown.digits = Picture(sc).digits
                     /\ \A i \in Icons \ (Blinking(sc) \cup Patterned(sc)) : (i \in shown.icons) = (i \in Mask(sc))
    BY DEF PanelInv, DrawnAs
  <2> QED BY <2>1, <2>2, <2>3 DEF PanelShows
<1> QED BY <1>1, PanelBegins, PanelKept, PTL DEF PanelSpec
=============================================================================
