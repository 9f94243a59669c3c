---- MODULE Provision ----
(***************************************************************************)
(* Provisioning: the task that opens the access point and its portal when  *)
(* no network is stored (provision.c), the list of networks of a scan      *)
(* (provision_scan_list.c), a form that is submitted, tried and saved      *)
(* (provision_portal.c, provision_flow.c, provision_wifi_try.c), the timer *)
(* that restores the portal after an answer, and power cuts. Names,        *)
(* passwords and the page are abstracted to the network they belong to.    *)
(***************************************************************************)
EXTENDS Integers, Sequences, FiniteSets, NoValue
CONSTANTS Nets,      \* networks in range
          Levels,    \* of signal
          MaxAps,    \* PROVISION_SCAN_MAX_APS, and the entries of the adapter's table
          Own,       \* the portal's own network
          MaxSeen,   \* bound: entries of a raw scan
          MaxForms,  \* bound: forms submitted
          MaxFaults  \* bound: power cuts, and failures of the radio, the server, a timer or the store
VARIABLES nv,        \* the store: Wi-Fi name, password and MQTT settings, by the network they came with
          radio,     \* off, ap, sta
          http,      \* the server answers
          start,     \* provision_task: delay, scan, done, dead; skipped when a network is stored
          scan,      \* s_scan_list
          form,      \* the post that is handled: where, and for which network
          stash,     \* provision_pending.c: the form shown again
          pending,   \* s_pending_restore
          timer,     \* s_timer_restore_kind while the timer runs
          wrong,     \* history: what failed that nothing repairs: the portal, or the store
          provs      \* forms and faults so far
provVars == <<nv, radio, http, start, scan, form, stash, pending, timer, wrong, provs>>

Blank == [ssid |-> None, pass |-> None, mqtt |-> None]
NoForm == [at |-> "idle", net |-> None]
ProvInit ==
    /\ radio = "off" /\ http = FALSE /\ scan = <<>> /\ form = NoForm /\ stash = None /\ pending = None /\ timer = None
    /\ nv = Blank /\ start = "delay" /\ wrong = {} /\ provs = [forms |-> 0, faults |-> 0]
Fault == provs.faults < MaxFaults /\ provs' = [provs EXCEPT !.faults = @ + 1]
Works == UNCHANGED <<provs, wrong>>
Fails(what) == Fault /\ wrong' = wrong \cup {what}

------------------------------------------------------------------------------
(* provision_scan_list_merge: one entry for a name, its best level, sorted; *)
(* a full list drops its weakest for a stronger one. A new one that is      *)
(* stronger than the weakest alone is placed where the list ended before:   *)
(* past its array, over its count, and there is no list any more.           *)
Overrun == None
Without(list, name) == SelectSeq(list, LAMBDA ap: ap.name # name)
Inserted(list, ap) ==
    LET full == Len(list) >= MaxAps
        kept == IF full THEN SubSeq(list, 1, Len(list) - 1) ELSE list
        stronger == SelectSeq(kept, LAMBDA a: a.level >= ap.level)
        weaker == SelectSeq(kept, LAMBDA a: a.level < ap.level)
    IN  CASE full /\ ap.level <= list[Len(list)].level -> list
          [] full /\ ap.level > list[Len(list)].level /\ weaker = <<>> -> Overrun
          [] OTHER -> stronger \o <<ap>> \o weaker
MergedAsNew(list, ap) == IF list = Overrun \/ ap.name = Own THEN list ELSE Inserted(list, ap)
Merged(list, ap) ==
    IF \/ list = Overrun \/ ap.name = Own
       \/ \E i \in DOMAIN list: list[i].name = ap.name /\ list[i].level >= ap.level
    THEN list ELSE Inserted(Without(list, ap.name), ap)
Entries == UNION {[1..n -> [name: Nets \cup {Own}, level: Levels]]: n \in 0..MaxSeen}
MergeAll[raw \in Entries] ==
    IF raw = <<>> THEN <<>> ELSE Merged(MergeAll[SubSeq(raw, 1, Len(raw) - 1)], raw[Len(raw)])
(* What the list should be: the strongest of each name, the strongest names. *)
Best(raw, name) == CHOOSE l \in Levels: /\ \E i \in DOMAIN raw: raw[i] = [name |-> name, level |-> l]
                                        /\ \A i \in DOMAIN raw: raw[i].name = name => raw[i].level <= l
Names(seq) == {seq[i].name: i \in DOMAIN seq}
Strongest(raw, list) ==
    /\ \A i \in DOMAIN list: list[i].level = Best(raw, list[i].name)
    /\ \A i, j \in DOMAIN list: i < j => list[i].level >= list[j].level /\ list[i].name # list[j].name
    /\ LET names == Names(raw) \ {Own}
       IN  /\ Len(list) = IF Cardinality(names) < MaxAps THEN Cardinality(names) ELSE MaxAps
           /\ \A n \in names \ Names(list): \A i \in DOMAIN list: list[i].level >= Best(raw, n)

(* provision_start and provision_task: no portal when a name is stored, and *)
(* none until the next boot when the access point or the server fails.      *)
Stored == nv.ssid # None
Silent == UNCHANGED <<nv, form, stash, pending, timer>>
OpenAp ==
    /\ start = "delay"
    /\ \/ radio' = "ap" /\ start' = "scan" /\ Works
       \/ start' = "dead" /\ Fails("portal") /\ UNCHANGED radio
    /\ UNCHANGED <<http, scan>> /\ Silent
Scans == {MergeAll[raw]: raw \in {r \in DOMAIN MergeAll: Len(r) <= MaxAps}}
OpenPortal(list) ==
    /\ start = "scan" /\ scan' = list
    /\ \/ http' = TRUE /\ start' = "done" /\ Works
       \/ start' = "dead" /\ Fails("portal") /\ UNCHANGED http
    /\ UNCHANGED radio /\ Silent

------------------------------------------------------------------------------
(* A form: an invalid one is answered at once, a valid one drops the access *)
(* point and tries the network, then the broker.                            *)
Reachable == radio = "ap" /\ http
Post(n, valid) ==
    /\ start = "done" /\ Reachable /\ form = NoForm /\ provs.forms < MaxForms
    /\ provs' = [provs EXCEPT !.forms = @ + 1]
    /\ stash' = IF valid THEN None ELSE n
    /\ form' = [at |-> IF valid THEN "try" ELSE "answer", net |-> n]
    /\ radio' = IF valid THEN "off" ELSE radio
    /\ UNCHANGED <<nv, http, start, scan, pending, timer, wrong>>
(* A page that is fetched, a new scan on demand; so does a form that cannot *)
(* be parsed.                                                               *)
Page(list) ==
    /\ start = "done" /\ Reachable /\ form = NoForm /\ provs.forms < MaxForms
    /\ provs' = [provs EXCEPT !.forms = @ + 1] /\ form' = [NoForm EXCEPT !.at = "answer"] /\ scan' = list
    /\ UNCHANGED <<radio, http, start, wrong, nv, stash, pending, timer>>
(* provision_schedule_restore *)
RestoreKind(kind) == IF pending = None \/ kind = "ap" THEN kind ELSE pending
Answers(kind) == pending' = RestoreKind(kind) /\ stash' = form.net /\ form' = [form EXCEPT !.at = "answer"]
RestoreHttpOnly(failure) == "http"
RestoreOf(failure) == IF failure = "wifi" THEN "http" ELSE "ap"
WifiTry ==
    /\ form.at = "try"
    /\ \/ radio' = "sta" /\ form' = [form EXCEPT !.at = "probe"] /\ UNCHANGED <<pending, stash>> /\ Works
       \/ radio' = "ap" /\ Answers(RestoreOf("wifi")) /\ Works
       \/ radio' = "off" /\ Answers(RestoreOf("wifi")) /\ Fails("portal")
    /\ UNCHANGED <<nv, http, start, scan, timer>>
MqttProbe ==
    /\ form.at = "probe"
    /\ \/ form' = [form EXCEPT !.at = "ssid"] /\ UNCHANGED <<pending, stash>>
       \/ Answers(RestoreOf("mqtt"))
    /\ Works /\ UNCHANGED <<nv, radio, http, start, scan, timer>>
(* The keys are written in order. A write that fails erases both groups,    *)
(* whether that works or not.                                               *)
After == [ssid |-> "pass", pass |-> "mqtt", mqtt |-> "reboot"]
NotRolledBack(s) == s
RolledBack(s) == Blank
Save(key) ==
    /\ form.at = key
    /\ \/ /\ nv' = [nv EXCEPT ![key] = form.net] /\ form' = [form EXCEPT !.at = After[key]]
          /\ Works /\ UNCHANGED <<pending, stash>>
       \/ /\ nv' = RolledBack(nv) /\ Answers(RestoreOf("save")) /\ Fault /\ UNCHANGED wrong
       \/ /\ nv' = nv /\ Answers(RestoreOf("save")) /\ Fails("store")
    /\ UNCHANGED <<radio, http, start, scan, timer>>
(* provision_after_cgi_response: an answer that could not start the timer   *)
(* leaves the restore for the next answer.                                  *)
Respond ==
    /\ form.at = "answer" /\ form' = NoForm
    /\ \/ pending = None /\ Works /\ UNCHANGED <<pending, timer>>
       \/ pending # None /\ timer' = pending /\ pending' = None /\ Works
       \/ /\ pending # None /\ Fault /\ UNCHANGED <<pending, timer>>
          /\ wrong' = IF radio = "ap" THEN wrong ELSE wrong \cup {"portal"}
    /\ UNCHANGED <<nv, radio, http, start, scan, stash>>
(* provision_restore_timer_cb: the access point again or the server alone.  *)
RestoreTimer ==
    /\ timer # None /\ timer' = None
    /\ \/ radio' = (IF timer = "ap" THEN "ap" ELSE radio) /\ http' = TRUE /\ Works
       \/ timer = "ap" /\ radio' = "off" /\ http' = TRUE /\ Fails("portal")
       \/ radio' = (IF timer = "ap" THEN "ap" ELSE radio) /\ http' = FALSE /\ Fails("portal")
    /\ UNCHANGED <<nv, start, scan, form, stash, pending>>

(* The restart after a success, a power cut in the middle of the writes or  *)
(* elsewhere, and the reset to factory settings.                            *)
Restarts(store) ==
    /\ radio' = "off" /\ http' = FALSE /\ scan' = <<>> /\ form' = NoForm /\ stash' = None /\ pending' = None /\ timer' = None
    /\ nv' = store /\ start' = IF store.ssid = None THEN "delay" ELSE "skipped"
Reboot == form.at = "reboot" /\ Restarts(nv) /\ wrong' = wrong \ {"portal"} /\ UNCHANGED provs
PowerCut ==
    /\ Fault /\ Restarts(nv)
    /\ wrong' = (wrong \ {"portal"}) \cup (IF form.at \in {"pass", "mqtt"} THEN {"store"} ELSE {})
FactoryReset ==
    /\ Stored /\ form = NoForm
    /\ \/ Restarts(Blank) /\ wrong' = {} /\ Fault
       \/ /\ nv' = [nv EXCEPT !.ssid = None, !.pass = None] /\ Fault /\ wrong' = {"store", "portal"}
          /\ UNCHANGED <<radio, http, start, scan, form, stash, pending, timer>>
ProvNext ==
    \/ OpenAp \/ WifiTry \/ MqttProbe \/ Respond \/ RestoreTimer \/ Reboot \/ PowerCut \/ FactoryReset
    \/ \E k \in {"ssid", "pass", "mqtt"}: Save(k)
    \/ \E n \in Nets, v \in BOOLEAN: Post(n, v)
    \/ \E list \in Scans: OpenPortal(list) \/ Page(list)
    \/ Page(scan)
ProvSpec == ProvInit /\ [][ProvNext]_provVars
ProvFairness ==
    /\ WF_provVars(OpenAp) /\ WF_provVars(\E list \in Scans: OpenPortal(list))
    /\ WF_provVars(WifiTry) /\ WF_provVars(MqttProbe) /\ WF_provVars(Respond) /\ WF_provVars(RestoreTimer)
    /\ \A k \in {"ssid", "pass", "mqtt"}: WF_provVars(Save(k))
    /\ WF_provVars(Reboot)

------------------------------------------------------------------------------
(* A feeder without a stored network can be provisioned again and again:    *)
(* whatever a form came to, its portal is reachable once more, or a network *)
(* is stored. The exceptions are an access point or a server that does not  *)
(* start: nothing tries it again before the next boot.                      *)
PortalReopens == []<>(Reachable \/ Stored \/ "portal" \in wrong)
(* What is stored is one submission, complete, once its form is done; the   *)
(* exceptions are a power cut between the writes, and a failed write whose  *)
(* roll-back failed.                                                        *)
Whole == nv \in {Blank} \cup {[ssid |-> n, pass |-> n, mqtt |-> n]: n \in Nets}
StoredWhole == form.at \notin {"pass", "mqtt"} => Whole \/ "store" \in wrong
(* The list a portal shows is, whatever the order of the entries of a scan, *)
(* its strongest networks, each once and at its best level. The list is     *)
(* judged on longer scans too than the table of the adapter holds, which    *)
(* name more networks than it has room for: then it may be overrun, but if  *)
(* it is not, it keeps the strongest.                                       *)
KeepsBest(raw) ==
    IF Cardinality(Names(raw) \ {Own}) > MaxAps THEN MergeAll[raw] = Overrun \/ Strongest(raw, MergeAll[raw])
    ELSE MergeAll[raw] # Overrun /\ Strongest(raw, MergeAll[raw])
KeepTheBest == \A raw \in DOMAIN MergeAll: KeepsBest(raw)
ScanBest == [][scan' \notin {scan, <<>>} => KeepTheBest]_provVars
(* The values of the state.                                                 *)
ProvTypeOK ==
    /\ nv \in [{"ssid", "pass", "mqtt"} -> Nets \cup {None}] /\ radio \in {"off", "ap", "sta"} /\ http \in BOOLEAN
    /\ start \in {"delay", "scan", "done", "dead", "skipped"} /\ stash \in Nets \cup {None}
    /\ form \in [at: {"idle", "try", "probe", "ssid", "pass", "mqtt", "reboot", "answer"}, net: Nets \cup {None}]
    /\ pending \in {"http", "ap", None} /\ timer \in {"http", "ap", None} /\ wrong \subseteq {"portal", "store"}
    /\ Len(scan) <= MaxAps /\ \A i \in DOMAIN scan: scan[i] \in [name: Nets, level: Levels]
====
