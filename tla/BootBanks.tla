---------------------------- MODULE BootBanks ----------------------------
(***************************************************************************)
(* The two application banks: the control block that says which one boots  *)
(* (firmware/src/boot_bank.c, boot_bank_target.c), the boot loader that    *)
(* counts the boots of an unverified bank (bl_dual_image.c), the           *)
(* application that confirms a bank it has stayed up in                    *)
(* (ota_slot_health.c), the update that writes the other bank and swaps    *)
(* (adapters/ota_adapter.c, ota_download.c, flash_bank_adapter.c), and the *)
(* command bank switch (app_cli.c).                                        *)
(*                                                                         *)
(* A write of the control block is three steps: read and change a copy,    *)
(* erase the sector, write the copy.  The app task, the update worker and  *)
(* the console do so with no common lock.                                  *)
(***************************************************************************)
EXTENDS Integers, FiniteSets

CONSTANTS
    Chunks,       \* length of an image, in the chunks it is written in
    MaxAttempts,  \* BOOT_MAX_ATTEMPTS
    MaxFailures,  \* OTA_DOWNLOAD_MAX_FAILURES
    Spare,        \* what the bank that does not run may hold at first
    Faults,       \* {"write_fails"} if erasing or writing the block may fail, or {}
    MaxCuts       \* bound: how often the power may fail

ASSUME BootAssumption ==
    /\ Chunks \in Nat \ {0}
    /\ MaxAttempts \in Nat \ {0}
    /\ MaxFailures \in Nat \ {0}
    /\ Spare \subseteq {"good", "crash", "none"}
    /\ MaxCuts \in Nat

VARIABLES
    ctrl,       \* the control block as it is in flash
    image,      \* per bank: "good" stays up, "crash" starts and is reset before it is confirmed,
                \* "none" has no vector table
    stage,      \* "reset", the boot loader's "attempt", "pick", "persist", "jump", the
                \* application's "start" in main, or "up": its tasks run
    bank,       \* the bank that is chosen, or running
    timer,      \* s_timer_running: the slot is to be confirmed
    writes,     \* per writer of the control block: the copy it is about to write
    ota,        \* the update worker
    dl,         \* its download: chunks written, to which bank, failures, whether this attempt
                \* received anything, and the file on the server
    suspended,  \* the tasks suspended for the update
    leaving,    \* bank switch has written the block and is about to reboot
    cuts,       \* power failures so far
    proven,     \* history: the banks whose present image was confirmed, or shipped
    hurt        \* history: "torn" the block was lost between erase and write, "failed" the
                \* boot loader could not say what it chose, "overlap" two writers of the block
                \* met, "trial" an update in an unconfirmed bank

boot == <<stage, bank, timer>>
update == <<ota, dl, suspended>>
history == <<proven, hurt>>
vars == <<ctrl, image, boot, writes, update, leaving, cuts, history>>

Banks == {"A", "B"}
Images == {"good", "crash", "none"}
Writers == {"boot", "app", "ota", "cli"}
Whys == {"none", "attempt", "persist", "mark", "confirm", "swap", "switch"}

Block == [magic : BOOLEAN, flag : Banks, unverified : BOOLEAN,
          attempts : 0 .. MaxAttempts - 1, rolledBack : BOOLEAN]
Write == [why : Whys, block : Block, wiped : BOOLEAN]
Download == [n : 0 .. Chunks, to : Banks \cup {"none", "mixed"}, failures : 0 .. MaxFailures - 1,
             got : BOOLEAN, file : Images]
Blank == [magic |-> FALSE, flag |-> "A", unverified |-> FALSE, attempts |-> 0, rolledBack |-> FALSE]

\* bl_boot_ctrl_default: the block that comes with the boot loader
Shipped == [Blank EXCEPT !.magic = TRUE]

NoWrite == [why |-> "none", block |-> Blank, wiped |-> FALSE]
NoDownload == [n |-> 0, to |-> "none", failures |-> 0, got |-> FALSE, file |-> "none"]

Other(b) == IF b = "A" THEN "B" ELSE "A"
Resolve(c) == IF c.magic THEN c.flag ELSE "A"
Valid(b) == image[b] # "none"
ActiveBank == Resolve(ctrl)
Inactive == Other(Resolve(ctrl))
Writing(p) == writes[p].why # "none"

(***************************************************************************)
(* What the writers make of the block they have read.                      *)
(***************************************************************************)
RecordAttemptLate(c) ==
    IF c.attempts + 1 <= MaxAttempts
    THEN [c EXCEPT !.attempts = @ + 1]
    ELSE [c EXCEPT !.attempts = 0, !.flag = Other(@), !.rolledBack = TRUE]
RecordAttemptStays(c) == [c EXCEPT !.attempts = (@ + 1) % MaxAttempts]

RecordAttempt(c) ==
    IF c.attempts + 1 < MaxAttempts
    THEN [c EXCEPT !.attempts = @ + 1]
    ELSE [c EXCEPT !.attempts = 0, !.flag = Other(@), !.rolledBack = TRUE]

SwitchedTrusted(c) == [c EXCEPT !.magic = TRUE, !.flag = Other(Resolve(c)), !.attempts = 0]
Switched(c) == [c EXCEPT !.magic = TRUE, !.flag = Other(Resolve(c)), !.unverified = TRUE, !.attempts = 0]
Confirmed(c) == [c EXCEPT !.unverified = FALSE, !.attempts = 0]
Persisted(c, b) == [c EXCEPT !.magic = TRUE, !.flag = b]
Unmarked(c) == [c EXCEPT !.rolledBack = FALSE]

BeginWrite(p, why, c) == writes' = [writes EXCEPT ![p] = [why |-> why, block |-> c, wiped |-> FALSE]]

TaskFailAsleep == ota' = "idle" /\ dl' = NoDownload /\ UNCHANGED suspended
\* ota_adapter_task_fail: the suspended tasks come back, and a new update may start.
TaskFail == ota' = "idle" /\ dl' = NoDownload /\ suspended' = FALSE

(***************************************************************************)
(* The end of a write.  Only the swap and bank switch look at its result.  *)
(***************************************************************************)
EndWrite(p, ok) ==
    LET why == writes[p].why
    IN  /\ writes' = [writes EXCEPT ![p] = NoWrite]
        /\ stage' = CASE why = "attempt" -> "pick" [] why = "persist" -> "jump" [] why = "mark" -> "up"
                     [] OTHER -> stage
        /\ leaving' = (leaving \/ (why = "switch" /\ ok))
        /\ proven' = IF why = "confirm" /\ ok THEN proven \cup {bank} ELSE proven
        /\ \/ why = "swap" /\ ok /\ ota' = "reboot" /\ UNCHANGED <<dl, suspended>>
           \/ why = "swap" /\ ~ok /\ TaskFail
           \/ why # "swap" /\ UNCHANGED update
        /\ UNCHANGED <<image, bank, timer, cuts>>

EraseBlock(p) ==
    /\ Writing(p) /\ ~writes[p].wiped
    /\ ctrl' = Blank
    /\ writes' = [writes EXCEPT ![p].wiped = TRUE]
    /\ UNCHANGED <<image, boot, update, leaving, cuts, history>>

EraseFails(p) ==
    /\ "write_fails" \in Faults
    /\ Writing(p) /\ ~writes[p].wiped
    /\ hurt' = IF stage \in {"attempt", "persist"} THEN hurt \cup {"failed"} ELSE hurt
    /\ EndWrite(p, FALSE)
    /\ UNCHANGED ctrl

WriteBlock(p) ==
    /\ Writing(p) /\ writes[p].wiped
    /\ ctrl' = writes[p].block
    /\ EndWrite(p, TRUE)
    /\ UNCHANGED hurt

WriteFails(p) ==
    /\ "write_fails" \in Faults
    /\ Writing(p) /\ writes[p].wiped
    /\ hurt' = hurt \cup {"torn"}
    /\ EndWrite(p, FALSE)
    /\ UNCHANGED ctrl

WriteStep == \E p \in Writers : EraseBlock(p) \/ EraseFails(p) \/ WriteBlock(p) \/ WriteFails(p)

(***************************************************************************)
(* The boot loader.                                                        *)
(***************************************************************************)
StartBoot ==
    /\ stage = "reset"
    /\ LET c == IF ctrl.unverified THEN RecordAttempt(ctrl) ELSE ctrl
       IN  /\ bank' = Resolve(c)
           /\ IF ctrl.unverified
              THEN stage' = "attempt" /\ BeginWrite("boot", "attempt", c)
              ELSE stage' = "pick" /\ UNCHANGED writes
    /\ UNCHANGED <<ctrl, image, timer, update, leaving, cuts, history>>

PickBank ==
    /\ stage = "pick"
    /\ IF ~Valid(bank) /\ Valid(Other(bank))
       THEN /\ bank' = Other(bank)
            /\ stage' = "persist"
            /\ BeginWrite("boot", "persist", Persisted(ctrl, Other(bank)))
       ELSE /\ bank' = IF Valid(bank) THEN bank ELSE "A"
            /\ stage' = "jump"
            /\ UNCHANGED writes
    /\ UNCHANGED <<ctrl, image, timer, update, leaving, cuts, history>>

\* The application starts: ota_slot_health_on_boot, then ota_client_start, still in main and
\* without other tasks.
StartApp ==
    /\ stage = "jump"
    /\ timer' = ctrl.unverified
    /\ IF Valid(bank) /\ ctrl.magic /\ ctrl.rolledBack
       THEN stage' = "start" /\ BeginWrite("boot", "mark", Unmarked(ctrl))
       ELSE stage' = "up" /\ UNCHANGED writes
    /\ UNCHANGED <<ctrl, image, bank, update, leaving, cuts, history>>

BootStep == StartBoot \/ PickBank \/ StartApp

(***************************************************************************)
(* Resets, and the confirmation of a bank after a minute without one.      *)
(***************************************************************************)
Reset ==
    /\ stage' = "reset" /\ timer' = FALSE
    /\ writes' = [p \in Writers |-> NoWrite]
    /\ ota' = "idle" /\ dl' = NoDownload /\ suspended' = FALSE
    /\ leaving' = FALSE
    /\ hurt' = IF \E p \in Writers : writes[p].wiped THEN hurt \cup {"torn"} ELSE hurt
    /\ UNCHANGED <<ctrl, image, bank, proven>>

Crash == stage \in {"start", "up"} /\ image[bank] # "good" /\ Reset /\ UNCHANGED cuts
PowerCut == cuts < MaxCuts /\ cuts' = cuts + 1 /\ Reset
Reboot == (leaving \/ ota = "reboot") /\ Reset /\ UNCHANGED cuts

\* Whether an image of `bank` runs and its tasks do.
Up == stage = "up" /\ Valid(bank)

\* The timer is stopped before the write is tried, and not started again if it fails.
ConfirmSlot ==
    /\ Up /\ image[bank] = "good"
    /\ timer /\ ~Writing("app")
    /\ timer' = FALSE
    /\ BeginWrite("app", "confirm", Confirmed(ctrl))
    /\ hurt' = IF suspended \/ leaving \/ Writing("cli") THEN hurt \cup {"overlap"} ELSE hurt
    /\ UNCHANGED <<ctrl, image, stage, bank, update, leaving, cuts, proven>>

\* bank switch, while the console is not suspended
SwitchBank ==
    /\ Up /\ ~suspended
    /\ ~Writing("cli") /\ ~leaving
    /\ BeginWrite("cli", "switch", Switched(ctrl))
    /\ hurt' = IF Writing("app") THEN hurt \cup {"overlap"} ELSE hurt
    /\ UNCHANGED <<ctrl, image, boot, update, leaving, cuts, proven>>

(***************************************************************************)
(* The update.  What is the inactive bank is read from the control block   *)
(* again at every chunk.                                                   *)
(***************************************************************************)
\* The app task receives the command and waits for the suspensions, then the worker runs.
StartUpdate(f) ==
    /\ Up /\ ota = "idle" /\ ~Writing("app")
    /\ ~Writing("cli") /\ ~leaving    \* the console is waited for, a switch reboots meanwhile
    /\ ota' = "load" /\ dl' = [NoDownload EXCEPT !.file = f] /\ suspended' = TRUE
    /\ hurt' = IF bank \notin proven THEN hurt \cup {"trial"} ELSE hurt
    /\ UNCHANGED <<ctrl, image, boot, writes, leaving, cuts, proven>>

\* What a bank holds when the last chunk is written, if all went there, and before that.
Programmed(to) ==
    IF dl.n + 1 = Chunks /\ to # "mixed" THEN dl.file
    ELSE IF dl.file = "none" THEN "none" ELSE "crash"

GetChunk ==
    /\ Up /\ ota = "load" /\ dl.n < Chunks
    /\ LET to == IF dl.n = 0 \/ dl.to = Inactive THEN Inactive ELSE "mixed"
       IN  /\ dl' = [dl EXCEPT !.n = @ + 1, !.to = to, !.got = TRUE]
           /\ image' = [image EXCEPT ![Inactive] = Programmed(to)]
    /\ proven' = proven \ {Inactive}
    /\ UNCHANGED <<ctrl, boot, writes, ota, suspended, leaving, cuts, hurt>>

\* The attempt ends: connection lost, receive timed out, status or flash write failed.
AttemptEnds ==
    /\ Up /\ ota = "load" /\ dl.n < Chunks
    /\ LET failures == (IF dl.got THEN 0 ELSE dl.failures) + 1
       IN  IF failures >= MaxFailures
           THEN TaskFail
           ELSE dl' = [dl EXCEPT !.failures = failures, !.got = FALSE] /\ UNCHANGED <<ota, suspended>>
    /\ UNCHANGED <<ctrl, image, boot, writes, leaving, cuts, history>>

\* Another length than before, or one that does not fit.
Refused ==
    /\ Up /\ ota = "load" /\ dl.n < Chunks
    /\ TaskFail
    /\ UNCHANGED <<ctrl, image, boot, writes, leaving, cuts, history>>

\* The vector table is looked for in the bank; the hash may match or not.
Verify ==
    /\ Up /\ ota = "load" /\ dl.n = Chunks
    /\ \/ TaskFail /\ UNCHANGED writes
       \/ /\ Valid(Inactive)
          /\ ota' = "swap"
          /\ BeginWrite("ota", "swap", Switched(ctrl))
          /\ UNCHANGED <<dl, suspended>>
    /\ UNCHANGED <<ctrl, image, boot, leaving, cuts, history>>

UpdateStep == GetChunk \/ AttemptEnds \/ Refused \/ Verify

Init ==
    /\ ctrl \in {Blank, Shipped}
    /\ image \in {[b \in Banks |-> IF b = "A" THEN "good" ELSE s] : s \in Spare}
    /\ stage = "reset" /\ bank = "A" /\ timer = FALSE
    /\ writes = [p \in Writers |-> NoWrite]
    /\ ota = "idle" /\ dl = NoDownload /\ suspended = FALSE
    /\ leaving = FALSE
    /\ cuts = 0
    /\ proven = {"A"} /\ hurt = {}

Next ==
    \/ BootStep \/ WriteStep
    \/ Crash \/ PowerCut \/ Reboot
    \/ ConfirmSlot \/ SwitchBank
    \/ \E f \in Images : StartUpdate(f)
    \/ UpdateStep

\* Tasks that are ready run; an image that crashes does so in the end.
Fairness ==
    /\ WF_vars(BootStep)
    /\ WF_vars(WriteStep)
    /\ WF_vars(Crash)
    /\ WF_vars(Reboot)
    /\ WF_vars(UpdateStep)

Spec == Init /\ [][Next]_vars /\ Fairness
-----------------------------------------------------------------------------
\* The state is well formed; in particular no stored count of attempts reaches the limit
\* (boot_bank_record_boot_attempt).
TypeOK ==
    /\ ctrl \in Block
    /\ image \in [Banks -> Images]
    /\ stage \in {"reset", "attempt", "pick", "persist", "jump", "start", "up"}
    /\ bank \in Banks /\ timer \in BOOLEAN
    /\ writes \in [Writers -> Write]
    /\ ota \in {"idle", "load", "swap", "reboot"}
    /\ dl \in Download
    /\ suspended \in BOOLEAN /\ leaving \in BOOLEAN
    /\ cuts \in 0 .. MaxCuts
    /\ proven \subseteq Banks /\ hurt \subseteq {"torn", "failed", "overlap", "trial"}

\* Unless the history names a hazard, some bank always holds an intact image that once stayed up:
\* no update, switch, reset or failure destroys the last one (flash_bank_inactive, ota_adapter_task).
KnownGoodKept == hurt = {} => \E b \in proven : image[b] = "good"

\* Unless the history names a hazard, a block that does not ask for a trial names a bank that has
\* passed one: nothing else clears the mark (boot_bank_confirm_boot).
VerifiedIsProven == hurt = {} /\ ctrl.magic /\ ~ctrl.unverified => ctrl.flag \in proven

\* Unless the history names a hazard, the device always comes back to an image that stays up,
\* whatever was downloaded, switched to, cut or reset (bl_dual_image_boot_addr).
BackInService == []<>(hurt # {} \/ (Up /\ image[bank] = "good"))

\* What an update suspended comes back, or the device resets (ota_preflight_resume_idle_tasks).
ServicesReturn == suspended ~> ~suspended

\* The image that runs is not written (ota-flow.md, Flash layout: "the running image is untouched
\* until verification succeeds").
RunningUntouched == [][Up /\ Up' => image'[bank] = image[bank]]_vars
=============================================================================
