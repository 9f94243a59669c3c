------------------------- MODULE BootBanksProofs -------------------------
(***************************************************************************)
(* Proofs about BootBanks for every length of an image, every limit and    *)
(* every number of power failures, with and without failing writes.        *)
(*                                                                         *)
(* That the last known good image is kept and that only proven images are  *)
(* marked as verified are not inductive: they need that, in a history      *)
(* without a hazard, one task at a time writes the block (Solo), that what *)
(* it is about to write is as good as what it read (WritesAreGood), and    *)
(* that the block names the running bank whenever an update asks for the   *)
(* other one (NamesRunning).                                               *)
(***************************************************************************)
EXTENDS BootBanks, TLAPS

ResetInv == stage # "up" => ota = "idle" /\ ~suspended /\ ~leaving

UpdateInv ==
    /\ ota # "idle" <=> suspended
    /\ leaving => ~suspended
    /\ ota = "load" => bank \in proven

Solo == \A p, q \in Writers : Writing(p) /\ Writing(q) => p = q

\* Who writes what, and when.
Places ==
    /\ Writing("boot") => \/ writes["boot"].why = "attempt" /\ stage = "attempt"
                          \/ writes["boot"].why = "persist" /\ stage = "persist"
                          \/ writes["boot"].why = "mark" /\ stage = "start"
    /\ Writing("app") => writes["app"].why = "confirm" /\ stage = "up" /\ ~suspended /\ ~leaving
    /\ Writing("ota") => writes["ota"].why = "swap" /\ stage = "up" /\ ota = "swap"
    /\ Writing("cli") => writes["cli"].why = "switch" /\ stage = "up" /\ ~suspended /\ ~leaving
    /\ \A p \in Writers : writes[p].wiped => Writing(p)

\* A block that may be believed: it asks for a trial, or names a proven bank.
Good(c) == IF c.unverified THEN c.magic ELSE Resolve(c) \in proven

WritesAreGood ==
    /\ Writing("boot") => Good(writes["boot"].block) /\ Resolve(writes["boot"].block) = bank
    /\ Writing("app") => /\ Resolve(writes["app"].block) = bank
                         /\ ~writes["app"].block.unverified
                         /\ image[bank] = "good"
    /\ Writing("ota") => Good(writes["ota"].block)
    /\ Writing("cli") => Good(writes["cli"].block)

Intact == \A p \in Writers : ~writes[p].wiped

NamesRunning ==
    Intact /\ stage \in {"pick", "jump", "start", "up"} /\ ~leaving /\ ota # "reboot"
        => bank = Resolve(ctrl)

ProvenAreGood == proven # {} /\ \A b \in proven : image[b] = "good"

Inv ==
    /\ ResetInv
    /\ UpdateInv
    /\ Solo
    /\ Places
    /\ WritesAreGood
    /\ Intact => Good(ctrl)
    /\ NamesRunning
    /\ ProvenAreGood

\* Between its erase and its write the block is not to be believed.
Erased == ~Intact => ~ctrl.magic

IInv == TypeOK /\ (hurt = {} => Inv /\ Erased)

-----------------------------------------------------------------------------
\* What a writer makes of a block is a block.
LEMMA BlockTypes ==
    ASSUME NEW c \in Block, NEW b \in Banks
    PROVE  /\ RecordAttempt(c) \in Block
           /\ Switched(c) \in Block
           /\ Confirmed(c) \in Block
           /\ Persisted(c, b) \in Block
           /\ Unmarked(c) \in Block
           /\ Resolve(c) \in Banks
           /\ Other(b) \in Banks /\ Other(b) # b
<1>1. Other(b) \in Banks /\ Other(b) # b /\ Resolve(c) \in Banks /\ Other(Resolve(c)) \in Banks
      /\ Other(c.flag) \in Banks
  BY DEF Banks, Block, Other, Resolve
<1>2. 0 \in 0 .. MaxAttempts - 1
  BY BootAssumption
<1>3. c.attempts + 1 < MaxAttempts => c.attempts + 1 \in 0 .. MaxAttempts - 1
  <2>1. c.attempts \in 0 .. MaxAttempts - 1
    BY DEF Block
  <2> QED
    BY <2>1, BootAssumption
<1>4. RecordAttempt(c) \in Block
  <2>1. CASE c.attempts + 1 < MaxAttempts
    BY <2>1, <1>3, Zenon DEF Block, RecordAttempt
  <2>2. CASE ~(c.attempts + 1 < MaxAttempts)
    BY <2>2, <1>1, <1>2, Zenon DEF Block, RecordAttempt
  <2> QED
    BY <2>1, <2>2
<1>5. Switched(c) \in Block
  BY <1>1, <1>2, Zenon DEF Block, Switched
<1>6. Confirmed(c) \in Block
  BY <1>2, Zenon DEF Block, Confirmed
<1>7. Persisted(c, b) \in Block /\ Unmarked(c) \in Block
  BY Zenon DEF Block, Persisted, Unmarked
<1> QED
  BY <1>1, <1>4, <1>5, <1>6, <1>7

LEMMA BlankType == Blank \in Block /\ Shipped \in Block
<1>1. 0 \in 0 .. MaxAttempts - 1
  BY BootAssumption
<1>2. "A" \in Banks
  BY DEF Banks
<1>3. Blank \in Block
  BY <1>1, <1>2, Zenon DEF Block, Blank
<1> QED
  BY <1>3, Zenon DEF Block, Shipped

LEMMA DownloadType == NoDownload \in Download
<1>1. 0 \in 0 .. Chunks /\ 0 \in 0 .. MaxFailures - 1
  BY BootAssumption
<1> QED
  BY <1>1, Zenon DEF NoDownload, Download, Images

LEMMA NoWriteType == NoWrite \in Write
BY BlankType, Zenon DEF NoWrite, Write, Whys

LEMMA TypeInit == Init => TypeOK
<1> SUFFICES ASSUME Init PROVE TypeOK
  OBVIOUS
<1>1. image \in [Banks -> Images]
  BY BootAssumption DEF Init, Banks, Images
<1>2. writes \in [Writers -> Write]
  BY NoWriteType, Zenon DEF Init
<1>3. cuts \in 0 .. MaxCuts
  BY BootAssumption DEF Init
<1>4. ctrl \in Block
  BY BlankType DEF Init
<1>5. "A" \in Banks
  BY DEF Banks
<1> QED
  BY <1>1, <1>2, <1>3, <1>4, <1>5, DownloadType, Zenon DEF Init, TypeOK

LEMMA BeginTypes ==
    ASSUME TypeOK, NEW p \in Writers, NEW why \in Whys, NEW c \in Block, BeginWrite(p, why, c)
    PROVE  writes' \in [Writers -> Write]
<1>1. [why |-> why, block |-> c, wiped |-> FALSE] \in Write
  BY Zenon DEF Write
<1> QED
  BY <1>1, Zenon DEF TypeOK, BeginWrite

LEMMA TaskFailTypes ==
    ASSUME TaskFail
    PROVE  ota' \in {"idle", "load", "swap", "reboot"} /\ dl' \in Download /\ suspended' \in BOOLEAN
BY DownloadType, Zenon DEF TaskFail

LEMMA EndTypes ==
    ASSUME TypeOK, NEW p \in Writers, NEW ok \in BOOLEAN, EndWrite(p, ok),
           ctrl' \in Block, hurt' \subseteq {"torn", "failed", "overlap", "trial"}
    PROVE  TypeOK'
<1>1. writes' \in [Writers -> Write]
  BY NoWriteType, Zenon DEF TypeOK, EndWrite
<1>2. stage' \in {"reset", "attempt", "pick", "persist", "jump", "start", "up"}
  BY Zenon DEF TypeOK, EndWrite
<1>3. leaving' \in BOOLEAN
  BY Zenon DEF TypeOK, EndWrite
<1>4. proven' \subseteq Banks
  BY DEF TypeOK, EndWrite
<1>5. ota' \in {"idle", "load", "swap", "reboot"} /\ dl' \in Download /\ suspended' \in BOOLEAN
  BY TaskFailTypes, Zenon DEF TypeOK, EndWrite, update
<1> QED
  BY <1>1, <1>2, <1>3, <1>4, <1>5, Zenon DEF TypeOK, EndWrite

LEMMA TypeStep == TypeOK /\ [Next]_vars => TypeOK'
<1> SUFFICES ASSUME TypeOK, [Next]_vars PROVE TypeOK'
  OBVIOUS
<1> USE DEF boot, update, history
<1>a. ctrl \in Block /\ bank \in Banks /\ Resolve(ctrl) \in Banks /\ Other(bank) \in Banks
      /\ Inactive \in Banks
  BY BlockTypes, Zenon DEF TypeOK, Inactive
<1>1. ASSUME NEW p \in Writers, EraseBlock(p) PROVE TypeOK'
  <2>1. writes' \in [Writers -> Write]
    BY <1>1, Zenon DEF TypeOK, EraseBlock, Write
  <2> QED
    BY <1>1, <2>1, BlankType, Zenon DEF TypeOK, EraseBlock
<1>2. ASSUME NEW p \in Writers, EraseFails(p) PROVE TypeOK'
  BY <1>2, EndTypes, Zenon DEF TypeOK, EraseFails
<1>3. ASSUME NEW p \in Writers, WriteBlock(p) PROVE TypeOK'
  <2>1. writes[p].block \in Block
    BY Zenon DEF TypeOK, Write
  <2> QED
    BY <1>3, <2>1, EndTypes, Zenon DEF TypeOK, WriteBlock
<1>4. ASSUME NEW p \in Writers, WriteFails(p) PROVE TypeOK'
  <2>1. ctrl' \in Block /\ hurt' \subseteq {"torn", "failed", "overlap", "trial"}
    BY <1>4, Zenon DEF TypeOK, WriteFails
  <2> QED
    BY <1>4, <2>1, EndTypes, Zenon DEF TypeOK, WriteFails
<1>5. CASE StartBoot
  <2> DEFINE c == IF ctrl.unverified THEN RecordAttempt(ctrl) ELSE ctrl
  <2>1. c \in Block /\ Resolve(c) \in Banks
    BY <1>a, BlockTypes, Zenon
  <2>2. writes' \in [Writers -> Write]
    BY <1>5, <2>1, BeginTypes, Zenon DEF TypeOK, StartBoot, Writers, Whys
  <2> QED
    BY <1>5, <2>1, <2>2, Zenon DEF TypeOK, StartBoot
<1>6. CASE PickBank
  <2>1. Persisted(ctrl, Other(bank)) \in Block
    BY <1>a, BlockTypes, Zenon
  <2>2. writes' \in [Writers -> Write]
    BY <1>6, <2>1, BeginTypes, Zenon DEF TypeOK, PickBank, Writers, Whys
  <2>3. bank' \in Banks
    BY <1>6, <1>a, Zenon DEF PickBank, Banks
  <2> QED
    BY <1>6, <2>2, <2>3, Zenon DEF TypeOK, PickBank
<1>7. CASE StartApp
  <2>1. Unmarked(ctrl) \in Block
    BY <1>a, BlockTypes, Zenon
  <2>2. writes' \in [Writers -> Write]
    BY <1>7, <2>1, BeginTypes, Zenon DEF TypeOK, StartApp, Writers, Whys
  <2>3. timer' \in BOOLEAN
    BY <1>7, Zenon DEF TypeOK, StartApp, Block
  <2> QED
    BY <1>7, <2>2, <2>3, Zenon DEF TypeOK, StartApp
<1>8. ASSUME Reset, cuts' \in 0 .. MaxCuts PROVE TypeOK'
  <2>1. writes' \in [Writers -> Write]
    BY <1>8, NoWriteType, Zenon DEF Reset
  <2>2. hurt' \subseteq {"torn", "failed", "overlap", "trial"}
    BY <1>8, Zenon DEF TypeOK, Reset
  <2> QED
    BY <1>8, <2>1, <2>2, DownloadType, Zenon DEF TypeOK, Reset
<1>9. CASE Crash \/ Reboot
  BY <1>8, <1>9, Zenon DEF TypeOK, Crash, Reboot
<1>10. CASE PowerCut
  <2>1. cuts' \in 0 .. MaxCuts
    BY <1>10, BootAssumption DEF TypeOK, PowerCut
  <2> QED
    BY <1>8, <1>10, <2>1, Zenon DEF PowerCut
<1>11. CASE ConfirmSlot
  <2>1. Confirmed(ctrl) \in Block
    BY <1>a, BlockTypes, Zenon
  <2>2. writes' \in [Writers -> Write]
    BY <1>11, <2>1, BeginTypes, Zenon DEF TypeOK, ConfirmSlot, Writers, Whys
  <2>3. hurt' \subseteq {"torn", "failed", "overlap", "trial"}
    BY <1>11, Zenon DEF TypeOK, ConfirmSlot
  <2> QED
    BY <1>11, <2>2, <2>3, Zenon DEF TypeOK, ConfirmSlot
<1>12. CASE SwitchBank
  <2>1. Switched(ctrl) \in Block
    BY <1>a, BlockTypes, Zenon
  <2>2. writes' \in [Writers -> Write]
    BY <1>12, <2>1, BeginTypes, Zenon DEF TypeOK, SwitchBank, Writers, Whys
  <2>3. hurt' \subseteq {"torn", "failed", "overlap", "trial"}
    BY <1>12, Zenon DEF TypeOK, SwitchBank
  <2> QED
    BY <1>12, <2>2, <2>3, Zenon DEF TypeOK, SwitchBank
<1>13. ASSUME NEW f \in Images, StartUpdate(f) PROVE TypeOK'
  <2>1. dl' \in Download
    BY <1>13, DownloadType, Zenon DEF StartUpdate, Download
  <2>2. hurt' \subseteq {"torn", "failed", "overlap", "trial"}
    BY <1>13, Zenon DEF TypeOK, StartUpdate
  <2> QED
    BY <1>13, <2>1, <2>2, Zenon DEF TypeOK, StartUpdate
<1>14. CASE GetChunk
  <2>1. PICK to \in {Inactive, "mixed"} :
           /\ dl' = [dl EXCEPT !.n = @ + 1, !.to = to, !.got = TRUE]
           /\ image' = [image EXCEPT ![Inactive] = Programmed(to)]
    BY <1>14, Zenon DEF GetChunk
  <2>2. dl.n + 1 \in 0 .. Chunks
    <3>1. dl.n \in 0 .. Chunks
      BY Zenon DEF TypeOK, Download
    <3>2. dl.n < Chunks
      BY <1>14, Zenon DEF GetChunk
    <3> QED
      BY <3>1, <3>2, BootAssumption
  <2>3. dl' \in Download
    BY <1>a, <2>1, <2>2, Zenon DEF TypeOK, Download
  <2>4. Programmed(to) \in Images
    BY Zenon DEF TypeOK, Download, Programmed, Images
  <2>5. image' \in [Banks -> Images]
    BY <2>1, <2>4, Zenon DEF TypeOK
  <2>6. proven' \subseteq Banks
    BY <1>14, Zenon DEF TypeOK, GetChunk
  <2> QED
    BY <1>14, <2>3, <2>5, <2>6, Zenon DEF TypeOK, GetChunk
<1>15. CASE AttemptEnds
  <2> DEFINE failures == (IF dl.got THEN 0 ELSE dl.failures) + 1
  <2>1. dl.failures \in 0 .. MaxFailures - 1
    BY Zenon DEF TypeOK, Download
  <2>2. CASE failures >= MaxFailures
    BY <1>15, <2>2, TaskFailTypes, Zenon DEF TypeOK, AttemptEnds
  <2>3. CASE ~(failures >= MaxFailures)
    <3>1. failures \in 0 .. MaxFailures - 1
      BY <2>1, <2>3, BootAssumption
    <3>2. dl' \in Download
      <4> HIDE DEF failures
      <4>1. dl' = [dl EXCEPT !.failures = failures, !.got = FALSE]
        BY <1>15, <2>3, Zenon DEF AttemptEnds, failures
      <4> QED
        BY <3>1, <4>1, Zenon DEF TypeOK, Download
    <3> QED
      BY <1>15, <2>3, <3>2, Zenon DEF TypeOK, AttemptEnds
  <2> QED
    BY <2>2, <2>3
<1>16. CASE Refused
  BY <1>16, TaskFailTypes, Zenon DEF TypeOK, Refused
<1>17. CASE Verify
  <2>1. Switched(ctrl) \in Block
    BY <1>a, BlockTypes, Zenon
  <2>2. writes' \in [Writers -> Write]
    BY <1>17, <2>1, BeginTypes, Zenon DEF TypeOK, Verify, Writers, Whys
  <2>3. ota' \in {"idle", "load", "swap", "reboot"} /\ dl' \in Download /\ suspended' \in BOOLEAN
    BY <1>17, TaskFailTypes, Zenon DEF TypeOK, Verify
  <2> QED
    BY <1>17, <2>2, <2>3, Zenon DEF TypeOK, Verify
<1>18. CASE UNCHANGED vars
  BY <1>18, Zenon DEF TypeOK, vars
<1> QED
  BY <1>1, <1>2, <1>3, <1>4, <1>5, <1>6, <1>7, <1>9, <1>10, <1>11, <1>12, <1>13, <1>14, <1>15,
     <1>16, <1>17, <1>18, Zenon DEF Next, BootStep, WriteStep, UpdateStep

-----------------------------------------------------------------------------
(***************************************************************************)
(* The invariant is kept by every step of a history without a hazard.      *)
(***************************************************************************)
LEMMA HazardsStay == [Next]_vars => hurt \subseteq hurt'
<1> SUFFICES ASSUME [Next]_vars PROVE hurt \subseteq hurt'
  OBVIOUS
<1> USE DEF history
<1>1. CASE WriteStep
  BY <1>1, Zenon DEF WriteStep, EraseBlock, EraseFails, WriteBlock, WriteFails
<1>2. CASE BootStep
  BY <1>2, Zenon DEF BootStep, StartBoot, PickBank, StartApp
<1>3. CASE Crash \/ PowerCut \/ Reboot
  BY <1>3, Zenon DEF Crash, PowerCut, Reboot, Reset
<1>4. CASE ConfirmSlot \/ SwitchBank
  BY <1>4, Zenon DEF ConfirmSlot, SwitchBank
<1>5. CASE \E f \in Images : StartUpdate(f)
  BY <1>5, Zenon DEF StartUpdate
<1>6. CASE UpdateStep
  BY <1>6, Zenon DEF UpdateStep, GetChunk, AttemptEnds, Refused, Verify
<1>7. CASE UNCHANGED vars
  BY <1>7, Zenon DEF vars
<1> QED
  BY <1>1, <1>2, <1>3, <1>4, <1>5, <1>6, <1>7, Zenon DEF Next

\* Erasing changes nothing but that the block is not to be believed.
LEMMA EraseInv ==
    ASSUME TypeOK, Inv, NEW p \in Writers, EraseBlock(p)
    PROVE  Inv'
<1> USE DEF boot, update, history
<1>1. \A q \in Writers : writes'[q].why = writes[q].why /\ writes'[q].block = writes[q].block
  BY Zenon DEF EraseBlock, TypeOK, Write
<1>2. writes'[p].wiped /\ \A q \in Writers : q # p => writes'[q].wiped = writes[q].wiped
  BY Zenon DEF EraseBlock, TypeOK, Write
<1>3. ~Intact'
  BY <1>2, Zenon DEF Intact
<1>4. \A q \in Writers : Writing(q)' <=> Writing(q)
  BY <1>1, Zenon DEF Writing
<1>5. Writing(p)
  BY Zenon DEF EraseBlock
<1>6. ResetInv' /\ UpdateInv' /\ ProvenAreGood'
  BY Zenon DEF EraseBlock, Inv, ResetInv, UpdateInv, ProvenAreGood
<1>7. Solo'
  BY <1>4, Zenon DEF Inv, Solo
<1>8. "boot" \in Writers /\ "app" \in Writers /\ "ota" \in Writers /\ "cli" \in Writers
  BY DEF Writers
<1>9. Places'
  <2>1. \A q \in Writers : writes'[q].wiped => Writing(q)'
    BY <1>2, <1>4, <1>5, Zenon DEF Inv, Places
  <2> QED
    BY <1>1, <1>4, <1>8, <2>1, Zenon DEF EraseBlock, Inv, Places
<1>10. WritesAreGood'
  <2>1. proven' = proven /\ image' = image /\ bank' = bank
    BY Zenon DEF EraseBlock
  <2>2. \A q \in Writers : Good(writes[q].block) => Good(writes[q].block)'
    BY <1>1, <2>1, SMT DEF Good, Resolve
  <2>3. \A q \in Writers : Resolve(writes[q].block)' = Resolve(writes[q].block)
    BY <1>1, SMT DEF Resolve
  <2>4. WritesAreGood
    BY Zenon DEF Inv
  <2> QED
    BY <1>1, <1>4, <1>8, <2>1, <2>2, <2>3, <2>4, Zenon DEF WritesAreGood
<1> QED
  BY <1>3, <1>6, <1>7, <1>9, <1>10, Zenon DEF Inv, NamesRunning

\* When a write ends, nobody writes.
LEMMA EndedInv ==
    ASSUME TypeOK, Inv, NEW p \in Writers, Writing(p), NEW ok \in BOOLEAN, EndWrite(p, ok)
    PROVE  Solo' /\ Places' /\ WritesAreGood' /\ Intact'
<1>1. \A q \in Writers : q # p => ~Writing(q)
  BY Zenon DEF Inv, Solo
<1>2. \A q \in Writers : writes'[q] = IF q = p THEN NoWrite ELSE writes[q]
  BY Zenon DEF EndWrite, TypeOK
<1>3. \A q \in Writers : ~Writing(q)' /\ ~writes'[q].wiped
  <2> SUFFICES ASSUME NEW q \in Writers PROVE ~Writing(q)' /\ ~writes'[q].wiped
    OBVIOUS
  <2>1. CASE q = p
    <3>1. NoWrite.why = "none" /\ NoWrite.wiped = FALSE
      BY Zenon DEF NoWrite
    <3>2. writes'[q] = NoWrite
      BY <1>2, <2>1, Zenon
    <3> QED
      BY <3>1, <3>2, Zenon DEF Writing
  <2>2. CASE q # p
    BY <1>1, <1>2, <2>2, Zenon DEF Writing, Inv, Places
  <2> QED
    BY <2>1, <2>2
<1>4. "boot" \in Writers /\ "app" \in Writers /\ "ota" \in Writers /\ "cli" \in Writers
  BY DEF Writers
<1> QED
  BY <1>3, <1>4, Zenon DEF Solo, Places, WritesAreGood, Intact

LEMMA WriteInv ==
    ASSUME TypeOK, Inv, NEW p \in Writers, WriteBlock(p)
    PROVE  Inv'
<1> USE DEF boot, update, history
<1>1. Writing(p) /\ ctrl' = writes[p].block /\ EndWrite(p, TRUE)
  BY Zenon DEF WriteBlock
<1>2. Solo' /\ Places' /\ WritesAreGood' /\ Intact'
  BY <1>1, EndedInv
<1>3. bank' = bank /\ image' = image
  BY <1>1, Zenon DEF EndWrite
<1>4. CASE p = "boot"
  <2>1. /\ proven' = proven /\ leaving' = leaving /\ ota' = ota /\ suspended' = suspended
        /\ stage' # "up" => stage # "up"
    BY <1>1, <1>4, Zenon DEF EndWrite, Inv, Places, TypeOK
  <2>2. stage # "up"
    BY <1>1, <1>4, Zenon DEF Inv, Places
  <2>3. Good(ctrl)' /\ bank' = Resolve(ctrl)'
    <3>1. Good(writes["boot"].block) /\ Resolve(writes["boot"].block) = bank
      BY <1>1, <1>4, Zenon DEF Inv, WritesAreGood
    <3> QED
      BY <1>1, <1>3, <1>4, <2>1, <3>1, SMT DEF Good, Resolve
  <2> QED
    BY <1>2, <1>3, <2>1, <2>2, <2>3, Zenon DEF Inv, ResetInv, UpdateInv, NamesRunning, ProvenAreGood
<1>5. CASE p = "app"
  <2>1. /\ proven' = proven \cup {bank} /\ stage' = stage /\ leaving' = leaving /\ ota' = ota
        /\ suspended' = suspended /\ image[bank] = "good"
    BY <1>1, <1>5, Zenon DEF EndWrite, Inv, Places, TypeOK, WritesAreGood
  <2>2. Good(ctrl)' /\ bank' = Resolve(ctrl)'
    <3>1. Resolve(writes["app"].block) = bank /\ ~writes["app"].block.unverified
      BY <1>1, <1>5, Zenon DEF Inv, WritesAreGood
    <3>2. bank \in proven'
      BY <2>1
    <3> QED
      BY <1>1, <1>3, <1>5, <3>1, <3>2, SMT DEF Good, Resolve
  <2>3. ProvenAreGood'
    BY <1>3, <2>1, Zenon DEF Inv, ProvenAreGood
  <2> QED
    BY <1>2, <1>3, <2>1, <2>2, <2>3, Zenon DEF Inv, ResetInv, UpdateInv, NamesRunning
<1>6. CASE p = "ota"
  <2>1. /\ proven' = proven /\ stage' = stage /\ leaving' = leaving /\ ota' = "reboot"
        /\ suspended' = suspended /\ ota = "swap" /\ stage = "up"
    BY <1>1, <1>6, Zenon DEF EndWrite, Inv, Places, TypeOK
  <2>2. Good(ctrl)'
    <3>1. Good(writes["ota"].block)
      BY <1>1, <1>6, Zenon DEF Inv, WritesAreGood
    <3> QED
      BY <1>1, <1>6, <2>1, <3>1, SMT DEF Good, Resolve
  <2> QED
    BY <1>2, <1>3, <2>1, <2>2, Zenon DEF Inv, ResetInv, UpdateInv, NamesRunning, ProvenAreGood
<1>7. CASE p = "cli"
  <2>1. /\ proven' = proven /\ stage' = stage /\ leaving' = TRUE /\ ota' = ota
        /\ suspended' = suspended /\ ~suspended /\ stage = "up"
    BY <1>1, <1>7, Zenon DEF EndWrite, Inv, Places
  <2>2. Good(ctrl)'
    <3>1. Good(writes["cli"].block)
      BY <1>1, <1>7, Zenon DEF Inv, WritesAreGood
    <3> QED
      BY <1>1, <1>7, <2>1, <3>1, SMT DEF Good, Resolve
  <2> QED
    BY <1>2, <1>3, <2>1, <2>2, Zenon DEF Inv, ResetInv, UpdateInv, NamesRunning, ProvenAreGood
<1> QED
  BY <1>4, <1>5, <1>6, <1>7 DEF Writers

\* A writer that could not erase leaves what there was.
LEMMA EraseFailsInv ==
    ASSUME TypeOK, Inv, NEW p \in Writers, EraseFails(p), hurt' = {}
    PROVE  Inv'
<1> USE DEF boot, update, history
<1>1. Writing(p) /\ ctrl' = ctrl /\ EndWrite(p, FALSE) /\ ~writes[p].wiped
  BY Zenon DEF EraseFails
<1>2. Solo' /\ Places' /\ WritesAreGood' /\ Intact'
  BY <1>1, EndedInv
<1>3. bank' = bank /\ image' = image /\ proven' = proven /\ leaving' = leaving
  BY <1>1, Zenon DEF EndWrite, TypeOK
<1>4. Intact
  BY <1>1, Zenon DEF Inv, Intact, Places, Solo
<1>5. Good(ctrl)' /\ ProvenAreGood'
  <2>1. Good(ctrl)
    BY <1>4, Zenon DEF Inv
  <2>2. Good(ctrl)'
    BY <1>1, <1>3, <2>1, SMT DEF Good, Resolve
  <2> QED
    BY <1>3, <2>2, Zenon DEF Inv, ProvenAreGood
<1>6. stage \notin {"attempt", "persist"}
  BY Zenon DEF EraseFails
<1>7. CASE p = "boot"
  <2>1. ota' = ota /\ suspended' = suspended /\ stage = "start" /\ stage' = "up"
    BY <1>1, <1>6, <1>7, Zenon DEF EndWrite, Inv, Places
  <2> QED
    BY <1>1, <1>2, <1>3, <1>4, <1>5, <2>1, Zenon DEF Inv, ResetInv, UpdateInv, NamesRunning, Resolve
<1>8. CASE p = "ota"
  <2>1. ota = "swap" /\ ota' = "idle" /\ suspended' = FALSE /\ stage = "up" /\ stage' = stage
    BY <1>1, <1>8, Zenon DEF EndWrite, Inv, Places, TaskFail
  <2> QED
    BY <1>1, <1>2, <1>3, <1>4, <1>5, <2>1, Zenon DEF Inv, ResetInv, UpdateInv, NamesRunning, Resolve
<1>9. CASE p \in {"app", "cli"}
  <2>1. ota' = ota /\ suspended' = suspended /\ stage' = stage
    BY <1>1, <1>9, Zenon DEF EndWrite, Inv, Places
  <2> QED
    BY <1>1, <1>2, <1>3, <1>4, <1>5, <2>1, Zenon DEF Inv, ResetInv, UpdateInv, NamesRunning, Resolve
<1> QED
  BY <1>7, <1>8, <1>9 DEF Writers

\* What a write that begins looks like, when nobody else writes.
LEMMA BegunFacts ==
    ASSUME TypeOK, Inv, NEW p \in Writers, NEW why \in Whys \ {"none"}, NEW c, BeginWrite(p, why, c),
           \A q \in Writers : ~Writing(q)
    PROVE  /\ Solo' /\ Intact /\ Intact'
           /\ \A q \in Writers : ~writes'[q].wiped
           /\ \A q \in Writers : Writing(q)' <=> q = p
           /\ writes'[p].why = why /\ writes'[p].block = c
<1>1. \A q \in Writers : writes'[q] = IF q = p THEN [why |-> why, block |-> c, wiped |-> FALSE]
                                      ELSE writes[q]
  BY Zenon DEF BeginWrite, TypeOK
<1>2. writes'[p].why = why /\ writes'[p].block = c /\ writes'[p].wiped = FALSE
  <2>1. writes'[p] = [why |-> why, block |-> c, wiped |-> FALSE]
    BY <1>1, Zenon
  <2> QED
    BY <2>1, SMT
<1>3. \A q \in Writers : ~writes[q].wiped
  BY Zenon DEF Inv, Places
<1>4. \A q \in Writers : ~writes'[q].wiped
  BY <1>1, <1>2, <1>3, Zenon
<1>5. \A q \in Writers : Writing(q)' <=> q = p
  <2> SUFFICES ASSUME NEW q \in Writers PROVE Writing(q)' <=> q = p
    OBVIOUS
  <2>1. CASE q = p
    BY <1>2, <2>1, Zenon DEF Writing
  <2>2. CASE q # p
    BY <1>1, <2>2, Zenon DEF Writing
  <2> QED
    BY <2>1, <2>2
<1> QED
  BY <1>2, <1>3, <1>4, <1>5, Zenon DEF Solo, Intact

\* Nobody writes between the boot loader's steps, during a download, or for an idle console and
\* an idle update in a history without a hazard.
LEMMA NobodyWrites ==
    ASSUME TypeOK, Inv
    PROVE  /\ stage \in {"reset", "pick", "jump"} => \A q \in Writers : ~Writing(q)
           /\ stage = "up" /\ ota # "swap" /\ ~Writing("app") /\ ~Writing("cli")
                  => \A q \in Writers : ~Writing(q)
           /\ ota = "load" => \A q \in Writers : ~Writing(q)
<1>1. \A q \in Writers : q = "boot" \/ q = "app" \/ q = "ota" \/ q = "cli"
  BY DEF Writers
<1>2. Places /\ ResetInv /\ UpdateInv
  BY Zenon DEF Inv
<1>3. stage \in {"reset", "pick", "jump"} => \A q \in Writers : ~Writing(q)
  BY <1>1, <1>2, Zenon DEF Places
<1>4. stage = "up" /\ ota # "swap" /\ ~Writing("app") /\ ~Writing("cli")
         => \A q \in Writers : ~Writing(q)
  BY <1>1, <1>2, Zenon DEF Places
<1>5. ota = "load" => stage = "up" /\ suspended
  BY <1>2, Zenon DEF ResetInv, UpdateInv
<1>6. ota = "load" => \A q \in Writers : ~Writing(q)
  BY <1>1, <1>2, <1>5, Zenon DEF Places
<1> QED
  BY <1>3, <1>4, <1>6

LEMMA StartBootInv ==
    ASSUME TypeOK, Inv, StartBoot
    PROVE  Inv'
<1> USE DEF boot, update, history
<1>1. \A q \in Writers : ~Writing(q)
  BY NobodyWrites, Zenon DEF StartBoot
<1>2. Intact /\ Good(ctrl)
  BY <1>1, Zenon DEF Inv, Places, Intact
<1>3. ctrl' = ctrl /\ image' = image /\ proven' = proven /\ suspended' = suspended
      /\ leaving' = leaving /\ ota' = ota /\ stage = "reset"
  BY Zenon DEF StartBoot
<1>4. Good(ctrl)'
  BY <1>2, <1>3, SMT DEF Good, Resolve
<1>5. ResetInv' /\ UpdateInv' /\ ProvenAreGood'
  <2>1. ota' = "idle" /\ ~suspended' /\ ~leaving'
    BY <1>3, Zenon DEF Inv, ResetInv
  <2> QED
    BY <1>3, <2>1, Zenon DEF Inv, ResetInv, UpdateInv, ProvenAreGood
<1>6. CASE ctrl.unverified
  <2>0. PICK c : c = RecordAttempt(ctrl)
    OBVIOUS
  <2>1. stage' = "attempt" /\ BeginWrite("boot", "attempt", c) /\ bank' = Resolve(c)
    BY <1>6, <2>0, Zenon DEF StartBoot
  <2>2. "boot" \in Writers /\ "attempt" \in Whys \ {"none"}
    BY DEF Writers, Whys
  <2>3. /\ Solo' /\ Intact /\ Intact'
        /\ \A q \in Writers : ~writes'[q].wiped
        /\ \A q \in Writers : Writing(q)' <=> q = "boot"
        /\ writes'["boot"].why = "attempt" /\ writes'["boot"].block = c
    BY <1>1, <2>1, <2>2, BegunFacts
  <2>4. c.unverified /\ c.magic
    <3>1. ctrl.magic
      BY <1>2, <1>6, Zenon DEF Good
    <3> QED
      BY <1>6, <2>0, <3>1, Zenon DEF RecordAttempt, TypeOK, Block
  <2>5. Good(c)'
    BY <2>4, Zenon DEF Good
  <2>6. ~Writing("app")' /\ ~Writing("ota")' /\ ~Writing("cli")'
    BY <2>3 DEF Writers
  <2>7. Places'
    BY <2>1, <2>3, <2>6, Zenon DEF Places
  <2>8. WritesAreGood'
    BY <2>1, <2>3, <2>5, <2>6, Zenon DEF WritesAreGood
  <2> QED
    BY <1>4, <1>5, <2>1, <2>3, <2>7, <2>8, Zenon DEF Inv, NamesRunning
<1>7. CASE ~ctrl.unverified
  <2>1. stage' = "pick" /\ writes' = writes /\ bank' = Resolve(ctrl)
    BY <1>7, Zenon DEF StartBoot
  <2>2. \A q \in Writers : ~Writing(q)'
    BY <1>1, <2>1, Zenon DEF Writing
  <2>3. ~Writing("boot")' /\ ~Writing("app")' /\ ~Writing("ota")' /\ ~Writing("cli")'
    BY <2>2 DEF Writers
  <2>4. Solo' /\ Places' /\ WritesAreGood'
    <3>1. \A q \in Writers : ~writes'[q].wiped
      BY <1>2, <2>1, Zenon DEF Intact
    <3> QED
      BY <2>2, <2>3, <3>1, Zenon DEF Solo, Places, WritesAreGood
  <2>5. bank' = Resolve(ctrl)'
    BY <1>3, <2>1, SMT DEF Resolve
  <2> QED
    BY <1>4, <1>5, <2>1, <2>4, <2>5, Zenon DEF Inv, NamesRunning
<1> QED
  BY <1>6, <1>7

LEMMA PickBankInv ==
    ASSUME TypeOK, Inv, PickBank
    PROVE  Inv'
<1> USE DEF boot, update, history
<1>1. \A q \in Writers : ~Writing(q)
  BY NobodyWrites, Zenon DEF PickBank
<1>2. Intact /\ Good(ctrl)
  BY <1>1, Zenon DEF Inv, Places, Intact
<1>3. ctrl' = ctrl /\ image' = image /\ proven' = proven /\ suspended' = suspended
      /\ leaving' = leaving /\ ota' = ota /\ stage = "pick"
  BY Zenon DEF PickBank
<1>4. ota = "idle" /\ ~suspended /\ ~leaving
  BY <1>3, Zenon DEF Inv, ResetInv
<1>5. bank = Resolve(ctrl)
  BY <1>2, <1>3, <1>4, Zenon DEF Inv, NamesRunning
<1>6. Good(ctrl)'
  BY <1>2, <1>3, SMT DEF Good, Resolve
<1>7. ResetInv' /\ UpdateInv' /\ ProvenAreGood'
  BY <1>3, <1>4, Zenon DEF Inv, ResetInv, UpdateInv, ProvenAreGood
<1>8. CASE ~Valid(bank) /\ Valid(Other(bank))
  <2>0. PICK c : c = Persisted(ctrl, Other(bank))
    OBVIOUS
  <2>1. stage' = "persist" /\ BeginWrite("boot", "persist", c) /\ bank' = Other(bank)
    BY <1>8, <2>0, Zenon DEF PickBank
  <2>2. "boot" \in Writers /\ "persist" \in Whys \ {"none"}
    BY DEF Writers, Whys
  <2>3. /\ Solo' /\ Intact /\ Intact'
        /\ \A q \in Writers : ~writes'[q].wiped
        /\ \A q \in Writers : Writing(q)' <=> q = "boot"
        /\ writes'["boot"].why = "persist" /\ writes'["boot"].block = c
    BY <1>1, <2>1, <2>2, BegunFacts
  <2>4. ctrl.unverified
    <3> SUFFICES ASSUME ~ctrl.unverified PROVE FALSE
      OBVIOUS
    <3>1. bank \in proven
      BY <1>2, <1>5, Zenon DEF Good
    <3>2. image[bank] = "good"
      BY <3>1, Zenon DEF Inv, ProvenAreGood
    <3> QED
      BY <1>8, <3>2, Zenon DEF Valid
  <2>5. c.magic /\ c.unverified /\ c.flag = Other(bank)
    BY <2>0, <2>4, Zenon DEF Persisted, TypeOK, Block
  <2>6. Good(c)' /\ Resolve(c) = bank'
    BY <2>1, <2>5, Zenon DEF Good, Resolve
  <2>7. ~Writing("app")' /\ ~Writing("ota")' /\ ~Writing("cli")'
    BY <2>3 DEF Writers
  <2>8. Places'
    BY <2>1, <2>3, <2>7, Zenon DEF Places
  <2>9. WritesAreGood'
    BY <2>1, <2>3, <2>6, <2>7, Zenon DEF WritesAreGood
  <2> QED
    BY <1>6, <1>7, <2>1, <2>3, <2>8, <2>9, Zenon DEF Inv, NamesRunning
<1>9. CASE ~(~Valid(bank) /\ Valid(Other(bank)))
  <2>1. Valid(bank)
    <3>1. PICK b \in proven : image[b] = "good"
      BY Zenon DEF Inv, ProvenAreGood
    <3>2. b = bank \/ b = Other(bank)
      BY DEF TypeOK, Banks, Other
    <3> QED
      BY <1>9, <3>1, <3>2, Zenon DEF Valid
  <2>2. stage' = "jump" /\ writes' = writes /\ bank' = bank
    BY <1>9, <2>1, Zenon DEF PickBank
  <2>3. \A q \in Writers : ~Writing(q)'
    BY <1>1, <2>2, Zenon DEF Writing
  <2>4. ~Writing("boot")' /\ ~Writing("app")' /\ ~Writing("ota")' /\ ~Writing("cli")'
    BY <2>3 DEF Writers
  <2>5. Solo' /\ Places' /\ WritesAreGood'
    <3>1. \A q \in Writers : ~writes'[q].wiped
      BY <1>2, <2>2, Zenon DEF Intact
    <3> QED
      BY <2>3, <2>4, <3>1, Zenon DEF Solo, Places, WritesAreGood
  <2>6. bank' = Resolve(ctrl)'
    BY <1>3, <1>5, <2>2, SMT DEF Resolve
  <2> QED
    BY <1>6, <1>7, <2>2, <2>5, <2>6, Zenon DEF Inv, NamesRunning
<1> QED
  BY <1>8, <1>9

LEMMA StartAppInv ==
    ASSUME TypeOK, Inv, StartApp
    PROVE  Inv'
<1> USE DEF boot, update, history
<1>1. \A q \in Writers : ~Writing(q)
  BY NobodyWrites, Zenon DEF StartApp
<1>2. Intact /\ Good(ctrl)
  BY <1>1, Zenon DEF Inv, Places, Intact
<1>3. ctrl' = ctrl /\ image' = image /\ proven' = proven /\ suspended' = suspended
      /\ leaving' = leaving /\ ota' = ota /\ bank' = bank /\ stage = "jump"
  BY Zenon DEF StartApp
<1>4. ota = "idle" /\ ~suspended /\ ~leaving
  BY <1>3, Zenon DEF Inv, ResetInv
<1>5. bank = Resolve(ctrl)
  BY <1>2, <1>3, <1>4, Zenon DEF Inv, NamesRunning
<1>6. Good(ctrl)' /\ bank' = Resolve(ctrl)'
  BY <1>2, <1>3, <1>5, SMT DEF Good, Resolve
<1>7. ResetInv' /\ UpdateInv' /\ ProvenAreGood'
  BY <1>3, <1>4, Zenon DEF Inv, ResetInv, UpdateInv, ProvenAreGood
<1>8. CASE Valid(bank) /\ ctrl.magic /\ ctrl.rolledBack
  <2>0. PICK c : c = Unmarked(ctrl)
    OBVIOUS
  <2>1. stage' = "start" /\ BeginWrite("boot", "mark", c)
    BY <1>8, <2>0, Zenon DEF StartApp
  <2>2. "boot" \in Writers /\ "mark" \in Whys \ {"none"}
    BY DEF Writers, Whys
  <2>3. /\ Solo' /\ Intact /\ Intact'
        /\ \A q \in Writers : ~writes'[q].wiped
        /\ \A q \in Writers : Writing(q)' <=> q = "boot"
        /\ writes'["boot"].why = "mark" /\ writes'["boot"].block = c
    BY <1>1, <2>1, <2>2, BegunFacts
  <2>4. c.magic = ctrl.magic /\ c.unverified = ctrl.unverified /\ c.flag = ctrl.flag
    BY <2>0, Zenon DEF Unmarked, TypeOK, Block
  <2>5. Good(c)' /\ Resolve(c) = bank'
    BY <1>2, <1>3, <1>5, <2>4, SMT DEF Good, Resolve
  <2>6. ~Writing("app")' /\ ~Writing("ota")' /\ ~Writing("cli")'
    BY <2>3 DEF Writers
  <2>7. Places'
    BY <2>1, <2>3, <2>6, Zenon DEF Places
  <2>8. WritesAreGood'
    BY <2>3, <2>5, <2>6, Zenon DEF WritesAreGood
  <2> QED
    BY <1>6, <1>7, <2>3, <2>7, <2>8, Zenon DEF Inv, NamesRunning
<1>9. CASE ~(Valid(bank) /\ ctrl.magic /\ ctrl.rolledBack)
  <2>1. writes' = writes
    BY <1>9, Zenon DEF StartApp
  <2>2. \A q \in Writers : ~Writing(q)'
    BY <1>1, <2>1, Zenon DEF Writing
  <2>3. ~Writing("boot")' /\ ~Writing("app")' /\ ~Writing("ota")' /\ ~Writing("cli")'
    BY <2>2 DEF Writers
  <2>4. Solo' /\ Places' /\ WritesAreGood'
    <3>1. \A q \in Writers : ~writes'[q].wiped
      BY <1>2, <2>1, Zenon DEF Intact
    <3> QED
      BY <2>2, <2>3, <3>1, Zenon DEF Solo, Places, WritesAreGood
  <2> QED
    BY <1>6, <1>7, <2>4, Zenon DEF Inv, NamesRunning
<1> QED
  BY <1>8, <1>9

\* A reset forgets every write that had not erased anything.
LEMMA ResetKeepsInv ==
    ASSUME TypeOK, Inv, Reset, hurt' = {}
    PROVE  Inv'
<1>1. Intact
  BY Zenon DEF Reset, Intact
<1>2. ctrl' = ctrl /\ image' = image /\ proven' = proven /\ ~suspended'
      /\ ~leaving' /\ ota' = "idle" /\ stage' = "reset"
  BY Zenon DEF Reset
<1>3. \A q \in Writers : ~Writing(q)' /\ ~writes'[q].wiped
  <2>1. NoWrite.why = "none" /\ NoWrite.wiped = FALSE
    BY Zenon DEF NoWrite
  <2>2. \A q \in Writers : writes'[q] = NoWrite
    BY Zenon DEF Reset
  <2> QED
    BY <2>1, <2>2, Zenon DEF Writing
<1>4. ~Writing("boot")' /\ ~Writing("app")' /\ ~Writing("ota")' /\ ~Writing("cli")'
  BY <1>3 DEF Writers
<1>5. Good(ctrl)'
  <2>1. Good(ctrl)
    BY <1>1, Zenon DEF Inv
  <2> QED
    BY <1>2, <2>1, SMT DEF Good, Resolve
<1>6. Solo' /\ Places' /\ WritesAreGood'
  BY <1>3, <1>4, Zenon DEF Solo, Places, WritesAreGood
<1>7. ResetInv' /\ UpdateInv' /\ ProvenAreGood'
  BY <1>2, Zenon DEF Inv, ResetInv, UpdateInv, ProvenAreGood
<1> QED
  BY <1>2, <1>5, <1>6, <1>7, Zenon DEF Inv, NamesRunning

\* When nobody writes and nobody begins to, what is said of writes holds.
LEMMA QuietFacts ==
    ASSUME TypeOK, Inv, \A q \in Writers : ~Writing(q), writes' = writes
    PROVE  Solo' /\ Places' /\ WritesAreGood' /\ Intact /\ Intact'
<1>1. \A q \in Writers : ~Writing(q)' /\ ~writes[q].wiped /\ ~writes'[q].wiped
  BY Zenon DEF Writing, Inv, Places
<1>2. ~Writing("boot")' /\ ~Writing("app")' /\ ~Writing("ota")' /\ ~Writing("cli")'
  BY <1>1 DEF Writers
<1> QED
  BY <1>1, <1>2, Zenon DEF Solo, Places, WritesAreGood, Intact

LEMMA ConfirmSlotInv ==
    ASSUME TypeOK, Inv, ConfirmSlot, hurt' = {}
    PROVE  Inv'
<1> USE DEF boot, update, history
<1>1. stage = "up" /\ ~suspended /\ ~leaving /\ ~Writing("app") /\ ~Writing("cli")
  BY Zenon DEF ConfirmSlot, Up, TypeOK
<1>2. ota = "idle"
  BY <1>1, Zenon DEF Inv, UpdateInv
<1>3. \A q \in Writers : ~Writing(q)
  BY <1>1, <1>2, NobodyWrites, Zenon
<1>4. Intact /\ Good(ctrl)
  BY <1>3, Zenon DEF Inv, Places, Intact
<1>5. /\ ctrl' = ctrl /\ image' = image /\ proven' = proven /\ suspended' = suspended
      /\ leaving' = leaving /\ ota' = ota /\ bank' = bank /\ stage' = stage
  BY Zenon DEF ConfirmSlot
<1>6. bank = Resolve(ctrl)
  BY <1>1, <1>2, <1>4, Zenon DEF Inv, NamesRunning
<1>7. Good(ctrl)' /\ bank' = Resolve(ctrl)'
  BY <1>4, <1>5, <1>6, SMT DEF Good, Resolve
<1>8. PICK c : c = Confirmed(ctrl)
  OBVIOUS
<1>9. BeginWrite("app", "confirm", c) /\ image[bank] = "good"
  BY <1>8, Zenon DEF ConfirmSlot
<1>10. "app" \in Writers /\ "confirm" \in Whys \ {"none"}
  BY DEF Writers, Whys
<1>11. /\ Solo' /\ Intact /\ Intact'
       /\ \A q \in Writers : ~writes'[q].wiped
       /\ \A q \in Writers : Writing(q)' <=> q = "app"
       /\ writes'["app"].why = "confirm" /\ writes'["app"].block = c
  BY <1>3, <1>9, <1>10, BegunFacts
<1>12. ~Writing("boot")' /\ ~Writing("ota")' /\ ~Writing("cli")'
  BY <1>11 DEF Writers
<1>13. c.magic = ctrl.magic /\ ~c.unverified /\ c.flag = ctrl.flag
  BY <1>8, Zenon DEF Confirmed, TypeOK, Block
<1>14. Resolve(c) = bank'
  BY <1>5, <1>6, <1>13, SMT DEF Resolve
<1>15. Places'
  BY <1>1, <1>5, <1>11, <1>12, Zenon DEF Places
<1>16. WritesAreGood'
  BY <1>5, <1>9, <1>11, <1>12, <1>13, <1>14, Zenon DEF WritesAreGood
<1>17. ResetInv' /\ UpdateInv' /\ ProvenAreGood'
  BY <1>5, Zenon DEF Inv, ResetInv, UpdateInv, ProvenAreGood
<1> QED
  BY <1>7, <1>11, <1>15, <1>16, <1>17, Zenon DEF Inv, NamesRunning

LEMMA SwitchBankInv ==
    ASSUME TypeOK, Inv, SwitchBank, hurt' = {}
    PROVE  Inv'
<1> USE DEF boot, update, history
<1>1. stage = "up" /\ ~suspended /\ ~leaving /\ ~Writing("app") /\ ~Writing("cli")
  BY Zenon DEF SwitchBank, Up, TypeOK
<1>2. ota = "idle"
  BY <1>1, Zenon DEF Inv, UpdateInv
<1>3. \A q \in Writers : ~Writing(q)
  BY <1>1, <1>2, NobodyWrites, Zenon
<1>4. Intact /\ Good(ctrl)
  BY <1>3, Zenon DEF Inv, Places, Intact
<1>5. /\ ctrl' = ctrl /\ image' = image /\ proven' = proven /\ suspended' = suspended
      /\ leaving' = leaving /\ ota' = ota /\ bank' = bank /\ stage' = stage
  BY Zenon DEF SwitchBank
<1>6. bank = Resolve(ctrl)
  BY <1>1, <1>2, <1>4, Zenon DEF Inv, NamesRunning
<1>7. Good(ctrl)' /\ bank' = Resolve(ctrl)'
  BY <1>4, <1>5, <1>6, SMT DEF Good, Resolve
<1>8. PICK c : c = Switched(ctrl)
  OBVIOUS
<1>9. BeginWrite("cli", "switch", c)
  BY <1>8, Zenon DEF SwitchBank
<1>10. "cli" \in Writers /\ "switch" \in Whys \ {"none"}
  BY DEF Writers, Whys
<1>11. /\ Solo' /\ Intact /\ Intact'
       /\ \A q \in Writers : ~writes'[q].wiped
       /\ \A q \in Writers : Writing(q)' <=> q = "cli"
       /\ writes'["cli"].why = "switch" /\ writes'["cli"].block = c
  BY <1>3, <1>9, <1>10, BegunFacts
<1>12. ~Writing("boot")' /\ ~Writing("ota")' /\ ~Writing("app")'
  BY <1>11 DEF Writers
<1>13. c.magic /\ c.unverified
  BY <1>8, Zenon DEF Switched, TypeOK, Block
<1>14. Good(c)'
  BY <1>13, Zenon DEF Good
<1>15. Places'
  BY <1>1, <1>5, <1>11, <1>12, Zenon DEF Places
<1>16. WritesAreGood'
  BY <1>11, <1>12, <1>14, Zenon DEF WritesAreGood
<1>17. ResetInv' /\ UpdateInv' /\ ProvenAreGood'
  BY <1>5, Zenon DEF Inv, ResetInv, UpdateInv, ProvenAreGood
<1> QED
  BY <1>7, <1>11, <1>15, <1>16, <1>17, Zenon DEF Inv, NamesRunning

LEMMA StartUpdateInv ==
    ASSUME TypeOK, Inv, NEW f \in Images, StartUpdate(f), hurt' = {}
    PROVE  Inv'
<1> USE DEF boot, update, history
<1>1. /\ stage = "up" /\ ~leaving /\ ota = "idle" /\ bank \in proven
      /\ ~Writing("app") /\ ~Writing("cli")
  BY Zenon DEF StartUpdate, Up
<1>2. \A q \in Writers : ~Writing(q)
  BY <1>1, NobodyWrites, Zenon
<1>3. /\ ctrl' = ctrl /\ image' = image /\ proven' = proven /\ suspended' = TRUE
      /\ leaving' = leaving /\ ota' = "load" /\ bank' = bank /\ stage' = stage
      /\ writes' = writes
  BY Zenon DEF StartUpdate
<1>4. Solo' /\ Places' /\ WritesAreGood' /\ Intact /\ Intact'
  BY <1>2, <1>3, QuietFacts
<1>5. Good(ctrl) /\ bank = Resolve(ctrl)
  BY <1>1, <1>4, Zenon DEF Inv, NamesRunning
<1>6. Good(ctrl)' /\ bank' = Resolve(ctrl)'
  BY <1>3, <1>5, SMT DEF Good, Resolve
<1>7. ResetInv' /\ UpdateInv' /\ ProvenAreGood'
  BY <1>1, <1>3, Zenon DEF Inv, ResetInv, UpdateInv, ProvenAreGood
<1> QED
  BY <1>4, <1>6, <1>7, Zenon DEF Inv, NamesRunning

\* A chunk goes to the bank that does not run, which the running one does not depend on.
LEMMA GetChunkInv ==
    ASSUME TypeOK, Inv, GetChunk
    PROVE  Inv'
<1> USE DEF boot, update, history
<1>1. stage = "up" /\ ota = "load"
  BY Zenon DEF GetChunk, Up
<1>2. \A q \in Writers : ~Writing(q)
  BY <1>1, NobodyWrites, Zenon
<1>3. /\ ctrl' = ctrl /\ suspended' = suspended /\ leaving' = leaving /\ ota' = ota
      /\ bank' = bank /\ stage' = stage /\ writes' = writes /\ proven' = proven \ {Inactive}
  BY Zenon DEF GetChunk
<1>4. Solo' /\ Places' /\ WritesAreGood' /\ Intact /\ Intact'
  BY <1>2, <1>3, QuietFacts
<1>5. suspended /\ ~leaving /\ bank \in proven
  BY <1>1, Zenon DEF Inv, UpdateInv
<1>6. Good(ctrl) /\ bank = Resolve(ctrl)
  BY <1>1, <1>4, <1>5, Zenon DEF Inv, NamesRunning
<1>7. Inactive # bank
  BY <1>6, BlockTypes, Zenon DEF TypeOK, Inactive
<1>8. bank \in proven'
  BY <1>3, <1>5, <1>7
<1>9. Good(ctrl)' /\ bank' = Resolve(ctrl)'
  BY <1>3, <1>6, <1>8, SMT DEF Good, Resolve
<1>10. \A b \in Banks : b # Inactive => image'[b] = image[b]
  BY Zenon DEF GetChunk, TypeOK
<1>11. ProvenAreGood'
  BY <1>3, <1>8, <1>10 DEF Inv, ProvenAreGood, TypeOK
<1>12. ResetInv' /\ UpdateInv'
  BY <1>1, <1>3, <1>5, <1>8, Zenon DEF ResetInv, UpdateInv
<1> QED
  BY <1>4, <1>9, <1>11, <1>12, Zenon DEF Inv, NamesRunning

\* An update that fails, or goes on without having done anything.
LEMMA UpdateEndsInv ==
    ASSUME TypeOK, Inv, ota = "load", UNCHANGED <<ctrl, image, boot, writes, leaving, history>>,
           TaskFail \/ (ota' = ota /\ suspended' = suspended)
    PROVE  Inv'
<1> USE DEF boot, update, history
<1>1. /\ ctrl' = ctrl /\ image' = image /\ proven' = proven /\ leaving' = leaving
      /\ bank' = bank /\ stage' = stage /\ writes' = writes
  BY Zenon
<1>2. \A q \in Writers : ~Writing(q)
  BY NobodyWrites, Zenon
<1>3. Solo' /\ Places' /\ WritesAreGood' /\ Intact /\ Intact'
  BY <1>1, <1>2, QuietFacts
<1>4. stage = "up" /\ ~leaving
  BY Zenon DEF Inv, ResetInv, UpdateInv
<1>5. Good(ctrl) /\ bank = Resolve(ctrl)
  BY <1>3, <1>4, Zenon DEF Inv, NamesRunning
<1>6. Good(ctrl)' /\ bank' = Resolve(ctrl)'
  BY <1>1, <1>5, SMT DEF Good, Resolve
<1>7. ResetInv' /\ UpdateInv' /\ ProvenAreGood'
  <2>1. ResetInv' /\ ProvenAreGood'
    BY <1>1, <1>4, Zenon DEF Inv, ResetInv, ProvenAreGood
  <2>2. CASE TaskFail
    BY <1>1, <1>4, <2>1, <2>2, SMT DEF UpdateInv, TaskFail
  <2>3. CASE ota' = ota /\ suspended' = suspended
    <3>1. UpdateInv
      BY Zenon DEF Inv
    <3> QED
      BY <1>1, <2>1, <2>3, <3>1, SMT DEF UpdateInv
  <2> QED
    BY <2>1, <2>2, <2>3
<1> QED
  BY <1>3, <1>6, <1>7, Zenon DEF Inv, NamesRunning

LEMMA VerifyInv ==
    ASSUME TypeOK, Inv, Verify
    PROVE  Inv'
<1> USE DEF boot, update, history
<1>1. stage = "up" /\ ota = "load"
  BY Zenon DEF Verify, Up
<1>2. CASE TaskFail /\ writes' = writes
  BY <1>1, <1>2, UpdateEndsInv, Zenon DEF Verify
<1>3. CASE ota' = "swap" /\ BeginWrite("ota", "swap", Switched(ctrl)) /\ suspended' = suspended
  <2>1. \A q \in Writers : ~Writing(q)
    BY <1>1, NobodyWrites, Zenon
  <2>2. /\ ctrl' = ctrl /\ image' = image /\ proven' = proven /\ leaving' = leaving
        /\ bank' = bank /\ stage' = stage
    BY Zenon DEF Verify
  <2>3. PICK c : c = Switched(ctrl)
    OBVIOUS
  <2>4. BeginWrite("ota", "swap", c)
    BY <1>3, <2>3, Zenon
  <2>5. "ota" \in Writers /\ "swap" \in Whys \ {"none"}
    BY DEF Writers, Whys
  <2>6. /\ Solo' /\ Intact /\ Intact'
        /\ \A q \in Writers : ~writes'[q].wiped
        /\ \A q \in Writers : Writing(q)' <=> q = "ota"
        /\ writes'["ota"].why = "swap" /\ writes'["ota"].block = c
    BY <2>1, <2>4, <2>5, BegunFacts
  <2>7. ~Writing("boot")' /\ ~Writing("app")' /\ ~Writing("cli")'
    BY <2>6 DEF Writers
  <2>8. Good(c)'
    <3>1. c.magic /\ c.unverified
      BY <2>3, Zenon DEF Switched, TypeOK, Block
    <3> QED
      BY <3>1, Zenon DEF Good
  <2>9. suspended /\ ~leaving
    BY <1>1, Zenon DEF Inv, UpdateInv
  <2>10. Good(ctrl) /\ bank = Resolve(ctrl)
    BY <1>1, <2>6, <2>9, Zenon DEF Inv, NamesRunning
  <2>11. Good(ctrl)' /\ bank' = Resolve(ctrl)'
    BY <2>2, <2>10, SMT DEF Good, Resolve
  <2>12. Places' /\ WritesAreGood'
    BY <1>1, <1>3, <2>2, <2>6, <2>7, <2>8, Zenon DEF Places, WritesAreGood
  <2>13. ResetInv' /\ UpdateInv' /\ ProvenAreGood'
    BY <1>1, <1>3, <2>2, <2>9, Zenon DEF Inv, ResetInv, UpdateInv, ProvenAreGood
  <2> QED
    BY <2>6, <2>11, <2>12, <2>13, Zenon DEF Inv, NamesRunning
<1> QED
  BY <1>2, <1>3, Zenon DEF Verify

\* An erased block is not to be believed, until it is written.
LEMMA ErasedStep ==
    ASSUME TypeOK, Inv, Erased, Next, hurt' = {}
    PROVE  Erased'
<1> USE DEF boot, update, history
<1>1. ASSUME NEW p \in Writers, EraseBlock(p) PROVE Erased'
  <2>1. ~Blank.magic
    BY Zenon DEF Blank
  <2> QED
    BY <1>1, <2>1, Zenon DEF EraseBlock, Erased
<1>2. ASSUME NEW p \in Writers, EraseFails(p) PROVE Erased'
  BY <1>2, EndedInv, Zenon DEF EraseFails, Erased
<1>3. ASSUME NEW p \in Writers, WriteBlock(p) PROVE Erased'
  BY <1>3, EndedInv, Zenon DEF WriteBlock, Erased
<1>4. ASSUME NEW p \in Writers, WriteFails(p) PROVE Erased'
  BY <1>4, Zenon DEF WriteFails
<1>5. ASSUME NEW p \in Writers, NEW why, NEW c, BeginWrite(p, why, c), ctrl' = ctrl PROVE Erased'
  <2>1. \A q \in Writers : writes'[q].wiped => writes[q].wiped
    <3> SUFFICES ASSUME NEW q \in Writers, writes'[q].wiped PROVE writes[q].wiped
      OBVIOUS
    <3>1. CASE q = p
      <4>1. writes'[p] = [why |-> why, block |-> c, wiped |-> FALSE]
        BY <1>5, Zenon DEF BeginWrite, TypeOK
      <4>2. writes'[p].wiped = FALSE
        BY <4>1, SMT
      <4> QED
        BY <3>1, <4>2
    <3>2. CASE q # p
      BY <1>5, <3>2, Zenon DEF BeginWrite, TypeOK
    <3> QED
      BY <3>1, <3>2
  <2> QED
    BY <1>5, <2>1, Zenon DEF Erased, Intact
<1>6. ASSUME writes' = writes, ctrl' = ctrl PROVE Erased'
  BY <1>6, Zenon DEF Erased, Intact
<1>7. ASSUME Reset PROVE Erased'
  <2>1. NoWrite.wiped = FALSE
    BY Zenon DEF NoWrite
  <2> QED
    BY <1>7, <2>1, Zenon DEF Reset, Erased, Intact
<1>8. "boot" \in Writers /\ "app" \in Writers /\ "ota" \in Writers /\ "cli" \in Writers
  BY DEF Writers
<1>9. CASE BootStep
  BY <1>5, <1>6, <1>8, <1>9, Zenon DEF BootStep, StartBoot, PickBank, StartApp
<1>10. CASE WriteStep
  BY <1>1, <1>2, <1>3, <1>4, <1>10, Zenon DEF WriteStep
<1>11. CASE Crash \/ PowerCut \/ Reboot
  BY <1>7, <1>11, Zenon DEF Crash, PowerCut, Reboot
<1>12. CASE ConfirmSlot \/ SwitchBank
  BY <1>5, <1>8, <1>12, Zenon DEF ConfirmSlot, SwitchBank
<1>13. CASE \E f \in Images : StartUpdate(f)
  BY <1>6, <1>13, Zenon DEF StartUpdate
<1>14. CASE UpdateStep
  BY <1>5, <1>6, <1>8, <1>14, Zenon DEF UpdateStep, GetChunk, AttemptEnds, Refused, Verify
<1> QED
  BY <1>9, <1>10, <1>11, <1>12, <1>13, <1>14, Zenon DEF Next

LEMMA InvStep ==
    ASSUME TypeOK, Inv, [Next]_vars, hurt' = {}
    PROVE  Inv'
<1> USE DEF boot, update, history
<1>1. CASE WriteStep
  <2>1. ASSUME NEW p \in Writers, WriteFails(p) PROVE FALSE
    BY <2>1, Zenon DEF WriteFails
  <2> QED
    BY <1>1, <2>1, EraseInv, EraseFailsInv, WriteInv, Zenon DEF WriteStep
<1>2. CASE BootStep
  BY <1>2, StartBootInv, PickBankInv, StartAppInv, Zenon DEF BootStep
<1>3. CASE Crash \/ PowerCut \/ Reboot
  BY <1>3, ResetKeepsInv, Zenon DEF Crash, PowerCut, Reboot
<1>4. CASE ConfirmSlot \/ SwitchBank
  BY <1>4, ConfirmSlotInv, SwitchBankInv, Zenon
<1>5. CASE \E f \in Images : StartUpdate(f)
  BY <1>5, StartUpdateInv, Zenon
<1>6. CASE GetChunk \/ Verify
  BY <1>6, GetChunkInv, VerifyInv, Zenon
<1>7. CASE AttemptEnds
  BY <1>7, UpdateEndsInv, Zenon DEF AttemptEnds
<1>8. CASE Refused
  BY <1>8, UpdateEndsInv, Zenon DEF Refused
<1>9. CASE UNCHANGED vars
  <2>1. \A q \in Writers : Writing(q)' <=> Writing(q)
    BY <1>9, Zenon DEF Writing, vars
  <2>2. Good(ctrl) => Good(ctrl)'
    BY <1>9, Zenon DEF Good, Resolve, vars
  <2> QED
    BY <1>9, Zenon DEF Inv, ResetInv, UpdateInv, Solo, Places, WritesAreGood, Intact, NamesRunning,
       ProvenAreGood, Writing, Good, Resolve, vars
<1> QED
  BY <1>1, <1>2, <1>3, <1>4, <1>5, <1>6, <1>7, <1>8, <1>9, Zenon DEF Next, UpdateStep

LEMMA InitInv == Init => Inv /\ Erased
<1> SUFFICES ASSUME Init PROVE Inv /\ Erased
  OBVIOUS
<1>1. NoWrite.why = "none" /\ NoWrite.wiped = FALSE
  BY Zenon DEF NoWrite
<1>2. \A q \in Writers : ~Writing(q) /\ ~writes[q].wiped
  BY <1>1, Zenon DEF Init, Writing
<1>3. ~Writing("boot") /\ ~Writing("app") /\ ~Writing("ota") /\ ~Writing("cli")
  BY <1>2 DEF Writers
<1>4. Solo /\ Places /\ WritesAreGood /\ Intact
  BY <1>2, <1>3, Zenon DEF Solo, Places, WritesAreGood, Intact
<1>5. /\ Blank.flag = "A" /\ ~Blank.unverified
      /\ Shipped.flag = "A" /\ ~Shipped.unverified
  BY Zenon DEF Blank, Shipped
<1>6. Good(ctrl)
  BY <1>5, SMT DEF Init, Good, Resolve
<1>7. ProvenAreGood
  BY DEF Init, ProvenAreGood, Banks
<1>8. ResetInv /\ UpdateInv /\ NamesRunning
  BY Zenon DEF Init, ResetInv, UpdateInv, NamesRunning
<1> QED
  BY <1>4, <1>6, <1>7, <1>8, Zenon DEF Inv, Erased

LEMMA Inductive == Spec => []IInv
<1>1. Init => IInv
  BY TypeInit, InitInv, Zenon DEF IInv
<1>2. IInv /\ [Next]_vars => IInv'
  <2> SUFFICES ASSUME IInv, [Next]_vars PROVE IInv'
    OBVIOUS
  <2>1. TypeOK'
    BY TypeStep, Zenon DEF IInv
  <2>2. ASSUME hurt' = {} PROVE Inv' /\ Erased'
    <3>1. hurt = {}
      BY <2>2, HazardsStay
    <3>2. TypeOK /\ Inv /\ Erased
      BY <3>1, Zenon DEF IInv
    <3>3. Inv'
      BY <2>2, <3>2, InvStep, Zenon
    <3>4. Erased'
      <4>1. CASE Next
        BY <2>2, <3>2, <4>1, ErasedStep, Zenon
      <4>2. CASE UNCHANGED vars
        BY <3>2, <4>2, Zenon DEF Erased, Intact, vars
      <4> QED
        BY <4>1, <4>2
    <3> QED
      BY <3>3, <3>4
  <2> QED
    BY <2>1, <2>2, Zenon DEF IInv
<1> QED
  BY <1>1, <1>2, PTL DEF Spec

-----------------------------------------------------------------------------
\* The state of the banks, the block and the update stays well formed; in particular no count of
\* attempts that is stored reaches the limit (boot_bank_record_boot_attempt).
THEOREM BanksTyped == Spec => []TypeOK
<1>1. IInv => TypeOK
  BY Zenon DEF IInv
<1> QED
  BY <1>1, Inductive, PTL

\* In a history without a hazard some bank always holds an intact image that once stayed up,
\* whatever is downloaded, switched to, cut or reset (flash_bank_inactive, ota_adapter_task).
THEOREM LastGoodKept == Spec => []KnownGoodKept
<1>1. IInv => KnownGoodKept
  BY Zenon DEF IInv, Inv, ProvenAreGood, KnownGoodKept
<1> QED
  BY <1>1, Inductive, PTL

\* In a history without a hazard a block that does not ask for a trial names a bank that passed
\* one (boot_bank_confirm_boot).
THEOREM OnlyProvenVerified == Spec => []VerifiedIsProven
<1>1. IInv => VerifiedIsProven
  <2> SUFFICES ASSUME IInv, hurt = {}, ctrl.magic, ~ctrl.unverified PROVE ctrl.flag \in proven
    BY Zenon DEF VerifiedIsProven
  <2>1. Good(ctrl)
    BY Zenon DEF IInv, Inv, Erased
  <2> QED
    BY <2>1, Zenon DEF Good, Resolve
<1> QED
  BY <1>1, Inductive, PTL
=============================================================================
