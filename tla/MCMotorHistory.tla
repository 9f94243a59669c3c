-------------------------- MODULE MCMotorHistory --------------------------
(***************************************************************************)
(* MotorCtrl with a history variable, for what the documents say about the *)
(* length of a session.  It does not influence the task.                   *)
(***************************************************************************)
EXTENDS MCMotorCtrl

VARIABLE total  \* slices since the session began, at most 2 * RunMax + 1

\* The slices a step takes, while a session is open.
Took == IF elapsed' > elapsed THEN elapsed' - elapsed ELSE 0

HInit == Init /\ total = 0
HNext ==
    /\ Next
    /\ total' = IF mutex' THEN CapAt(total + Took, 2 * RunMax + 1) ELSE 0
HSpec == HInit /\ [][HNext]_<<vars, total>>

\* dispense-cycle.md (Hard safety cutoff): the 20 s cutoff covers the session
\* from its first EN through anti-jam.  The settle delay and the iteration
\* that notices the timeout are allowed on top of it.
SessionCapped == mutex => total <= RunMax + SettleTicks + 3
===========================================================================
