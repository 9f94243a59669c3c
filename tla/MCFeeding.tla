----------------------------- MODULE MCFeeding -----------------------------
(***************************************************************************)
(* What feeds and when, for TLC: the motor task (MotorCtrl), and the       *)
(* schedule (Schedule) as three instances, each with the bounds its        *)
(* questions need. A behaviour is that of one of them, named by focus; the *)
(* variables of the others rest.                                           *)
(***************************************************************************)
EXTENDS MCMotorCtrl, MCSchedule

VARIABLE focus

\* The bounds of the cfg are those of two days of commands with a clock set within
\* them.  The others are two days with a clock set over midnight, a busy supervisor
\* and a full bowl, and a few minutes of failing writes, reboots and lost jobs.
OverMidnight == INSTANCE Schedule WITH
                    Jumps <- AMinuteOrTwo, Ops <- {"full"}
Failures == INSTANCE Schedule WITH
                MaxTime <- 2, Jumps <- NoJump, Masks <- SomeDays,
                Ops <- {"set", "delete", "toggle", "enable", "write_fails", "reboot", "drop"}

FeedInit == Init /\ SchedInit /\ focus \in {"motor", "commands", "midnight", "failures"}

MotorOnly(A) == focus = "motor" /\ A /\ UNCHANGED <<focus, schedVars>>
PlanOnly(plan, A) == focus = plan /\ A /\ UNCHANGED <<focus, vars>>
\* The bounds of a plan may be used up; the motor task never stops.
PlanRests == focus # "motor" /\ UNCHANGED <<focus, vars, schedVars>>
FeedNext ==
    \/ MotorOnly(Next)
    \/ PlanOnly("commands", SchedNext)
    \/ PlanOnly("midnight", OverMidnight!SchedNext)
    \/ PlanOnly("failures", Failures!SchedNext)
    \/ PlanRests
FeedSpec == FeedInit /\ [][FeedNext]_<<focus, vars, schedVars>>
=============================================================================
