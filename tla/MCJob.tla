------------------------------- MODULE MCJob -------------------------------
(***************************************************************************)
(* A job of the feeder, for TLC: the supervisor that portions it           *)
(* (Dispense, with the histories of MCDispense, over the abstract motor    *)
(* port), and the motor task that carries out its commands (MotorCtrl),    *)
(* which implements that port. A behaviour is that of one of them, named   *)
(* by focus; the variables of the other rest.                              *)
(***************************************************************************)
EXTENDS MCMotorCtrl, MCDispense

VARIABLE focus

feedVars == <<dispVars, divided, crossed>>

JobInit == focus \in {"motor", "feed"} /\ Init /\ HInit

MotorOnly(A) == focus = "motor" /\ A /\ UNCHANGED <<focus, feedVars>>
FeedOnly(A) == focus = "feed" /\ A /\ UNCHANGED <<focus, vars>>
JobNext == MotorOnly(Next) \/ FeedOnly(HNext)

\* The fairness of each module, in its own behaviours.
JobFairness ==
    /\ WF_vars(MotorOnly(Loop))
    /\ WF_dispVars(FeedOnly(AppStep))
    /\ WF_dispVars(FeedOnly(Poll))
    /\ WF_dispVars(FeedOnly(MotorStep))
    /\ WF_dispVars(FeedOnly(BenchWaits))
    /\ \A t \in Tasks : WF_dispVars(FeedOnly(Returns(t)))
JobSpec == JobInit /\ [][JobNext]_<<focus, vars, feedVars>> /\ JobFairness
=============================================================================
