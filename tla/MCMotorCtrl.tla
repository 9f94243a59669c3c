---------------------------- MODULE MCMotorCtrl ----------------------------
(* Instances of MotorCtrl for TLC. *)
EXTENDS MotorCtrl

CONSTANTS app, cli

BurstOf(k) == [kind |-> "burst", n |-> k]
Park == [kind |-> "park", n |-> 1]
Bench(d) == [kind |-> d, n |-> 1]
StopCmd == [kind |-> "stop", n |-> 1]

AllCmds == {BurstOf(2), Park, Bench("rev"), StopCmd}
OneBurst == {BurstOf(1)}

\* The detailed task implements the promise of the motor port.
PortSpec == Port!Spec
=============================================================================
