--------------------------- MODULE MCBootBanks ---------------------------
(***************************************************************************)
(* Instances of BootBanks: the shortest image with a partial state, the    *)
(* limits of the code, and a few power failures.                           *)
(***************************************************************************)
EXTENDS BootBanks

MCSpare == {"good", "crash", "none"}
MCFails == {"write_fails"}
==========================================================================
