---- MODULE NoValue ----
(***************************************************************************)
(* The value of what is not there: a pin that nobody set, a time that has  *)
(* not come, a reading that failed. Modules that are checked together      *)
(* share it.                                                               *)
(***************************************************************************)
EXTENDS Integers
CONSTANT None
ASSUME NoneIsNoNumber == None \notin Int
====
