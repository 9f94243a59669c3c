---- MODULE Bus ----
(***************************************************************************)
(* The pins that the Wi-Fi link shares with the peripherals: a loan of     *)
(* wfci_bus_adapter.c by profile, the session of the GPIO expander on top  *)
(* of it (gpio_expander_loan.c), which joins a loan that already gives     *)
(* access, and the writes and readings of gpio_expander_adapter.c and      *)
(* aw9523b.c. Every task may be preempted between two steps, the ones that *)
(* end a session and give the semaphore back included.                     *)
(***************************************************************************)
EXTENDS Integers, NoValue
CONSTANTS Tasks,      \* app task, motor task, console
          Pins,       \* of the expander's outputs
          Loans,      \* outer loans tasks make: none, session (weight_with_expander_loan), DISPLAY, WEIGH, ADC
          MaxCalls    \* bound: calls of all tasks
ASSUME LoansAreNamed == None \notin Loans \cup {"EXPANDER"}
VARIABLES sem,      \* s_loan_sem can be taken
          taken,    \* s_taken.loan_sem
          loan,     \* the profile lent, None when Wi-Fi has its pins: s_loan_held, s_held_profile
          i2c,      \* s_i2c_ready
          session,  \* gpio_expander_loan.c: held and owned
          args,     \* s_pin_pin and s_pin_level, of the last call that set them
          shadow,   \* aw9523b_t: out, and whether a write is due
          chip,     \* the outputs of the chip
          task,     \* by task: where it is, its call, and where an end leads
          borrowed, \* history: a call used a loan or arguments of another task
          lost,     \* history: the end of one loan cleared a mark of the next
          calls
lending == <<sem, taken, loan, i2c>>
wires == <<args, shadow, chip>>
busVars == <<lending, session, wires, task, borrowed, lost, calls>>

Idle == [at |-> "idle", outer |-> "none", inner |-> None, nested |-> FALSE, then |-> "idle", back |-> "idle"]
BusInit ==
    /\ sem = TRUE /\ taken = FALSE /\ loan = None /\ i2c = FALSE
    /\ session = [held |-> FALSE, owned |-> FALSE]
    /\ args = None /\ shadow = [out |-> {}, dirty |-> FALSE] /\ chip = {}
    /\ task = [t \in Tasks |-> Idle] /\ borrowed = FALSE /\ lost = FALSE /\ calls = 0

------------------------------------------------------------------------------
CoversExpander(profile) == profile \in {"EXPANDER", "DISPLAY", "WEIGH"}
Accessible == loan # None /\ CoversExpander(loan)
Moves(t, at) == task' = [task EXCEPT ![t] = IF at = "idle" THEN Idle ELSE [@ EXCEPT !.at = at]]

(* wfci_acquire: a call that finds the semaphore taken fails, at once when  *)
(* it only tries, else when its time is over; one whose Wi-Fi does not lend *)
(* its pins gives the semaphore back.                                       *)
SetsUp(profile) == i2c' = (CoversExpander(profile) \/ i2c)
TearsDown(profile) == i2c' = (i2c /\ ~CoversExpander(profile))
GivesBack(t, next) == task' = [task EXCEPT ![t].at = "give", ![t].then = next]
Acquire(t, profile, granted, failed) ==
    \/ /\ sem /\ sem' = FALSE /\ taken' = TRUE
       /\ \/ loan' = profile /\ SetsUp(profile) /\ Moves(t, granted)
          \/ GivesBack(t, failed) /\ UNCHANGED <<loan, i2c>>
    \/ ~sem /\ Moves(t, failed) /\ UNCHANGED lending
(* wfci_port_release; next is where its task goes then.                     *)
Release(t, profile, next) ==
    /\ IF loan = profile THEN loan' = None /\ TearsDown(profile) /\ GivesBack(t, next)
                         ELSE Moves(t, next) /\ UNCHANGED <<loan, i2c>>
    /\ UNCHANGED <<sem, taken>>
(* wfci_sync_release_partial: the mark is cleared after the semaphore was   *)
(* given, when another task may have taken it.                              *)
GiveSem(t) ==
    /\ task[t].at = "give"
    /\ IF taken THEN sem' = TRUE /\ Moves(t, "unmark") ELSE Moves(t, task[t].then) /\ UNCHANGED sem
    /\ UNCHANGED <<taken, loan, i2c, session, wires, borrowed, lost, calls>>
Unmark(t) ==
    /\ task[t].at = "unmark" /\ taken' = FALSE /\ lost' = (lost \/ ~sem) /\ Moves(t, task[t].then)
    /\ UNCHANGED <<sem, loan, i2c, session, wires, borrowed, calls>>

(* gpio_expander_loan_end: no longer held, then the loan returned when it   *)
(* was the session's own, then no longer owned.                             *)
EndsSession(t, next) ==
    IF session.held
    THEN session' = [session EXCEPT !.held = FALSE] /\ task' = [task EXCEPT ![t].at = "ended", ![t].back = next]
    ELSE UNCHANGED session /\ Moves(t, next)
EndedKeepsLoan(t) ==
    /\ task[t].at = "ended" /\ Moves(t, "disown")
    /\ UNCHANGED <<lending, session, wires, borrowed, lost, calls>>
Ended(t) ==
    /\ task[t].at = "ended"
    /\ IF session.owned THEN Release(t, "EXPANDER", "disown") ELSE Moves(t, "disown") /\ UNCHANGED lending
    /\ UNCHANGED <<session, wires, borrowed, lost, calls>>
OwnSession(t) ==
    \/ task[t].outer = "session" /\ task[t].at \in {"enter", "body", "flush", "end", "leave", "ended"}
    \/ task[t].outer = "none" /\ task[t].at \in {"body", "flush", "end", "ended"}
Disown(t) ==
    /\ task[t].at = "disown" /\ session' = [session EXCEPT !.owned = FALSE] /\ Moves(t, task[t].back)
    /\ lost' = (lost \/ \E u \in Tasks \ {t}: OwnSession(u))
    /\ UNCHANGED <<lending, wires, borrowed, calls>>

(* A call: an outer loan or none, and in it a write of a pin, a reading of  *)
(* the inputs, or a transfer of its own.                                    *)
Call(t, outer, inner) ==
    /\ task[t].at = "idle" /\ calls < MaxCalls /\ calls' = calls + 1
    /\ (outer \in {"none", "session"} => inner # None) /\ (outer = "ADC" => inner = None)
    /\ task' = [task EXCEPT ![t] = [Idle EXCEPT !.at = IF outer = "none" THEN "enter" ELSE "call",
                                                  !.outer = outer, !.inner = inner]]
    /\ UNCHANGED <<lending, session, wires, borrowed, lost>>

(* gpio_expander_loan_begin_common: refused while any session is held; no   *)
(* loan of its own when the bus is lent to a profile with the expander. The *)
(* marks are set after the loan was granted. Where it goes then is next.    *)
SessionBegin(t, next, failed) ==
    \/ session.held /\ Moves(t, failed) /\ UNCHANGED <<lending, session, borrowed>>
    \/ /\ ~session.held /\ Accessible /\ session' = [held |-> TRUE, owned |-> FALSE]
       /\ borrowed' = (borrowed \/ ~CoversExpander(task[t].outer)) /\ Moves(t, next) /\ UNCHANGED lending
    \/ /\ ~session.held /\ ~Accessible
       /\ Acquire(t, "EXPANDER", IF next = "body" THEN "mark" ELSE "markouter", failed)
       /\ UNCHANGED <<session, borrowed>>
OuterBegin(t) ==
    /\ task[t].at = "call"
    /\ IF task[t].outer = "session" THEN SessionBegin(t, "enter", "idle")
       ELSE /\ Acquire(t, task[t].outer, IF task[t].inner = None THEN "use" ELSE "enter", "idle")
            /\ UNCHANGED <<session, borrowed>>
    /\ UNCHANGED <<wires, lost, calls>>
Marked(t) ==
    /\ task[t].at \in {"mark", "markouter"} /\ session' = [held |-> TRUE, owned |-> TRUE]
    /\ Moves(t, IF task[t].at = "mark" THEN "body" ELSE "enter")
    /\ borrowed' = (borrowed \/ session.held)
    /\ UNCHANGED <<lending, wires, lost, calls>>

(* gpio_exp_set_pin stores its arguments in statics, and every operation    *)
(* takes a session that is held for one of its own caller's.                *)
Enter(t) ==
    /\ task[t].at = "enter"
    /\ args' = IF task[t].inner \in Pins \X BOOLEAN THEN task[t].inner ELSE args
    /\ task' = [task EXCEPT ![t].at = IF session.held THEN "body" ELSE "begin", ![t].nested = session.held]
    /\ borrowed' = (borrowed \/ (session.held /\ task[t].outer # "session"))
    /\ UNCHANGED <<lending, session, shadow, chip, lost, calls>>
InnerBegin(t) ==
    /\ task[t].at = "begin" /\ SessionBegin(t, "body", IF task[t].outer = "none" THEN "idle" ELSE "leave")
    /\ UNCHANGED <<wires, lost, calls>>
(* aw9523b_set_output_bit, then aw9523b_flush: the shadow stays dirty when  *)
(* the transfer fails. A reading is one transfer.                           *)
Writes(t) == task[t].inner \in Pins \X BOOLEAN
Transfers == i2c
Body(t) ==
    /\ task[t].at = "body" /\ Moves(t, "flush")
    /\ IF Writes(t)
       THEN LET out == IF args[2] THEN shadow.out \cup {args[1]} ELSE shadow.out \ {args[1]}
            IN  shadow' = [out |-> out, dirty |-> shadow.dirty \/ out # shadow.out]
       ELSE UNCHANGED shadow
    /\ borrowed' = (borrowed \/ (Writes(t) /\ args # task[t].inner))
    /\ UNCHANGED <<lending, session, args, chip, lost, calls>>
Flush(t) ==
    /\ task[t].at = "flush" /\ Moves(t, "end")
    /\ \/ Transfers /\ Writes(t) /\ shadow.dirty /\ chip' = shadow.out /\ shadow' = [shadow EXCEPT !.dirty = FALSE]
       \/ UNCHANGED <<chip, shadow>>
    /\ UNCHANGED <<lending, session, args, borrowed, lost, calls>>
InnerEnd(t) ==
    LET next == IF task[t].outer = "none" THEN "idle" ELSE "leave" IN
    /\ task[t].at = "end"
    /\ IF task[t].nested THEN Moves(t, next) /\ UNCHANGED session ELSE EndsSession(t, next)
    /\ UNCHANGED <<lending, wires, borrowed, lost, calls>>
Use(t) ==
    /\ task[t].at = "use" /\ Moves(t, "leave")
    /\ UNCHANGED <<lending, session, wires, borrowed, lost, calls>>
OuterEnd(t) ==
    /\ task[t].at = "leave"
    /\ IF task[t].outer = "session" THEN EndsSession(t, "idle") /\ UNCHANGED lending
                                     ELSE Release(t, task[t].outer, "idle") /\ UNCHANGED session
    /\ UNCHANGED <<wires, borrowed, lost, calls>>

BusStep(t) == \/ OuterBegin(t) \/ Marked(t) \/ Enter(t) \/ InnerBegin(t) \/ Body(t) \/ Flush(t) \/ Use(t)
              \/ InnerEnd(t) \/ OuterEnd(t) \/ Ended(t) \/ Disown(t) \/ GiveSem(t) \/ Unmark(t)
BusNext == \E t \in Tasks:
    \/ BusStep(t)
    \/ \E o \in Loans, i \in (Pins \X BOOLEAN) \cup {"inputs", None}: Call(t, o, i)
BusSpec == BusInit /\ [][BusNext]_busVars

------------------------------------------------------------------------------
(* As long as no call used the loan or the arguments of another task: a     *)
(* transfer finds the bus set up and lent, one task at a time uses it, what *)
(* the expander shows is what was written but for a transfer that failed,   *)
(* and when all have returned Wi-Fi has its pins, the next loan can be had  *)
(* and no session is left, unless the end of one loan cleared a mark of the *)
(* next (LoanReturned is what is promised, and does not hold).              *)
Using(t) == task[t].at \in {"body", "flush", "use"}
AllReturned == \A t \in Tasks: task[t].at = "idle"
Returned == sem /\ loan = None /\ ~i2c /\ ~session.held
BusIntact ==
    borrowed \/ /\ \A t \in Tasks: task[t].at = "flush" => i2c /\ Accessible
                /\ \A t, u \in Tasks: Using(t) /\ Using(u) => t = u
                /\ shadow.dirty \/ chip = shadow.out
                /\ AllReturned => lost \/ Returned
(* Who has borrowed nothing returns everything.                             *)
LoanReturned == ~borrowed /\ AllReturned => Returned
====
