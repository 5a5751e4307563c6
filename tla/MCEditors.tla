------------------------------- MODULE MCEditors -------------------------------
(* Editors of times and dates of libhildon1, each on its own: a behaviour exercises  *)
(* the one in focus.                                                          *)
EXTENDS HildonTimeEditor, HildonDateEditor, HildonCalendar

CONSTANTS Parts

VARIABLE focus

(* A day that every month has. *)
MCTodays == {[year |-> 2, month |-> 2, day |-> 2]}

(* A day that the short month has not. *)
MCLateTodays == {[year |-> 2, month |-> 1, day |-> 6]}

(* The parts that are not in focus stay in one of their initial states. *)
MCInit ==
  /\ focus \in Parts
  /\ TimeInit /\ (focus # "time" => time.clock24)
  /\ DateInit /\ (focus # "date" => date.min = 1 /\ date.max = 1)
  /\ CalendarInit
  /\ (focus # "calendar" =>
        /\ ~cal.keys /\ cal.min = 1 /\ cal.max = 2
        /\ cal.year = 2 /\ cal.month = 2 /\ cal.selected = 2)

Others(part) ==
  /\ part # "time" => UNCHANGED timeVars
  /\ part # "date" => UNCHANGED dateVars
  /\ part # "calendar" => UNCHANGED calVars

MCNext ==
  /\ UNCHANGED focus
  /\ \/ focus = "time" /\ TimeNext
     \/ focus = "date" /\ DateNext
     \/ focus = "calendar" /\ CalendarNext
  /\ Others(focus)

MCVars == <<focus, timeVars, dateVars, calVars>>

MCSpec == MCInit /\ [][MCNext]_MCVars
==============================================================================
