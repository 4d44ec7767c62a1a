----------------------------- MODULE MCSchedule -----------------------------
(* Small instances of Schedule for TLC, on a day of three hours. *)
EXTENDS Schedule, TLC

CONSTANTS a, b, c, n1, n2, n3

Entry(name, node, activeOnly, start, end, desired) ==
  [name |-> name, node |-> node, activeOnly |-> activeOnly,
   start |-> start, end |-> end, desired |-> desired]

MCNodeOf == a :> n1 @@ b :> n2 @@ c :> n3

(* The two entries of the scheduler's documentation, for a group that is   *)
(* not active_only; an active_only group to be closed for an hour; and a   *)
(* sleep schedule for the remaining offer.                                 *)
DayAndNight == << Entry("night-sleep", n1, FALSE, 2, 1, FALSE),
                  Entry("day-active",  n1, FALSE, 1, 2, TRUE),
                  Entry("closed",      n3, TRUE,  2, 0, FALSE) >>
NightSleep  == {[start |-> 2, end |-> 1, offers |-> {b}]}

(* The example of the documentation as it is, with both groups active_only. *)
DocExample == << Entry("night-sleep", n1, TRUE, 2, 1, FALSE),
                 Entry("day-active",  n1, TRUE, 1, 2, TRUE) >>

(* Two entries, one to open and one to close offers at night, of one name. *)
OneName == << Entry("night", n1, FALSE, 2, 1, FALSE),
              Entry("night", n2, FALSE, 2, 1, TRUE) >>

Never == {}
=============================================================================
