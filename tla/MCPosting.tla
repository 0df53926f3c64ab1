----------------------------- MODULE MCPosting ------------------------------
(***************************************************************************)
(* The queue on a small instance, one request at a time, and the search of *)
(* the calendar it schedules with, around a weekend: floors on and off the *)
(* slots, every pattern of full slots from Thursday evening to Sunday      *)
(* morning.  The search changes nothing and the queue takes it in one      *)
(* step, so a behaviour is of one of them with the other at rest.          *)
(***************************************************************************)
EXTENDS MCPostQueue, SlotSearch

DefaultPolicy == [OnePost EXCEPT !.posts_per_slot = 2]

MCSchedules ==
  { DefaultPolicy,
    \* the admin typed the two slots the other way round, one post per slot
    [OnePost EXCEPT !.morning_slot = 1290, !.evening_slot = 9 * 60],
    \* both slots at the same time, exactly when Shabbat starts and ends
    [DefaultPolicy EXCEPT !.morning_slot = 780, !.evening_slot = 780,
                          !.saturday_resume_at = 780] }

MCFloors ==
  { Hour(3, 10), Hour(3, 20), Hour(4, 8) - 1, Hour(4, 13), Hour(5, 21), Hour(5, 21) + 30,
    Hour(6, 0), Hour(13, 9) }

Grid == { Hour(3, 20), Hour(4, 8), Hour(4, 13), Hour(5, 21) + 30, Hour(6, 8) }

MCTaken == [Grid -> 0 .. 2]

VARIABLE part

PostingInit ==
  /\ part \in {"calendar", "queue"}
  /\ Init /\ SearchInit
  /\ part = "queue" => now_utc = Hour(3, 10) /\ schedule = DefaultPolicy /\ counts = [t \in Grid |-> 0]

PostingNext ==
  \/ part = "calendar" /\ SearchNext /\ UNCHANGED <<part, vars>>
  \/ part = "queue" /\ Next /\ UNCHANGED <<part, searchVars>>

PostingSpec == PostingInit /\ [][PostingNext]_<<part, vars, searchVars>>
=============================================================================
