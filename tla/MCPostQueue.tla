---------------------------- MODULE MCPostQueue ----------------------------
(* Instances of PostQueue.                                                 *)
EXTENDS PostQueue, TLC

Hour(day, hour) == day * MinutesPerDay + hour * 60

OnePost ==
  [ morning_slot |-> 8 * 60, evening_slot |-> 20 * 60, posts_per_slot |-> 1,
    friday_block_after |-> 13 * 60, saturday_resume_at |-> 21 * 60 ]

\* Winter: Shabbat enters before both slots of Friday, in summer between them.
Winter == [OnePost EXCEPT !.friday_block_after = 7 * 60]

SummerAndWinter == {OnePost, Winter}

\* Thursday morning and Saturday night: the slots of the first lie before
\* Shabbat, on both its sides, and in the past of the second.
AroundShabbat == {Hour(3, 10), Hour(5, 22)}

Symmetry == Permutations(Properties) \cup Permutations(Requests)
=============================================================================
