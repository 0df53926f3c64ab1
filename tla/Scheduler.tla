----------------------------- MODULE Scheduler -----------------------------
(***************************************************************************)
(* The pure posting calendar of the backend (shmuel_backend/scheduler.py): *)
(* a grid of two slots a day, a Shabbat block, a capacity per slot, and    *)
(* the search for the next slot a property can be posted in.               *)
(*                                                                         *)
(* Time is a natural number of minutes on the local clock of the policy's  *)
(* time zone; minute 0 is a Monday 00:00.  The code converts to and from   *)
(* UTC at its borders, which is one to one outside the hour repeated when  *)
(* summer time ends.                                                       *)
(***************************************************************************)
EXTENDS Integers, FiniteSets, FiniteSetsExt

CONSTANT MaxHops   \* how many slots the search tries before it gives up: 60

ASSUME MaxHopsAssumption == MaxHops \in Nat \ {0}

MinutesPerDay == 1440

Time == Nat

TimeOfDay(t) == t % MinutesPerDay

Date(t) == t \div MinutesPerDay

\* Monday is 0, as in datetime.weekday().
Weekday(t) == Date(t) % 7

Friday == 4
Saturday == 5

SchedulePolicy ==
  [ morning_slot       : 0 .. MinutesPerDay - 1,
    evening_slot       : 0 .. MinutesPerDay - 1,
    posts_per_slot     : 1 .. 50,
    friday_block_after : 0 .. MinutesPerDay - 1,
    saturday_resume_at : 0 .. MinutesPerDay - 1 ]

slot_times(policy) == {policy.morning_slot, policy.evening_slot}

SlotsOfDay(day, policy) == { day * MinutesPerDay + s : s \in slot_times(policy) }

SlotsOfDays(days, policy) == UNION { SlotsOfDay(day, policy) : day \in days }

is_in_shabbat_block(t, policy) ==
  \/ Weekday(t) = Friday /\ TimeOfDay(t) >= policy.friday_block_after
  \/ Weekday(t) = Saturday /\ TimeOfDay(t) < policy.saturday_resume_at

\* A bug: not before the given time, where strictly after it is meant.
Bug_next_slot_not_before(after, policy) ==
  LET candidates == SlotsOfDays(Date(after) .. Date(after) + 2, policy)
  IN  Min({ c \in candidates : c >= after })

\* The first of the candidates on the day of `after` and the two days that
\* follow it.  (The code's "exhausted lookahead" is reached by no input.)
next_slot_after(after, policy) ==
  LET candidates == SlotsOfDays(Date(after) .. Date(after) + 2, policy)
  IN  Min({ c \in candidates : c > after })

-----------------------------------------------------------------------------
(* What next_post_slot returns.  The module SlotSearch is the loop of the  *)
(* code, and shows that the loop computes this.                            *)

NoSlot == -1   \* RuntimeError("could not find a free slot in 60 hops")

is_slot(t, policy) == TimeOfDay(t) \in slot_times(policy)

\* The grid after `floor`, far enough for MaxHops slots at one slot a day.
SlotsAfter(floor, policy) ==
  { t \in SlotsOfDays(Date(floor) .. Date(floor) + MaxHops, policy) : t > floor }

\* The hop on which the search arrives at slot t.
HopOf(t, floor, policy) ==
  Cardinality({ u \in SlotsAfter(floor, policy) : u <= t })

\* taken[t] is the count of posts already scheduled at t, absent meaning 0.
CountAt(taken, t) == IF t \in DOMAIN taken THEN taken[t] ELSE 0

OpenSlots(floor, taken, policy) ==
  { t \in SlotsAfter(floor, policy) :
      /\ HopOf(t, floor, policy) <= MaxHops
      /\ ~ is_in_shabbat_block(t, policy)
      /\ CountAt(taken, t) < policy.posts_per_slot }

next_post_slot(floor, taken, policy) ==
  IF OpenSlots(floor, taken, policy) = {}
  THEN NoSlot
  ELSE Min(OpenSlots(floor, taken, policy))
=============================================================================
