----------------------------- MODULE SlotSearch -----------------------------
(***************************************************************************)
(* The loop of next_post_slot (scheduler.py:104-135) as a machine: one     *)
(* action per way an iteration can go.  The inputs are chosen once, in     *)
(* SearchInit.  What the loop must compute is stated without it, in        *)
(* Scheduler.                                                              *)
(***************************************************************************)
EXTENDS Scheduler

CONSTANTS
  Floors,     \* values of now_utc, the time the search starts from
  Schedules,  \* the posting schedules
  Taken       \* values of counts: functions from slot times to counts

ASSUME SlotSearchAssumption ==
  /\ Floors \subseteq Time
  /\ Schedules \subseteq SchedulePolicy
  /\ \A taken \in Taken : \A t \in DOMAIN taken : taken[t] \in Nat

VARIABLES
  now_utc, schedule, counts,    \* the arguments now_utc, policy, capacity_at
  cursor,                       \* cursor_local
  hops,                         \* iterations done
  result                        \* None until the search ends

searchVars == <<now_utc, schedule, counts, cursor, hops, result>>
input == <<now_utc, schedule, counts>>

None == -2

SearchInit ==
  /\ now_utc \in Floors
  /\ schedule \in Schedules
  /\ counts \in Taken
  /\ cursor = now_utc
  /\ hops = 0
  /\ result = None

Searching == result = None /\ hops < MaxHops

candidate == next_slot_after(cursor, schedule)

Skip ==
  /\ cursor' = candidate
  /\ hops' = hops + 1
  /\ UNCHANGED <<input, result>>

SkipShabbat ==
  /\ Searching
  /\ is_in_shabbat_block(candidate, schedule)
  /\ Skip

SkipFull ==
  /\ Searching
  /\ ~ is_in_shabbat_block(candidate, schedule)
  /\ CountAt(counts, candidate) >= schedule.posts_per_slot
  /\ Skip

\* A bug: a slot takes one post more than its capacity.
Bug_Return ==
  /\ Searching
  /\ ~ is_in_shabbat_block(candidate, schedule)
  /\ CountAt(counts, candidate) <= schedule.posts_per_slot
  /\ result' = candidate
  /\ UNCHANGED <<input, cursor, hops>>

Return ==
  /\ Searching
  /\ ~ is_in_shabbat_block(candidate, schedule)
  /\ CountAt(counts, candidate) < schedule.posts_per_slot
  /\ result' = candidate
  /\ UNCHANGED <<input, cursor, hops>>

GiveUp ==
  /\ result = None
  /\ hops = MaxHops
  /\ result' = NoSlot
  /\ UNCHANGED <<input, cursor, hops>>

SearchNext == SkipShabbat \/ SkipFull \/ Return \/ GiveUp

SearchSpec == SearchInit /\ [][SearchNext]_searchVars

-----------------------------------------------------------------------------
SearchTypeOK ==
  /\ now_utc \in Floors
  /\ schedule \in Schedules
  /\ counts \in Taken
  /\ cursor \in Time
  /\ hops \in 0 .. MaxHops
  /\ result \in Time \cup {None, NoSlot}

\* A slot the loop may return: on the grid, outside Shabbat, not full.
Eligible(t) ==
  /\ t > now_utc
  /\ is_slot(t, schedule)
  /\ ~ is_in_shabbat_block(t, schedule)
  /\ CountAt(counts, t) < schedule.posts_per_slot

\* The search never jumps over a slot it could have used: everything between
\* now_utc and the cursor is off the grid, in Shabbat or full.
NothingMissed == \A t \in now_utc + 1 .. cursor : ~ Eligible(t)

\* What the search returns is eligible and strictly after now_utc, and no
\* earlier time is: a property is never scheduled on Shabbat, on a full slot,
\* on top of the slot just released, nor later than it has to be.
ReturnsEarliest ==
  result \in Time =>
    /\ Eligible(result)
    /\ \A t \in now_utc + 1 .. result - 1 : ~ Eligible(t)

\* The loop computes the operator the queue modules schedule with: the same
\* slot, and failure on exactly the inputs whose first MaxHops slots are all
\* in Shabbat or full.
LoopComputesNextPostSlot ==
  result # None => result = next_post_slot(now_utc, counts, schedule)
=============================================================================
