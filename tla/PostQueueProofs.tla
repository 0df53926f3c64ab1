--------------------------- MODULE PostQueueProofs ---------------------------
(* The posting calendar and the search for a slot in it, for every         *)
(* schedule, every pattern of counts and every bound on the hops; and the  *)
(* post queue that schedules with it, for any number of properties: what   *)
(* holds of any number of requests interleaved at every await, and, for    *)
(* requests taken one at a time, that the queue implements the rotation.   *)
EXTENDS PostQueue, SlotSearch, FiniteSetTheorems, SequenceTheorems, FunctionTheorems,
        WellFoundedInduction, TLAPS

\* A set of natural numbers that is not empty has a least element.
LEMMA LeastNatural ==
  ASSUME NEW S \in SUBSET Nat, S # {}
  PROVE  \E x \in S : \A y \in S : x <= y
<1>1. PICK x \in S : \A y \in S : ~ (<<y, x>> \in OpToRel(<, Nat))
  BY NatLessThanWellFounded, WFMin
<1>2. \A y \in S : ~ (y < x)
  BY <1>1 DEF OpToRel
<1>3. QED
  BY <1>2

\* Min finds it.
LEMMA MinNatural ==
  ASSUME NEW S \in SUBSET Nat, S # {}
  PROVE  Min(S) \in S /\ \A y \in S : Min(S) <= y
BY LeastNatural DEF Min

\* Days and times of day are the quotient and the remainder of a time.
LEMMA DayAndTime ==
  ASSUME NEW day \in Nat, NEW s \in 0 .. MinutesPerDay - 1
  PROVE  /\ day * MinutesPerDay + s \in Time
         /\ Date(day * MinutesPerDay + s) = day
         /\ TimeOfDay(day * MinutesPerDay + s) = s
         /\ (day + 1) * MinutesPerDay + s = (day * MinutesPerDay + s) + MinutesPerDay
BY DEF Date, TimeOfDay, Time, MinutesPerDay

\* A time of day, today and tomorrow, seen from a time of today.
LEMMA TodayAndTomorrow ==
  ASSUME NEW t \in Nat, NEW day \in Nat, NEW s \in 0 .. MinutesPerDay - 1,
         day * MinutesPerDay <= t, t < (day + 1) * MinutesPerDay
  PROVE  /\ t < (day + 1) * MinutesPerDay + s
         /\ day * MinutesPerDay + s <= t + MinutesPerDay
BY DEF MinutesPerDay

\* The slots of some days: the times on the grid that fall on one of them.
LEMMA SlotsOfDaysMembers ==
  ASSUME NEW days \in SUBSET Nat, NEW config \in SchedulePolicy
  PROVE  /\ SlotsOfDays(days, config) \subseteq Nat
         /\ \A t \in Nat : t \in SlotsOfDays(days, config)
                            <=> is_slot(t, config) /\ Date(t) \in days
<1>1. slot_times(config) \subseteq 0 .. MinutesPerDay - 1
  BY DEF slot_times, SchedulePolicy
<1>2. \A t : t \in SlotsOfDays(days, config) <=>
        \E day \in days, s \in slot_times(config) : t = day * MinutesPerDay + s
  <2>1. \A t : t \in SlotsOfDays(days, config)
                <=> \E day \in days : t \in SlotsOfDay(day, config)
    BY DEF SlotsOfDays
  <2>2. \A t, day : t \in SlotsOfDay(day, config)
                     <=> \E s \in slot_times(config) : t = day * MinutesPerDay + s
    BY DEF SlotsOfDay
  <2>3. QED
    BY <2>1, <2>2
<1>3. \A day \in Nat, s \in 0 .. MinutesPerDay - 1 :
        /\ day * MinutesPerDay + s \in Nat
        /\ Date(day * MinutesPerDay + s) = day
        /\ TimeOfDay(day * MinutesPerDay + s) = s
  BY DayAndTime DEF Time
<1>4. SlotsOfDays(days, config) \subseteq Nat
  BY <1>1, <1>2, <1>3
<1>5. ASSUME NEW t \in SlotsOfDays(days, config)
      PROVE  is_slot(t, config) /\ Date(t) \in days
  BY <1>1, <1>2, <1>3 DEF is_slot
<1>6. ASSUME NEW t \in Nat, is_slot(t, config), Date(t) \in days
      PROVE  t \in SlotsOfDays(days, config)
  <2>1. t = Date(t) * MinutesPerDay + TimeOfDay(t)
    BY DEF Date, TimeOfDay, MinutesPerDay
  <2>2. QED
    BY <1>2, <1>6, <2>1 DEF is_slot
<1>7. QED
  BY <1>4, <1>5, <1>6

\* What next_slot_after returns is the first slot strictly after the time it
\* is given, and at most a day later (so the lookahead is never exhausted).
LEMMA NextSlotAfter ==
  ASSUME NEW after \in Time, NEW config \in SchedulePolicy
  PROVE  LET n == next_slot_after(after, config)
         IN  /\ n \in Time
             /\ n > after
             /\ n <= after + MinutesPerDay
             /\ is_slot(n, config)
             /\ \A t \in Time : after < t /\ t < n => ~ is_slot(t, config)
<1> DEFINE days == Date(after) .. Date(after) + 2
           later == { c \in SlotsOfDays(days, config) : c > after }
           m == config.morning_slot
<1>1. m \in 0 .. MinutesPerDay - 1 /\ m \in slot_times(config)
  BY DEF slot_times, SchedulePolicy
<1>2. /\ Date(after) \in Nat
      /\ Date(after) * MinutesPerDay <= after
      /\ after < (Date(after) + 1) * MinutesPerDay
  BY DEF Date, Time, MinutesPerDay
<1>3. /\ SlotsOfDays(days, config) \subseteq Nat
      /\ \A t \in Nat : t \in SlotsOfDays(days, config)
                         <=> is_slot(t, config) /\ Date(t) \in days
  <2>1. days \in SUBSET Nat
    BY <1>2
  <2>2. QED
    BY <2>1, SlotsOfDaysMembers
<1>4. \A t \in Time : /\ after < t
                      /\ t <= after + MinutesPerDay
                      /\ is_slot(t, config)
                      => t \in later
  <2>1. \A t \in Time : after < t /\ t <= after + MinutesPerDay => Date(t) \in days
    BY DEF Date, MinutesPerDay, Time
  <2>2. QED
    BY <2>1, <1>3 DEF Time
<1>5. \E c \in later : c <= after + MinutesPerDay
  <2> DEFINE today == Date(after) * MinutesPerDay + m
             tomorrow == (Date(after) + 1) * MinutesPerDay + m
  <2>1. /\ today \in Time /\ TimeOfDay(today) = m
        /\ tomorrow \in Time /\ TimeOfDay(tomorrow) = m
        /\ tomorrow = today + MinutesPerDay
    <3>1. Date(after) + 1 \in Nat
      BY <1>2
    <3>2. QED
      BY <1>1, <1>2, <3>1, DayAndTime
  <2>2. after < tomorrow
    BY <1>1, <1>2, TodayAndTomorrow DEF Time
  <2>3. is_slot(today, config) /\ is_slot(tomorrow, config)
    BY <1>1, <2>1 DEF is_slot
  <2> HIDE DEF today, tomorrow
  <2>4. CASE after < today
    <3>1. today <= after + MinutesPerDay
      BY <1>1, <1>2, TodayAndTomorrow DEF Time, today
    <3>2. QED
      BY <1>4, <2>1, <2>3, <2>4, <3>1
  <2>5. CASE ~ (after < today)
    <3>1. tomorrow <= after + MinutesPerDay
      BY <2>1, <2>5 DEF Time, MinutesPerDay
    <3>2. QED
      BY <1>4, <2>1, <2>2, <2>3, <3>1
  <2>6. QED
    BY <2>4, <2>5
<1>7. later \in SUBSET Nat /\ later # {}
  BY <1>3, <1>5
<1>8. Min(later) \in later /\ \A c \in later : Min(later) <= c
  BY <1>7, MinNatural
<1>9. next_slot_after(after, config) = Min(later)
  BY DEF next_slot_after
<1> DEFINE n == Min(later)
<1>10. n \in Nat /\ n > after /\ is_slot(n, config)
  BY <1>3, <1>8
<1>11. \A c \in later : c \in Nat /\ n <= c
  BY <1>3, <1>8
<1> HIDE DEF n, later
<1>12. n <= after + MinutesPerDay
  BY <1>5, <1>10, <1>11 DEF Time, MinutesPerDay
<1>13. \A t \in Time : after < t /\ t < n => ~ is_slot(t, config)
  BY <1>4, <1>10, <1>11, <1>12 DEF Time, MinutesPerDay
<1>14. QED
  BY <1>9, <1>10, <1>12, <1>13 DEF Time, n

\* What next_post_slot returns, when it returns: a slot of the grid strictly
\* after from, outside Shabbat and below its capacity, and the earliest
\* of those within reach.
LEMMA NextPostSlot ==
  ASSUME NEW from \in Time, NEW config \in SchedulePolicy, NEW taken,
         next_post_slot(from, taken, config) # NoSlot
  PROVE  LET n == next_post_slot(from, taken, config)
         IN  /\ n \in Time
             /\ n > from
             /\ is_slot(n, config)
             /\ ~ is_in_shabbat_block(n, config)
             /\ CountAt(taken, n) < config.posts_per_slot
             /\ \A t \in OpenSlots(from, taken, config) : n <= t
<1> DEFINE open == OpenSlots(from, taken, config)
<1>1. Date(from) \in Nat
  BY DEF Date, Time, MinutesPerDay
<1>2. Date(from) .. Date(from) + MaxHops \in SUBSET Nat
  BY <1>1, MaxHopsAssumption
<1>3. \A t \in SlotsAfter(from, config) : t \in Nat /\ t > from /\ is_slot(t, config)
  BY <1>2, SlotsOfDaysMembers DEF SlotsAfter
<1>4. open \in SUBSET SlotsAfter(from, config)
  BY DEF OpenSlots
<1>5. open \in SUBSET Nat
  BY <1>3, <1>4
<1>6. open # {} /\ next_post_slot(from, taken, config) = Min(open)
  BY DEF next_post_slot
<1>7. Min(open) \in open /\ \A t \in open : Min(open) <= t
  BY <1>5, <1>6, MinNatural
<1>8. /\ ~ is_in_shabbat_block(Min(open), config)
      /\ CountAt(taken, Min(open)) < config.posts_per_slot
  BY <1>7 DEF OpenSlots
<1> HIDE DEF open
<1>9. QED
  BY <1>3, <1>4, <1>6, <1>7, <1>8 DEF open, Time

-----------------------------------------------------------------------------
(* The search.                                                             *)

\* The search has passed exactly `hops` slots, at most a day each, and none
\* of them was eligible.
SearchProgress ==
  /\ cursor >= now_utc
  /\ cursor <= now_utc + hops * MinutesPerDay
  /\ HopOf(cursor, now_utc, schedule) = hops

SearchInv ==
  /\ SearchTypeOK
  /\ SearchProgress
  /\ NothingMissed
  /\ ReturnsEarliest
  /\ LoopComputesNextPostSlot

\* The arguments, as the lemmas on the calendar take them.
LEMMA Arguments ==
  ASSUME SearchTypeOK
  PROVE  /\ now_utc \in Time /\ schedule \in SchedulePolicy
         /\ cursor \in Time /\ hops \in 0 .. MaxHops
         /\ \A t : CountAt(counts, t) \in Nat
BY SlotSearchAssumption DEF SearchTypeOK, CountAt

\* The slots after now_utc up to some time are finitely many.
LEMMA PassedFinite ==
  ASSUME NEW f \in Time, NEW p \in SchedulePolicy, NEW t \in Time
  PROVE  /\ SlotsAfter(f, p) \in SUBSET Nat
         /\ IsFiniteSet({ u \in SlotsAfter(f, p) : u <= t })
<1>1. Date(f) .. Date(f) + MaxHops \in SUBSET Nat
  BY MaxHopsAssumption DEF Date, Time, MinutesPerDay
<1>2. SlotsAfter(f, p) \in SUBSET Nat
  BY <1>1, SlotsOfDaysMembers DEF SlotsAfter
<1>3. QED
  BY <1>2, FS_BoundedSetOfNaturals DEF Time

\* The slot under test is the next one after the cursor.
LEMMA Candidate ==
  ASSUME SearchInv, hops < MaxHops
  PROVE  /\ candidate \in SlotsAfter(now_utc, schedule)
         /\ candidate \in Time /\ candidate > cursor /\ candidate > now_utc
         /\ candidate <= now_utc + (hops + 1) * MinutesPerDay
         /\ is_slot(candidate, schedule)
         /\ \A t \in Time : cursor < t /\ t < candidate => ~ is_slot(t, schedule)
         /\ HopOf(candidate, now_utc, schedule) = hops + 1
<1> DEFINE passed(t) == { u \in SlotsAfter(now_utc, schedule) : u <= t }
<1>1. /\ now_utc \in Time /\ schedule \in SchedulePolicy
      /\ cursor \in Time /\ hops \in 0 .. MaxHops
  BY Arguments DEF SearchInv
<1>2. /\ candidate \in Time /\ candidate > cursor
      /\ candidate <= cursor + MinutesPerDay
      /\ is_slot(candidate, schedule)
      /\ \A t \in Time : cursor < t /\ t < candidate => ~ is_slot(t, schedule)
  BY <1>1, NextSlotAfter DEF candidate
<1>3. /\ candidate > now_utc
      /\ candidate <= now_utc + (hops + 1) * MinutesPerDay
  BY <1>1, <1>2 DEF SearchInv, SearchProgress, Time, MinutesPerDay
<1>4. candidate \in SlotsAfter(now_utc, schedule)
  <2>1. Date(candidate) \in Date(now_utc) .. Date(now_utc) + MaxHops
    <3>1. candidate <= now_utc + MaxHops * MinutesPerDay
      BY <1>1, <1>2, <1>3, MaxHopsAssumption DEF Time, MinutesPerDay
    <3>2. QED
      BY <1>1, <1>2, <1>3, <3>1, MaxHopsAssumption DEF Date, Time, MinutesPerDay
  <2>2. Date(now_utc) .. Date(now_utc) + MaxHops \in SUBSET Nat
    BY <1>1, MaxHopsAssumption DEF Date, Time, MinutesPerDay
  <2>3. candidate \in SlotsOfDays(Date(now_utc) .. Date(now_utc) + MaxHops, schedule)
    BY <1>1, <1>2, <2>1, <2>2, SlotsOfDaysMembers DEF Time
  <2>4. QED
    BY <1>3, <2>3 DEF SlotsAfter
<1>5. passed(candidate) = passed(cursor) \cup {candidate}
  <2>1. \A t \in SlotsAfter(now_utc, schedule) : t \in Time /\ is_slot(t, schedule)
    <3>1. Date(now_utc) .. Date(now_utc) + MaxHops \in SUBSET Nat
      BY <1>1, MaxHopsAssumption DEF Date, Time, MinutesPerDay
    <3>2. QED
      BY <1>1, <3>1, SlotsOfDaysMembers DEF SlotsAfter, Time
  <2>2. \A t \in SlotsAfter(now_utc, schedule) :
          t <= candidate <=> t <= cursor \/ t = candidate
    BY <1>1, <1>2, <2>1 DEF Time
  <2>3. QED
    BY <1>4, <2>2
<1>6. candidate \notin passed(cursor)
  BY <1>1, <1>2 DEF Time
<1>7. IsFiniteSet(passed(cursor))
  BY <1>1, PassedFinite
<1>8. Cardinality(passed(cursor)) = hops
  BY DEF SearchInv, SearchProgress, HopOf
<1>9. Cardinality(passed(cursor) \cup {candidate}) = hops + 1
  <2> HIDE DEF passed
  <2>1. QED
    BY <1>6, <1>7, <1>8, FS_AddElement
<1>10. HopOf(candidate, now_utc, schedule) = hops + 1
  BY <1>5, <1>9 DEF HopOf
<1>11. QED
  BY <1>2, <1>3, <1>4, <1>10

\* A slot the search may return is eligible, and lies beyond the cursor.
LEMMA OpenSlotsAhead ==
  ASSUME SearchInv, NEW t \in OpenSlots(now_utc, counts, schedule)
  PROVE  t \in Time /\ Eligible(t) /\ t > cursor
<1>1. /\ now_utc \in Time /\ schedule \in SchedulePolicy /\ cursor \in Time
      /\ CountAt(counts, t) \in Nat
  BY Arguments DEF SearchInv
<1>2. Date(now_utc) .. Date(now_utc) + MaxHops \in SUBSET Nat
  BY <1>1, MaxHopsAssumption DEF Date, Time, MinutesPerDay
<1>3. t \in Time /\ t > now_utc /\ is_slot(t, schedule)
  BY <1>1, <1>2, SlotsOfDaysMembers DEF OpenSlots, SlotsAfter, Time
<1>4. Eligible(t)
  BY <1>3 DEF OpenSlots, Eligible
<1>5. t \notin now_utc + 1 .. cursor
  BY <1>4 DEF SearchInv, NothingMissed
<1>6. QED
  BY <1>1, <1>3, <1>4, <1>5 DEF Time

\* Going past a slot that is in Shabbat or full loses nothing.
LEMMA SkipKeepsInv ==
  ASSUME SearchInv, Searching, Skip, ~ Eligible(candidate)
  PROVE  SearchInv'
<1>1. /\ now_utc \in Time /\ schedule \in SchedulePolicy
      /\ cursor \in Time /\ hops \in 0 .. MaxHops /\ hops < MaxHops
  BY Arguments DEF SearchInv, Searching
<1>2. /\ candidate \in Time /\ candidate > cursor /\ candidate > now_utc
      /\ candidate <= now_utc + (hops + 1) * MinutesPerDay
      /\ \A t \in Time : cursor < t /\ t < candidate => ~ is_slot(t, schedule)
      /\ HopOf(candidate, now_utc, schedule) = hops + 1
  BY <1>1, Candidate
<1>3. /\ cursor' = candidate /\ hops' = hops + 1
      /\ now_utc' = now_utc /\ schedule' = schedule /\ counts' = counts
      /\ result' = result /\ result = None
  BY DEF Skip, input, Searching
<1>4. SearchTypeOK'
  BY <1>1, <1>2, <1>3, MaxHopsAssumption DEF SearchInv, SearchTypeOK
<1>5. SearchProgress'
  <2>1. candidate >= now_utc
    BY <1>1, <1>2 DEF Time
  <2>2. QED
    BY <1>2, <1>3, <2>1 DEF SearchProgress
<1>6. NothingMissed'
  <2>1. \A t : Eligible(t)' <=> Eligible(t)
    BY <1>3 DEF Eligible
  <2>2. \A t \in now_utc + 1 .. candidate : ~ Eligible(t)
    <3> SUFFICES ASSUME NEW t \in now_utc + 1 .. candidate
                 PROVE  ~ Eligible(t)
      OBVIOUS
    <3>1. CASE t <= cursor
      BY <1>1, <1>2, <3>1 DEF SearchInv, NothingMissed, Time
    <3>2. CASE cursor < t /\ t < candidate
      BY <1>1, <1>2, <3>2 DEF Eligible, Time
    <3>3. CASE t = candidate
      BY <3>3
    <3>4. QED
      BY <1>1, <1>2, <3>1, <3>2, <3>3 DEF Time
  <2>3. QED
    BY <1>3, <2>1, <2>2 DEF NothingMissed
<1>7. ReturnsEarliest' /\ LoopComputesNextPostSlot'
  BY <1>3 DEF ReturnsEarliest, LoopComputesNextPostSlot, None, Time
<1>8. QED
  BY <1>4, <1>5, <1>6, <1>7 DEF SearchInv

\* An eligible candidate is the earliest eligible slot, and the one that
\* next_post_slot stands for.
LEMMA ReturnKeepsInv ==
  ASSUME SearchInv, Return
  PROVE  SearchInv'
<1>1. /\ now_utc \in Time /\ schedule \in SchedulePolicy
      /\ cursor \in Time /\ hops \in 0 .. MaxHops /\ hops < MaxHops
  BY Arguments DEF SearchInv, Searching, Return
<1>2. /\ candidate \in SlotsAfter(now_utc, schedule)
      /\ candidate \in Time /\ candidate > cursor /\ candidate > now_utc
      /\ is_slot(candidate, schedule)
      /\ \A t \in Time : cursor < t /\ t < candidate => ~ is_slot(t, schedule)
      /\ HopOf(candidate, now_utc, schedule) = hops + 1
  BY <1>1, Candidate
<1>3. /\ result' = candidate
      /\ UNCHANGED <<now_utc, schedule, counts, cursor, hops>>
  BY DEF Return, input
<1>4. Eligible(candidate)
  BY <1>2 DEF Return, Eligible
<1>5. \A t \in Time : now_utc < t /\ t < candidate => ~ Eligible(t)
  <2>1. \A t \in Time : now_utc < t /\ t <= cursor => ~ Eligible(t)
    BY <1>1 DEF SearchInv, NothingMissed, Time
  <2>2. QED
    BY <1>1, <1>2, <2>1 DEF Eligible, Time
<1>6. SearchTypeOK' /\ SearchProgress'
  BY <1>2, <1>3 DEF SearchInv, SearchTypeOK, SearchProgress
<1>7. \A t : Eligible(t)' <=> Eligible(t)
  BY <1>3 DEF Eligible
<1>8. NothingMissed'
  BY <1>3, <1>7 DEF SearchInv, NothingMissed
<1>9. ReturnsEarliest'
  BY <1>1, <1>2, <1>3, <1>4, <1>5, <1>7 DEF ReturnsEarliest, Time
<1>10. candidate = next_post_slot(now_utc, counts, schedule)
  <2> DEFINE open == OpenSlots(now_utc, counts, schedule)
  <2>1. candidate \in open
    BY <1>1, <1>2, <1>4, MaxHopsAssumption DEF OpenSlots, Eligible
  <2>2. \A t \in open : t \in Nat /\ candidate <= t
    BY <1>2, <1>5, OpenSlotsAhead DEF Eligible, Time
  <2>3. Min(open) \in open /\ \A t \in open : Min(open) <= t
    BY <2>1, <2>2, MinNatural
  <2>4. candidate = Min(open)
    BY <2>1, <2>2, <2>3
  <2>5. QED
    BY <2>1, <2>4 DEF next_post_slot
<1>11. LoopComputesNextPostSlot'
  BY <1>3, <1>10 DEF LoopComputesNextPostSlot
<1>12. QED
  BY <1>6, <1>8, <1>9, <1>11 DEF SearchInv

\* When the hops are used up no slot within reach was open.
LEMMA GiveUpKeepsInv ==
  ASSUME SearchInv, GiveUp
  PROVE  SearchInv'
<1>1. /\ now_utc \in Time /\ schedule \in SchedulePolicy
      /\ cursor \in Time /\ hops = MaxHops
  BY Arguments DEF SearchInv, GiveUp
<1>2. result' = NoSlot /\ UNCHANGED <<now_utc, schedule, counts, cursor, hops>>
  BY DEF GiveUp, input
<1>3. OpenSlots(now_utc, counts, schedule) = {}
  <2> SUFFICES ASSUME NEW t \in OpenSlots(now_utc, counts, schedule)
               PROVE  FALSE
    OBVIOUS
  <2> DEFINE passed(u) == { v \in SlotsAfter(now_utc, schedule) : v <= u }
  <2>1. t \in Time /\ t > cursor
    BY OpenSlotsAhead
  <2>2. t \in SlotsAfter(now_utc, schedule) /\ HopOf(t, now_utc, schedule) <= MaxHops
    BY DEF OpenSlots
  <2>3. /\ passed(cursor) \cup {t} \in SUBSET passed(t)
        /\ t \notin passed(cursor)
    <3>1. \A u \in SlotsAfter(now_utc, schedule) : u \in Nat
      BY <1>1, PassedFinite
    <3>2. \A u \in SlotsAfter(now_utc, schedule) : u <= cursor => u <= t
      BY <1>1, <2>1, <3>1 DEF Time
    <3>3. t <= t /\ ~ (t <= cursor)
      BY <1>1, <2>1 DEF Time
    <3>4. QED
      BY <2>2, <3>2, <3>3
  <2>4. IsFiniteSet(passed(cursor)) /\ IsFiniteSet(passed(t))
    BY <1>1, <2>1, PassedFinite
  <2>5. Cardinality(passed(cursor)) = MaxHops /\ Cardinality(passed(t)) <= MaxHops
    BY <1>1, <2>2 DEF SearchInv, SearchProgress, HopOf
  <2> HIDE DEF passed
  <2>6. Cardinality(passed(cursor) \cup {t}) = MaxHops + 1
    BY <2>3, <2>4, <2>5, FS_AddElement
  <2>7. Cardinality(passed(cursor) \cup {t}) <= Cardinality(passed(t))
    BY <2>3, <2>4, FS_Subset
  <2>8. Cardinality(passed(t)) \in Nat
    BY <2>4, FS_CardinalityType
  <2>9. QED
    BY <2>5, <2>6, <2>7, <2>8, MaxHopsAssumption
<1>4. LoopComputesNextPostSlot'
  BY <1>2, <1>3 DEF LoopComputesNextPostSlot, next_post_slot
<1>5. SearchTypeOK' /\ SearchProgress'
  BY <1>2 DEF SearchInv, SearchTypeOK, SearchProgress
<1>6. NothingMissed'
  BY <1>2 DEF SearchInv, NothingMissed, Eligible
<1>7. ReturnsEarliest'
  BY <1>2 DEF ReturnsEarliest, NoSlot, Time
<1>8. QED
  BY <1>4, <1>5, <1>6, <1>7 DEF SearchInv

\* The search starts with nothing passed.
LEMMA SearchInitInv == SearchInit => SearchInv
<1> SUFFICES ASSUME SearchInit
             PROVE  SearchInv
  OBVIOUS
<1>1. now_utc \in Time /\ schedule \in SchedulePolicy /\ cursor = now_utc /\ hops = 0
  BY SlotSearchAssumption DEF SearchInit
<1>2. SearchTypeOK
  BY <1>1, MaxHopsAssumption DEF SearchInit, SearchTypeOK
<1>3. SearchProgress
  <2>1. { u \in SlotsAfter(now_utc, schedule) : u <= cursor } = {}
    <3>1. \A u \in SlotsAfter(now_utc, schedule) : u \in Nat
      BY <1>1, PassedFinite
    <3>2. \A u \in SlotsAfter(now_utc, schedule) : u > now_utc
      BY DEF SlotsAfter
    <3>3. QED
      BY <1>1, <3>1, <3>2 DEF Time
  <2>2. HopOf(cursor, now_utc, schedule) = 0
    BY <2>1, FS_EmptySet DEF HopOf
  <2>3. QED
    BY <1>1, <2>2 DEF SearchProgress, Time, MinutesPerDay
<1>4. NothingMissed
  BY <1>1 DEF NothingMissed, Time
<1>5. ReturnsEarliest /\ LoopComputesNextPostSlot
  BY DEF SearchInit, ReturnsEarliest, LoopComputesNextPostSlot, None, Time
<1>6. QED
  BY <1>2, <1>3, <1>4, <1>5 DEF SearchInv

\* Every iteration of the loop keeps the invariant.
LEMMA SearchNextInv == SearchInv /\ [SearchNext]_searchVars => SearchInv'
<1> SUFFICES ASSUME SearchInv, [SearchNext]_searchVars
             PROVE  SearchInv'
  OBVIOUS
<1>1. CASE SkipShabbat
  BY <1>1, SkipKeepsInv DEF SkipShabbat, Eligible
<1>2. CASE SkipFull
  <2>1. schedule.posts_per_slot \in Nat /\ CountAt(counts, candidate) \in Nat
    BY Arguments DEF SearchInv, SchedulePolicy
  <2>2. ~ Eligible(candidate)
    BY <1>2, <2>1 DEF SkipFull, Eligible
  <2>3. QED
    BY <1>2, <2>2, SkipKeepsInv DEF SkipFull
<1>3. CASE Return
  BY <1>3, ReturnKeepsInv
<1>4. CASE GiveUp
  BY <1>4, GiveUpKeepsInv
<1>5. CASE UNCHANGED searchVars
  BY <1>5 DEF searchVars, SearchInv, SearchTypeOK, SearchProgress, NothingMissed, ReturnsEarliest,
              LoopComputesNextPostSlot, Eligible
<1>6. QED
  BY <1>1, <1>2, <1>3, <1>4, <1>5 DEF SearchNext

\* scheduler.py:104-135 returns the earliest slot after now_utc that is
\* outside Shabbat and not full.
THEOREM SearchReturnsEarliest == SearchSpec => []ReturnsEarliest
<1>1. SearchInv => ReturnsEarliest
  BY DEF SearchInv
<1>2. QED
  BY <1>1, SearchInitInv, SearchNextInv, PTL DEF SearchSpec

\* The loop computes the operator the other modules schedule with, and fails
\* exactly when no slot within MaxHops slots is open.
THEOREM SearchIsNextPostSlot == SearchSpec => []LoopComputesNextPostSlot
<1>1. SearchInv => LoopComputesNextPostSlot
  BY DEF SearchInv
<1>2. QED
  BY <1>1, SearchInitInv, SearchNextInv, PTL DEF SearchSpec

-----------------------------------------------------------------------------
(* The queue.                                                              *)

\* What a request in flight knows: the slot it is about is in the table, it
\* never means to make a slot pending, the property rows it has written get
\* the status of a property, and what cancels slots puts nothing on the market.
WellFormed(req) ==
  /\ req.op \in {"consume", "cancel", "dispatch"} => req.slot \in DOMAIN slots
  /\ req.op = "consume" => req.target \in {"posted", "skipped"}
  /\ req.phase \in {"sent", "posted"} => req.op = "dispatch"
  /\ req.phase \in {"loop", "read"} => req.op = "status"
  /\ req.op \in {"status", "create"} => req.target \in PropertyStatus
  /\ req.held # {} => req.op \in {"status", "create"}
  /\ req.cancels # {} => req.op = "status" /\ req.target # "available"

IInv ==
  /\ TypeOK
  /\ \A r \in Requests : WellFormed(requests[r])
  /\ PendingHasProperty

\* The empty request is a request.
LEMMA NoRequestOK == NoRequest \in Request /\ WellFormed(NoRequest)
BY DEF NoRequest, Request, WellFormed, PropertyRow

\* A request that only changes what it knows changes nothing else.
LEMMA BecomeKeepsInv ==
  ASSUME IInv, NEW r \in Requests, NEW req \in Request, WellFormed(req), Become(r, req)
  PROVE  IInv'
<1>1. /\ requests' = [requests EXCEPT ![r] = req]
      /\ UNCHANGED <<now, policy, property, slots>>
  BY DEF Become
<1>2. TypeOK'
  BY <1>1 DEF IInv, TypeOK
<1>3. \A q \in Requests : WellFormed(requests[q])'
  BY <1>1 DEF IInv, TypeOK, WellFormed
<1>4. PendingHasProperty'
  BY <1>1 DEF IInv, PendingHasProperty, Pending, Live
<1>5. QED
  BY <1>2, <1>3, <1>4 DEF IInv

\* A rollback forgets the request.
LEMMA RollbackKeepsInv ==
  ASSUME IInv, NEW r \in Requests, Rollback(r)
  PROVE  IInv'
<1>1. Become(r, NoRequest)
  BY DEF Rollback, Become
<1>2. QED
  BY <1>1, NoRequestOK, BecomeKeepsInv

\* The slot that enqueue_property picks is a time, and goes to the end of
\* the inserts of the request.
LEMMA EnqueueKeepsInv ==
  ASSUME IInv, NEW r \in Requests, NEW req \in Request, WellFormed(req),
         NEW p \in Properties, NEW floor \in Time,
         enqueue_property(r, req, p, floor)
  PROVE  IInv'
<1> DEFINE when == next_post_slot(floor, capacity_at(req), policy)
           new  == [property |-> p, at |-> when]
<1>1. CASE when = NoSlot
  <2>1. Rollback(r)
    BY <1>1 DEF enqueue_property
  <2>2. QED
    BY <2>1, RollbackKeepsInv
<1>2. CASE when # NoSlot
  <2>1. Become(r, [req EXCEPT !.inserts = Append(@, new)])
    BY <1>2 DEF enqueue_property
  <2>2. policy \in SchedulePolicy
    BY PostQueueAssumption DEF IInv, TypeOK
  <2>3. when \in Time
    BY <1>2, <2>2, NextPostSlot
  <2> HIDE DEF when
  <2>4. new \in NewSlot
    BY <2>3 DEF NewSlot
  <2>5. req.inserts \in Seq(NewSlot)
    BY DEF Request
  <2> HIDE DEF new
  <2>6. Append(req.inserts, new) \in Seq(NewSlot)
    BY <2>4, <2>5
  <2>7. [req EXCEPT !.inserts = Append(@, new)] \in Request
    BY <2>6 DEF Request
  <2>8. WellFormed([req EXCEPT !.inserts = Append(@, new)])
    BY DEF WellFormed, Request
  <2>9. QED
    BY <2>1, <2>7, <2>8, BecomeKeepsInv
<1>3. QED
  BY <1>1, <1>2

\* The rows of the table.
LEMMA TableRows ==
  ASSUME TypeOK
  PROVE  /\ Len(slots) \in Nat /\ DOMAIN slots = 1 .. Len(slots)
         /\ slots \in [DOMAIN slots -> SlotRow]
         /\ \A i \in DOMAIN slots : /\ slots[i] \in SlotRow
                                    /\ slots[i].property \in Properties
                                    /\ slots[i].at \in Time
<1>1. slots \in Seq(SlotRow)
  BY DEF TypeOK
<1>2. /\ Len(slots) \in Nat /\ DOMAIN slots = 1 .. Len(slots)
      /\ slots \in [1 .. Len(slots) -> SlotRow]
  BY <1>1, LenProperties
<1>3. \A i \in DOMAIN slots : slots[i] \in SlotRow
  BY <1>2
<1>4. QED
  BY <1>2, <1>3 DEF SlotRow

\* A table of the same length whose rows are rows is a table.
LEMMA SameLengthTable ==
  ASSUME TypeOK, NEW table \in [DOMAIN slots -> SlotRow]
  PROVE  table \in Seq(SlotRow)
<1>1. Len(slots) \in Nat /\ DOMAIN slots = 1 .. Len(slots)
  BY TableRows
<1>2. table \in UNION { [1 .. n -> SlotRow] : n \in Nat }
  BY <1>1
<1>3. QED
  BY <1>2, SeqDef

\* mark_posted, skip_slot, cancel_slot and dispatch_now load a pending slot.
LEMMA LoadKeepsInv ==
  ASSUME IInv, NEW r \in Requests, NEW i \in DOMAIN slots,
         mark_posted(r, i) \/ skip_slot(r, i) \/ cancel_slot(r, i) \/ dispatch_now(r, i)
  PROVE  IInv'
<1>1. PICK op \in {"consume", "cancel", "dispatch"}, target \in SlotStatus :
        /\ Load(r, op, i, target)
        /\ op = "consume" => target \in {"posted", "skipped"}
  BY DEF mark_posted, skip_slot, cancel_slot, dispatch_now, SlotStatus
<1> DEFINE req == [NoRequest EXCEPT !.op = op, !.phase = "loaded",
                                    !.slot = i, !.target = target]
<1>2. i \in Nat
  BY TableRows DEF IInv
<1>3. req \in Request
  BY <1>2, NoRequestOK DEF NoRequest, Request
<1>4. WellFormed(req)
  BY <1>1 DEF WellFormed, NoRequest
<1>5. Become(r, req)
  BY <1>1 DEF Load
<1>6. QED
  BY <1>3, <1>4, <1>5, BecomeKeepsInv

\* The requests that only move forward in what they know.
LEMMA ForwardKeepsInv ==
  ASSUME IInv, NEW r \in Requests,
         \/ FlushConsumed(r) \/ RollDispatched(r) \/ SendAccepted(r)
         \/ \E p \in Properties : create_available(r, p) \/ ReadProperty(r, p)
         \/ \E ids \in SUBSET Live, status \in PropertyStatus : update_status(r, ids, status)
         \/ SameStatus(r)
  PROVE  IInv'
<1>1. /\ requests[r] \in Request /\ WellFormed(requests[r])
      /\ now \in Time
  BY PostQueueAssumption DEF IInv, TypeOK
<1>2. CASE FlushConsumed(r) \/ RollDispatched(r)
  <2> DEFINE i   == requests[r].slot
             req == [requests[r] EXCEPT !.phase = "flushed"]
  <2>1. i \in DOMAIN slots
    BY <1>1, <1>2 DEF FlushConsumed, RollDispatched, WellFormed, In
  <2>2. slots[i].property \in Properties /\ slots[i].at \in Time
    BY <2>1, TableRows DEF IInv
  <2>3. req \in Request
    BY <1>1 DEF Request
  <2>4. WellFormed(req)
    BY <1>1 DEF WellFormed, Request
  <2>5. enqueue_property(r, req, slots[i].property, slots[i].at)
    BY <1>2 DEF FlushConsumed, RollDispatched
  <2> HIDE DEF i, req
  <2>6. QED
    BY <2>2, <2>3, <2>4, <2>5, EnqueueKeepsInv
<1>3. CASE SendAccepted(r)
  <2> DEFINE req == [requests[r] EXCEPT !.phase = "sent"]
  <2>1. req \in Request
    BY <1>1 DEF Request
  <2>2. WellFormed(req)
    BY <1>1, <1>3 DEF WellFormed, Request, SendAccepted
  <2>3. QED
    BY <1>3, <2>1, <2>2, BecomeKeepsInv DEF SendAccepted
<1>4. ASSUME NEW p \in Properties, create_available(r, p)
      PROVE  IInv'
  <2> DEFINE req == [NoRequest EXCEPT !.op = "create", !.phase = "flushed",
                                      !.held = {p}, !.target = "available"]
  <2>1. req \in Request
    BY NoRequestOK DEF NoRequest, Request, PropertyStatus
  <2>2. WellFormed(req)
    BY DEF WellFormed, NoRequest, PropertyStatus
  <2>3. enqueue_property(r, req, p, now)
    BY <1>4 DEF create_available
  <2> HIDE DEF req
  <2>4. QED
    BY <1>1, <2>1, <2>2, <2>3, EnqueueKeepsInv
<1>5. ASSUME NEW p \in Properties, ReadProperty(r, p)
      PROVE  IInv'
  <2> DEFINE req == [requests[r] EXCEPT !.todo = @ \ {p},
                                        !.phase = IF p \in Live THEN "read" ELSE "loop",
                                        !.cur = IF p \in Live THEN {p} ELSE {},
                                        !.was = IF p \in Live THEN property[p] ELSE "absent"]
  <2>1. property[p] \in PropertyRow
    BY DEF IInv, TypeOK
  <2>2. req \in Request
    BY <1>1, <2>1 DEF Request, PropertyRow
  <2>3. WellFormed(req)
    BY <1>1, <1>5 DEF WellFormed, Request, ReadProperty, In
  <2>4. Become(r, req)
    BY <1>5 DEF ReadProperty
  <2> HIDE DEF req
  <2>5. QED
    BY <2>2, <2>3, <2>4, BecomeKeepsInv
<1>6. ASSUME NEW ids \in SUBSET Live, NEW status \in PropertyStatus,
             update_status(r, ids, status)
      PROVE  IInv'
  <2> DEFINE req == [NoRequest EXCEPT !.op = "status", !.phase = "loop",
                                      !.todo = ids, !.target = status]
  <2>1. req \in Request
    BY NoRequestOK DEF NoRequest, Request, Live
  <2>2. WellFormed(req)
    BY DEF WellFormed, NoRequest
  <2>3. Become(r, req)
    BY <1>6 DEF update_status
  <2> HIDE DEF req
  <2>4. QED
    BY <2>1, <2>2, <2>3, BecomeKeepsInv
<1>7. CASE SameStatus(r)
  <2> DEFINE req == [requests[r] EXCEPT !.phase = "loop", !.cur = {}, !.was = "absent"]
  <2>1. req \in Request
    BY <1>1 DEF Request, PropertyRow
  <2>2. WellFormed(req)
    BY <1>1, <1>7 DEF WellFormed, Request, SameStatus, In
  <2>3. QED
    BY <1>7, <2>1, <2>2, BecomeKeepsInv DEF SameStatus
<1>8. QED
  BY <1>2, <1>3, <1>4, <1>5, <1>6, <1>7

\* A status change applied to one property.
LEMMA ApplyStatusKeepsInv ==
  ASSUME IInv, NEW r \in Requests, NEW p \in Properties, ApplyStatus(r, p)
  PROVE  IInv'
<1> DEFINE req  == requests[r]
           next == [req EXCEPT !.phase = "loop", !.cur = {}, !.was = "absent",
                               !.held = @ \cup {p}]
<1>1. req \in Request /\ WellFormed(req) /\ now \in Time
  BY PostQueueAssumption DEF IInv, TypeOK
<1>2. req.op = "status"
  BY <1>1 DEF ApplyStatus, In, WellFormed
<1>3. next \in Request
  BY <1>1 DEF Request, PropertyRow
<1>4. WellFormed(next)
  BY <1>1, <1>2 DEF WellFormed, Request
<1>5. CASE req.was = "available"
  <2> DEFINE mine == { i \in SeenPending(req) : slots[i].property = p }
             last == [next EXCEPT !.cancels = @ \cup mine]
  <2>1. Become(r, last)
    BY <1>5 DEF ApplyStatus
  <2>2. mine \in SUBSET Nat
    BY TableRows DEF IInv, SeenPending, Pending
  <2> HIDE DEF mine
  <2>3. last \in Request
    BY <1>3, <2>2 DEF Request
  <2>4. WellFormed(last)
    BY <1>1, <1>2, <1>3, <1>4, <1>5 DEF WellFormed, Request, ApplyStatus
  <2>5. QED
    BY <2>1, <2>3, <2>4, BecomeKeepsInv
<1>6. CASE req.was # "available" /\ req.target = "available"
  <2>1. enqueue_property(r, next, p, now)
    BY <1>6 DEF ApplyStatus
  <2> HIDE DEF next
  <2>2. QED
    BY <1>1, <1>3, <1>4, <2>1, EnqueueKeepsInv
<1>7. CASE req.was # "available" /\ req.target # "available"
  <2>1. Become(r, next)
    BY <1>7 DEF ApplyStatus
  <2> HIDE DEF next
  <2>2. QED
    BY <1>3, <1>4, <2>1, BecomeKeepsInv
<1>8. QED
  BY <1>5, <1>6, <1>7

\* cancel_slot and the first commit of dispatch_now write one status.
LEMMA OneSlotKeepsInv ==
  ASSUME IInv, NEW r \in Requests, CommitCancelSlot(r) \/ CommitDispatched(r)
  PROVE  /\ IInv'
         /\ \A i \in DOMAIN slots :
              slots[i].status # "pending" => slots'[i].status # "pending"
<1> DEFINE i == requests[r].slot
<1>1. requests[r] \in Request /\ WellFormed(requests[r])
  BY DEF IInv, TypeOK
<1>2. i \in DOMAIN slots
  BY <1>1 DEF CommitCancelSlot, CommitDispatched, WellFormed, In
<1>3. PICK status \in {"cancelled", "posted"}, req \in Request :
        /\ slots' = [slots EXCEPT ![i].status = status]
        /\ requests' = [requests EXCEPT ![r] = req]
        /\ WellFormed(req)
        /\ UNCHANGED <<now, policy, property>>
  <2>1. CASE CommitCancelSlot(r)
    BY <2>1, NoRequestOK DEF CommitCancelSlot
  <2>2. CASE CommitDispatched(r)
    <3> DEFINE req == [requests[r] EXCEPT !.phase = "posted"]
    <3>1. req \in Request
      BY <1>1 DEF Request
    <3>2. WellFormed(req)
      BY <1>1, <2>2 DEF WellFormed, Request, CommitDispatched, In
    <3>3. requests' = [requests EXCEPT ![r] = req]
      BY <2>2 DEF CommitDispatched, IInv, TypeOK
    <3> HIDE DEF req
    <3>4. QED
      BY <2>2, <3>1, <3>2, <3>3 DEF CommitDispatched
  <2>3. QED
    BY <2>1, <2>2
<1>4. slots' \in [DOMAIN slots -> SlotRow] /\ DOMAIN slots' = DOMAIN slots
  BY <1>2, <1>3, TableRows DEF IInv, SlotRow, SlotStatus
<1>5. slots' \in Seq(SlotRow)
  BY <1>4, SameLengthTable DEF IInv
<1>6. TypeOK'
  BY <1>3, <1>5 DEF IInv, TypeOK
<1>7. \A q \in Requests : WellFormed(requests[q])'
  BY <1>3, <1>4 DEF IInv, TypeOK, WellFormed
<1>8. /\ \A j \in DOMAIN slots : slots'[j].property = slots[j].property
      /\ \A j \in DOMAIN slots :
           slots'[j].status = "pending" => slots[j].status = "pending"
  BY <1>2, <1>3, TableRows DEF IInv, SlotRow
<1>9. PendingHasProperty'
  BY <1>3, <1>4, <1>8 DEF IInv, PendingHasProperty, Pending, Live
<1>10. IInv'
  BY <1>6, <1>7, <1>9 DEF IInv
<1>11. \A j \in DOMAIN slots : slots[j].status # "pending" => slots'[j].status # "pending"
  BY <1>8
<1>12. QED
  BY <1>10, <1>11

\* Deleting properties deletes their slots with them.
LEMMA DeleteKeepsInv ==
  ASSUME IInv, NEW ids \in SUBSET Properties, delete_properties(ids)
  PROVE  /\ IInv'
         /\ \A i \in DOMAIN slots :
              slots[i].status # "pending" => slots'[i].status # "pending"
<1> DEFINE gone == { i \in DOMAIN slots : slots[i].property \in ids }
<1>1. /\ property' = [p \in Properties |-> IF p \in ids THEN "deleted" ELSE property[p]]
      /\ slots' = [i \in DOMAIN slots |->
                     IF i \in gone THEN [slots[i] EXCEPT !.status = "deleted"]
                                   ELSE slots[i]]
      /\ UNCHANGED <<now, policy, requests>>
  BY DEF delete_properties
<1>2. slots' \in [DOMAIN slots -> SlotRow] /\ DOMAIN slots' = DOMAIN slots
  BY <1>1, TableRows DEF IInv, SlotRow
<1>3. slots' \in Seq(SlotRow)
  BY <1>2, SameLengthTable DEF IInv
<1>4. \A j \in DOMAIN slots :
        /\ slots'[j].property = slots[j].property
        /\ slots'[j].status = "pending" =>
             slots[j].status = "pending" /\ slots[j].property \notin ids
  BY <1>1, TableRows DEF IInv, SlotRow
<1>5. TypeOK'
  BY <1>1, <1>3 DEF IInv, TypeOK, PropertyRow
<1>6. \A q \in Requests : WellFormed(requests[q])'
  BY <1>1, <1>2 DEF IInv, TypeOK, WellFormed
<1>7. \A p \in Live : p \notin ids => p \in Live'
  BY <1>1 DEF Live
<1>8. PendingHasProperty'
  BY <1>2, <1>4, <1>7 DEF IInv, PendingHasProperty, Pending
<1>9. IInv'
  BY <1>5, <1>6, <1>8 DEF IInv
<1>10. \A j \in DOMAIN slots : slots[j].status # "pending" => slots'[j].status # "pending"
  BY <1>4
<1>11. QED
  BY <1>9, <1>10

\* The table after a commit: the rows there were, with the status written to
\* them, and after them the rows of the inserts.
LEMMA CommitTable ==
  ASSUME IInv, NEW r \in Requests, Commit(r)
  PROVE  /\ slots' \in Seq(SlotRow)
         /\ Len(requests[r].inserts) \in Nat
         /\ DOMAIN requests[r].inserts = 1 .. Len(requests[r].inserts)
         /\ DOMAIN slots' = 1 .. Len(slots) + Len(requests[r].inserts)
         /\ \A i \in DOMAIN slots :
              /\ i \in DOMAIN slots'
              /\ slots'[i].property = slots[i].property
              /\ slots'[i].at = slots[i].at
              /\ slots'[i].status = StatusWritten(requests[r], i)
              /\ slots'[i].status = "pending" => slots[i].status = "pending"
         /\ \A i \in DOMAIN slots' : i \notin DOMAIN slots =>
              /\ i - Len(slots) \in DOMAIN requests[r].inserts
              /\ slots'[i].property = requests[r].inserts[i - Len(slots)].property
              /\ slots'[i].at = requests[r].inserts[i - Len(slots)].at
              /\ slots'[i].status = "pending"
<1> DEFINE req == requests[r]
           old == [i \in DOMAIN slots |->
                     [slots[i] EXCEPT !.status = StatusWritten(req, i)]]
           new == NewRows(req)
<1>1. req \in Request /\ WellFormed(req)
  BY DEF IInv, TypeOK
<1>2. slots' = old \o new
  BY DEF Commit
<1>3. \A i \in DOMAIN slots :
        /\ StatusWritten(req, i) \in SlotStatus \cup {"deleted"}
        /\ StatusWritten(req, i) = "pending" => slots[i].status = "pending"
  BY <1>1, TableRows DEF StatusWritten, WellFormed, IInv, SlotRow, SlotStatus
<1>4. /\ old \in Seq(SlotRow) /\ Len(old) = Len(slots)
      /\ \A i \in DOMAIN slots : /\ old[i].property = slots[i].property
                                 /\ old[i].at = slots[i].at
                                 /\ old[i].status = StatusWritten(req, i)
  <2>1. old \in [DOMAIN slots -> SlotRow]
    BY <1>3, TableRows DEF IInv, SlotRow
  <2>2. old \in Seq(SlotRow)
    BY <2>1, SameLengthTable DEF IInv
  <2>3. DOMAIN old = 1 .. Len(slots) /\ Len(slots) \in Nat
    BY TableRows DEF IInv
  <2>4. Len(old) = Len(slots)
    BY <2>2, <2>3, LenProperties
  <2>5. \A i \in DOMAIN slots : /\ old[i].property = slots[i].property
                               /\ old[i].at = slots[i].at
                               /\ old[i].status = StatusWritten(req, i)
    BY TableRows DEF IInv, SlotRow
  <2>6. QED
    BY <2>2, <2>4, <2>5
<1>5. /\ Len(req.inserts) \in Nat
      /\ DOMAIN req.inserts = 1 .. Len(req.inserts)
      /\ \A k \in DOMAIN req.inserts : req.inserts[k] \in NewSlot
  BY <1>1, LenProperties DEF Request
<1>6. /\ new \in Seq(SlotRow)
      /\ Len(new) = Len(req.inserts)
      /\ \A k \in 1 .. Len(req.inserts) : /\ new[k].property = req.inserts[k].property
                                          /\ new[k].at = req.inserts[k].at
                                          /\ new[k].status = "pending"
  <2>1. new \in [1 .. Len(req.inserts) -> SlotRow]
    BY <1>5 DEF NewRows, NewSlot, SlotRow, SlotStatus
  <2>2. new \in UNION { [1 .. n -> SlotRow] : n \in Nat }
    BY <1>5, <2>1
  <2>3. new \in Seq(SlotRow)
    BY <2>2, SeqDef
  <2>4. Len(new) = Len(req.inserts)
    BY <1>5, <2>1, <2>3, LenProperties
  <2>5. QED
    BY <1>5, <2>3, <2>4 DEF NewRows
<1> HIDE DEF old, new
<1>7. /\ slots' \in Seq(SlotRow)
      /\ Len(slots') = Len(slots) + Len(req.inserts)
      /\ \A i \in 1 .. Len(slots) + Len(req.inserts) :
           slots'[i] = IF i <= Len(slots) THEN old[i] ELSE new[i - Len(slots)]
  <2>1. /\ old \o new \in Seq(SlotRow)
        /\ Len(old \o new) = Len(old) + Len(new)
        /\ \A i \in 1 .. Len(old) + Len(new) :
             (old \o new)[i] = IF i <= Len(old) THEN old[i] ELSE new[i - Len(old)]
    <3>1. old \in Seq(SlotRow) /\ new \in Seq(SlotRow)
      BY <1>4, <1>6
    <3>2. QED
      BY ONLY <3>1, ConcatProperties
  <2>2. slots' = old \o new /\ Len(old) = Len(slots) /\ Len(new) = Len(req.inserts)
    BY <1>2, <1>4, <1>6
  <2>3. QED
    BY <2>1, <2>2, Zenon
<1>8. /\ DOMAIN slots' = 1 .. Len(slots) + Len(req.inserts)
      /\ DOMAIN slots = 1 .. Len(slots) /\ Len(slots) \in Nat
  <2>1. DOMAIN slots' = 1 .. Len(slots')
    BY <1>7, LenProperties
  <2>2. QED
    BY <1>7, <2>1, TableRows DEF IInv
<1>9. \A i \in DOMAIN slots : i \in DOMAIN slots' /\ slots'[i] = old[i]
  BY <1>5, <1>7, <1>8
<1>10. \A i \in DOMAIN slots' : i \notin DOMAIN slots =>
         i - Len(slots) \in 1 .. Len(req.inserts) /\ slots'[i] = new[i - Len(slots)]
  BY <1>5, <1>7, <1>8
<1>11. \A i \in DOMAIN slots :
         /\ i \in DOMAIN slots'
         /\ slots'[i].property = slots[i].property
         /\ slots'[i].at = slots[i].at
         /\ slots'[i].status = StatusWritten(req, i)
         /\ slots'[i].status = "pending" => slots[i].status = "pending"
  BY <1>3, <1>4, <1>9
<1>12. \A i \in DOMAIN slots' : i \notin DOMAIN slots =>
         /\ i - Len(slots) \in DOMAIN req.inserts
         /\ slots'[i].property = req.inserts[i - Len(slots)].property
         /\ slots'[i].at = req.inserts[i - Len(slots)].at
         /\ slots'[i].status = "pending"
  BY <1>5, <1>6, <1>10
<1>13. QED
  BY <1>5, <1>7, <1>8, <1>11, <1>12

\* A commit: the rows of the table keep their place, no row becomes pending
\* again, and the rows it adds belong to properties that are there.
LEMMA CommitKeepsInv ==
  ASSUME IInv, NEW r \in Requests, Commit(r)
  PROVE  /\ IInv'
         /\ \A i \in DOMAIN slots :
              slots[i].status # "pending" => slots'[i].status # "pending"
<1> DEFINE req == requests[r]
<1>1. req \in Request /\ WellFormed(req)
  BY DEF IInv, TypeOK
<1>2. /\ property' = [p \in Properties |-> IF p \in req.held THEN req.target ELSE property[p]]
      /\ requests' = [requests EXCEPT ![r] = NoRequest]
      /\ UNCHANGED <<now, policy>>
      /\ ForeignKeysHold(r)
  BY DEF Commit
<1>3. req.held # {} => req.target \in PropertyStatus
  BY <1>1 DEF WellFormed
<1>4. TypeOK'
  <2>1. property' \in [Properties -> PropertyRow]
    BY <1>2, <1>3 DEF IInv, TypeOK, PropertyRow
  <2>2. requests' \in [Requests -> Request]
    BY <1>2, NoRequestOK DEF IInv, TypeOK
  <2>3. QED
    BY <1>2, <2>1, <2>2, CommitTable DEF IInv, TypeOK
<1>5. \A q \in Requests : WellFormed(requests[q])'
  BY <1>2, CommitTable, NoRequestOK DEF IInv, TypeOK, WellFormed, NoRequest
<1>6. \A p \in Live \cup req.held : p \in Live'
  <2>1. req.held \subseteq Properties
    BY <1>1 DEF Request
  <2>2. QED
    BY <1>2, <1>3, <2>1 DEF Live
<1>7. PendingHasProperty'
  <2> SUFFICES ASSUME NEW i \in DOMAIN slots', slots'[i].status = "pending"
               PROVE  slots'[i].property \in Live'
    BY DEF PendingHasProperty, Pending
  <2>1. CASE i \in DOMAIN slots
    <3>1. slots[i].status = "pending" /\ slots'[i].property = slots[i].property
      BY <2>1, CommitTable
    <3>2. slots[i].property \in Live
      BY <2>1, <3>1 DEF IInv, PendingHasProperty, Pending
    <3>3. QED
      BY <1>6, <3>1, <3>2
  <2>2. CASE i \notin DOMAIN slots
    <3>1. slots'[i].property \in Live \cup req.held
      BY <1>2, <2>2, CommitTable DEF ForeignKeysHold
    <3>2. QED
      BY <1>6, <3>1
  <2>3. QED
    BY <2>1, <2>2
<1>8. IInv'
  BY <1>4, <1>5, <1>7 DEF IInv
<1>9. \A i \in DOMAIN slots : slots[i].status # "pending" => slots'[i].status # "pending"
  BY CommitTable
<1>10. QED
  BY <1>8, <1>9

\* The steps that touch neither the table nor a request.
LEMMA OtherKeepsInv ==
  ASSUME IInv,
         \/ \E p \in Properties : create_off_market(p)
         \/ update_schedule_config \/ Tick \/ UNCHANGED vars
  PROVE  IInv' /\ slots' = slots
<1>1. CASE \E p \in Properties : create_off_market(p)
  <2>1. PICK p \in Properties, status \in {"rented", "sold"} :
          /\ property' = [property EXCEPT ![p] = status]
          /\ property[p] = "absent"
          /\ UNCHANGED <<now, policy, slots, requests>>
    BY <1>1 DEF create_off_market
  <2>2. TypeOK'
    BY <2>1 DEF IInv, TypeOK, PropertyRow, PropertyStatus
  <2>3. \A q \in Requests : WellFormed(requests[q])'
    BY <2>1 DEF IInv, TypeOK, WellFormed
  <2>4. \A q \in Live : q \in Live'
    BY <2>1 DEF Live, IInv, TypeOK, PropertyStatus
  <2>5. PendingHasProperty'
    BY <2>1, <2>4 DEF IInv, PendingHasProperty, Pending
  <2>6. QED
    BY <2>1, <2>2, <2>3, <2>5 DEF IInv
<1>2. CASE update_schedule_config \/ Tick \/ UNCHANGED vars
  <2>1. /\ UNCHANGED <<property, slots, requests>>
        /\ policy' \in Policies /\ now' \in Instants
    BY <1>2 DEF update_schedule_config, Tick, vars, IInv, TypeOK
  <2>2. TypeOK'
    BY <2>1 DEF IInv, TypeOK
  <2>3. \A q \in Requests : WellFormed(requests[q])'
    BY <2>1 DEF IInv, TypeOK, WellFormed
  <2>4. PendingHasProperty'
    BY <2>1 DEF IInv, PendingHasProperty, Pending, Live
  <2>5. QED
    BY <2>1, <2>2, <2>3, <2>4 DEF IInv
<1>3. QED
  BY <1>1, <1>2

\* The queue starts empty.
LEMMA InitInv == Init => IInv
<1> SUFFICES ASSUME Init
             PROVE  IInv
  OBVIOUS
<1>1. slots = << >> /\ slots \in Seq(SlotRow) /\ DOMAIN slots = {}
  BY EmptySeq DEF Init
<1>2. TypeOK
  BY <1>1, NoRequestOK DEF Init, TypeOK, PropertyRow
<1>3. \A r \in Requests : WellFormed(requests[r])
  BY NoRequestOK DEF Init
<1>4. PendingHasProperty
  BY <1>1 DEF PendingHasProperty, Pending
<1>5. QED
  BY <1>2, <1>3, <1>4 DEF IInv

\* A slot that is used is not pending after the step either.
UsedStaysUsed ==
  \A i \in DOMAIN slots : slots[i].status # "pending" => slots'[i].status # "pending"

\* Every step keeps the invariant, and every used slot used.
LEMMA NextInv == IInv /\ [Next]_vars => IInv' /\ UsedStaysUsed
<1> SUFFICES ASSUME IInv, [Next]_vars
             PROVE  IInv' /\ UsedStaysUsed
  OBVIOUS
<1>1. ASSUME NEW r \in Requests, Start(r)
      PROVE  IInv' /\ UsedStaysUsed
  <2>1. slots' = slots
    BY <1>1 DEF Start, mark_posted, skip_slot, cancel_slot, dispatch_now, Load, Become,
                create_available, enqueue_property, Rollback, update_status
  <2>2. IInv'
    BY <1>1, LoadKeepsInv, ForwardKeepsInv DEF Start
  <2>3. QED
    BY <2>1, <2>2 DEF UsedStaysUsed
<1>2. ASSUME NEW r \in Requests, Step(r)
      PROVE  IInv' /\ UsedStaysUsed
  <2>1. CASE CommitCancelSlot(r) \/ CommitDispatched(r)
    BY <2>1, OneSlotKeepsInv DEF UsedStaysUsed
  <2>2. CASE Commit(r)
    BY <2>2, CommitKeepsInv DEF UsedStaysUsed
  <2>3. CASE \/ FlushConsumed(r) \/ RollDispatched(r) \/ SendAccepted(r) \/ SameStatus(r)
             \/ \E p \in Properties : ReadProperty(r, p)
    <3>1. slots' = slots
      BY <2>3 DEF FlushConsumed, RollDispatched, SendAccepted, SameStatus, ReadProperty,
                  Become, enqueue_property, Rollback
    <3>2. QED
      BY <2>3, <3>1, ForwardKeepsInv DEF UsedStaysUsed
  <2>4. CASE \E p \in Properties : ApplyStatus(r, p)
    <3>1. slots' = slots
      BY <2>4 DEF ApplyStatus, Become, enqueue_property, Rollback
    <3>2. QED
      BY <2>4, <3>1, ApplyStatusKeepsInv DEF UsedStaysUsed
  <2>5. CASE Rollback(r)
    BY <2>5, RollbackKeepsInv DEF UsedStaysUsed, Rollback
  <2>6. QED
    BY <1>2, <2>1, <2>2, <2>3, <2>4, <2>5
       DEF Step, SlotGone, SendNothing, PropertyGone, ForeignKeyError, DeadlockVictim
<1>3. ASSUME NEW r \in Requests, Crash(r)
      PROVE  IInv' /\ UsedStaysUsed
  BY <1>3, RollbackKeepsInv DEF Crash, UsedStaysUsed, Rollback
<1>4. ASSUME NEW ids \in SUBSET Properties, delete_properties(ids)
      PROVE  IInv' /\ UsedStaysUsed
  BY <1>4, DeleteKeepsInv DEF UsedStaysUsed
<1>5. CASE \/ \E p \in Properties : create_off_market(p)
           \/ update_schedule_config \/ Tick \/ UNCHANGED vars
  BY <1>5, OtherKeepsInv DEF UsedStaysUsed
<1>6. QED
  BY <1>1, <1>2, <1>3, <1>4, <1>5 DEF Next

\* The state of the queue is always what the modules say it is.
THEOREM TypeCorrect == Spec => []TypeOK
<1>1. IInv => TypeOK
  BY DEF IInv
<1>2. QED
  BY <1>1, InitInv, NextInv, PTL DEF Spec

\* However creations, deletions, status changes and rolls interleave, a
\* pending slot belongs to a property that exists.
THEOREM PendingSlotsHaveProperties == Spec => []PendingHasProperty
<1>1. IInv => PendingHasProperty
  BY DEF IInv
<1>2. QED
  BY <1>1, InitInv, NextInv, PTL DEF Spec

\* However requests race on a slot, one that has been used is never pending
\* again.
THEOREM UsedSlotsNeverPendingAgain == Spec => NeverPendingAgain
<1>1. IInv /\ [Next]_vars =>
        [\A i \in DOMAIN slots :
           slots[i].status # "pending" => slots'[i].status # "pending"]_vars
  BY NextInv DEF UsedStaysUsed
<1>2. QED
  BY <1>1, InitInv, NextInv, PTL DEF Spec, NeverPendingAgain

-----------------------------------------------------------------------------
(* What a step does to the rows and to the inserts of the requests.        *)

\* No row becomes pending, none is added, and inserts are at most forgotten.
Shrinks ==
  /\ DOMAIN slots' = DOMAIN slots
  /\ \A i \in DOMAIN slots : /\ slots'[i].property = slots[i].property
                             /\ slots'[i].at = slots[i].at
                             /\ slots'[i].status = "pending" => slots[i].status = "pending"
  /\ \A q \in Requests : requests'[q].inserts \in {requests[q].inserts, << >>}

\* The inserts of a request that are for time t.
For(inserts, t) == { k \in DOMAIN inserts : inserts[k].at = t }

\* Request r adds an insert for time t, where there was room for it.
Adds(r, t) ==
  /\ slots' = slots
  /\ \A q \in Requests \ {r} : requests'[q].inserts = requests[q].inserts
  /\ \E inserts \in {requests[r].inserts, << >>}, p \in Properties :
       /\ requests'[r].inserts = Append(inserts, [property |-> p, at |-> t])
       /\ Cardinality(PendingAt(t)) + Cardinality(For(inserts, t)) < MaxPosts

\* MaxPosts is the largest capacity there is.
LEMMA MaxPostsBounds ==
  ASSUME TypeOK
  PROVE  /\ MaxPosts \in Nat
         /\ \A pol \in Policies : pol.posts_per_slot <= MaxPosts
<1> DEFINE S == { pol.posts_per_slot : pol \in Policies }
           T == { 50 - n : n \in S }
<1>1. S \in SUBSET (1 .. 50) /\ S # {}
  BY PostQueueAssumption DEF TypeOK, SchedulePolicy
<1> HIDE DEF S
<1>2. T \in SUBSET Nat /\ T # {}
  BY <1>1
<1>3. PICK m \in T : \A n \in T : m <= n
  BY <1>2, LeastNatural
<1>4. PICK x \in S : m = 50 - x
  OBVIOUS
<1>5. ASSUME NEW y \in S
      PROVE  x >= y
  <2>1. 50 - y \in T
    OBVIOUS
  <2>2. m <= 50 - y
    BY <1>3, <2>1
  <2>3. x \in Int /\ y \in Int
    BY <1>1
  <2>4. QED
    BY <1>4, <2>2, <2>3
<1>6. Max(S) \in S /\ \A y \in S : Max(S) >= y
  BY <1>5 DEF Max
<1>7. QED
  BY <1>1, <1>6 DEF S, MaxPosts

\* The sets that are counted are finite.
LEMMA CountsFinite ==
  ASSUME TypeOK
  PROVE  /\ \A t : IsFiniteSet(PendingAt(t)) /\ PendingAt(t) \subseteq DOMAIN slots
         /\ \A inserts \in Seq(NewSlot) : \A t :
              IsFiniteSet(For(inserts, t)) /\ For(inserts, t) \in SUBSET Nat
<1>1. ASSUME NEW t
      PROVE  IsFiniteSet(PendingAt(t)) /\ PendingAt(t) \subseteq DOMAIN slots
  <2>1. PendingAt(t) \subseteq 1 .. Len(slots) /\ Len(slots) \in Nat
    BY TableRows DEF PendingAt, Pending
  <2>2. IsFiniteSet(1 .. Len(slots))
    BY <2>1, FS_Interval
  <2>3. QED
    BY <2>1, <2>2, FS_Subset, TableRows
<1>2. ASSUME NEW inserts \in Seq(NewSlot), NEW t
      PROVE  IsFiniteSet(For(inserts, t)) /\ For(inserts, t) \in SUBSET Nat
  <2>1. For(inserts, t) \subseteq 1 .. Len(inserts) /\ Len(inserts) \in Nat
    BY LenProperties DEF For
  <2>2. IsFiniteSet(1 .. Len(inserts))
    BY <2>1, FS_Interval
  <2>3. QED
    BY <2>1, <2>2, FS_Subset
<1>3. QED
  BY <1>1, <1>2

\* A slot has room for a post.
LEMMA RoomIsPositive ==
  ASSUME NEW pol \in SchedulePolicy
  PROVE  pol.posts_per_slot \in Nat /\ pol.posts_per_slot > 0
BY DEF SchedulePolicy

\* enqueue_property finds room, counting all that is pending at the time it
\* finds, when it comes with nothing cancelled and uses up no later slot.
LEMMA EnqueueShape ==
  ASSUME IInv, NEW r \in Requests, NEW req \in Request, NEW p \in Properties,
         NEW floor \in Time, enqueue_property(r, req, p, floor),
         req.cancels = {}, req.op = "consume" => slots[req.slot].at = floor,
         req.inserts \in {requests[r].inserts, << >>}
  PROVE  Shrinks \/ \E t \in Time : Adds(r, t)
<1> DEFINE taken == capacity_at(req)
           when == next_post_slot(floor, taken, policy)
           room == policy.posts_per_slot
<1>1. CASE when = NoSlot
  BY <1>1, NoRequestOK DEF enqueue_property, Rollback, Shrinks, IInv, TypeOK, NoRequest
<1>2. CASE when # NoSlot
  <2>1. policy \in SchedulePolicy /\ policy \in Policies
    BY PostQueueAssumption DEF IInv, TypeOK
  <2>2. when \in Time /\ when > floor /\ CountAt(taken, when) < room
    BY <1>2, <2>1, NextPostSlot
  <2>0. room \in 1 .. 50 /\ room <= MaxPosts /\ MaxPosts \in Nat
    BY <2>1, MaxPostsBounds DEF SchedulePolicy, IInv
  <2>3. Become(r, [req EXCEPT !.inserts = Append(@, [property |-> p, at |-> when])])
    BY <1>2 DEF enqueue_property
  <2>3a. room \in Nat /\ room > 0
    BY <2>1, RoomIsPositive
  <2> HIDE DEF when, room
  <2>4. { i \in SeenPending(req) : slots[i].at = when } = PendingAt(when)
    BY <2>2 DEF SeenPending, PendingAt, Pending, Time
  <2>5. Cardinality(PendingAt(when)) + Cardinality(For(req.inserts, when)) < room
    <3>1. CASE when \in DOMAIN taken
      BY <2>2, <2>4, <3>1 DEF CountAt, capacity_at, CountSeen, For
    <3>2. CASE when \notin DOMAIN taken
      <4>1. PendingAt(when) = {} /\ For(req.inserts, when) = {}
        BY <2>4, <3>2 DEF capacity_at, For
      <4>2. Cardinality(PendingAt(when)) = 0 /\ Cardinality(For(req.inserts, when)) = 0
        BY <4>1, FS_EmptySet
      <4>3. QED
        BY <2>3a, <4>2
    <3>3. QED
      BY <3>1, <3>2
  <2>6. Cardinality(PendingAt(when)) + Cardinality(For(req.inserts, when)) < MaxPosts
    <3>1. req.inserts \in Seq(NewSlot)
      BY DEF Request
    <3>2. /\ Cardinality(PendingAt(when)) \in Nat
          /\ Cardinality(For(req.inserts, when)) \in Nat
      BY <3>1, CountsFinite, FS_CardinalityType DEF IInv
    <3>3. QED
      BY <2>0, <2>5, <3>2
  <2>7. /\ slots' = slots
        /\ \A q \in Requests \ {r} : requests'[q].inserts = requests[q].inserts
        /\ requests'[r].inserts = Append(req.inserts, [property |-> p, at |-> when])
    BY <2>3 DEF Become, IInv, TypeOK, Request
  <2>8. Adds(r, when)
    BY <2>6, <2>7 DEF Adds
  <2>9. QED
    BY <2>2, <2>8
<1>3. QED
  BY <1>1, <1>2

\* Every step but a commit shrinks, or adds one insert.
LEMMA StepShape ==
  ASSUME IInv, [Next]_vars
  PROVE  Shrinks \/ \E r \in Requests : Commit(r) \/ \E t \in Time : Adds(r, t)
<1> USE DEF IInv, TypeOK
<1>1. ASSUME NEW r \in Requests, Rollback(r)
      PROVE  Shrinks
  BY <1>1, NoRequestOK DEF Rollback, Shrinks, NoRequest
<1>2. ASSUME NEW r \in Requests, NEW req, Become(r, req),
             req.inserts \in {requests[r].inserts, << >>}
      PROVE  Shrinks
  BY <1>2 DEF Become, Shrinks
<1>3. ASSUME NEW r \in Requests
      PROVE  requests[r] \in Request /\ WellFormed(requests[r]) /\ now \in Time
  BY PostQueueAssumption
<1>4. ASSUME NEW r \in Requests, Start(r)
      PROVE  Shrinks \/ \E t \in Time : Adds(r, t)
  <2>1. CASE \E i \in DOMAIN slots : mark_posted(r, i) \/ skip_slot(r, i) \/ cancel_slot(r, i) \/ dispatch_now(r, i)
    <3>1. PICK i, op, target :
            Become(r, [NoRequest EXCEPT !.op = op, !.phase = "loaded", !.slot = i, !.target = target])
      BY <2>1 DEF mark_posted, skip_slot, cancel_slot, dispatch_now, Load
    <3>2. [NoRequest EXCEPT !.op = op, !.phase = "loaded", !.slot = i, !.target = target].inserts = << >>
      BY DEF NoRequest
    <3>3. QED
      BY <1>2, <3>1, <3>2
  <2>2. CASE \E p \in Properties : create_available(r, p)
    <3>1. PICK p \in Properties : create_available(r, p)
      BY <2>2
    <3> DEFINE req == [NoRequest EXCEPT !.op = "create", !.phase = "flushed",
                                        !.held = {p}, !.target = "available"]
    <3>2. req \in Request /\ req.cancels = {} /\ req.op = "create" /\ req.inserts = << >>
      BY NoRequestOK DEF NoRequest, Request, PropertyStatus
    <3>3. enqueue_property(r, req, p, now)
      BY <3>1 DEF create_available
    <3> HIDE DEF req
    <3>4. QED
      BY <1>3, <3>2, <3>3, EnqueueShape
  <2>3. CASE \E ids \in SUBSET Live, status \in PropertyStatus : update_status(r, ids, status)
    <3>1. PICK ids, status :
            Become(r, [NoRequest EXCEPT !.op = "status", !.phase = "loop", !.todo = ids, !.target = status])
      BY <2>3 DEF update_status
    <3>2. [NoRequest EXCEPT !.op = "status", !.phase = "loop", !.todo = ids, !.target = status].inserts = << >>
      BY DEF NoRequest
    <3>3. QED
      BY <1>2, <3>1, <3>2
  <2>4. QED
    BY <1>4, <2>1, <2>2, <2>3 DEF Start
<1>5. ASSUME NEW r \in Requests, FlushConsumed(r) \/ RollDispatched(r)
      PROVE  Shrinks \/ \E t \in Time : Adds(r, t)
  <2> DEFINE i == requests[r].slot
             req == [requests[r] EXCEPT !.phase = "flushed"]
  <2>1. requests[r].op \in {"consume", "dispatch"} /\ i \in DOMAIN slots
    BY <1>3, <1>5 DEF FlushConsumed, RollDispatched, WellFormed, In
  <2>2. slots[i].property \in Properties /\ slots[i].at \in Time
    BY <2>1, TableRows
  <2>3. /\ req \in Request /\ req.cancels = {} /\ req.slot = i
        /\ req.inserts = requests[r].inserts
    BY <1>3, <2>1 DEF Request, WellFormed
  <2>4. enqueue_property(r, req, slots[i].property, slots[i].at)
    BY <1>5 DEF FlushConsumed, RollDispatched
  <2> HIDE DEF i, req
  <2>5. QED
    BY <2>2, <2>3, <2>4, EnqueueShape
<1>6. ASSUME NEW r \in Requests, NEW p \in Properties, ApplyStatus(r, p)
      PROVE  Shrinks \/ \E t \in Time : Adds(r, t)
  <2> DEFINE next == [requests[r] EXCEPT !.phase = "loop", !.cur = {}, !.was = "absent",
                                         !.held = @ \cup {p}]
  <2>1. /\ next \in Request /\ next.inserts = requests[r].inserts
        /\ next.op = "status" /\ next.cancels = requests[r].cancels
        /\ requests[r].target = "available" => next.cancels = {}
    <3>1. /\ requests[r] \in Request /\ requests[r].op = "status"
          /\ requests[r].target = "available" => requests[r].cancels = {}
      BY <1>3, <1>6 DEF ApplyStatus, In, WellFormed
    <3>2. next \in Request
      BY <3>1 DEF Request, PropertyRow
    <3>3. next.inserts = requests[r].inserts /\ next.op = requests[r].op /\ next.cancels = requests[r].cancels
      BY <3>1 DEF Request
    <3> HIDE DEF next
    <3>4. QED
      BY <3>1, <3>2, <3>3
  <2>2. CASE requests[r].was = "available"
    <3>1. PICK cancels : Become(r, [next EXCEPT !.cancels = cancels])
      BY <1>6, <2>2 DEF ApplyStatus
    <3>2. [next EXCEPT !.cancels = cancels].inserts = requests[r].inserts
      BY <2>1 DEF Request
    <3>3. QED
      BY <1>2, <3>1, <3>2
  <2>3. CASE enqueue_property(r, next, p, now) /\ requests[r].target = "available"
    <3> HIDE DEF next
    <3>1. QED
      BY <1>3, <2>1, <2>3, EnqueueShape
  <2>4. CASE Become(r, next)
    BY <1>2, <2>1, <2>4
  <2>5. QED
    BY <1>6, <2>2, <2>3, <2>4 DEF ApplyStatus
<1>7. ASSUME NEW r \in Requests,
             SendAccepted(r) \/ SameStatus(r) \/ \E p \in Properties : ReadProperty(r, p)
      PROVE  Shrinks
  <2>1. CASE SendAccepted(r)
    <3> DEFINE req == [requests[r] EXCEPT !.phase = "sent"]
    <3>1. Become(r, req) /\ req.inserts = requests[r].inserts
      BY <1>3, <2>1 DEF SendAccepted, Request
    <3> HIDE DEF req
    <3>2. QED
      BY <1>2, <3>1
  <2>2. CASE SameStatus(r)
    <3> DEFINE req == [requests[r] EXCEPT !.phase = "loop", !.cur = {}, !.was = "absent"]
    <3>1. Become(r, req) /\ req.inserts = requests[r].inserts
      BY <1>3, <2>2 DEF SameStatus, Request
    <3> HIDE DEF req
    <3>2. QED
      BY <1>2, <3>1
  <2>3. ASSUME NEW p \in Properties, ReadProperty(r, p)
        PROVE  Shrinks
    <3> DEFINE req == [requests[r] EXCEPT !.todo = @ \ {p},
                                          !.phase = IF p \in Live THEN "read" ELSE "loop",
                                          !.cur = IF p \in Live THEN {p} ELSE {},
                                          !.was = IF p \in Live THEN property[p] ELSE "absent"]
    <3>1. Become(r, req)
      BY <2>3 DEF ReadProperty
    <3>2. req.inserts = requests[r].inserts
      BY <1>3 DEF Request
    <3> HIDE DEF req
    <3>3. QED
      BY <1>2, <3>1, <3>2
  <2>4. QED
    BY <1>7, <2>1, <2>2, <2>3
<1>8. ASSUME NEW r \in Requests, CommitCancelSlot(r) \/ CommitDispatched(r)
      PROVE  Shrinks
  <2> DEFINE i == requests[r].slot
  <2>1. i \in DOMAIN slots
    BY <1>3, <1>8 DEF CommitCancelSlot, CommitDispatched, WellFormed, In
  <2>2. PICK status \in {"cancelled", "posted"} : slots' = [slots EXCEPT ![i].status = status]
    BY <1>8 DEF CommitCancelSlot, CommitDispatched
  <2>3. \A q \in Requests : requests'[q].inserts \in {requests[q].inserts, << >>}
    BY <1>3, <1>8 DEF CommitCancelSlot, CommitDispatched, NoRequest, Request
  <2>4. QED
    BY <2>1, <2>2, <2>3, TableRows DEF Shrinks, SlotRow
<1>9. ASSUME NEW ids \in SUBSET Properties, delete_properties(ids)
      PROVE  Shrinks
  BY <1>9, TableRows DEF delete_properties, Shrinks, SlotRow
<1>10. CASE \/ \E p \in Properties : create_off_market(p)
            \/ update_schedule_config \/ Tick \/ UNCHANGED vars
  BY <1>10 DEF Shrinks, create_off_market, update_schedule_config, Tick, vars
<1>11. ASSUME NEW r \in Requests, Step(r) \/ Crash(r)
       PROVE  Shrinks \/ Commit(r) \/ \E t \in Time : Adds(r, t)
  <2>1. CASE \/ FlushConsumed(r) \/ RollDispatched(r)
             \/ \E p \in Properties : ApplyStatus(r, p)
    BY <1>5, <1>6, <2>1
  <2>2. CASE \/ SendAccepted(r) \/ SameStatus(r) \/ CommitCancelSlot(r) \/ CommitDispatched(r)
             \/ \E p \in Properties : ReadProperty(r, p)
    BY <1>7, <1>8, <2>2
  <2>3. CASE Rollback(r)
    BY <1>1, <2>3
  <2>4. QED
    BY <1>11, <2>1, <2>2, <2>3
       DEF Step, Crash, SlotGone, SendNothing, PropertyGone, ForeignKeyError, DeadlockVictim
<1>12. QED
  BY <1>4, <1>9, <1>10, <1>11 DEF Next

-----------------------------------------------------------------------------
(* The capacity of a slot, however many requests fill it at the same time. *)

\* The inserts for time t that no commit has written yet: the request, and
\* the place of the insert in it.
Waiting(t) == { c \in Requests \X Nat : c[2] \in For(requests[c[1]].inserts, t) }

\* No request alone overfills a slot, and all of them together overfill it at
\* most as often as there are requests.
Capacity ==
  \A t \in Time :
    /\ \A r \in Requests : Cardinality(For(requests[r].inserts, t)) <= MaxPosts
    /\ Cardinality(PendingAt(t)) + Cardinality(Waiting(t)) <= MaxPosts * Cardinality(Requests)

\* A family of sets of at most m numbers, one for every member of S, has at
\* most m * Cardinality(S) members in all.
LEMMA FamilyBound ==
  ASSUME NEW S, IsFiniteSet(S), NEW m \in Nat, NEW F,
         \A q \in S : /\ F[q] \in SUBSET Nat /\ IsFiniteSet(F[q])
                      /\ Cardinality(F[q]) <= m
  PROVE  LET all == { c \in S \X Nat : c[2] \in F[c[1]] }
         IN  IsFiniteSet(all) /\ Cardinality(all) <= m * Cardinality(S)
<1> DEFINE all == { c \in S \X Nat : c[2] \in F[c[1]] }
           g == [q \in S |-> CHOOSE f : f \in Injection(F[q], 1 .. m)]
           h == [c \in all |-> <<c[1], g[c[1]][c[2]]>>]
<1>1. ASSUME NEW q \in S
      PROVE  g[q] \in Injection(F[q], 1 .. m)
  <2> DEFINE n == Cardinality(F[q])
  <2>1. n \in Nat /\ ExistsBijection(1 .. n, F[q]) /\ n <= m
    BY FS_CardinalityType
  <2> HIDE DEF n
  <2>2. PICK b : b \in Bijection(1 .. n, F[q])
    BY <2>1 DEF ExistsBijection
  <2>3. Inverse(b, 1 .. n, F[q]) \in Bijection(F[q], 1 .. n)
    BY <2>2, Fun_BijInverse
  <2>4. PICK f : f \in Bijection(F[q], 1 .. n)
    BY <2>3
  <2>5. f \in Injection(F[q], 1 .. m)
    BY <2>1, <2>4 DEF Bijection, Injection, IsInjective
  <2>6. QED
    BY <2>5
<1> HIDE DEF g
<1>2. h \in Injection(all, S \X (1 .. m))
  <2>1. ASSUME NEW c \in all
        PROVE  h[c] \in S \X (1 .. m)
    <3>1. c[1] \in S /\ c[2] \in F[c[1]]
      OBVIOUS
    <3>2. g[c[1]][c[2]] \in 1 .. m
      BY <1>1, <3>1 DEF Injection
    <3>3. QED
      BY <3>1, <3>2
  <2>2. ASSUME NEW c \in all, NEW d \in all, h[c] = h[d]
        PROVE  c = d
    <3>1. c[1] = d[1] /\ c[1] \in S /\ c[2] \in F[c[1]] /\ d[2] \in F[c[1]]
      BY <2>2
    <3>2. g[c[1]][c[2]] = g[c[1]][d[2]]
      BY <2>2, <3>1
    <3>3. c[2] = d[2]
      BY <1>1, <3>1, <3>2 DEF Injection, IsInjective
    <3>4. QED
      BY <3>1, <3>3
  <2>3. h \in [all -> S \X (1 .. m)]
    BY <2>1
  <2>4. DOMAIN h = all
    OBVIOUS
  <2> HIDE DEF h, all
  <2>5. QED
    BY <2>2, <2>3, <2>4 DEF Injection, IsInjective
<1>3. /\ IsFiniteSet(S \X (1 .. m))
      /\ Cardinality(S \X (1 .. m)) = Cardinality(S) * m
      /\ Cardinality(S) \in Nat
  <2>1. IsFiniteSet(1 .. m) /\ Cardinality(1 .. m) = m
    BY FS_Interval
  <2>2. QED
    BY <2>1, FS_Product, FS_CardinalityType
<1>4. Cardinality(S) * m = m * Cardinality(S)
  BY <1>3
<1>5. QED
  BY <1>2, <1>3, <1>4, FS_Injection

\* The inserts of the requests in Q for one time.
LEMMA WaitingBound ==
  ASSUME IInv, NEW Q \in SUBSET Requests, NEW t,
         \A r \in Q : Cardinality(For(requests[r].inserts, t)) <= MaxPosts
  PROVE  LET mine == { c \in Q \X Nat : c[2] \in For(requests[c[1]].inserts, t) }
         IN  /\ IsFiniteSet(mine)
             /\ Cardinality(mine) <= MaxPosts * Cardinality(Q)
<1> DEFINE F == [r \in Q |-> For(requests[r].inserts, t)]
           mine == { c \in Q \X Nat : c[2] \in For(requests[c[1]].inserts, t) }
           all == { c \in Q \X Nat : c[2] \in F[c[1]] }
<1>1. IsFiniteSet(Q)
  BY PostQueueAssumption, FS_Subset
<1>2. \A r \in Q : /\ F[r] \in SUBSET Nat /\ IsFiniteSet(F[r])
                   /\ Cardinality(F[r]) <= MaxPosts
  <2> SUFFICES ASSUME NEW r \in Q
               PROVE  /\ F[r] \in SUBSET Nat /\ IsFiniteSet(F[r])
                      /\ Cardinality(F[r]) <= MaxPosts
    OBVIOUS
  <2>1. requests[r].inserts \in Seq(NewSlot)
    BY DEF IInv, TypeOK, Request
  <2>2. QED
    BY <2>1, CountsFinite DEF IInv
<1>3. MaxPosts \in Nat
  BY MaxPostsBounds DEF IInv
<1>4. mine = all
  OBVIOUS
<1> HIDE DEF F, mine
<1>5. IsFiniteSet(all) /\ Cardinality(all) <= MaxPosts * Cardinality(Q)
  BY <1>1, <1>2, <1>3, FamilyBound
<1>6. QED
  BY <1>4, <1>5 DEF mine

\* The counts of the invariant are numbers.
LEMMA CapacityNumbers ==
  ASSUME IInv, Capacity, NEW t \in Time
  PROVE  /\ IsFiniteSet(PendingAt(t)) /\ Cardinality(PendingAt(t)) \in Nat
         /\ IsFiniteSet(Waiting(t)) /\ Cardinality(Waiting(t)) \in Nat
         /\ MaxPosts * Cardinality(Requests) \in Nat
<1>1. IsFiniteSet(PendingAt(t))
  BY CountsFinite DEF IInv
<1>2. IsFiniteSet(Waiting(t))
  <2>1. \A r \in Requests : Cardinality(For(requests[r].inserts, t)) <= MaxPosts
    BY DEF Capacity
  <2>2. QED
    BY <2>1, WaitingBound DEF Waiting
<1>3. MaxPosts \in Nat /\ Cardinality(Requests) \in Nat
  BY PostQueueAssumption, FS_CardinalityType, MaxPostsBounds DEF IInv
<1>4. MaxPosts * Cardinality(Requests) \in Nat
  BY <1>3
<1>5. QED
  BY <1>1, <1>2, <1>4, FS_CardinalityType

\* Fewer pending rows and fewer inserts leave as much room.
LEMMA ShrinksKeepsCapacity ==
  ASSUME IInv, Capacity, IInv', Shrinks
  PROVE  Capacity'
<1> SUFFICES ASSUME NEW t \in Time
             PROVE  /\ \A r \in Requests : Cardinality(For(requests'[r].inserts, t)) <= MaxPosts
                    /\ Cardinality(PendingAt(t)') + Cardinality(Waiting(t)')
                         <= MaxPosts * Cardinality(Requests)
  BY DEF Capacity, MaxPosts
<1>1. ASSUME NEW r \in Requests
      PROVE  /\ For(requests'[r].inserts, t) \subseteq For(requests[r].inserts, t)
             /\ Cardinality(For(requests'[r].inserts, t)) <= MaxPosts
  <2>1. For(<< >>, t) = {}
    BY DEF For
  <2>2. For(requests'[r].inserts, t) \subseteq For(requests[r].inserts, t)
    BY <2>1 DEF Shrinks
  <2>3. requests'[r].inserts = requests[r].inserts \/ For(requests'[r].inserts, t) = {}
    BY <2>1 DEF Shrinks
  <2>4. Cardinality({}) = 0 /\ 0 <= MaxPosts
    BY FS_EmptySet, MaxPostsBounds DEF IInv
  <2>5. Cardinality(For(requests[r].inserts, t)) <= MaxPosts
    BY DEF Capacity
  <2>6. Cardinality(For(requests'[r].inserts, t)) <= MaxPosts
    BY <2>3, <2>4, <2>5, Zenon
  <2>7. QED
    BY <2>2, <2>6
<1>2. PendingAt(t)' \subseteq PendingAt(t)
  BY DEF Shrinks, PendingAt, Pending
<1>3. Waiting(t)' \subseteq Waiting(t)
  BY <1>1 DEF Waiting
<1>4. /\ IsFiniteSet(PendingAt(t)) /\ Cardinality(PendingAt(t)) \in Nat
      /\ IsFiniteSet(Waiting(t)) /\ Cardinality(Waiting(t)) \in Nat
      /\ MaxPosts * Cardinality(Requests) \in Nat
      /\ Cardinality(PendingAt(t)) + Cardinality(Waiting(t)) <= MaxPosts * Cardinality(Requests)
  BY CapacityNumbers DEF Capacity
<1>5. /\ Cardinality(PendingAt(t)') <= Cardinality(PendingAt(t))
      /\ Cardinality(PendingAt(t)') \in Nat
  BY <1>2, <1>4, FS_Subset, FS_CardinalityType
<1>6. /\ Cardinality(Waiting(t)') <= Cardinality(Waiting(t))
      /\ Cardinality(Waiting(t)') \in Nat
  BY <1>3, <1>4, FS_Subset, FS_CardinalityType
<1> HIDE DEF PendingAt, Waiting
<1>7. Cardinality(PendingAt(t)') + Cardinality(Waiting(t)') <= MaxPosts * Cardinality(Requests)
  BY <1>4, <1>5, <1>6
<1>8. QED
  BY <1>1, <1>7

\* The request that adds an insert has counted its own and all that is
\* pending; the others have each kept to the capacity.
LEMMA AddsKeepsCapacity ==
  ASSUME IInv, Capacity, IInv', NEW r \in Requests, NEW u \in Time, Adds(r, u)
  PROVE  Capacity'
<1> DEFINE P == PendingAt(u)
           Q == Requests \ {r}
           own == For(requests'[r].inserts, u)
           others == { c \in Q \X Nat : c[2] \in For(requests[c[1]].inserts, u) }
<1>1. PICK inserts \in {requests[r].inserts, << >>}, p \in Properties :
        /\ requests'[r].inserts = Append(inserts, [property |-> p, at |-> u])
        /\ Cardinality(P) + Cardinality(For(inserts, u)) < MaxPosts
  BY DEF Adds
<1> DEFINE new == [property |-> p, at |-> u]
<1>2. inserts \in Seq(NewSlot) /\ new \in NewSlot
  <2>1. requests[r].inserts \in Seq(NewSlot)
    BY DEF IInv, TypeOK, Request
  <2>2. QED
    BY <2>1, EmptySeq DEF NewSlot
<1> DEFINE n == Len(inserts)
<1>3. /\ n \in Nat /\ DOMAIN inserts = 1 .. n
      /\ DOMAIN Append(inserts, new) = 1 .. n + 1
      /\ \A k \in 1 .. n : Append(inserts, new)[k] = inserts[k]
      /\ Append(inserts, new)[n + 1] = new
  <2>1. n \in Nat /\ DOMAIN inserts = 1 .. n
    BY <1>2, LenProperties
  <2>2. Append(inserts, new) \in Seq(NewSlot) /\ Len(Append(inserts, new)) = n + 1
    BY <1>2, AppendProperties
  <2>3. DOMAIN Append(inserts, new) = 1 .. n + 1
    BY <2>2, LenProperties
  <2>4. QED
    BY <1>2, <2>1, <2>3, AppendProperties
<1>4. For(inserts, u) \subseteq own /\ own \subseteq For(inserts, u) \cup {n + 1}
  BY <1>1, <1>3 DEF For
<1>5. \A t \in Time : t # u => For(requests'[r].inserts, t) \subseteq For(requests[r].inserts, t)
  <2> SUFFICES ASSUME NEW t \in Time, t # u
               PROVE  For(requests'[r].inserts, t) \subseteq For(requests[r].inserts, t)
    OBVIOUS
  <2>1. For(requests'[r].inserts, t) \subseteq For(inserts, t)
    BY <1>1, <1>3 DEF For
  <2>2. For(<< >>, t) = {}
    BY DEF For
  <2>3. QED
    BY <2>1, <2>2
<1>6. /\ IsFiniteSet(own) /\ Cardinality(own) \in Nat
      /\ Cardinality(P) \in Nat /\ IsFiniteSet(P)
      /\ MaxPosts \in Nat
      /\ Cardinality(P) + Cardinality(own) <= MaxPosts
  <2>1. IsFiniteSet(For(inserts, u)) /\ Cardinality(For(inserts, u)) \in Nat
    BY <1>2, CountsFinite, FS_CardinalityType DEF IInv
  <2>2. /\ IsFiniteSet(For(inserts, u) \cup {n + 1})
        /\ Cardinality(For(inserts, u) \cup {n + 1}) <= Cardinality(For(inserts, u)) + 1
    <3> DEFINE F == For(inserts, u)
               x == n + 1
    <3> HIDE DEF F, x
    <3>1. IsFiniteSet(F) /\ Cardinality(F) \in Nat
      BY <2>1 DEF F
    <3>2. /\ IsFiniteSet(F \cup {x})
          /\ Cardinality(F \cup {x}) = IF x \in F THEN Cardinality(F) ELSE Cardinality(F) + 1
      BY <3>1, FS_AddElement
    <3>3. IsFiniteSet(F \cup {x}) /\ Cardinality(F \cup {x}) <= Cardinality(F) + 1
      BY <3>1, <3>2
    <3>4. QED
      BY <3>3 DEF F, x
  <2>3. IsFiniteSet(own) /\ Cardinality(own) <= Cardinality(For(inserts, u) \cup {n + 1})
    BY <1>4, <2>2, FS_Subset
  <2>4. Cardinality(own) \in Nat /\ Cardinality(For(inserts, u) \cup {n + 1}) \in Nat
    BY <2>2, <2>3, FS_CardinalityType
  <2>5. Cardinality(P) \in Nat /\ MaxPosts \in Nat /\ IsFiniteSet(P)
    BY CapacityNumbers, MaxPostsBounds DEF IInv
  <2> HIDE DEF own, P
  <2>6. QED
    BY <1>1, <2>1, <2>2, <2>3, <2>4, <2>5
<1>7. ASSUME NEW t \in Time
      PROVE  /\ PendingAt(t)' = PendingAt(t)
             /\ \A q \in Q : requests'[q].inserts = requests[q].inserts
             /\ \A q \in Requests : Cardinality(For(requests'[q].inserts, t)) <= MaxPosts
  <2>1. PendingAt(t)' = PendingAt(t)
    BY DEF Adds, PendingAt, Pending
  <2>2. \A q \in Q : requests'[q].inserts = requests[q].inserts
    BY DEF Adds
  <2>3. CASE t = u
    <3>1. Cardinality(own) <= MaxPosts
      <4> HIDE DEF own, P
      <4>1. QED
        BY <1>6
    <3>2. \A q \in Q : Cardinality(For(requests'[q].inserts, t)) <= MaxPosts
      BY <2>2 DEF Capacity
    <3>3. QED
      BY <2>1, <2>2, <2>3, <3>1, <3>2
  <2>4. CASE t # u
    <3>1. IsFiniteSet(For(requests[r].inserts, t))
      BY CountsFinite DEF IInv, TypeOK, Request
    <3>2. /\ Cardinality(For(requests'[r].inserts, t)) <= Cardinality(For(requests[r].inserts, t))
          /\ Cardinality(For(requests'[r].inserts, t)) \in Nat
          /\ Cardinality(For(requests[r].inserts, t)) \in Nat
      BY <1>5, <2>4, <3>1, FS_Subset, FS_CardinalityType
    <3>3. /\ Cardinality(For(requests[r].inserts, t)) <= MaxPosts
          /\ \A q \in Q : Cardinality(For(requests'[q].inserts, t)) <= MaxPosts
      BY <2>2 DEF Capacity
    <3>4. Cardinality(For(requests'[r].inserts, t)) <= MaxPosts
      BY <1>6, <3>2, <3>3
    <3>5. QED
      BY <2>1, <2>2, <3>3, <3>4
  <2>5. QED
    BY <2>3, <2>4
<1>8. ASSUME NEW t \in Time
      PROVE  Cardinality(PendingAt(t)') + Cardinality(Waiting(t)')
               <= MaxPosts * Cardinality(Requests)
  <2>1. CASE t = u
    <3> DEFINE N == Cardinality(Requests)
    <3>1. N \in Nat /\ IsFiniteSet(Q) /\ Cardinality(Q) = N - 1
      BY PostQueueAssumption, FS_RemoveElement, FS_CardinalityType
    <3>2. IsFiniteSet(others) /\ Cardinality(others) <= MaxPosts * Cardinality(Q)
      <4>1. \A q \in Q : Cardinality(For(requests[q].inserts, u)) <= MaxPosts
        BY DEF Capacity
      <4>2. QED
        BY <4>1, WaitingBound
    <3>3. IsFiniteSet({r} \X own) /\ Cardinality({r} \X own) = Cardinality(own)
      <4>1. IsFiniteSet({r}) /\ Cardinality({r}) = 1
        BY FS_Singleton
      <4>2. /\ IsFiniteSet({r} \X own)
            /\ Cardinality({r} \X own) = Cardinality({r}) * Cardinality(own)
        BY <1>6, <4>1, FS_Product
      <4>3. QED
        BY <1>6, <4>1, <4>2
    <3>4. Waiting(t)' \subseteq others \cup ({r} \X own)
      BY <1>7, <2>1 DEF Waiting
    <3>5. /\ IsFiniteSet(others \cup ({r} \X own))
          /\ Cardinality(others \cup ({r} \X own)) <= Cardinality(others) + Cardinality(own)
      <4>1. Cardinality(others \cap ({r} \X own)) \in Nat
        BY <3>2, FS_Intersection, FS_CardinalityType
      <4>2. /\ IsFiniteSet(others \cup ({r} \X own))
            /\ Cardinality(others \cup ({r} \X own))
                 = Cardinality(others) + Cardinality({r} \X own)
                     - Cardinality(others \cap ({r} \X own))
        BY <3>2, <3>3, FS_Union
      <4>3. Cardinality(others) \in Nat
        BY <3>2, FS_CardinalityType
      <4> HIDE DEF others, own
      <4>4. QED
        BY <1>6, <3>3, <4>1, <4>2, <4>3
    <3>6. /\ Cardinality(Waiting(t)') <= Cardinality(others \cup ({r} \X own))
          /\ Cardinality(Waiting(t)') \in Nat
          /\ Cardinality(others \cup ({r} \X own)) \in Nat
          /\ Cardinality(others) \in Nat
      BY <3>2, <3>4, <3>5, FS_Subset, FS_CardinalityType
    <3> HIDE DEF N, others, own, P
    <3>7. MaxPosts * (N - 1) + MaxPosts = MaxPosts * N
      BY <1>6, <3>1
    <3>8. MaxPosts * N \in Nat /\ MaxPosts * (N - 1) \in Int
      BY <1>6, <3>1
    <3>9. Cardinality(P) + Cardinality(Waiting(t)') <= MaxPosts * N
      BY <1>6, <3>1, <3>2, <3>5, <3>6, <3>7, <3>8
    <3>10. QED
      BY <1>7, <2>1, <3>9 DEF N, P
  <2>2. CASE t # u
    <3>1. Waiting(t)' \subseteq Waiting(t)
      BY <1>5, <1>7, <2>2 DEF Waiting
    <3>2. /\ IsFiniteSet(Waiting(t)) /\ Cardinality(Waiting(t)) \in Nat
          /\ Cardinality(PendingAt(t)) \in Nat
          /\ MaxPosts * Cardinality(Requests) \in Nat
          /\ Cardinality(PendingAt(t)) + Cardinality(Waiting(t)) <= MaxPosts * Cardinality(Requests)
      BY CapacityNumbers DEF Capacity
    <3>3. /\ Cardinality(Waiting(t)') <= Cardinality(Waiting(t))
          /\ Cardinality(Waiting(t)') \in Nat
      BY <3>1, <3>2, FS_Subset, FS_CardinalityType
    <3>4. PendingAt(t)' = PendingAt(t)
      BY <1>7
    <3> HIDE DEF PendingAt, Waiting
    <3>5. QED
      BY <3>2, <3>3, <3>4
  <2>3. QED
    BY <2>1, <2>2
<1>9. QED
  BY <1>7, <1>8 DEF Capacity, MaxPosts

\* A commit turns the inserts of the request into pending rows.
LEMMA CommitKeepsCapacity ==
  ASSUME IInv, Capacity, IInv', NEW r \in Requests, Commit(r)
  PROVE  Capacity'
<1> SUFFICES ASSUME NEW t \in Time
             PROVE  /\ \A q \in Requests : Cardinality(For(requests'[q].inserts, t)) <= MaxPosts
                    /\ Cardinality(PendingAt(t)') + Cardinality(Waiting(t)')
                         <= MaxPosts * Cardinality(Requests)
  BY DEF Capacity, MaxPosts
<1> DEFINE own == For(requests[r].inserts, t)
           rows == { i \in PendingAt(t)' : i \notin DOMAIN slots }
           gone == {r} \X own
<1>1. /\ requests'[r].inserts = << >>
      /\ \A q \in Requests \ {r} : requests'[q].inserts = requests[q].inserts
  BY DEF Commit, NoRequest, IInv, TypeOK
<1>2. \A q \in Requests : Cardinality(For(requests'[q].inserts, t)) <= MaxPosts
  <2>1. For(<< >>, t) = {} /\ Cardinality({}) = 0 /\ 0 <= MaxPosts
    BY FS_EmptySet, MaxPostsBounds DEF For, IInv
  <2>2. Cardinality(For(requests'[r].inserts, t)) <= MaxPosts
    BY <1>1, <2>1, Zenon
  <2>3. \A q \in Requests \ {r} : Cardinality(For(requests'[q].inserts, t)) <= MaxPosts
    BY <1>1 DEF Capacity
  <2>4. QED
    BY <2>2, <2>3
<1>3. /\ IsFiniteSet(PendingAt(t)) /\ Cardinality(PendingAt(t)) \in Nat
      /\ IsFiniteSet(Waiting(t)) /\ Cardinality(Waiting(t)) \in Nat
      /\ MaxPosts * Cardinality(Requests) \in Nat
      /\ Cardinality(PendingAt(t)) + Cardinality(Waiting(t)) <= MaxPosts * Cardinality(Requests)
  BY CapacityNumbers DEF Capacity
<1>4. IsFiniteSet(own) /\ own \in SUBSET Nat /\ Cardinality(own) \in Nat
  <2>1. requests[r].inserts \in Seq(NewSlot)
    BY DEF IInv, TypeOK, Request
  <2>2. IsFiniteSet(own) /\ own \in SUBSET Nat
    BY <2>1, CountsFinite DEF IInv
  <2>3. QED
    BY <2>2, FS_CardinalityType
<1>5. PendingAt(t)' \subseteq PendingAt(t) \cup rows
  <2> SUFFICES ASSUME NEW i \in PendingAt(t)', i \in DOMAIN slots
               PROVE  i \in PendingAt(t)
    OBVIOUS
  <2>1. slots'[i].status = "pending" /\ slots'[i].at = t
    BY DEF PendingAt, Pending
  <2>2. QED
    BY <2>1, CommitTable DEF PendingAt, Pending
<1>6. IsFiniteSet(rows) /\ Cardinality(rows) <= Cardinality(own) /\ Cardinality(rows) \in Nat
  <2> DEFINE g == [i \in rows |-> i - Len(slots)]
  <2>1. ASSUME NEW i \in rows
        PROVE  i - Len(slots) \in own /\ i \in Nat /\ Len(slots) \in Nat
    <3>1. i \in DOMAIN slots' /\ i \notin DOMAIN slots /\ slots'[i].at = t
      BY DEF PendingAt, Pending
    <3>2. i \in Nat /\ Len(slots) \in Nat
      BY <3>1, CommitTable, TableRows DEF IInv
    <3>3. i - Len(slots) \in own
      BY <3>1, CommitTable DEF For
    <3>4. QED
      BY <3>2, <3>3
  <2>2. g \in [rows -> own]
    BY <2>1
  <2>3. \A i, j \in rows : g[i] = g[j] => i = j
    BY <2>1
  <2> HIDE DEF g, rows, own
  <2>4. g \in Injection(rows, own)
    BY <2>2, <2>3, Fun_IsInj
  <2>5. QED
    BY <1>4, <2>4, FS_Injection, FS_CardinalityType
<1>7. IsFiniteSet(gone) /\ Cardinality(gone) = Cardinality(own) /\ gone \subseteq Waiting(t)
  <2>1. IsFiniteSet({r}) /\ Cardinality({r}) = 1
    BY FS_Singleton
  <2>2. IsFiniteSet(gone) /\ Cardinality(gone) = Cardinality({r}) * Cardinality(own)
    BY <1>4, <2>1, FS_Product
  <2>3. gone \subseteq Waiting(t)
    BY <1>4 DEF Waiting
  <2>4. QED
    BY <1>4, <2>1, <2>2, <2>3
<1>8. Waiting(t)' \subseteq Waiting(t) \ gone
  <2>1. ASSUME NEW c \in Waiting(t)'
        PROVE  c \in Waiting(t) \ gone
    <3>1. c \in Requests \X Nat /\ c[2] \in For(requests'[c[1]].inserts, t)
      BY DEF Waiting
    <3>2. For(<< >>, t) = {}
      BY DEF For
    <3>3. c[1] \in Requests \ {r}
      BY <1>1, <3>1, <3>2
    <3>4. QED
      BY <1>1, <3>1, <3>3 DEF Waiting
  <2>2. QED
    BY <2>1
<1>9. /\ Cardinality(Waiting(t)') <= Cardinality(Waiting(t)) - Cardinality(own)
      /\ Cardinality(Waiting(t)') \in Nat
  <2> HIDE DEF gone
  <2>1. Waiting(t) \cap gone = gone
    BY <1>7
  <2>2. /\ IsFiniteSet(Waiting(t) \ gone)
        /\ Cardinality(Waiting(t) \ gone) = Cardinality(Waiting(t)) - Cardinality(gone)
    <3>1. /\ IsFiniteSet(Waiting(t) \ gone)
          /\ Cardinality(Waiting(t) \ gone)
               = Cardinality(Waiting(t)) - Cardinality(Waiting(t) \cap gone)
      BY <1>3, FS_Difference
    <3>2. QED
      BY <2>1, <3>1
  <2>3. Cardinality(Waiting(t)') <= Cardinality(Waiting(t) \ gone) /\ IsFiniteSet(Waiting(t)')
    BY <1>8, <2>2, FS_Subset
  <2>4. Cardinality(Waiting(t)') \in Nat
    BY <2>3, FS_CardinalityType
  <2> HIDE DEF own
  <2>5. QED
    BY <1>7, <2>2, <2>3, <2>4
<1>10. /\ Cardinality(PendingAt(t)') <= Cardinality(PendingAt(t)) + Cardinality(own)
       /\ Cardinality(PendingAt(t)') \in Nat
  <2>1. /\ IsFiniteSet(PendingAt(t) \cup rows)
        /\ Cardinality(PendingAt(t) \cup rows)
             = Cardinality(PendingAt(t)) + Cardinality(rows) - Cardinality(PendingAt(t) \cap rows)
    BY <1>3, <1>6, FS_Union
  <2>2. Cardinality(PendingAt(t) \cap rows) \in Nat
    BY <1>3, FS_Intersection, FS_CardinalityType
  <2>3. Cardinality(PendingAt(t)') <= Cardinality(PendingAt(t) \cup rows) /\ IsFiniteSet(PendingAt(t)')
    BY <1>5, <2>1, FS_Subset
  <2>4. Cardinality(PendingAt(t)') \in Nat
    BY <2>3, FS_CardinalityType
  <2> HIDE DEF rows, own
  <2>5. QED
    BY <1>3, <1>4, <1>6, <2>1, <2>2, <2>3, <2>4
<1> HIDE DEF own
<1>11. Cardinality(PendingAt(t)') + Cardinality(Waiting(t)') <= MaxPosts * Cardinality(Requests)
  BY <1>3, <1>4, <1>9, <1>10
<1>12. QED
  BY <1>2, <1>11

\* Nothing is waiting and nothing is pending to begin with.
LEMMA InitCapacity == Init => Capacity
<1> SUFFICES ASSUME Init, NEW t \in Time
             PROVE  /\ \A r \in Requests : Cardinality(For(requests[r].inserts, t)) <= MaxPosts
                    /\ Cardinality(PendingAt(t)) + Cardinality(Waiting(t))
                         <= MaxPosts * Cardinality(Requests)
  BY DEF Capacity
<1>1. MaxPosts \in Nat /\ Cardinality(Requests) \in Nat
  BY InitInv, MaxPostsBounds, PostQueueAssumption, FS_CardinalityType DEF IInv
<1>2. \A r \in Requests : For(requests[r].inserts, t) = {}
  BY DEF Init, NoRequest, For
<1>3. PendingAt(t) = {}
  BY DEF Init, PendingAt, Pending
<1>4. Waiting(t) = {}
  BY <1>2 DEF Waiting
<1>5. Cardinality({}) = 0 /\ MaxPosts * Cardinality(Requests) >= 0
  BY <1>1, FS_EmptySet
<1>6. \A r \in Requests : Cardinality(For(requests[r].inserts, t)) <= MaxPosts
  BY <1>1, <1>2, <1>5
<1>7. Cardinality(PendingAt(t)) + Cardinality(Waiting(t)) <= MaxPosts * Cardinality(Requests)
  BY <1>1, <1>3, <1>4, <1>5
<1>8. QED
  BY <1>6, <1>7

\* The whole invariant is kept by every step.
LEMMA CapacityInductive == IInv /\ Capacity /\ [Next]_vars => Capacity'
<1> SUFFICES ASSUME IInv, Capacity, [Next]_vars
             PROVE  Capacity'
  OBVIOUS
<1>1. IInv'
  BY NextInv
<1>2. QED
  BY <1>1, StepShape, ShrinksKeepsCapacity, AddsKeepsCapacity, CommitKeepsCapacity

\* A slot never gets more pending posts than one capacity for every request
\* that can be open at once, however the requests that count it interleave:
\* with a single request it is never overfilled.
THEOREM CapacityHolds == Spec => []OvershootBounded
<1>1. IInv /\ Capacity => OvershootBounded
  <2> SUFFICES ASSUME IInv, Capacity, NEW i \in Pending
               PROVE  Cardinality(PendingAt(slots[i].at)) <= MaxPosts * Cardinality(Requests)
    BY DEF OvershootBounded
  <2> DEFINE t == slots[i].at
  <2>1. t \in Time
    BY TableRows DEF Pending, IInv
  <2> HIDE DEF t
  <2>2. /\ Cardinality(PendingAt(t)) \in Nat /\ Cardinality(Waiting(t)) \in Nat
        /\ MaxPosts * Cardinality(Requests) \in Nat
        /\ Cardinality(PendingAt(t)) + Cardinality(Waiting(t)) <= MaxPosts * Cardinality(Requests)
    BY <2>1, CapacityNumbers DEF Capacity
  <2>3. Cardinality(PendingAt(t)) <= MaxPosts * Cardinality(Requests)
    BY <2>2
  <2>4. QED
    BY <2>3 DEF t
<1>2. QED
  BY <1>1, InitInv, NextInv, InitCapacity, CapacityInductive, PTL DEF Spec

-----------------------------------------------------------------------------
(* A skipped slot is followed by a later one of its property.              *)

\* A request that has used up a slot carries the next one of its property.
Carries(req) ==
  req.op \in {"consume", "dispatch"} /\ req.phase = "flushed" =>
    \E k \in DOMAIN req.inserts : req.inserts[k].property = slots[req.slot].property

Followed ==
  /\ \A r \in Requests : Carries(requests[r])
  /\ \A i \in DOMAIN slots : slots[i].status = "skipped" =>
       \E j \in DOMAIN slots : j > i /\ slots[j].property = slots[i].property

\* The request new is req with an insert for property p added at the end.
Enqueued(req, p, new) ==
  /\ new \in Request
  /\ \E at \in Time : new = [req EXCEPT !.inserts = Append(req.inserts, [property |-> p, at |-> at])]
  /\ Len(req.inserts) \in Nat
  /\ DOMAIN req.inserts = 1 .. Len(req.inserts)
  /\ DOMAIN new.inserts = 1 .. Len(req.inserts) + 1
  /\ Len(new.inserts) = Len(req.inserts) + 1
  /\ \A k \in DOMAIN req.inserts : new.inserts[k] = req.inserts[k]
  /\ new.inserts[Len(req.inserts) + 1].property = p

\* What enqueue_property makes of a request: its last insert is the new one.
LEMMA EnqueueRequest ==
  ASSUME IInv, NEW r \in Requests, NEW req \in Request, NEW p \in Properties,
         NEW floor \in Time, enqueue_property(r, req, p, floor)
  PROVE  Rollback(r) \/ \E new : Become(r, new) /\ Enqueued(req, p, new)
<1> DEFINE when == next_post_slot(floor, capacity_at(req), policy)
<1>1. CASE when = NoSlot
  BY <1>1 DEF enqueue_property
<1>2. CASE when # NoSlot
  <2>1. policy \in SchedulePolicy
    BY PostQueueAssumption DEF IInv, TypeOK
  <2>2. when \in Time
    BY <1>2, <2>1, NextPostSlot
  <2> DEFINE row == [property |-> p, at |-> when]
             new == [req EXCEPT !.inserts = Append(req.inserts, row)]
             n == Len(req.inserts)
  <2>3. Become(r, new)
    BY <1>2 DEF enqueue_property
  <2>4. req.inserts \in Seq(NewSlot) /\ row \in NewSlot
    BY <2>2 DEF Request, NewSlot
  <2>5. /\ n \in Nat /\ DOMAIN req.inserts = 1 .. n
        /\ Append(req.inserts, row) \in Seq(NewSlot)
        /\ Len(Append(req.inserts, row)) = n + 1
        /\ DOMAIN Append(req.inserts, row) = 1 .. n + 1
        /\ \A k \in 1 .. n : Append(req.inserts, row)[k] = req.inserts[k]
        /\ Append(req.inserts, row)[n + 1] = row
    <3>1. n \in Nat /\ DOMAIN req.inserts = 1 .. n
      BY <2>4, LenProperties
    <3>2. /\ Append(req.inserts, row) \in Seq(NewSlot)
          /\ Len(Append(req.inserts, row)) = n + 1
      BY <2>4, AppendProperties
    <3>3. DOMAIN Append(req.inserts, row) = 1 .. n + 1
      BY <3>2, LenProperties
    <3>4. QED
      BY <2>4, <3>1, <3>2, <3>3, AppendProperties
  <2>6. new \in Request /\ new.inserts = Append(req.inserts, row)
    BY <2>5 DEF Request
  <2>7. row.property = p
    OBVIOUS
  <2>8. \E at \in Time : new = [req EXCEPT !.inserts = Append(req.inserts, [property |-> p, at |-> at])]
    BY <2>2
  <2> HIDE DEF row, new
  <2>9. /\ Len(new.inserts) = n + 1 /\ DOMAIN new.inserts = 1 .. n + 1
        /\ \A k \in DOMAIN req.inserts : new.inserts[k] = req.inserts[k]
        /\ new.inserts[n + 1].property = p
    BY <2>5, <2>6, <2>7
  <2>10. Enqueued(req, p, new)
    BY <2>5, <2>6, <2>8, <2>9 DEF Enqueued
  <2>11. QED
    BY <2>3, <2>10
<1>3. QED
  BY <1>1, <1>2

\* An insert changes nothing else in a request.
LEMMA EnqueuedSame ==
  ASSUME NEW req \in Request, NEW p, NEW new, Enqueued(req, p, new)
  PROVE  /\ new.op = req.op /\ new.phase = req.phase /\ new.slot = req.slot
         /\ new.target = req.target /\ new.todo = req.todo /\ new.cur = req.cur
         /\ new.was = req.was /\ new.held = req.held /\ new.cancels = req.cancels
<1>1. PICK at \in Time : new = [req EXCEPT !.inserts = Append(req.inserts, [property |-> p, at |-> at])]
  BY DEF Enqueued
<1>2. QED
  BY <1>1 DEF Request

\* Only a request that rolls has used up a slot.
LEMMA StepCarries ==
  ASSUME IInv, [Next]_vars, NEW q \in Requests, requests'[q] # requests[q]
  PROVE  \/ ~ (requests'[q].op \in {"consume", "dispatch"} /\ requests'[q].phase = "flushed")
         \/ /\ slots' = slots /\ requests'[q].slot \in DOMAIN slots
            /\ \E k \in DOMAIN requests'[q].inserts :
                 requests'[q].inserts[k].property = slots[requests'[q].slot].property
<1> DEFINE Quiet(req) == ~ (req.op \in {"consume", "dispatch"} /\ req.phase = "flushed")
<1>1. /\ \A r \in Requests : requests[r] \in Request /\ WellFormed(requests[r])
      /\ requests \in [Requests -> Request] /\ now \in Time
  BY PostQueueAssumption DEF IInv, TypeOK
<1>2. ASSUME NEW r \in Requests, NEW req, Become(r, req), Quiet(req)
      PROVE  Quiet(requests'[q])
  BY <1>1, <1>2 DEF Become
<1>3. ASSUME NEW r \in Requests, Rollback(r)
      PROVE  Quiet(requests'[q])
  BY <1>1, <1>3 DEF Rollback, NoRequest
<1>4. ASSUME NEW r \in Requests, NEW req \in Request, Quiet(req), NEW p \in Properties,
             NEW floor \in Time, enqueue_property(r, req, p, floor)
      PROVE  Quiet(requests'[q])
  <2>1. CASE Rollback(r)
    BY <1>3, <2>1
  <2>2. ASSUME NEW new, Become(r, new), Enqueued(req, p, new)
        PROVE  Quiet(requests'[q])
    <3>1. new.op = req.op /\ new.phase = req.phase
      BY <2>2 DEF Enqueued, Request
    <3>2. QED
      BY <1>2, <1>4, <2>2, <3>1
  <2> HIDE DEF Quiet
  <2>3. QED
    BY <1>4, <2>1, <2>2, EnqueueRequest
<1>5. ASSUME NEW r \in Requests, Start(r)
      PROVE  Quiet(requests'[q])
  <2>1. CASE \E i \in DOMAIN slots :
               mark_posted(r, i) \/ skip_slot(r, i) \/ cancel_slot(r, i) \/ dispatch_now(r, i)
    <3>1. PICK i, op, target :
            Become(r, [NoRequest EXCEPT !.op = op, !.phase = "loaded", !.slot = i, !.target = target])
      BY <2>1 DEF mark_posted, skip_slot, cancel_slot, dispatch_now, Load
    <3>2. Quiet([NoRequest EXCEPT !.op = op, !.phase = "loaded", !.slot = i, !.target = target])
      BY DEF NoRequest
    <3>3. QED
      BY <1>2, <3>1, <3>2
  <2>2. CASE \E p \in Properties : create_available(r, p)
    <3>1. PICK p \in Properties : create_available(r, p)
      BY <2>2
    <3> DEFINE req == [NoRequest EXCEPT !.op = "create", !.phase = "flushed",
                                        !.held = {p}, !.target = "available"]
    <3>2. req \in Request /\ Quiet(req)
      BY NoRequestOK DEF NoRequest, Request, PropertyStatus
    <3>3. enqueue_property(r, req, p, now)
      BY <3>1 DEF create_available
    <3> HIDE DEF req
    <3>4. QED
      BY <1>1, <1>4, <3>2, <3>3
  <2>3. CASE \E ids \in SUBSET Live, status \in PropertyStatus : update_status(r, ids, status)
    <3>1. PICK ids, status :
            Become(r, [NoRequest EXCEPT !.op = "status", !.phase = "loop", !.todo = ids, !.target = status])
      BY <2>3 DEF update_status
    <3>2. Quiet([NoRequest EXCEPT !.op = "status", !.phase = "loop", !.todo = ids, !.target = status])
      BY DEF NoRequest
    <3>3. QED
      BY <1>2, <3>1, <3>2
  <2>4. QED
    BY <1>5, <2>1, <2>2, <2>3 DEF Start
<1>6. ASSUME NEW r \in Requests, FlushConsumed(r) \/ RollDispatched(r)
      PROVE  \/ Quiet(requests'[q])
             \/ /\ slots' = slots /\ requests'[q].slot \in DOMAIN slots
                /\ \E k \in DOMAIN requests'[q].inserts :
                     requests'[q].inserts[k].property = slots[requests'[q].slot].property
  <2> DEFINE i == requests[r].slot
             req == [requests[r] EXCEPT !.phase = "flushed"]
  <2>1. requests[r] \in Request /\ i \in DOMAIN slots
    BY <1>1, <1>6 DEF FlushConsumed, RollDispatched, WellFormed, In
  <2>2. slots[i].property \in Properties /\ slots[i].at \in Time
    BY <2>1, TableRows DEF IInv
  <2>3. req \in Request /\ req.slot = i
    BY <2>1 DEF Request
  <2>4. enqueue_property(r, req, slots[i].property, slots[i].at)
    BY <1>6 DEF FlushConsumed, RollDispatched
  <2> HIDE DEF i, req
  <2>5. CASE Rollback(r)
    BY <1>3, <2>5
  <2>6. ASSUME NEW new, Become(r, new), Enqueued(req, slots[i].property, new)
        PROVE  \/ Quiet(requests'[q])
               \/ /\ slots' = slots /\ requests'[q].slot \in DOMAIN slots
                  /\ \E k \in DOMAIN requests'[q].inserts :
                       requests'[q].inserts[k].property = slots[requests'[q].slot].property
    <3>1. slots' = slots /\ requests' = [requests EXCEPT ![r] = new]
      BY <2>6 DEF Become
    <3>2. new.slot = i /\ \E k \in DOMAIN new.inserts : new.inserts[k].property = slots[i].property
      <4>1. new.slot = i
        <5>1. PICK at \in Time : new = [req EXCEPT !.inserts = Append(req.inserts,
                                           [property |-> slots[i].property, at |-> at])]
          BY <2>6 DEF Enqueued
        <5>2. QED
          BY <2>3, <5>1 DEF Request
      <4>2. Len(req.inserts) + 1 \in DOMAIN new.inserts
        BY <2>6 DEF Enqueued
      <4>3. new.inserts[Len(req.inserts) + 1].property = slots[i].property
        BY <2>6 DEF Enqueued
      <4>4. QED
        BY <4>1, <4>2, <4>3
    <3>3. requests'[q] = new
      <4>1. CASE q = r
        BY <1>1, <3>1, <4>1
      <4>2. CASE q # r
        BY <1>1, <3>1, <4>2
      <4>3. QED
        BY <4>1, <4>2
    <3>4. QED
      BY <2>1, <3>1, <3>2, <3>3
  <2> HIDE DEF Quiet
  <2>7. QED
    BY <2>2, <2>3, <2>4, <2>5, <2>6, EnqueueRequest
<1>7. ASSUME NEW r \in Requests, NEW p \in Properties, ApplyStatus(r, p)
      PROVE  Quiet(requests'[q])
  <2> DEFINE next == [requests[r] EXCEPT !.phase = "loop", !.cur = {}, !.was = "absent",
                                         !.held = @ \cup {p}]
  <2>1. next \in Request /\ Quiet(next)
    BY <1>1 DEF Request, PropertyRow
  <2>2. CASE requests[r].was = "available"
    <3>1. PICK cancels : Become(r, [next EXCEPT !.cancels = cancels])
      BY <1>7, <2>2 DEF ApplyStatus
    <3>2. Quiet([next EXCEPT !.cancels = cancels])
      BY <2>1 DEF Request
    <3>3. QED
      BY <1>2, <3>1, <3>2
  <2>3. CASE enqueue_property(r, next, p, now)
    <3> HIDE DEF next
    <3>1. QED
      BY <1>1, <1>4, <2>1, <2>3
  <2>4. CASE Become(r, next)
    BY <1>2, <2>1, <2>4
  <2>5. QED
    BY <1>7, <2>2, <2>3, <2>4 DEF ApplyStatus
<1>8. ASSUME NEW r \in Requests,
             \/ SendAccepted(r) \/ SameStatus(r) \/ CommitCancelSlot(r) \/ CommitDispatched(r)
             \/ Commit(r) \/ \E p \in Properties : ReadProperty(r, p)
      PROVE  Quiet(requests'[q])
  <2>1. requests[r] \in Request /\ requests \in [Requests -> Request]
    BY <1>1
  <2>2. CASE SendAccepted(r) \/ SameStatus(r)
    BY <2>1, <2>2 DEF SendAccepted, SameStatus, Become, Request
  <2>3. CASE CommitCancelSlot(r) \/ CommitDispatched(r) \/ Commit(r)
    BY <2>1, <2>3 DEF CommitCancelSlot, CommitDispatched, Commit, NoRequest, Request
  <2>4. ASSUME NEW p \in Properties, ReadProperty(r, p)
        PROVE  Quiet(requests'[q])
    BY <2>1, <2>4 DEF ReadProperty, Become, Request
  <2>5. QED
    BY <1>8, <2>2, <2>3, <2>4
<1>9. CASE \/ \E ids \in SUBSET Properties : delete_properties(ids)
           \/ \E p \in Properties : create_off_market(p)
           \/ update_schedule_config \/ Tick \/ UNCHANGED vars
  <2>1. requests' = requests
    BY <1>9 DEF delete_properties, create_off_market, update_schedule_config, Tick, vars
  <2>2. QED
    BY <2>1
<1>10. ASSUME NEW r \in Requests, Step(r) \/ Crash(r)
       PROVE  \/ FlushConsumed(r) \/ RollDispatched(r)
              \/ Quiet(requests'[q])
  <2>1. CASE \E p \in Properties : ReadProperty(r, p) \/ ApplyStatus(r, p)
    BY <1>7, <1>8, <2>1
  <2>2. CASE \/ SendAccepted(r) \/ SameStatus(r) \/ CommitCancelSlot(r)
             \/ CommitDispatched(r) \/ Commit(r)
    BY <1>8, <2>2
  <2>3. CASE Rollback(r)
    BY <1>3, <2>3
  <2> HIDE DEF Quiet
  <2>4. QED
    BY <1>10, <2>1, <2>2, <2>3
       DEF Step, Crash, SlotGone, SendNothing, PropertyGone, ForeignKeyError, DeadlockVictim
<1> HIDE DEF Quiet
<1>11. QED
  BY <1>5, <1>6, <1>9, <1>10 DEF Next, Quiet

\* What a step does to the rows: they stay where they are and whose they are,
\* and one that is skipped was skipped before, or is committed with the
\* inserts of the request that skips it.
LEMMA StepRows ==
  ASSUME IInv, [Next]_vars
  PROVE  \A i \in DOMAIN slots :
           /\ i \in DOMAIN slots' /\ slots'[i].property = slots[i].property
           /\ slots'[i].status = "skipped" =>
                \/ slots[i].status = "skipped"
                \/ \E r \in Requests : /\ Commit(r) /\ requests[r].op = "consume"
                                       /\ i = requests[r].slot
<1> USE DEF IInv, TypeOK
<1> SUFFICES ASSUME NEW i \in DOMAIN slots
             PROVE  /\ i \in DOMAIN slots' /\ slots'[i].property = slots[i].property
                    /\ slots'[i].status = "skipped" =>
                         \/ slots[i].status = "skipped"
                         \/ \E r \in Requests : /\ Commit(r) /\ requests[r].op = "consume"
                                                /\ i = requests[r].slot
  OBVIOUS
<1>1. CASE slots' = slots
  BY <1>1
<1>2. ASSUME NEW r \in Requests, CommitCancelSlot(r) \/ CommitDispatched(r)
      PROVE  /\ i \in DOMAIN slots' /\ slots'[i].property = slots[i].property
             /\ slots'[i].status = "skipped" => slots[i].status = "skipped"
  <2> DEFINE s == requests[r].slot
  <2>1. PICK status \in {"cancelled", "posted"} : slots' = [slots EXCEPT ![s].status = status]
    BY <1>2 DEF CommitCancelSlot, CommitDispatched
  <2>2. QED
    BY <2>1, TableRows DEF SlotRow
<1>3. ASSUME NEW ids \in SUBSET Properties, delete_properties(ids)
      PROVE  /\ i \in DOMAIN slots' /\ slots'[i].property = slots[i].property
             /\ slots'[i].status = "skipped" => slots[i].status = "skipped"
  BY <1>3, TableRows DEF delete_properties, SlotRow
<1>4. ASSUME NEW r \in Requests, Commit(r)
      PROVE  /\ i \in DOMAIN slots' /\ slots'[i].property = slots[i].property
             /\ slots'[i].status = "skipped" =>
                  \/ slots[i].status = "skipped"
                  \/ Commit(r) /\ requests[r].op = "consume" /\ i = requests[r].slot
  BY <1>4, CommitTable DEF StatusWritten
<1>5. ASSUME NEW r \in Requests, Start(r) \/ Step(r) \/ Crash(r)
      PROVE  slots' = slots \/ CommitCancelSlot(r) \/ CommitDispatched(r) \/ Commit(r)
  <2>1. CASE Start(r)
    BY <2>1 DEF Start, mark_posted, skip_slot, cancel_slot, dispatch_now, Load, Become,
                create_available, enqueue_property, Rollback, update_status
  <2>2. CASE Crash(r)
    BY <2>2 DEF Crash, Rollback
  <2>3. CASE Step(r)
    BY <2>3 DEF Step, FlushConsumed, SlotGone, SendAccepted, SendNothing, RollDispatched,
                ReadProperty, ApplyStatus, SameStatus, PropertyGone, ForeignKeyError,
                DeadlockVictim, Become, Rollback, enqueue_property
  <2>4. QED
    BY <1>5, <2>1, <2>2, <2>3
<1>6. CASE \/ \E p \in Properties : create_off_market(p)
           \/ update_schedule_config \/ Tick \/ UNCHANGED vars
  BY <1>1, <1>6 DEF create_off_market, update_schedule_config, Tick, vars
<1>7. QED
  BY <1>1, <1>2, <1>3, <1>4, <1>5, <1>6 DEF Next

\* The commit of a request that has used up a slot adds its inserts behind it.
LEMMA FollowedInductive == IInv /\ Followed /\ [Next]_vars => Followed'
<1> SUFFICES ASSUME IInv, Followed, [Next]_vars
             PROVE  Followed'
  OBVIOUS
<1>1. ASSUME NEW q \in Requests
      PROVE  Carries(requests[q])'
  <2>1. CASE requests'[q] = requests[q]
    <3>1. requests[q].op \in {"consume", "dispatch"} => requests[q].slot \in DOMAIN slots
      BY DEF IInv, WellFormed
    <3>2. QED
      BY <2>1, <3>1, StepRows DEF Followed, Carries
  <2>2. CASE requests'[q] # requests[q]
    BY <2>2, StepCarries DEF Carries
  <2>3. QED
    BY <2>1, <2>2
<1>2. ASSUME NEW i \in DOMAIN slots', slots'[i].status = "skipped"
      PROVE  \E j \in DOMAIN slots' : j > i /\ slots'[j].property = slots'[i].property
  <2>1. CASE i \in DOMAIN slots /\ slots[i].status = "skipped"
    <3>1. PICK j \in DOMAIN slots : j > i /\ slots[j].property = slots[i].property
      BY <2>1 DEF Followed
    <3>2. QED
      BY <2>1, <3>1, StepRows
  <2>2. CASE i \in DOMAIN slots /\ slots[i].status # "skipped"
    <3>1. PICK r \in Requests : Commit(r) /\ requests[r].op = "consume" /\ i = requests[r].slot
      BY <1>2, <2>2, StepRows
    <3>2. requests[r].phase = "flushed"
      BY <3>1 DEF Commit, ReadyToCommit, In, IInv, WellFormed
    <3>3. PICK k \in DOMAIN requests[r].inserts :
            requests[r].inserts[k].property = slots[i].property
      BY <3>1, <3>2 DEF Followed, Carries
    <3> DEFINE j == Len(slots) + k
    <3>4. /\ k \in 1 .. Len(requests[r].inserts) /\ Len(requests[r].inserts) \in Nat
          /\ Len(slots) \in Nat /\ i \in 1 .. Len(slots)
      <4>1. /\ Len(requests[r].inserts) \in Nat
            /\ DOMAIN requests[r].inserts = 1 .. Len(requests[r].inserts)
        BY <3>1, CommitTable
      <4>2. Len(slots) \in Nat /\ DOMAIN slots = 1 .. Len(slots)
        BY TableRows DEF IInv
      <4>3. QED
        BY <2>2, <4>1, <4>2
    <3>5. /\ j \in DOMAIN slots' /\ j \notin DOMAIN slots /\ j > i
          /\ j - Len(slots) = k
      <4>1. DOMAIN slots' = 1 .. Len(slots) + Len(requests[r].inserts)
        BY <3>1, CommitTable
      <4>2. DOMAIN slots = 1 .. Len(slots)
        BY TableRows DEF IInv
      <4>3. j \in 1 .. Len(slots) + Len(requests[r].inserts) /\ j \notin 1 .. Len(slots)
        BY <3>4
      <4>4. j > i /\ j - Len(slots) = k
        BY <3>4
      <4> QED BY <4>1, <4>2, <4>3, <4>4
    <3> HIDE DEF j
    <3>6. slots'[j].property = slots[i].property
      BY <3>1, <3>3, <3>5, CommitTable
    <3>7. QED
      BY <2>2, <3>5, <3>6, StepRows
  <2>3. CASE i \notin DOMAIN slots
    <3>1. CASE DOMAIN slots' = DOMAIN slots
      BY <2>3, <3>1
    <3>2. CASE \E r \in Requests : Commit(r)
      BY <1>2, <2>3, <3>2, CommitTable
    <3>3. QED
      BY <3>1, <3>2, StepShape DEF Shrinks, Adds
  <2>4. QED
    BY <2>1, <2>2, <2>3
<1>3. QED
  BY <1>1, <1>2 DEF Followed

\* Skipping never takes a property out of the rotation: whoever else works on
\* the slot, the last slot of a property is never a skipped one.
THEOREM SkippingRolls == Spec => []SkipRolls
<1>1. Init => Followed
  BY DEF Init, Followed, Carries, NoRequest
<1>2. IInv /\ Followed => SkipRolls
  <2> SUFFICES ASSUME IInv, Followed, NEW p \in Live, SlotsOf(p) # {}
               PROVE  slots[Max(SlotsOf(p))].status # "skipped"
    BY DEF SkipRolls, LastSlot
  <2> DEFINE S == SlotsOf(p)
             T == { Len(slots) - i : i \in S }
  <2>1. S \subseteq 1 .. Len(slots) /\ S \subseteq DOMAIN slots /\ Len(slots) \in Nat
    BY TableRows DEF SlotsOf, IInv
  <2>2. PICK m \in T : \A n \in T : m <= n
    <3> HIDE DEF S
    <3>1. T \in SUBSET Nat /\ T # {}
      BY <2>1 DEF S
    <3>2. QED
      BY <3>1, LeastNatural
  <2>3. PICK x \in S : m = Len(slots) - x
    OBVIOUS
  <2>4. ASSUME NEW y \in S
        PROVE  x >= y
    <3>1. m <= Len(slots) - y
      BY <2>2
    <3>2. x \in Int /\ y \in Int
      BY <2>1
    <3> HIDE DEF S, T
    <3>3. QED
      BY <2>1, <2>3, <3>1, <3>2
  <2>5. Max(S) \in S /\ \A y \in S : Max(S) >= y
    BY <2>4 DEF Max
  <2>6. ASSUME slots[Max(S)].status = "skipped"
        PROVE  FALSE
    <3>1. PICK j \in DOMAIN slots : j > Max(S) /\ slots[j].property = slots[Max(S)].property
      BY <2>1, <2>5, <2>6 DEF Followed
    <3>2. j \in S
      BY <2>5, <3>1 DEF SlotsOf
    <3>3. Max(S) >= j /\ Max(S) \in Int /\ j \in Int
      BY <2>1, <2>5, <3>2
    <3>4. QED
      BY <3>1, <3>3
  <2>7. QED
    BY <2>6
<1>3. QED
  BY <1>1, <1>2, InitInv, NextInv, FollowedInductive, PTL DEF Spec

-----------------------------------------------------------------------------
(* A property on the market keeps a slot.                                  *)

\* A request carries a slot for every property it puts on the market, and
\* cancels no slots but those of the properties it takes off.
Listed(req) ==
  /\ req.target = "available" =>
       \A p \in req.held : \E k \in DOMAIN req.inserts : req.inserts[k].property = p
  /\ \A i \in req.cancels : i \in DOMAIN slots /\ slots[i].property \in req.held

\* Every step keeps it so.
LEMMA StepListed ==
  ASSUME IInv, \A r \in Requests : Listed(requests[r]), [Next]_vars, NEW q \in Requests
  PROVE  Listed(requests[q])'
<1>1. /\ \A r \in Requests : requests[r] \in Request /\ WellFormed(requests[r])
      /\ requests \in [Requests -> Request] /\ now \in Time
      /\ Listed(requests[q])
  BY PostQueueAssumption DEF IInv, TypeOK
<1>2. SUFFICES Listed(requests'[q])
  BY StepRows DEF Listed
<1>3. ASSUME NEW r \in Requests, NEW req, Become(r, req), Listed(req)
      PROVE  Listed(requests'[q])
  <2>1. requests'[q] = req \/ requests'[q] = requests[q]
    BY <1>1, <1>3 DEF Become
  <2>2. QED
    BY <1>1, <1>3, <2>1
<1>4. ASSUME NEW r \in Requests, Rollback(r)
      PROVE  Listed(requests'[q])
  <2>1. Become(r, NoRequest)
    BY <1>4 DEF Rollback, Become
  <2>2. Listed(NoRequest)
    BY DEF Listed, NoRequest
  <2>3. QED
    BY <1>3, <2>1, <2>2
<1>5. ASSUME NEW r \in Requests, NEW req \in Request, NEW p \in Properties, NEW floor \in Time,
             enqueue_property(r, req, p, floor),
             \A i \in req.cancels : i \in DOMAIN slots /\ slots[i].property \in req.held,
             req.target = "available" =>
               \A o \in req.held \ {p} : \E k \in DOMAIN req.inserts : req.inserts[k].property = o
      PROVE  Listed(requests'[q])
  <2>1. ASSUME NEW new, Become(r, new), Enqueued(req, p, new)
        PROVE  Listed(requests'[q])
    <3>1. new.target = req.target /\ new.held = req.held /\ new.cancels = req.cancels
      BY <2>1, EnqueuedSame
    <3> DEFINE n == Len(req.inserts)
    <3>2. /\ n \in Nat /\ DOMAIN req.inserts = 1 .. n /\ DOMAIN new.inserts = 1 .. n + 1
          /\ \A k \in 1 .. n : new.inserts[k] = req.inserts[k]
          /\ new.inserts[n + 1].property = p
      BY <2>1 DEF Enqueued
    <3> HIDE DEF n
    <3>3. n + 1 \in 1 .. n + 1 /\ \A k \in 1 .. n : k \in 1 .. n + 1
      BY <3>2
    <3>4. ASSUME req.target = "available", NEW o \in req.held
          PROVE  \E k \in DOMAIN new.inserts : new.inserts[k].property = o
      <4>1. CASE o = p
        BY <3>2, <3>3, <4>1
      <4>2. CASE o # p
        <5>1. PICK k \in 1 .. n : req.inserts[k].property = o
          BY <1>5, <3>2, <3>4, <4>2
        <5>2. k \in DOMAIN new.inserts /\ new.inserts[k].property = o
          BY <3>2, <3>3, <5>1
        <5>3. QED
          BY <5>2
      <4>3. QED
        BY <4>1, <4>2
    <3>5. Listed(new)
      BY <1>5, <3>1, <3>4 DEF Listed
    <3>6. QED
      BY <1>3, <2>1, <3>5
  <2>2. QED
    BY <1>4, <1>5, <2>1, EnqueueRequest
<1>6. ASSUME NEW r \in Requests, Start(r)
      PROVE  Listed(requests'[q])
  <2>1. CASE \E i \in DOMAIN slots :
               mark_posted(r, i) \/ skip_slot(r, i) \/ cancel_slot(r, i) \/ dispatch_now(r, i)
    <3>1. PICK i, op, target :
            Become(r, [NoRequest EXCEPT !.op = op, !.phase = "loaded", !.slot = i, !.target = target])
      BY <2>1 DEF mark_posted, skip_slot, cancel_slot, dispatch_now, Load
    <3>2. Listed([NoRequest EXCEPT !.op = op, !.phase = "loaded", !.slot = i, !.target = target])
      BY DEF NoRequest, Listed
    <3>3. QED
      BY <1>3, <3>1, <3>2
  <2>2. CASE \E p \in Properties : create_available(r, p)
    <3>1. PICK p \in Properties : create_available(r, p)
      BY <2>2
    <3> DEFINE req == [NoRequest EXCEPT !.op = "create", !.phase = "flushed",
                                        !.held = {p}, !.target = "available"]
    <3>2. req \in Request /\ req.cancels = {} /\ req.held = {p}
      BY NoRequestOK DEF NoRequest, Request, PropertyStatus
    <3>3. enqueue_property(r, req, p, now)
      BY <3>1 DEF create_available
    <3> HIDE DEF req
    <3>4. QED
      BY <1>1, <1>5, <3>2, <3>3
  <2>3. CASE \E ids \in SUBSET Live, status \in PropertyStatus : update_status(r, ids, status)
    <3>1. PICK ids, status :
            Become(r, [NoRequest EXCEPT !.op = "status", !.phase = "loop", !.todo = ids, !.target = status])
      BY <2>3 DEF update_status
    <3>2. Listed([NoRequest EXCEPT !.op = "status", !.phase = "loop", !.todo = ids, !.target = status])
      BY DEF NoRequest, Listed
    <3>3. QED
      BY <1>3, <3>1, <3>2
  <2>4. QED
    BY <1>6, <2>1, <2>2, <2>3 DEF Start
<1>7. ASSUME NEW r \in Requests, FlushConsumed(r) \/ RollDispatched(r)
      PROVE  Listed(requests'[q])
  <2> DEFINE i == requests[r].slot
             req == [requests[r] EXCEPT !.phase = "flushed"]
  <2>1. /\ requests[r] \in Request /\ i \in DOMAIN slots
        /\ requests[r].held = {} /\ requests[r].cancels = {}
    BY <1>1, <1>7 DEF FlushConsumed, RollDispatched, WellFormed, In
  <2>2. slots[i].property \in Properties /\ slots[i].at \in Time
    BY <2>1, TableRows DEF IInv
  <2>3. req \in Request /\ req.held = {} /\ req.cancels = {}
    BY <2>1 DEF Request
  <2>4. enqueue_property(r, req, slots[i].property, slots[i].at)
    BY <1>7 DEF FlushConsumed, RollDispatched
  <2> HIDE DEF i, req
  <2>5. QED
    BY <1>5, <2>2, <2>3, <2>4
<1>8. ASSUME NEW r \in Requests, NEW p \in Properties, ApplyStatus(r, p)
      PROVE  Listed(requests'[q])
  <2> DEFINE req  == requests[r]
             next == [req EXCEPT !.phase = "loop", !.cur = {}, !.was = "absent",
                                 !.held = @ \cup {p}]
  <2>1. /\ req \in Request /\ Listed(req) /\ req.was # req.target
        /\ next \in Request /\ next.held = req.held \cup {p} /\ next.cancels = req.cancels
        /\ next.target = req.target /\ next.inserts = req.inserts
    BY <1>1, <1>8 DEF Request, PropertyRow, ApplyStatus
  <2>2. CASE req.was = "available"
    <3> DEFINE mine == { i \in SeenPending(req) : slots[i].property = p }
               last == [next EXCEPT !.cancels = req.cancels \cup mine]
    <3>1. Become(r, last)
      BY <1>8, <2>2 DEF ApplyStatus
    <3>2. \A i \in mine : i \in DOMAIN slots /\ slots[i].property = p
      BY DEF SeenPending, Pending
    <3>3. /\ last.held = req.held \cup {p} /\ last.cancels = req.cancels \cup mine
          /\ last.target = req.target
      BY <2>1 DEF Request
    <3> HIDE DEF mine, last, next
    <3>4. Listed(last)
      BY <2>1, <2>2, <3>2, <3>3 DEF Listed
    <3>5. QED
      BY <1>3, <3>1, <3>4
  <2>3. CASE enqueue_property(r, next, p, now)
    <3> HIDE DEF next
    <3>1. /\ \A i \in next.cancels : i \in DOMAIN slots /\ slots[i].property \in next.held
          /\ next.target = "available" =>
               \A o \in next.held \ {p} : \E k \in DOMAIN next.inserts : next.inserts[k].property = o
      BY <2>1 DEF Listed
    <3>2. QED
      BY <1>1, <1>5, <2>1, <2>3, <3>1
  <2>4. CASE Become(r, next) /\ req.target # "available"
    <3> HIDE DEF next
    <3>1. Listed(next)
      BY <2>1, <2>4 DEF Listed
    <3>2. QED
      BY <1>3, <2>4, <3>1
  <2>5. QED
    BY <1>8, <2>2, <2>3, <2>4 DEF ApplyStatus
<1>9. ASSUME NEW r \in Requests,
             \/ SendAccepted(r) \/ SameStatus(r) \/ \E p \in Properties : ReadProperty(r, p)
      PROVE  Listed(requests'[q])
  <2>1. PICK phase, todo, cur, was :
          Become(r, [requests[r] EXCEPT !.phase = phase, !.todo = todo, !.cur = cur, !.was = was])
    <3>1. requests[r] \in Request
      BY <1>1
    <3>2. CASE SendAccepted(r)
      <4>1. [requests[r] EXCEPT !.phase = "sent"]
              = [requests[r] EXCEPT !.phase = "sent", !.todo = requests[r].todo,
                                    !.cur = requests[r].cur, !.was = requests[r].was]
        BY <3>1 DEF Request
      <4>2. Become(r, [requests[r] EXCEPT !.phase = "sent", !.todo = requests[r].todo,
                                          !.cur = requests[r].cur, !.was = requests[r].was])
        BY <3>2, <4>1 DEF SendAccepted
      <4>3. QED
        BY <4>2
    <3>3. CASE SameStatus(r)
      <4>1. [requests[r] EXCEPT !.phase = "loop", !.cur = {}, !.was = "absent"]
              = [requests[r] EXCEPT !.phase = "loop", !.todo = requests[r].todo,
                                    !.cur = {}, !.was = "absent"]
        BY <3>1 DEF Request
      <4>2. QED
        BY <3>3, <4>1 DEF SameStatus
    <3>4. ASSUME NEW p \in Properties, ReadProperty(r, p)
          PROVE  \E phase, todo, cur, was :
                   Become(r, [requests[r] EXCEPT !.phase = phase, !.todo = todo,
                                                 !.cur = cur, !.was = was])
      <4> DEFINE live == p \in Live
                 req(phase, todo, cur, was) ==
                   [requests[r] EXCEPT !.phase = phase, !.todo = todo, !.cur = cur, !.was = was]
      <4>1. Become(r, [requests[r] EXCEPT !.todo = @ \ {p},
                                          !.phase = IF live THEN "read" ELSE "loop",
                                          !.cur = IF live THEN {p} ELSE {},
                                          !.was = IF live THEN property[p] ELSE "absent"])
        BY <3>4 DEF ReadProperty
      <4>2. [requests[r] EXCEPT !.todo = @ \ {p},
                                !.phase = IF live THEN "read" ELSE "loop",
                                !.cur = IF live THEN {p} ELSE {},
                                !.was = IF live THEN property[p] ELSE "absent"]
              = req(IF live THEN "read" ELSE "loop", requests[r].todo \ {p},
                    IF live THEN {p} ELSE {}, IF live THEN property[p] ELSE "absent")
        BY <3>1 DEF Request
      <4> HIDE DEF live
      <4>3. QED
        BY <4>1, <4>2
    <3>5. QED
      BY <1>9, <3>2, <3>3, <3>4
  <2> DEFINE req == [requests[r] EXCEPT !.phase = phase, !.todo = todo, !.cur = cur, !.was = was]
  <2>2. /\ req.target = requests[r].target /\ req.held = requests[r].held
        /\ req.cancels = requests[r].cancels /\ req.inserts = requests[r].inserts
    BY <1>1 DEF Request
  <2> HIDE DEF req
  <2>3. Listed(req)
    BY <2>2 DEF Listed
  <2>4. QED
    BY <1>3, <2>1, <2>3 DEF req
<1>10. ASSUME NEW r \in Requests, CommitCancelSlot(r) \/ CommitDispatched(r) \/ Commit(r)
       PROVE  Listed(requests'[q])
  <2>1. \/ requests' = [requests EXCEPT ![r] = NoRequest]
        \/ requests' = [requests EXCEPT ![r].phase = "posted"]
    BY <1>10 DEF CommitCancelSlot, CommitDispatched, Commit
  <2>2. \/ requests'[q] = requests[q] \/ requests'[q] = NoRequest
        \/ requests'[q] = [requests[q] EXCEPT !.phase = "posted"]
    BY <1>1, <2>1
  <2>3. Listed(NoRequest) /\ Listed([requests[q] EXCEPT !.phase = "posted"])
    BY <1>1 DEF Listed, NoRequest, Request
  <2>4. QED
    BY <1>1, <2>2, <2>3
<1>11. CASE \/ \E ids \in SUBSET Properties : delete_properties(ids)
            \/ \E p \in Properties : create_off_market(p)
            \/ update_schedule_config \/ Tick \/ UNCHANGED vars
  <2>1. requests' = requests
    BY <1>11 DEF delete_properties, create_off_market, update_schedule_config, Tick, vars
  <2>2. QED
    BY <1>1, <2>1
<1>12. ASSUME NEW r \in Requests, Step(r) \/ Crash(r)
       PROVE  Listed(requests'[q])
  <2>1. CASE Rollback(r)
    BY <1>4, <2>1
  <2>2. CASE \E p \in Properties : ReadProperty(r, p) \/ ApplyStatus(r, p)
    BY <1>8, <1>9, <2>2
  <2>3. QED
    BY <1>7, <1>9, <1>10, <1>12, <2>1, <2>2
       DEF Step, Crash, SlotGone, SendNothing, PropertyGone, ForeignKeyError, DeadlockVictim
<1>13. QED
  BY <1>6, <1>11, <1>12 DEF Next

\* A roll that has begun goes on about the same slot, or ends.
LEMMA RollGoesOn ==
  ASSUME IInv, [Next]_vars, NEW r \in Requests,
         requests[r].op = "dispatch", requests[r].phase \in {"posted", "flushed"}
  PROVE  \/ requests'[r] = NoRequest
         \/ /\ requests'[r].op = "dispatch" /\ requests'[r].phase \in {"posted", "flushed"}
            /\ requests'[r].slot = requests[r].slot
<1>1. requests[r] \in Request /\ WellFormed(requests[r]) /\ requests \in [Requests -> Request]
  BY DEF IInv, TypeOK
<1>2. ASSUME NEW s \in Requests, Start(s) \/ Step(s) \/ Crash(s)
      PROVE  s = r \/ requests'[r] = requests[r]
  <2>1. s # r => requests'[r] = requests[r]
    <3>1. CASE Start(s)
      BY <1>1, <3>1 DEF Start, mark_posted, skip_slot, cancel_slot, dispatch_now, Load, Become,
                create_available, enqueue_property, Rollback, update_status
    <3>2. CASE Step(s)
      BY <1>1, <3>2
         DEF Step, FlushConsumed, CommitCancelSlot, SlotGone, SendAccepted, SendNothing,
             CommitDispatched, RollDispatched, ReadProperty, ApplyStatus, SameStatus,
             PropertyGone, Commit, ForeignKeyError, DeadlockVictim, Become, Rollback,
             enqueue_property
    <3>3. CASE Crash(s)
      BY <1>1, <3>3 DEF Crash, Rollback
    <3>4. QED
      BY <1>2, <3>1, <3>2, <3>3
  <2>2. QED
    BY <2>1
<1>3. CASE Rollback(r)
  BY <1>1, <1>3 DEF Rollback
<1>4. CASE RollDispatched(r)
  <2> DEFINE i == requests[r].slot
             req == [requests[r] EXCEPT !.phase = "flushed"]
  <2>1. i \in DOMAIN slots /\ slots[i].property \in Properties /\ slots[i].at \in Time
    BY <1>1, TableRows DEF WellFormed, IInv
  <2>2. req \in Request /\ req.op = "dispatch" /\ req.phase = "flushed" /\ req.slot = i
    BY <1>1 DEF Request
  <2>3. enqueue_property(r, req, slots[i].property, slots[i].at)
    BY <1>4 DEF RollDispatched
  <2> HIDE DEF i, req
  <2>4. ASSUME NEW new, Become(r, new), Enqueued(req, slots[i].property, new)
        PROVE  /\ requests'[r].op = "dispatch" /\ requests'[r].phase = "flushed"
               /\ requests'[r].slot = i
    <3>1. new.op = req.op /\ new.phase = req.phase /\ new.slot = req.slot
      BY <2>2, <2>4, EnqueuedSame
    <3>2. requests'[r] = new
      BY <1>1, <2>4 DEF Become
    <3>3. QED
      BY <2>2, <3>1, <3>2
  <2>5. QED
    BY <1>3, <2>1, <2>2, <2>3, <2>4, EnqueueRequest DEF i
<1>5. CASE Commit(r)
  BY <1>1, <1>5 DEF Commit
<1>6. CASE Start(r)
  BY <1>6 DEF Start, mark_posted, skip_slot, cancel_slot, dispatch_now, Load,
              create_available, update_status, Idle, In
<1>7. CASE Step(r) \/ Crash(r)
  BY <1>1, <1>3, <1>4, <1>5, <1>7
     DEF Step, Crash, FlushConsumed, CommitCancelSlot, SlotGone, SendAccepted, SendNothing,
         CommitDispatched, ReadProperty, ApplyStatus, SameStatus, PropertyGone,
         ForeignKeyError, DeadlockVictim, In, WellFormed
<1>8. CASE \/ \E ids \in SUBSET Properties : delete_properties(ids)
           \/ \E p \in Properties : create_off_market(p)
           \/ update_schedule_config \/ Tick \/ UNCHANGED vars
  <2>1. requests' = requests
    BY <1>8 DEF delete_properties, create_off_market, update_schedule_config, Tick, vars
  <2>2. QED
    BY <2>1
<1>9. ASSUME requests'[r] = requests[r]
      PROVE  /\ requests'[r].op = "dispatch" /\ requests'[r].phase \in {"posted", "flushed"}
             /\ requests'[r].slot = requests[r].slot
  BY <1>9
<1>10. QED
  BY <1>2, <1>6, <1>7, <1>8, <1>9 DEF Next

\* What a commit adds is pending.
LEMMA InsertIsPending ==
  ASSUME IInv, NEW r \in Requests, Commit(r), NEW k \in DOMAIN requests[r].inserts,
         NEW p, requests[r].inserts[k].property = p
  PROVE  (SlotsOf(p) \cap Pending)' # {}
<1> DEFINE j == Len(slots) + k
<1>1. /\ Len(requests[r].inserts) \in Nat
      /\ DOMAIN requests[r].inserts = 1 .. Len(requests[r].inserts)
      /\ DOMAIN slots' = 1 .. Len(slots) + Len(requests[r].inserts)
  BY CommitTable
<1>2. Len(slots) \in Nat /\ DOMAIN slots = 1 .. Len(slots)
  BY TableRows DEF IInv
<1>3. j \in DOMAIN slots' /\ j \notin DOMAIN slots /\ j - Len(slots) = k
  BY <1>1, <1>2
<1> HIDE DEF j
<1>4. slots'[j].status = "pending" /\ slots'[j].property = p
  BY <1>3, CommitTable
<1>5. QED
  BY <1>3, <1>4 DEF SlotsOf, Pending

\* How a pending slot ceases to be one.
LEMMA PendingEnds ==
  ASSUME IInv, [Next]_vars, NEW i \in DOMAIN slots,
         slots[i].status = "pending", slots'[i].status # "pending"
  PROVE  \/ \E r \in Requests : /\ CommitCancelSlot(r) \/ CommitDispatched(r) \/ Commit(r)
                                /\ ~ Commit(r) => requests[r].slot = i
         \/ \E ids \in SUBSET Properties : delete_properties(ids) /\ slots[i].property \in ids
<1>1. slots' # slots
  OBVIOUS
<1>2. ASSUME NEW r \in Requests, CommitCancelSlot(r) \/ CommitDispatched(r)
      PROVE  requests[r].slot = i
  <2>1. PICK status : slots' = [slots EXCEPT ![requests[r].slot].status = status]
    BY <1>2 DEF CommitCancelSlot, CommitDispatched
  <2>2. QED
    BY <2>1, TableRows DEF IInv
<1>3. ASSUME NEW ids \in SUBSET Properties, delete_properties(ids)
      PROVE  slots[i].property \in ids
  BY <1>3, TableRows DEF delete_properties, SlotRow, IInv
<1>4. ASSUME NEW r \in Requests, Start(r) \/ Step(r) \/ Crash(r)
      PROVE  CommitCancelSlot(r) \/ CommitDispatched(r) \/ Commit(r)
  <2>1. CASE Start(r)
    BY <1>1, <2>1 DEF Start, mark_posted, skip_slot, cancel_slot, dispatch_now, Load, Become,
                create_available, enqueue_property, Rollback, update_status
  <2>2. CASE Crash(r)
    BY <1>1, <2>2 DEF Crash, Rollback
  <2>3. CASE Step(r)
    BY <1>1, <2>3 DEF Step, FlushConsumed, SlotGone, SendAccepted, SendNothing, RollDispatched,
                ReadProperty, ApplyStatus, SameStatus, PropertyGone, ForeignKeyError,
                DeadlockVictim, Become, Rollback, enqueue_property
  <2>4. QED
    BY <1>4, <2>1, <2>2, <2>3
<1>5. CASE \/ \E p \in Properties : create_off_market(p)
           \/ update_schedule_config \/ Tick \/ UNCHANGED vars
  BY <1>1, <1>5 DEF create_off_market, update_schedule_config, Tick, vars
<1>6. QED
  BY <1>2, <1>3, <1>4, <1>5 DEF Next

\* How a property comes to be on the market.
LEMMA ComesOnMarket ==
  ASSUME IInv, [Next]_vars, NEW p \in Properties,
         property[p] # "available", property'[p] = "available"
  PROVE  \E r \in Requests : /\ Commit(r)
                             /\ p \in requests[r].held /\ requests[r].target = "available"
<1>1. property' # property /\ property \in [Properties -> PropertyRow]
  BY DEF IInv, TypeOK
<1>2. ASSUME NEW ids \in SUBSET Properties, delete_properties(ids)
      PROVE  FALSE
  BY <1>2 DEF delete_properties
<1>3. ASSUME NEW q \in Properties, create_off_market(q)
      PROVE  FALSE
  BY <1>1, <1>3 DEF create_off_market
<1>4. ASSUME NEW r \in Requests, Start(r) \/ Step(r) \/ Crash(r)
      PROVE  Commit(r)
  <2>1. CASE Start(r)
    BY <1>1, <2>1 DEF Start, mark_posted, skip_slot, cancel_slot, dispatch_now, Load, Become,
                create_available, enqueue_property, Rollback, update_status
  <2>2. CASE Crash(r)
    BY <1>1, <2>2 DEF Crash, Rollback
  <2>3. CASE Step(r)
    BY <1>1, <2>3 DEF Step, FlushConsumed, CommitCancelSlot, SlotGone, SendAccepted, SendNothing,
                CommitDispatched, RollDispatched, ReadProperty, ApplyStatus, SameStatus,
                PropertyGone, ForeignKeyError, DeadlockVictim, Become, Rollback, enqueue_property
  <2>4. QED
    BY <1>4, <2>1, <2>2, <2>3
<1>5. CASE update_schedule_config \/ Tick \/ UNCHANGED vars
  BY <1>1, <1>5 DEF update_schedule_config, Tick, vars
<1>6. PICK r \in Requests : Commit(r)
  BY <1>2, <1>3, <1>4, <1>5 DEF Next
<1>7. p \in requests[r].held /\ requests[r].target = "available"
  BY <1>6 DEF Commit
<1>8. QED
  BY <1>6, <1>7

\* What the requests in flight carry for the properties they move.
Carried == Followed /\ \A r \in Requests : Listed(requests[r])

\* A property that loses its last slot, with no roll under way, loses it to a
\* request that ends in this step: one that cancels it by hand, or that has
\* dispatched it and fails to roll it.
LEMMA LastSlotLost ==
  ASSUME IInv, Carried, [Next]_vars, NEW p \in Properties, ~ Dropped(p), Dropped(p)'
  PROVE  \E r \in Requests : EndsHere(r, p)
<1>1. \A i \in DOMAIN slots : i \in DOMAIN slots' /\ slots'[i].property = slots[i].property
  BY StepRows
<1>2. \A r \in Requests : requests[r] \in Request /\ WellFormed(requests[r])
  BY DEF IInv, TypeOK
<1>3. property'[p] = "available" /\ (SlotsOf(p) \cap Pending)' = {} /\ ~ Rolling(p)'
  BY DEF Dropped
<1>4. CASE Rolling(p)
  <2>1. PICK r \in Requests : /\ requests[r].op = "dispatch"
                              /\ requests[r].phase \in {"posted", "flushed"}
                              /\ slots[requests[r].slot].property = p
    BY <1>4 DEF Rolling, In
  <2>2. requests[r].slot \in DOMAIN slots
    BY <1>2, <2>1 DEF WellFormed
  <2>3. requests'[r] = NoRequest
    BY <1>1, <1>3, <2>1, <2>2, RollGoesOn DEF Rolling, In
  <2>4. QED
    BY <2>1, <2>3 DEF EndsHere
<1>5. CASE property[p] # "available"
  <2>1. PICK r \in Requests : /\ Commit(r)
                              /\ p \in requests[r].held /\ requests[r].target = "available"
    BY <1>3, <1>5, ComesOnMarket
  <2>2. PICK k \in DOMAIN requests[r].inserts : requests[r].inserts[k].property = p
    BY <2>1 DEF Carried, Listed
  <2>3. QED
    BY <1>3, <2>1, <2>2, InsertIsPending
<1>6. CASE property[p] = "available" /\ ~ Rolling(p)
  <2>1. PICK i \in DOMAIN slots : slots[i].status = "pending" /\ slots[i].property = p
    BY <1>6 DEF Dropped, SlotsOf, Pending
  <2>2. slots'[i].status # "pending"
    BY <1>1, <1>3, <2>1 DEF SlotsOf, Pending
  <2>3. ASSUME NEW ids \in SUBSET Properties, delete_properties(ids), p \in ids
        PROVE  FALSE
    BY <1>3, <2>3 DEF delete_properties
  <2>4. ASSUME NEW r \in Requests, Commit(r)
        PROVE  FALSE
    <3>1. StatusWritten(requests[r], i) # "pending"
      BY <2>1, <2>2, <2>4, CommitTable
    <3>2. CASE i \in requests[r].cancels
      <4>1. p \in requests[r].held /\ requests[r].target # "available"
        BY <1>2, <2>1, <3>2 DEF Carried, Listed, WellFormed
      <4>2. property'[p] = requests[r].target
        BY <2>4, <4>1 DEF Commit
      <4>3. QED
        BY <1>3, <4>1, <4>2
    <3>3. CASE requests[r].op = "consume" /\ i = requests[r].slot
      <4>1. requests[r].phase = "flushed"
        BY <1>2, <2>4, <3>3 DEF Commit, ReadyToCommit, In, WellFormed
      <4>2. PICK k \in DOMAIN requests[r].inserts : requests[r].inserts[k].property = p
        BY <2>1, <3>3, <4>1 DEF Carried, Followed, Carries
      <4>3. QED
        BY <1>3, <2>4, <4>2, InsertIsPending
    <3>4. QED
      BY <2>1, <3>1, <3>2, <3>3 DEF StatusWritten
  <2>5. ASSUME NEW r \in Requests, CommitDispatched(r), requests[r].slot = i
        PROVE  FALSE
    <3>1. requests'[r].op = "dispatch" /\ requests'[r].phase = "posted" /\ requests'[r].slot = i
      BY <1>2, <2>5 DEF CommitDispatched, In, WellFormed, IInv, TypeOK, Request
    <3>2. Rolling(p)'
      BY <1>1, <2>1, <3>1 DEF Rolling, In
    <3>3. QED
      BY <1>3, <3>2
  <2>6. ASSUME NEW r \in Requests, CommitCancelSlot(r), requests[r].slot = i
        PROVE  EndsHere(r, p)
    BY <2>1, <2>6 DEF CommitCancelSlot, EndsHere, IInv, TypeOK
  <2>7. QED
    BY <2>1, <2>2, <2>3, <2>4, <2>5, <2>6, PendingEnds
<1>7. QED
  BY <1>4, <1>5, <1>6

\* However the requests are interleaved, refused or stopped, a property on the
\* market is left without a slot only by a cancellation by hand or by the
\* failed roll of a dispatched slot.
THEOREM NothingFallsOut == Spec => StaysInRotation
<1>1. Init => Carried
  BY DEF Init, Carried, Followed, Carries, Listed, NoRequest
<1>2. IInv /\ Carried /\ [Next]_vars => Carried'
  <2> SUFFICES ASSUME IInv, Carried, [Next]_vars
               PROVE  Carried'
    OBVIOUS
  <2>1. Followed'
    BY FollowedInductive DEF Carried
  <2>2. \A q \in Requests : Listed(requests[q])'
    BY StepListed DEF Carried
  <2>3. QED
    BY <2>1, <2>2 DEF Carried
<1>3. IInv /\ Carried /\ [Next]_vars
        => [\A p \in Properties :
              ~ Dropped(p) /\ Dropped(p)' => \E r \in Requests : EndsHere(r, p)]_vars
  BY LastSlotLost
<1>4. QED
  BY <1>1, <1>2, <1>3, InitInv, NextInv, PTL DEF Spec, StaysInRotation

-----------------------------------------------------------------------------
(* The requests taken one at a time.                                       *)

\* The pending slots of a property.
PendingOf(p) == { i \in Pending : slots[i].property = p }

\* The one insert of a request, for property p.
OneInsert(req, p) ==
  Len(req.inserts) = 1 /\ DOMAIN req.inserts = {1} /\ req.inserts[1].property = p

NoInserts(req) == DOMAIN req.inserts = {}

\* The phases a request of every kind goes through.
InPhase(req) ==
  /\ req.op \in {"none", "consume", "dispatch", "cancel", "create", "status"}
  /\ req.op = "none" => req.phase = "idle"
  /\ req.op = "consume" => req.phase \in {"loaded", "flushed"}
  /\ req.op = "cancel" => req.phase = "loaded"
  /\ req.op = "dispatch" => req.phase \in {"loaded", "sent", "posted", "flushed"}
  /\ req.op = "create" => req.phase = "flushed"
  /\ req.op = "status" => req.phase \in {"loop", "read"}

\* mark_posted and skip_slot: nobody else has touched the slot, or its
\* property was deleted before the flush.
ConsumeSerial(req) ==
  /\ req.phase = "loaded" => slots[req.slot].status \in {"pending", "deleted"} /\ NoInserts(req)
  /\ req.phase = "flushed" => /\ slots[req.slot].status = "pending"
                              /\ OneInsert(req, slots[req.slot].property)

\* dispatch_now: between its two transactions the property has no slot.
DispatchSerial(req) ==
  LET p == slots[req.slot].property
  IN  /\ slots[req.slot].status # "deleted" =>
           IF req.phase \in {"loaded", "sent"}
           THEN slots[req.slot].status = "pending"
           ELSE property[p] = "available" /\ PendingOf(p) = {}
      /\ IF req.phase = "flushed" THEN OneInsert(req, p) ELSE NoInserts(req)

CreateSerial(req) ==
  \E q \in Properties : /\ req.held = {q} /\ property[q] = "absent"
                        /\ OneInsert(req, q) /\ req.target = "available"

\* update_property and bulk_update_status: what is put on the market gets one
\* slot each, what leaves it loses all it has.
StatusSerial(req) ==
  /\ req.held \subseteq Live
  /\ req.held \cap (req.todo \cup req.cur) = {} /\ req.todo \cap req.cur = {}
  /\ req.phase = "loop" => req.cur = {}
  /\ \A q \in req.cur : property[q] \in {req.was, "deleted"} /\ req.was \in PropertyStatus
  /\ \A q \in req.held : property[q] # req.target
  /\ IF req.target = "available"
     THEN /\ \A k \in DOMAIN req.inserts : req.inserts[k].property \in req.held
          /\ \A k, l \in DOMAIN req.inserts :
               req.inserts[k].property = req.inserts[l].property => k = l
          /\ \A q \in req.held : \E k \in DOMAIN req.inserts : req.inserts[k].property = q
     ELSE NoInserts(req) /\ req.cancels = { i \in Pending : slots[i].property \in req.held }

Serial(req) ==
  /\ InPhase(req)
  /\ req.op = "consume" => ConsumeSerial(req)
  /\ req.op = "dispatch" => DispatchSerial(req)
  /\ req.op = "create" => CreateSerial(req)
  /\ req.op = "status" => StatusSerial(req)

\* A slot that was deleted went with its property.
DeletedTogether ==
  \A i \in DOMAIN slots : slots[i].status = "deleted" => property[slots[i].property] = "deleted"

SerialInv ==
  /\ IInv
  /\ OnePendingWhileAvailable
  /\ DeletedTogether
  /\ \A r \in Requests : Serial(requests[r])

\* A property is between two places: its dispatched slot is not rolled yet, or
\* its cancellation by hand not done.
OnItsWay(req) ==
  req.op = "cancel" \/ (req.op = "dispatch" /\ req.phase \in {"posted", "flushed"})

\* What every step is to keep, besides IInv.
SerialNext ==
  /\ OnePendingWhileAvailable'
  /\ DeletedTogether'
  /\ \A q \in Requests : Serial(requests[q])'

\* The empty request fits every state.
LEMMA NoRequestSerial == Serial(NoRequest) /\ ~ OnItsWay(NoRequest)
BY DEF Serial, InPhase, OnItsWay, NoRequest

\* Where a property stands, case by case.
Placed ==
  /\ place = [p \in Properties |-> place[p]]
  /\ \A p \in Properties :
       /\ property[p] \in {"absent", "deleted"} => place[p] = property[p]
       /\ property[p] \in {"rented", "sold"} => place[p] = "off"
       /\ property[p] = "available" /\ Rolling(p) => place[p] = "rolling"
       /\ property[p] = "available" /\ ~ Rolling(p) /\ PendingOf(p) = {} => place[p] = "dropped"
       /\ property[p] = "available" /\ ~ Rolling(p) /\ PendingOf(p) # {}
            => place[p] = IF Cancelling(p) THEN "cancelling" ELSE "queued"

\* The refinement mapping, in every state.
LEMMA PlaceIs == Placed
<1>1. \A p : SlotsOf(p) \cap Pending = PendingOf(p)
  BY DEF SlotsOf, PendingOf, Pending
<1>2. QED
  BY <1>1 DEF place, Placed

\* The refinement mapping, after a step.
LEMMA PlaceIsNext == Placed'
BY PlaceIs, PTL

\* A property stays where it is when nothing its place depends on changes.
LEMMA SamePlace ==
  ASSUME NEW q \in Properties, property[q] \in PropertyRow, property'[q] = property[q],
         PendingOf(q)' = PendingOf(q),
         Rolling(q)' <=> Rolling(q), Cancelling(q)' <=> Cancelling(q)
  PROVE  place'[q] = place[q]
BY PlaceIs, PlaceIsNext DEF Placed, PropertyRow, PropertyStatus

\* Nobody is moved.
LEMMA NobodyMoves ==
  ASSUME \A q \in Properties : place'[q] = place[q]
  PROVE  place' = place
BY PlaceIs, PlaceIsNext DEF Placed

\* One property is moved.
LEMMA OneMoves ==
  ASSUME NEW p \in Properties, NEW from, place[p] = from,
         \A q \in Properties : q # p => place'[q] = place[q]
  PROVE  p \in Abstract!At({from}) /\ Abstract!Move({p}, place'[p])
<1>1. place' = [q \in Properties |-> IF q \in {p} THEN place'[p] ELSE place[q]]
  BY PlaceIsNext DEF Placed
<1>2. QED
  BY <1>1 DEF Abstract!At, Abstract!Move

\* A request on its own that changes only what it knows.
LEMMA BecomeSerial ==
  ASSUME SerialInv, NEW r, Requests = {r}, NEW req, Become(r, req), Serial(req)
  PROVE  /\ SerialNext
         /\ UNCHANGED <<property, slots>>
         /\ requests'[r] = req
         /\ \A p : PendingOf(p)' = PendingOf(p)
<1>1. /\ UNCHANGED <<property, slots>>
      /\ requests'[r] = req
      /\ \A q \in Requests : q = r
  BY DEF Become, SerialInv, IInv, TypeOK
<1>2. Pending' = Pending /\ Live' = Live /\ \A p : PendingOf(p)' = PendingOf(p)
  BY <1>1 DEF Pending, Live, PendingOf
<1>3. OnePendingWhileAvailable' /\ DeletedTogether'
  BY <1>1, <1>2 DEF SerialInv, OnePendingWhileAvailable, DeletedTogether
<1>4. Serial(requests[r])'
  <2>1. InPhase(requests'[r])
    BY <1>1 DEF Serial
  <2>2. req.op = "consume" => ConsumeSerial(requests[r])'
    BY <1>1 DEF Serial, ConsumeSerial
  <2>3. req.op = "dispatch" => DispatchSerial(requests[r])'
    BY <1>1, <1>2 DEF Serial, DispatchSerial
  <2>4. req.op = "create" => CreateSerial(requests[r])'
    BY <1>1 DEF Serial, CreateSerial
  <2>5. req.op = "status" => StatusSerial(requests[r])'
    BY <1>1, <1>2 DEF Serial, StatusSerial
  <2>6. QED
    BY <1>1, <2>1, <2>2, <2>3, <2>4, <2>5 DEF Serial
<1>5. QED
  BY <1>1, <1>2, <1>3, <1>4 DEF SerialNext

\* What is known of the request that takes a step on its own.
LEMMA SerialRequest ==
  ASSUME SerialInv, NEW r, Requests = {r}
  PROVE  /\ requests[r] \in Request /\ WellFormed(requests[r]) /\ Serial(requests[r])
         /\ now \in Time
         /\ \A q \in Properties : property[q] \in PropertyRow
BY PostQueueAssumption DEF SerialInv, IInv, TypeOK

\* Between two places before and after, or neither before nor after: no
\* property moves.
LEMMA QuietSerial ==
  ASSUME SerialInv, NEW r, Requests = {r}, NEW req, Become(r, req), Serial(req),
         OnItsWay(req) <=> OnItsWay(requests[r]),
         OnItsWay(req) => req.slot = requests[r].slot /\ req.op = requests[r].op
  PROVE  SerialNext /\ place' = place
<1>1. /\ UNCHANGED <<property, slots>> /\ requests'[r] = req
      /\ SerialNext /\ \A p : PendingOf(p)' = PendingOf(p)
  BY BecomeSerial
<1>2. InPhase(req) /\ InPhase(requests[r])
  BY SerialRequest DEF Serial
<1>3. \A p : (Rolling(p)' <=> Rolling(p)) /\ (Cancelling(p)' <=> Cancelling(p))
  BY <1>1, <1>2 DEF Rolling, Cancelling, In, OnItsWay, InPhase
<1>4. \A q \in Properties : place'[q] = place[q]
  BY <1>1, <1>3, SamePlace, SerialRequest
<1>5. QED
  BY <1>1, <1>4, NobodyMoves

\* A request on its own that fails: the property of a slot already dispatched
\* drops out of the rotation, one that was to be cancelled stays in it, nothing
\* else happens to anyone.
LEMMA RollbackSerial ==
  ASSUME SerialInv, NEW r, Requests = {r}, Rollback(r)
  PROVE  SerialNext /\ (place' = place \/ Abstract!Drop \/ Abstract!Stay)
<1> DEFINE req == requests[r]
<1>1. Become(r, NoRequest)
  BY DEF Rollback, Become
<1>2. CASE ~ OnItsWay(req)
  BY <1>1, <1>2, NoRequestSerial, QuietSerial
<1>3. CASE OnItsWay(req)
  <2>1. /\ UNCHANGED <<property, slots>> /\ requests'[r] = NoRequest
        /\ SerialNext /\ \A q : PendingOf(q)' = PendingOf(q)
    BY <1>1, NoRequestSerial, BecomeSerial
  <2>2. /\ req.op \in {"cancel", "dispatch"} /\ req.slot \in DOMAIN slots
        /\ req.op = "dispatch" => req.phase \in {"posted", "flushed"}
    BY <1>3, SerialRequest DEF OnItsWay, WellFormed
  <2>3. PICK p \in Properties : p = slots[req.slot].property
    BY <2>2, TableRows DEF SerialInv, IInv
  <2>4. \A q : ~ Rolling(q)' /\ ~ Cancelling(q)'
    BY <2>1 DEF Rolling, Cancelling, In, NoRequest
  <2>5. \A q : /\ Rolling(q) <=> req.op = "dispatch" /\ q = p
               /\ Cancelling(q) <=> req.op = "cancel" /\ q = p
    BY <2>2, <2>3 DEF Rolling, Cancelling, In
  <2>6. \A q \in Properties : q # p => place'[q] = place[q]
    BY <2>1, <2>4, <2>5, SamePlace, SerialRequest
  <2>7. property[p] \in PropertyRow /\ property'[p] = property[p] /\ PendingOf(p)' = PendingOf(p)
    BY <2>1, <2>3, SerialRequest
  <2>8. property[p] # "available" => place'[p] = place[p]
    BY <2>3, <2>7, PlaceIs, PlaceIsNext DEF Placed, PropertyRow, PropertyStatus
  <2> HIDE DEF req
  <2>9. CASE place'[p] = place[p]
    BY <2>1, <2>6, <2>9, NobodyMoves
  <2>10. CASE req.op = "dispatch" /\ place'[p] # place[p]
    <3>1. property[p] = "available" /\ place[p] = "rolling"
      BY <2>3, <2>5, <2>8, <2>10, PlaceIs DEF Placed
    <3>2. DispatchSerial(req) /\ slots[req.slot].status # "deleted"
      BY <2>2, <2>3, <2>10, <3>1, SerialRequest DEF Serial, SerialInv, DeletedTogether, req
    <3>3. PendingOf(p) = {}
      BY <2>2, <2>3, <2>10, <3>2 DEF DispatchSerial
    <3>4. place'[p] = "dropped"
      BY <2>3, <2>4, <2>7, <3>1, <3>3, PlaceIsNext DEF Placed
    <3>5. p \in Abstract!At({"rolling"}) /\ Abstract!Move({p}, "dropped")
      BY <2>3, <2>6, <3>1, <3>4, OneMoves
    <3>6. Abstract!Drop
      BY <3>5 DEF Abstract!Drop, Abstract!At
    <3>7. QED
      BY <2>1, <3>6
  <2>11. CASE req.op = "cancel" /\ place'[p] # place[p]
    <3>1. property[p] = "available" /\ PendingOf(p) # {}
      BY <2>3, <2>4, <2>5, <2>7, <2>8, <2>11, PlaceIs, PlaceIsNext DEF Placed
    <3>2. place[p] = "cancelling" /\ place'[p] = "queued"
      BY <2>3, <2>4, <2>5, <2>7, <2>11, <3>1, PlaceIs, PlaceIsNext DEF Placed
    <3>3. p \in Abstract!At({"cancelling"}) /\ Abstract!Move({p}, "queued")
      BY <2>3, <2>6, <3>2, OneMoves
    <3>4. Abstract!Stay
      BY <3>3 DEF Abstract!Stay, Abstract!At
    <3>5. QED
      BY <2>1, <3>4
  <2>12. QED
    BY <2>2, <2>9, <2>10, <2>11 DEF req
<1>4. QED
  BY <1>2, <1>3

\* A request on its own that adds an insert, or fails.
LEMMA EnqueueSerial ==
  ASSUME SerialInv, NEW r, Requests = {r}, NEW req \in Request, NEW p \in Properties,
         NEW floor \in Time, enqueue_property(r, req, p, floor),
         ASSUME NEW new, Enqueued(req, p, new) PROVE Serial(new),
         OnItsWay(req) <=> OnItsWay(requests[r]),
         OnItsWay(req) => req.slot = requests[r].slot /\ req.op = requests[r].op
  PROVE  SerialNext /\ (place' = place \/ Abstract!Drop \/ Abstract!Stay)
<1>1. CASE Rollback(r)
  BY <1>1, RollbackSerial
<1>2. ASSUME NEW new, Become(r, new), Enqueued(req, p, new)
      PROVE  SerialNext /\ (place' = place \/ Abstract!Drop \/ Abstract!Stay)
  <2>1. new.op = req.op /\ new.phase = req.phase /\ new.slot = req.slot
    BY <1>2, EnqueuedSame
  <2>2. Serial(new)
    BY <1>2
  <2>3. QED
    BY <1>2, <2>1, <2>2, QuietSerial DEF OnItsWay
<1>3. QED
  BY <1>1, <1>2, EnqueueRequest DEF SerialInv

\* Without inserts before it, the insert is the only one.
LEMMA FirstInsert ==
  ASSUME NEW req \in Request, NEW p, NEW new, Enqueued(req, p, new), NoInserts(req)
  PROVE  OneInsert(new, p)
<1>1. Len(req.inserts) \in Nat /\ 1 .. Len(req.inserts) = {}
  BY DEF Enqueued, NoInserts
<1>2. Len(req.inserts) = 0
  BY <1>1
<1>3. Len(new.inserts) = 1 /\ DOMAIN new.inserts = 1 .. 1 /\ new.inserts[1].property = p
  BY <1>2 DEF Enqueued
<1>4. QED
  BY <1>3 DEF OneInsert

\* The one pending slot of a property that has one.
LEMMA TheOnePending ==
  ASSUME SerialInv, NEW i \in Pending
  PROVE  /\ PendingOf(slots[i].property) = {i}
         /\ property[slots[i].property] = "available"
         /\ i \in DOMAIN slots /\ slots[i].property \in Properties
<1>1. i \in DOMAIN slots /\ slots[i].property \in Properties
  BY TableRows DEF Pending, SerialInv, IInv
<1>2. /\ property[slots[i].property] = "available"
      /\ \A j \in Pending \ {i} : slots[j].property # slots[i].property
  BY DEF SerialInv, OnePendingWhileAvailable
<1>3. PendingOf(slots[i].property) = {i}
  BY <1>2 DEF PendingOf
<1>4. QED
  BY <1>1, <1>2, <1>3

\* The request that is loaded has a pending slot and has written nothing; to
\* be cancelled by hand is a place of its own.
LEMMA LoadSerial ==
  ASSUME SerialInv, NEW r, Requests = {r}, NEW i \in DOMAIN slots,
         mark_posted(r, i) \/ skip_slot(r, i) \/ cancel_slot(r, i) \/ dispatch_now(r, i)
  PROVE  SerialNext /\ (place' = place \/ Abstract!Cancel)
<1>1. PICK op \in {"consume", "cancel", "dispatch"}, target \in SlotStatus :
        Load(r, op, i, target)
  BY DEF mark_posted, skip_slot, cancel_slot, dispatch_now, SlotStatus
<1> DEFINE req == [NoRequest EXCEPT !.op = op, !.phase = "loaded",
                                    !.slot = i, !.target = target]
<1>2. Become(r, req) /\ Idle(r) /\ i \in Pending /\ slots[i].status = "pending"
  BY <1>1 DEF Load, Pending
<1>3. /\ req.op = op /\ req.phase = "loaded" /\ req.slot = i
      /\ req.inserts = << >>
  BY DEF NoRequest
<1> HIDE DEF req
<1>4. NoInserts(req)
  BY <1>3 DEF NoInserts
<1>5. Serial(req)
  BY <1>2, <1>3, <1>4 DEF Serial, InPhase, ConsumeSerial, DispatchSerial
<1>6. ~ OnItsWay(requests[r])
  BY <1>2, SerialRequest DEF OnItsWay, Idle, In, Serial, InPhase
<1>7. CASE op # "cancel"
  <2>1. ~ OnItsWay(req)
    BY <1>3, <1>7 DEF OnItsWay
  <2>2. QED
    BY <1>2, <1>5, <1>6, <2>1, QuietSerial
<1>8. CASE op = "cancel"
  <2> DEFINE p == slots[i].property
  <2>1. /\ UNCHANGED <<property, slots>> /\ requests'[r] = req
        /\ SerialNext /\ \A q : PendingOf(q)' = PendingOf(q)
    BY <1>2, <1>5, BecomeSerial
  <2>2. PendingOf(p) = {i} /\ property[p] = "available" /\ p \in Properties
    BY <1>2, TheOnePending
  <2>3. \A q : ~ Rolling(q) /\ ~ Rolling(q)' /\ ~ Cancelling(q) /\ (Cancelling(q)' <=> q = p)
    BY <1>3, <1>6, <1>8, <2>1 DEF Rolling, Cancelling, In, OnItsWay
  <2> HIDE DEF p
  <2>4. \A q \in Properties : q # p => place'[q] = place[q]
    BY <2>1, <2>3, SamePlace, SerialRequest
  <2>5. place[p] = "queued" /\ place'[p] = "cancelling"
    BY <2>1, <2>2, <2>3, PlaceIs, PlaceIsNext DEF Placed
  <2>6. p \in Abstract!At({"queued"}) /\ Abstract!Move({p}, "cancelling")
    BY <2>2, <2>4, <2>5, OneMoves
  <2>7. Abstract!Cancel
    BY <2>6 DEF Abstract!Cancel
  <2>8. QED
    BY <2>1, <2>7
<1>9. QED
  BY <1>7, <1>8

\* mark_posted and skip_slot flush the slot with the one that follows it.
LEMMA FlushConsumedSerial ==
  ASSUME SerialInv, NEW r, Requests = {r}, FlushConsumed(r)
  PROVE  SerialNext /\ (place' = place \/ Abstract!Drop \/ Abstract!Stay)
<1> DEFINE i == requests[r].slot
           req == [requests[r] EXCEPT !.phase = "flushed"]
           p == slots[i].property
<1>1. /\ requests[r] \in Request /\ WellFormed(requests[r]) /\ Serial(requests[r])
      /\ requests[r].op = "consume" /\ requests[r].phase = "loaded"
      /\ slots[i].status # "deleted"
      /\ enqueue_property(r, req, p, slots[i].at)
  BY SerialRequest DEF FlushConsumed, In
<1>2. i \in DOMAIN slots /\ p \in Properties /\ slots[i].at \in Time
  BY <1>1, TableRows DEF WellFormed, SerialInv, IInv
<1>3. slots[i].status = "pending" /\ NoInserts(requests[r])
  BY <1>1 DEF Serial, ConsumeSerial
<1>4. /\ req \in Request /\ req.op = "consume" /\ req.phase = "flushed" /\ req.slot = i
      /\ NoInserts(req)
  BY <1>1, <1>3 DEF Request, NoInserts
<1> HIDE DEF req
<1>5. ASSUME NEW new, Enqueued(req, p, new)
      PROVE  Serial(new)
  <2>1. new.op = "consume" /\ new.phase = "flushed" /\ new.slot = i
    BY <1>4, <1>5, EnqueuedSame
  <2>2. OneInsert(new, p)
    BY <1>4, <1>5, FirstInsert
  <2>3. QED
    BY <1>3, <2>1, <2>2 DEF Serial, InPhase, ConsumeSerial
<1>6. ~ OnItsWay(req) /\ ~ OnItsWay(requests[r])
  BY <1>1, <1>4 DEF OnItsWay
<1> HIDE DEF i, p
<1>7. QED
  BY <1>1, <1>2, <1>4, <1>5, <1>6, EnqueueSerial

\* dispatch_now's second transaction adds the slot that follows.
LEMMA RollDispatchedSerial ==
  ASSUME SerialInv, NEW r, Requests = {r}, RollDispatched(r)
  PROVE  SerialNext /\ (place' = place \/ Abstract!Drop \/ Abstract!Stay)
<1> DEFINE i == requests[r].slot
           req == [requests[r] EXCEPT !.phase = "flushed"]
           p == slots[i].property
<1>1. /\ requests[r] \in Request /\ WellFormed(requests[r]) /\ Serial(requests[r])
      /\ requests[r].phase = "posted" /\ requests[r].op = "dispatch"
      /\ enqueue_property(r, req, p, slots[i].at)
  BY SerialRequest DEF RollDispatched, In, WellFormed
<1>2. i \in DOMAIN slots /\ p \in Properties /\ slots[i].at \in Time
  BY <1>1, TableRows DEF WellFormed, SerialInv, IInv
<1>3. /\ slots[i].status # "deleted" => property[p] = "available" /\ PendingOf(p) = {}
      /\ NoInserts(requests[r])
  BY <1>1 DEF Serial, DispatchSerial
<1>4. /\ req \in Request /\ req.op = "dispatch" /\ req.phase = "flushed" /\ req.slot = i
      /\ NoInserts(req)
  BY <1>1, <1>3 DEF Request, NoInserts
<1> HIDE DEF req
<1>5. ASSUME NEW new, Enqueued(req, p, new)
      PROVE  Serial(new)
  <2>1. new.op = "dispatch" /\ new.phase = "flushed" /\ new.slot = i
    BY <1>4, <1>5, EnqueuedSame
  <2>2. OneInsert(new, p)
    BY <1>4, <1>5, FirstInsert
  <2>3. QED
    BY <1>3, <2>1, <2>2 DEF Serial, InPhase, DispatchSerial
<1>6. /\ OnItsWay(req) /\ OnItsWay(requests[r])
      /\ req.slot = requests[r].slot /\ req.op = requests[r].op
  BY <1>1, <1>4 DEF OnItsWay
<1> HIDE DEF i, p
<1>7. QED
  BY <1>1, <1>2, <1>4, <1>5, <1>6, EnqueueSerial

\* create_property with a first slot.
LEMMA CreateAvailableSerial ==
  ASSUME SerialInv, NEW r, Requests = {r}, NEW p \in Properties, create_available(r, p)
  PROVE  SerialNext /\ (place' = place \/ Abstract!Drop \/ Abstract!Stay)
<1> DEFINE req == [NoRequest EXCEPT !.op = "create", !.phase = "flushed",
                                    !.held = {p}, !.target = "available"]
<1>1. /\ property[p] = "absent" /\ Idle(r) /\ now \in Time
      /\ enqueue_property(r, req, p, now)
  BY SerialRequest DEF create_available
<1>2. /\ req \in Request /\ req.op = "create" /\ req.phase = "flushed" /\ req.held = {p}
      /\ req.target = "available" /\ req.inserts = << >>
  BY NoRequestOK DEF NoRequest, Request, PropertyStatus
<1> HIDE DEF req
<1>3. ASSUME NEW new, Enqueued(req, p, new)
      PROVE  Serial(new)
  <2>1. /\ new.op = "create" /\ new.phase = "flushed" /\ new.held = {p}
        /\ new.target = "available"
    BY <1>2, <1>3, EnqueuedSame
  <2>2. NoInserts(req)
    BY <1>2 DEF NoInserts
  <2>3. OneInsert(new, p)
    BY <1>2, <1>3, <2>2, FirstInsert
  <2>4. QED
    BY <1>1, <2>1, <2>3 DEF Serial, InPhase, CreateSerial
<1>4. ~ OnItsWay(req) /\ ~ OnItsWay(requests[r])
  BY <1>1, <1>2, SerialRequest DEF OnItsWay, Idle, In, Serial, InPhase
<1>5. QED
  BY <1>1, <1>2, <1>3, <1>4, EnqueueSerial

\* A status change that has visited nobody.
LEMMA UpdateStatusSerial ==
  ASSUME SerialInv, NEW r, Requests = {r}, NEW ids \in SUBSET Live,
         NEW status \in PropertyStatus, update_status(r, ids, status)
  PROVE  SerialNext /\ place' = place
<1> DEFINE req == [NoRequest EXCEPT !.op = "status", !.phase = "loop",
                                    !.todo = ids, !.target = status]
<1>1. Become(r, req) /\ Idle(r)
  BY DEF update_status
<1>2. /\ req.op = "status" /\ req.phase = "loop" /\ req.todo = ids /\ req.target = status
      /\ req.held = {} /\ req.cur = {} /\ req.cancels = {} /\ req.inserts = << >>
  BY DEF NoRequest
<1> HIDE DEF req
<1>3. DOMAIN req.inserts = {} /\ NoInserts(req)
  BY <1>2 DEF NoInserts
<1>4. StatusSerial(req)
  BY <1>2, <1>3 DEF StatusSerial
<1>5. Serial(req)
  BY <1>2, <1>4 DEF Serial, InPhase
<1>6. ~ OnItsWay(req) /\ ~ OnItsWay(requests[r])
  BY <1>1, <1>2, SerialRequest DEF OnItsWay, Idle, In, Serial, InPhase
<1>7. QED
  BY <1>1, <1>5, <1>6, QuietSerial

\* The steps that read, send, or find nothing to do.
LEMMA ReadSerial ==
  ASSUME SerialInv, NEW r, Requests = {r},
         SendAccepted(r) \/ SameStatus(r) \/ \E p \in Properties : ReadProperty(r, p)
  PROVE  SerialNext /\ place' = place
<1>1. requests[r] \in Request /\ WellFormed(requests[r]) /\ Serial(requests[r])
  BY SerialRequest
<1>2. CASE SendAccepted(r)
  <2> DEFINE req == [requests[r] EXCEPT !.phase = "sent"]
  <2>1. /\ Become(r, req) /\ requests[r].op = "dispatch" /\ requests[r].phase = "loaded"
        /\ req.op = "dispatch" /\ req.phase = "sent" /\ req.slot = requests[r].slot
        /\ req.inserts = requests[r].inserts
    BY <1>1, <1>2 DEF SendAccepted, Request, In
  <2> HIDE DEF req
  <2>2. Serial(req)
    BY <1>1, <2>1 DEF Serial, InPhase, DispatchSerial, NoInserts
  <2>3. ~ OnItsWay(req) /\ ~ OnItsWay(requests[r])
    BY <2>1 DEF OnItsWay
  <2>4. QED
    BY <2>1, <2>2, <2>3, QuietSerial
<1>3. CASE SameStatus(r)
  <2> DEFINE req == [requests[r] EXCEPT !.phase = "loop", !.cur = {}, !.was = "absent"]
  <2>1. /\ Become(r, req) /\ requests[r].phase = "read" /\ requests[r].op = "status"
        /\ req.op = "status" /\ req.phase = "loop" /\ req.cur = {}
        /\ req.held = requests[r].held /\ req.todo = requests[r].todo
        /\ req.target = requests[r].target
        /\ req.cancels = requests[r].cancels /\ req.inserts = requests[r].inserts
    BY <1>1, <1>3 DEF SameStatus, Request, In, WellFormed
  <2> HIDE DEF req
  <2>2. StatusSerial(requests[r])
    BY <1>1, <2>1 DEF Serial
  <2>3. StatusSerial(req)
    BY <2>1, <2>2 DEF StatusSerial, NoInserts
  <2>4. Serial(req)
    BY <2>1, <2>3 DEF Serial, InPhase
  <2>5. ~ OnItsWay(req) /\ ~ OnItsWay(requests[r])
    BY <2>1 DEF OnItsWay
  <2>6. QED
    BY <2>1, <2>4, <2>5, QuietSerial
<1>4. ASSUME NEW p \in Properties, ReadProperty(r, p)
      PROVE  SerialNext /\ place' = place
  <2> DEFINE req == [requests[r] EXCEPT !.todo = @ \ {p},
                                        !.phase = IF p \in Live THEN "read" ELSE "loop",
                                        !.cur = IF p \in Live THEN {p} ELSE {},
                                        !.was = IF p \in Live THEN property[p] ELSE "absent"]
  <2>1. /\ Become(r, req) /\ requests[r].phase = "loop" /\ requests[r].op = "status"
        /\ p \in requests[r].todo
    BY <1>1, <1>4 DEF ReadProperty, In, WellFormed
  <2>2. /\ req.op = "status" /\ req.phase = (IF p \in Live THEN "read" ELSE "loop")
        /\ req.cur = (IF p \in Live THEN {p} ELSE {})
        /\ req.was = (IF p \in Live THEN property[p] ELSE "absent")
        /\ req.held = requests[r].held /\ req.todo = requests[r].todo \ {p}
        /\ req.target = requests[r].target
        /\ req.cancels = requests[r].cancels /\ req.inserts = requests[r].inserts
    BY <1>1, <2>1 DEF Request
  <2> HIDE DEF req
  <2>3. StatusSerial(requests[r])
    BY <1>1, <2>1 DEF Serial
  <2>4. p \in Live => property[p] \in PropertyStatus
    BY DEF Live
  <2>5. StatusSerial(req)
    BY <2>1, <2>2, <2>3, <2>4 DEF StatusSerial, NoInserts
  <2>6. Serial(req)
    BY <2>2, <2>5 DEF Serial, InPhase
  <2>7. ~ OnItsWay(req) /\ ~ OnItsWay(requests[r])
    BY <2>1, <2>2 DEF OnItsWay
  <2>8. QED
    BY <2>1, <2>6, <2>7, QuietSerial
<1>5. QED
  BY <1>2, <1>3, <1>4

\* A status change applied to one more property: a slot for it if it enters
\* the market, the end of its slots if it leaves.
LEMMA ApplyStatusSerial ==
  ASSUME SerialInv, NEW r, Requests = {r}, NEW p \in Properties, ApplyStatus(r, p)
  PROVE  SerialNext /\ (place' = place \/ Abstract!Drop \/ Abstract!Stay)
<1> DEFINE req  == requests[r]
           next == [req EXCEPT !.phase = "loop", !.cur = {}, !.was = "absent",
                               !.held = @ \cup {p}]
<1>1. /\ req \in Request /\ WellFormed(req) /\ Serial(req) /\ now \in Time
      /\ req.phase = "read" /\ req.op = "status" /\ req.cur = {p} /\ req.was # req.target
      /\ p \in Live /\ StatusSerial(req)
  BY SerialRequest DEF ApplyStatus, In, WellFormed, Serial
<1>2. property[p] = req.was /\ p \notin req.held /\ req.held \cap req.todo = {}
      /\ p \notin req.todo
  BY <1>1 DEF StatusSerial, Live, PropertyStatus
<1>3. /\ next \in Request /\ next.op = "status" /\ next.phase = "loop" /\ next.cur = {}
      /\ next.held = req.held \cup {p} /\ next.todo = req.todo /\ next.target = req.target
      /\ next.cancels = req.cancels /\ next.inserts = req.inserts
  BY <1>1 DEF Request, PropertyRow
<1>4. /\ next.held \subseteq Live
      /\ next.held \cap (next.todo \cup next.cur) = {} /\ next.todo \cap next.cur = {}
      /\ \A q \in next.held : property[q] # next.target
  BY <1>1, <1>2, <1>3 DEF StatusSerial
<1>5. ~ OnItsWay(req) /\ ~ OnItsWay(next)
  BY <1>1, <1>3 DEF OnItsWay
<1> HIDE DEF next
<1>6. CASE req.was = "available"
  <2> DEFINE mine == { i \in SeenPending(req) : slots[i].property = p }
             last == [next EXCEPT !.cancels = req.cancels \cup mine]
  <2>1. Become(r, last)
    BY <1>3, <1>6 DEF ApplyStatus, next
  <2>2. req.target # "available" /\ NoInserts(req)
        /\ req.cancels = { i \in Pending : slots[i].property \in req.held }
    BY <1>1, <1>6 DEF StatusSerial
  <2>3. req.cancels \cup mine = { i \in Pending : slots[i].property \in next.held }
    BY <1>1, <1>2, <1>3, <2>2 DEF SeenPending
  <2> HIDE DEF mine
  <2>4. /\ last.op = "status" /\ last.phase = "loop" /\ last.cur = {}
        /\ last.held = next.held /\ last.todo = next.todo /\ last.target = req.target
        /\ last.cancels = req.cancels \cup mine /\ last.inserts = req.inserts
    BY <1>3 DEF Request
  <2> HIDE DEF last
  <2>5. StatusSerial(last)
    BY <1>3, <1>4, <2>2, <2>3, <2>4 DEF StatusSerial, NoInserts
  <2>6. Serial(last) /\ ~ OnItsWay(last)
    BY <2>4, <2>5 DEF Serial, InPhase, OnItsWay
  <2>7. QED
    BY <1>5, <2>1, <2>6, QuietSerial
<1>7. CASE req.was # "available" /\ req.target = "available"
  <2>1. enqueue_property(r, next, p, now)
    BY <1>7 DEF ApplyStatus, next
  <2>2. ASSUME NEW new, Enqueued(next, p, new)
        PROVE  Serial(new)
    <3>1. /\ new.op = "status" /\ new.phase = "loop" /\ new.cur = {}
          /\ new.held = next.held /\ new.todo = next.todo /\ new.target = "available"
      BY <1>3, <1>7, <2>2, EnqueuedSame
    <3> DEFINE n == Len(req.inserts)
    <3>2. /\ n \in Nat /\ DOMAIN req.inserts = 1 .. n /\ DOMAIN new.inserts = 1 .. n + 1
          /\ \A k \in 1 .. n : new.inserts[k] = req.inserts[k]
          /\ new.inserts[n + 1].property = p
      BY <1>3, <2>2 DEF Enqueued
    <3> HIDE DEF n
    <3>3. /\ \A k \in 1 .. n : req.inserts[k].property \in req.held
          /\ \A k, l \in 1 .. n :
               req.inserts[k].property = req.inserts[l].property => k = l
          /\ \A q \in req.held : \E k \in 1 .. n : req.inserts[k].property = q
      BY <1>1, <1>7, <3>2 DEF StatusSerial
    <3>4. /\ \A k \in 1 .. n + 1 : k \in 1 .. n \/ k = n + 1
          /\ \A k \in 1 .. n : k \in 1 .. n + 1
          /\ n + 1 \in 1 .. n + 1
      BY <3>2
    <3>5. \A k \in 1 .. n + 1 : new.inserts[k].property \in next.held
      BY <1>3, <3>2, <3>3, <3>4
    <3>6. \A k, l \in 1 .. n + 1 :
            new.inserts[k].property = new.inserts[l].property => k = l
      BY <1>2, <3>2, <3>3, <3>4
    <3>7. ASSUME NEW q \in next.held
          PROVE  \E k \in 1 .. n + 1 : new.inserts[k].property = q
      <4>1. CASE q = p
        BY <3>2, <3>4, <4>1
      <4>2. CASE q \in req.held
        <5>1. PICK k \in 1 .. n : req.inserts[k].property = q
          BY <3>3, <4>2
        <5>2. new.inserts[k].property = q /\ k \in 1 .. n + 1
          BY <3>2, <3>4, <5>1
        <5>3. QED
          BY <5>2
      <4>3. QED
        BY <1>3, <3>7, <4>1, <4>2
    <3> DEFINE D == 1 .. n + 1
    <3> HIDE DEF D
    <3>8. StatusSerial(new)
      <4>1. DOMAIN new.inserts = D /\ new.target = "available"
        BY <3>1, <3>2 DEF D
      <4>2. /\ \A k \in D : new.inserts[k].property \in new.held
            /\ \A k, l \in D : new.inserts[k].property = new.inserts[l].property => k = l
            /\ \A q \in new.held : \E k \in D : new.inserts[k].property = q
        BY <3>1, <3>5, <3>6, <3>7 DEF D
      <4>3. /\ new.held \subseteq Live
            /\ new.held \cap (new.todo \cup new.cur) = {} /\ new.todo \cap new.cur = {}
            /\ \A q \in new.held : property[q] # new.target
        BY <1>3, <1>4, <1>7, <3>1
      <4>4. QED
        BY <3>1, <4>1, <4>2, <4>3 DEF StatusSerial
    <3>9. QED
      BY <3>1, <3>8 DEF Serial, InPhase
  <2>3. QED
    BY <1>1, <1>3, <1>5, <2>1, <2>2, EnqueueSerial
<1>8. CASE req.was # "available" /\ req.target # "available"
  <2>1. Become(r, next)
    BY <1>8 DEF ApplyStatus, next
  <2>2. \A i \in Pending : slots[i].property # p
    BY <1>2, <1>8 DEF SerialInv, OnePendingWhileAvailable
  <2>3. NoInserts(req) /\ req.cancels = { i \in Pending : slots[i].property \in req.held }
    BY <1>1, <1>8 DEF StatusSerial
  <2>4. next.cancels = { i \in Pending : slots[i].property \in next.held }
    BY <1>3, <2>2, <2>3
  <2>5. StatusSerial(next)
    BY <1>3, <1>4, <1>8, <2>3, <2>4 DEF StatusSerial, NoInserts
  <2>6. Serial(next)
    BY <1>3, <2>5 DEF Serial, InPhase
  <2>7. QED
    BY <1>5, <2>1, <2>6, QuietSerial
<1>9. QED
  BY <1>6, <1>7, <1>8

\* One slot that is cancelled or posted is one pending slot less.
LEMMA OneWritten ==
  ASSUME SerialInv, NEW i \in DOMAIN slots, NEW status \in {"cancelled", "posted"},
         slots' = [slots EXCEPT ![i].status = status], property' = property,
         slots[i].status # "deleted"
  PROVE  /\ DOMAIN slots' = DOMAIN slots
         /\ \A j \in DOMAIN slots : slots'[j].property = slots[j].property
         /\ \A j \in DOMAIN slots : slots'[j].status = IF j = i THEN status ELSE slots[j].status
         /\ \A q : PendingOf(q)' = PendingOf(q) \ {i}
         /\ OnePendingWhileAvailable' /\ DeletedTogether'
<1>1. /\ DOMAIN slots' = DOMAIN slots
      /\ \A j \in DOMAIN slots : slots'[j].property = slots[j].property
      /\ \A j \in DOMAIN slots : slots'[j].status = IF j = i THEN status ELSE slots[j].status
  BY TableRows DEF SlotRow, SerialInv, IInv
<1>2. Pending' = Pending \ {i}
  BY <1>1 DEF Pending
<1>3. \A q : PendingOf(q)' = PendingOf(q) \ {i}
  BY <1>1, <1>2 DEF PendingOf, Pending
<1>4. OnePendingWhileAvailable'
  BY <1>1, <1>2 DEF SerialInv, OnePendingWhileAvailable, Pending
<1>5. DeletedTogether'
  BY <1>1 DEF SerialInv, DeletedTogether
<1>6. QED
  BY <1>1, <1>3, <1>4, <1>5

\* cancel_slot: the property drops out of the rotation, or keeps the slot that
\* somebody else has cancelled already.
LEMMA CommitCancelSerial ==
  ASSUME SerialInv, NEW r, Requests = {r}, CommitCancelSlot(r)
  PROVE  SerialNext /\ (place' = place \/ Abstract!Drop \/ Abstract!Stay)
<1> DEFINE i == requests[r].slot
<1>1. /\ requests[r].op = "cancel" /\ slots[i].status # "deleted"
      /\ slots' = [slots EXCEPT ![i].status = "cancelled"]
      /\ property' = property
      /\ requests' = [requests EXCEPT ![r] = NoRequest]
      /\ i \in DOMAIN slots /\ slots[i].property \in Properties
  BY SerialRequest, TableRows DEF CommitCancelSlot, WellFormed, SerialInv, IInv
<1> PICK p \in Properties : p = slots[i].property
  BY <1>1
<1>2. /\ \A q : PendingOf(q)' = PendingOf(q) \ {i}
      /\ OnePendingWhileAvailable' /\ DeletedTogether'
  BY <1>1, OneWritten
<1>3. requests'[r] = NoRequest
  BY <1>1 DEF SerialInv, IInv, TypeOK
<1>4. SerialNext
  <2>1. Serial(requests[r])'
    BY <1>3 DEF Serial, InPhase, NoRequest
  <2>2. QED
    BY <1>2, <2>1 DEF SerialNext
<1>5. \A q : /\ ~ Rolling(q) /\ ~ Rolling(q)' /\ ~ Cancelling(q)'
             /\ Cancelling(q) <=> q = p
  BY <1>1, <1>3 DEF Rolling, Cancelling, In, NoRequest
<1>6. \A q : q # p => PendingOf(q)' = PendingOf(q)
  BY <1>2 DEF PendingOf
<1>7. i \notin Pending => PendingOf(p)' = PendingOf(p)
  BY <1>2 DEF PendingOf
<1>8. i \in Pending => PendingOf(p) = {i} /\ PendingOf(p)' = {} /\ property[p] = "available"
  BY <1>2, TheOnePending
<1> HIDE DEF i
<1>9. \A q \in Properties : q # p => place'[q] = place[q]
  BY <1>1, <1>5, <1>6, SamePlace, SerialRequest
<1>10. property[p] \in PropertyRow
  BY <1>1, SerialRequest
<1>11. CASE i \in Pending
  <2>1. place[p] = "cancelling" /\ place'[p] = "dropped"
    BY <1>1, <1>5, <1>7, <1>8, <1>11, PlaceIs, PlaceIsNext DEF Placed
  <2>2. p \in Abstract!At({"cancelling"}) /\ Abstract!Move({p}, "dropped")
    BY <1>1, <1>9, <2>1, OneMoves
  <2>3. Abstract!Drop
    BY <2>2 DEF Abstract!Drop, Abstract!At
  <2>4. QED
    BY <1>4, <2>3
<1>12. CASE i \notin Pending /\ property[p] = "available" /\ PendingOf(p) # {}
  <2>1. place[p] = "cancelling" /\ place'[p] = "queued"
    BY <1>1, <1>5, <1>7, <1>12, PlaceIs, PlaceIsNext DEF Placed
  <2>2. p \in Abstract!At({"cancelling"}) /\ Abstract!Move({p}, "queued")
    BY <1>1, <1>9, <2>1, OneMoves
  <2>3. Abstract!Stay
    BY <2>2 DEF Abstract!Stay, Abstract!At
  <2>4. QED
    BY <1>4, <2>3
<1>13. CASE i \notin Pending /\ (property[p] # "available" \/ PendingOf(p) = {})
  <2>1. place'[p] = place[p]
    BY <1>1, <1>5, <1>7, <1>10, <1>13, PlaceIs, PlaceIsNext DEF Placed, PropertyRow, PropertyStatus
  <2>2. QED
    BY <1>4, <1>9, <2>1, NobodyMoves
<1>14. QED
  BY <1>11, <1>12, <1>13

\* The first commit of dispatch_now: the property is on its way to its next
\* slot.
LEMMA CommitDispatchedSerial ==
  ASSUME SerialInv, NEW r, Requests = {r}, CommitDispatched(r)
  PROVE  SerialNext /\ Abstract!Roll
<1> DEFINE i == requests[r].slot
           p == slots[i].property
           req == [requests[r] EXCEPT !.phase = "posted"]
<1>1. /\ requests[r] \in Request /\ Serial(requests[r])
      /\ requests[r].op = "dispatch" /\ requests[r].phase = "sent"
      /\ slots[i].status # "deleted"
      /\ slots' = [slots EXCEPT ![i].status = "posted"]
      /\ property' = property
      /\ requests' = [requests EXCEPT ![r] = req]
      /\ i \in DOMAIN slots /\ p \in Properties
  BY SerialRequest, TableRows DEF CommitDispatched, WellFormed, SerialInv, IInv, TypeOK, In
<1>2. slots[i].status = "pending" /\ NoInserts(requests[r])
  BY <1>1 DEF Serial, DispatchSerial
<1>3. PendingOf(p) = {i} /\ property[p] = "available"
  BY <1>1, <1>2, TheOnePending DEF Pending
<1>4. /\ \A j \in DOMAIN slots : slots'[j].property = slots[j].property
      /\ \A q : PendingOf(q)' = PendingOf(q) \ {i}
      /\ OnePendingWhileAvailable' /\ DeletedTogether'
  BY <1>1, OneWritten
<1>5. /\ requests'[r] = req /\ req.op = "dispatch" /\ req.phase = "posted"
      /\ req.slot = i /\ req.inserts = requests[r].inserts
  BY <1>1 DEF SerialInv, IInv, TypeOK, Request
<1> HIDE DEF req
<1>6. SerialNext
  <2>1. PICK q \in Properties : q = p
    BY <1>1
  <2>2. PendingOf(q)' = {} /\ slots'[i].property = q /\ property'[q] = "available"
    BY <1>1, <1>3, <1>4, <2>1
  <2>3. DispatchSerial(requests[r])'
    BY <1>2, <1>5, <2>2 DEF DispatchSerial, NoInserts
  <2>4. Serial(requests[r])'
    BY <1>5, <2>3 DEF Serial, InPhase
  <2>5. QED
    BY <1>4, <2>4 DEF SerialNext
<1>7. \A q : /\ ~ Rolling(q) /\ ~ Cancelling(q) /\ ~ Cancelling(q)'
             /\ Rolling(q)' <=> q = p
  BY <1>1, <1>4, <1>5 DEF Rolling, Cancelling, In
<1>8. \A q : q # p => PendingOf(q)' = PendingOf(q)
  BY <1>4 DEF PendingOf
<1> HIDE DEF i, p
<1>9. place[p] = "queued" /\ place'[p] = "rolling"
  BY <1>1, <1>3, <1>7, PlaceIs, PlaceIsNext DEF Placed
<1>10. \A q \in Properties : q # p => place'[q] = place[q]
  BY <1>1, <1>7, <1>8, SamePlace, SerialRequest
<1>11. p \in Abstract!At({"queued"}) /\ Abstract!Move({p}, "rolling")
  BY <1>1, <1>9, <1>10, OneMoves
<1>12. QED
  BY <1>6, <1>11 DEF Abstract!Roll

\* What a commit leaves pending: what it does not write to, and its inserts.
LEMMA CommitPending ==
  ASSUME SerialInv, NEW r, Requests = {r}, Commit(r), NEW q
  PROVE  PendingOf(q)' =
           { i \in PendingOf(q) : StatusWritten(requests[r], i) = "pending" }
             \cup { Len(slots) + k : k \in { l \in DOMAIN requests[r].inserts :
                                               requests[r].inserts[l].property = q } }
<1> DEFINE ins == requests[r].inserts
<1>1. /\ Len(slots) \in Nat /\ DOMAIN slots = 1 .. Len(slots)
      /\ Len(ins) \in Nat /\ DOMAIN ins = 1 .. Len(ins)
      /\ DOMAIN slots' = 1 .. Len(slots) + Len(ins)
  BY CommitTable, TableRows DEF SerialInv, IInv
<1>2. ASSUME NEW i \in PendingOf(q)'
      PROVE  \/ i \in PendingOf(q) /\ StatusWritten(requests[r], i) = "pending"
             \/ \E k \in DOMAIN ins : ins[k].property = q /\ i = Len(slots) + k
  <2>1. i \in DOMAIN slots' /\ slots'[i].status = "pending" /\ slots'[i].property = q
    BY DEF PendingOf, Pending
  <2>2. CASE i \in DOMAIN slots
    BY <2>1, <2>2, CommitTable DEF SerialInv, PendingOf, Pending
  <2>3. CASE i \notin DOMAIN slots
    <3>1. i - Len(slots) \in DOMAIN ins /\ ins[i - Len(slots)].property = q
      BY <2>1, <2>3, CommitTable DEF SerialInv
    <3>2. i = Len(slots) + (i - Len(slots))
      BY <1>1, <2>1
    <3>3. QED
      BY <3>1, <3>2
  <2>4. QED
    BY <2>2, <2>3
<1>3. ASSUME NEW i \in PendingOf(q), StatusWritten(requests[r], i) = "pending"
      PROVE  i \in PendingOf(q)'
  BY <1>3, CommitTable DEF SerialInv, PendingOf, Pending
<1>4. ASSUME NEW k \in DOMAIN ins, ins[k].property = q
      PROVE  Len(slots) + k \in PendingOf(q)'
  <2> DEFINE i == Len(slots) + k
  <2>1. i \in DOMAIN slots' /\ i \notin DOMAIN slots /\ i - Len(slots) = k
    BY <1>1
  <2> HIDE DEF i
  <2>2. slots'[i].status = "pending" /\ slots'[i].property = q
    BY <1>4, <2>1, CommitTable DEF SerialInv
  <2>3. i \in PendingOf(q)'
    BY <2>1, <2>2 DEF PendingOf, Pending
  <2>4. QED
    BY <2>3 DEF i
<1> HIDE DEF ins
<1>5. PendingOf(q)' =
        { i \in PendingOf(q) : StatusWritten(requests[r], i) = "pending" }
          \cup { Len(slots) + k : k \in { l \in DOMAIN ins : ins[l].property = q } }
  BY <1>2, <1>3, <1>4
<1>6. QED
  BY <1>5 DEF ins

\* A commit is right when it leaves at most one slot pending for a property,
\* and none for one that is not on the market.
LEMMA CommitIsSerial ==
  ASSUME SerialInv, NEW r, Requests = {r}, Commit(r),
         \A q \in requests[r].held : property[q] # "deleted",
         \A q \in Properties : \A i, j \in PendingOf(q)' : i = j /\ property'[q] = "available"
  PROVE  /\ SerialNext /\ \A q : ~ Rolling(q)' /\ ~ Cancelling(q)'
         /\ property' = [q \in Properties |->
                          IF q \in requests[r].held THEN requests[r].target ELSE property[q]]
         /\ \A q \in Properties : property[q] \in PropertyRow
<1>1. /\ requests'[r] = NoRequest
      /\ property' = [q \in Properties |->
                        IF q \in requests[r].held THEN requests[r].target ELSE property[q]]
  BY DEF Commit, SerialInv, IInv, TypeOK
<1>2. Serial(requests[r])' /\ \A q : ~ Rolling(q)' /\ ~ Cancelling(q)'
  BY <1>1 DEF Serial, InPhase, NoRequest, Rolling, Cancelling, In
<1>3. /\ slots' \in Seq(SlotRow)
      /\ \A i \in DOMAIN slots' : slots'[i].property \in Properties
  <2>1. slots' \in Seq(SlotRow)
    BY CommitTable DEF SerialInv
  <2>2. slots' \in [1 .. Len(slots') -> SlotRow]
    BY <2>1, LenProperties
  <2>3. QED
    BY <2>1, <2>2 DEF SlotRow
<1>4. OnePendingWhileAvailable'
  <2> SUFFICES ASSUME NEW i \in DOMAIN slots', slots'[i].status = "pending"
               PROVE  /\ property'[slots'[i].property] = "available"
                      /\ \A j \in DOMAIN slots' :
                           slots'[j].status = "pending" /\ slots'[j].property = slots'[i].property
                             => i = j
    BY DEF OnePendingWhileAvailable, Pending
  <2>1. PICK q \in Properties : q = slots'[i].property
    BY <1>3
  <2>2. \A j \in DOMAIN slots' :
          slots'[j].status = "pending" /\ slots'[j].property = q => j \in PendingOf(q)'
    BY DEF PendingOf, Pending
  <2>3. QED
    BY <2>1, <2>2
<1>5. DeletedTogether'
  <2> SUFFICES ASSUME NEW i \in DOMAIN slots', slots'[i].status = "deleted"
               PROVE  property'[slots'[i].property] = "deleted"
    BY DEF DeletedTogether
  <2>1. i \in DOMAIN slots
    BY CommitTable DEF SerialInv
  <2>2. StatusWritten(requests[r], i) = "deleted" /\ slots'[i].property = slots[i].property
    BY <2>1, CommitTable DEF SerialInv
  <2>3. slots[i].status = "deleted"
    BY <2>2, SerialRequest DEF StatusWritten, WellFormed
  <2>4. property[slots[i].property] = "deleted"
    BY <2>1, <2>3 DEF SerialInv, DeletedTogether
  <2>5. QED
    BY <1>1, <1>3, <2>2, <2>4
<1>6. QED
  BY <1>1, <1>2, <1>4, <1>5, SerialRequest DEF SerialNext

\* Every pending slot is of an available property.
LEMMA PendingAvailable ==
  ASSUME SerialInv, NEW q
  PROVE  /\ \A i, j \in PendingOf(q) : i = j /\ property[q] = "available"
         /\ PendingOf(q) \subseteq DOMAIN slots
BY DEF SerialInv, OnePendingWhileAvailable, PendingOf, Pending

\* The commit of a mark_posted, a skip_slot or a dispatch_now: the property
\* has its next slot and nothing else has moved.
LEMMA CommitRollSerial ==
  ASSUME SerialInv, NEW r, Requests = {r}, Commit(r),
         requests[r].op \in {"consume", "dispatch"}
  PROVE  SerialNext /\ (place' = place \/ Abstract!Stay)
<1> DEFINE req == requests[r]
           i == req.slot
           p == slots[i].property
<1>1. /\ req \in Request /\ WellFormed(req) /\ Serial(req)
      /\ \A q \in Properties : property[q] \in PropertyRow
  BY SerialRequest
<1>2. req.phase = "flushed" /\ req.held = {} /\ req.cancels = {} /\ i \in DOMAIN slots
  BY <1>1 DEF Commit, ReadyToCommit, In, WellFormed
<1>3. p \in Properties /\ Len(slots) \in Nat
  BY <1>2, TableRows DEF SerialInv, IInv
<1>4. OneInsert(req, p)
  BY <1>1, <1>2 DEF Serial, ConsumeSerial, DispatchSerial
<1>5. \A q : { l \in DOMAIN req.inserts : req.inserts[l].property = q } = IF q = p THEN {1} ELSE {}
  BY <1>4 DEF OneInsert
<1>6. /\ property[p] = "available"
      /\ Rolling(p) \/ PendingOf(p) # {}
      /\ \A q : Rolling(q) => q = p
      /\ \A q : { j \in PendingOf(q) : StatusWritten(req, j) = "pending" }
                  = IF q = p THEN {} ELSE PendingOf(q)
  <2>1. CASE req.op = "consume"
    <3>1. slots[i].status = "pending" /\ req.target \in {"posted", "skipped"}
      BY <1>1, <1>2, <2>1 DEF Serial, ConsumeSerial, WellFormed
    <3>2. PendingOf(p) = {i} /\ property[p] = "available"
      BY <1>2, <3>1, TheOnePending DEF Pending
    <3>3. \A j : StatusWritten(req, j) = IF j = i THEN req.target ELSE slots[j].status
      BY <1>2, <2>1 DEF StatusWritten
    <3>4. \A q : { j \in PendingOf(q) : StatusWritten(req, j) = "pending" }
                   = IF q = p THEN {} ELSE PendingOf(q)
      BY <3>1, <3>2, <3>3 DEF PendingOf, Pending
    <3>5. \A q : ~ Rolling(q)
      BY <2>1 DEF Rolling
    <3>6. QED
      BY <3>2, <3>4, <3>5
  <2>2. CASE req.op = "dispatch"
    <3>1. 1 \in DOMAIN req.inserts /\ req.inserts[1].property = p
      BY <1>4 DEF OneInsert
    <3>2. p \in Live
      BY <1>2, <3>1 DEF Commit, ForeignKeysHold
    <3>3. slots[i].status # "deleted"
      BY <1>2, <3>2 DEF SerialInv, DeletedTogether, Live, PropertyStatus
    <3>4. property[p] = "available" /\ PendingOf(p) = {}
      BY <1>1, <1>2, <2>2, <3>3 DEF Serial, DispatchSerial
    <3>5. \A j : StatusWritten(req, j) = slots[j].status
      BY <1>2, <2>2 DEF StatusWritten
    <3>6. \A q : { j \in PendingOf(q) : StatusWritten(req, j) = "pending" }
                   = IF q = p THEN {} ELSE PendingOf(q)
      BY <3>4, <3>5 DEF PendingOf, Pending
    <3>7. Rolling(p) /\ \A q : Rolling(q) => q = p
      BY <1>2, <2>2 DEF Rolling, In
    <3>8. QED
      BY <3>4, <3>6, <3>7
  <2>3. QED
    BY <2>1, <2>2
<1>7. \A q : PendingOf(q)' = IF q = p THEN {Len(slots) + 1} ELSE PendingOf(q)
  <2> SUFFICES ASSUME NEW q
               PROVE  PendingOf(q)' = IF q = p THEN {Len(slots) + 1} ELSE PendingOf(q)
    OBVIOUS
  <2> DEFINE kept  == { j \in PendingOf(q) : StatusWritten(requests[r], j) = "pending" }
             added == { l \in DOMAIN requests[r].inserts : requests[r].inserts[l].property = q }
  <2>1. kept = (IF q = p THEN {} ELSE PendingOf(q)) /\ added = (IF q = p THEN {1} ELSE {})
    BY <1>5, <1>6
  <2>2. PendingOf(q)' = kept \cup { Len(slots) + k : k \in added }
    BY CommitPending
  <2> HIDE DEF p, kept, added
  <2>3. CASE q = p
    BY <2>1, <2>2, <2>3
  <2>4. CASE q # p
    BY <2>1, <2>2, <2>4
  <2>5. QED
    BY <2>3, <2>4
<1>8. property' = property
  BY <1>2 DEF Commit, SerialInv, IInv, TypeOK
<1>9. \A q \in Properties : \A j, k \in PendingOf(q)' : j = k /\ property'[q] = "available"
  BY <1>6, <1>7, <1>8, PendingAvailable
<1>10. SerialNext /\ \A q : ~ Rolling(q)' /\ ~ Cancelling(q)'
  BY <1>2, <1>9, CommitIsSerial
<1>11. \A q : ~ Cancelling(q)
  BY DEF Cancelling
<1>12. place[p] \in {"queued", "rolling"} /\ place'[p] = "queued"
  BY <1>3, <1>6, <1>7, <1>8, <1>10, <1>11, PlaceIs, PlaceIsNext DEF Placed
<1> HIDE DEF p, i, req
<1>13. \A q \in Properties : q # p => place'[q] = place[q]
  BY <1>1, <1>6, <1>7, <1>8, <1>10, <1>11, SamePlace
<1>14. CASE place[p] = "queued"
  <2>1. \A q \in Properties : place'[q] = place[q]
    BY <1>12, <1>13, <1>14
  <2>2. QED
    BY <1>10, <2>1, NobodyMoves
<1>15. CASE place[p] = "rolling"
  <2>1. p \in Abstract!At({"rolling"}) /\ Abstract!Move({p}, "queued")
    BY <1>3, <1>12, <1>13, <1>15, OneMoves
  <2>2. Abstract!Stay
    BY <2>1 DEF Abstract!Stay, Abstract!At
  <2>3. QED
    BY <1>10, <2>2
<1>16. QED
  BY <1>12, <1>14, <1>15

\* The commit of create_property lists the property.
LEMMA CommitCreateSerial ==
  ASSUME SerialInv, NEW r, Requests = {r}, Commit(r), requests[r].op = "create"
  PROVE  SerialNext /\ Abstract!List
<1> DEFINE req == requests[r]
<1>1. /\ req \in Request /\ WellFormed(req) /\ Serial(req)
      /\ \A q \in Properties : property[q] \in PropertyRow
  BY SerialRequest
<1>2. PICK p \in Properties :
        req.held = {p} /\ property[p] = "absent" /\ OneInsert(req, p) /\ req.target = "available"
  BY <1>1 DEF Serial, CreateSerial
<1>3. \A j : StatusWritten(req, j) = slots[j].status
  BY <1>1 DEF StatusWritten, WellFormed
<1>4. PendingOf(p) = {}
  BY <1>2, PendingAvailable
<1>5. ASSUME NEW q
      PROVE  PendingOf(q)' = IF q = p THEN {Len(slots) + 1} ELSE PendingOf(q)
  <2> DEFINE kept  == { j \in PendingOf(q) : StatusWritten(requests[r], j) = "pending" }
             added == { l \in DOMAIN requests[r].inserts : requests[r].inserts[l].property = q }
  <2>1. kept = PendingOf(q)
    BY <1>3 DEF PendingOf, Pending
  <2>2. added = IF q = p THEN {1} ELSE {}
    BY <1>2 DEF OneInsert
  <2>3. PendingOf(q)' = kept \cup { Len(slots) + k : k \in added }
    BY CommitPending
  <2> HIDE DEF kept, added
  <2>4. CASE q = p
    BY <1>4, <2>1, <2>2, <2>3, <2>4
  <2>5. CASE q # p
    BY <2>1, <2>2, <2>3, <2>5
  <2>6. QED
    BY <2>4, <2>5
<1>6. property' = [q \in Properties |-> IF q = p THEN "available" ELSE property[q]]
  BY <1>2 DEF Commit
<1>7. \A q \in Properties : \A j, k \in PendingOf(q)' : j = k /\ property'[q] = "available"
  BY <1>5, <1>6, PendingAvailable
<1>8. SerialNext /\ \A q : ~ Rolling(q)' /\ ~ Cancelling(q)'
  BY <1>2, <1>7, CommitIsSerial
<1>9. \A q : ~ Rolling(q) /\ ~ Cancelling(q)
  BY DEF Rolling, Cancelling
<1>10. place[p] = "absent" /\ place'[p] = "queued"
  BY <1>2, <1>5, <1>6, <1>8, PlaceIs, PlaceIsNext DEF Placed
<1> HIDE DEF req
<1>11. \A q \in Properties : q # p => place'[q] = place[q]
  BY <1>1, <1>5, <1>6, <1>8, <1>9, PlaceIs, PlaceIsNext DEF Placed, PropertyRow, PropertyStatus
<1>12. place' = [q \in Properties |-> IF q \in {p} THEN "queued" ELSE place[q]]
  BY <1>10, <1>11, PlaceIsNext DEF Placed
<1>13. Abstract!List
  BY <1>10, <1>12 DEF Abstract!List, Abstract!At, Abstract!Move
<1>14. QED
  BY <1>8, <1>13

\* The commit of a status change puts its properties on the market, each with
\* one slot, or takes them off with all they have.
LEMMA CommitStatusSerial ==
  ASSUME SerialInv, NEW r, Requests = {r}, Commit(r), requests[r].op = "status"
  PROVE  SerialNext /\ (Abstract!PutOnMarket \/ Abstract!TakeOff)
<1> DEFINE req == requests[r]
           held == req.held
<1>1. /\ req \in Request /\ WellFormed(req) /\ StatusSerial(req)
      /\ req.target \in PropertyStatus /\ held \subseteq Properties
      /\ \A q \in Properties : property[q] \in PropertyRow
  BY SerialRequest DEF Serial, WellFormed, Request
<1>2. held \subseteq Live /\ \A q \in held : property[q] # req.target
  BY <1>1 DEF StatusSerial
<1>3. \A j : StatusWritten(req, j) = IF j \in req.cancels THEN "cancelled" ELSE slots[j].status
  BY DEF StatusWritten
<1>4. property' = [q \in Properties |-> IF q \in held THEN req.target ELSE property[q]]
  BY DEF Commit
<1>5. \A q : ~ Rolling(q) /\ ~ Cancelling(q)
  BY DEF Rolling, Cancelling
<1>6. CASE req.target = "available"
  <2>1. /\ \A k \in DOMAIN req.inserts : req.inserts[k].property \in held
        /\ \A k, l \in DOMAIN req.inserts :
             req.inserts[k].property = req.inserts[l].property => k = l
        /\ \A q \in held : \E k \in DOMAIN req.inserts : req.inserts[k].property = q
    BY <1>1, <1>6 DEF StatusSerial
  <2>2. \A q \in held : PendingOf(q) = {}
    BY <1>2, <1>6, PendingAvailable
  <2>3. \A j : StatusWritten(req, j) = slots[j].status
    BY <1>1, <1>3, <1>6 DEF WellFormed
  <2>4. ASSUME NEW q
        PROVE  /\ q \notin held => PendingOf(q)' = PendingOf(q)
               /\ q \in held => \E k : PendingOf(q)' = {k}
    <3> DEFINE kept  == { j \in PendingOf(q) : StatusWritten(requests[r], j) = "pending" }
               added == { l \in DOMAIN requests[r].inserts : requests[r].inserts[l].property = q }
    <3>1. kept = PendingOf(q)
      BY <2>3 DEF PendingOf, Pending
    <3>2. q \notin held => added = {}
      BY <2>1
    <3>3. q \in held => \E k : added = {k}
      BY <2>1
    <3>4. PendingOf(q)' = kept \cup { Len(slots) + k : k \in added }
      BY CommitPending
    <3> HIDE DEF kept, added, held
    <3>5. ASSUME q \in held
          PROVE  \E k : PendingOf(q)' = {k}
      <4>1. PICK k : added = {k}
        BY <3>3, <3>5
      <4>2. PendingOf(q)' = {Len(slots) + k}
        BY <2>2, <3>1, <3>4, <3>5, <4>1
      <4>3. QED
        BY <4>2
    <3>6. q \notin held => PendingOf(q)' = PendingOf(q)
      BY <3>1, <3>2, <3>4
    <3>7. QED
      BY <3>5, <3>6
  <2>5. ASSUME NEW q \in Properties
        PROVE  \A j, k \in PendingOf(q)' : j = k /\ property'[q] = "available"
    <3>1. CASE q \in held
      <4>1. PICK m : PendingOf(q)' = {m}
        BY <2>4, <3>1
      <4>2. property'[q] = "available"
        BY <1>4, <1>6, <3>1
      <4>3. QED
        BY <4>1, <4>2
    <3>2. CASE q \notin held
      <4>1. PendingOf(q)' = PendingOf(q) /\ property'[q] = property[q]
        BY <1>4, <2>4, <3>2
      <4>2. QED
        BY <4>1, PendingAvailable
    <3>3. QED
      BY <3>1, <3>2
  <2>6. \A q \in held : property[q] # "deleted"
    BY <1>2 DEF Live, PropertyStatus
  <2>7. SerialNext /\ \A q : ~ Rolling(q)' /\ ~ Cancelling(q)'
    BY <2>5, <2>6, CommitIsSerial
  <2>8. \A q \in held : property[q] \in {"rented", "sold"} /\ q \in Properties
    BY <1>1, <1>2, <1>6 DEF Live, PropertyStatus
  <2>9. ASSUME NEW q \in held
        PROVE  place[q] = "off" /\ place'[q] = "queued" /\ q \in Properties
    <3>1. PICK m : PendingOf(q)' = {m}
      BY <2>4
    <3>2. property'[q] = "available" /\ PendingOf(q)' # {} /\ q \in Properties
      BY <1>4, <1>6, <2>8, <3>1
    <3>3. QED
      BY <2>7, <2>8, <3>2, PlaceIs, PlaceIsNext DEF Placed
  <2> HIDE DEF req, held
  <2>10. \A q \in Properties : q \notin held => place'[q] = place[q]
    BY <1>1, <1>4, <1>5, <2>4, <2>7, PlaceIs, PlaceIsNext DEF Placed, PropertyRow, PropertyStatus
  <2>11. place' = [q \in Properties |-> IF q \in held THEN "queued" ELSE place[q]]
    BY <2>9, <2>10, PlaceIsNext DEF Placed
  <2>12. held \in SUBSET Abstract!At({"off"})
    BY <2>9 DEF Abstract!At
  <2>13. Abstract!PutOnMarket
    BY <2>11, <2>12 DEF Abstract!PutOnMarket, Abstract!Move
  <2>14. QED
    BY <2>7, <2>13
<1>7. CASE req.target # "available"
  <2>1. NoInserts(req) /\ req.cancels = { i \in Pending : slots[i].property \in held }
    BY <1>1, <1>7 DEF StatusSerial
  <2>2. ASSUME NEW q
        PROVE  PendingOf(q)' = IF q \in held THEN {} ELSE PendingOf(q)
    <3> DEFINE kept  == { j \in PendingOf(q) : StatusWritten(requests[r], j) = "pending" }
               added == { l \in DOMAIN requests[r].inserts : requests[r].inserts[l].property = q }
    <3>1. kept = IF q \in held THEN {} ELSE PendingOf(q)
      BY <1>3, <2>1 DEF PendingOf, Pending
    <3>2. added = {}
      BY <2>1 DEF NoInserts
    <3>3. PendingOf(q)' = kept \cup { Len(slots) + k : k \in added }
      BY CommitPending
    <3> HIDE DEF kept, added, held
    <3>4. QED
      BY <3>1, <3>2, <3>3
  <2>3. \A q \in Properties : \A j, k \in PendingOf(q)' : j = k /\ property'[q] = "available"
    BY <1>4, <2>2, PendingAvailable
  <2>4. \A q \in held : property[q] # "deleted"
    BY <1>2 DEF Live, PropertyStatus
  <2>5. SerialNext /\ \A q : ~ Rolling(q)' /\ ~ Cancelling(q)'
    BY <2>3, <2>4, CommitIsSerial
  <2>6. \A q \in held : property[q] \in PropertyStatus
    BY <1>2 DEF Live
  <2> DEFINE ids == { q \in held : property[q] = "available" }
  <2>7. \A q \in ids : place[q] \in {"queued", "dropped"} /\ place'[q] = "off"
    BY <1>1, <1>4, <1>5, <1>7, PlaceIs, PlaceIsNext DEF Placed, PropertyStatus
  <2>8. \A q \in held : q \notin ids => place[q] = "off" /\ place'[q] = "off"
    BY <1>1, <1>4, <1>7, <2>6, PlaceIs, PlaceIsNext DEF Placed, PropertyStatus
  <2>9. ids \subseteq held /\ held \subseteq Properties
    BY <1>1
  <2> HIDE DEF req, held
  <2>10. \A q \in Properties : q \notin held => place'[q] = place[q]
    BY <1>1, <1>4, <1>5, <2>2, <2>5, PlaceIs, PlaceIsNext DEF Placed, PropertyRow, PropertyStatus
  <2> HIDE DEF ids
  <2>11. place' = [q \in Properties |-> IF q \in ids THEN "off" ELSE place[q]]
    BY <2>7, <2>8, <2>9, <2>10, PlaceIsNext DEF Placed
  <2>12. ids \in SUBSET Abstract!At({"queued", "dropped"})
    BY <2>7, <2>9 DEF Abstract!At
  <2>13. Abstract!TakeOff
    BY <2>11, <2>12 DEF Abstract!TakeOff, Abstract!Move
  <2>14. QED
    BY <2>5, <2>13
<1>8. QED
  BY <1>6, <1>7

\* Deleting properties while a request is open leaves the request as it is.
LEMMA DeleteSerial ==
  ASSUME SerialInv, NEW r, Requests = {r}, NEW ids \in SUBSET Properties,
         delete_properties(ids)
  PROVE  SerialNext /\ Abstract!Delete
<1> DEFINE gone == { i \in DOMAIN slots : slots[i].property \in ids }
           req  == requests[r]
<1>1. /\ ids \subseteq Live /\ req.held \cap ids = {} /\ requests' = requests
      /\ property' = [p \in Properties |-> IF p \in ids THEN "deleted" ELSE property[p]]
      /\ slots' = [i \in DOMAIN slots |->
                     IF i \in gone THEN [slots[i] EXCEPT !.status = "deleted"] ELSE slots[i]]
      /\ \A i \in gone : ~ HoldsSlot(r, i)
  BY DEF delete_properties
<1>2. /\ DOMAIN slots' = DOMAIN slots
      /\ \A i \in DOMAIN slots : slots'[i].property = slots[i].property
      /\ \A i \in DOMAIN slots :
           slots'[i].status = IF slots[i].property \in ids THEN "deleted" ELSE slots[i].status
  BY <1>1, TableRows DEF SlotRow, SerialInv, IInv
<1>3. /\ req \in Request /\ WellFormed(req) /\ Serial(req)
      /\ \A q \in Properties : property[q] \in PropertyRow
      /\ \A i \in DOMAIN slots : slots[i].property \in Properties
  BY SerialRequest, TableRows DEF SerialInv, IInv
<1> HIDE DEF gone
<1>4. \A q : PendingOf(q)' = IF q \in ids THEN {} ELSE PendingOf(q)
  BY <1>2 DEF PendingOf, Pending
<1>5. OnePendingWhileAvailable'
  BY <1>1, <1>2, <1>3 DEF SerialInv, OnePendingWhileAvailable, Pending
<1>6. DeletedTogether'
  BY <1>1, <1>2, <1>3 DEF SerialInv, DeletedTogether
<1>7. Serial(req)'
  <2>1. req' = req /\ InPhase(req)
    BY <1>1, <1>3 DEF Serial
  <2>2. ASSUME req.op = "consume"
        PROVE  ConsumeSerial(req)'
    <3>1. ConsumeSerial(req) /\ req.slot \in DOMAIN slots
      BY <1>3, <2>2 DEF Serial, WellFormed
    <3>2. req.phase = "flushed" => slots[req.slot].property \notin ids
      BY <1>1, <2>2, <3>1 DEF HoldsSlot, In, gone
    <3>3. QED
      BY <1>2, <2>1, <3>1, <3>2 DEF ConsumeSerial, NoInserts, OneInsert
  <2>3. ASSUME req.op = "dispatch"
        PROVE  DispatchSerial(req)'
    <3>1. DispatchSerial(req) /\ req.slot \in DOMAIN slots
      BY <1>3, <2>3 DEF Serial, WellFormed
    <3>2. PICK p \in Properties : p = slots[req.slot].property
      BY <1>3, <3>1
    <3>3. slots'[req.slot].property = p
      BY <1>2, <3>1, <3>2
    <3>4. slots'[req.slot].status # "deleted" =>
            p \notin ids /\ slots'[req.slot].status = slots[req.slot].status
      BY <1>2, <3>1, <3>2
    <3>5. p \notin ids => property'[p] = property[p] /\ PendingOf(p)' = PendingOf(p)
      BY <1>1, <1>4
    <3>6. slots'[req.slot].status # "deleted" =>
            IF req.phase \in {"loaded", "sent"} THEN slots'[req.slot].status = "pending"
            ELSE property'[p] = "available" /\ PendingOf(p)' = {}
      BY <3>1, <3>2, <3>4, <3>5 DEF DispatchSerial
    <3>7. IF req.phase = "flushed" THEN OneInsert(req, p) ELSE NoInserts(req)
      BY <3>1, <3>2 DEF DispatchSerial
    <3>8. QED
      BY <1>1, <2>1, <3>3, <3>6, <3>7 DEF DispatchSerial, OneInsert, NoInserts
  <2>4. ASSUME req.op = "create"
        PROVE  CreateSerial(req)'
    <3>1. PICK q \in Properties : /\ req.held = {q} /\ property[q] = "absent"
                                  /\ OneInsert(req, q) /\ req.target = "available"
      BY <1>3, <2>4 DEF Serial, CreateSerial
    <3>2. property'[q] = "absent"
      BY <1>1, <3>1 DEF Live, PropertyStatus
    <3>3. QED
      BY <1>1, <2>1, <3>1, <3>2 DEF CreateSerial, OneInsert
  <2>5. ASSUME req.op = "status"
        PROVE  StatusSerial(req)'
    <3>1. StatusSerial(req) /\ req.held \subseteq Live /\ req.held \subseteq Properties
          /\ req.cur \subseteq Properties
      BY <1>3, <2>5 DEF Serial, StatusSerial, Request
    <3>2. \A q \in req.held : property'[q] = property[q] /\ q \notin ids
      BY <1>1, <3>1
    <3>3. req.held \subseteq Live'
      BY <3>1, <3>2 DEF Live
    <3>4. \A q \in req.cur : property'[q] \in {req.was, "deleted"} /\ req.was \in PropertyStatus
      BY <1>1, <3>1 DEF StatusSerial
    <3>5. { i \in Pending : slots[i].property \in req.held }
            = { i \in Pending' : slots'[i].property \in req.held }
      BY <1>2, <3>2 DEF Pending
    <3>6. QED
      BY <1>1, <2>1, <3>1, <3>2, <3>3, <3>4, <3>5 DEF StatusSerial, NoInserts
  <2>6. QED
    BY <1>1, <2>1, <2>2, <2>3, <2>4, <2>5 DEF Serial, InPhase
<1>8. SerialNext
  BY <1>5, <1>6, <1>7 DEF SerialNext
<1>9. \A q \in Properties : (Rolling(q)' <=> Rolling(q)) /\ (Cancelling(q)' <=> Cancelling(q))
  <2>1. req.op \in {"cancel", "dispatch"} => req.slot \in DOMAIN slots
    BY <1>3 DEF WellFormed
  <2>2. QED
    BY <1>1, <1>2, <2>1 DEF Rolling, Cancelling, In
<1> HIDE DEF req
<1> DEFINE there == {"queued", "cancelling", "rolling", "dropped", "off"}
<1>10. \A q \in ids : /\ place[q] \in there
                      /\ place'[q] = "deleted" /\ q \in Properties
  BY <1>1, PlaceIs, PlaceIsNext DEF Placed, Live, PropertyStatus
<1>11. \A q \in Properties : q \notin ids => place'[q] = place[q]
  BY <1>1, <1>3, <1>4, <1>9, SamePlace
<1>12. place' = [q \in Properties |-> IF q \in ids THEN "deleted" ELSE place[q]]
  BY <1>10, <1>11, PlaceIsNext DEF Placed
<1>13. ids \in SUBSET Abstract!At(there)
  BY <1>10 DEF Abstract!At
<1>14. Abstract!Delete
  BY <1>12, <1>13 DEF Abstract!Delete, Abstract!Move
<1>15. QED
  BY <1>8, <1>14

\* A property listed without a slot.
LEMMA CreateOffMarketSerial ==
  ASSUME SerialInv, NEW r, Requests = {r}, NEW p \in Properties, create_off_market(p)
  PROVE  SerialNext /\ Abstract!List
<1> DEFINE req == requests[r]
<1>1. PICK status \in {"rented", "sold"} : property' = [property EXCEPT ![p] = status]
  BY DEF create_off_market
<1>2. /\ property[p] = "absent" /\ p \notin req.held
      /\ UNCHANGED <<slots, requests>>
      /\ property \in [Properties -> PropertyRow]
  BY DEF create_off_market, SerialInv, IInv, TypeOK
<1>3. /\ property'[p] = status
      /\ \A q \in Properties : q # p => property'[q] = property[q]
  BY <1>1, <1>2
<1>4. /\ req \in Request /\ WellFormed(req) /\ Serial(req)
      /\ \A q \in Properties : property[q] \in PropertyRow
      /\ \A i \in DOMAIN slots : slots[i].property \in Properties
  BY SerialRequest, TableRows DEF SerialInv, IInv
<1>5. Pending' = Pending /\ \A q : PendingOf(q)' = PendingOf(q)
  BY <1>2 DEF Pending, PendingOf
<1>6. OnePendingWhileAvailable'
  <2>1. \A i \in Pending : slots[i].property # p /\ i \in DOMAIN slots
    BY <1>2 DEF SerialInv, OnePendingWhileAvailable, Pending
  <2>2. QED
    BY <1>2, <1>3, <1>4, <1>5, <2>1 DEF SerialInv, OnePendingWhileAvailable
<1>7. DeletedTogether'
  BY <1>2, <1>3, <1>4 DEF SerialInv, DeletedTogether
<1>8. Serial(req)'
  <2>1. req' = req /\ InPhase(req)
    BY <1>2, <1>4 DEF Serial
  <2>2. req.op = "consume" => ConsumeSerial(req)'
    BY <1>2, <1>4 DEF Serial, ConsumeSerial, NoInserts, OneInsert
  <2>3. ASSUME req.op = "dispatch"
        PROVE  DispatchSerial(req)'
    <3>1. DispatchSerial(req) /\ slots[req.slot].property \in Properties
      BY <1>4, <2>3 DEF Serial, WellFormed
    <3>2. property[slots[req.slot].property] = "available" =>
            property'[slots[req.slot].property] = "available"
      BY <1>2, <1>3, <3>1
    <3>3. PICK q \in Properties : q = slots[req.slot].property
      BY <3>1
    <3>4. PendingOf(q)' = PendingOf(q)
      BY <1>5
    <3>5. PendingOf(slots[req.slot].property)' = PendingOf(slots[req.slot].property)
      BY <1>2, <3>3, <3>4 DEF PendingOf, Pending
    <3>6. QED
      BY <1>2, <2>1, <3>1, <3>2, <3>5 DEF DispatchSerial, NoInserts, OneInsert
  <2>4. req.op = "create" => CreateSerial(req)'
    BY <1>2, <1>3, <1>4 DEF Serial, CreateSerial, OneInsert
  <2>5. ASSUME req.op = "status"
        PROVE  StatusSerial(req)'
    <3>1. StatusSerial(req) /\ req.held \subseteq Live /\ req.held \subseteq Properties
          /\ req.cur \subseteq Properties
      BY <1>4, <2>5 DEF Serial, StatusSerial, Request
    <3>2. \A q \in req.held : property'[q] = property[q]
      BY <1>2, <1>3, <3>1
    <3>3. req.held \subseteq Live'
      BY <3>1, <3>2 DEF Live
    <3>4. \A q \in req.cur : property'[q] \in {req.was, "deleted"} /\ req.was \in PropertyStatus
      <4>1. \A q \in req.cur : property[q] \in {req.was, "deleted"} /\ req.was \in PropertyStatus
        BY <3>1 DEF StatusSerial
      <4>2. \A q \in req.cur : q # p
        BY <1>2, <4>1 DEF PropertyStatus
      <4>3. QED
        BY <1>3, <3>1, <4>1, <4>2
    <3>5. { i \in Pending : slots[i].property \in req.held }
            = { i \in Pending' : slots'[i].property \in req.held }
      BY <1>2, <1>5
    <3>6. QED
      BY <1>2, <2>1, <3>1, <3>2, <3>3, <3>4, <3>5 DEF StatusSerial, NoInserts
  <2>6. QED
    BY <1>2, <2>1, <2>2, <2>3, <2>4, <2>5 DEF Serial, InPhase
<1>9. SerialNext
  BY <1>6, <1>7, <1>8 DEF SerialNext
<1>10. \A q : (Rolling(q)' <=> Rolling(q)) /\ (Cancelling(q)' <=> Cancelling(q))
  BY <1>2 DEF Rolling, Cancelling, In
<1> HIDE DEF req
<1>11. place[p] = "absent" /\ place'[p] = "off"
  BY <1>2, <1>3, PlaceIs, PlaceIsNext DEF Placed
<1>12. \A q \in Properties : q # p => place'[q] = place[q]
  BY <1>3, <1>4, <1>5, <1>10, PlaceIs, PlaceIsNext DEF Placed, PropertyRow, PropertyStatus
<1>13. place' = [q \in Properties |-> IF q \in {p} THEN "off" ELSE place[q]]
  BY <1>11, <1>12, PlaceIsNext DEF Placed
<1>14. p \in Abstract!At({"absent"})
  BY <1>11 DEF Abstract!At
<1>15. Abstract!List
  BY <1>13, <1>14 DEF Abstract!List, Abstract!Move
<1>16. QED
  BY <1>9, <1>15

\* A change of the schedule, the clock, or nothing at all.
LEMMA OtherSerial ==
  ASSUME SerialInv, NEW r, Requests = {r}, UNCHANGED <<property, slots, requests>>
  PROVE  SerialNext /\ place' = place
<1>1. /\ Pending' = Pending /\ Live' = Live
      /\ \A q : /\ PendingOf(q)' = PendingOf(q)
               /\ (Rolling(q)' <=> Rolling(q)) /\ (Cancelling(q)' <=> Cancelling(q))
  BY DEF Pending, Live, PendingOf, Rolling, Cancelling, In
<1>2. OnePendingWhileAvailable' /\ DeletedTogether'
  BY <1>1 DEF SerialInv, OnePendingWhileAvailable, DeletedTogether
<1>3. \A q \in Requests : Serial(requests[q])'
  BY <1>1 DEF SerialInv, Serial, InPhase, ConsumeSerial, DispatchSerial, CreateSerial,
              StatusSerial, NoInserts, OneInsert
<1>4. \A q \in Properties : place'[q] = place[q]
  BY <1>1, SamePlace, SerialRequest
<1>5. QED
  BY <1>2, <1>3, <1>4, NobodyMoves DEF SerialNext

\* Taken one at a time, every step keeps the invariant and is a step of the
\* rotation, or none.
LEMMA SerialStep ==
  ASSUME SerialInv, NEW r, Requests = {r}, [Next]_vars
  PROVE  SerialInv' /\ [Abstract!Next]_place
<1>1. IInv'
  BY NextInv DEF SerialInv
<1>2. SerialNext /\ (place' = place \/ Abstract!Next)
  <2>1. CASE Start(r)
    BY <2>1, LoadSerial, CreateAvailableSerial, UpdateStatusSerial DEF Start, Abstract!Next
  <2>2. CASE FlushConsumed(r) \/ RollDispatched(r) \/ \E p \in Properties : ApplyStatus(r, p)
    BY <2>2, FlushConsumedSerial, RollDispatchedSerial, ApplyStatusSerial DEF Abstract!Next
  <2>3. CASE SendAccepted(r) \/ SameStatus(r) \/ \E p \in Properties : ReadProperty(r, p)
    BY <2>3, ReadSerial
  <2>4. CASE CommitCancelSlot(r) \/ CommitDispatched(r)
    BY <2>4, CommitCancelSerial, CommitDispatchedSerial DEF Abstract!Next
  <2>5. CASE Commit(r)
    <3>1. Serial(requests[r])
      BY SerialRequest
    <3>2. requests[r].op \in {"consume", "dispatch", "create", "status"}
      BY <2>5, <3>1 DEF Serial, InPhase, Commit, ReadyToCommit, In
    <3>3. QED
      BY <2>5, <3>2, CommitRollSerial, CommitCreateSerial, CommitStatusSerial DEF Abstract!Next
  <2>6. CASE Rollback(r)
    BY <2>6, RollbackSerial DEF Abstract!Next
  <2>7. CASE Step(r) \/ Crash(r)
    BY <2>2, <2>3, <2>4, <2>5, <2>6, <2>7
       DEF Step, Crash, SlotGone, SendNothing, PropertyGone, ForeignKeyError, DeadlockVictim
  <2>8. CASE \E p \in Properties : create_off_market(p)
    BY <2>8, CreateOffMarketSerial DEF Abstract!Next
  <2>9. CASE \E ids \in SUBSET Properties : delete_properties(ids)
    BY <2>9, DeleteSerial DEF Abstract!Next
  <2>10. CASE update_schedule_config \/ Tick \/ UNCHANGED vars
    BY <2>10, OtherSerial DEF update_schedule_config, Tick, vars
  <2>11. QED
    BY <2>1, <2>7, <2>8, <2>9, <2>10 DEF Next
<1>3. QED
  BY <1>1, <1>2 DEF SerialInv, SerialNext

\* An empty table and an idle request.
LEMMA InitSerial == Init => SerialInv /\ Abstract!Init
<1> SUFFICES ASSUME Init
             PROVE  SerialInv /\ Abstract!Init
  OBVIOUS
<1>1. IInv
  BY InitInv
<1>2. slots = << >> /\ Pending = {} /\ \A q \in Properties : property[q] = "absent"
  BY DEF Init, Pending
<1>3. OnePendingWhileAvailable /\ DeletedTogether
  BY <1>2 DEF OnePendingWhileAvailable, DeletedTogether
<1>4. \A q \in Requests : Serial(requests[q])
  BY NoRequestSerial DEF Init
<1>5. place = [p \in Properties |-> "absent"]
  BY <1>2, PlaceIs DEF Placed
<1>6. QED
  BY <1>1, <1>3, <1>4, <1>5 DEF SerialInv, Abstract!Init

\* Taken one at a time, the requests keep at most one slot waiting for a
\* property, and none for one that is not on the market: whatever fails on the
\* way, whatever is deleted meanwhile, however many properties a bulk change
\* moves.
THEOREM OneSlotPerProperty ==
  ASSUME NEW r, Requests = {r}
  PROVE  Spec => []OnePendingWhileAvailable
<1>1. SerialInv => OnePendingWhileAvailable
  BY DEF SerialInv
<1>2. SerialInv /\ [Next]_vars => SerialInv'
  BY SerialStep
<1>3. QED
  BY <1>1, <1>2, InitSerial, PTL DEF Spec

\* Taken one at a time, the requests implement the rotation: every step of
\* the queue is a step of it or moves nobody, so that a property drops out only
\* when a cancellation by hand is done or the roll of a dispatched slot fails.
THEOREM QueueImplementsRotation ==
  ASSUME NEW r, Requests = {r}
  PROVE  Spec => ImplementsRotation
<1>1. SerialInv /\ [Next]_vars => SerialInv' /\ [Abstract!Next]_place
  BY SerialStep
<1>2. QED
  BY <1>1, InitSerial, PTL DEF Spec, ImplementsRotation, Abstract!Spec
=============================================================================
