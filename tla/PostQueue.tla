----------------------------- MODULE PostQueue -----------------------------
(***************************************************************************)
(* The post queue of the backend: properties, their post slots and the     *)
(* HTTP requests that move them (queue_routes.py, properties.py and the    *)
(* database side of auto_poster.dispatch_slot).                            *)
(*                                                                         *)
(* A request runs in one database session.  Its awaits let any other       *)
(* request run, so an action here is what a request does between two       *)
(* awaits whose order can be observed: a SELECT, the autoflush that sends  *)
(* its pending UPDATEs before the next SELECT, a COMMIT.  The database is  *)
(* PostgreSQL at READ COMMITTED: a SELECT sees what has been committed and *)
(* the session's own writes, an UPDATE takes the row lock until the end of *)
(* the transaction and does not look at the row again (WHERE id = ...),    *)
(* an UPDATE that finds no row fails the request, the foreign key refuses  *)
(* a slot of a deleted property.                                           *)
(***************************************************************************)
EXTENDS Scheduler, Sequences

CONSTANTS
  Properties,   \* the ids properties can get; an id is used once
  Requests,     \* the sessions that can be open at the same time
  Policies,     \* the schedules the admin chooses among
  Instants,     \* the times at which requests may come in
  MaxSlots      \* bound: no new work starts on a table of this many slots

ASSUME PostQueueAssumption ==
  /\ IsFiniteSet(Requests)
  /\ IsFiniteSet(Properties)
  /\ Policies \subseteq SchedulePolicy
  /\ Instants \subseteq Time
  /\ MaxSlots \in Nat

VARIABLES
  now,        \* the clock
  policy,     \* the committed ScheduleConfig row
  property,   \* the committed status of every property row
  slots,      \* the committed post_slots table, in order of insertion
  requests    \* what every open session has done so far

vars == <<now, policy, property, slots, requests>>

-----------------------------------------------------------------------------
PropertyStatus == {"available", "rented", "sold"}
SlotStatus == {"pending", "posted", "skipped", "cancelled"}

\* "absent": not created yet; "deleted": a row removed by ON DELETE CASCADE.
PropertyRow == PropertyStatus \cup {"absent", "deleted"}
Live == { p \in Properties : property[p] \in PropertyStatus }

NewSlot == [property : Properties, at : Time]
SlotRow == [property : Properties, at : Time, status : SlotStatus \cup {"deleted"}]

\* slot    the slot the request is about, 0 for none
\* target  the status it gives (to that slot, or to the properties in held)
\* todo    the ids of a (bulk) status change still to visit
\* was     the status it read of the property it visits, cur
\* held    the property rows it has updated and locked
\* cancels the slots it read as pending and is to cancel
\* inserts the slots it adds when it commits
Request ==
  [ op      : {"none", "consume", "dispatch", "cancel", "create", "status"},
    phase   : {"idle", "loaded", "sent", "posted", "loop", "read", "flushed"},
    slot    : Nat,
    target  : SlotStatus \cup PropertyStatus \cup {"none"},
    todo    : SUBSET Properties,
    cur     : SUBSET Properties,
    was     : PropertyRow,
    held    : SUBSET Properties,
    cancels : SUBSET Nat,
    inserts : Seq(NewSlot) ]

NoRequest ==
  [ op |-> "none", phase |-> "idle", slot |-> 0, target |-> "none", todo |-> {},
    cur |-> {}, was |-> "absent", held |-> {}, cancels |-> {}, inserts |-> <<>> ]

Pending == { i \in DOMAIN slots : slots[i].status = "pending" }

In(r, phase) == requests[r].phase = phase
Idle(r) == In(r, "idle")

\* The session ends without a commit: every uncommitted write is undone.
Rollback(r) ==
  /\ requests' = [requests EXCEPT ![r] = NoRequest]
  /\ UNCHANGED <<now, policy, property, slots>>

Become(r, req) ==
  /\ requests' = [requests EXCEPT ![r] = req]
  /\ UNCHANGED <<now, policy, property, slots>>

-----------------------------------------------------------------------------
(* Row locks.                                                              *)

HoldsSlot(r, i) == requests[r].op = "consume" /\ In(r, "flushed") /\ requests[r].slot = i

SlotFree(r, i) == \A q \in Requests \ {r} : ~ HoldsSlot(q, i)

PropertyFree(r, p) == \A q \in Requests \ {r} : p \notin requests[q].held

WaitsFor(r) ==
  { q \in Requests \ {r} : In(r, "read") /\ requests[r].cur \cap requests[q].held # {} }

\* PostgreSQL ends a cycle of waiting transactions by failing one of them.
DeadlockVictim(r) ==
  /\ \E S \in SUBSET Requests :
       r \in S /\ \A q \in S : WaitsFor(q) \cap S # {}
  /\ Rollback(r)

-----------------------------------------------------------------------------
(* enqueue_property: the counts a session sees, and the slot it picks.     *)

\* The slots the session sees pending: the committed ones it has not itself
\* consumed or cancelled.
SeenPending(req) ==
  Pending \ (req.cancels \cup IF req.op = "consume" THEN {req.slot} ELSE {})

\* A bug: the session does not see the slots it has added itself.
Bug_CountSeen(req, t) == Cardinality({ i \in SeenPending(req) : slots[i].at = t })

CountSeen(req, t) ==
  Cardinality({ i \in SeenPending(req) : slots[i].at = t })
    + Cardinality({ k \in DOMAIN req.inserts : req.inserts[k].at = t })

capacity_at(req) ==
  [ t \in { slots[i].at : i \in SeenPending(req) }
            \cup { req.inserts[k].at : k \in DOMAIN req.inserts }
      |-> CountSeen(req, t) ]

\* The session, having become req, adds a slot for p; the RuntimeError of a
\* full calendar fails the request.
enqueue_property(r, req, p, floor) ==
  LET when == next_post_slot(floor, capacity_at(req), policy)
  IN  IF when = NoSlot
      THEN Rollback(r)
      ELSE Become(r, [req EXCEPT !.inserts = Append(@, [property |-> p, at |-> when])])

-----------------------------------------------------------------------------
(* mark_posted, skip_slot, dispatch_now and cancel_slot begin by loading   *)
(* the slot; one that is not pending gets a 404, a 409 or nothing at all.  *)

Load(r, op, i, target) ==
  /\ Idle(r)
  /\ Len(slots) < MaxSlots
  /\ i \in Pending
  /\ Become(r, [NoRequest EXCEPT !.op = op, !.phase = "loaded",
                                 !.slot = i, !.target = target])

mark_posted(r, i) == Load(r, "consume", i, "posted")
skip_slot(r, i) == Load(r, "consume", i, "skipped")
cancel_slot(r, i) == Load(r, "cancel", i, "cancelled")
dispatch_now(r, i) == Load(r, "dispatch", i, "posted")

\* A bug: the slot is used up and the next one forgotten.
Bug_FlushConsumed(r) ==
  LET i == requests[r].slot
  IN  /\ requests[r].op = "consume" /\ In(r, "loaded")
      /\ SlotFree(r, i)
      /\ slots[i].status # "deleted"
      /\ Become(r, [requests[r] EXCEPT !.phase = "flushed"])

\* The UPDATE of the slot, flushed by the capacity query, and the next slot,
\* strictly after the one that is used up.
FlushConsumed(r) ==
  LET i == requests[r].slot
  IN  /\ requests[r].op = "consume" /\ In(r, "loaded")
      /\ SlotFree(r, i)
      /\ slots[i].status # "deleted"
      /\ enqueue_property(r, [requests[r] EXCEPT !.phase = "flushed"],
                          slots[i].property, slots[i].at)

CommitCancelSlot(r) ==
  LET i == requests[r].slot
  IN  /\ requests[r].op = "cancel" /\ In(r, "loaded")
      /\ SlotFree(r, i)
      /\ slots[i].status # "deleted"
      /\ slots' = [slots EXCEPT ![i].status = "cancelled"]
      /\ requests' = [requests EXCEPT ![r] = NoRequest]
      /\ UNCHANGED <<now, policy, property>>

\* The UPDATE of a slot deleted in the meantime (StaleDataError).
SlotGone(r) ==
  /\ \/ requests[r].op \in {"consume", "cancel"} /\ In(r, "loaded")
     \/ In(r, "sent")
  /\ slots[requests[r].slot].status = "deleted"
  /\ Rollback(r)

-----------------------------------------------------------------------------
(* dispatch_now: two transactions around the sends of dispatch_slot.       *)

SendAccepted(r) ==
  /\ requests[r].op = "dispatch" /\ In(r, "loaded")
  /\ Become(r, [requests[r] EXCEPT !.phase = "sent"])

\* No daemon, no property, no matching group, or no group accepted the post.
SendNothing(r) ==
  /\ requests[r].op = "dispatch" /\ In(r, "loaded")
  /\ Rollback(r)

CommitDispatched(r) ==
  LET i == requests[r].slot
  IN  /\ In(r, "sent")
      /\ SlotFree(r, i)
      /\ slots[i].status # "deleted"
      /\ slots' = [slots EXCEPT ![i].status = "posted"]
      /\ requests' = [requests EXCEPT ![r].phase = "posted"]
      /\ UNCHANGED <<now, policy, property>>

RollDispatched(r) ==
  LET i == requests[r].slot
  IN  /\ In(r, "posted")
      /\ enqueue_property(r, [requests[r] EXCEPT !.phase = "flushed"],
                          slots[i].property, slots[i].at)

-----------------------------------------------------------------------------
(* properties.py: create_property, update_property and bulk_update_status, *)
(* delete_property and bulk_delete.                                        *)

create_available(r, p) ==
  /\ Idle(r)
  /\ Len(slots) < MaxSlots
  /\ property[p] = "absent" /\ PropertyFree(r, p)
  /\ enqueue_property(r, [NoRequest EXCEPT !.op = "create", !.phase = "flushed",
                                           !.held = {p}, !.target = "available"],
                      p, now)

create_off_market(p) ==
  /\ property[p] = "absent" /\ \A r \in Requests : p \notin requests[r].held
  /\ \E status \in {"rented", "sold"} : property' = [property EXCEPT ![p] = status]
  /\ UNCHANGED <<now, policy, slots, requests>>

\* One id is update_property, several are bulk_update_status.
update_status(r, ids, status) ==
  /\ Idle(r)
  /\ Len(slots) < MaxSlots
  /\ ids # {}
  /\ Become(r, [NoRequest EXCEPT !.op = "status", !.phase = "loop",
                                 !.todo = ids, !.target = status])

\* session.get: an id without a row is left out.
ReadProperty(r, p) ==
  /\ In(r, "loop")
  /\ p \in requests[r].todo
  /\ Become(r, [requests[r] EXCEPT !.todo = @ \ {p},
                                   !.phase = IF p \in Live THEN "read" ELSE "loop",
                                   !.cur = IF p \in Live THEN {p} ELSE {},
                                   !.was = IF p \in Live THEN property[p] ELSE "absent"])

\* Decided on the status read before; the autoflush updates and locks the row.
ApplyStatus(r, p) ==
  LET req  == requests[r]
      next == [req EXCEPT !.phase = "loop", !.cur = {}, !.was = "absent",
                        !.held = @ \cup {p}]
  IN  /\ In(r, "read") /\ req.cur = {p}
      /\ req.was # req.target
      /\ PropertyFree(r, p)
      /\ p \in Live
      /\ \/ /\ req.was = "available"
            /\ Become(r, [next EXCEPT !.cancels =
                 @ \cup { i \in SeenPending(req) : slots[i].property = p }])
         \/ /\ req.was # "available" /\ req.target = "available"
            /\ enqueue_property(r, next, p, now)
         \/ /\ req.was # "available" /\ req.target # "available"
            /\ Become(r, next)

\* Nothing changes, so nothing is written and nothing is locked.
SameStatus(r) ==
  /\ In(r, "read")
  /\ requests[r].was = requests[r].target
  /\ Become(r, [requests[r] EXCEPT !.phase = "loop", !.cur = {}, !.was = "absent"])

PropertyGone(r) ==
  /\ In(r, "read")
  /\ requests[r].was # requests[r].target
  /\ requests[r].cur \cap Live = {}
  /\ Rollback(r)

\* ON DELETE CASCADE takes the slots; the DELETE waits for the locks.
delete_properties(ids) ==
  LET gone == { i \in DOMAIN slots : slots[i].property \in ids }
  IN  /\ ids # {} /\ ids \subseteq Live
      /\ \A r \in Requests : requests[r].held \cap ids = {}
      /\ \A r \in Requests : \A i \in gone : ~ HoldsSlot(r, i)
      /\ property' = [p \in Properties |-> IF p \in ids THEN "deleted" ELSE property[p]]
      /\ slots' = [i \in DOMAIN slots |->
                     IF i \in gone THEN [slots[i] EXCEPT !.status = "deleted"]
                                   ELSE slots[i]]
      /\ UNCHANGED <<now, policy, requests>>

-----------------------------------------------------------------------------
(* The commit of a request that has flushed, and the ways it may not end.  *)

ReadyToCommit(r) ==
  \/ In(r, "flushed")
  \/ In(r, "loop") /\ requests[r].todo = {}

\* Every property a new slot belongs to is there, or is created with it.
ForeignKeysHold(r) ==
  \A k \in DOMAIN requests[r].inserts :
    requests[r].inserts[k].property \in Live \cup requests[r].held

\* A bug: leaving the market cancels nothing.
Bug_StatusWritten(req, i) ==
  IF req.op = "consume" /\ i = req.slot THEN req.target ELSE slots[i].status

StatusWritten(req, i) ==
  IF i \in req.cancels THEN "cancelled"
  ELSE IF req.op = "consume" /\ i = req.slot THEN req.target
  ELSE slots[i].status

\* A bug: a bulk listing adds its slot once, after the loop over the ids.
Bug_NewRows(req) ==
  [ k \in {1} \cap DOMAIN req.inserts |->
      [ property |-> req.inserts[Len(req.inserts)].property,
        at |-> req.inserts[Len(req.inserts)].at, status |-> "pending" ] ]

NewRows(req) ==
  [ k \in DOMAIN req.inserts |->
      [ property |-> req.inserts[k].property, at |-> req.inserts[k].at,
        status |-> "pending" ] ]

Commit(r) ==
  LET req == requests[r]
  IN  /\ ReadyToCommit(r)
      /\ ForeignKeysHold(r)
      /\ \A i \in req.cancels : SlotFree(r, i)
      /\ slots' = [ i \in DOMAIN slots |->
                      [slots[i] EXCEPT !.status = StatusWritten(req, i)] ]
                    \o NewRows(req)
      /\ property' = [ p \in Properties |->
                         IF p \in req.held THEN req.target ELSE property[p] ]
      /\ requests' = [requests EXCEPT ![r] = NoRequest]
      /\ UNCHANGED <<now, policy>>

ForeignKeyError(r) ==
  /\ ReadyToCommit(r)
  /\ ~ ForeignKeysHold(r)
  /\ Rollback(r)

\* The instance is stopped, the connection is lost, a query fails.
Crash(r) ==
  /\ ~ Idle(r)
  /\ Rollback(r)

-----------------------------------------------------------------------------
update_schedule_config ==
  /\ policy' \in Policies \ {policy}
  /\ UNCHANGED <<now, property, slots, requests>>

Tick ==
  /\ now' \in { t \in Instants : t > now }
  /\ UNCHANGED <<policy, property, slots, requests>>

Init ==
  /\ now \in Instants
  /\ policy \in Policies
  /\ property = [p \in Properties |-> "absent"]
  /\ slots = <<>>
  /\ requests = [r \in Requests |-> NoRequest]

Start(r) ==
  \/ \E i \in DOMAIN slots : \/ mark_posted(r, i)
                             \/ skip_slot(r, i)
                             \/ cancel_slot(r, i)
                             \/ dispatch_now(r, i)
  \/ \E p \in Properties : create_available(r, p)
  \/ \E ids \in SUBSET Live, status \in PropertyStatus : update_status(r, ids, status)

\* What a started request does on its own.
Step(r) ==
  \/ FlushConsumed(r) \/ CommitCancelSlot(r) \/ SlotGone(r)
  \/ SendAccepted(r) \/ SendNothing(r) \/ CommitDispatched(r) \/ RollDispatched(r)
  \/ \E p \in Properties : ReadProperty(r, p) \/ ApplyStatus(r, p)
  \/ SameStatus(r) \/ PropertyGone(r)
  \/ Commit(r) \/ ForeignKeyError(r) \/ DeadlockVictim(r)

Next ==
  \/ \E r \in Requests : Start(r) \/ Step(r) \/ Crash(r)
  \/ \E p \in Properties : create_off_market(p)
  \/ \E ids \in SUBSET Properties : delete_properties(ids)
  \/ update_schedule_config
  \/ Tick

Spec == Init /\ [][Next]_vars

-----------------------------------------------------------------------------
(* What the queue promises.                                                *)

TypeOK ==
  /\ now \in Instants
  /\ policy \in Policies
  /\ property \in [Properties -> PropertyRow]
  /\ slots \in Seq(SlotRow)
  /\ requests \in [Requests -> Request]

PendingAt(t) == { i \in Pending : slots[i].at = t }

MaxPosts == Max({ pol.posts_per_slot : pol \in Policies })

\* Requests count the pending slots before they commit their own, so the
\* capacity of a slot can be overshot; never beyond one capacity for every
\* request that can be open at once, and not at all when there is one.
OvershootBounded ==
  \A i \in Pending : Cardinality(PendingAt(slots[i].at)) <= MaxPosts * Cardinality(Requests)

\* No interleaving of creation, deletion and rolling leaves a pending slot
\* for a property that is not there (the join of list_queue hides nothing).
PendingHasProperty == \A i \in Pending : slots[i].property \in Live

SlotsOf(p) == { i \in DOMAIN slots : slots[i].property = p }

LastSlot(p) == slots[Max(SlotsOf(p))]

\* Skipping never takes a property out of the rotation: the slot that follows
\* is committed with the skip or not at all, whoever else works on the slot.
SkipRolls ==
  \A p \in Live : SlotsOf(p) # {} => LastSlot(p).status # "skipped"

\* A used slot is never handed out again, although racing requests may
\* overwrite posted with skipped or cancelled.
NeverPendingAgain ==
  [][\A i \in DOMAIN slots :
       slots[i].status # "pending" => slots'[i].status # "pending"]_vars

\* dispatch_now has committed the slot it posted, and not yet the next one.
Rolling(p) ==
  \E r \in Requests : /\ In(r, "posted") \/ In(r, "flushed")
                      /\ requests[r].op = "dispatch"
                      /\ slots[requests[r].slot].property = p

\* On the market, and nothing will post it.
Dropped(p) == property[p] = "available" /\ SlotsOf(p) \cap Pending = {} /\ ~ Rolling(p)

\* Request r, which cancels a slot of p by hand or rolls one it dispatched, ends.
EndsHere(r, p) ==
  /\ requests[r].op \in {"cancel", "dispatch"}
  /\ slots[requests[r].slot].property = p
  /\ requests'[r] = NoRequest

\* queue_routes.py:4-6 ("that property is auto-queued into the next available
\* slot forever"): however its requests are interleaved, refused by the
\* database or stopped, a property on the market is left without a slot only
\* by a cancellation by hand or by the failed roll of a dispatched slot; never
\* by a listing, a skip, a mark as posted or a bulk change that is broken off.
StaysInRotation ==
  [][\A p \in Properties :
       ~ Dropped(p) /\ Dropped(p)' => \E r \in Requests : EndsHere(r, p)]_vars

-----------------------------------------------------------------------------
(* What holds when the requests do not overlap.                            *)

\* queue_routes.py:4-8: the rotation keeps one slot per property waiting, never
\* two, and leaving the market takes the pending slot with it.
OnePendingWhileAvailable ==
  \A i \in Pending :
    /\ property[slots[i].property] = "available"
    /\ \A j \in Pending \ {i} : slots[j].property # slots[i].property

\* The refinement mapping to Rotation: where every property stands.
Cancelling(p) ==
  \E r \in Requests : requests[r].op = "cancel" /\ slots[requests[r].slot].property = p

place ==
  [ p \in Properties |->
      CASE property[p] \in {"absent", "deleted"} -> property[p]
        [] property[p] \in {"rented", "sold"} -> "off"
        [] OTHER -> IF Rolling(p) THEN "rolling"
                    ELSE IF SlotsOf(p) \cap Pending = {} THEN "dropped"
                    ELSE IF Cancelling(p) THEN "cancelling" ELSE "queued" ]

Abstract == INSTANCE Rotation WITH Properties <- Properties, place <- place

\* Taken one at a time, the requests implement the rotation: a property is
\* queued as long as it is on the market, drops out only when a cancellation
\* by hand commits or the roll of a dispatched slot fails, and comes back only
\* through a status change.
ImplementsRotation == Abstract!Spec
=============================================================================
