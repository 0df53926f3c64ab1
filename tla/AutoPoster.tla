----------------------------- MODULE AutoPoster -----------------------------
(***************************************************************************)
(* The posting of one slot to the WhatsApp groups: dispatch_now of         *)
(* queue_routes.py with dispatch_slot and _send_group_post of              *)
(* auto_poster.py, the calls of whatsapp_client.py and what becomes of them*)
(* at the daemon.                                                          *)
(*                                                                         *)
(* A dispatch reads the matching groups once, then runs a chain of sends   *)
(* for each, a semaphore bounding how many chains are at it.  A chain sends*)
(* the collage with the text, item 0, then the photos 1, 2, ...  A send    *)
(* that gets no answer in time counts as failed, and may still be delivered*)
(* later.  Dispatches of the same slot may overlap, and other requests use *)
(* the slot meanwhile.  The groups are read once; the admin edits them as  *)
(* he likes.                                                               *)
(***************************************************************************)
EXTENDS Integers, FiniteSets

CONSTANTS
  Groups,      \* rows of groups, the ones yet to be created included
  Dispatches,  \* requests to dispatch the slot
  Concurrency, \* _GROUP_SEND_CONCURRENCY
  MaxPhotos    \* bound: branded photos of a share pack

ASSUME AutoPosterAssumption ==
  /\ IsFiniteSet(Groups)
  /\ Concurrency \in Nat \ {0}
  /\ MaxPhotos \in Nat

VARIABLES
  slot,       \* the committed status of the slot
  dispatch,   \* the request: how far it is, and its number of photos
  chain,      \* the chain of sends of a dispatch for a group
  sem,        \* the value of the semaphore of a dispatch
  in_flight,  \* sends the daemon has yet to hand to WhatsApp
  delivered,  \* history: sends that reached their group
  earlier     \* history: dispatches that were over when one was let in

vars == <<slot, dispatch, chain, sem, in_flight, delivered, earlier>>

-----------------------------------------------------------------------------
\* "closed": posted by hand, skipped or cancelled.
SlotStatus == {"pending", "posted", "closed"}

Item == 0 .. MaxPhotos
Send == Dispatches \X Groups \X Item

Dispatch == [ phase : {"idle", "groups", "sending", "done", "crashed"}, photos : Item ]
Chain == [ at : {"none", "waiting", "sending", "ok", "failed"}, item : Item ]
NoChain == [ at |-> "none", item |-> 0 ]

At(d, g, where) == chain[d][g].at = where
Sending(d) == { g \in Groups : At(d, g, "sending") }

\* The answers a dispatch has counted: result.succeeded, result.group_failures.
Succeeded(d) == { g \in Groups : At(d, g, "ok") }
Failed(d) == { g \in Groups : At(d, g, "failed") }

Become(d, phase) == dispatch' = [dispatch EXCEPT ![d].phase = phase]
Move(d, g, at, item) == chain' = [chain EXCEPT ![d][g] = [at |-> at, item |-> item]]

-----------------------------------------------------------------------------
(* The request.                                                            *)

\* Any slot that is not pending gets 409.
dispatch_now(d) ==
  /\ dispatch[d].phase = "idle"
  /\ slot = "pending"
  /\ Become(d, "groups")
  /\ earlier' = [earlier EXCEPT ![d] = { e \in Dispatches : dispatch[e].phase = "done" }]
  /\ UNCHANGED <<slot, chain, sem, in_flight, delivered>>

\* "whatsapp_daemon_unconfigured" or "no_matching_groups": nothing is sent.
Skipped(d) ==
  /\ dispatch[d].phase = "groups"
  /\ Become(d, "done")
  /\ UNCHANGED <<slot, chain, sem, in_flight, delivered, earlier>>

\* The rows as the admin has left them are read once, and the groups found now
\* are the ones that get the post, whatever becomes of the rows.  Without a
\* share pack there are no photos and the post is a text.
_active_target_groups(d) ==
  /\ dispatch[d].phase = "groups"
  /\ \E k \in Item : dispatch' = [dispatch EXCEPT ![d] = [phase |-> "sending", photos |-> k]]
  /\ \E matching \in SUBSET Groups \ {{}} : \E no_target \in SUBSET matching :
       chain' = [chain EXCEPT ![d] = [ g \in Groups |->
                   IF g \notin matching THEN NoChain
                   ELSE [ at |-> IF g \in no_target THEN "failed" ELSE "waiting",
                          item |-> 0 ] ]]
  /\ sem' = [sem EXCEPT ![d] = Concurrency]
  /\ UNCHANGED <<slot, in_flight, delivered, earlier>>

-----------------------------------------------------------------------------
(* A chain.                                                                *)

Acquire(d, g) ==
  /\ dispatch[d].phase = "sending" /\ At(d, g, "waiting")
  /\ sem[d] > 0
  /\ sem' = [sem EXCEPT ![d] = @ - 1]
  /\ Move(d, g, "sending", 0)
  /\ in_flight' = in_flight \cup {<<d, g, 0>>}
  /\ UNCHANGED <<slot, dispatch, delivered, earlier>>

\* The chain ends and leaves the semaphore.
Release(d, g, at) ==
  /\ Move(d, g, at, chain[d][g].item)
  /\ sem' = [sem EXCEPT ![d] = @ + 1]

NextPhoto(d, g, flying) ==
  /\ chain[d][g].item < dispatch[d].photos
  /\ Move(d, g, "sending", chain[d][g].item + 1)
  /\ in_flight' = flying \cup {<<d, g, chain[d][g].item + 1>>}
  /\ UNCHANGED sem

AllSent(d, g, flying) ==
  /\ chain[d][g].item = dispatch[d].photos
  /\ Release(d, g, "ok")
  /\ in_flight' = flying

\* Bugs: a failed collage leaves the semaphore taken; it is followed by the
\* photos.
Bug_Resume(d, g, accepted, flying) ==
  \/ /\ chain[d][g].item = 0 /\ ~ accepted
     /\ Move(d, g, "failed", 0)
     /\ in_flight' = flying
     /\ UNCHANGED sem
  \/ /\ chain[d][g].item > 0 \/ accepted
     /\ NextPhoto(d, g, flying) \/ AllSent(d, g, flying)
Bug_ResumePhotos(d, g, accepted, flying) ==
  NextPhoto(d, g, flying) \/ AllSent(d, g, flying)

\* What a chain does with the answer to its send: a photo that failed is
\* tallied, a collage that failed ends the chain.
Resume(d, g, accepted, flying) ==
  \/ /\ chain[d][g].item = 0 /\ ~ accepted
     /\ Release(d, g, "failed")
     /\ in_flight' = flying
  \/ /\ chain[d][g].item > 0 \/ accepted
     /\ NextPhoto(d, g, flying) \/ AllSent(d, g, flying)

Answered(d, g) ==
  /\ dispatch[d].phase = "sending" /\ At(d, g, "sending")
  /\ UNCHANGED <<slot, dispatch, delivered, earlier>>

InHand(d, g) == <<d, g, chain[d][g].item>>

\* The daemon has sent it, and its answer arrives.
SendAccepted(d, g) ==
  /\ InHand(d, g) \in delivered
  /\ Answered(d, g) /\ Resume(d, g, TRUE, in_flight)

\* The daemon is not connected, or Baileys throws: it is never sent.
SendRefused(d, g) ==
  /\ InHand(d, g) \in in_flight
  /\ Answered(d, g) /\ Resume(d, g, FALSE, in_flight \ {InHand(d, g)})

\* Thirty seconds without an answer, a broken connection, or a message that
\* was sent and has no id: sent, never sent, or still to be sent.
SendUnanswered(d, g) == Answered(d, g) /\ Resume(d, g, FALSE, in_flight)

\* sock.sendMessage of the daemon.
Deliver(s) ==
  /\ s \in in_flight
  /\ in_flight' = in_flight \ {s}
  /\ delivered' = delivered \cup {s}
  /\ UNCHANGED <<slot, dispatch, chain, sem, earlier>>

-----------------------------------------------------------------------------
(* The end of a dispatch.                                                  *)

Gathered(d) ==
  /\ dispatch[d].phase = "sending"
  /\ \A g \in Groups : ~ At(d, g, "waiting") /\ ~ At(d, g, "sending")

\* Bugs: the slot is posted only if every group was reached; whoever was tried.
Bug_Gather(d) ==
  /\ Gathered(d) /\ Become(d, "done")
  /\ slot' = IF Succeeded(d) # {} /\ Failed(d) = {} THEN "posted" ELSE slot
  /\ UNCHANGED <<chain, sem, in_flight, delivered, earlier>>
\* Any success flips the slot to posted, whatever it holds by then.
Gather(d) ==
  /\ Gathered(d) /\ Become(d, "done")
  /\ slot' = IF Succeeded(d) # {} THEN "posted" ELSE slot
  /\ UNCHANGED <<chain, sem, in_flight, delivered, earlier>>

\* The instance stops, a query fails, or the share pack cannot be rendered.
\* What the daemon has been handed it still has.
Crash(d) ==
  /\ dispatch[d].phase \in {"groups", "sending"}
  /\ Become(d, "crashed")
  /\ UNCHANGED <<slot, chain, sem, in_flight, delivered, earlier>>

-----------------------------------------------------------------------------
(* The other requests.                                                     *)

\* mark_posted, skip_slot, cancel_slot, cancel_pending_for.
close_slot ==
  /\ slot = "pending"
  /\ slot' = "closed"
  /\ UNCHANGED <<dispatch, chain, sem, in_flight, delivered, earlier>>

-----------------------------------------------------------------------------
Init ==
  /\ slot = "pending"
  /\ dispatch = [ d \in Dispatches |-> [phase |-> "idle", photos |-> 0] ]
  /\ chain = [ d \in Dispatches |-> [ g \in Groups |-> NoChain ] ]
  /\ sem = [ d \in Dispatches |-> Concurrency ]
  /\ in_flight = {} /\ delivered = {}
  /\ earlier = [ d \in Dispatches |-> {} ]

\* The steps the event loop and the 30 s timeout see to.
ChainStep(d, g) ==
  Acquire(d, g) \/ SendAccepted(d, g) \/ SendRefused(d, g) \/ SendUnanswered(d, g)

DispatchStep(d) ==
  \/ Skipped(d) \/ _active_target_groups(d) \/ Gather(d)
  \/ \E g \in Groups : ChainStep(d, g)

Next ==
  \/ \E d \in Dispatches : dispatch_now(d) \/ DispatchStep(d) \/ Crash(d)
  \/ \E s \in in_flight : Deliver(s)
  \/ close_slot

Spec == Init /\ [][Next]_vars

FairSpec == Spec /\ \A d \in Dispatches : WF_vars(DispatchStep(d))

-----------------------------------------------------------------------------
TypeOK ==
  /\ slot \in SlotStatus
  /\ dispatch \in [Dispatches -> Dispatch]
  /\ chain \in [Dispatches -> [Groups -> Chain]]
  /\ sem \in [Dispatches -> 0 .. Concurrency]
  /\ in_flight \subseteq Send
  /\ delivered \subseteq Send
  /\ earlier \in [Dispatches -> SUBSET Dispatches]

\* auto_poster.py:36: no more groups than the semaphore allows have their
\* chain at work, though every way out of a chain has to give its place back.
BoundedConcurrency == \A d \in Dispatches : Cardinality(Sending(d)) <= Concurrency

\* auto_poster.py:84: within a group the collage comes before the photos, even
\* the ones that are delivered after their send was given up.
PhotosFollowCollage ==
  \A s \in delivered : <<s[1], s[2], 0>> \in delivered

\* A group a dispatch reports as reached has the post.
ReachedHasPost ==
  \A d \in Dispatches : \A g \in Succeeded(d) : <<d, g, 0>> \in delivered

\* A slot that reads posted has been posted to a group at least.
PostedMeansSent == slot = "posted" => \E s \in delivered : s[3] = 0

\* auto_poster.py:190: a slot is dispatched again only after dispatches no group
\* acknowledged, so that a retry repeats no post that is known to have arrived.
RetryOnlyUnacknowledged ==
  \A d \in Dispatches : \A e \in earlier[d] : Succeeded(e) = {}

\* Every dispatch that is let in ends, whatever the daemon answers and however
\* many groups wait for the semaphore.
DispatchesEnd ==
  \A d \in Dispatches :
    dispatch[d].phase = "groups" ~> dispatch[d].phase \in {"done", "crashed"}
=============================================================================
