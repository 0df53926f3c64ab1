------------------------------ MODULE Rotation ------------------------------
(***************************************************************************)
(* What the post queue is for, without slots, requests or a clock: where   *)
(* every property stands in the posting rotation, and what may take it out.*)
(*                                                                         *)
(*   absent --> queued <--> off        queued, dropped --> off             *)
(*              queued <--> cancelling --> dropped                         *)
(*              queued <--> rolling    --> dropped                         *)
(*                                                                         *)
(* and from everywhere but absent to deleted.                              *)
(***************************************************************************)
CONSTANT Properties

VARIABLE place

Place == {"absent", "queued", "cancelling", "rolling", "dropped", "off", "deleted"}

Init == place = [p \in Properties |-> "absent"]

Move(ids, to) == place' = [p \in Properties |-> IF p \in ids THEN to ELSE place[p]]

At(where) == { p \in Properties : place[p] \in where }

\* A new property is posted until further notice, or is not on the market.
List == \E p \in At({"absent"}) : Move({p}, "queued") \/ Move({p}, "off")

\* One status change may move several properties.
PutOnMarket == \E ids \in SUBSET At({"off"}) : Move(ids, "queued")

TakeOff == \E ids \in SUBSET At({"queued", "dropped"}) : Move(ids, "off")

\* Somebody is about to cancel the post of the property by hand.
Cancel == \E p \in At({"queued"}) : Move({p}, "cancelling")

\* The property has been posted at once, its next post is not arranged yet.
Roll == \E p \in At({"queued"}) : Move({p}, "rolling")

\* The cancellation is given up, or the next post is arranged.
Stay == \E p \in At({"cancelling", "rolling"}) : Move({p}, "queued")

\* Available, and yet nothing will post it: the cancellation is done, or the
\* next post of a property posted at once could not be arranged.
Drop == \E p \in At({"cancelling", "rolling"}) : Move({p}, "dropped")

Delete ==
  \E ids \in SUBSET At({"queued", "cancelling", "rolling", "dropped", "off"}) :
    Move(ids, "deleted")

Next ==
  \/ List \/ PutOnMarket \/ TakeOff
  \/ Cancel \/ Roll \/ Stay \/ Drop
  \/ Delete

Spec == Init /\ [][Next]_place
=============================================================================
