-------------------------- MODULE AutoPosterProofs --------------------------
(***************************************************************************)
(* For any groups, dispatches, photos and places of the semaphore: what a  *)
(* group gets and when, and what the status of the slot says of it.        *)
(***************************************************************************)
EXTENDS AutoPoster, FiniteSetTheorems, TLAPS

Sent == in_flight \cup delivered

Held(chains) == { g \in Groups : chains[g].at = "sending" }

\* Every place of a semaphore is free or held by one chain.
PermitInv ==
  \A d \in Dispatches : sem[d] + Cardinality(Held(chain[d])) = Concurrency

\* No chain is ahead of its sends, or past a collage that did not arrive, and
\* nothing is sent before the groups are read.
SendInv ==
  \A d \in Dispatches, g \in Groups :
    /\ \A k \in Item : <<d, g, k>> \in Sent => k <= chain[d][g].item
    /\ chain[d][g].item > 0 \/ At(d, g, "ok") => <<d, g, 0>> \in delivered
    /\ At(d, g, "waiting") => chain[d][g].item = 0
    /\ dispatch[d].phase \in {"idle", "groups"} =>
         At(d, g, "none") /\ \A k \in Item : <<d, g, k>> \notin Sent

\* The slot is posted exactly by the dispatches a group has acknowledged.
SlotInv ==
  /\ slot = "posted" =>
       \E d \in Dispatches : dispatch[d].phase = "done" /\ Succeeded(d) # {}
  /\ \A d \in Dispatches :
       dispatch[d].phase = "done" /\ Succeeded(d) # {} => slot = "posted"
  /\ \A d \in Dispatches : \A e \in earlier[d] :
       dispatch[e].phase = "done" /\ Succeeded(e) = {}

IInv == TypeOK /\ PermitInv /\ SendInv /\ SlotInv

-----------------------------------------------------------------------------
LEMMA ZeroIsAnItem == 0 \in Item
BY AutoPosterAssumption DEF Item

LEMMA HeldFinite ==
  ASSUME NEW d \in Dispatches
  PROVE  IsFiniteSet(Held(chain[d])) /\ Cardinality(Held(chain[d])) \in Nat
<1>1. Held(chain[d]) \in SUBSET Groups
  BY DEF Held
<1>2. IsFiniteSet(Held(chain[d]))
  BY <1>1, FS_Subset, AutoPosterAssumption
<1>3. QED
  BY <1>2, FS_CardinalityType

LEMMA InitIInv == ASSUME Init PROVE IInv
<1>1. TypeOK
  BY ZeroIsAnItem, AutoPosterAssumption
     DEF Init, TypeOK, SlotStatus, Dispatch, Chain, NoChain
<1>2. PermitInv
  <2> SUFFICES ASSUME NEW d \in Dispatches
               PROVE  sem[d] + Cardinality(Held(chain[d])) = Concurrency
    BY DEF PermitInv
  <2>1. Held(chain[d]) = {}
    BY DEF Init, Held, NoChain
  <2>2. sem[d] = Concurrency
    BY DEF Init
  <2>3. QED
    BY <2>1, <2>2, FS_EmptySet, AutoPosterAssumption
<1>3. SendInv
  BY DEF Init, SendInv, Sent, At, NoChain
<1>4. SlotInv
  BY DEF Init, SlotInv
<1>5. QED
  BY <1>1, <1>2, <1>3, <1>4 DEF IInv

-----------------------------------------------------------------------------
(* The steps of a chain.                                                   *)

\* A chain that moves on from c to the state to, and sends at most the item it
\* is then at, spoils neither what is known of the sends nor of the slot.
LEMMA ChainMoves ==
  ASSUME IInv, NEW d \in Dispatches, NEW g \in Groups, NEW to \in Chain,
         dispatch[d].phase = "sending",
         chain' = [chain EXCEPT ![d][g] = to],
         to.at # "waiting", to.item >= chain[d][g].item,
         to.item > 0 \/ to.at = "ok" => <<d, g, 0>> \in delivered,
         NEW k0 \in Item, k0 <= to.item,
         in_flight' \subseteq in_flight \cup {<<d, g, k0>>},
         UNCHANGED <<slot, dispatch, delivered, earlier>>
  PROVE  SendInv' /\ SlotInv' /\ chain' \in [Dispatches -> [Groups -> Chain]]
<1>1. chain' \in [Dispatches -> [Groups -> Chain]]
  BY DEF IInv, TypeOK
<1>2. \A e \in Dispatches, h \in Groups :
        chain'[e][h] = IF e = d /\ h = g THEN to ELSE chain[e][h]
  BY DEF IInv, TypeOK
<1>3. SendInv'
  <2> SUFFICES ASSUME NEW e \in Dispatches, NEW h \in Groups
               PROVE  /\ \A k \in Item : <<e, h, k>> \in Sent' => k <= chain'[e][h].item
                      /\ chain'[e][h].item > 0 \/ chain'[e][h].at = "ok"
                           => <<e, h, 0>> \in delivered'
                      /\ chain'[e][h].at = "waiting" => chain'[e][h].item = 0
                      /\ dispatch'[e].phase \in {"idle", "groups"} =>
                           /\ chain'[e][h].at = "none"
                           /\ \A k \in Item : <<e, h, k>> \notin Sent'
    BY DEF SendInv, At
  <2>1. /\ \A k \in Item : <<e, h, k>> \in Sent => k <= chain[e][h].item
        /\ chain[e][h].item > 0 \/ chain[e][h].at = "ok" => <<e, h, 0>> \in delivered
        /\ chain[e][h].at = "waiting" => chain[e][h].item = 0
        /\ dispatch[e].phase \in {"idle", "groups"} =>
             chain[e][h].at = "none" /\ \A k \in Item : <<e, h, k>> \notin Sent
    BY DEF IInv, SendInv, At
  <2>2. CASE e = d /\ h = g
    <3>1. chain'[e][h] = to
      BY <1>2, <2>2
    <3>2. ASSUME NEW k \in Item, <<e, h, k>> \in Sent'
          PROVE  k <= to.item
      <4>1. <<e, h, k>> \in Sent \/ k = k0
        BY <2>2, <3>2 DEF Sent
      <4>2. k \in Int /\ k0 \in Int /\ to.item \in Int /\ chain[e][h].item \in Int
        BY <2>2 DEF IInv, TypeOK, Chain, Item
      <4>3. QED
        BY <4>1, <4>2, <2>1, <2>2
    <3>3. QED
      BY <2>2, <3>1, <3>2
  <2>3. CASE ~ (e = d /\ h = g)
    <3>1. chain'[e][h] = chain[e][h]
      BY <1>2, <2>3
    <3>2. \A k \in Item : <<e, h, k>> \in Sent' => <<e, h, k>> \in Sent
      BY <2>3 DEF Sent
    <3>3. QED
      BY <2>1, <3>1, <3>2
  <2>4. QED
    BY <2>2, <2>3
<1>4. SlotInv'
  <2>1. \A e \in Dispatches : dispatch[e].phase = "done" => Succeeded(e)' = Succeeded(e)
    BY <1>2 DEF Succeeded, At
  <2>2. \A e \in Dispatches : earlier[e] \subseteq Dispatches
    BY DEF IInv, TypeOK
  <2>3. QED
    BY <2>1, <2>2 DEF IInv, SlotInv
<1>5. QED
  BY <1>1, <1>3, <1>4

\* A chain that enters takes a place, and one that leaves gives it back.
LEMMA TakesPlace ==
  ASSUME IInv, NEW d \in Dispatches, NEW g \in Groups, ~ At(d, g, "sending"),
         sem[d] > 0, sem' = [sem EXCEPT ![d] = @ - 1],
         \A e \in Dispatches :
           Held(chain'[e]) =
             IF e = d THEN Held(chain[d]) \cup {g} ELSE Held(chain[e])
  PROVE  PermitInv' /\ sem' \in [Dispatches -> 0 .. Concurrency]
<1>1. /\ sem \in [Dispatches -> 0 .. Concurrency]
      /\ Concurrency \in Nat
  BY AutoPosterAssumption DEF IInv, TypeOK
<1>2. Cardinality(Held(chain[d]) \cup {g}) = Cardinality(Held(chain[d])) + 1
  BY HeldFinite, FS_AddElement DEF Held, At
<1>3. PermitInv'
  <2> SUFFICES ASSUME NEW e \in Dispatches
               PROVE  sem'[e] + Cardinality(Held(chain'[e])) = Concurrency
    BY DEF PermitInv
  <2>1. sem[e] + Cardinality(Held(chain[e])) = Concurrency
    BY DEF IInv, PermitInv
  <2>2. sem[e] \in Int /\ Cardinality(Held(chain[e])) \in Int
    BY <1>1, HeldFinite
  <2>3. sem'[e] = IF e = d THEN sem[d] - 1 ELSE sem[e]
    BY <1>1
  <2>4. QED
    BY <1>2, <2>1, <2>2, <2>3
<1>4. QED
  BY <1>1, <1>3

LEMMA GivesPlaceBack ==
  ASSUME IInv, NEW d \in Dispatches, NEW g \in Groups, At(d, g, "sending"),
         sem' = [sem EXCEPT ![d] = @ + 1],
         \A e \in Dispatches :
           Held(chain'[e]) =
             IF e = d THEN Held(chain[d]) \ {g} ELSE Held(chain[e])
  PROVE  PermitInv' /\ sem' \in [Dispatches -> 0 .. Concurrency]
<1>1. /\ sem \in [Dispatches -> 0 .. Concurrency]
      /\ Concurrency \in Nat
  BY AutoPosterAssumption DEF IInv, TypeOK
<1>2. Cardinality(Held(chain[d]) \ {g}) = Cardinality(Held(chain[d])) - 1
  BY HeldFinite, FS_RemoveElement DEF Held, At
<1>3. \A e \in Dispatches : IsFiniteSet(Held(chain[e])) /\ Cardinality(Held(chain[e])) \in Nat
  BY HeldFinite
<1>4. Cardinality(Held(chain[d]) \ {g}) \in Nat
  BY <1>3, FS_RemoveElement, FS_CardinalityType
<1>5. sem[d] + Cardinality(Held(chain[d])) = Concurrency
  BY DEF IInv, PermitInv
<1>6. sem[d] + 1 \in 0 .. Concurrency
  BY <1>1, <1>2, <1>3, <1>4, <1>5
<1>7. PermitInv'
  <2> SUFFICES ASSUME NEW e \in Dispatches
               PROVE  sem'[e] + Cardinality(Held(chain'[e])) = Concurrency
    BY DEF PermitInv
  <2>1. sem[e] + Cardinality(Held(chain[e])) = Concurrency
    BY DEF IInv, PermitInv
  <2>2. sem[e] \in Int /\ Cardinality(Held(chain[e])) \in Int
    BY <1>1, <1>3
  <2>3. sem'[e] = IF e = d THEN sem[d] + 1 ELSE sem[e]
    BY <1>1
  <2>4. QED
    BY <1>2, <2>1, <2>2, <2>3
<1>8. QED
  BY <1>1, <1>6, <1>7

LEMMA HeldAfter ==
  ASSUME IInv, NEW d \in Dispatches, NEW g \in Groups, NEW to \in Chain,
         chain' = [chain EXCEPT ![d][g] = to]
  PROVE  /\ to.at = "sending" =>
              \A e \in Dispatches : Held(chain'[e]) =
                IF e = d THEN Held(chain[d]) \cup {g} ELSE Held(chain[e])
         /\ to.at # "sending" =>
              \A e \in Dispatches : Held(chain'[e]) =
                IF e = d THEN Held(chain[d]) \ {g} ELSE Held(chain[e])
<1>1. \A e \in Dispatches, h \in Groups :
        chain'[e][h] = IF e = d /\ h = g THEN to ELSE chain[e][h]
  BY DEF IInv, TypeOK
<1>2. QED
  BY <1>1 DEF Held

LEMMA AcquireKeepsIInv ==
  ASSUME IInv, NEW d \in Dispatches, NEW g \in Groups, Acquire(d, g)
  PROVE  IInv'
<1> DEFINE to == [at |-> "sending", item |-> 0]
<1>1. /\ to \in Chain /\ to.item = 0 /\ to.at = "sending"
      /\ chain' = [chain EXCEPT ![d][g] = to]
  BY ZeroIsAnItem DEF Acquire, Move, Chain
<1> HIDE DEF to
<1>2. chain[d][g].item = 0
  BY DEF Acquire, At, IInv, SendInv
<1>6. in_flight' \subseteq Send
  BY ZeroIsAnItem DEF Acquire, IInv, TypeOK, Send
<1>7. /\ SendInv' /\ SlotInv' /\ chain' \in [Dispatches -> [Groups -> Chain]]
  <2>1. /\ dispatch[d].phase = "sending"
        /\ in_flight' \subseteq in_flight \cup {<<d, g, 0>>}
        /\ UNCHANGED <<slot, dispatch, delivered, earlier>>
        /\ to.at # "waiting" /\ to.item >= chain[d][g].item
        /\ 0 \in Item /\ 0 <= to.item
        /\ to.item > 0 \/ to.at = "ok" => <<d, g, 0>> \in delivered
    BY <1>1, <1>2, ZeroIsAnItem DEF Acquire
  <2>2. QED
    BY <1>1, <2>1, ChainMoves
<1>8. \A e \in Dispatches : Held(chain'[e]) =
        IF e = d THEN Held(chain[d]) \cup {g} ELSE Held(chain[e])
  BY <1>1, HeldAfter
<1>9. PermitInv' /\ sem' \in [Dispatches -> 0 .. Concurrency]
  BY <1>8, TakesPlace DEF Acquire, At
<1>10. QED
  BY <1>6, <1>7, <1>9 DEF Acquire, IInv, TypeOK

\* Whatever the answer: a collage has arrived if it was acknowledged, and a
\* photo was sent after one that was.
LEMMA ResumeKeepsIInv ==
  ASSUME IInv, NEW d \in Dispatches, NEW g \in Groups, Answered(d, g),
         NEW accepted \in BOOLEAN, accepted => InHand(d, g) \in delivered,
         NEW flying \in SUBSET in_flight, Resume(d, g, accepted, flying)
  PROVE  IInv'
<1> DEFINE item == chain[d][g].item
<1>1. /\ item \in Item /\ item \in Nat
      /\ At(d, g, "sending")
      /\ dispatch[d].phase = "sending" /\ dispatch[d].photos \in Item
      /\ UNCHANGED <<slot, dispatch, delivered, earlier>>
      /\ in_flight \subseteq Send
  BY DEF Answered, IInv, TypeOK, Chain, Dispatch, Item
<1>2. item > 0 \/ accepted => <<d, g, 0>> \in delivered
  BY <1>1 DEF IInv, SendInv, InHand
<1>3. CASE item = 0 /\ ~ accepted /\ Release(d, g, "failed") /\ in_flight' = flying
  <2> DEFINE to == [at |-> "failed", item |-> item]
  <2>1. to \in Chain /\ to.at = "failed" /\ to.item = item
    BY <1>1 DEF Chain
  <2>2. chain' = [chain EXCEPT ![d][g] = to] /\ sem' = [sem EXCEPT ![d] = @ + 1]
    BY <1>3 DEF Release, Move
  <2> HIDE DEF to
  <2>3. in_flight' \subseteq in_flight \cup {<<d, g, 0>>} /\ in_flight' \subseteq Send
    BY <1>1, <1>3
  <2>4. SendInv' /\ SlotInv' /\ chain' \in [Dispatches -> [Groups -> Chain]]
    <3>1. /\ to.at # "waiting" /\ to.item >= chain[d][g].item
          /\ 0 \in Item /\ 0 <= to.item
          /\ to.item > 0 \/ to.at = "ok" => <<d, g, 0>> \in delivered
      BY <1>1, <1>3, <2>1, ZeroIsAnItem
    <3>2. QED
      BY <1>1, <2>1, <2>2, <2>3, <3>1, ChainMoves
  <2>5. \A e \in Dispatches : Held(chain'[e]) =
          IF e = d THEN Held(chain[d]) \ {g} ELSE Held(chain[e])
    BY <2>1, <2>2, HeldAfter
  <2>6. PermitInv' /\ sem' \in [Dispatches -> 0 .. Concurrency]
    BY <1>1, <2>2, <2>5, GivesPlaceBack
  <2>7. QED
    BY <1>1, <2>3, <2>4, <2>6 DEF IInv, TypeOK
<1>4. CASE (item > 0 \/ accepted) /\ NextPhoto(d, g, flying)
  <2> DEFINE to == [at |-> "sending", item |-> item + 1]
  <2>1. item + 1 \in Item
    BY <1>1, <1>4, AutoPosterAssumption DEF NextPhoto, Item
  <2>2. to \in Chain /\ to.at = "sending" /\ to.item = item + 1
    BY <2>1 DEF Chain
  <2>3. /\ chain' = [chain EXCEPT ![d][g] = to]
        /\ in_flight' = flying \cup {<<d, g, item + 1>>}
        /\ UNCHANGED sem
    BY <1>4 DEF NextPhoto, Move
  <2> HIDE DEF to
  <2>4. /\ in_flight' \subseteq in_flight \cup {<<d, g, item + 1>>}
        /\ in_flight' \subseteq Send
    BY <1>1, <2>1, <2>3 DEF Send
  <2>5. SendInv' /\ SlotInv' /\ chain' \in [Dispatches -> [Groups -> Chain]]
    <3>1. /\ to.at # "waiting" /\ to.item >= chain[d][g].item
          /\ item + 1 <= to.item
          /\ to.item > 0 \/ to.at = "ok" => <<d, g, 0>> \in delivered
      BY <1>1, <1>2, <1>4, <2>2
    <3>2. QED
      BY <1>1, <2>1, <2>2, <2>3, <2>4, <3>1, ChainMoves
  <2>6. \A e \in Dispatches : Held(chain'[e]) = Held(chain[e])
    <3>1. \A e \in Dispatches : Held(chain'[e]) =
            IF e = d THEN Held(chain[d]) \cup {g} ELSE Held(chain[e])
      BY <2>2, <2>3, HeldAfter
    <3>2. g \in Held(chain[d])
      BY <1>1 DEF At, Held
    <3>3. QED
      BY <3>1, <3>2
  <2>7. PermitInv' /\ sem' \in [Dispatches -> 0 .. Concurrency]
    BY <2>3, <2>6 DEF IInv, PermitInv, TypeOK
  <2>8. QED
    BY <1>1, <2>4, <2>5, <2>7 DEF IInv, TypeOK
<1>5. CASE (item > 0 \/ accepted) /\ AllSent(d, g, flying)
  <2> DEFINE to == [at |-> "ok", item |-> item]
  <2>1. to \in Chain /\ to.at = "ok" /\ to.item = item
    BY <1>1 DEF Chain
  <2>2. chain' = [chain EXCEPT ![d][g] = to] /\ sem' = [sem EXCEPT ![d] = @ + 1]
    BY <1>5 DEF AllSent, Release, Move
  <2> HIDE DEF to
  <2>3. in_flight' \subseteq in_flight \cup {<<d, g, 0>>} /\ in_flight' \subseteq Send
    BY <1>1, <1>5 DEF AllSent
  <2>4. SendInv' /\ SlotInv' /\ chain' \in [Dispatches -> [Groups -> Chain]]
    <3>1. /\ to.at # "waiting" /\ to.item >= chain[d][g].item
          /\ 0 \in Item /\ 0 <= to.item
          /\ to.item > 0 \/ to.at = "ok" => <<d, g, 0>> \in delivered
      BY <1>1, <1>2, <1>5, <2>1, ZeroIsAnItem
    <3>2. QED
      BY <1>1, <2>1, <2>2, <2>3, <3>1, ChainMoves
  <2>5. \A e \in Dispatches : Held(chain'[e]) =
          IF e = d THEN Held(chain[d]) \ {g} ELSE Held(chain[e])
    BY <2>1, <2>2, HeldAfter
  <2>6. PermitInv' /\ sem' \in [Dispatches -> 0 .. Concurrency]
    BY <1>1, <2>2, <2>5, GivesPlaceBack
  <2>7. QED
    BY <1>1, <2>3, <2>4, <2>6 DEF IInv, TypeOK
<1>6. QED
  BY <1>3, <1>4, <1>5 DEF Resume

-----------------------------------------------------------------------------
(* The steps of a dispatch, of the daemon and of the others.               *)

LEMMA StartKeepsIInv ==
  ASSUME IInv, NEW d \in Dispatches, dispatch_now(d)
  PROVE  IInv'
<1>1. /\ dispatch[d].phase = "idle" /\ slot = "pending"
      /\ dispatch' = [dispatch EXCEPT ![d].phase = "groups"]
      /\ earlier' = [earlier EXCEPT ![d] = { e \in Dispatches : dispatch[e].phase = "done" }]
      /\ UNCHANGED <<slot, chain, sem, in_flight, delivered>>
  BY DEF dispatch_now, Become
<1>2. \A e \in Dispatches :
        dispatch'[e].phase = IF e = d THEN "groups" ELSE dispatch[e].phase
  BY <1>1 DEF IInv, TypeOK, Dispatch
<1>3. TypeOK'
  <2>1. dispatch' \in [Dispatches -> Dispatch]
    BY <1>1 DEF IInv, TypeOK, Dispatch
  <2>2. earlier' \in [Dispatches -> SUBSET Dispatches]
    BY <1>1 DEF IInv, TypeOK
  <2>3. QED
    BY <1>1, <2>1, <2>2 DEF IInv, TypeOK
<1>4. PermitInv'
  BY <1>1 DEF IInv, PermitInv
<1>5. SendInv'
  BY <1>1, <1>2 DEF IInv, SendInv, Sent, At
<1>6. SlotInv'
  <2>1. \A e \in Dispatches : Succeeded(e)' = Succeeded(e)
    BY <1>1 DEF Succeeded, At
  <2>2. \A e \in Dispatches : earlier'[e] =
          IF e = d THEN { f \in Dispatches : dispatch[f].phase = "done" } ELSE earlier[e]
    BY <1>1 DEF IInv, TypeOK
  <2>3. slot' = "posted" =>
          \E e \in Dispatches : dispatch'[e].phase = "done" /\ Succeeded(e)' # {}
    BY <1>1
  <2>4. \A e \in Dispatches :
          dispatch'[e].phase = "done" /\ Succeeded(e)' # {} => slot' = "posted"
    BY <1>1, <1>2, <2>1 DEF IInv, SlotInv
  <2>5. ASSUME NEW e \in Dispatches, NEW f \in earlier'[e]
        PROVE  dispatch'[f].phase = "done" /\ Succeeded(f)' = {}
    <3>1. f \in Dispatches /\ dispatch[f].phase = "done" /\ Succeeded(f) = {}
      BY <1>1, <2>2, <2>5 DEF IInv, SlotInv, TypeOK
    <3>2. QED
      BY <1>1, <1>2, <2>1, <3>1
  <2>6. QED
    BY <2>3, <2>4, <2>5 DEF SlotInv
<1>7. QED
  BY <1>3, <1>4, <1>5, <1>6 DEF IInv

\* A dispatch that ends, or is stopped: if it has reached a group and ends, the
\* slot is posted; if it has not, the slot is as it was.
LEMMA EndKeepsIInv ==
  ASSUME IInv, NEW d \in Dispatches, NEW phase \in {"done", "crashed"},
         dispatch[d].phase \in {"groups", "sending"},
         dispatch' = [dispatch EXCEPT ![d].phase = phase],
         slot' = IF phase = "done" /\ Succeeded(d) # {} THEN "posted" ELSE slot,
         UNCHANGED <<chain, sem, in_flight, delivered, earlier>>
  PROVE  IInv'
<1>1. \A e \in Dispatches :
        dispatch'[e].phase = IF e = d THEN phase ELSE dispatch[e].phase
  BY DEF IInv, TypeOK, Dispatch
<1>2. TypeOK'
  <2>1. dispatch' \in [Dispatches -> Dispatch]
    BY DEF IInv, TypeOK, Dispatch
  <2>2. slot' \in SlotStatus
    BY DEF IInv, TypeOK, SlotStatus
  <2>3. QED
    BY <2>1, <2>2 DEF IInv, TypeOK
<1>3. PermitInv'
  BY DEF IInv, PermitInv
<1>4. SendInv'
  BY <1>1 DEF IInv, SendInv, Sent, At
<1>5. SlotInv'
  <2>1. \A e \in Dispatches : Succeeded(e)' = Succeeded(e)
    BY DEF Succeeded, At
  <2>2. slot' = "posted" =>
          \E e \in Dispatches : dispatch'[e].phase = "done" /\ Succeeded(e)' # {}
    <3>1. CASE phase = "done" /\ Succeeded(d) # {}
      BY <1>1, <2>1, <3>1
    <3>2. CASE ~ (phase = "done" /\ Succeeded(d) # {})
      BY <1>1, <2>1, <3>2 DEF IInv, SlotInv
    <3>3. QED
      BY <3>1, <3>2
  <2>3. \A e \in Dispatches :
          dispatch'[e].phase = "done" /\ Succeeded(e)' # {} => slot' = "posted"
    BY <1>1, <2>1 DEF IInv, SlotInv
  <2>4. ASSUME NEW e \in Dispatches, NEW f \in earlier'[e]
        PROVE  dispatch'[f].phase = "done" /\ Succeeded(f)' = {}
    <3>1. f \in Dispatches /\ dispatch[f].phase = "done" /\ Succeeded(f) = {}
      BY DEF IInv, SlotInv, TypeOK
    <3>2. QED
      BY <1>1, <2>1, <3>1
  <2>5. QED
    BY <2>2, <2>3, <2>4 DEF SlotInv
<1>6. QED
  BY <1>2, <1>3, <1>4, <1>5 DEF IInv

LEMMA GroupsKeepIInv ==
  ASSUME IInv, NEW d \in Dispatches, _active_target_groups(d)
  PROVE  IInv'
<1>1. PICK k \in Item : dispatch' = [dispatch EXCEPT ![d] = [phase |-> "sending", photos |-> k]]
  BY DEF _active_target_groups
<1>2. PICK matching \in SUBSET Groups \ {{}} : \E no_target \in SUBSET matching :
        chain' = [chain EXCEPT ![d] = [ g \in Groups |->
                    IF g \notin matching THEN NoChain
                    ELSE [ at |-> IF g \in no_target THEN "failed" ELSE "waiting",
                           item |-> 0 ] ]]
  BY DEF _active_target_groups
<1>3. PICK no_target \in SUBSET matching :
        chain' = [chain EXCEPT ![d] = [ g \in Groups |->
                    IF g \notin matching THEN NoChain
                    ELSE [ at |-> IF g \in no_target THEN "failed" ELSE "waiting",
                           item |-> 0 ] ]]
  BY <1>2
<1>4. /\ dispatch[d].phase = "groups"
      /\ sem' = [sem EXCEPT ![d] = Concurrency]
      /\ UNCHANGED <<slot, in_flight, delivered, earlier>>
  BY DEF _active_target_groups
<1>5. ASSUME NEW g \in Groups
      PROVE  /\ chain'[d][g] \in Chain
             /\ chain'[d][g].at \in {"none", "failed", "waiting"}
             /\ chain'[d][g].item = 0
  <2>1. chain'[d] = [ h \in Groups |->
                      IF h \notin matching THEN NoChain
                      ELSE [ at |-> IF h \in no_target THEN "failed" ELSE "waiting",
                             item |-> 0 ] ]
    BY <1>3 DEF IInv, TypeOK
  <2>2. CASE g \notin matching
    BY <2>1, <2>2, ZeroIsAnItem DEF NoChain, Chain
  <2>3. CASE g \in matching /\ g \in no_target
    BY <2>1, <2>3, ZeroIsAnItem DEF Chain
  <2>4. CASE g \in matching /\ g \notin no_target
    BY <2>1, <2>4, ZeroIsAnItem DEF Chain
  <2>5. QED
    BY <2>2, <2>3, <2>4
<1>6. \A e \in Dispatches : e # d => chain'[e] = chain[e] /\ dispatch'[e] = dispatch[e]
  BY <1>1, <1>3 DEF IInv, TypeOK
<1>7. dispatch'[d].phase = "sending"
  BY <1>1 DEF IInv, TypeOK
<1>8. TypeOK'
  <2>1. dispatch' \in [Dispatches -> Dispatch]
    BY <1>1 DEF IInv, TypeOK, Dispatch
  <2>2. chain' \in [Dispatches -> [Groups -> Chain]]
    BY <1>3, ZeroIsAnItem DEF IInv, TypeOK, Chain, NoChain
  <2>3. sem' \in [Dispatches -> 0 .. Concurrency]
    BY <1>4, AutoPosterAssumption DEF IInv, TypeOK
  <2>4. QED
    BY <1>4, <2>1, <2>2, <2>3 DEF IInv, TypeOK
<1>9. PermitInv'
  <2> SUFFICES ASSUME NEW e \in Dispatches
               PROVE  sem'[e] + Cardinality(Held(chain'[e])) = Concurrency
    BY DEF PermitInv
  <2>1. CASE e = d
    <3>1. Held(chain'[d]) = {}
      BY <1>5 DEF Held
    <3>2. sem'[d] = Concurrency
      BY <1>4 DEF IInv, TypeOK
    <3>3. QED
      BY <2>1, <3>1, <3>2, FS_EmptySet, AutoPosterAssumption
  <2>2. CASE e # d
    BY <1>4, <1>6, <2>2 DEF IInv, PermitInv, TypeOK
  <2>3. QED
    BY <2>1, <2>2
<1>10. SendInv'
  <2> SUFFICES ASSUME NEW e \in Dispatches, NEW g \in Groups
               PROVE  /\ \A i \in Item : <<e, g, i>> \in Sent' => i <= chain'[e][g].item
                      /\ chain'[e][g].item > 0 \/ chain'[e][g].at = "ok"
                           => <<e, g, 0>> \in delivered'
                      /\ chain'[e][g].at = "waiting" => chain'[e][g].item = 0
                      /\ dispatch'[e].phase \in {"idle", "groups"} =>
                           /\ chain'[e][g].at = "none"
                           /\ \A i \in Item : <<e, g, i>> \notin Sent'
    BY DEF SendInv, At
  <2>1. Sent' = Sent /\ delivered' = delivered
    BY <1>4 DEF Sent
  <2>2. CASE e = d
    <3>1. \A i \in Item : <<e, g, i>> \notin Sent
      BY <1>4, <2>2 DEF IInv, SendInv
    <3>2. QED
      BY <1>5, <1>7, <2>1, <2>2, <3>1
  <2>3. CASE e # d
    BY <1>6, <2>1, <2>3 DEF IInv, SendInv, At
  <2>4. QED
    BY <2>2, <2>3
<1>11. SlotInv'
  <2>1. \A e \in Dispatches : e # d => Succeeded(e)' = Succeeded(e)
    BY <1>6 DEF Succeeded, At
  <2>2. \A e \in Dispatches : dispatch[e].phase = "done" => e # d
    BY <1>4
  <2>3. ASSUME NEW e \in Dispatches, NEW f \in earlier'[e]
        PROVE  dispatch'[f].phase = "done" /\ Succeeded(f)' = {}
    <3>1. f \in Dispatches /\ dispatch[f].phase = "done" /\ Succeeded(f) = {}
      BY <1>4 DEF IInv, SlotInv, TypeOK
    <3>2. QED
      BY <1>6, <2>1, <2>2, <3>1
  <2>4. slot' = "posted" =>
          \E e \in Dispatches : dispatch'[e].phase = "done" /\ Succeeded(e)' # {}
    BY <1>4, <1>6, <2>1, <2>2 DEF IInv, SlotInv
  <2>5. \A e \in Dispatches :
          dispatch'[e].phase = "done" /\ Succeeded(e)' # {} => slot' = "posted"
    BY <1>4, <1>6, <1>7, <2>1 DEF IInv, SlotInv
  <2>6. QED
    BY <2>3, <2>4, <2>5 DEF SlotInv
<1>12. QED
  BY <1>8, <1>9, <1>10, <1>11 DEF IInv

LEMMA DeliverKeepsIInv ==
  ASSUME IInv, NEW s \in in_flight, Deliver(s)
  PROVE  IInv'
<1>1. /\ in_flight' = in_flight \ {s} /\ delivered' = delivered \cup {s}
      /\ UNCHANGED <<slot, dispatch, chain, sem, earlier>>
  BY DEF Deliver
<1>2. TypeOK'
  BY <1>1 DEF IInv, TypeOK
<1>3. PermitInv'
  BY <1>1 DEF IInv, PermitInv
<1>4. SendInv'
  <2>1. Sent' = Sent /\ delivered \subseteq delivered'
    BY <1>1 DEF Sent
  <2>2. QED
    BY <1>1, <2>1 DEF IInv, SendInv, At
<1>5. SlotInv'
  <2>1. \A e : Succeeded(e)' = Succeeded(e)
    BY <1>1 DEF Succeeded, At
  <2>2. QED
    BY <1>1, <2>1 DEF IInv, SlotInv
<1>6. QED
  BY <1>2, <1>3, <1>4, <1>5 DEF IInv

LEMMA CloseKeepsIInv ==
  ASSUME IInv, close_slot
  PROVE  IInv'
<1>1. /\ slot = "pending" /\ slot' = "closed"
      /\ UNCHANGED <<dispatch, chain, sem, in_flight, delivered, earlier>>
  BY DEF close_slot
<1>2. TypeOK'
  BY <1>1 DEF IInv, TypeOK, SlotStatus
<1>3. PermitInv'
  BY <1>1 DEF IInv, PermitInv
<1>4. SendInv'
  BY <1>1 DEF IInv, SendInv, Sent, At
<1>5. SlotInv'
  <2>1. \A e \in Dispatches : Succeeded(e)' = Succeeded(e) /\ earlier[e] \subseteq Dispatches
    BY <1>1 DEF Succeeded, At, IInv, TypeOK
  <2>2. QED
    BY <1>1, <2>1 DEF IInv, SlotInv
<1>6. QED
  BY <1>2, <1>3, <1>4, <1>5 DEF IInv

LEMMA StutterKeepsIInv == ASSUME IInv, UNCHANGED vars PROVE IInv'
<1>1. TypeOK'
  BY DEF IInv, TypeOK, vars
<1>2. PermitInv'
  BY DEF IInv, PermitInv, vars
<1>3. SendInv'
  BY DEF IInv, SendInv, Sent, At, vars
<1>4. SlotInv'
  <2>1. \A e : Succeeded(e)' = Succeeded(e)
    BY DEF Succeeded, At, vars
  <2>2. QED
    BY <2>1 DEF IInv, SlotInv, vars
<1>5. QED
  BY <1>1, <1>2, <1>3, <1>4 DEF IInv

LEMMA NextKeepsIInv == ASSUME IInv, [Next]_vars PROVE IInv'
<1>1. ASSUME NEW d \in Dispatches, dispatch_now(d)
      PROVE  IInv'
  BY <1>1, StartKeepsIInv
<1>2. ASSUME NEW d \in Dispatches, Skipped(d)
      PROVE  IInv'
  <2>1. Succeeded(d) = {}
    BY <1>2 DEF Skipped, IInv, SendInv, Succeeded, At
  <2>2. /\ dispatch[d].phase \in {"groups", "sending"}
        /\ dispatch' = [dispatch EXCEPT ![d].phase = "done"]
        /\ slot' = IF "done" = "done" /\ Succeeded(d) # {} THEN "posted" ELSE slot
        /\ UNCHANGED <<chain, sem, in_flight, delivered, earlier>>
    BY <1>2, <2>1 DEF Skipped, Become
  <2>3. QED
    BY <2>2, EndKeepsIInv
<1>3. ASSUME NEW d \in Dispatches, _active_target_groups(d)
      PROVE  IInv'
  BY <1>3, GroupsKeepIInv
<1>4. ASSUME NEW d \in Dispatches, Gather(d)
      PROVE  IInv'
  <2>1. /\ dispatch[d].phase \in {"groups", "sending"}
        /\ dispatch' = [dispatch EXCEPT ![d].phase = "done"]
        /\ slot' = IF "done" = "done" /\ Succeeded(d) # {} THEN "posted" ELSE slot
        /\ UNCHANGED <<chain, sem, in_flight, delivered, earlier>>
    BY <1>4 DEF Gather, Gathered, Become
  <2>2. QED
    BY <2>1, EndKeepsIInv
<1>5. ASSUME NEW d \in Dispatches, Crash(d)
      PROVE  IInv'
  <2>1. /\ dispatch[d].phase \in {"groups", "sending"}
        /\ dispatch' = [dispatch EXCEPT ![d].phase = "crashed"]
        /\ slot' = IF "crashed" = "done" /\ Succeeded(d) # {} THEN "posted" ELSE slot
        /\ UNCHANGED <<chain, sem, in_flight, delivered, earlier>>
    BY <1>5 DEF Crash, Become
  <2>2. QED
    BY <2>1, EndKeepsIInv
<1>6. ASSUME NEW d \in Dispatches, NEW g \in Groups, ChainStep(d, g)
      PROVE  IInv'
  <2>1. CASE Acquire(d, g)
    BY <2>1, AcquireKeepsIInv
  <2>2. CASE SendAccepted(d, g)
    BY <2>2, ResumeKeepsIInv DEF SendAccepted
  <2>3. CASE SendRefused(d, g)
    BY <2>3, ResumeKeepsIInv DEF SendRefused
  <2>4. CASE SendUnanswered(d, g)
    BY <2>4, ResumeKeepsIInv DEF SendUnanswered
  <2>5. QED
    BY <1>6, <2>1, <2>2, <2>3, <2>4 DEF ChainStep
<1>7. ASSUME NEW s \in in_flight, Deliver(s)
      PROVE  IInv'
  BY <1>7, DeliverKeepsIInv
<1>8. CASE close_slot
  BY <1>8, CloseKeepsIInv
<1>9. CASE UNCHANGED vars
  BY <1>9, StutterKeepsIInv
<1>10. QED
  BY <1>1, <1>2, <1>3, <1>4, <1>5, <1>6, <1>7, <1>8, <1>9 DEF Next, DispatchStep

LEMMA Invariance == Spec => []IInv
<1>1. Init => IInv
  BY InitIInv
<1>2. IInv /\ [Next]_vars => IInv'
  BY NextKeepsIInv
<1>3. QED
  BY <1>1, <1>2, PTL DEF Spec

-----------------------------------------------------------------------------
\* dispatch_slot and _send_group_post keep every variable in its type.
THEOREM AutoPosterTypeCorrect == Spec => []TypeOK
<1>1. IInv => TypeOK
  BY DEF IInv
<1>2. QED
  BY <1>1, Invariance, PTL

\* However the chains of a dispatch end, never more of them are at work than
\* _GROUP_SEND_CONCURRENCY.
THEOREM ConcurrencyIsBounded == Spec => []BoundedConcurrency
<1>1. ASSUME IInv PROVE BoundedConcurrency
  <2> SUFFICES ASSUME NEW d \in Dispatches
               PROVE  Cardinality(Sending(d)) <= Concurrency
    BY DEF BoundedConcurrency
  <2>1. Sending(d) = Held(chain[d])
    BY DEF Sending, Held, At
  <2>2. sem[d] \in Nat /\ sem[d] + Cardinality(Held(chain[d])) = Concurrency
    BY <1>1, AutoPosterAssumption DEF IInv, TypeOK, PermitInv
  <2>3. QED
    BY <2>1, <2>2, HeldFinite, AutoPosterAssumption
<1>2. QED
  BY <1>1, Invariance, PTL

\* Late deliveries included, no photo of a dispatch reaches a group without its
\* collage.
THEOREM CollageComesFirst == Spec => []PhotosFollowCollage
<1>1. ASSUME IInv PROVE PhotosFollowCollage
  <2> SUFFICES ASSUME NEW s \in delivered
               PROVE  <<s[1], s[2], 0>> \in delivered
    BY DEF PhotosFollowCollage
  <2>1. PICK d \in Dispatches, g \in Groups, k \in Item : s = <<d, g, k>>
    BY <1>1 DEF IInv, TypeOK, Send
  <2>2. k <= chain[d][g].item /\ chain[d][g] \in Chain
    BY <1>1, <2>1 DEF IInv, SendInv, Sent, TypeOK
  <2>3. CASE k = 0
    BY <2>1, <2>3
  <2>4. CASE k > 0
    <3>1. chain[d][g].item > 0
      BY <2>2, <2>4 DEF Chain, Item
    <3>2. QED
      BY <1>1, <2>1, <3>1 DEF IInv, SendInv
  <2>5. QED
    BY <2>3, <2>4 DEF Item
<1>2. QED
  BY <1>1, Invariance, PTL

\* A group that is reported as reached, and a slot that reads posted, stand for
\* a post that has arrived; what is dispatched again no group has acknowledged.
THEOREM ReportsAreTrue ==
  Spec => [](ReachedHasPost /\ PostedMeansSent /\ RetryOnlyUnacknowledged)
<1>1. ASSUME IInv PROVE ReachedHasPost /\ PostedMeansSent /\ RetryOnlyUnacknowledged
  <2>1. ReachedHasPost
    BY <1>1 DEF IInv, SendInv, ReachedHasPost, Succeeded
  <2>2. PostedMeansSent
    <3> SUFFICES ASSUME slot = "posted"
                 PROVE  \E s \in delivered : s[3] = 0
      BY DEF PostedMeansSent
    <3>1. PICK d \in Dispatches : Succeeded(d) # {}
      BY <1>1 DEF IInv, SlotInv
    <3>2. PICK g \in Groups : g \in Succeeded(d)
      BY <3>1 DEF Succeeded
    <3>3. <<d, g, 0>> \in delivered
      BY <2>1, <3>2 DEF ReachedHasPost
    <3>4. QED
      BY <3>3
  <2>3. RetryOnlyUnacknowledged
    BY <1>1 DEF IInv, SlotInv, RetryOnlyUnacknowledged
  <2>4. QED
    BY <2>1, <2>2, <2>3
<1>2. QED
  BY <1>1, Invariance, PTL
=============================================================================
