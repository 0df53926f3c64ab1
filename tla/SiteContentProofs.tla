------------------------- MODULE SiteContentProofs -------------------------
(***************************************************************************)
(* The three jobs that follow WordPress, for any number of requests, runs, *)
(* items, posts, rows and texts.                                           *)
(*                                                                         *)
(* Translations: a stored hash is that of the text whose translation       *)
(* stands beside it, unless one request committed the row between          *)
(* another's SELECT and UPDATE, and a synchronisation that ended clean     *)
(* leaves every text translated.  Listings: what a run knew when it read   *)
(* the notes still tells what it is going to make, since markers only get  *)
(* lost; and while nothing is edited, what a run has fetched, has left to  *)
(* make and has found together hold every listing on offer.  Content: a    *)
(* WordPress id never has two rows, and while nothing is edited every post *)
(* is still to do, the one at hand, or has its row.                        *)
(***************************************************************************)
EXTENDS MCSiteContent, Sequences, TLAPS

\* What a transaction has written leaves a row that tells its text, if it is
\* committed to the row as it stands; the row stands as it is because no two
\* transactions hold it.
WrittenTells == \A s \in Syncs : \A k \in Keys \ torn : Tells(Apply(table[k], sync[s].written[k]))
OneHolder == \A s, t \in Syncs : \A k \in Keys : s # t /\ Holds(s, k) => ~ Holds(t, k)
FlushHasTask ==
  \A s \in Syncs : At(s, "flush") =>
    sync[s].key \in Keys /\ sync[s].tasks[sync[s].key] \in Value

\* Rows are never deleted: an update has a row to go to.
Full(w) == w.value \in Value /\ w.hash \in Words
RowsStay ==
  \A s \in Syncs :
    /\ \A k \in Keys : \/ table[k] # None
                       \/ sync[s].written[k] = Unchanged \/ Full(sync[s].written[k])
    /\ At(s, "flush") /\ sync[s].found # None => table[sync[s].key] # None

IInv == TypeOK /\ HashTellsText /\ WrittenTells /\ OneHolder /\ FlushHasTask /\ RowsStay

-----------------------------------------------------------------------------
LEMMA IdleOK == Idle \in Sync
BY DEF Idle, Sync, Nothing, Unchanged

LEMMA DoneOK ==
  ASSUME NEW q \in Sync
  PROVE  /\ Done(q) \in Sync
         /\ Done(q).at # "flush"
         /\ \A k \in Keys : Done(q).written[k] = Unchanged
<1>1. Idle.written \in [Keys -> [value : Value \cup {None}, hash : Words \cup {None}]]
  BY IdleOK DEF Sync
<1>2. Nothing \in [Keys -> Value \cup {None}]
  BY DEF Nothing
<1>3. \A k \in Keys : Idle.written[k] = Unchanged
  BY DEF Idle
<1>4. CASE q.todo = {}
  <2>1. Done(q) = Idle
    BY <1>4 DEF Done
  <2>2. Idle.at # "flush"
    BY DEF Idle
  <2>3. QED
    BY <2>1, <2>2, <1>3, IdleOK
<1>5. CASE q.todo # {}
  <2>1. Done(q) = [q EXCEPT !.at = "item", !.tasks = Nothing, !.key = None, !.found = None, !.written = Idle.written]
    BY <1>5 DEF Done
  <2>2. QED
    BY <2>1, <1>1, <1>2, <1>3 DEF Sync
<1>6. QED
  BY <1>4, <1>5

LEMMA ApplyOK ==
  ASSUME NEW old \in Row \cup {None}, NEW w \in [value : Value \cup {None}, hash : Words \cup {None}],
         old # None \/ w = Unchanged \/ Full(w)
  PROVE  /\ Apply(old, w) \in Row \cup {None}
         /\ old # None => Apply(old, w) # None
<1>1. CASE w = Unchanged
  BY <1>1 DEF Apply
<1>2. CASE w # Unchanged
  <2>1. (IF w.value = None THEN old.value ELSE w.value) \in Value
    BY <1>2, TranslationsAssumption DEF Row, Full
  <2>2. (IF w.hash = None THEN old.hash ELSE w.hash) \in Words
    BY <1>2, TranslationsAssumption DEF Row, Full
  <2>3. Apply(old, w) \in Row
    BY <2>1, <2>2, <1>2 DEF Apply, Row
  <2>4. QED
    BY <2>3, TranslationsAssumption
<1>3. QED
  BY <1>1, <1>2

\* What is written for a row as it was selected leaves it telling its text.
LEMMA ChangesTell ==
  ASSUME NEW old \in Row \cup {None}, NEW value \in Value
  PROVE  /\ Changes(value, old) \in [value : Value \cup {None}, hash : Words \cup {None}]
         /\ Tells(Apply(old, Changes(value, old)))
         /\ old = None => Full(Changes(value, old))
<1>1. value[1] \in Texts /\ Hash(value[1]) \in Words
  BY DEF Value, Texts, Hash
<1>2. Hash(value[1]) # None /\ value # None
  BY <1>1, TranslationsAssumption
<1>3. CASE old = None
  <2>1. Changes(value, old) = [value |-> value, hash |-> Hash(value[1])]
    BY <1>3 DEF Changes
  <2>2. Changes(value, old) # Unchanged
    BY <2>1, <1>2 DEF Unchanged
  <2>3. Apply(old, Changes(value, old)) = [value |-> value, hash |-> Hash(value[1])]
    BY <2>1, <2>2, <1>2 DEF Apply
  <2>4. QED
    BY <2>1, <2>3, <1>1 DEF Tells, Full
<1>4. CASE old \in Row /\ old # None
  <2>1. Changes(value, old) =
          [ value |-> IF old.value = value THEN None ELSE value,
            hash |-> IF old.hash = Hash(value[1]) THEN None ELSE Hash(value[1]) ]
    BY <1>4 DEF Changes
  <2>2. CASE Changes(value, old) = Unchanged
    <3>1. Apply(old, Changes(value, old)) = old
      BY <2>2 DEF Apply
    <3>2. old.value = value /\ old.hash = Hash(value[1])
      BY <2>1, <2>2, <1>2 DEF Unchanged
    <3>3. QED
      BY <3>1, <3>2, <2>1, <1>1, <1>4 DEF Tells
  <2>3. CASE Changes(value, old) # Unchanged
    <3>1. Apply(old, Changes(value, old)) = [value |-> value, hash |-> Hash(value[1])]
      BY <2>1, <2>3, <1>2 DEF Apply
    <3>2. QED
      BY <3>1, <2>1, <1>1, <1>4 DEF Tells
  <2>4. QED
    BY <2>2, <2>3
<1>5. QED
  BY <1>3, <1>4

LEMMA InitIInv == ASSUME Init PROVE IInv
<1>1. TypeOK
  BY IdleOK DEF Init, TypeOK, Nothing, Keys
<1>2. HashTellsText
  BY DEF Init, HashTellsText, Tells, Nothing
<1>3. \A s \in Syncs : \A k \in Keys : sync[s].written[k] = Unchanged
  BY DEF Init, Idle
<1>4. \A s \in Syncs : ~ At(s, "flush")
  BY DEF Init, Idle, At
<1>5. WrittenTells
  BY <1>2, <1>3 DEF WrittenTells, HashTellsText, Apply
<1>6. QED
  BY <1>1, <1>2, <1>3, <1>4, <1>5 DEF IInv, OneHolder, Holds, FlushHasTask, RowsStay

\* A step of one request that touches no row and writes nothing, unless it gives
\* up what it had written, keeps the invariant.
LEMMA QuietKeepsIInv ==
  ASSUME IInv, NEW s \in Syncs, NEW q \in Sync, Go(s, q), UNCHANGED <<source, table, torn>>,
         clean' \in BOOLEAN,
         \A k \in Keys : q.written[k] \in {sync[s].written[k], Unchanged},
         q.at = "flush" => q.key \in Keys /\ q.tasks[q.key] \in Value /\ q.found = table[q.key]
  PROVE  IInv'
<1>1. \A t \in Syncs : sync'[t] = IF t = s THEN q ELSE sync[t]
  BY DEF Go, IInv, TypeOK
<1>2. TypeOK'
  BY <1>1 DEF Go, IInv, TypeOK
<1>3. HashTellsText'
  BY DEF IInv, HashTellsText
<1>4. \A t \in Syncs : \A k \in Keys : sync'[t].written[k] \in {sync[t].written[k], Unchanged}
  BY <1>1
<1>5. WrittenTells'
  <2> SUFFICES ASSUME NEW t \in Syncs, NEW k \in Keys \ torn
               PROVE  Tells(Apply(table[k], sync'[t].written[k]))
    BY DEF WrittenTells
  <2>1. CASE sync'[t].written[k] = sync[t].written[k]
    BY <2>1 DEF IInv, WrittenTells
  <2>2. CASE sync'[t].written[k] = Unchanged
    BY <2>2 DEF IInv, HashTellsText, Apply
  <2>3. QED
    BY <1>4, <2>1, <2>2
<1>6. OneHolder'
  BY <1>4 DEF IInv, OneHolder, Holds
<1>7. FlushHasTask'
  BY <1>1 DEF IInv, FlushHasTask, At
<1>8. RowsStay'
  <2> SUFFICES ASSUME NEW t \in Syncs
               PROVE  /\ \A k \in Keys : \/ table[k] # None
                                         \/ sync'[t].written[k] = Unchanged \/ Full(sync'[t].written[k])
                      /\ sync'[t].at = "flush" /\ sync'[t].found # None => table[sync'[t].key] # None
    BY DEF RowsStay, At
  <2>1. \A k \in Keys : table[k] # None \/ sync'[t].written[k] = Unchanged \/ Full(sync'[t].written[k])
    BY <1>4 DEF IInv, RowsStay
  <2>2. sync'[t].at = "flush" /\ sync'[t].found # None => table[sync'[t].key] # None
    BY <1>1 DEF IInv, RowsStay, At
  <2>3. QED
    BY <2>1, <2>2
<1>9. QED
  BY <1>2, <1>3, <1>5, <1>6, <1>7, <1>8 DEF IInv

LEMMA EditKeepsIInv == ASSUME IInv, NEW key \in Keys, Edit(key) PROVE IInv'
<1>1. source' \in [Keys -> Texts \cup {None}]
  <2>1. PICK text \in Texts \cup {None} : source' = [source EXCEPT ![key] = text]
    BY DEF Edit
  <2>2. QED
    BY <2>1 DEF IInv, TypeOK
<1>2. sync' \in [Syncs -> Sync]
  <2>1. \A s \in Syncs : sync[s] \in Sync
    BY DEF IInv, TypeOK
  <2>2. \A s \in Syncs : [sync[s] EXCEPT !.clean = FALSE] \in Sync
    BY <2>1 DEF Sync
  <2>3. QED
    BY <2>2 DEF Edit
<1>3. \A s \in Syncs : /\ sync'[s].at = sync[s].at /\ sync'[s].written = sync[s].written
                       /\ sync'[s].key = sync[s].key /\ sync'[s].tasks = sync[s].tasks
                       /\ sync'[s].found = sync[s].found
  BY DEF Edit, IInv, TypeOK, Sync
<1>4. table' = table /\ torn' = torn /\ clean' = FALSE
  BY DEF Edit
<1>5. TypeOK'
  BY <1>1, <1>2, <1>4 DEF IInv, TypeOK
<1>6. HashTellsText' /\ WrittenTells'
  BY <1>3, <1>4 DEF IInv, HashTellsText, WrittenTells
<1>7. OneHolder' /\ FlushHasTask' /\ RowsStay'
  BY <1>3, <1>4 DEF IInv, OneHolder, Holds, FlushHasTask, RowsStay, At
<1>8. QED
  BY <1>5, <1>6, <1>7 DEF IInv

LEMMA FetchKeepsIInv == ASSUME IInv, NEW s \in Syncs, Fetch(s) PROVE IInv'
<1> DEFINE q == [Idle EXCEPT !.at = "load", !.items = source, !.todo = Slugs, !.clean = TRUE]
<1>1. q \in Sync
  BY IdleOK DEF Sync, IInv, TypeOK
<1>2. q.at = "load" /\ \A k \in Keys : q.written[k] = Unchanged
  BY DEF Idle
<1>3. Go(s, q) /\ UNCHANGED <<source, table, torn>> /\ clean' \in BOOLEAN
  BY DEF Fetch, IInv, TypeOK
<1> HIDE DEF q
<1>4. QED
  BY <1>1, <1>2, <1>3, QuietKeepsIInv

LEMMA LoadHashesKeepsIInv == ASSUME IInv, NEW s \in Syncs, LoadHashes(s) PROVE IInv'
<1> DEFINE hashes == [k \in Keys |-> IF table[k] = None THEN None ELSE table[k].hash]
           alone == sync[s].clean /\ \A other \in Syncs \ {s} : At(other, "idle")
           q == [sync[s] EXCEPT !.at = "item", !.existing = hashes, !.clean = alone]
<1>1. hashes \in [Keys -> Words \cup {None}]
  BY DEF IInv, TypeOK, Row
<1>2. alone \in BOOLEAN
  OBVIOUS
<1> HIDE DEF hashes, alone
<1>3. q \in Sync
  <2>1. sync[s] \in Sync
    BY DEF IInv, TypeOK
  <2>2. QED
    BY <2>1, <1>1, <1>2 DEF Sync
<1>4. q.at = "item" /\ q.written = sync[s].written
  BY DEF IInv, TypeOK, Sync
<1>5. Go(s, q) /\ UNCHANGED <<source, table, torn>> /\ clean' \in BOOLEAN
  BY DEF LoadHashes, IInv, TypeOK, hashes, alone
<1> HIDE DEF q
<1>6. QED
  BY <1>3, <1>4, <1>5, QuietKeepsIInv

LEMMA TranslateKeepsIInv == ASSUME IInv, NEW s \in Syncs, Translate(s) PROVE IInv'
<1>1. PICK slug \in sync[s].todo :
        LET q == [sync[s] EXCEPT !.todo = @ \ {slug}]
            keys == ToTranslate(q, slug)
        IN \E answer \in [keys -> Drafts \cup {None}] :
             LET given == {k \in keys : answer[k] # None}
                 next == [ q EXCEPT !.clean = @ /\ given = keys,
                                    !.items = IF q.todo = {} THEN Nothing ELSE @,
                                    !.existing = IF q.todo = {} THEN Nothing ELSE @,
                                    !.tasks = [k \in Keys |-> IF k \in given THEN <<q.items[k], answer[k]>> ELSE None] ]
             IN IF given = {} THEN Go(s, Done(next)) /\ Ends(next)
                ELSE Go(s, [next EXCEPT !.at = "select"]) /\ UNCHANGED clean
  BY DEF Translate
<1> DEFINE q == [sync[s] EXCEPT !.todo = @ \ {slug}]
           keys == ToTranslate(q, slug)
<1>2. PICK answer \in [keys -> Drafts \cup {None}] :
        LET given == {k \in keys : answer[k] # None}
            next == [ q EXCEPT !.clean = @ /\ given = keys,
                               !.items = IF q.todo = {} THEN Nothing ELSE @,
                               !.existing = IF q.todo = {} THEN Nothing ELSE @,
                               !.tasks = [k \in Keys |-> IF k \in given THEN <<q.items[k], answer[k]>> ELSE None] ]
        IN IF given = {} THEN Go(s, Done(next)) /\ Ends(next)
           ELSE Go(s, [next EXCEPT !.at = "select"]) /\ UNCHANGED clean
  BY <1>1
<1> DEFINE given == {k \in keys : answer[k] # None}
           tasks == [k \in Keys |-> IF k \in given THEN <<q.items[k], answer[k]>> ELSE None]
           next == [ q EXCEPT !.clean = @ /\ given = keys,
                              !.items = IF q.todo = {} THEN Nothing ELSE @,
                              !.existing = IF q.todo = {} THEN Nothing ELSE @,
                              !.tasks = tasks ]
           sent == [next EXCEPT !.at = "select"]
<1>3. IF given = {} THEN Go(s, Done(next)) /\ Ends(next) ELSE Go(s, sent) /\ UNCHANGED clean
  BY <1>2
<1>4. q \in Sync /\ q.written = sync[s].written
  <2>1. sync[s] \in Sync
    BY DEF IInv, TypeOK
  <2>2. sync[s].todo \ {slug} \in SUBSET Slugs
    BY <2>1 DEF Sync
  <2>3. QED
    BY <2>1, <2>2 DEF Sync
<1>5. \A k \in given : k \in Keys /\ q.items[k] \in Texts /\ answer[k] \in Drafts
  <2>1. \A k \in keys : k \in {slug} \X DOMAIN Parts /\ q.items[k] # None
    BY DEF ToTranslate, Fields
  <2>2. slug \in Slugs
    BY DEF IInv, TypeOK, Sync
  <2>3. QED
    BY <2>1, <2>2, <1>4 DEF Keys, Sync
<1>6. tasks \in [Keys -> Value \cup {None}]
  BY <1>5 DEF Value
<1>7. Nothing \in [Keys -> Texts \cup {None}] /\ Nothing \in [Keys -> Words \cup {None}]
  BY DEF Nothing
<1>8. (given = keys) \in BOOLEAN
  OBVIOUS
<1> HIDE DEF keys, given, tasks, q
<1>9. next \in Sync /\ next.written = sync[s].written
  BY <1>4, <1>6, <1>7, <1>8 DEF Sync
<1> HIDE DEF next
<1>10. sent \in Sync /\ sent.written = sync[s].written /\ sent.at = "select"
  BY <1>9 DEF Sync
<1> HIDE DEF sent
<1>11. UNCHANGED <<source, table, torn>>
  BY DEF Translate
<1>12. CASE given = {}
  <2>1. Go(s, Done(next)) /\ Ends(next)
    BY <1>3, <1>12
  <2>2. clean' \in BOOLEAN
    BY <2>1 DEF Ends
  <2>3. /\ Done(next) \in Sync /\ Done(next).at # "flush"
        /\ \A k \in Keys : Done(next).written[k] = Unchanged
    BY <1>9, DoneOK
  <2>4. QED
    BY <2>1, <2>2, <2>3, <1>11, QuietKeepsIInv
<1>13. CASE given # {}
  <2>1. Go(s, sent) /\ clean' \in BOOLEAN
    BY <1>3, <1>13 DEF IInv, TypeOK
  <2>2. QED
    BY <2>1, <1>10, <1>11, QuietKeepsIInv
<1>14. QED
  BY <1>12, <1>13

LEMMA SelectKeepsIInv == ASSUME IInv, NEW s \in Syncs, Select(s) PROVE IInv'
<1>1. PICK k \in Pending(sync[s]) : Go(s, [sync[s] EXCEPT !.at = "flush", !.key = k, !.found = table[k]])
  BY DEF Select
<1> DEFINE q == [sync[s] EXCEPT !.at = "flush", !.key = k, !.found = table[k]]
<1>2. k \in Keys /\ sync[s].tasks[k] \in Value
  BY DEF Pending, IInv, TypeOK, Sync
<1>3. q \in Sync
  <2>1. sync[s] \in Sync /\ table[k] \in Row \cup {None}
    BY <1>2 DEF IInv, TypeOK
  <2>2. QED
    BY <2>1, <1>2 DEF Sync
<1>4. q.key = k /\ q.tasks = sync[s].tasks /\ q.found = table[k] /\ q.written = sync[s].written
  BY DEF IInv, TypeOK, Sync
<1>5. Go(s, q) /\ UNCHANGED <<source, table, torn>> /\ clean' \in BOOLEAN
  BY <1>1 DEF Select, IInv, TypeOK
<1> HIDE DEF q
<1>6. QED
  BY <1>2, <1>3, <1>4, <1>5, QuietKeepsIInv

LEMMA FailKeepsIInv == ASSUME IInv, NEW s \in Syncs, Fail(s) PROVE IInv'
<1>1. Idle.at # "flush" /\ \A k \in Keys : Idle.written[k] = Unchanged
  BY DEF Idle
<1>2. Go(s, Idle) /\ UNCHANGED <<source, table, torn>> /\ clean' \in BOOLEAN
  BY DEF Fail, IInv, TypeOK
<1>3. QED
  BY <1>1, <1>2, IdleOK, QuietKeepsIInv

LEMMA FlushKeepsIInv == ASSUME IInv, NEW s \in Syncs, Flush(s) PROVE IInv'
<1> DEFINE q == sync[s]
           k == q.key
           w == Changes(q.tasks[k], q.found)
           after == [ q EXCEPT !.written[k] = w, !.tasks[k] = None, !.key = None, !.found = None,
                               !.at = IF Pending(q) = {k} THEN "commit" ELSE "select" ]
<1>1. q \in Sync /\ k \in Keys /\ q.tasks[k] \in Value /\ table[k] \in Row \cup {None}
  BY DEF Flush, IInv, TypeOK, FlushHasTask
<1>2. \A other \in Syncs \ {s} : ~ Holds(other, k)
  BY DEF Flush
<1>3. source' = source /\ table' = table /\ clean' = clean
  BY DEF Flush
<1>4. CASE q.found = None /\ table[k] # None
  <2>1. Go(s, Idle) /\ torn' = torn
    BY <1>4 DEF Flush
  <2>2. Idle.at # "flush" /\ \A j \in Keys : Idle.written[j] = Unchanged
    BY DEF Idle
  <2>3. clean' \in BOOLEAN
    BY <1>3 DEF IInv, TypeOK
  <2>4. QED
    BY <1>3, <2>1, <2>2, <2>3, IdleOK, QuietKeepsIInv
<1>5. CASE ~ (q.found = None /\ table[k] # None)
  <2>1. Go(s, after) /\ torn' = IF table[k] # q.found THEN torn \cup {k} ELSE torn
    BY <1>5 DEF Flush
  <2>2. q.found # None => table[k] # None
    BY <1>1 DEF Sync, IInv, RowsStay, Flush
  <2>3. /\ w \in [value : Value \cup {None}, hash : Words \cup {None}]
        /\ Tells(Apply(q.found, w))
        /\ q.found = None => Full(w)
    <3>1. q.found \in Row \cup {None}
      BY <1>1 DEF Sync
    <3>2. QED
      BY <3>1, <1>1, ChangesTell
  <2> HIDE DEF w
  <2>4. after \in Sync
    BY <1>1, <2>3 DEF Sync
  <2>5. after.written = [q.written EXCEPT ![k] = w] /\ after.at # "flush"
    BY <1>1 DEF Sync
  <2>6. \A j \in Keys : after.written[j] = IF j = k THEN w ELSE q.written[j]
    BY <1>1, <2>5 DEF Sync
  <2> HIDE DEF after
  <2>7. \A t \in Syncs : sync'[t] = IF t = s THEN after ELSE sync[t]
    BY <2>1 DEF Go, IInv, TypeOK
  <2>8. torn' \subseteq Keys /\ torn \subseteq torn'
    BY <2>1, <1>1 DEF IInv, TypeOK
  <2>9. TypeOK'
    BY <1>3, <2>1, <2>4, <2>8 DEF Go, IInv, TypeOK
  <2>10. HashTellsText'
    BY <1>3, <2>8 DEF IInv, HashTellsText
  <2>11. WrittenTells'
    <3> SUFFICES ASSUME NEW t \in Syncs, NEW j \in Keys \ torn'
                 PROVE  Tells(Apply(table[j], sync'[t].written[j]))
      BY <1>3 DEF WrittenTells
    <3>1. Tells(Apply(table[j], sync[t].written[j]))
      BY <2>8 DEF IInv, WrittenTells
    <3>2. CASE t = s /\ j = k
      <4>1. table[j] = q.found
        BY <3>2, <2>1
      <4>2. sync'[t].written[j] = w
        BY <3>2, <2>6, <2>7
      <4>3. QED
        BY <4>1, <4>2, <2>3
    <3>3. CASE ~ (t = s /\ j = k)
      BY <3>1, <3>3, <2>6, <2>7
    <3>4. QED
      BY <3>2, <3>3
  <2>12. OneHolder'
    <3> SUFFICES ASSUME NEW t \in Syncs, NEW u \in Syncs, NEW j \in Keys,
                        t # u, sync'[t].written[j] # Unchanged, sync'[u].written[j] # Unchanged
                 PROVE  FALSE
      BY DEF OneHolder, Holds
    <3>1. ~ (sync[t].written[j] # Unchanged /\ sync[u].written[j] # Unchanged)
      BY DEF IInv, OneHolder, Holds
    <3>2. CASE j = k
      <4>1. t = s \/ u = s
        BY <3>1, <2>7
      <4>2. \A other \in Syncs \ {s} : sync'[other].written[k] = Unchanged
        BY <1>2, <2>7 DEF Holds
      <4>3. QED
        BY <4>1, <4>2, <3>2
    <3>3. CASE j # k
      BY <3>1, <3>3, <2>6, <2>7
    <3>4. QED
      BY <3>2, <3>3
  <2>13. FlushHasTask'
    BY <2>5, <2>7 DEF IInv, FlushHasTask, At
  <2>14. RowsStay'
    <3> SUFFICES ASSUME NEW t \in Syncs
                 PROVE  /\ \A j \in Keys : \/ table[j] # None
                                           \/ sync'[t].written[j] = Unchanged \/ Full(sync'[t].written[j])
                        /\ sync'[t].at = "flush" /\ sync'[t].found # None => table[sync'[t].key] # None
      BY <1>3 DEF RowsStay, At
    <3>1. /\ \A j \in Keys : \/ table[j] # None
                             \/ sync[t].written[j] = Unchanged \/ Full(sync[t].written[j])
          /\ sync[t].at = "flush" /\ sync[t].found # None => table[sync[t].key] # None
      BY DEF IInv, RowsStay, At
    <3>2. CASE t # s
      BY <3>1, <3>2, <2>7
    <3>3. CASE t = s
      <4>1. sync'[t] = after
        BY <3>3, <2>7
      <4>2. ASSUME NEW j \in Keys
            PROVE  table[j] # None \/ after.written[j] = Unchanged \/ Full(after.written[j])
        <5>1. CASE j = k
          BY <5>1, <2>2, <2>3, <2>6
        <5>2. CASE j # k
          BY <5>2, <3>1, <3>3, <2>6
        <5>3. QED
          BY <5>1, <5>2
      <4>3. QED
        BY <4>1, <4>2, <2>5
    <3>4. QED
      BY <3>2, <3>3
  <2>15. QED
    BY <2>9, <2>10, <2>11, <2>12, <2>13, <2>14 DEF IInv
<1>6. QED
  BY <1>4, <1>5

LEMMA CommitKeepsIInv == ASSUME IInv, NEW s \in Syncs, Commit(s) PROVE IInv'
<1> DEFINE q == sync[s]
<1>1. q \in Sync
  BY DEF IInv, TypeOK
<1>2. /\ table' = [k \in Keys |-> Apply(table[k], q.written[k])]
      /\ source' = source /\ torn' = torn /\ Go(s, Done(q)) /\ clean' \in BOOLEAN
  BY DEF Commit, Ends
<1>3. /\ Done(q) \in Sync /\ Done(q).at # "flush"
      /\ \A k \in Keys : Done(q).written[k] = Unchanged
  BY <1>1, DoneOK
<1>4. \A t \in Syncs : sync'[t] = IF t = s THEN Done(q) ELSE sync[t]
  BY <1>2 DEF Go, IInv, TypeOK
<1>5. \A k \in Keys : table'[k] \in Row \cup {None} /\ (table[k] # None => table'[k] # None)
  <2> TAKE k \in Keys
  <2>1. q.written[k] \in [value : Value \cup {None}, hash : Words \cup {None}]
    BY <1>1 DEF Sync
  <2>2. table[k] \in Row \cup {None} /\ (table[k] # None \/ q.written[k] = Unchanged \/ Full(q.written[k]))
    BY DEF IInv, TypeOK, RowsStay
  <2>3. /\ Apply(table[k], q.written[k]) \in Row \cup {None}
        /\ table[k] # None => Apply(table[k], q.written[k]) # None
    BY <2>1, <2>2, ApplyOK
  <2>4. QED
    BY <2>3, <1>2
<1>6. TypeOK'
  <2>1. table' \in [Keys -> Row \cup {None}]
    BY <1>2, <1>5
  <2>2. sync' \in [Syncs -> Sync]
    BY <1>2, <1>3 DEF Go, IInv, TypeOK
  <2>3. QED
    BY <1>2, <2>1, <2>2 DEF IInv, TypeOK
<1>7. HashTellsText'
  BY <1>2 DEF IInv, WrittenTells, HashTellsText
<1>8. WrittenTells'
  <2> SUFFICES ASSUME NEW t \in Syncs, NEW k \in Keys \ torn
               PROVE  Tells(Apply(table'[k], sync'[t].written[k]))
    BY <1>2 DEF WrittenTells
  <2>1. Tells(table'[k])
    BY <1>7, <1>2 DEF HashTellsText
  <2>2. CASE sync'[t].written[k] = Unchanged
    BY <2>1, <2>2 DEF Apply
  <2>3. CASE sync'[t].written[k] # Unchanged
    <3>1. t # s /\ sync'[t] = sync[t]
      BY <2>3, <1>3, <1>4
    <3>2. q.written[k] = Unchanged
      <4>1. sync[t].written[k] # Unchanged
        BY <3>1, <2>3
      <4>2. k \in Keys /\ t # s
        BY <3>1
      <4>3. QED
        BY <4>1, <4>2 DEF IInv, OneHolder, Holds
    <3>3. table'[k] = table[k]
      BY <3>2, <1>2 DEF Apply
    <3>4. QED
      BY <3>1, <3>3 DEF IInv, WrittenTells
  <2>4. QED
    BY <2>2, <2>3
<1>9. OneHolder'
  <2> SUFFICES ASSUME NEW t \in Syncs, NEW u \in Syncs, NEW k \in Keys,
                      t # u, sync'[t].written[k] # Unchanged, sync'[u].written[k] # Unchanged
               PROVE  FALSE
    BY DEF OneHolder, Holds
  <2>1. t # s /\ u # s
    BY <1>3, <1>4
  <2>2. QED
    BY <2>1, <1>4 DEF IInv, OneHolder, Holds
<1>10. FlushHasTask'
  BY <1>3, <1>4 DEF IInv, FlushHasTask, At
<1>11. RowsStay'
  <2> SUFFICES ASSUME NEW t \in Syncs
               PROVE  /\ \A k \in Keys : \/ table'[k] # None
                                         \/ sync'[t].written[k] = Unchanged \/ Full(sync'[t].written[k])
                      /\ sync'[t].at = "flush" /\ sync'[t].found # None => table'[sync'[t].key] # None
    BY DEF RowsStay, At
  <2>1. CASE t = s
    BY <2>1, <1>3, <1>4
  <2>2. CASE t # s
    <3>1. /\ \A k \in Keys : \/ table[k] # None
                             \/ sync[t].written[k] = Unchanged \/ Full(sync[t].written[k])
          /\ sync[t].at = "flush" /\ sync[t].found # None => table[sync[t].key] # None
          /\ sync[t].at = "flush" => sync[t].key \in Keys
      BY DEF IInv, RowsStay, FlushHasTask, At
    <3>2. QED
      BY <3>1, <2>2, <1>4, <1>5
  <2>3. QED
    BY <2>1, <2>2
<1>12. QED
  BY <1>6, <1>7, <1>8, <1>9, <1>10, <1>11 DEF IInv

LEMMA NextKeepsIInv == ASSUME IInv, [Next]_vars PROVE IInv'
<1>1. CASE Next
  <2>1. CASE \E k \in Keys : Edit(k)
    BY <2>1, EditKeepsIInv
  <2>2. ASSUME NEW s \in Syncs, Fetch(s) \/ LoadHashes(s) \/ Translate(s) \/ Select(s) \/ Flush(s) \/ Commit(s) \/ Fail(s)
        PROVE  IInv'
    BY <2>2, FetchKeepsIInv, LoadHashesKeepsIInv, TranslateKeepsIInv, SelectKeepsIInv,
       FlushKeepsIInv, CommitKeepsIInv, FailKeepsIInv
  <2>3. QED
    BY <1>1, <2>1, <2>2 DEF Next
<1>2. CASE UNCHANGED vars
  BY <1>2 DEF vars, IInv, TypeOK, HashTellsText, WrittenTells, OneHolder, Holds, FlushHasTask, RowsStay, At
<1>3. QED
  BY <1>1, <1>2

\* The variables of the synchronisation keep the values they are meant to have.
THEOREM TranslationsTypeCorrect == Spec => []TypeOK
<1>1. IInv => TypeOK
  BY DEF IInv
<1>2. QED
  BY <1>1, InitIInv, NextKeepsIInv, PTL DEF Spec

\* translations.py:6: whatever requests overlap, fail and are repeated, a stored
\* hash is that of the text whose translation it stands beside, wherever no
\* request committed between another's SELECT and UPDATE.
THEOREM StoredHashTellsText == Spec => []HashTellsText
<1>1. IInv => HashTellsText
  BY DEF IInv
<1>2. QED
  BY <1>1, InitIInv, NextKeepsIInv, PTL DEF Spec

-----------------------------------------------------------------------------
(* A clean synchronisation leaves nothing behind.                          *)

\* The row of k has the hash of the text as it stands on WordPress.
Good(k) == table[k] # None /\ table[k].hash = Hash(source[k])

\* What a sync has fetched, translated and written is of the text as it stands.
UpToDate(q) ==
  \A k \in Keys :
    /\ k[1] \in q.todo => q.items[k] = source[k]
    /\ q.tasks[k] # None => Hash(q.tasks[k][1]) = Hash(source[k])
    /\ q.written[k].hash # None => q.written[k].hash = Hash(source[k])

\* A clean sync that has loaded the hashes.
Past(q) == q.clean /\ q.at \notin {"idle", "load"}

PlaceOK(q) ==
  /\ q.at = "idle" => q = Idle
  /\ q.at = "load" => q.todo = Slugs
  /\ q.at \in {"load", "item"} => \A k \in Keys : q.tasks[k] = None /\ q.written[k] = Unchanged
  /\ q.at = "commit" => \A k \in Keys : q.tasks[k] = None

\* A clean sync skips only what is good, and has translated or written what is
\* not; so has the row it selected.
Settled(q) ==
  \A k \in Keys : source[k] # None =>
    IF k[1] \in q.todo THEN q.existing[k] = Hash(source[k]) => Good(k)
    ELSE Good(k) \/ q.tasks[k] # None \/ q.written[k].hash # None
FoundOK(q) ==
  q.at = "flush" /\ q.found # None => (q.found.hash = Hash(source[q.key]) => Good(q.key))

CleanInv ==
  /\ \A s \in Syncs :
       /\ PlaceOK(sync[s])
       /\ sync[s].clean => UpToDate(sync[s])
       /\ Past(sync[s]) => Settled(sync[s]) /\ FoundOK(sync[s])
  /\ clean \/ (\E s \in Syncs : Past(sync[s])) => \A t \in Syncs : UpToDate(sync[t])
  /\ clean => \A k \in Keys : source[k] # None => Good(k)

LEMMA IdleClean == PlaceOK(Idle) /\ UpToDate(Idle) /\ ~ Idle.clean /\ ~ Past(Idle)
BY DEF PlaceOK, UpToDate, Past, Idle, Nothing, Unchanged

\* A text has a hash, which is not that of no row.
LEMMA SourceHash ==
  ASSUME IInv, NEW k \in Keys, source[k] # None PROVE Hash(source[k]) \in Words /\ Hash(source[k]) # None
<1>1. source[k] \in Texts
  BY DEF IInv, TypeOK
<1>2. Hash(source[k]) \in Words
  BY <1>1 DEF Texts, Hash
<1>3. QED
  BY <1>2, TranslationsAssumption

\* A step of one request that commits nothing.
LEMMA QuietKeepsClean ==
  ASSUME IInv, CleanInv, NEW s \in Syncs, NEW q, Go(s, q), UNCHANGED <<source, table>>,
         PlaceOK(q), q.clean => UpToDate(q), UpToDate(sync[s]) => UpToDate(q),
         Past(q) => Settled(q) /\ FoundOK(q),
         Past(q) => Past(sync[s]) \/ \A t \in Syncs \ {s} : UpToDate(sync[t]),
         clean' => clean \/ (Past(sync[s]) /\ \A k \in Keys : source[k] # None => Good(k))
  PROVE  CleanInv'
<1>1. \A t \in Syncs : sync'[t] = IF t = s THEN q ELSE sync[t]
  BY DEF Go, IInv, TypeOK
<1>2. ASSUME NEW t \in Syncs
      PROVE  /\ PlaceOK(sync'[t])
             /\ sync'[t].clean => UpToDate(sync'[t])
             /\ Past(sync'[t]) => Settled(sync'[t]) /\ FoundOK(sync'[t])
  BY <1>1 DEF CleanInv
<1>3. ASSUME clean' \/ (\E t \in Syncs : Past(sync'[t])), NEW u \in Syncs
      PROVE  UpToDate(sync'[u])
  <2>1. CASE clean \/ \E t \in Syncs : Past(sync[t])
    BY <1>1, <2>1 DEF CleanInv
  <2>2. CASE Past(q) /\ \A t \in Syncs \ {s} : UpToDate(sync[t])
    BY <1>1, <2>2 DEF Past
  <2>3. QED
    BY <1>1, <1>3, <2>1, <2>2
<1>4. ASSUME clean', NEW k \in Keys, source[k] # None PROVE Good(k)
  BY <1>4 DEF CleanInv
<1>5. \A r : /\ PlaceOK(r)' <=> PlaceOK(r)
             /\ UpToDate(r)' <=> UpToDate(r)
             /\ Past(r)' <=> Past(r)
             /\ Settled(r)' <=> Settled(r)
             /\ FoundOK(r)' <=> FoundOK(r)
  BY DEF PlaceOK, UpToDate, Past, Settled, FoundOK, Good
<1>6. \A k \in Keys : Good(k)' <=> Good(k)
  BY DEF Good
<1>7. QED
  BY <1>2, <1>3, <1>4, <1>5, <1>6 DEF CleanInv

\* The next item, or the end of the request.
LEMMA DoneClean ==
  ASSUME NEW q \in Sync, q.at \in {"item", "commit"}
  PROVE  /\ PlaceOK(Done(q)) /\ FoundOK(Done(q))
         /\ UpToDate(q) => UpToDate(Done(q))
         /\ Done(q).clean => q.clean
         /\ Past(Done(q)) => q.todo # {}
         /\ q.todo # {} /\ Settled([q EXCEPT !.tasks = Nothing, !.written = Idle.written])
              => Settled(Done(q))
<1>1. CASE q.todo = {}
  <2>1. Done(q) = Idle
    BY <1>1 DEF Done
  <2>2. FoundOK(Idle)
    BY DEF FoundOK, Idle
  <2>3. QED
    BY <1>1, <2>1, <2>2, IdleClean
<1>2. CASE q.todo # {}
  <2>1. Done(q) = [q EXCEPT !.at = "item", !.tasks = Nothing, !.key = None, !.found = None, !.written = Idle.written]
    BY <1>2 DEF Done
  <2>2. /\ Done(q).at = "item" /\ Done(q).tasks = Nothing /\ Done(q).written = Idle.written
        /\ Done(q).todo = q.todo /\ Done(q).items = q.items /\ Done(q).clean = q.clean
        /\ Done(q).existing = q.existing
    BY <2>1 DEF Sync
  <2>3. \A k \in Keys : Nothing[k] = None /\ Idle.written[k] = Unchanged
    BY DEF Nothing, Idle
  <2>4. PlaceOK(Done(q)) /\ FoundOK(Done(q))
    BY <2>2, <2>3 DEF PlaceOK, FoundOK
  <2>5. UpToDate(q) => UpToDate(Done(q))
    BY <2>2, <2>3 DEF UpToDate, Unchanged
  <2>6. Settled([q EXCEPT !.tasks = Nothing, !.written = Idle.written]) => Settled(Done(q))
    BY <2>2 DEF Settled, Sync
  <2>7. QED
    BY <1>2, <2>2, <2>4, <2>5, <2>6
<1>3. QED
  BY <1>1, <1>2

LEMMA EditKeepsClean == ASSUME IInv, CleanInv, NEW key \in Keys, Edit(key) PROVE CleanInv'
<1>1. clean' = FALSE /\ \A s \in Syncs : sync'[s] = [sync[s] EXCEPT !.clean = FALSE]
  BY DEF Edit
<1>2. ASSUME NEW s \in Syncs PROVE PlaceOK(sync'[s]) /\ sync'[s].clean = FALSE
  <2>1. sync[s] \in Sync /\ PlaceOK(sync[s])
    BY DEF IInv, TypeOK, CleanInv
  <2>2. /\ sync'[s].at = sync[s].at /\ sync'[s].todo = sync[s].todo
        /\ sync'[s].tasks = sync[s].tasks /\ sync'[s].written = sync[s].written
        /\ sync'[s].clean = FALSE
    BY <1>1, <2>1 DEF Sync
  <2>3. sync[s].at = "idle" => sync'[s] = Idle
    BY <1>1, <2>1 DEF PlaceOK, Idle
  <2>4. QED
    BY <2>1, <2>2, <2>3 DEF PlaceOK
<1>3. QED
  BY <1>1, <1>2 DEF CleanInv, Past, PlaceOK

LEMMA FetchKeepsClean == ASSUME IInv, CleanInv, NEW s \in Syncs, Fetch(s) PROVE CleanInv'
<1> DEFINE q == [Idle EXCEPT !.at = "load", !.items = source, !.todo = Slugs, !.clean = TRUE]
<1>1. /\ q.at = "load" /\ q.items = source /\ q.todo = Slugs /\ q.tasks = Nothing
      /\ q.written = Idle.written
  BY DEF Idle
<1>2. \A k \in Keys : Nothing[k] = None /\ Idle.written[k] = Unchanged
  BY DEF Nothing, Idle
<1>3. Go(s, q) /\ UNCHANGED <<source, table>> /\ clean' = clean
  BY DEF Fetch
<1> HIDE DEF q
<1>4. PlaceOK(q) /\ UpToDate(q) /\ ~ Past(q)
  BY <1>1, <1>2 DEF PlaceOK, UpToDate, Past, Unchanged
<1>5. QED
  BY <1>3, <1>4, QuietKeepsClean

LEMMA LoadHashesKeepsClean == ASSUME IInv, CleanInv, NEW s \in Syncs, LoadHashes(s) PROVE CleanInv'
<1> DEFINE hashes == [k \in Keys |-> IF table[k] = None THEN None ELSE table[k].hash]
           alone == sync[s].clean /\ \A other \in Syncs \ {s} : At(other, "idle")
           q == [sync[s] EXCEPT !.at = "item", !.existing = hashes, !.clean = alone]
<1>1. sync[s] \in Sync /\ PlaceOK(sync[s]) /\ (sync[s].clean => UpToDate(sync[s]))
  BY DEF IInv, TypeOK, CleanInv
<1>2. Go(s, q) /\ UNCHANGED <<source, table>> /\ clean' = clean /\ sync[s].at = "load"
  BY DEF LoadHashes, hashes, alone, At
<1>3. \A k \in Keys : hashes[k] = IF table[k] = None THEN None ELSE table[k].hash
  OBVIOUS
<1>4. alone => sync[s].clean /\ \A t \in Syncs \ {s} : UpToDate(sync[t])
  BY IdleClean DEF CleanInv, PlaceOK, At
<1> HIDE DEF hashes, alone
<1>5. /\ q.at = "item" /\ q.existing = hashes /\ q.clean = alone /\ q.todo = sync[s].todo
      /\ q.items = sync[s].items /\ q.tasks = sync[s].tasks /\ q.written = sync[s].written
  BY <1>1 DEF Sync
<1> HIDE DEF q
<1>6. PlaceOK(q)
  BY <1>1, <1>2, <1>5 DEF PlaceOK
<1>7. UpToDate(sync[s]) => UpToDate(q)
  BY <1>5 DEF UpToDate
<1>8. Settled(q)
  <2> SUFFICES ASSUME NEW k \in Keys, source[k] # None, q.existing[k] = Hash(source[k]), k[1] \in q.todo
               PROVE  Good(k)
    BY <1>1, <1>2, <1>5 DEF Settled, PlaceOK, Keys
  <2>1. QED
    BY <1>3, <1>5, SourceHash DEF Good
<1>9. FoundOK(q)
  BY <1>5 DEF FoundOK
<1>10. QED
  BY <1>1, <1>2, <1>4, <1>5, <1>6, <1>7, <1>8, <1>9, QuietKeepsClean DEF Past

LEMMA SelectKeepsClean == ASSUME IInv, CleanInv, NEW s \in Syncs, Select(s) PROVE CleanInv'
<1>1. PICK k \in Pending(sync[s]) : Go(s, [sync[s] EXCEPT !.at = "flush", !.key = k, !.found = table[k]])
  BY DEF Select
<1> DEFINE q == [sync[s] EXCEPT !.at = "flush", !.key = k, !.found = table[k]]
<1>2. UNCHANGED <<source, table>> /\ clean' = clean /\ sync[s].at = "select" /\ sync[s] \in Sync
  BY DEF Select, At, IInv, TypeOK
<1>3. /\ q.at = "flush" /\ q.key = k /\ q.found = table[k] /\ q.clean = sync[s].clean
      /\ q.todo = sync[s].todo /\ q.items = sync[s].items /\ q.existing = sync[s].existing
      /\ q.tasks = sync[s].tasks /\ q.written = sync[s].written
  BY <1>2 DEF Sync
<1>4. Go(s, q)
  BY <1>1
<1> HIDE DEF q
<1>5. PlaceOK(q) /\ FoundOK(q)
  BY <1>3 DEF PlaceOK, FoundOK, Good
<1>6. UpToDate(sync[s]) => UpToDate(q)
  BY <1>3 DEF UpToDate
<1>7. Settled(sync[s]) => Settled(q)
  BY <1>3 DEF Settled
<1>8. Past(q) => Past(sync[s])
  BY <1>2, <1>3 DEF Past
<1>9. sync[s].clean => UpToDate(sync[s])
  BY DEF CleanInv
<1>10. Past(sync[s]) => Settled(sync[s])
  BY DEF CleanInv
<1>11. QED
  BY <1>2, <1>3, <1>4, <1>5, <1>6, <1>7, <1>8, <1>9, <1>10, QuietKeepsClean

LEMMA FailKeepsClean == ASSUME IInv, CleanInv, NEW s \in Syncs, Fail(s) PROVE CleanInv'
BY IdleClean, QuietKeepsClean DEF Fail

\* What the row selected lacked is written, and nothing but what is up to date.
LEMMA FlushKeepsClean == ASSUME IInv, CleanInv, NEW s \in Syncs, Flush(s) PROVE CleanInv'
<1> DEFINE q == sync[s]
           k == q.key
           w == Changes(q.tasks[k], q.found)
           after == [ q EXCEPT !.written[k] = w, !.tasks[k] = None, !.key = None, !.found = None,
                               !.at = IF Pending(q) = {k} THEN "commit" ELSE "select" ]
<1>1. /\ q \in Sync /\ k \in Keys /\ q.tasks[k] \in Value /\ q.at = "flush"
      /\ UNCHANGED <<source, table>> /\ clean' = clean
  BY DEF Flush, IInv, TypeOK, FlushHasTask, At
<1>2. CASE Go(s, Idle)
  BY <1>1, <1>2, IdleClean, QuietKeepsClean
<1>3. CASE Go(s, after)
  <2>1. q.tasks[k] # None /\ Hash(q.tasks[k][1]) \in Words /\ Hash(q.tasks[k][1]) # None
    <3>1. q.tasks[k][1] \in Texts
      BY <1>1 DEF Value
    <3>2. Hash(q.tasks[k][1]) \in Words
      BY <3>1 DEF Texts, Hash
    <3>3. QED
      BY <1>1, <3>2, TranslationsAssumption
  <2>2. /\ w.hash # None => w.hash = Hash(q.tasks[k][1])
        /\ w.hash = None => q.found # None /\ q.found.hash = Hash(q.tasks[k][1])
    BY <2>1 DEF Changes
  <2> HIDE DEF w
  <2>3. /\ after.at \in {"commit", "select"} /\ after.todo = q.todo /\ after.items = q.items
        /\ after.existing = q.existing /\ after.clean = q.clean
        /\ after.written = [q.written EXCEPT ![k] = w]
        /\ after.tasks = [q.tasks EXCEPT ![k] = None]
        /\ after.at = "commit" => Pending(q) = {k}
    BY <1>1 DEF Sync
  <2>4. \A j \in Keys : /\ after.written[j] = IF j = k THEN w ELSE q.written[j]
                        /\ after.tasks[j] = IF j = k THEN None ELSE q.tasks[j]
    BY <1>1, <2>3 DEF Sync
  <2> HIDE DEF after
  <2>5. PlaceOK(after)
    BY <2>3, <2>4 DEF PlaceOK, Pending
  <2>6. UpToDate(q) => UpToDate(after)
    BY <1>1, <2>1, <2>2, <2>3, <2>4 DEF UpToDate
  <2>7. q.clean => UpToDate(q) /\ Settled(q) /\ FoundOK(q)
    BY <1>1 DEF CleanInv, Past
  <2>8. ASSUME q.clean PROVE Settled(after)
    <3> SUFFICES ASSUME NEW j \in Keys, source[j] # None
                 PROVE  IF j[1] \in q.todo THEN q.existing[j] = Hash(source[j]) => Good(j)
                        ELSE Good(j) \/ after.tasks[j] # None \/ after.written[j].hash # None
      BY <2>3 DEF Settled
    <3>1. IF j[1] \in q.todo THEN q.existing[j] = Hash(source[j]) => Good(j)
          ELSE Good(j) \/ q.tasks[j] # None \/ q.written[j].hash # None
      BY <2>7, <2>8 DEF Settled
    <3>2. CASE j = k
      <4>1. Hash(q.tasks[k][1]) = Hash(source[k])
        BY <1>1, <2>1, <2>7, <2>8 DEF UpToDate
      <4>2. w.hash = None => Good(k)
        BY <1>1, <2>2, <2>7, <2>8, <4>1 DEF FoundOK
      <4>3. QED
        BY <2>4, <3>1, <3>2, <4>2
    <3>3. CASE j # k
      BY <2>4, <3>1, <3>3
    <3>4. QED
      BY <3>2, <3>3
  <2>9. FoundOK(after)
    BY <2>3 DEF FoundOK
  <2>10. QED
    BY <1>1, <1>3, <2>3, <2>5, <2>6, <2>7, <2>8, <2>9, QuietKeepsClean DEF Past
<1>4. QED
  BY <1>2, <1>3 DEF Flush

\* A clean sync has its item's parts translated, all but the good ones.
LEMMA TranslateKeepsClean == ASSUME IInv, CleanInv, NEW s \in Syncs, Translate(s) PROVE CleanInv'
<1>1. PICK slug \in sync[s].todo :
        LET q == [sync[s] EXCEPT !.todo = @ \ {slug}]
            keys == ToTranslate(q, slug)
        IN \E answer \in [keys -> Drafts \cup {None}] :
             LET given == {k \in keys : answer[k] # None}
                 next == [ q EXCEPT !.clean = @ /\ given = keys,
                                    !.items = IF q.todo = {} THEN Nothing ELSE @,
                                    !.existing = IF q.todo = {} THEN Nothing ELSE @,
                                    !.tasks = [k \in Keys |-> IF k \in given THEN <<q.items[k], answer[k]>> ELSE None] ]
             IN IF given = {} THEN Go(s, Done(next)) /\ Ends(next)
                ELSE Go(s, [next EXCEPT !.at = "select"]) /\ UNCHANGED clean
  BY DEF Translate
<1> DEFINE p == sync[s]
           q == [p EXCEPT !.todo = @ \ {slug}]
           keys == ToTranslate(q, slug)
<1>2. PICK answer \in [keys -> Drafts \cup {None}] :
        LET given == {k \in keys : answer[k] # None}
            next == [ q EXCEPT !.clean = @ /\ given = keys,
                               !.items = IF q.todo = {} THEN Nothing ELSE @,
                               !.existing = IF q.todo = {} THEN Nothing ELSE @,
                               !.tasks = [k \in Keys |-> IF k \in given THEN <<q.items[k], answer[k]>> ELSE None] ]
        IN IF given = {} THEN Go(s, Done(next)) /\ Ends(next)
           ELSE Go(s, [next EXCEPT !.at = "select"]) /\ UNCHANGED clean
  BY <1>1
<1> DEFINE given == {k \in keys : answer[k] # None}
           tasks == [k \in Keys |-> IF k \in given THEN <<q.items[k], answer[k]>> ELSE None]
           next == [ q EXCEPT !.clean = @ /\ given = keys,
                              !.items = IF q.todo = {} THEN Nothing ELSE @,
                              !.existing = IF q.todo = {} THEN Nothing ELSE @,
                              !.tasks = tasks ]
           sent == [next EXCEPT !.at = "select"]
<1>3. IF given = {} THEN Go(s, Done(next)) /\ Ends(next) ELSE Go(s, sent) /\ UNCHANGED clean
  BY <1>2
<1>4. /\ p \in Sync /\ p.at = "item" /\ slug \in Slugs /\ UNCHANGED <<source, table>>
      /\ \A k \in Keys : p.tasks[k] = None /\ p.written[k] = Unchanged
  BY DEF Translate, At, IInv, TypeOK, CleanInv, PlaceOK, Sync
<1>5. /\ q \in Sync /\ q.todo = p.todo \ {slug} /\ q.items = p.items /\ q.existing = p.existing
      /\ q.written = p.written /\ q.clean = p.clean /\ q.at = p.at
  <2>1. p.todo \ {slug} \in SUBSET Slugs
    BY <1>4 DEF Sync
  <2>2. QED
    BY <1>4, <2>1 DEF Sync
<1>6. \A k \in Keys : k[1] = slug => k \in {slug} \X DOMAIN Parts
  BY DEF Keys
<1>7. \A k \in keys : /\ k \in Keys /\ k[1] = slug /\ q.items[k] \in Texts
                      /\ q.items[k] # None
  BY <1>4, <1>5 DEF ToTranslate, Fields, Keys, Sync
<1>8. \A k \in Keys : k[1] = slug /\ p.items[k] # None /\ k \notin keys
                        => p.existing[k] = Hash(p.items[k])
  BY <1>5, <1>6 DEF ToTranslate, Fields
<1>9. \A k \in given : /\ k \in Keys /\ k[1] = slug /\ k \in keys
                       /\ tasks[k] # None /\ tasks[k][1] = q.items[k]
                       /\ tasks[k] \in Value
  <2> TAKE k \in given
  <2>1. k \in keys /\ k \in Keys /\ answer[k] \in Drafts
    BY <1>7
  <2>2. tasks[k] = <<q.items[k], answer[k]>>
    BY <2>1
  <2>3. tasks[k] \in Value
    BY <1>7, <2>1, <2>2 DEF Value
  <2>4. QED
    BY <1>7, <2>1, <2>2, <2>3, TranslationsAssumption
<1>10. \A k \in Keys : k \notin given => tasks[k] = None
  OBVIOUS
<1>11. tasks \in [Keys -> Value \cup {None}]
  BY <1>9, <1>10
<1>12. Nothing \in [Keys -> Texts \cup {None}] /\ Nothing \in [Keys -> Words \cup {None}]
  BY DEF Nothing
<1>13. (given = keys) \in BOOLEAN /\ given \subseteq keys
  OBVIOUS
<1> HIDE DEF keys, given, tasks, q
<1>14. /\ next \in Sync /\ next.written = p.written /\ next.at = "item" /\ next.todo = q.todo
       /\ next.clean = (q.clean /\ given = keys) /\ next.tasks = tasks
       /\ q.todo # {} => next.items = p.items /\ next.existing = p.existing
  BY <1>4, <1>5, <1>11, <1>12, <1>13 DEF Sync
<1> HIDE DEF next
<1>15. /\ sent \in Sync /\ sent.written = p.written /\ sent.at = "select" /\ sent.todo = q.todo
       /\ sent.clean = next.clean /\ sent.tasks = tasks /\ sent.items = next.items
       /\ sent.existing = next.existing
  BY <1>14 DEF Sync
<1> HIDE DEF sent
<1>16. p.clean => UpToDate(p) /\ Settled(p)
  BY <1>4 DEF CleanInv, Past
<1>17. \A k \in Keys : k[1] \in q.todo => k[1] \in p.todo /\ q.todo # {}
  BY <1>5
<1>18. UpToDate(p) => UpToDate(next) /\ UpToDate(sent)
  <2> SUFFICES ASSUME UpToDate(p), NEW k \in Keys
               PROVE  /\ k[1] \in q.todo => next.items[k] = source[k]
                      /\ tasks[k] # None => Hash(tasks[k][1]) = Hash(source[k])
                      /\ p.written[k].hash = None
    BY <1>14, <1>15 DEF UpToDate
  <2>1. k[1] \in q.todo => next.items[k] = source[k]
    BY <1>14, <1>17 DEF UpToDate
  <2>2. k \in given => q.items[k] = source[k]
    BY <1>5, <1>9 DEF UpToDate
  <2>3. tasks[k] # None => Hash(tasks[k][1]) = Hash(source[k])
    BY <1>9, <1>10, <2>2
  <2>4. QED
    BY <1>4, <2>1, <2>3 DEF Unchanged
<1>19. ASSUME next.clean, NEW k \in Keys, source[k] # None
       PROVE  IF k[1] \in q.todo THEN next.existing[k] = Hash(source[k]) => Good(k)
              ELSE Good(k) \/ (k \in given /\ tasks[k] # None)
  <2>1. UpToDate(p) /\ Settled(p) /\ given = keys
    BY <1>5, <1>14, <1>16, <1>19
  <2>2. p.tasks[k] = None /\ p.written[k].hash = None
    BY <1>4 DEF Unchanged
  <2>3. CASE k[1] \in q.todo
    BY <1>14, <1>17, <1>19, <2>1, <2>3 DEF Settled
  <2>4. CASE k[1] = slug
    <3>1. p.items[k] = source[k]
      BY <2>1, <2>4 DEF UpToDate
    <3>2. p.existing[k] = Hash(source[k]) => Good(k)
      BY <1>19, <2>1, <2>4 DEF Settled
    <3>3. QED
      BY <1>5, <1>8, <1>9, <1>19, <2>1, <2>4, <3>1, <3>2
  <2>5. CASE k[1] \notin p.todo
    BY <1>5, <1>19, <2>1, <2>2, <2>5 DEF Settled
  <2>6. QED
    BY <1>5, <2>3, <2>4, <2>5
<1>20. next.clean => p.clean /\ Past(p)
  BY <1>4, <1>5, <1>14 DEF Past
<1>21. CASE given = {}
  <2>1. Go(s, Done(next)) /\ Ends(next)
    BY <1>3, <1>21
  <2>2. /\ PlaceOK(Done(next)) /\ FoundOK(Done(next))
        /\ UpToDate(p) => UpToDate(Done(next))
        /\ Done(next).clean => next.clean
        /\ Past(Done(next)) => next.todo # {}
    BY <1>14, <1>18, DoneClean
  <2>3. ASSUME Past(Done(next)) PROVE Settled(Done(next))
    <3> DEFINE r == [next EXCEPT !.tasks = Nothing, !.written = Idle.written]
    <3>1. r.todo = q.todo /\ r.existing = next.existing
      BY <1>14 DEF Sync
    <3>2. next.clean
      BY <2>2, <2>3 DEF Past
    <3>3. Settled(r)
      BY <1>19, <1>21, <3>1, <3>2 DEF Settled
    <3>4. QED
      BY <1>14, <2>2, <2>3, <3>3, DoneClean
  <2>4. clean' => clean \/ (Past(p) /\ \A k \in Keys : source[k] # None => Good(k))
    BY <1>14, <1>19, <1>20, <1>21, <2>1 DEF Ends
  <2>5. Past(Done(next)) => Past(p)
    BY <1>20, <2>2 DEF Past
  <2>6. Done(next).clean => UpToDate(Done(next))
    BY <1>16, <1>20, <2>2
  <2>7. QED
    BY <1>4, <2>1, <2>2, <2>3, <2>4, <2>5, <2>6, QuietKeepsClean
<1>22. CASE given # {}
  <2>1. Go(s, sent) /\ clean' = clean
    BY <1>3, <1>22
  <2>2. PlaceOK(sent) /\ FoundOK(sent)
    BY <1>15 DEF PlaceOK, FoundOK
  <2>3. ASSUME sent.clean PROVE Settled(sent)
    BY <1>15, <1>19, <2>3 DEF Settled
  <2>4. Past(sent) => sent.clean /\ Past(p)
    BY <1>15, <1>20 DEF Past
  <2>5. sent.clean => UpToDate(sent)
    BY <1>15, <1>16, <1>18, <1>20
  <2>6. QED
    BY <1>4, <1>18, <2>1, <2>2, <2>3, <2>4, <2>5, QuietKeepsClean
<1>23. QED
  BY <1>21, <1>22

\* What is written and up to date makes a row good; nothing else that is
\* committed unmakes it.
LEMMA ApplyGood ==
  ASSUME NEW old \in Row \cup {None}, NEW w \in [value : Value \cup {None}, hash : Words \cup {None}],
         old # None \/ w = Unchanged \/ Full(w),
         NEW h, w.hash # None => w.hash = h,
         (old # None /\ old.hash = h) \/ w.hash # None
  PROVE  Apply(old, w) # None /\ Apply(old, w).hash = h
<1>1. CASE w = Unchanged
  BY <1>1 DEF Apply, Unchanged
<1>2. CASE w # Unchanged
  <2>1. Apply(old, w) # None
    BY <1>2, ApplyOK, TranslationsAssumption DEF Full, Apply, Row
  <2>2. Apply(old, w).hash = IF w.hash = None THEN old.hash ELSE w.hash
    BY <1>2 DEF Apply
  <2>3. QED
    BY <2>1, <2>2
<1>3. QED
  BY <1>1, <1>2

LEMMA CommitKeepsClean == ASSUME IInv, CleanInv, NEW s \in Syncs, Commit(s) PROVE CleanInv'
<1> DEFINE q == sync[s]
<1>1. /\ q \in Sync /\ q.at = "commit" /\ source' = source
      /\ table' = [k \in Keys |-> Apply(table[k], q.written[k])]
      /\ Go(s, Done(q)) /\ clean' = (clean \/ (q.todo = {} /\ q.clean))
  BY DEF Commit, Ends, At, IInv, TypeOK
<1>2. \A t \in Syncs : sync'[t] = IF t = s THEN Done(q) ELSE sync[t]
  BY <1>1 DEF Go, IInv, TypeOK
<1>3. /\ PlaceOK(Done(q)) /\ UpToDate(q) => UpToDate(Done(q))
      /\ Done(q).clean => q.clean
      /\ Past(Done(q)) => q.todo # {}
  BY <1>1, DoneClean
<1>4. \A r : /\ PlaceOK(r)' <=> PlaceOK(r)
             /\ UpToDate(r)' <=> UpToDate(r)
             /\ Past(r)' <=> Past(r)
  BY <1>1 DEF PlaceOK, UpToDate, Past
<1>5. ASSUME NEW t \in Syncs
      PROVE  PlaceOK(sync'[t]) /\ (sync'[t].clean => UpToDate(sync'[t]))
  <2>1. CASE t = s
    BY <1>1, <1>2, <1>3, <2>1, DoneClean DEF CleanInv
  <2>2. CASE t # s
    BY <1>2, <2>2 DEF CleanInv
  <2>3. QED
    BY <2>1, <2>2
<1>6. Past(Done(q)) => Past(q)
  BY <1>1, <1>3 DEF Past
<1>7. q.clean => Past(q)
  BY <1>1 DEF Past
<1>8. CASE ~ (clean \/ \E t \in Syncs : Past(sync[t]))
  <2>1. ~ clean'
    BY <1>1, <1>7, <1>8
  <2>2. \A t \in Syncs : ~ Past(sync'[t])
    BY <1>2, <1>6, <1>8
  <2>3. QED
    BY <1>4, <1>5, <2>1, <2>2 DEF CleanInv
<1>9. CASE clean \/ \E t \in Syncs : Past(sync[t])
  <2>1. \A t \in Syncs : UpToDate(sync[t])
    BY <1>9 DEF CleanInv
  <2>2. \A t \in Syncs : UpToDate(sync'[t])
    BY <1>1, <1>2, <2>1, DoneClean
  <2>3. ASSUME NEW k \in Keys, Good(k) \/ q.written[k].hash # None
        PROVE  Good(k)'
    <3>1. /\ table[k] \in Row \cup {None}
          /\ q.written[k] \in [value : Value \cup {None}, hash : Words \cup {None}]
          /\ table[k] # None \/ q.written[k] = Unchanged \/ Full(q.written[k])
      BY <1>1 DEF IInv, TypeOK, RowsStay, Sync
    <3>2. q.written[k].hash # None => q.written[k].hash = Hash(source[k])
      BY <2>1 DEF UpToDate
    <3>3. (table[k] # None /\ table[k].hash = Hash(source[k])) \/ q.written[k].hash # None
      BY <2>3 DEF Good
    <3> DEFINE after == Apply(table[k], q.written[k])
    <3>4. after # None /\ after.hash = Hash(source[k])
      BY <3>1, <3>2, <3>3, ApplyGood
    <3>5. table'[k] = after /\ source'[k] = source[k]
      BY <1>1
    <3> HIDE DEF after
    <3>6. QED
      BY <1>1, <3>4, <3>5 DEF Good, Hash
  <2>4. ASSUME q.clean, NEW k \in Keys, source[k] # None
        PROVE  IF k[1] \in q.todo THEN q.existing[k] = Hash(source[k]) => Good(k)' ELSE Good(k)'
    <3>1. Settled(q) /\ q.tasks[k] = None
      BY <1>1, <1>7, <2>4 DEF CleanInv, PlaceOK
    <3>2. QED
      BY <2>3, <2>4, <3>1 DEF Settled
  <2>5. ASSUME NEW t \in Syncs, Past(sync'[t]) PROVE (Settled(sync[t]) /\ FoundOK(sync[t]))'
    <3>1. CASE t = s
      <4>1. q.clean /\ q.todo # {} /\ sync'[t] = Done(q)
        BY <1>2, <1>3, <2>5, <3>1 DEF Past
      <4>2. /\ Done(q).at = "item" /\ Done(q).todo = q.todo /\ Done(q).existing = q.existing
        BY <1>1, <4>1 DEF Done, Sync
      <4>3. QED
        BY <1>1, <2>4, <4>1, <4>2 DEF Settled, FoundOK
    <3>2. CASE t # s
      <4>1. sync'[t] = sync[t] /\ Settled(sync[t]) /\ FoundOK(sync[t])
        BY <1>2, <2>5, <3>2 DEF CleanInv
      <4>2. sync[t].at = "flush" => sync[t].key \in Keys
        BY DEF IInv, FlushHasTask, At
      <4>3. QED
        BY <1>1, <2>3, <4>1, <4>2 DEF Settled, FoundOK
    <3>3. QED
      BY <3>1, <3>2
  <2>6. ASSUME clean', NEW k \in Keys, source'[k] # None PROVE Good(k)'
    <3>1. CASE clean
      BY <1>1, <2>3, <2>6, <3>1 DEF CleanInv
    <3>2. CASE q.todo = {} /\ q.clean
      BY <1>1, <2>4, <2>6, <3>2
    <3>3. QED
      BY <1>1, <2>6, <3>1, <3>2
  <2>7. QED
    BY <1>4, <1>5, <2>2, <2>5, <2>6 DEF CleanInv
<1>10. QED
  BY <1>8, <1>9

LEMMA NextKeepsClean == ASSUME IInv, CleanInv, [Next]_vars PROVE CleanInv'
<1>1. ASSUME NEW s \in Syncs, Fetch(s) \/ LoadHashes(s) \/ Translate(s) \/ Select(s) \/ Flush(s) \/ Commit(s) \/ Fail(s)
      PROVE  CleanInv'
  BY <1>1, FetchKeepsClean, LoadHashesKeepsClean, TranslateKeepsClean, SelectKeepsClean,
     FlushKeepsClean, CommitKeepsClean, FailKeepsClean
<1>2. CASE UNCHANGED vars
  BY <1>2 DEF vars, CleanInv, PlaceOK, UpToDate, Past, Settled, FoundOK, Good
<1>3. QED
  BY <1>1, <1>2, EditKeepsClean DEF Next

\* translations.py:252: once a sync has begun and ended without an error, since
\* the last edit and with no older one under way, every text has a row that says
\* what it says, whatever overlapping and failing syncs had left before it and
\* go on doing.
THEOREM CleanSyncLeavesAllCurrent == Spec => []CleanSyncCurrent
<1>1. IInv /\ CleanInv => CleanSyncCurrent
  BY DEF CleanInv, Good, IInv, HashTellsText, Tells, CleanSyncCurrent
<1>2. Init => IInv /\ CleanInv
  <2>1. ASSUME Init PROVE CleanInv
    BY <2>1, IdleClean DEF Init, CleanInv
  <2>2. QED
    BY <2>1, InitIInv
<1>3. IInv /\ CleanInv /\ [Next]_vars => (IInv /\ CleanInv)'
  BY NextKeepsIInv, NextKeepsClean
<1>4. QED
  BY <1>1, <1>2, <1>3, PTL DEF Spec

-----------------------------------------------------------------------------
\* A property that a run, or the run that made another, has seen is there.
SeenThere ==
  /\ \A r \in Syncs : \A i \in run[r].seen : Shop!Exists(i)
  /\ \A j \in Ids : Shop!Exists(j) => \A i \in property[j].seen : Shop!Exists(i)

\* A listing that is left to make is borne by none of the properties the run has seen.
Unborne ==
  \A r \in Syncs : run[r].at = "create" =>
    \A f \in run[r].rows, i \in run[r].seen : property[i].marked => property[i].listing # f.listing

\* What a run q has of the listings, unless there was an edit since it began.
Covers(q) ==
  q.fresh => \A n \in DOMAIN catalogue : catalogue[n].on_offer =>
    /\ q.at = "fetch" /\ n <= q.offset => [place |-> n, listing |-> catalogue[n].id] \in q.rows
    /\ q.at = "read" => [place |-> n, listing |-> catalogue[n].id] \in q.rows
    /\ q.at = "create" => catalogue[n].id \in Shop!already \/ \E f \in q.rows : f.listing = catalogue[n].id

ShopInv == Shop!TypeOK /\ SeenThere /\ Unborne /\ Shop!ListedOnce /\ Shop!NoneMissing /\ \A r \in Syncs : Covers(run[r])

-----------------------------------------------------------------------------
\* What an edit leaves of a run.
LEMMA EditedRun ==
  ASSUME NEW q \in Shop!Run
  PROVE  LET e == [q EXCEPT !.fresh = FALSE]
         IN e \in Shop!Run /\ e.at = q.at /\ e.rows = q.rows /\ e.seen = q.seen /\ e.fresh = FALSE
BY DEF Shop!Run

\* What the deletion of property i leaves of another.
LEMMA EditedProperty ==
  ASSUME NEW p \in Shop!Property, NEW i
  PROVE  LET e == [p EXCEPT !.seen = @ \ {i}]
         IN e \in Shop!Property /\ e.listing = p.listing /\ e.marked = p.marked /\ e.seen = p.seen \ {i}
BY DEF Shop!Property

\* The first state.
LEMMA InitShop == ASSUME Shop!Init PROVE ShopInv
<1>1. Shop!TypeOK
  <2>1. Shop!NoRun \in Shop!Run
    BY DEF Shop!NoRun, Shop!Run
  <2>2. catalogue \in Seq(Shop!Listing)
    BY DEF Shop!Init
  <2> QED BY <2>1, <2>2 DEF Shop!Init, Shop!TypeOK
<1>2. SeenThere /\ Unborne /\ Shop!ListedOnce /\ Shop!NoneMissing
  BY DEF Shop!Init, Shop!NoRun, SeenThere, Unborne, Shop!ListedOnce, Shop!NoneMissing, Shop!Exists
<1>3. \A r \in Syncs : Covers(run[r])
  BY DEF Shop!Init, Shop!NoRun, Covers
<1> QED BY <1>1, <1>2, <1>3 DEF ShopInv

\* An edit of WordPress.
LEMMA CatalogueKeepsShop ==
  ASSUME ShopInv, Shop!Publish \/ Shop!Change \/ Shop!Withdraw PROVE ShopInv'
<1>1. Shop!Edited /\ UNCHANGED property
  BY DEF Shop!Publish, Shop!Change, Shop!Withdraw
<1>2. catalogue' \in Seq(Shop!Listing)
  <2>0. catalogue \in Seq(Shop!Listing)
    BY DEF ShopInv, Shop!TypeOK
  <2>1. CASE Shop!Publish
    BY <2>0, <2>1 DEF Shop!Publish
  <2>2. CASE Shop!Change
    <3>1. PICK n \in DOMAIN catalogue : catalogue' = [catalogue EXCEPT ![n].on_offer = ~ @]
      BY <2>2 DEF Shop!Change
    <3>2. catalogue[n] \in Shop!Listing
      BY <2>0
    <3>3. [catalogue[n] EXCEPT !.on_offer = ~ @] \in Shop!Listing
      BY <3>2 DEF Shop!Listing
    <3>4. catalogue' = [catalogue EXCEPT ![n] = [catalogue[n] EXCEPT !.on_offer = ~ @]]
      BY <3>1
    <3> QED BY <2>0, <3>3, <3>4
  <2>3. CASE Shop!Withdraw
    <3>1. PICK n \in DOMAIN catalogue :
            catalogue' = SubSeq(catalogue, 1, n - 1) \o SubSeq(catalogue, n + 1, Len(catalogue))
      BY <2>3 DEF Shop!Withdraw
    <3>2. n \in 1 .. Len(catalogue)
      BY <2>0
    <3>3. SubSeq(catalogue, 1, n - 1) \in Seq(Shop!Listing)
      BY <2>0, <3>2
    <3>4. SubSeq(catalogue, n + 1, Len(catalogue)) \in Seq(Shop!Listing)
      BY <2>0, <3>2
    <3> QED BY <3>1, <3>3, <3>4
  <2> QED BY <2>1, <2>2, <2>3
<1>3. \A r \in Syncs : /\ run'[r] \in Shop!Run /\ run[r] \in Shop!Run /\ run'[r].fresh = FALSE
                       /\ run'[r].at = run[r].at /\ run'[r].rows = run[r].rows /\ run'[r].seen = run[r].seen
  <2> TAKE r \in Syncs
  <2>1. run[r] \in Shop!Run
    BY DEF ShopInv, Shop!TypeOK
  <2>2. run'[r] = [run[r] EXCEPT !.fresh = FALSE]
    BY <1>1 DEF Shop!Edited
  <2> QED BY <2>1, <2>2, EditedRun
<1>4. Shop!TypeOK'
  <2>2. run' \in [Syncs -> Shop!Run]
    BY <1>1, <1>3 DEF Shop!Edited
  <2> QED BY <1>1, <1>2, <2>2 DEF ShopInv, Shop!TypeOK, Shop!Edited
<1>5. (SeenThere /\ Unborne /\ Shop!ListedOnce)'
  BY <1>1, <1>3 DEF ShopInv, SeenThere, Unborne, Shop!ListedOnce, Shop!Exists
<1>6. Shop!NoneMissing' /\ \A r \in Syncs : Covers(run[r])'
  BY <1>1, <1>3 DEF Shop!Edited, Shop!NoneMissing, Covers
<1> QED BY <1>4, <1>5, <1>6 DEF ShopInv

-----------------------------------------------------------------------------
\* An edit of the properties.
LEMMA DeleteKeepsShop ==
  ASSUME ShopInv, NEW i \in Ids, Shop!Delete(i) PROVE ShopInv'
<1>1. \A j \in Ids : property[j] \in Shop!Property \cup {None}
  BY DEF ShopInv, Shop!TypeOK
<1>2. \A j \in Ids : Shop!Exists(j)' =>
        /\ j # i /\ Shop!Exists(j)
        /\ property[j] \in Shop!Property
        /\ property'[j].listing = property[j].listing
        /\ property'[j].marked = property[j].marked
        /\ property'[j].seen = property[j].seen \ {i}
  <2> SUFFICES ASSUME NEW j \in Ids, Shop!Exists(j)'
               PROVE  /\ j # i /\ Shop!Exists(j)
                      /\ property[j] \in Shop!Property
                      /\ property'[j].listing = property[j].listing
                      /\ property'[j].marked = property[j].marked
                      /\ property'[j].seen = property[j].seen \ {i}
    OBVIOUS
  <2>1. j # i /\ Shop!Exists(j) /\ property'[j] = [property[j] EXCEPT !.seen = @ \ {i}]
    BY DEF Shop!Delete, Shop!Exists
  <2>2. property[j] \in Shop!Property
    BY <2>1, <1>1 DEF Shop!Exists
  <2> QED BY <2>1, <2>2, EditedProperty
<1>3. \A j \in Ids : Shop!Exists(j) /\ j # i => Shop!Exists(j)'
  <2> SUFFICES ASSUME NEW j \in Ids, Shop!Exists(j), j # i PROVE Shop!Exists(j)'
    OBVIOUS
  <2>1. property'[j] = [property[j] EXCEPT !.seen = @ \ {i}] /\ property[j] \in Shop!Property
    BY <1>1 DEF Shop!Delete, Shop!Exists
  <2>2. property'[j] \in Shop!Property
    BY <2>1, EditedProperty
  <2> QED BY <2>2, ListingsAssumption DEF Shop!Exists, Shop!ListingImportAssumption
<1>4. \A r \in Syncs : /\ run'[r] \in Shop!Run /\ run[r] \in Shop!Run /\ run'[r].fresh = FALSE
                       /\ run'[r].at = run[r].at /\ run'[r].rows = run[r].rows /\ run'[r].seen = run[r].seen \ {i}
  <2> TAKE r \in Syncs
  <2>1. run[r] \in Shop!Run
    BY DEF ShopInv, Shop!TypeOK
  <2>2. run'[r] = [run[r] EXCEPT !.fresh = FALSE, !.seen = @ \ {i}]
    BY DEF Shop!Delete
  <2> QED BY <2>1, <2>2 DEF Shop!Run
<1>5. Shop!TypeOK'
  <2>2. run' \in [Syncs -> Shop!Run]
    BY <1>4 DEF Shop!Delete
  <2>3. \A j \in Ids : Shop!Exists(j) => [property[j] EXCEPT !.seen = @ \ {i}] \in Shop!Property
    BY <1>1, EditedProperty DEF Shop!Exists
  <2>4. property' \in [Ids -> Shop!Property \cup {None}]
    BY <2>3 DEF Shop!Delete
  <2> QED BY <2>2, <2>4 DEF ShopInv, Shop!TypeOK, Shop!Delete
<1>6. SeenThere'
  <2>1. ASSUME NEW r \in Syncs, NEW j \in run'[r].seen PROVE Shop!Exists(j)'
    <3>1. j \in run[r].seen /\ j # i /\ j \in Ids
      BY <1>4, <2>1 DEF Shop!Run
    <3>2. Shop!Exists(j)
      BY <3>1 DEF ShopInv, SeenThere
    <3> QED BY <3>1, <3>2, <1>3
  <2>2. ASSUME NEW k \in Ids, Shop!Exists(k)', NEW j \in property'[k].seen PROVE Shop!Exists(j)'
    <3>1. Shop!Exists(k) /\ j \in property[k].seen /\ j # i /\ j \in Ids
      BY <1>2, <2>2 DEF Shop!Property
    <3>2. Shop!Exists(j)
      BY <3>1 DEF ShopInv, SeenThere
    <3> QED BY <3>1, <3>2, <1>3
  <2> QED BY <2>1, <2>2 DEF SeenThere
<1>7. Unborne'
  <2> SUFFICES ASSUME NEW r \in Syncs, run'[r].at = "create", NEW f \in run'[r].rows, NEW j \in run'[r].seen,
                      property'[j].marked
               PROVE  property'[j].listing # f.listing
    BY DEF Unborne
  <2>1. run[r].at = "create" /\ f \in run[r].rows /\ j \in run[r].seen /\ j # i /\ j \in Ids
    BY <1>4 DEF Shop!Run
  <2>2. Shop!Exists(j)'
    BY <2>1, <1>3 DEF ShopInv, SeenThere
  <2>3. property[j].marked /\ property'[j].listing = property[j].listing
    BY <2>2, <2>1, <1>2 DEF Shop!Property
  <2> QED BY <2>1, <2>3 DEF ShopInv, Unborne
<1>8. Shop!ListedOnce'
  <2> SUFFICES ASSUME NEW j \in Ids, NEW k \in Ids, j # k, Shop!Exists(j)', Shop!Exists(k)',
                      property'[j].marked, property'[k].marked, property'[j].listing = property'[k].listing
               PROVE  j \notin property'[k].seen
    BY DEF Shop!ListedOnce
  <2>1. Shop!Exists(j) /\ Shop!Exists(k) /\ property[j].marked /\ property[k].marked
        /\ property[j].listing = property[k].listing /\ property'[k].seen \subseteq property[k].seen
    BY <1>2 DEF Shop!Property
  <2> QED BY <2>1 DEF ShopInv, Shop!ListedOnce
<1>9. Shop!NoneMissing' /\ \A r \in Syncs : Covers(run[r])'
  BY <1>4 DEF Shop!Delete, Shop!NoneMissing, Covers
<1> QED BY <1>5, <1>6, <1>7, <1>8, <1>9 DEF ShopInv

LEMMA EditNotesKeepsShop ==
  ASSUME ShopInv, NEW i \in Ids, Shop!EditNotes(i) PROVE ShopInv'
<1>1. property[i] \in Shop!Property
  BY DEF ShopInv, Shop!TypeOK, Shop!EditNotes, Shop!Exists
<1>2. [property[i] EXCEPT !.marked = FALSE] \in Shop!Property
  BY <1>1 DEF Shop!Property
<1>3. property' = [property EXCEPT ![i] = [property[i] EXCEPT !.marked = FALSE]]
  BY DEF Shop!EditNotes
<1>4. \A j \in Ids : /\ Shop!Exists(j)' <=> Shop!Exists(j)
                     /\ property'[j].listing = property[j].listing \/ ~ Shop!Exists(j)
                     /\ property'[j].seen = property[j].seen \/ ~ Shop!Exists(j)
                     /\ Shop!Exists(j) /\ property'[j].marked => property[j].marked
  <2> TAKE j \in Ids
  <2>1. CASE j = i
    BY <2>1, <1>1, <1>2, <1>3, ListingsAssumption DEF Shop!Property, Shop!Exists, ShopInv, Shop!TypeOK, Shop!ListingImportAssumption
  <2>2. CASE j # i
    BY <2>2, <1>3 DEF Shop!Exists, ShopInv, Shop!TypeOK
  <2> QED BY <2>1, <2>2
<1>5. \A r \in Syncs : /\ run'[r] \in Shop!Run /\ run[r] \in Shop!Run /\ run'[r].fresh = FALSE
                       /\ run'[r].at = run[r].at /\ run'[r].rows = run[r].rows /\ run'[r].seen = run[r].seen
  <2> TAKE r \in Syncs
  <2>1. run[r] \in Shop!Run
    BY DEF ShopInv, Shop!TypeOK
  <2>2. run'[r] = [run[r] EXCEPT !.fresh = FALSE]
    BY DEF Shop!EditNotes, Shop!Edited
  <2> QED BY <2>1, <2>2, EditedRun
<1>6. Shop!TypeOK'
  <2>2. run' \in [Syncs -> Shop!Run]
    BY <1>5 DEF Shop!Edited, Shop!EditNotes
  <2>3. property' \in [Ids -> Shop!Property \cup {None}]
    BY <1>2, <1>3 DEF ShopInv, Shop!TypeOK
  <2> QED BY <2>2, <2>3 DEF ShopInv, Shop!TypeOK, Shop!Edited, Shop!EditNotes
<1>7. SeenThere'
  <2>1. \A r \in Syncs : run'[r].seen = run[r].seen /\ run[r].seen \subseteq Ids
    BY <1>5 DEF Shop!Run
  <2>2. \A j \in Ids : Shop!Exists(j) => property[j].seen \subseteq Ids
    BY DEF ShopInv, Shop!TypeOK, Shop!Property, Shop!Exists
  <2> QED BY <2>1, <2>2, <1>4 DEF ShopInv, SeenThere
<1>8. Unborne'
  <2>1. \A r \in Syncs : /\ run'[r].at = run[r].at /\ run'[r].rows = run[r].rows /\ run'[r].seen = run[r].seen
                         /\ run[r].seen \subseteq Ids
    BY <1>5 DEF Shop!Run
  <2> QED BY <2>1, <1>4 DEF ShopInv, Unborne, SeenThere
<1>9. Shop!ListedOnce'
  BY <1>4 DEF ShopInv, Shop!ListedOnce
<1>10. Shop!NoneMissing' /\ \A r \in Syncs : Covers(run[r])'
  BY <1>5 DEF Shop!EditNotes, Shop!Edited, Shop!NoneMissing, Covers
<1> QED BY <1>6, <1>7, <1>8, <1>9, <1>10 DEF ShopInv

-----------------------------------------------------------------------------
\* The steps of a run that make no property.
LEMMA RunKeepsShop ==
  ASSUME ShopInv, NEW r \in Syncs, NEW q \in Shop!Run, run' = [run EXCEPT ![r] = q], UNCHANGED <<catalogue, property>>,
         \A i \in q.seen : Shop!Exists(i),
         q.at = "create" =>
           \A f \in q.rows, i \in q.seen : property[i].marked => property[i].listing # f.listing,
         Covers(q),
         current' \in BOOLEAN, current' => Shop!NoneMissing' \/ current
  PROVE  ShopInv'
<1>1. \A k \in Syncs : run'[k] = IF k = r THEN q ELSE run[k]
  BY DEF ShopInv, Shop!TypeOK
<1>2. Shop!TypeOK'
  BY DEF ShopInv, Shop!TypeOK
<1>3. (SeenThere /\ Unborne /\ Shop!ListedOnce)'
  BY <1>1 DEF ShopInv, SeenThere, Unborne, Shop!ListedOnce, Shop!Exists
<1>4. Shop!already' = Shop!already
  BY DEF Shop!already, Shop!Exists
<1>5. Shop!NoneMissing'
  BY <1>4 DEF ShopInv, Shop!NoneMissing
<1>6. \A k \in Syncs : Covers(run[k])'
  BY <1>1, <1>4 DEF ShopInv, Covers
<1> QED BY <1>2, <1>3, <1>5, <1>6 DEF ShopInv

LEMMA NoRunOK == Shop!NoRun \in Shop!Run /\ Shop!NoRun.seen = {} /\ Shop!NoRun.at = "idle" /\ Shop!NoRun.fresh = FALSE
BY DEF Shop!NoRun, Shop!Run

LEMMA BeginKeepsShop == ASSUME ShopInv, NEW r \in Syncs, Shop!Begin(r) PROVE ShopInv'
<1> DEFINE q == [Shop!NoRun EXCEPT !.at = "fetch", !.fresh = TRUE]
<1>1. q \in Shop!Run /\ q.seen = {} /\ q.at = "fetch" /\ q.offset = 0
  BY DEF Shop!NoRun, Shop!Run
<1>2. run' = [run EXCEPT ![r] = q] /\ UNCHANGED <<catalogue, property, current>>
  BY DEF Shop!Begin
<1> HIDE DEF q
<1>3. Covers(q)
  BY <1>1 DEF Covers, ShopInv, Shop!TypeOK
<1> QED BY <1>1, <1>2, <1>3, RunKeepsShop DEF ShopInv, Shop!TypeOK

LEMMA StopKeepsShop == ASSUME ShopInv, NEW r \in Syncs, Shop!Stop(r) PROVE ShopInv'
<1>1. Covers(Shop!NoRun)
  BY NoRunOK DEF Covers
<1> QED BY <1>1, NoRunOK, RunKeepsShop DEF Shop!Stop, ShopInv, Shop!TypeOK

LEMMA EndKeepsShop == ASSUME ShopInv, NEW r \in Syncs, Shop!End(r) PROVE ShopInv'
<1>1. Covers(Shop!NoRun)
  BY NoRunOK DEF Covers
<1>2. run[r] \in Shop!Run
  BY DEF ShopInv, Shop!TypeOK
<1>3. current' \in BOOLEAN
  BY <1>2 DEF Shop!End, ShopInv, Shop!TypeOK, Shop!Run
<1>4. ASSUME current', ~ current PROVE Shop!NoneMissing'
  <2>1. run[r].fresh /\ run[r].at = "create" /\ run[r].rows = {}
    BY <1>4 DEF Shop!End
  <2>2. \A n \in DOMAIN catalogue : catalogue[n].on_offer => catalogue[n].id \in Shop!already
    BY <2>1 DEF ShopInv, Covers
  <2>3. Shop!already' = Shop!already /\ UNCHANGED catalogue
    BY DEF Shop!End, Shop!already, Shop!Exists
  <2> QED BY <2>2, <2>3 DEF Shop!NoneMissing
<1> QED BY <1>1, <1>3, <1>4, NoRunOK, RunKeepsShop DEF Shop!End

LEMMA FetchPageKeepsShop == ASSUME ShopInv, NEW r \in Syncs, Shop!FetchPage(r) PROVE ShopInv'
<1> DEFINE old == run[r]
           page == Shop!build_plan(Shop!Page(old.offset))
           at == IF Shop!LastPage(old.offset) THEN "read" ELSE "fetch"
           q == [old EXCEPT !.rows = @ \cup page, !.offset = @ + PageSize, !.at = at]
<1>1. old \in Shop!Run /\ catalogue \in Seq(Shop!Listing)
  BY DEF ShopInv, Shop!TypeOK
<1>2. page \in SUBSET Shop!Fetched
  <2> SUFFICES ASSUME NEW n \in DOMAIN catalogue
               PROVE  [place |-> n, listing |-> catalogue[n].id] \in Shop!Fetched
    BY DEF Shop!build_plan, Shop!build_planned, Shop!Page
  <2>1. n \in Nat \ {0} /\ catalogue[n] \in Shop!Listing
    BY <1>1
  <2>2. catalogue[n].id \in Posts
    BY <2>1 DEF Shop!Listing
  <2> QED BY <2>1, <2>2 DEF Shop!Fetched
<1>3. \A n \in DOMAIN catalogue : catalogue[n].on_offer /\ n > old.offset /\ n <= old.offset + PageSize
        => [place |-> n, listing |-> catalogue[n].id] \in page
  BY DEF Shop!build_plan, Shop!build_planned, Shop!Page
<1>4. run' = [run EXCEPT ![r] = q] /\ UNCHANGED <<catalogue, property, current>> /\ old.at = "fetch"
  BY DEF Shop!FetchPage
<1> HIDE DEF page
<1>at. at \in {"read", "fetch"} /\ (at = "read" => Shop!LastPage(old.offset))
  OBVIOUS
<1> HIDE DEF at
<1>5. /\ q \in Shop!Run /\ q.seen = old.seen /\ q.at # "create" /\ q.fresh = old.fresh
      /\ q.rows = old.rows \cup page /\ q.offset = old.offset + PageSize
      /\ q.at = "read" => Shop!LastPage(old.offset)
  <2>1. old.rows \cup page \in SUBSET Shop!Fetched
    BY <1>1, <1>2 DEF Shop!Run
  <2>2. old.offset + PageSize \in Nat
    BY <1>1, ListingsAssumption DEF Shop!Run, Shop!ListingImportAssumption
  <2>3. q = [old EXCEPT !.rows = old.rows \cup page, !.offset = old.offset + PageSize, !.at = at]
    OBVIOUS
  <2> HIDE DEF old, q
  <2> QED BY <1>1, <1>at, <2>1, <2>2, <2>3 DEF Shop!Run
<1> HIDE DEF q
<1>6. Covers(q)
  <2> SUFFICES ASSUME q.fresh, NEW n \in DOMAIN catalogue, catalogue[n].on_offer,
                      q.at = "read" \/ n <= q.offset
               PROVE  [place |-> n, listing |-> catalogue[n].id] \in q.rows
    BY <1>5 DEF Covers
  <2>1. n \in 1 .. Len(catalogue) /\ Len(catalogue) \in Nat /\ old.offset \in Nat /\ PageSize \in Nat
    BY <1>1, ListingsAssumption DEF Shop!Run, Shop!ListingImportAssumption
  <2>2. n <= old.offset + PageSize
    BY <1>5, <2>1 DEF Shop!LastPage
  <2>3. CASE n <= old.offset
    BY <2>3, <1>4, <1>5 DEF ShopInv, Covers
  <2>4. CASE n > old.offset
    BY <2>2, <2>4, <1>3, <1>5
  <2> QED BY <2>1, <2>3, <2>4
<1>7. \A i \in q.seen : Shop!Exists(i)
  BY <1>5 DEF ShopInv, SeenThere
<1> QED BY <1>4, <1>5, <1>6, <1>7, RunKeepsShop DEF ShopInv, Shop!TypeOK

LEMMA ReadNotesKeepsShop == ASSUME ShopInv, NEW r \in Syncs, Shop!ReadNotes(r) PROVE ShopInv'
<1> DEFINE old == run[r]
           q == [old EXCEPT !.at = "create", !.offset = 0, !.rows = { f \in @ : f.listing \notin Shop!already },
                            !.seen = { i \in Ids : Shop!Exists(i) }]
<1>1. old \in Shop!Run
  BY DEF ShopInv, Shop!TypeOK
<1>2. run' = [run EXCEPT ![r] = q] /\ UNCHANGED <<catalogue, property, current>> /\ old.at = "read"
  BY DEF Shop!ReadNotes
<1>3. /\ q \in Shop!Run /\ q.at = "create" /\ q.fresh = old.fresh
      /\ q.rows = { f \in old.rows : f.listing \notin Shop!already }
      /\ q.seen = { i \in Ids : Shop!Exists(i) }
  BY <1>1 DEF Shop!Run
<1> HIDE DEF q
<1>4. \A i \in q.seen : property[i].marked => property[i].listing \in Shop!already
  BY <1>3 DEF Shop!already
<1>5. Covers(q)
  <2> SUFFICES ASSUME q.fresh, NEW n \in DOMAIN catalogue, catalogue[n].on_offer, catalogue[n].id \notin Shop!already
               PROVE  \E f \in q.rows : f.listing = catalogue[n].id
    BY <1>3 DEF Covers
  <2>1. [place |-> n, listing |-> catalogue[n].id] \in old.rows
    BY <1>2, <1>3 DEF ShopInv, Covers
  <2> QED BY <2>1, <1>3
<1> QED BY <1>2, <1>3, <1>4, <1>5, RunKeepsShop DEF ShopInv, Shop!TypeOK

-----------------------------------------------------------------------------
\* A property is made.  None of those the run has seen bears its listing's marker, and
\* nobody has seen it.
LEMMA CreateKeepsShop == ASSUME ShopInv, NEW r \in Syncs, Shop!Create(r) PROVE ShopInv'
<1>1. PICK f \in run[r].rows, i \in Ids :
        /\ ~ Shop!Exists(i)
        /\ property' = [property EXCEPT ![i] = Shop!Imported(f, run[r].seen)]
        /\ run' = [run EXCEPT ![r].rows = @ \ {f}]
  BY DEF Shop!Create
<1> DEFINE new == Shop!Imported(f, run[r].seen)
           q == [run[r] EXCEPT !.rows = @ \ {f}]
<1>2. run[r] \in Shop!Run /\ run[r].at = "create" /\ UNCHANGED <<catalogue, current>>
  BY DEF Shop!Create, ShopInv, Shop!TypeOK
<1>3. new \in Shop!Property /\ new.marked /\ new.listing = f.listing /\ new.seen = run[r].seen
  BY <1>2 DEF Shop!Run, Shop!Fetched, Shop!Property, Shop!Imported
<1>4. /\ q \in Shop!Run /\ q.at = "create" /\ q.seen = run[r].seen /\ q.rows = run[r].rows \ {f} /\ q.fresh = run[r].fresh
  BY <1>2 DEF Shop!Run
<1> HIDE DEF new, q
<1>5. \A k \in Syncs : run'[k] = IF k = r THEN q ELSE run[k]
  BY <1>1 DEF ShopInv, Shop!TypeOK, q
<1>6. \A j \in Ids : property'[j] = IF j = i THEN new ELSE property[j]
  BY <1>1 DEF ShopInv, Shop!TypeOK, new
<1>7. /\ \A j \in Ids : Shop!Exists(j) => Shop!Exists(j)' /\ j # i /\ property'[j] = property[j]
      /\ Shop!Exists(i)'
  BY <1>1, <1>3, <1>6, ListingsAssumption DEF Shop!Exists, Shop!ListingImportAssumption
<1>8. Shop!TypeOK'
  <2>1. property' \in [Ids -> Shop!Property \cup {None}]
    BY <1>1, <1>3 DEF ShopInv, Shop!TypeOK, new
  <2>2. run' \in [Syncs -> Shop!Run]
    BY <1>1, <1>4 DEF ShopInv, Shop!TypeOK, q
  <2> QED BY <1>2, <2>1, <2>2 DEF ShopInv, Shop!TypeOK
<1>9. SeenThere'
  <2>1. \A k \in Syncs : run'[k].seen = run[k].seen /\ run[k].seen \subseteq Ids
    BY <1>4, <1>5 DEF ShopInv, Shop!TypeOK, Shop!Run
  <2>2. \A j \in Ids : Shop!Exists(j) => property[j].seen \subseteq Ids
    BY DEF ShopInv, Shop!TypeOK, Shop!Property, Shop!Exists
  <2>3. \A j \in run[r].seen : Shop!Exists(j)'
    BY <1>7, <2>1 DEF ShopInv, SeenThere
  <2>4. ASSUME NEW j \in Ids, Shop!Exists(j)', NEW k \in property'[j].seen PROVE Shop!Exists(k)'
    <3>1. CASE j = i
      BY <3>1, <1>3, <1>6, <2>3, <2>4
    <3>2. CASE j # i
      <4>1. Shop!Exists(j) /\ property'[j] = property[j]
        BY <3>2, <1>6, <2>4 DEF Shop!Exists
      <4> QED BY <4>1, <2>2, <2>4, <1>7 DEF ShopInv, SeenThere
    <3> QED BY <3>1, <3>2
  <2> QED BY <2>1, <2>4, <1>7 DEF ShopInv, SeenThere
<1>10. Unborne'
  <2> SUFFICES ASSUME NEW k \in Syncs, run'[k].at = "create", NEW g \in run'[k].rows, NEW j \in run'[k].seen,
                      property'[j].marked
               PROVE  property'[j].listing # g.listing
    BY DEF Unborne
  <2>1. run[k].at = "create" /\ g \in run[k].rows /\ j \in run[k].seen /\ j \in Ids
    BY <1>2, <1>4, <1>5 DEF ShopInv, Shop!TypeOK, Shop!Run
  <2>2. property'[j] = property[j]
    BY <2>1, <1>7 DEF ShopInv, SeenThere
  <2> QED BY <2>1, <2>2 DEF ShopInv, Unborne
<1>11. Shop!ListedOnce'
  <2> SUFFICES ASSUME NEW j \in Ids, NEW k \in Ids, j # k, Shop!Exists(j)', Shop!Exists(k)',
                      property'[j].marked, property'[k].marked, property'[j].listing = property'[k].listing
               PROVE  j \notin property'[k].seen
    BY DEF Shop!ListedOnce
  <2>1. CASE k = i
    <3>1. Shop!Exists(j) /\ property'[j] = property[j]
      BY <2>1, <1>6 DEF Shop!Exists
    <3>2. j \in run[r].seen => property[j].listing # f.listing
      BY <3>1, <1>2 DEF ShopInv, Unborne
    <3> QED BY <2>1, <3>1, <3>2, <1>3, <1>6
  <2>2. CASE k # i /\ j = i
    <3>1. Shop!Exists(k) /\ property'[k] = property[k]
      BY <2>2, <1>6 DEF Shop!Exists
    <3> QED BY <2>2, <3>1, <1>1 DEF ShopInv, SeenThere
  <2>3. CASE k # i /\ j # i
    BY <2>3, <1>6 DEF ShopInv, Shop!ListedOnce, Shop!Exists
  <2> QED BY <2>1, <2>2, <2>3
<1>12. Shop!already \subseteq Shop!already' /\ f.listing \in Shop!already'
  <2>1. \A j \in Ids : Shop!Exists(j) /\ property[j].marked => Shop!Exists(j)' /\ property'[j] = property[j]
    BY <1>7
  <2>2. Shop!already \subseteq Shop!already'
    BY <2>1 DEF Shop!already
  <2>3. Shop!Exists(i)' /\ property'[i].marked /\ property'[i].listing = f.listing
    BY <1>3, <1>6, <1>7
  <2> QED BY <2>2, <2>3 DEF Shop!already
<1>13. Shop!NoneMissing'
  BY <1>2, <1>12 DEF ShopInv, Shop!NoneMissing
<1>14. ASSUME NEW k \in Syncs PROVE Covers(run[k])'
  <2>1. CASE k = r
    <3> SUFFICES ASSUME q.fresh, NEW n \in DOMAIN catalogue, catalogue[n].on_offer
                 PROVE  catalogue[n].id \in Shop!already' \/ \E g \in q.rows : g.listing = catalogue[n].id
      BY <2>1, <1>2, <1>4, <1>5 DEF Covers
    <3>1. catalogue[n].id \in Shop!already \/ \E g \in run[r].rows : g.listing = catalogue[n].id
      BY <1>2, <1>4 DEF ShopInv, Covers
    <3> QED BY <3>1, <1>4, <1>12
  <2>2. CASE k # r
    BY <2>2, <1>2, <1>5, <1>12 DEF ShopInv, Covers
  <2> QED BY <2>1, <2>2
<1> QED BY <1>8, <1>9, <1>10, <1>11, <1>13, <1>14 DEF ShopInv

-----------------------------------------------------------------------------
LEMMA NextKeepsShop == ASSUME ShopInv, [Shop!Next]_(Shop!vars) PROVE ShopInv'
<1>1. CASE UNCHANGED Shop!vars
  BY <1>1 DEF Shop!vars, ShopInv, Shop!TypeOK, SeenThere, Unborne, Shop!ListedOnce, Shop!NoneMissing, Covers, Shop!already, Shop!Exists
<1>2. CASE Shop!Publish \/ Shop!Change \/ Shop!Withdraw
  BY <1>2, CatalogueKeepsShop
<1>3. CASE \E i \in Ids : Shop!Delete(i) \/ Shop!EditNotes(i)
  BY <1>3, DeleteKeepsShop, EditNotesKeepsShop
<1>4. CASE \E r \in Syncs : Shop!Begin(r) \/ Shop!FetchPage(r) \/ Shop!ReadNotes(r) \/ Shop!Create(r) \/ Shop!End(r) \/ Shop!Stop(r)
  BY <1>4, BeginKeepsShop, FetchPageKeepsShop, ReadNotesKeepsShop, CreateKeepsShop, EndKeepsShop, StopKeepsShop
<1> QED BY <1>1, <1>2, <1>3, <1>4 DEF Shop!Next

\* The import is type correct (_import_metadata), whatever runs overlap and wherever they
\* stop.
THEOREM ListingImportTypeCorrect == Shop!Spec => []Shop!TypeOK
<1>1. Shop!Init => ShopInv
  BY InitShop
<1>2. ShopInv /\ [Shop!Next]_(Shop!vars) => ShopInv'
  BY NextKeepsShop
<1>3. ShopInv => Shop!TypeOK
  BY DEF ShopInv
<1> QED BY <1>1, <1>2, <1>3, PTL DEF Shop!Spec

\* import_wp_properties.py:9 and 11, for any length of a page and any number of overlapping
\* runs and edits: a run that ends leaves every listing on offer with a property, and two
\* properties of one listing come only from runs that could not know, or from one run that
\* fetched the listing twice.
THEOREM ImportMirrorsListings == Shop!Spec => []ListingsMirrored
<1>1. Shop!Init => ShopInv
  BY InitShop
<1>2. ShopInv /\ [Shop!Next]_(Shop!vars) => ShopInv'
  BY NextKeepsShop
<1>3. ShopInv => ListingsMirrored
  BY DEF ShopInv, ListingsMirrored, Shop!ListingsMirrored
<1> QED BY <1>1, <1>2, <1>3, PTL DEF Shop!Spec

-----------------------------------------------------------------------------
(***************************************************************************)
(* The mirror of the content.  A WordPress id never has two rows, neither  *)
(* among those committed nor with those the import is about to commit; and *)
(* while nothing is edited, every post of WordPress is still to do, is the *)
(* one at hand, or has its row.                                            *)
(***************************************************************************)

\* The row as the transaction of an import q sees it.
RowOf(q, i) == IF q.written[i] = None THEN row[i] ELSE q.written[i]

\* Only between a match and its flush there is a post or a row at hand, and an UPDATE
\* leaves it published or not.
AtHand(q) ==
  /\ q.at # "flush" => q.post = None /\ q.found = None
  /\ q.at = "flush" /\ q.found = None => q.post # None
  /\ q.found # None => q.post = None /\ q.columns \in Mirror!Columns /\ q.columns.published = None

\* No two rows of one post.
RowsApart == \A i, j \in Ids : Mirror!Exists(i) /\ Mirror!Exists(j) /\ row[i].wp = row[j].wp /\ row[i].wp # None => i = j

\* A row that was updated is of the same post, and published or not as before; one
\* that was inserted is of a post that has no other.
Updated(q) ==
  \A i \in Ids : q.written[i] # None /\ Mirror!Exists(i) =>
    q.written[i].wp = row[i].wp /\ q.written[i].published = row[i].published
Inserts(q) ==
  \A i \in Ids : q.written[i] # None /\ ~ Mirror!Exists(i) =>
    /\ q.written[i].wp # None
    /\ \A j \in Ids : Mirror!Exists(j) => row[j].wp # q.written[i].wp
    /\ \A j \in Ids \ {i} : q.written[j] # None => q.written[j].wp # q.written[i].wp

\* A post is gone through once: those that have been written, and the one at hand, are
\* not still to do, and the one at hand has not been written.
Once(q) ==
  /\ \A i \in Ids : q.written[i] # None /\ q.written[i].wp # None => q.posts[q.written[i].wp] = None
  /\ q.post # None =>
       /\ q.post.wp # None /\ q.posts[q.post.wp] = None
       /\ \A i \in Ids : Mirror!Exists(i) => row[i].wp # q.post.wp
       /\ \A i \in Ids : q.written[i] # None => q.written[i].wp # q.post.wp
  /\ q.found # None => q.written[q.found] = None
  /\ q.found # None /\ Mirror!Exists(q.found) =>
       row[q.found].wp # None /\ q.posts[row[q.found].wp] = None

\* Where post p is with an import that no edit has overtaken: still to do, at hand
\* with what WordPress says of it, or done.
Handled(q, p) ==
  \/ q.post # None /\ q.post.wp = p
  \/ q.found # None /\ Mirror!Exists(q.found) /\ row[q.found].wp = p
Agrees(q, p) ==
  /\ q.post # None => q.post.slug = wordpress[p]
  /\ q.found # None => q.columns = Mirror!Differing(Mirror!Values(wordpress[p]), row[q.found])
HasRow(q, p) == \E i \in Ids : RowOf(q, i) # None /\ RowOf(q, i).wp = p /\ RowOf(q, i).slug = wordpress[p]
Follows(q) ==
  q.fresh => \A p \in Posts : wordpress[p] \in Mirrored =>
    \/ q.posts[p] = wordpress[p]
    \/ q.posts[p] = None /\ IF Handled(q, p) THEN Agrees(q, p) ELSE HasRow(q, p)

ImportInv(q) == AtHand(q) /\ Updated(q) /\ Inserts(q) /\ Once(q) /\ Follows(q)

MirrorInv ==
  /\ Mirror!TypeOK /\ RowsApart /\ ImportInv(import)
  /\ fresh /\ import.at # "idle" => import.fresh
  /\ Mirror!ImportMirrors

\* What the columns of a PATCH or of a post make of a row.
LEMMA SetOK ==
  ASSUME NEW r \in Mirror!Row, NEW c \in Mirror!Columns
  PROVE  LET new == Mirror!Set(r, c)
         IN /\ new \in Mirror!Row /\ new.wp = r.wp
            /\ new.slug = (IF c.slug = None THEN r.slug ELSE c.slug)
            /\ new.published = (IF c.published = None THEN r.published ELSE c.published)
BY DEF Mirror!Set, Mirror!Row, Mirror!Columns

LEMMA DifferingOK ==
  ASSUME NEW r \in Mirror!Row, NEW slug \in Addresses
  PROVE  LET c == Mirror!Differing(Mirror!Values(slug), r)
         IN /\ c \in Mirror!Columns /\ c.published = None
            /\ Mirror!Set(r, c).slug = slug
            /\ c = Mirror!NoColumns => r.slug = slug
<1> DEFINE c == Mirror!Differing(Mirror!Values(slug), r)
<1>1. /\ c = [slug |-> IF slug = r.slug THEN None ELSE slug, published |-> IF None = r.published THEN None ELSE None]
      /\ slug # None
  BY MirrorAssumption DEF Mirror!Differing, Mirror!Values, Mirror!ContentMirrorAssumption
<1>2. c \in Mirror!Columns /\ c.published = None /\ c.slug = (IF slug = r.slug THEN None ELSE slug)
  BY <1>1 DEF Mirror!Columns
<1> HIDE DEF c
<1>3. Mirror!Set(r, c).slug = slug
  BY <1>1, <1>2, SetOK
<1>4. c = Mirror!NoColumns => r.slug = slug
  BY <1>1, <1>2 DEF Mirror!NoColumns
<1> QED BY <1>2, <1>3, <1>4 DEF c

LEMMA NoImportOK ==
  /\ Mirror!NoImport \in Mirror!Import /\ Mirror!NoImport.at = "idle" /\ Mirror!NoImport.fresh = FALSE
  /\ Mirror!NoImport.post = None /\ Mirror!NoImport.found = None
  /\ \A i \in Ids : Mirror!NoImport.written[i] = None
BY DEF Mirror!NoImport, Mirror!Import

LEMMA NoImportInv == ImportInv(Mirror!NoImport)
BY NoImportOK DEF ImportInv, AtHand, Updated, Inserts, Once, Follows

\* The first state.
LEMMA InitMirror == Mirror!Init => MirrorInv
<1> SUFFICES ASSUME Mirror!Init PROVE MirrorInv
  OBVIOUS
<1>1. Mirror!TypeOK
  <2>1. Mirror!NoPatch \in Mirror!Patches
    BY DEF Mirror!Patches
  <2> QED BY <2>1, NoImportOK DEF Mirror!Init, Mirror!TypeOK
<1>2. RowsApart /\ ImportInv(import) /\ ~ fresh
  BY NoImportInv DEF Mirror!Init, RowsApart, Mirror!Exists
<1> QED BY <1>1, <1>2 DEF MirrorInv, Mirror!ImportMirrors

\* A step of the import that commits nothing.
LEMMA ImportKeepsMirror ==
  ASSUME MirrorInv, NEW q \in Mirror!Import, import' = q, ImportInv(q),
         fresh /\ q.at # "idle" => q.fresh,
         UNCHANGED <<wordpress, row, editor, fresh>>
  PROVE  MirrorInv'
<1>1. Mirror!TypeOK' /\ RowsApart' /\ Mirror!ImportMirrors'
  BY DEF MirrorInv, Mirror!TypeOK, RowsApart, Mirror!ImportMirrors, Mirror!Exists
<1>2. ImportInv(import)'
  BY DEF ImportInv, AtHand, Updated, Inserts, Once, Follows, Handled, Agrees, HasRow, RowOf, Mirror!Exists,
         Mirror!Differing, Mirror!Values, Mirror!Columns
<1> QED BY <1>1, <1>2 DEF MirrorInv

\* An edit: a row the import has written stays, and a new row is of no post and not
\* the one at hand.
LEMMA EditKeepsMirror ==
  ASSUME MirrorInv,
         wordpress' \in [Posts -> Addresses \cup {None}],
         row' \in [Ids -> Mirror!Row \cup {None}],
         editor' \in [Editors -> Mirror!Patches],
         Mirror!Edited,
         \A i \in Ids : import.written[i] # None => row'[i] = row[i],
         \A i \in Ids : row'[i] # None =>
           \/ row[i] # None /\ row'[i].wp = row[i].wp
           \/ row[i] = None /\ row'[i].wp = None /\ import.found # i
  PROVE  MirrorInv'
<1>1. /\ import \in Mirror!Import /\ import' \in Mirror!Import /\ import'.fresh = FALSE /\ fresh' = FALSE
      /\ import'.at = import.at /\ import'.posts = import.posts /\ import'.post = import.post
      /\ import'.found = import.found /\ import'.columns = import.columns /\ import'.written = import.written
  BY DEF MirrorInv, Mirror!TypeOK, Mirror!Edited, Mirror!Import
<1>2. Mirror!TypeOK'
  BY <1>1 DEF Mirror!TypeOK
<1>3. RowsApart'
  BY DEF MirrorInv, RowsApart, Mirror!Exists
<1>4. AtHand(import)' /\ Follows(import)'
  BY <1>1 DEF MirrorInv, ImportInv, AtHand, Follows, Mirror!Columns
<1>5. \A i \in Ids : import'.written[i] # None => (Mirror!Exists(i)' <=> Mirror!Exists(i)) /\ row'[i] = row[i]
  BY <1>1 DEF Mirror!Exists
<1>6. Updated(import)'
  BY <1>1, <1>5 DEF MirrorInv, ImportInv, Updated
<1>7. Inserts(import)'
  <2> SUFFICES ASSUME NEW i \in Ids, import'.written[i] # None, ~ Mirror!Exists(i)'
               PROVE  /\ import'.written[i].wp # None
                      /\ \A j \in Ids : Mirror!Exists(j)' => row'[j].wp # import'.written[i].wp
                      /\ \A j \in Ids \ {i} : import'.written[j] # None => import'.written[j].wp # import'.written[i].wp
    BY <1>1 DEF Inserts
  <2>1. Inserts(import) /\ ~ Mirror!Exists(i)
    BY <1>5 DEF MirrorInv, ImportInv
  <2> QED BY <1>1, <2>1 DEF Inserts, Mirror!Exists
<1>8. Once(import)'
  <2>1. Once(import)
    BY DEF MirrorInv, ImportInv
  <2>2. \A i \in Ids : import'.written[i] # None /\ import'.written[i].wp # None => import'.posts[import'.written[i].wp] = None
    BY <1>1, <2>1 DEF Once
  <2>3. ASSUME import'.post # None
        PROVE  /\ import'.post.wp # None /\ import'.posts[import'.post.wp] = None
               /\ \A i \in Ids : Mirror!Exists(i)' => row'[i].wp # import'.post.wp
               /\ \A i \in Ids : import'.written[i] # None => import'.written[i].wp # import'.post.wp
    BY <1>1, <2>1, <2>3 DEF Once, Mirror!Exists
  <2>4. ASSUME import'.found # None, row'[import'.found] # None
        PROVE  row'[import'.found].wp # None /\ import'.posts[row'[import'.found].wp] = None
    <3>1. import'.found \in Ids /\ row[import'.found] # None /\ row'[import'.found].wp = row[import'.found].wp
      BY <1>1, <2>4 DEF Mirror!Import, Mirror!Exists
    <3> QED BY <1>1, <2>1, <2>4, <3>1 DEF Once, Mirror!Exists
  <2>5. import'.found # None => import'.written[import'.found] = None
    BY <1>1, <2>1 DEF Once
  <2> QED BY <1>1, <2>2, <2>3, <2>4, <2>5 DEF Once, Mirror!Exists
<1> QED BY <1>1, <1>2, <1>3, <1>4, <1>6, <1>7, <1>8 DEF MirrorInv, ImportInv, Mirror!ImportMirrors

-----------------------------------------------------------------------------
LEMMA EditWordPressKeepsMirror ==
  ASSUME MirrorInv, NEW p \in Posts, Mirror!EditWordPress(p) PROVE MirrorInv'
<1>1. wordpress' \in [Posts -> Addresses \cup {None}]
  BY DEF Mirror!EditWordPress, MirrorInv, Mirror!TypeOK
<1> QED BY <1>1, EditKeepsMirror DEF Mirror!EditWordPress, MirrorInv, Mirror!TypeOK

LEMMA CreateKeepsMirror == ASSUME MirrorInv, Mirror!Create PROVE MirrorInv'
<1>1. PICK slug \in Addresses, published \in BOOLEAN, i \in Mirror!Free :
        row' = [row EXCEPT ![i] = [slug |-> slug, published |-> published, wp |-> None]]
  BY DEF Mirror!Create
<1>2. [slug |-> slug, published |-> published, wp |-> None] \in Mirror!Row
  BY DEF Mirror!Row
<1>3. i \in Ids /\ row[i] = None /\ import.written[i] = None /\ import.found # i
  BY DEF Mirror!Free, Mirror!Exists
<1>4. row' \in [Ids -> Mirror!Row \cup {None}]
  BY <1>1, <1>2 DEF MirrorInv, Mirror!TypeOK
<1>5. \A j \in Ids : row'[j] = IF j = i THEN [slug |-> slug, published |-> published, wp |-> None] ELSE row[j]
  BY <1>1 DEF MirrorInv, Mirror!TypeOK
<1> QED BY <1>3, <1>4, <1>5, EditKeepsMirror DEF Mirror!Create, MirrorInv, Mirror!TypeOK

LEMMA DeleteKeepsMirror == ASSUME MirrorInv, NEW i \in Ids, Mirror!Delete(i) PROVE MirrorInv'
<1>1. row' \in [Ids -> Mirror!Row \cup {None}]
  BY DEF Mirror!Delete, MirrorInv, Mirror!TypeOK
<1>2. \A j \in Ids : row'[j] = IF j = i THEN None ELSE row[j]
  BY DEF Mirror!Delete, MirrorInv, Mirror!TypeOK
<1>3. import.written[i] = None
  BY DEF Mirror!Delete, Mirror!Held
<1> QED BY <1>1, <1>2, <1>3, EditKeepsMirror DEF Mirror!Delete, MirrorInv, Mirror!TypeOK

\* A PATCH that only reads, or whose row is gone or slug is taken, changes no row.
LEMMA NoEditKeepsMirror ==
  ASSUME MirrorInv, editor' \in [Editors -> Mirror!Patches], UNCHANGED <<wordpress, row, import, fresh>>
  PROVE  MirrorInv'
<1>1. Mirror!TypeOK' /\ RowsApart' /\ Mirror!ImportMirrors'
  BY DEF MirrorInv, Mirror!TypeOK, RowsApart, Mirror!ImportMirrors, Mirror!Exists
<1>2. ImportInv(import)'
  BY DEF MirrorInv, ImportInv, AtHand, Updated, Inserts, Once, Follows, Handled, Agrees, HasRow, RowOf, Mirror!Exists,
         Mirror!Differing, Mirror!Values, Mirror!Columns
<1> QED BY <1>1, <1>2 DEF MirrorInv

LEMMA PatchKeepsMirror == ASSUME MirrorInv, NEW e \in Editors, Mirror!Patch(e) PROVE MirrorInv'
<1>1. PICK i \in Ids, c \in Mirror!Columns : editor' = [editor EXCEPT ![e] = [id |-> i, columns |-> c]]
  BY DEF Mirror!Patch
<1>2. [id |-> i, columns |-> c] \in Mirror!Patches
  BY DEF Mirror!Patches
<1>3. editor' \in [Editors -> Mirror!Patches]
  BY <1>1, <1>2 DEF MirrorInv, Mirror!TypeOK
<1> QED BY <1>3, NoEditKeepsMirror DEF Mirror!Patch

LEMMA SaveKeepsMirror == ASSUME MirrorInv, NEW e \in Editors, Mirror!Save(e) PROVE MirrorInv'
<1> DEFINE i == editor[e].id
           c == editor[e].columns
           r == Mirror!Set(row[i], c)
<1>1. editor[e] \in Mirror!Patches /\ editor[e] # Mirror!NoPatch
  BY DEF Mirror!Save, MirrorInv, Mirror!TypeOK
<1>2. i \in Ids /\ c \in Mirror!Columns
  BY <1>1 DEF Mirror!Patches
<1>3. editor' \in [Editors -> Mirror!Patches]
  BY DEF Mirror!Save, MirrorInv, Mirror!TypeOK, Mirror!Patches
<1>4. CASE UNCHANGED <<row, import, fresh>>
  BY <1>3, <1>4, NoEditKeepsMirror DEF Mirror!Save
<1>5. CASE Mirror!Exists(i) /\ ~ Mirror!Held(i, r.slug) /\ row' = [row EXCEPT ![i] = r] /\ Mirror!Edited
  <2>1. row[i] \in Mirror!Row /\ row \in [Ids -> Mirror!Row \cup {None}]
    BY <1>2, <1>5 DEF MirrorInv, Mirror!TypeOK, Mirror!Exists
  <2>2. r \in Mirror!Row /\ r.wp = row[i].wp
    BY <1>2, <2>1, SetOK
  <2>3. import.written[i] = None
    BY <1>2, <1>5 DEF Mirror!Held
  <2> HIDE DEF i, r
  <2>4. row' \in [Ids -> Mirror!Row \cup {None}] /\ \A j \in Ids : row'[j] = IF j = i THEN r ELSE row[j]
    BY <1>2, <1>5, <2>1, <2>2
  <2>5. row[i] # None
    BY <1>5 DEF Mirror!Exists, i
  <2>6. wordpress' \in [Posts -> Addresses \cup {None}]
    BY DEF Mirror!Save, MirrorInv, Mirror!TypeOK
  <2> QED BY <1>3, <1>5, <2>2, <2>3, <2>4, <2>5, <2>6, EditKeepsMirror
<1> QED BY <1>4, <1>5 DEF Mirror!Save

-----------------------------------------------------------------------------
LEMMA FetchKeepsMirror == ASSUME MirrorInv, Mirror!Fetch PROVE MirrorInv'
<1> DEFINE q == [Mirror!NoImport EXCEPT !.at = "match", !.fresh = TRUE, !.posts = Mirror!Collection]
<1>1. Mirror!Collection \in [Posts -> Addresses \cup {None}]
  BY DEF Mirror!Collection, MirrorInv, Mirror!TypeOK
<1>2. /\ q \in Mirror!Import /\ q.at = "match" /\ q.fresh = TRUE /\ q.posts = Mirror!Collection
      /\ q.post = None /\ q.found = None /\ \A i \in Ids : q.written[i] = None
  BY <1>1 DEF Mirror!NoImport, Mirror!Import
<1>3. import' = q /\ UNCHANGED <<wordpress, row, editor, fresh>>
  BY DEF Mirror!Fetch
<1> HIDE DEF q
<1>4. \A p \in Posts : wordpress[p] \in Mirrored => q.posts[p] = wordpress[p]
  BY <1>2 DEF Mirror!Collection
<1>5. ImportInv(q)
  BY <1>2, <1>4 DEF ImportInv, AtHand, Updated, Inserts, Once, Follows
<1> QED BY <1>2, <1>3, <1>5, ImportKeepsMirror

LEMMA FailKeepsMirror == ASSUME MirrorInv, Mirror!FailImport PROVE MirrorInv'
BY NoImportOK, NoImportInv, ImportKeepsMirror DEF Mirror!FailImport

\* A post is matched: it is the one at hand, and not still to do.
LEMMA MatchKeepsMirror == ASSUME MirrorInv, Mirror!Match PROVE MirrorInv'
<1> DEFINE Found(p) == { i \in Ids : Mirror!Exists(i) /\ row[i].wp = p }
           Next1(p) == [import EXCEPT !.at = "flush", !.posts[p] = None]
<1>1. PICK p \in Posts :
        /\ import.posts[p] # None
        /\ \/ \E i \in Found(p) :
                import' = [Next1(p) EXCEPT !.found = i,
                             !.columns = Mirror!Differing(Mirror!Values(import.posts[p]), row[i])]
           \/ Found(p) = {} /\ import' = [Next1(p) EXCEPT !.post = Mirror!Inserted(p, import.posts[p])]
  BY DEF Mirror!Match
<1>2. import \in Mirror!Import /\ import.at = "match" /\ import.posts[p] \in Addresses
  BY <1>1 DEF Mirror!Match, MirrorInv, Mirror!TypeOK, Mirror!Import
<1>3. ImportInv(import) /\ UNCHANGED <<wordpress, row, editor, fresh>>
      /\ import.found = None /\ import.post = None /\ (fresh => import.fresh)
  BY <1>2 DEF Mirror!Match, MirrorInv, ImportInv, AtHand
<1>4. \A k \in Posts : wordpress[k] \in Mirrored => wordpress[k] # None /\ wordpress[k] \in Addresses
  BY MirrorAssumption DEF Mirror!ContentMirrorAssumption
<1> DEFINE posts == [import.posts EXCEPT ![p] = None]
<1>5. posts \in [Posts -> Addresses \cup {None}] /\ \A k \in Posts : posts[k] = IF k = p THEN None ELSE import.posts[k]
  BY <1>2 DEF Mirror!Import
<1>6. ASSUME NEW i \in Found(p),
             import' = [Next1(p) EXCEPT !.found = i,
                          !.columns = Mirror!Differing(Mirror!Values(import.posts[p]), row[i])]
      PROVE  MirrorInv'
  <2> DEFINE c == Mirror!Differing(Mirror!Values(import.posts[p]), row[i])
             q == [import EXCEPT !.at = "flush", !.posts = posts, !.found = i, !.columns = c]
  <2>1. i \in Ids /\ row[i] \in Mirror!Row /\ row[i].wp = p /\ Mirror!Exists(i)
    BY <1>6 DEF MirrorInv, Mirror!TypeOK, Mirror!Exists
  <2>2. c \in Mirror!Columns /\ c.published = None
    BY <1>2, <2>1, DifferingOK
  <2> HIDE DEF c
  <2>3. import' = q
    BY <1>2, <1>6 DEF Mirror!Import, c
  <2> HIDE DEF posts
  <2>4. /\ q \in Mirror!Import /\ q.at = "flush" /\ q.posts = posts /\ q.found = i /\ q.columns = c /\ q.post = None
        /\ q.written = import.written /\ q.fresh = import.fresh
    BY <1>2, <1>3, <1>5, <2>1, <2>2 DEF Mirror!Import
  <2> HIDE DEF q
  <2>5. AtHand(q) /\ Updated(q) /\ Inserts(q)
    BY <1>3, <2>1, <2>2, <2>4, MirrorAssumption DEF ImportInv, AtHand, Updated, Inserts, Mirror!ContentMirrorAssumption
  <2>6. Once(q)
    <3>1. ASSUME NEW j \in Ids, q.written[j] # None, q.written[j].wp # None PROVE q.posts[q.written[j].wp] = None
      <4>1. import.written[j].wp \in Posts /\ import.posts[import.written[j].wp] = None
        BY <1>2, <1>3, <2>4, <3>1 DEF ImportInv, Once, Mirror!Import, Mirror!Row
      <4> QED BY <4>1, <1>5, <2>4
    <3>2. row[q.found].wp # None /\ q.posts[row[q.found].wp] = None
      BY <1>5, <2>1, <2>4, MirrorAssumption DEF Mirror!ContentMirrorAssumption
    <3>3. q.written[q.found] = None
      <4>1. p # None
        BY MirrorAssumption DEF Mirror!ContentMirrorAssumption
      <4>2. import.written[i] # None => import.written[i].wp = p
        BY <1>3, <2>1 DEF ImportInv, Updated
      <4>3. import.written[i] = None
        BY <1>1, <1>3, <2>1, <4>1, <4>2 DEF ImportInv, Once
      <4> QED BY <2>4, <4>3
    <3> QED BY <3>1, <3>2, <3>3, <2>4 DEF Once
  <2>7. Follows(q)
    <3> SUFFICES ASSUME q.fresh, NEW k \in Posts, wordpress[k] \in Mirrored
                 PROVE  \/ q.posts[k] = wordpress[k]
                        \/ q.posts[k] = None /\ IF Handled(q, k) THEN Agrees(q, k) ELSE HasRow(q, k)
      BY DEF Follows
    <3>1. import.posts[k] = wordpress[k] \/ (import.posts[k] = None /\ HasRow(import, k))
      BY <1>3, <2>4 DEF ImportInv, Follows, Handled
    <3>2. HasRow(import, k) => HasRow(q, k)
      BY <2>4 DEF HasRow, RowOf
    <3>3. CASE k # p
      BY <1>5, <2>1, <2>4, <3>1, <3>2, <3>3 DEF Handled
    <3>4. CASE k = p
      <4>1. i # None /\ import.posts[p] = wordpress[p]
        BY <1>1, <2>1, <3>1, <3>4, MirrorAssumption DEF Mirror!ContentMirrorAssumption
      <4>2. Handled(q, p) /\ Agrees(q, p) /\ q.posts[p] = None
        BY <1>5, <2>1, <2>4, <4>1 DEF Agrees, Handled, c
      <4> QED BY <3>4, <4>2
    <3> QED BY <3>3, <3>4
  <2> QED BY <1>3, <2>3, <2>4, <2>5, <2>6, <2>7, ImportKeepsMirror DEF ImportInv
<1>7. ASSUME Found(p) = {}, import' = [Next1(p) EXCEPT !.post = Mirror!Inserted(p, import.posts[p])]
      PROVE  MirrorInv'
  <2> DEFINE new == Mirror!Inserted(p, import.posts[p])
             q == [import EXCEPT !.at = "flush", !.posts = posts, !.post = new]
  <2>0. new \in Mirror!Row /\ new.wp = p /\ new.slug = import.posts[p]
    BY <1>2 DEF Mirror!Inserted, Mirror!Row
  <2> HIDE DEF new
  <2>1. new # None /\ new \in Mirror!Row /\ new.wp = p /\ new.slug = import.posts[p]
    BY <2>0, MirrorAssumption DEF Mirror!ContentMirrorAssumption
  <2>3. import' = q
    BY <1>2, <1>7 DEF Mirror!Import, new
  <2> HIDE DEF posts
  <2>4. /\ q \in Mirror!Import /\ q.at = "flush" /\ q.posts = posts /\ q.found = None /\ q.post = new
        /\ q.written = import.written /\ q.fresh = import.fresh
    BY <1>2, <1>3, <1>5, <2>1 DEF Mirror!Import
  <2> HIDE DEF q
  <2>5. AtHand(q) /\ Updated(q) /\ Inserts(q)
    BY <1>3, <2>1, <2>4 DEF ImportInv, AtHand, Updated, Inserts
  <2>6. Once(q)
    <3>1. ASSUME NEW j \in Ids, q.written[j] # None, q.written[j].wp # None
          PROVE  q.posts[q.written[j].wp] = None /\ q.written[j].wp # p
      <4>1. import.written[j].wp \in Posts /\ import.posts[import.written[j].wp] = None
        BY <1>2, <1>3, <2>4, <3>1 DEF ImportInv, Once, Mirror!Import, Mirror!Row
      <4> QED BY <4>1, <1>1, <1>5, <2>4
    <3>2. p # None
      BY MirrorAssumption DEF Mirror!ContentMirrorAssumption
    <3>3. \A i \in Ids : Mirror!Exists(i) => row[i].wp # p
      BY <1>7
    <3> QED BY <1>5, <2>1, <2>4, <3>1, <3>2, <3>3 DEF Once
  <2>7. Follows(q)
    <3> SUFFICES ASSUME q.fresh, NEW k \in Posts, wordpress[k] \in Mirrored
                 PROVE  \/ q.posts[k] = wordpress[k]
                        \/ q.posts[k] = None /\ IF Handled(q, k) THEN Agrees(q, k) ELSE HasRow(q, k)
      BY DEF Follows
    <3>1. import.posts[k] = wordpress[k] \/ (import.posts[k] = None /\ HasRow(import, k))
      BY <1>3, <2>4 DEF ImportInv, Follows, Handled
    <3>2. HasRow(import, k) => HasRow(q, k)
      BY <2>4 DEF HasRow, RowOf
    <3>3. CASE k # p
      BY <1>5, <2>1, <2>4, <3>1, <3>2, <3>3 DEF Handled
    <3>4. CASE k = p
      BY <1>1, <1>4, <1>5, <2>1, <2>4, <3>1, <3>4 DEF Agrees, Handled
    <3> QED BY <3>3, <3>4
  <2> QED BY <1>3, <2>3, <2>4, <2>5, <2>6, <2>7, ImportKeepsMirror DEF ImportInv
<1> QED BY <1>1, <1>6, <1>7

\* Row i is written as r, for the post at hand, which no other row is of.
LEMMA WriteKeepsMirror ==
  ASSUME MirrorInv, import.at = "flush", NEW i \in Ids, NEW r \in Mirror!Row, Mirror!Write(i, r),
         r.wp # None, import.posts[r.wp] = None,
         Mirror!Exists(i) => r.wp = row[i].wp /\ r.published = row[i].published,
         ~ Mirror!Exists(i) => import.written[i] = None,
         \A j \in Ids \ {i} : Mirror!Exists(j) => row[j].wp # r.wp,
         \A j \in Ids \ {i} : import.written[j] # None => import.written[j].wp # r.wp,
         \A p \in Posts : Handled(import, p) <=> p = r.wp,
         wordpress[r.wp] \in Mirrored /\ Agrees(import, r.wp) => r.slug = wordpress[r.wp],
         UNCHANGED <<wordpress, row, editor, fresh>>
  PROVE  MirrorInv'
<1> DEFINE q == [ import EXCEPT !.at = "match", !.post = None, !.found = None, !.columns = None, !.written[i] = r ]
<1>1. CASE import' = Mirror!NoImport
  BY <1>1, NoImportOK, NoImportInv, ImportKeepsMirror
<1>2. CASE import' = q
  <2>1. import \in Mirror!Import /\ ImportInv(import) /\ r # None /\ (fresh => import.fresh)
    BY MirrorAssumption DEF MirrorInv, Mirror!TypeOK, Mirror!ContentMirrorAssumption
  <2>2. /\ q \in Mirror!Import /\ q.at = "match" /\ q.posts = import.posts /\ q.post = None /\ q.found = None
        /\ q.fresh = import.fresh
        /\ \A j \in Ids : q.written[j] = IF j = i THEN r ELSE import.written[j]
    BY <2>1 DEF Mirror!Import
  <2> HIDE DEF q
  <2>3. AtHand(q) /\ Updated(q) /\ Inserts(q)
    BY <2>1, <2>2 DEF ImportInv, AtHand, Updated, Inserts
  <2>4. Once(q)
    BY <2>1, <2>2 DEF ImportInv, Once
  <2>5. Follows(q)
    <3> SUFFICES ASSUME q.fresh, NEW p \in Posts, wordpress[p] \in Mirrored
                 PROVE  \/ q.posts[p] = wordpress[p]
                        \/ q.posts[p] = None /\ HasRow(q, p) /\ ~ Handled(q, p)
      BY DEF Follows
    <3>1. \/ import.posts[p] = wordpress[p]
          \/ import.posts[p] = None /\ IF p = r.wp THEN Agrees(import, p) ELSE HasRow(import, p)
      BY <2>1, <2>2 DEF ImportInv, Follows
    <3>2. ~ Handled(q, p)
      BY <2>2 DEF Handled
    <3>3. CASE import.posts[p] = None /\ p = r.wp
      <4>1. Agrees(import, p)
        BY <3>1, <3>3, MirrorAssumption DEF Mirror!ContentMirrorAssumption
      <4>2. RowOf(q, i) = r /\ r.slug = wordpress[p]
        BY <2>1, <2>2, <3>3, <4>1 DEF RowOf
      <4> QED BY <2>1, <2>2, <3>2, <3>3, <4>2 DEF HasRow
    <3>4. CASE import.posts[p] = None /\ HasRow(import, p) /\ p # r.wp
      <4>1. PICK j \in Ids : RowOf(import, j) # None /\ RowOf(import, j).wp = p /\ RowOf(import, j).slug = wordpress[p]
        BY <3>4 DEF HasRow
      <4>2. CASE j # i
        BY <4>1, <4>2, <2>2, <3>2, <3>4 DEF HasRow, RowOf
      <4>3. CASE j = i
        <5>1. Mirror!Exists(i) => RowOf(import, i).wp = r.wp
          BY <2>1 DEF RowOf, ImportInv, Updated
        <5>2. ~ Mirror!Exists(i) => import.written[i] # None
          BY <4>1, <4>3 DEF RowOf, Mirror!Exists
        <5> QED BY <3>4, <4>1, <4>3, <5>1, <5>2 DEF RowOf
      <4> QED BY <4>2, <4>3
    <3> QED BY <2>2, <3>1, <3>3, <3>4
  <2> QED BY <1>2, <2>1, <2>2, <2>3, <2>4, <2>5, ImportKeepsMirror DEF ImportInv
<1> QED BY <1>1, <1>2 DEF Mirror!Write

LEMMA FlushKeepsMirror == ASSUME MirrorInv, Mirror!Flush PROVE MirrorInv'
<1> DEFINE i == import.found
<1>1. /\ import \in Mirror!Import /\ ImportInv(import) /\ import.at = "flush" /\ (fresh => import.fresh)
      /\ UNCHANGED <<wordpress, row, editor, fresh>>
  BY DEF Mirror!Flush, MirrorInv, Mirror!TypeOK
<1>3. CASE i = None
  <2>1. PICK j \in Mirror!Free : Mirror!Write(j, import.post)
    BY <1>3 DEF Mirror!Flush
  <2>2. j \in Ids /\ ~ Mirror!Exists(j) /\ import.written[j] = None
    BY <2>1 DEF Mirror!Free
  <2>3. import.post \in Mirror!Row /\ import.post # None
    BY <1>1, <1>3 DEF ImportInv, AtHand, Mirror!Import
  <2>4. import.post.wp # None /\ import.posts[import.post.wp] = None
    BY <1>1, <2>3 DEF ImportInv, Once
  <2>5. \A k \in Ids \ {j} : Mirror!Exists(k) => row[k].wp # import.post.wp
    BY <1>1, <2>3 DEF ImportInv, Once
  <2>6. \A k \in Ids \ {j} : import.written[k] # None => import.written[k].wp # import.post.wp
    BY <1>1, <2>3 DEF ImportInv, Once
  <2>7. \A p \in Posts : Handled(import, p) <=> p = import.post.wp
    BY <1>3, <2>3 DEF Handled
  <2>8. Agrees(import, import.post.wp) => import.post.slug = wordpress[import.post.wp]
    BY <2>3 DEF Agrees
  <2> QED BY <1>1, <2>1, <2>2, <2>3, <2>4, <2>5, <2>6, <2>7, <2>8, WriteKeepsMirror
<1>4. CASE i # None /\ import.columns = Mirror!NoColumns
  <2> DEFINE q == [import EXCEPT !.at = "match", !.found = None, !.columns = None]
  <2>1. /\ import' = q /\ i \in Ids /\ import.post = None
    BY <1>1, <1>4 DEF Mirror!Flush, ImportInv, AtHand, Mirror!Import
  <2>2. /\ q \in Mirror!Import /\ q.at = "match" /\ q.posts = import.posts /\ q.post = None /\ q.found = None
        /\ q.fresh = import.fresh /\ q.written = import.written
    BY <1>1, <2>1 DEF Mirror!Import
  <2> HIDE DEF q
  <2>3. AtHand(q) /\ Updated(q) /\ Inserts(q) /\ Once(q)
    BY <1>1, <2>2 DEF ImportInv, AtHand, Updated, Inserts, Once
  <2>4. Follows(q)
    <3> SUFFICES ASSUME q.fresh, NEW p \in Posts, wordpress[p] \in Mirrored, q.posts[p] # wordpress[p]
                 PROVE  q.posts[p] = None /\ ~ Handled(q, p) /\ HasRow(q, p)
      BY DEF Follows
    <3>1. q.posts[p] = None /\ IF Handled(import, p) THEN Agrees(import, p) ELSE HasRow(import, p)
      BY <1>1, <2>2 DEF ImportInv, Follows
    <3>2. ~ Handled(q, p)
      BY <2>2 DEF Handled
    <3>3. HasRow(import, p) => HasRow(q, p)
      BY <2>2 DEF HasRow, RowOf
    <3>4. CASE Handled(import, p)
      <4>1. Mirror!Exists(i) /\ row[i].wp = p
            /\ import.columns = Mirror!Differing(Mirror!Values(wordpress[p]), row[i])
        BY <1>4, <2>1, <3>1, <3>4 DEF Handled, Agrees
      <4>2. row[i] \in Mirror!Row /\ wordpress[p] \in Addresses
        BY <2>1, <4>1, MirrorAssumption DEF MirrorInv, Mirror!TypeOK, Mirror!Exists, Mirror!ContentMirrorAssumption
      <4>3. row[i].slug = wordpress[p]
        BY <1>4, <4>1, <4>2, DifferingOK
      <4>4. import.written[i] = None
        BY <1>1, <1>4 DEF ImportInv, Once
      <4> QED BY <2>1, <2>2, <3>1, <3>2, <4>1, <4>3, <4>4 DEF HasRow, RowOf, Mirror!Exists
    <3> QED BY <3>1, <3>2, <3>3, <3>4
  <2> QED BY <1>1, <2>1, <2>2, <2>3, <2>4, ImportKeepsMirror DEF ImportInv
<1>5. CASE i # None /\ import.columns # Mirror!NoColumns /\ ~ Mirror!Exists(i)
  BY <1>1, <1>5, NoImportOK, NoImportInv, ImportKeepsMirror DEF Mirror!Flush
<1>6. CASE i # None /\ import.columns # Mirror!NoColumns /\ Mirror!Exists(i)
  <2> DEFINE c == import.columns
             r == Mirror!Set(row[i], c)
  <2>1. Mirror!Write(i, r) /\ i \in Ids /\ row[i] \in Mirror!Row /\ import.post = None
        /\ c \in Mirror!Columns /\ c.published = None
    BY <1>1, <1>6 DEF Mirror!Flush, ImportInv, AtHand, Mirror!Import, MirrorInv, Mirror!TypeOK, Mirror!Exists
  <2>2. r \in Mirror!Row /\ r.wp = row[i].wp /\ r.published = row[i].published
    BY <2>1, SetOK
  <2>3. r.wp # None /\ import.posts[r.wp] = None
    BY <1>1, <1>6, <2>2 DEF ImportInv, Once
  <2>4. \A k \in Ids \ {i} : Mirror!Exists(k) => row[k].wp # r.wp
    BY <1>6, <2>1, <2>2, <2>3 DEF MirrorInv, RowsApart
  <2>5. \A k \in Ids \ {i} : import.written[k] # None => import.written[k].wp # r.wp
    BY <1>1, <1>6, <2>1, <2>2, <2>4 DEF ImportInv, Updated, Inserts
  <2>6. \A p \in Posts : Handled(import, p) <=> p = r.wp
    BY <1>6, <2>1, <2>2 DEF Handled
  <2>7. wordpress[r.wp] \in Mirrored /\ Agrees(import, r.wp) => r.slug = wordpress[r.wp]
    BY <1>6, <2>1, DifferingOK, MirrorAssumption DEF Agrees, Mirror!ContentMirrorAssumption
  <2> HIDE DEF r, c
  <2> QED BY <1>1, <1>6, <2>1, <2>2, <2>3, <2>4, <2>5, <2>6, <2>7, WriteKeepsMirror
<1> QED BY <1>3, <1>4, <1>5, <1>6

\* One row of each post, updated ones as the import has written them.
LEMMA OneRowEach ==
  ASSUME MirrorInv, NEW i \in Ids, NEW j \in Ids, RowOf(import, i) # None, RowOf(import, j) # None,
         RowOf(import, i).wp = RowOf(import, j).wp, RowOf(import, i).wp # None
  PROVE  i = j
<1>1. RowsApart /\ Updated(import) /\ Inserts(import)
  BY DEF MirrorInv, ImportInv
<1>2. CASE Mirror!Exists(i) /\ Mirror!Exists(j)
  BY <1>1, <1>2 DEF RowsApart, Updated, RowOf
<1>3. CASE ~ Mirror!Exists(i) /\ import.written[i] # None
  BY <1>1, <1>3 DEF Updated, Inserts, RowOf, Mirror!Exists
<1>4. CASE ~ Mirror!Exists(j) /\ import.written[j] # None
  BY <1>1, <1>4 DEF Updated, Inserts, RowOf, Mirror!Exists
<1> QED BY <1>2, <1>3, <1>4 DEF RowOf, Mirror!Exists

\* The commit: every row is as the import saw it.
LEMMA CommitKeepsMirror == ASSUME MirrorInv, Mirror!CommitImport PROVE MirrorInv'
<1>1. /\ import \in Mirror!Import /\ ImportInv(import) /\ import.at = "match" /\ (fresh => import.fresh)
      /\ \A p \in Posts : import.posts[p] = None
      /\ import' = Mirror!NoImport /\ fresh' = (fresh \/ import.fresh) /\ UNCHANGED <<wordpress, editor>>
  BY DEF Mirror!CommitImport, MirrorInv, Mirror!TypeOK
<1>2. row' = [i \in Ids |-> RowOf(import, i)]
  BY DEF Mirror!CommitImport, Mirror!Seen, RowOf
<1>3. row' \in [Ids -> Mirror!Row \cup {None}]
  BY <1>1, <1>2 DEF RowOf, MirrorInv, Mirror!TypeOK, Mirror!Import
<1>4. Mirror!TypeOK'
  BY <1>1, <1>3, NoImportOK DEF MirrorInv, Mirror!TypeOK, Mirror!Import
<1>5. RowsApart'
  BY <1>2, OneRowEach DEF RowsApart, Mirror!Exists
<1>6. ImportInv(import)'
  BY <1>1, NoImportOK DEF ImportInv, AtHand, Updated, Inserts, Once, Follows
<1>7. Mirror!ImportMirrors'
  <2> SUFFICES ASSUME import.fresh, NEW p \in Posts, wordpress[p] \in Mirrored
               PROVE  \E i \in Ids : /\ { j \in Ids : Mirror!Exists(j)' /\ row'[j].wp = p } = {i}
                                     /\ row'[i].slug = wordpress[p]
    BY <1>1 DEF Mirror!ImportMirrors
  <2>1. wordpress[p] # None /\ p # None
    BY MirrorAssumption DEF Mirror!ContentMirrorAssumption
  <2>2. HasRow(import, p)
    BY <1>1, <2>1 DEF ImportInv, Follows, AtHand, Handled
  <2>3. PICK i \in Ids : RowOf(import, i) # None /\ RowOf(import, i).wp = p /\ RowOf(import, i).slug = wordpress[p]
    BY <2>2 DEF HasRow
  <2>4. \A j \in Ids : RowOf(import, j) # None /\ RowOf(import, j).wp = p <=> j = i
    BY <2>1, <2>3, OneRowEach
  <2>5. { j \in Ids : Mirror!Exists(j)' /\ row'[j].wp = p } = {i}
    BY <1>2, <2>4 DEF Mirror!Exists
  <2> QED BY <1>2, <2>3, <2>5
<1> QED BY <1>1, <1>4, <1>5, <1>6, <1>7, NoImportOK DEF MirrorInv

LEMMA NextKeepsMirror == ASSUME MirrorInv, [Mirror!Next]_(Mirror!vars) PROVE MirrorInv'
<1>1. CASE UNCHANGED Mirror!vars
  <2>1. editor' \in [Editors -> Mirror!Patches]
    BY <1>1 DEF Mirror!vars, MirrorInv, Mirror!TypeOK
  <2> QED BY <1>1, <2>1, NoEditKeepsMirror DEF Mirror!vars
<1>2. CASE \E p \in Posts : Mirror!EditWordPress(p)
  BY <1>2, EditWordPressKeepsMirror
<1>3. CASE Mirror!Fetch \/ Mirror!Match \/ Mirror!Flush \/ Mirror!CommitImport \/ Mirror!FailImport
  BY <1>3, FetchKeepsMirror, MatchKeepsMirror, FlushKeepsMirror, CommitKeepsMirror, FailKeepsMirror
<1>4. CASE Mirror!Create
  BY <1>4, CreateKeepsMirror
<1>5. CASE \E e \in Editors : Mirror!Patch(e) \/ Mirror!Save(e)
  BY <1>5, PatchKeepsMirror, SaveKeepsMirror
<1>6. CASE \E i \in Ids : Mirror!Delete(i)
  BY <1>6, DeleteKeepsMirror
<1> QED BY <1>1, <1>2, <1>3, <1>4, <1>5, <1>6 DEF Mirror!Next

LEMMA MirrorSpecInv == Mirror!Spec => []MirrorInv
<1>1. Mirror!Init => MirrorInv
  BY InitMirror
<1>2. MirrorInv /\ [Mirror!Next]_(Mirror!vars) => MirrorInv'
  BY NextKeepsMirror
<1> QED BY <1>1, <1>2, PTL DEF Mirror!Spec

\* The mirror is type correct (content_routes.py, import_wp_content.py), whatever requests
\* and imports overlap and fail.
THEOREM MirrorTypeCorrect == Mirror!Spec => []Mirror!TypeOK
<1>1. MirrorInv => Mirror!TypeOK
  BY DEF MirrorInv
<1> QED BY <1>1, MirrorSpecInv, PTL

\* import_wp_content.py:12: an import that has ended without an error, and no edit since it
\* began, leaves every post one row, with the address of now.
THEOREM ImportsMirrorPosts == Mirror!Spec => []ImportMirrors
<1>1. MirrorInv => ImportMirrors
  BY DEF MirrorInv, ImportMirrors
<1> QED BY <1>1, MirrorSpecInv, PTL

\* models.py:524: a row that is off the site is put back by a PATCH that says so, and by
\* nothing else.
THEOREM DraftsAreKept == Mirror!Spec => DraftsStay
<1> DEFINE Kept == \A i \in Ids :
             Mirror!Exists(i) /\ i \notin Mirror!Served /\ i \in Mirror!Served'
               => \E e \in Editors : editor[e].id = i /\ editor[e].columns.published = TRUE
<1>1. ASSUME MirrorInv, [Mirror!Next]_(Mirror!vars), MirrorInv' PROVE Kept
  <2> SUFFICES ASSUME NEW i \in Ids, row[i] # None, row'[i] # None, ~ row[i].published, row'[i].published
               PROVE  \E e \in Editors : editor[e].id = i /\ editor[e].columns.published = TRUE
    BY DEF Mirror!Served, Mirror!Exists
  <2>1. CASE UNCHANGED row
    BY <2>1
  <2>2. CASE Mirror!CommitImport
    <3>1. row' = [j \in Ids |-> RowOf(import, j)]
      BY <2>2 DEF Mirror!CommitImport, Mirror!Seen, RowOf
    <3>2. Updated(import)
      BY <1>1 DEF MirrorInv, ImportInv
    <3> QED BY <3>1, <3>2 DEF RowOf, Updated, Mirror!Exists
  <2>3. CASE Mirror!Create
    <3>1. PICK slug \in Addresses, published \in BOOLEAN, j \in Mirror!Free :
            row' = [row EXCEPT ![j] = [slug |-> slug, published |-> published, wp |-> None]]
      BY <2>3 DEF Mirror!Create
    <3>2. row[j] = None
      BY <3>1 DEF Mirror!Free, Mirror!Exists
    <3> QED BY <1>1, <3>1, <3>2 DEF MirrorInv, Mirror!TypeOK
  <2>4. ASSUME NEW e \in Editors, Mirror!Save(e), row' # row
        PROVE  editor[e].id = i /\ editor[e].columns.published = TRUE
    <3> DEFINE k == editor[e].id
               c == editor[e].columns
    <3>0. editor[e] \in Mirror!Patches /\ editor[e] # Mirror!NoPatch
      BY <1>1, <2>4 DEF Mirror!Save, MirrorInv, Mirror!TypeOK
    <3>1. k \in Ids /\ c \in Mirror!Columns
      BY <3>0 DEF Mirror!Patches
    <3>2. row' = [row EXCEPT ![k] = Mirror!Set(row[k], c)]
      <4>1. ~ UNCHANGED <<row, import, fresh>>
        BY <2>4
      <4> QED BY <2>4, <4>1 DEF Mirror!Save
    <3>3. row \in [Ids -> Mirror!Row \cup {None}]
      BY <1>1 DEF MirrorInv, Mirror!TypeOK
    <3>4. i = k
      BY <3>2, <3>3
    <3>5. row[i] \in Mirror!Row
      BY <3>3
    <3>6. row'[i] = Mirror!Set(row[i], c)
      BY <3>1, <3>2, <3>3, <3>4
    <3>7. row'[i].published = (IF c.published = None THEN row[i].published ELSE c.published)
      BY <3>1, <3>5, <3>6, SetOK
    <3>8. c.published = TRUE
      BY <3>1, <3>7 DEF Mirror!Columns
    <3> QED BY <3>4, <3>8
  <2>5. ASSUME NEW k \in Ids, Mirror!Delete(k) PROVE FALSE
    BY <1>1, <2>5 DEF Mirror!Delete, MirrorInv, Mirror!TypeOK
  <2>6. \/ UNCHANGED row \/ Mirror!CommitImport \/ Mirror!Create
        \/ \E e \in Editors : Mirror!Save(e)
        \/ \E k \in Ids : Mirror!Delete(k)
    <3>1. CASE UNCHANGED Mirror!vars
      BY <3>1 DEF Mirror!vars
    <3>2. CASE \E p \in Posts : Mirror!EditWordPress(p)
      BY <3>2 DEF Mirror!EditWordPress
    <3>3. CASE Mirror!Fetch \/ Mirror!Match \/ Mirror!Flush \/ Mirror!FailImport
      BY <3>3 DEF Mirror!Fetch, Mirror!Match, Mirror!Flush, Mirror!FailImport
    <3>4. CASE \E e \in Editors : Mirror!Patch(e)
      BY <3>4 DEF Mirror!Patch
    <3> QED BY <1>1, <3>1, <3>2, <3>3, <3>4 DEF Mirror!Next
  <2> QED BY <2>1, <2>2, <2>3, <2>4, <2>5, <2>6
<1>2. [][Kept]_(Mirror!vars) => DraftsStay
  BY PTL DEF DraftsStay, Mirror!DraftsStay
<1> QED BY <1>1, <1>2, MirrorSpecInv, PTL DEF Mirror!Spec

-----------------------------------------------------------------------------
\* The three together: a behaviour of the site is one of each job.
THEOREM SiteFollowsWordPress ==
  SiteSpec => /\ [](HashTellsText /\ CleanSyncCurrent /\ ImportMirrors /\ ListingsMirrored)
              /\ DraftsStay
<1>1. SiteInit => Init /\ Mirror!Init /\ Shop!Init
  BY DEF SiteInit
<1>2. [SiteNext]_<<job, vars, mirror, listings>>
        => [Next]_vars /\ [Mirror!Next]_(Mirror!vars) /\ [Shop!Next]_(Shop!vars)
  BY DEF SiteNext, mirror, listings, Mirror!vars, Shop!vars
<1>3. SiteSpec => Spec /\ Mirror!Spec /\ Shop!Spec
  BY <1>1, <1>2, PTL DEF SiteSpec, Spec, Mirror!Spec, Shop!Spec
<1> QED BY <1>3, StoredHashTellsText, CleanSyncLeavesAllCurrent, ImportsMirrorPosts, ImportMirrorsListings,
           DraftsAreKept, PTL
=============================================================================
