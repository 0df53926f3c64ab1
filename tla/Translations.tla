---------------------------- MODULE Translations ----------------------------
(***************************************************************************)
(* The translations of the site's content: sync_translations of            *)
(* translations.py, which several requests may run at once, against a      *)
(* WordPress that goes on being edited.                                    *)
(*                                                                         *)
(* A field of an item in one language is a part of it.  The types of       *)
(* content are gone through one after the other and share nothing, so one  *)
(* is modelled.  The items a sync has fetched, and the hashes it has       *)
(* loaded, are as old as the calls of the model are long.  An item is one  *)
(* transaction at READ COMMITTED: its SELECTs see what is committed, an    *)
(* UPDATE has the columns that differ from what was selected and waits for *)
(* the row of another transaction, and so does an INSERT, which then fails *)
(* by the unique constraint.                                               *)
(***************************************************************************)
EXTENDS Integers

CONSTANTS
  Syncs,    \* requests that may synchronise at the same time
  Slugs,    \* items of the content
  Parts,    \* the parts of an item, in the order they are extracted
  Words,    \* what a text says
  Markups,  \* how it is marked up
  Drafts,   \* the translations the model may give of one text
  None      \* no text, no row

VARIABLES
  source,  \* the text of every part on WordPress
  table,   \* the committed rows
  sync,    \* what every request has done
  torn,    \* history: parts that one sync committed between another's SELECT
           \* and its UPDATE
  clean    \* history: since the last edit a sync has begun and ended, without an
           \* error and with no older one under way

vars == <<source, table, sync, torn, clean>>

-----------------------------------------------------------------------------
Keys == Slugs \X DOMAIN Parts
Texts == Words \X Markups

\* _hash_source of _strip_html: the markup is not in the hash.
Hash(text) == text[1]

\* A translation is of a text, and keeps its markup.
Value == Texts \X Drafts
Row == [value : Value, hash : Words]

ASSUME TranslationsAssumption == None \notin Words \cup Texts \cup Value \cup Drafts \cup Row

\* items     the content as fetched, until the last item is begun
\* existing  the hashes as loaded, until then
\* todo      the items still to go through
\* tasks     the translations of the current item still to write
\* key       the part being written
\* found     the row selected for it
\* written   what is written and not committed: the columns of a row, None for
\*           one left alone
\* clean     history: no error yet, no edit since the fetch, and no other sync under
\*           way when the hashes were loaded
Nothing == [k \in Keys |-> None]
Unchanged == [value |-> None, hash |-> None]
Idle == [ at |-> "idle", items |-> Nothing, existing |-> Nothing, todo |-> {}, tasks |-> Nothing,
          key |-> None, found |-> None, written |-> [k \in Keys |-> Unchanged], clean |-> FALSE ]

Sync ==
  [ at : {"idle", "load", "item", "select", "flush", "commit"},
    items : [Keys -> Texts \cup {None}], existing : [Keys -> Words \cup {None}],
    todo : SUBSET Slugs, tasks : [Keys -> Value \cup {None}], key : Keys \cup {None},
    found : Row \cup {None}, written : [Keys -> [value : Value \cup {None}, hash : Words \cup {None}]],
    clean : BOOLEAN ]

At(s, where) == sync[s].at = where
Go(s, q) == sync' = [sync EXCEPT ![s] = q]
Holds(s, k) == sync[s].written[k] # Unchanged

\* The item is done with; after the last the request is answered.
Done(q) ==
  IF q.todo = {} THEN Idle
  ELSE [q EXCEPT !.at = "item", !.tasks = Nothing, !.key = None, !.found = None, !.written = Idle.written]
Ends(q) == clean' = (clean \/ (q.todo = {} /\ q.clean))

-----------------------------------------------------------------------------
\* Somebody edits the content on WordPress.
Edit(k) ==
  /\ \E text \in (Texts \cup {None}) \ {source[k]} : source' = [source EXCEPT ![k] = text]
  /\ sync' = [s \in Syncs |-> [sync[s] EXCEPT !.clean = FALSE]]
  /\ clean' = FALSE
  /\ UNCHANGED <<table, torn>>

\* _fetch_wp; when it fails nothing follows.  The pages are taken as one answer: an
\* edit between two of them is one before the sync or after its fetch, for each item.
Fetch(s) ==
  /\ At(s, "idle")
  /\ Go(s, [Idle EXCEPT !.at = "load", !.items = source, !.todo = Slugs, !.clean = TRUE])
  /\ UNCHANGED <<source, table, torn, clean>>

\* _existing_hashes
LoadHashes(s) ==
  /\ At(s, "load")
  /\ Go(s, [sync[s] EXCEPT !.at = "item",
              !.existing = [k \in Keys |-> IF table[k] = None THEN None ELSE table[k].hash],
              !.clean = @ /\ \A other \in Syncs \ {s} : At(other, "idle")])
  /\ UNCHANGED <<source, table, torn, clean>>

\* The extractors: the fields of an item that have a text, each once for every
\* language.
Fields(q, slug) == {k \in {slug} \X DOMAIN Parts : q.items[k] # None}

\* Those whose text is new or has changed.
Bug_ToTranslate(q, slug) == {k \in Fields(q, slug) : q.existing[k] = None}
ToTranslate(q, slug) == {k \in Fields(q, slug) : q.existing[k] # Hash(q.items[k])}

\* They are translated together, each of them or not; those that failed are
\* counted and left to the next sync.
Translate(s) ==
  /\ At(s, "item")
  /\ \E slug \in sync[s].todo :
       LET q == [sync[s] EXCEPT !.todo = @ \ {slug}]
           keys == ToTranslate(q, slug)
       IN \E answer \in [keys -> Drafts \cup {None}] :
            LET given == {k \in keys : answer[k] # None}
                next == [ q EXCEPT !.clean = @ /\ given = keys,
                                   !.items = IF q.todo = {} THEN Nothing ELSE @,
                                   !.existing = IF q.todo = {} THEN Nothing ELSE @,
                                   !.tasks = [k \in Keys |-> IF k \in given THEN <<q.items[k], answer[k]>> ELSE None] ]
            IN IF given = {} THEN Go(s, Done(next)) /\ Ends(next)
               ELSE Go(s, [next EXCEPT !.at = "select"]) /\ UNCHANGED clean
  /\ UNCHANGED <<source, table, torn>>

\* _upsert: the row of the next part is selected,
Pending(q) == {k \in Keys : q.tasks[k] # None}
Select(s) ==
  /\ At(s, "select")
  /\ \E k \in Pending(sync[s]) :
       /\ \A other \in Pending(sync[s]) : k[2] <= other[2]
       /\ Go(s, [sync[s] EXCEPT !.at = "flush", !.key = k, !.found = table[k]])
  /\ UNCHANGED <<source, table, torn, clean>>

\* and inserted, or updated in the columns that differ.
Bug_Changes(value, row) == [value |-> value, hash |-> IF row = None THEN Hash(value[1]) ELSE None]
Changes(value, row) ==
  IF row = None THEN [value |-> value, hash |-> Hash(value[1])]
  ELSE [ value |-> IF row.value = value THEN None ELSE value,
         hash |-> IF row.hash = Hash(value[1]) THEN None ELSE Hash(value[1]) ]

\* The row must not be held by another transaction.  An insert that comes second
\* ends the request.
Flush(s) ==
  /\ At(s, "flush")
  /\ LET q == sync[s]
         k == q.key
     IN /\ \A other \in Syncs \ {s} : ~ Holds(other, k)
        /\ IF q.found = None /\ table[k] # None
           THEN Go(s, Idle) /\ UNCHANGED torn
           ELSE /\ Go(s, [ q EXCEPT !.written[k] = Changes(q.tasks[k], q.found),
                             !.tasks[k] = None, !.key = None, !.found = None,
                             !.at = IF Pending(q) = {k} THEN "commit" ELSE "select" ])
                /\ torn' = IF table[k] # q.found THEN torn \cup {k} ELSE torn
  /\ UNCHANGED <<source, table, clean>>

\* The commit of an item.
Apply(row, w) ==
  IF w = Unchanged THEN row
  ELSE [ value |-> IF w.value = None THEN row.value ELSE w.value,
         hash |-> IF w.hash = None THEN row.hash ELSE w.hash ]

Commit(s) ==
  /\ At(s, "commit")
  /\ table' = [k \in Keys |-> Apply(table[k], sync[s].written[k])]
  /\ Go(s, Done(sync[s]))
  /\ Ends(sync[s])
  /\ UNCHANGED <<source, torn>>

\* The request ends where it is, and its transaction is rolled back.
Fail(s) ==
  /\ ~ At(s, "idle")
  /\ Go(s, Idle)
  /\ UNCHANGED <<source, table, torn, clean>>

-----------------------------------------------------------------------------
Init ==
  /\ source \in [Keys -> {None} \cup Texts]
  /\ table = Nothing
  /\ sync = [s \in Syncs |-> Idle]
  /\ torn = {}
  /\ clean = FALSE

Next ==
  \/ \E k \in Keys : Edit(k)
  \/ \E s \in Syncs :
       \/ Fetch(s) \/ LoadHashes(s) \/ Translate(s)
       \/ Select(s) \/ Flush(s) \/ Commit(s) \/ Fail(s)

Spec == Init /\ [][Next]_vars

-----------------------------------------------------------------------------
\* The variables have the values they are meant to have.
TypeOK ==
  /\ source \in [Keys -> Texts \cup {None}]
  /\ table \in [Keys -> Row \cup {None}]
  /\ sync \in [Syncs -> Sync]
  /\ torn \subseteq Keys
  /\ clean \in BOOLEAN

\* translations.py:6, the hash "lets the next sync skip unchanged fields": a row
\* is the translation of a text of that hash, unless one sync committed it
\* between another's SELECT and UPDATE.
Tells(row) == row # None => row.hash = Hash(row.value[1])
HashTellsText == \A k \in Keys \ torn : Tells(table[k])

\* translations.py:252, a sync translates what is new and what has changed, and
\* "re-running is a no-op": once one has ended without an error, since the last
\* edit and with no older one under way, every text has a row that says what it says,
\* whatever overlapping and failing syncs had left.
CleanSyncCurrent ==
  clean => \A k \in Keys :
    source[k] # None =>
      /\ table[k] # None /\ table[k].hash = Hash(source[k])
      /\ k \notin torn => Hash(table[k].value[1]) = Hash(source[k])
=============================================================================
