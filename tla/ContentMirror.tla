---------------------------- MODULE ContentMirror ----------------------------
(***************************************************************************)
(* The content of the site that is mirrored from WordPress: the admin and  *)
(* the public side of content_routes.py, and the import of                 *)
(* scripts/import_wp_content.py.                                           *)
(*                                                                         *)
(* The blog posts, the neighborhoods and the pages are kept by the same    *)
(* code in tables that share nothing, so one table is modelled (a page     *)
(* does not have its slug changed, nor is it deleted, by the admin).  The  *)
(* import is one transaction: its UPDATEs and INSERTs go to the database   *)
(* one after the other, each before the SELECT of the next post, and are   *)
(* seen by the others when it commits.  Until then a request that writes   *)
(* the same row, or the same slug, waits.  A request of the admin reads,   *)
(* and then writes and commits at once.  An UPDATE has the columns that    *)
(* differ from what was loaded.                                            *)
(*                                                                         *)
(* Of what a post says its slug is kept; the title, the body and the       *)
(* pictures are written as the slug is, without being unique.              *)
(***************************************************************************)
EXTENDS Integers

CONSTANTS
  Ids,       \* rows of the table, an id being used again once it is forgotten
  Posts,     \* ids of WordPress
  Slugs,     \* addresses
  Mirrored,  \* the ones the import takes: PAGE_SLUGS for the pages, else all
  Editors,   \* PATCHes of the admin that may be under way at the same time
  None

VARIABLES
  wordpress, \* the slug of every post of WordPress, None for none
  row,       \* the committed rows
  import,    \* how far the import is
  editor,    \* what every PATCH is to change
  fresh      \* history: since the last edit, here or on WordPress, an import has
             \* begun and ended without an error

vars == <<wordpress, row, import, editor, fresh>>

-----------------------------------------------------------------------------
\* A slug that a PATCH empties is stored as it is.
Empty == "empty"
Row == [slug : Slugs \cup {Empty}, published : BOOLEAN, wp : Posts \cup {None}]

\* Columns that a request is to set, None for one it leaves alone.
Columns == [slug : Slugs \cup {Empty, None}, published : BOOLEAN \cup {None}]

NoColumns == [slug |-> None, published |-> None]

\* What a reader may take the constants to be.
ContentMirrorAssumption ==
  /\ Mirrored \subseteq Slugs
  /\ None \notin Row \cup Ids \cup Posts \cup Slugs \cup {Empty} \cup BOOLEAN

\* posts    what was fetched, of the posts still to go through
\* post     the one whose row was selected, with what it says
\* found    that row, and the columns in which the post differs from it
\* written  the rows as the transaction has them, None for one it left alone
\* fresh    history: no edit since the fetch
NoImport == [ at |-> "idle", posts |-> [p \in Posts |-> None], post |-> None, found |-> None,
              columns |-> None, written |-> [i \in Ids |-> None], fresh |-> FALSE ]

\* A PATCH has loaded the row and knows what to change in it.
NoPatch == [id |-> None, columns |-> None]

Exists(i) == row[i] # None
\* An id that nothing refers to any more.
Free == { i \in Ids : ~ Exists(i) /\ import.written[i] = None /\ import.found # i
                      /\ \A e \in Editors : editor[e].id # i }

\* The rows that the import's own transaction sees.
Seen == [i \in Ids |-> IF import.written[i] = None THEN row[i] ELSE import.written[i]]

\* slug is unique, and is looked for before it is given to row i.
Taken(table, slug, i) == \E j \in Ids \ {i} : table[j] # None /\ table[j].slug = slug

\* The import holds the row, or the slug.
Held(i, slug) ==
  \E j \in Ids : import.written[j] # None /\ (j = i \/ import.written[j].slug = slug)

\* The columns of a row that are to be set and differ from what was loaded, and the
\* row with them set.
Differing(c, loaded) ==
  [ slug |-> IF c.slug = loaded.slug THEN None ELSE c.slug,
    published |-> IF c.published = loaded.published THEN None ELSE c.published ]
Set(current, c) ==
  [ current EXCEPT !.slug = IF c.slug = None THEN @ ELSE c.slug,
                   !.published = IF c.published = None THEN @ ELSE c.published ]

Edited == import' = [import EXCEPT !.fresh = FALSE] /\ fresh' = FALSE

-----------------------------------------------------------------------------
\* Somebody edits WordPress, which keeps its slugs apart.
EditWordPress(p) ==
  /\ \E slug \in Slugs \cup {None} :
       /\ slug # wordpress[p]
       /\ slug # None => \A q \in Posts : wordpress[q] # slug
       /\ wordpress' = [wordpress EXCEPT ![p] = slug]
  /\ Edited
  /\ UNCHANGED <<row, editor>>

\* Every page of the collection is fetched before anything is written; a page that
\* fails fails the import.
Collection == [p \in Posts |-> IF wordpress[p] \in Mirrored THEN wordpress[p] ELSE None]
Fetch ==
  /\ import.at = "idle"
  /\ import' = [NoImport EXCEPT !.at = "match", !.fresh = TRUE, !.posts = Collection]
  /\ UNCHANGED <<wordpress, row, editor, fresh>>

\* What a post says of its row: a row that exists stays published or not.
Bug_Values(slug) == [slug |-> slug, published |-> TRUE]
Bug_Skipped(slug) == NoColumns
Values(slug) == [slug |-> slug, published |-> None]
Inserted(p, slug) == [slug |-> slug, published |-> TRUE, wp |-> p]

\* A post is matched with the row of its WordPress id.
Match ==
  /\ import.at = "match"
  /\ \E p \in { q \in Posts : import.posts[q] # None } :
       LET slug == import.posts[p]
           found == { i \in Ids : Exists(i) /\ row[i].wp = p }
           next == [import EXCEPT !.at = "flush", !.posts[p] = None]
       IN \/ \E i \in found :
               import' = [next EXCEPT !.found = i, !.columns = Differing(Values(slug), row[i])]
          \/ found = {} /\ import' = [next EXCEPT !.post = Inserted(p, slug)]
  /\ UNCHANGED <<wordpress, row, editor, fresh>>

\* It is sent to the database.  A slug that another row has, or a row that is gone,
\* ends the import, and its transaction is rolled back.  Without a column to set
\* there is no UPDATE.
Write(i, r) ==
  import' = IF Taken(Seen, r.slug, i) THEN NoImport
            ELSE [ import EXCEPT !.at = "match", !.post = None, !.found = None, !.columns = None,
                                 !.written[i] = r ]
Flush ==
  /\ import.at = "flush"
  /\ LET i == import.found
     IN IF i = None THEN \E j \in Free : Write(j, import.post)
        ELSE IF import.columns = NoColumns
        THEN import' = [import EXCEPT !.at = "match", !.found = None, !.columns = None]
        ELSE IF ~ Exists(i) THEN import' = NoImport
        ELSE Write(i, Set(row[i], import.columns))
  /\ UNCHANGED <<wordpress, row, editor, fresh>>

\* One commit for everything.
CommitImport ==
  /\ import.at = "match" /\ \A p \in Posts : import.posts[p] = None
  /\ row' = Seen
  /\ import' = NoImport
  /\ fresh' = (fresh \/ import.fresh)
  /\ UNCHANGED <<wordpress, editor>>

\* WordPress or the database fails, or the script is stopped.
FailImport ==
  /\ import.at # "idle"
  /\ import' = NoImport
  /\ UNCHANGED <<wordpress, row, editor, fresh>>

-----------------------------------------------------------------------------
\* create_*: the slug is given or made of the title, and looked for; one that is taken
\* between that and the insert is refused there.
Create ==
  /\ \E slug \in Slugs, published \in BOOLEAN, i \in Free :
       /\ ~ Taken(row, slug, i) /\ ~ Held(i, slug)
       /\ row' = [row EXCEPT ![i] = [slug |-> slug, published |-> published, wp |-> None]]
  /\ Edited
  /\ UNCHANGED <<wordpress, editor>>

\* update_*: the row is loaded, and a slug, unless it is empty, is looked for.
Patch(e) ==
  /\ editor[e] = NoPatch
  /\ \E i \in Ids, c \in Columns :
       /\ Exists(i)
       /\ c = Differing(c, row[i]) /\ c # NoColumns
       /\ c.slug \in Slugs => ~ Taken(row, c.slug, i)
       /\ editor' = [editor EXCEPT ![e] = [id |-> i, columns |-> c]]
  /\ UNCHANGED <<wordpress, row, import, fresh>>

\* The UPDATE and its commit, unless the row is gone or the slug taken by then.
Save(e) ==
  /\ editor[e] # NoPatch
  /\ LET i == editor[e].id
         r == Set(row[i], editor[e].columns)
     IN IF ~ Exists(i) THEN UNCHANGED <<row, import, fresh>>
        ELSE /\ ~ Held(i, r.slug)
             /\ IF Taken(row, r.slug, i) THEN UNCHANGED <<row, import, fresh>>
                ELSE row' = [row EXCEPT ![i] = r] /\ Edited
  /\ editor' = [editor EXCEPT ![e] = NoPatch]
  /\ UNCHANGED wordpress

\* delete_*: a row that is gone by then is as good as deleted.
Delete(i) ==
  /\ Exists(i)
  /\ ~ Held(i, None)
  /\ row' = [row EXCEPT ![i] = None]
  /\ Edited
  /\ UNCHANGED <<wordpress, editor>>

-----------------------------------------------------------------------------
Init ==
  /\ wordpress = [p \in Posts |-> None]
  /\ row = [i \in Ids |-> None]
  /\ import = NoImport
  /\ editor = [e \in Editors |-> NoPatch]
  /\ fresh = FALSE

Next ==
  \/ \E p \in Posts : EditWordPress(p)
  \/ Fetch \/ Match \/ Flush \/ CommitImport \/ FailImport
  \/ Create
  \/ \E e \in Editors : Patch(e) \/ Save(e)
  \/ \E i \in Ids : Delete(i)

Spec == Init /\ [][Next]_vars

-----------------------------------------------------------------------------
Import ==
  [ at : {"idle", "match", "flush"}, posts : [Posts -> Slugs \cup {None}], post : Row \cup {None},
    found : Ids \cup {None}, columns : Columns \cup {None}, written : [Ids -> Row \cup {None}],
    fresh : BOOLEAN ]
Patches == [id : Ids, columns : Columns] \cup {NoPatch}

TypeOK ==
  /\ wordpress \in [Posts -> Slugs \cup {None}]
  /\ row \in [Ids -> Row \cup {None}]
  /\ import \in Import
  /\ editor \in [Editors -> Patches]
  /\ fresh \in BOOLEAN

\* What the public side of content_routes.py serves.
Served == { i \in Ids : Exists(i) /\ row[i].published }

\* models.py:524, "drafts are editable in the admin but never served publicly": a
\* row that the admin has taken off the site comes back by a PATCH that says so,
\* and by no import, however often it is run and whatever it overlaps.
DraftsStay ==
  [][\A i \in Ids :
       Exists(i) /\ i \notin Served /\ i \in Served'
         => \E e \in Editors : editor[e].id = i /\ editor[e].columns.published = TRUE]_vars

\* import_wp_content.py:12, "rows are matched on wp_id, so a re-run updates what it
\* created last time": once an import has ended without an error, since the last
\* edit on either side, every post it takes has one row, with the address of
\* now, whatever the imports and requests before it have left.
ImportMirrors ==
  fresh => \A p \in Posts :
    wordpress[p] \in Mirrored =>
      LET mirror == { i \in Ids : Exists(i) /\ row[i].wp = p }
      IN \E i \in Ids : mirror = {i} /\ row[i].slug = wordpress[p]
=============================================================================
