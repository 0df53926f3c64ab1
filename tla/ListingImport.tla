---------------------------- MODULE ListingImport ----------------------------
(***************************************************************************)
(* The import of the listings of WordPress as properties: the plan of      *)
(* wp_import.py and _import_metadata of scripts/import_wp_properties.py.   *)
(*                                                                         *)
(* A run fetches the listings page by page, reads the notes of every       *)
(* property once, and makes a property for each listing whose marker it    *)
(* has not found there, with a commit of its own.  Nothing in the database *)
(* keeps two properties of one listing apart.  Meanwhile WordPress and the *)
(* properties are edited, and a second run may be under way.               *)
(*                                                                         *)
(* Of a listing it is kept whether it is on offer; of a property, which    *)
(* listing it was made for and whether its notes still bear the marker.    *)
(* The slot a run may add is create_available of PostQueue; the copy of    *)
(* the gallery, which follows, is Copy of CloudPhotos.                     *)
(***************************************************************************)
EXTENDS Integers, Sequences

CONSTANTS
  Listings,   \* ids of WordPress
  Properties, \* rows of the table; an id is used again once it is deleted
  Runs,       \* runs of the script that may be under way at the same time
  PageSize,   \* listings on a page, 100 in the code
  None

VARIABLES
  catalogue, \* the listings of WordPress in the order it gives them
  property,  \* the committed rows
  run,       \* how far every run is
  fresh      \* history: since the last edit, here or on WordPress, a run has
             \* begun and ended without an error

vars == <<catalogue, property, run, fresh>>

-----------------------------------------------------------------------------
Listing == [id : Listings, on_offer : BOOLEAN]

\* seen  history: the properties there were when the run that made it read the notes
Property == [listing : Listings, marked : BOOLEAN, seen : SUBSET Properties]

\* A row that was fetched, with the place it had.
Fetched == [place : Nat \ {0}, listing : Listings]

\* offset   of the next page
\* rows     the listings on offer among those fetched, and then those still to make
\* seen     history: the properties there were when the notes were read
\* fresh    history: no edit since the run began
NoRun == [at |-> "idle", offset |-> 0, rows |-> {}, seen |-> {}, fresh |-> FALSE]

\* What a reader may take the constants to be.
ListingImportAssumption == PageSize \in Nat \ {0} /\ None \notin Property

Exists(i) == property[i] # None

\* The markers in the notes of the properties.
already == { property[i].listing : i \in { j \in Properties : Exists(j) /\ property[j].marked } }

\* An edit: no import is up to date.
Edited == run' = [r \in Runs |-> [run[r] EXCEPT !.fresh = FALSE]] /\ fresh' = FALSE

-----------------------------------------------------------------------------
\* WordPress gives the newest listing first.
Publish ==
  /\ \E l \in Listing :
       /\ \A n \in DOMAIN catalogue : catalogue[n].id # l.id
       /\ catalogue' = <<l>> \o catalogue
  /\ Edited
  /\ UNCHANGED property

\* A listing is rented out, hidden, priced or put on offer again.
Change ==
  /\ \E n \in DOMAIN catalogue :
       catalogue' = [catalogue EXCEPT ![n].on_offer = ~ @]
  /\ Edited
  /\ UNCHANGED property

Withdraw ==
  /\ \E n \in DOMAIN catalogue :
       catalogue' = SubSeq(catalogue, 1, n - 1) \o SubSeq(catalogue, n + 1, Len(catalogue))
  /\ Edited
  /\ UNCHANGED property

\* The admin deletes a property, or writes its notes anew.
Delete(i) ==
  /\ Exists(i)
  /\ property' = [j \in Properties |->
       IF j = i \/ ~ Exists(j) THEN None ELSE [property[j] EXCEPT !.seen = @ \ {i}]]
  /\ run' = [r \in Runs |-> [run[r] EXCEPT !.fresh = FALSE, !.seen = @ \ {i}]]
  /\ fresh' = FALSE
  /\ UNCHANGED catalogue

EditNotes(i) ==
  /\ Exists(i) /\ property[i].marked
  /\ property' = [property EXCEPT ![i].marked = FALSE]
  /\ Edited
  /\ UNCHANGED catalogue

-----------------------------------------------------------------------------
Begin(r) ==
  /\ run[r].at = "idle"
  /\ run' = [run EXCEPT ![r] = [NoRun EXCEPT !.at = "fetch", !.fresh = TRUE]]
  /\ UNCHANGED <<catalogue, property, fresh>>

\* A page starts where its number says, whatever has moved since the last one was
\* fetched.  The last is the one whose answer says there are no more; one past the
\* end is empty.
Page(offset) == { n \in DOMAIN catalogue : n > offset /\ n <= offset + PageSize }

\* A rented listing, one of the hidden or uncategorized buckets and one without a
\* price are left out of the plan.
build_planned(n) == [place |-> n, listing |-> catalogue[n].id]
build_plan(places) == { build_planned(n) : n \in { k \in places : catalogue[k].on_offer } }

Bug_LastPage(offset) == offset + PageSize + 1 >= Len(catalogue)
LastPage(offset) == offset + PageSize >= Len(catalogue)
FetchPage(r) ==
  /\ run[r].at = "fetch"
  /\ run' = [run EXCEPT ![r].rows = @ \cup build_plan(Page(run[r].offset)),
                        ![r].offset = @ + PageSize,
                        ![r].at = IF LastPage(run[r].offset) THEN "read" ELSE "fetch"]
  /\ UNCHANGED <<catalogue, property, fresh>>

\* A listing whose marker is found is skipped.  The loop does not add what it makes to
\* what was found, so the skips are known from the start.
ReadNotes(r) ==
  /\ run[r].at = "read"
  /\ run' = [run EXCEPT ![r].at = "create", ![r].offset = 0,
                        ![r].rows = { f \in @ : f.listing \notin already },
                        ![r].seen = { i \in Properties : Exists(i) }]
  /\ UNCHANGED <<catalogue, property, fresh>>

\* The notes of a new property bear the marker of its listing.
Imported(f, seen) == [listing |-> f.listing, marked |-> TRUE, seen |-> seen]

\* The listings that are left of the plan, one after the other, each with a commit.
Create(r) ==
  /\ run[r].at = "create"
  /\ \E f \in run[r].rows, i \in Properties :
       /\ ~ Exists(i)
       /\ property' = [property EXCEPT ![i] = Imported(f, run[r].seen)]
       /\ run' = [run EXCEPT ![r].rows = @ \ {f}]
  /\ UNCHANGED <<catalogue, fresh>>

End(r) ==
  /\ run[r].at = "create" /\ run[r].rows = {}
  /\ run' = [run EXCEPT ![r] = NoRun]
  /\ fresh' = (fresh \/ run[r].fresh)
  /\ UNCHANGED <<catalogue, property>>

\* WordPress or the database fails, the queue has no slot left, or the script is
\* stopped: the property at hand is rolled back, the ones before it stay.  A run with
\* --limit, and one whose fetch a 400 has cut short, do part of their plan too: they
\* leave what a run that stops there does, though they report no error.
Stop(r) ==
  /\ run[r].at # "idle"
  /\ run' = [run EXCEPT ![r] = NoRun]
  /\ UNCHANGED <<catalogue, property, fresh>>

-----------------------------------------------------------------------------
Init ==
  /\ catalogue = <<>>
  /\ property = [i \in Properties |-> None]
  /\ run = [r \in Runs |-> NoRun]
  /\ fresh = FALSE

Next ==
  \/ Publish \/ Change \/ Withdraw
  \/ \E i \in Properties : Delete(i) \/ EditNotes(i)
  \/ \E r \in Runs : Begin(r) \/ FetchPage(r) \/ ReadNotes(r) \/ Create(r) \/ End(r) \/ Stop(r)

Spec == Init /\ [][Next]_vars

-----------------------------------------------------------------------------
Run == [ at : {"idle", "fetch", "read", "create"}, offset : Nat, rows : SUBSET Fetched,
         seen : SUBSET Properties, fresh : BOOLEAN ]

TypeOK ==
  /\ catalogue \in Seq(Listing)
  /\ property \in [Properties -> Property \cup {None}]
  /\ run \in [Runs -> Run]
  /\ fresh \in BOOLEAN

\* import_wp_properties.py:9, "a listing already imported is skipped": two properties
\* that bear the marker of one listing were made by runs neither of which could find
\* the other's, or by one run that fetched the listing twice.
ListedOnce ==
  \A i, j \in Properties :
    (/\ i # j /\ Exists(i) /\ Exists(j) /\ property[i].marked /\ property[j].marked
     /\ property[i].listing = property[j].listing) => i \notin property[j].seen

\* import_wp_properties.py:11, "Safe to re-run - it resumes where it left off": once a
\* run has ended without an error, since the last edit on either side, every listing
\* on offer has a property, whatever the runs before it have left.
NoneMissing ==
  fresh => \A n \in DOMAIN catalogue : catalogue[n].on_offer => catalogue[n].id \in already

\* The two together are what the import is for: every listing, and none twice
\* but by an overlap.
ListingsMirrored == ListedOnce /\ NoneMissing
=============================================================================
