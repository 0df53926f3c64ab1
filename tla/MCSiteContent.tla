---------------------------- MODULE MCSiteContent ----------------------------
(***************************************************************************)
(* The three jobs that follow WordPress: the synchronisation of the        *)
(* translations, the mirror of the content itself and the import of the    *)
(* listings.  They share no row, no lock and no variable, so a behaviour   *)
(* of all is an interleaving of one of each that the others cannot notice, *)
(* and a property of one of them holds of all when it holds of that one    *)
(* alone.  A behaviour of this instance is of one of them, with the others *)
(* at rest, and what is interchangeable in one has the names it has in     *)
(* another.                                                                *)
(***************************************************************************)
EXTENDS Translations, TLC

CONSTANTS Ids, Posts, Addresses, Mirrored, Editors, PageSize

VARIABLES job, wordpress, row, import, editor, fresh, catalogue, property, run, current

mirror == <<wordpress, row, import, editor, fresh>>

Mirror == INSTANCE ContentMirror WITH Slugs <- Addresses

ASSUME MirrorAssumption == Mirror!ContentMirrorAssumption

listings == <<catalogue, property, run, current>>

Shop == INSTANCE ListingImport
  WITH Listings <- Posts, Properties <- Ids, Runs <- Syncs, fresh <- current

ASSUME ListingsAssumption == Shop!ListingImportAssumption

SiteInit ==
  /\ job \in {"translations", "mirror", "listings"}
  /\ Init /\ Mirror!Init /\ Shop!Init
  /\ job # "translations" => source = Nothing

SiteNext ==
  \/ job = "translations" /\ Next /\ UNCHANGED <<job, mirror, listings>>
  \/ job = "mirror" /\ Mirror!Next /\ UNCHANGED <<job, vars, listings>>
  \/ job = "listings" /\ Shop!Next /\ UNCHANGED <<job, vars, mirror>>

SiteSpec == SiteInit /\ [][SiteNext]_<<job, vars, mirror, listings>>

\* ContentMirror states and explains the first two: what an import leaves, and who
\* publishes a row.  ListingImport does the third: no listing is missed, and none
\* comes twice but by an overlap.
ImportMirrors == Mirror!ImportMirrors
DraftsStay == Mirror!DraftsStay
ListingsMirrored == Shop!ListingsMirrored

\* Requests and runs, words, markups, drafts, rows and posts are interchangeable.
Symmetry ==
  UNION { Permutations(S) : S \in { Syncs, Words, Markups, Drafts, Ids, Posts, Editors } }

TwoParts == <<"title", "content">>
=============================================================================
