----------------------------- MODULE PhotoSelect ----------------------------
(***************************************************************************)
(* The choice of the photos of a share pack: select_diverse of             *)
(* photo_select.py and the tiles of the collage of collage_service.py.     *)
(*                                                                         *)
(* A photo is its place in the gallery, a hash the set of the bits that are*)
(* set in it, of the 64 that dhash computes.                               *)
(***************************************************************************)
EXTENDS Integers, Sequences, FiniteSets, SequencesExt, FiniteSetsExt

CONSTANTS
  Bits,                \* the bits of a hash
  MaxGallery,          \* bound: photos of a gallery that is checked
  NEAR_DUPLICATE_BITS, \* photos at most this far apart are the same shot
  MAX_COLLAGE_PHOTOS,  \* tiles of a collage
  MAX_PACK_PHOTOS      \* photos of a pack

ASSUME PhotoSelectAssumption ==
  /\ IsFiniteSet(Bits) /\ MaxGallery \in Nat
  /\ NEAR_DUPLICATE_BITS \in Nat
  /\ MAX_COLLAGE_PHOTOS \in Nat \ {0} /\ MAX_PACK_PHOTOS \in Nat \ {0}

Hash == SUBSET Bits
hamming(a, b) == Cardinality((a \ b) \cup (b \ a))

\* How far photo i is from the nearest one that was picked.
Distance(hashes, picked, i) == Min({ hamming(hashes[i], hashes[j]) : j \in ToSet(picked) })

Candidates(hashes, picked) ==
  { i \in DOMAIN hashes : i \notin ToSet(picked) /\ Distance(hashes, picked, i) > NEAR_DUPLICATE_BITS }

\* The candidate farthest from the picked ones, the earliest of them on a tie.
Pick(hashes, picked) ==
  LET left == Candidates(hashes, picked)
      far == { i \in left : \A j \in left : Distance(hashes, picked, i) >= Distance(hashes, picked, j) }
  IN IF left = {} THEN picked ELSE Append(picked, Min(far))

\* At most k mutually distinct photos, the lead photo first.
select_diverse(hashes, k) ==
  LET picked[n \in Nat] == IF n = 0 THEN <<1>> ELSE Pick(hashes, picked[n - 1])
  IN IF hashes = <<>> \/ k <= 0 THEN <<>> ELSE picked[k - 1]

\* The tiles: the most distinct photos, then the first of the others until the
\* collage is as full as the gallery allows.
Bug_Tiles(hashes) ==
  LET keep == select_diverse(hashes, Len(hashes))
  IN SubSeq(keep, 1, Min({Len(keep), MAX_COLLAGE_PHOTOS}))
Backfill(tiles, i, want) ==
  IF Len(tiles) >= want \/ i \in ToSet(tiles) THEN tiles ELSE Append(tiles, i)
Tiles(hashes) ==
  LET keep == select_diverse(hashes, Len(hashes))
      want == Min({MAX_COLLAGE_PHOTOS, Len(hashes)})
      tiles[i \in Nat] == IF i = 0 THEN SubSeq(keep, 1, Min({Len(keep), MAX_COLLAGE_PHOTOS}))
                          ELSE Backfill(tiles[i - 1], i, want)
  IN tiles[Len(hashes)]

\* The branded photos: distinct ones only.
Branded(hashes) ==
  LET keep == select_diverse(hashes, Len(hashes))
  IN SubSeq(keep, 1, Min({Len(keep), MAX_PACK_PHOTOS}))

\* photo_select.py:47 and collage_service.py:151, for a gallery: the lead photo
\* comes first, no two photos that are picked are the same shot, none that is not
\* picked could have been, asking for fewer photos gives the first of them, and
\* the collage repeats no photo and is as full as the gallery allows.
Gallery == UNION { [1 .. n -> Hash] : n \in 1 .. MaxGallery }
Diverse(hashes) ==
  LET keep == select_diverse(hashes, Len(hashes))
      near(i, j) == hamming(hashes[i], hashes[j]) <= NEAR_DUPLICATE_BITS
  IN /\ Head(keep) = 1
     /\ \A i, j \in ToSet(keep) : i # j => ~ near(i, j)
     /\ \A i \in DOMAIN hashes : \E j \in ToSet(keep) : near(i, j)
     /\ \A k \in 0 .. Len(keep) : select_diverse(hashes, k) = SubSeq(keep, 1, k)
     /\ IsInjective(Tiles(hashes))
     /\ Len(Tiles(hashes)) = Min({MAX_COLLAGE_PHOTOS, Len(hashes)})
=============================================================================
