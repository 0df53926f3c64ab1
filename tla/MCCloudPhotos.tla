---------------------------- MODULE MCCloudPhotos ---------------------------
(***************************************************************************)
(* CloudPhotos on small instances.  The contents are interchangeable: they *)
(* are at most two, and only the distance of their hashes matters.         *)
(*                                                                         *)
(* A pack depends on the connection in two things, that there is one and   *)
(* that its token is taken, and its downloads and the trashing of a file   *)
(* may fail with any.  A disconnection with a login after it is therefore  *)
(* no more to a pack than calls that fail, so a behaviour of this instance *)
(* has logins or packs, and disconnections, photos and crashes with both.  *)
(* The selection is a function of a gallery: a behaviour of a third kind   *)
(* has a gallery, one of each there is, and does nothing.                  *)
(***************************************************************************)
EXTENDS CloudPhotos, TLC

VARIABLES part, gallery

PhotosInit ==
  /\ Init
  /\ \/ part \in {"logins", "packs"} /\ gallery = <<>>
     \/ part = "selection" /\ gallery \in Gallery

PhotosNext ==
  /\ part # "selection"
  /\ Next
  /\ IF part = "packs" THEN tokens' = tokens ELSE \A q \in Requests : requests'[q].at # "fetch"
  /\ UNCHANGED <<part, gallery>>

PhotosSpec == PhotosInit /\ [][PhotosNext]_<<part, gallery, vars>>

\* photo_select.py:47: the most distinct photos, one of each shot, the lead photo
\* first; PhotoSelect says it of a gallery, and a gallery is any here.
SelectsDiverse == part = "selection" => Diverse(gallery)

Hashes2 == [c \in Contents |-> IF c = CHOOSE d \in Contents : TRUE THEN {} ELSE {1}]
Symmetry == Permutations(Requests) \cup Permutations(Contents)
=============================================================================
