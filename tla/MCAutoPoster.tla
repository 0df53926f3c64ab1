---------------------------- MODULE MCAutoPoster ----------------------------
(***************************************************************************)
(* AutoPoster on small instances.                                          *)
(***************************************************************************)
EXTENDS AutoPoster, TLC
=============================================================================
