------------------------------- MODULE MCLines -------------------------------
(* The site's lines for the run of Lines: one unit, then three. *)
EXTENDS Lines

MCEnds == {1, 4}
=============================================================================
