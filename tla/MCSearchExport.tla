--------------------------- MODULE MCSearchExport ---------------------------
(* Instances of SearchExport for TLC: no limit, one below the clamp, one   *)
(* inside it and one above.                                                *)
EXTENDS SearchExport

MCAsked == {-1, 0, 1, 9}
=============================================================================
