--------------------------- MODULE MCBaselineTracker ---------------------------
(* Five grid points, tolerance three: the middle position matches both ends, *)
(* the ends do not match each other, and the average can move a candidate    *)
(* out of reach of the end it was created at.                                *)
EXTENDS BaselineTracker
CONSTANTS vehicle
MCGroup == {vehicle}
MCPosition == {0, 2, 4}
===============================================================================
