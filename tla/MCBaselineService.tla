--------------------------- MODULE MCBaselineService ---------------------------
(* The grid of MCBaselineTracker, and two motion requests of other cameras:  *)
(* with two in turn, a scan can be kept waiting for ever.                    *)
EXTENDS BaselineService
CONSTANTS vehicle, o1, o2
MCGroup == {vehicle}
MCPosition == {0, 2, 4}
MCOthers == {o1, o2}
===============================================================================
