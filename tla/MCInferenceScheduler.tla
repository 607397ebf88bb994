------------------------- MODULE MCInferenceScheduler -------------------------
(* Two cameras, two motion clients, three scan objects: a scan can run while *)
(* one preempted entry is in the queue and the loop has asked again.         *)
EXTENDS InferenceScheduler
CONSTANTS c1, c2, m1, m2, b1, b2, b3
MCCamera == {c1, c2}
MCMotionReq == {m1, m2}
MCBaselineReq == {b1, b2, b3}
===============================================================================
