------------------------------ MODULE MCAlertPath ------------------------------
(* Two cameras share the motion loop; with two tasks both cameras can have a *)
(* follow-up, or one camera a running and a newly created one.               *)
EXTENDS AlertPath
CONSTANTS c1, c2, p1, t1, t2
MCCamera == {c1, c2}
MCPlace == {p1}
MCTask == {t1, t2}
===============================================================================
