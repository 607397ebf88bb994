----------------------------- MODULE MCRtspReader -----------------------------
(* Two warm-up frames and a delay that reaches its maximum in three errors;  *)
(* two events of a kind between snapshots make a lost one visible.           *)
EXTENDS RtspReader
===============================================================================
