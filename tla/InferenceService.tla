--------------------------- MODULE InferenceService ---------------------------
(***************************************************************************)
(* What the inference scheduler promises its clients, without its queue:   *)
(* one GPU, never idle while somebody waits, motion requests always ahead  *)
(* of baseline scans, and a waiting baseline scan that a motion request    *)
(* may dismiss.  InferenceScheduler.tla implements it.                     *)
(***************************************************************************)

CONSTANTS MotionReq,    \* requests of the motion and follow-up paths
          BaselineReq,  \* requests of the baseline loop
          NoReq         \* "no request"

VARIABLES waiting,  \* requests whose caller is suspended and not yet on the GPU
          serving,  \* the request on the GPU, or NoReq
          up        \* FALSE once the worker has been cancelled

vars == <<waiting, serving, up>>

Init ==
  /\ waiting = {}
  /\ serving = NoReq
  /\ up = TRUE

(* A motion request arrives and dismisses at most one waiting scan. *)
AskMotion(r) ==
  /\ r \notin waiting
  /\ r # serving
  /\ \E dismissed \in SUBSET (waiting \cap BaselineReq) :
       /\ \A x, y \in dismissed : x = y
       /\ waiting' = (waiting \ dismissed) \cup {r}
  /\ serving' = serving /\ up' = up

(* A scan arrives; the baseline loop has no other request outstanding. *)
AskBaseline(r) ==
  /\ (waiting \cup {serving}) \cap BaselineReq = {}
  /\ waiting' = waiting \cup {r}
  /\ serving' = serving /\ up' = up

(* The GPU answers what it serves, if anything, and takes on the next one. *)
Advance ==
  /\ up
  /\ \/ /\ waiting = {}
        /\ serving # NoReq
        /\ serving' = NoReq
        /\ UNCHANGED waiting
     \/ \E r \in waiting :
          /\ r \in BaselineReq => waiting \cap MotionReq = {}
          /\ serving' = r
          /\ waiting' = waiting \ {r}
  /\ up' = up

(* The worker is cancelled; what it served is never answered. *)
Halt ==
  /\ up
  /\ up' = FALSE
  /\ waiting' = waiting \cup ({serving} \ {NoReq})
  /\ serving' = NoReq

Next ==
  \/ \E r \in MotionReq : AskMotion(r)
  \/ \E r \in BaselineReq : AskBaseline(r)
  \/ Advance
  \/ Halt

Spec == Init /\ [][Next]_vars

===============================================================================
