---------------------------- MODULE BaselineService ----------------------------
(***************************************************************************)
(* src/baseline_service.py of shinobi-smtp-proxy for one camera, with the  *)
(* coroutines that call it: the baseline loop (baseline_manager.py), the   *)
(* motion loop and the camera's follow-up scan (motion_processor.py).  All *)
(* three await the inference scheduler, which appears here as the service  *)
(* it was shown to implement, InferenceService; between a request and its  *)
(* answer the others run.  The motion requests of the other cameras come   *)
(* at any time, ahead of this camera's scan and without dismissing it.     *)
(*                                                                         *)
(* A motion request dismisses the camera's waiting scan: the baseline loop *)
(* then resumes with no detections, exactly as if the image were empty.    *)
(* What the zone, novelty, area, edge and cooldown filters keep is any     *)
(* part of an answer.  Sending an alert is AlertPath's matter.             *)
(*                                                                         *)
(* AnsweredByWorker, KeepsBaseline and SeenIgnored are faulty variants of  *)
(* the definitions that follow them.                                       *)
(***************************************************************************)
EXTENDS BaselineTracker

CONSTANTS Motion,    \* the motion loop's request
          FollowUp,  \* the follow-up task's request
          Scan,      \* the baseline loop's request
          Others,    \* motion requests of the other cameras
          NoReq      \* None

ASSUME RequestsDistinct ==
  /\ Motion # FollowUp
  /\ Scan \notin {Motion, FollowUp}
  /\ NoReq \notin {Motion, FollowUp, Scan}
  /\ Others \cap {Motion, FollowUp, Scan, NoReq} = {}

VARIABLES waiting,      \* requests waiting for the GPU
          serving,      \* the request on the GPU
          asking,       \* the motion clients suspended in infer()
          scan,         \* where the baseline loop is: idle, detect or verify
          preempted,    \* the scan's future was resolved with []
          calm,         \* the last motion event is at least 10 s old
          baseline,     \* camera.baseline
          initialized,  \* camera.baseline_initialized
          following,    \* a follow-up scan of this camera is running
          alerted       \* whose detections were just found to be new

inferVars == <<waiting, serving>>
cameraVars == <<baseline, initialized>>
vars == <<candidates, cycles, missed, waiting, serving, asking, scan, preempted,
          calm, baseline, initialized, following, alerted>>

Client == {Motion, FollowUp}

(* Shutdown is modelled in InferenceScheduler: here the worker stays up. *)
Infer == INSTANCE InferenceService WITH
           MotionReq <- Client \cup Others, BaselineReq <- {Scan}, up <- TRUE

(* A request's future is resolved: by the worker, or for a dismissed scan by *)
(* the motion request that dismissed it.                                     *)
AnsweredByWorker(r) == r \notin waiting /\ r # serving /\ ~(r = Scan /\ preempted)

Answered(r) == r \notin waiting /\ r # serving

Init ==
  /\ TrackerInit
  /\ Infer!Init
  /\ asking = {}
  /\ scan = "idle"
  /\ preempted = FALSE
  /\ calm \in BOOLEAN    \* monotonic() may still be below 10 s: last_motion_time is 0
  /\ baseline = <<>>
  /\ initialized = FALSE
  /\ following = FALSE
  /\ alerted = NoReq
-------------------------------------------------------------------------------
(* camera.baseline = tracker.get_baseline(): a snapshot of the positions. *)
Snapshot(list) == [i \in DOMAIN list |-> [group |-> list[i].group, at |-> list[i].at]]

KeepsBaseline == baseline

Refreshed == Snapshot(GetBaseline')

(* What a scan's answer holds: nothing if motion dismissed it. *)
Answer == IF preempted THEN {<<>>} ELSE Frame

(* The baseline loop comes to this camera, finds no recent motion and frames *)
(* in the buffer, and asks for a scan.                                       *)
CycleStart ==
  /\ scan = "idle"
  /\ calm
  /\ Infer!AskBaseline(Scan)
  /\ scan' = "detect"
  /\ preempted' = FALSE
  /\ alerted' = NoReq
  /\ UNCHANGED <<trackerVars, asking, calm, cameraVars, following>>

(* update() without and with a verification pass to await. *)
VerifyNeeded(pending) == pending # {}

FinishCycle ==
  /\ baseline' = Refreshed
  /\ initialized' = TRUE
  /\ scan' = "idle"

CycleAnswer(frame) ==
  /\ scan = "detect"
  /\ Answered(Scan)
  /\ Update(frame)
  /\ \/ /\ VerifyNeeded(missed')
        /\ Infer!AskBaseline(Scan)
        /\ scan' = "verify"
        /\ UNCHANGED cameraVars
     \/ /\ ~VerifyNeeded(missed')
        /\ FinishCycle
        /\ UNCHANGED inferVars
  /\ preempted' = FALSE
  /\ alerted' = NoReq
  /\ UNCHANGED <<asking, calm, following>>

VerifyAnswer(frame) ==
  /\ scan = "verify"
  /\ Answered(Scan)
  /\ VerifyMissed(frame)
  /\ FinishCycle
  /\ preempted' = FALSE
  /\ alerted' = NoReq
  /\ UNCHANGED <<inferVars, asking, calm, following>>
-------------------------------------------------------------------------------
DismissesScan == Scan \in waiting

(* A client of the motion path asks: a waiting scan of the camera goes. *)
Ask(client) ==
  /\ client \notin asking
  /\ client = FollowUp => following
  /\ Infer!AskMotion(client)
  /\ Scan \notin waiting'
  /\ preempted' = (preempted \/ DismissesScan)
  /\ asking' = asking \cup {client}
  /\ calm' = (calm /\ client # Motion)
  /\ alerted' = NoReq
  /\ UNCHANGED <<trackerVars, scan, cameraVars, following>>

(* Another camera's motion or follow-up asks: it has no registry entry of    *)
(* this camera's to dismiss.                                                 *)
AskOther(r) ==
  /\ Infer!AskMotion(r)
  /\ ~DismissesScan \/ Scan \in waiting'
  /\ alerted' = NoReq
  /\ UNCHANGED <<trackerVars, asking, scan, preempted, calm, cameraVars, following>>

(* compare(): what the detections are new against.  Without a baseline the   *)
(* first cycle must be over; until the tracker is warm all it has seen counts.*)
Near(d, known) == \E i \in DOMAIN known : Matches(d, known[i])

SeenIgnored(base, seen, warm) == base

Known(base, seen, warm) == IF base = <<>> /\ ~warm THEN seen ELSE base

NewIn(frame, base, seen, warm, init) ==
  IF base = <<>> /\ ~init
    THEN {}
    ELSE {d \in ToSet(frame) : ~Near(d, Known(base, seen, warm))}

Resume(client) ==
  /\ client \in asking
  /\ Answered(client)
  /\ asking' = asking \ {client}
  /\ UNCHANGED <<inferVars, scan, preempted, calm, initialized>>

(* The new detections may all be dropped by the filters after compare(). *)
Decide(client, new) ==
  \/ alerted' = NoReq
  \/ /\ new # {}
     /\ alerted' = client

(* process_motion_event resumes; frame is what the filters before compare()  *)
(* kept.  observe() refreshes camera.baseline only when it promoted.         *)
MotionAnswer(frame) ==
  /\ Resume(Motion)
  /\ IF frame = <<>>
       THEN /\ alerted' = NoReq
            /\ UNCHANGED <<trackerVars, baseline>>
       ELSE /\ Observe(frame)
            /\ baseline' = IF Len(GetBaseline') > Len(GetBaseline) THEN Refreshed ELSE baseline
            /\ Decide(Motion, NewIn(frame, baseline', candidates', IsWarm, initialized))
  /\ following' = (following \/ alerted' = Motion)

FollowUpAnswer(frame) ==
  /\ Resume(FollowUp)
  /\ Decide(FollowUp, NewIn(frame, baseline, candidates, IsWarm, initialized))
  /\ UNCHANGED <<trackerVars, baseline, following>>

(* The follow-up's deadline passes while it sleeps. *)
FollowUpEnd ==
  /\ following
  /\ FollowUp \notin asking
  /\ following' = FALSE
  /\ alerted' = NoReq
  /\ UNCHANGED <<trackerVars, inferVars, asking, scan, preempted, calm, cameraVars>>

(* Ten seconds without a motion event. *)
CalmDown ==
  /\ ~calm
  /\ calm' = TRUE
  /\ alerted' = NoReq
  /\ UNCHANGED <<trackerVars, inferVars, asking, scan, preempted, cameraVars, following>>

(* The inference worker goes on: InferenceService. *)
Worker ==
  /\ Infer!Advance
  /\ alerted' = NoReq
  /\ UNCHANGED <<trackerVars, asking, scan, preempted, calm, cameraVars, following>>
-------------------------------------------------------------------------------
ScanStep == \E f \in Answer : CycleAnswer(f) \/ VerifyAnswer(f)

Next ==
  \/ CycleStart
  \/ ScanStep
  \/ \E c \in Client : Ask(c)
  \/ \E r \in Others : AskOther(r)
  \/ \E f \in Frame : MotionAnswer(f)
  \/ \E f \in Frame : FollowUpAnswer(f)
  \/ FollowUpEnd
  \/ CalmDown
  \/ Worker

(* Answered coroutines are resumed by the event loop, and the worker is      *)
(* never idle while somebody waits (InferenceScheduler's own fairness).      *)
(* Which request it takes next is the priority's business: nothing is        *)
(* assumed about this camera's scan.                                         *)
Fairness == WF_vars(Worker) /\ WF_vars(ScanStep)

Spec == Init /\ [][Next]_vars
FairSpec == Spec /\ Fairness
-------------------------------------------------------------------------------
(* The types of the camera's state and of the awaiting coroutines. *)
TypeOK ==
  /\ TrackerTypeOK
  /\ waiting \subseteq Client \cup Others \cup {Scan}
  /\ serving \in Client \cup Others \cup {Scan, NoReq}
  /\ asking \subseteq Client
  /\ scan \in {"idle", "detect", "verify"}
  /\ {preempted, calm, initialized, following} \subseteq BOOLEAN
  /\ baseline \in Seq([group : Group, at : Nat])
  /\ alerted \in Client \cup {NoReq}

(* camera.baseline and the tracker are two copies refreshed at different     *)
(* places (compare and update): outside a verification they list the same    *)
(* promoted objects, whatever motion observed while the loop was suspended.  *)
BaselineInSync ==
  scan # "verify" =>
    [i \in DOMAIN baseline |-> baseline[i].group] =
    [i \in DOMAIN GetBaseline |-> GetBaseline[i].group]

(* camera.baseline loses objects only at the end of a verification: neither  *)
(* a motion observation nor a cycle, preempted or not, drops one.            *)
BaselineShrinksVerified ==
  [][ Len(baseline') < Len(baseline) => scan = "verify" /\ scan' = "idle" ]_vars

(* Before the tracker is warm and with nothing promoted, motion alerts about *)
(* nothing: what it has just observed counts as seen, although observing     *)
(* moves the candidates.                                                     *)
WarmupQuiet ==
  alerted = Motion => baseline # <<>> \/ (initialized /\ IsWarm)

(* A cycle ends once the other cameras' motion calms down (while it does     *)
(* not, it may keep the scan waiting for ever): the loop gets both answers,  *)
(* from the detector or from being preempted, however often this camera's    *)
(* own motion and follow-ups interfere.                                      *)
CycleEnds ==
  <>[](Others \cap (waiting \cup {serving}) = {}) => (scan # "idle" ~> scan = "idle")

(* "To leave, a low-confidence verification pass must also fail to find      *)
(* them" (class comment of BaselineTracker): no promoted object is dropped   *)
(* by a verification that was answered without looking at the image.         *)
LeavesOnlyAfterLooking ==
  [][ Len(GetBaseline') < Len(GetBaseline) => ~preempted ]_vars

===============================================================================
