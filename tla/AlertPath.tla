------------------------------- MODULE AlertPath -------------------------------
(***************************************************************************)
(* The path of an alert through shinobi-smtp-proxy: reader threads put     *)
(* motion events of all cameras in one bounded queue; the motion loop      *)
(* (baseline_manager.py) handles them one at a time; process_motion_event  *)
(* and the follow-up scans (motion_processor.py) detect, filter, choose    *)
(* the best frame (frame_selector.py) and send (alert_dispatcher.py) to    *)
(* Discord, with a cooldown per camera (discord_notifier.py), and then to  *)
(* Shinobi (shinobi_notifier.py).  What was sent is recorded in the        *)
(* camera's recent alerts only when all that is over.                      *)
(*                                                                         *)
(* A step is the code between two suspensions of a coroutine.  Clocks are  *)
(* left out: a cooldown or a deadline ends at any time.  What detector,    *)
(* filters and baseline let through is any set of places that is not among *)
(* the recent alerts; answers of Discord are any.                          *)
(*                                                                         *)
(* RestsAwaiting, NeverCooling, NotRechecked, StaysActive and LoopDies are *)
(* faulty variants of the definitions that follow them.                    *)
(***************************************************************************)
EXTENDS Naturals, Sequences

CONSTANTS Camera,    \* camera ids
          Place,     \* where an object can be seen; two places are never near
          Motion,    \* the motion loop
          Task,      \* follow-up tasks; bounds how many exist at once
          NoCamera,  \* None
          QueueMax   \* maxsize of the motion queue (50 in the code)

ASSUME AlertPathAssumption ==
  /\ Motion \notin Task
  /\ NoCamera \notin Camera
  /\ QueueMax \in Nat \ {0}

VARIABLES events,   \* _motion_queue: the cameras of the queued events
          pc,       \* what each coroutine awaits
          cam,      \* the camera it works for
          new,      \* the new detections it alerts about
          active,   \* followup_active of each camera
          recent,   \* recent_alerts of each camera that have not expired
          cooling,  \* Discord's cooldown of each camera is running
          sent      \* who got a message to Discord in the current cooldown

vars == <<events, pc, cam, new, active, recent, cooling, sent>>

Worker == {Motion} \cup Task

(* idle: the motion loop in the queue's get(), or no such task; created: a   *)
(* task that has not run yet; detect: awaiting the detector, in a follow-up  *)
(* after sleeping; pick, post, shinobi: awaiting the best frame, Discord,    *)
(* Shinobi.                                                                  *)
Await == {"idle", "created", "detect", "pick", "post", "shinobi"}

Init ==
  /\ events = <<>>
  /\ pc = [w \in Worker |-> "idle"]
  /\ cam = [w \in Worker |-> NoCamera]
  /\ new = [w \in Worker |-> {}]
  /\ active = [c \in Camera |-> FALSE]
  /\ recent = [c \in Camera |-> {}]
  \* _last_sent defaults to 0, so a host up for less than the cooldown cools
  /\ \E justBooted \in BOOLEAN : cooling = [c \in Camera |-> justBooted]
  /\ sent = [c \in Camera |-> {}]
-------------------------------------------------------------------------------
Full(queue) == Len(queue) >= QueueMax

(* put_nowait in the camera's reader thread; queue.Full drops the event. *)
MotionSeen(c) ==
  /\ events' = IF Full(events) THEN events ELSE Append(events, c)
  /\ UNCHANGED <<pc, cam, new, active, recent, cooling, sent>>

(* The motion loop takes the oldest event and asks for its detections. *)
TakeEvent ==
  /\ pc[Motion] = "idle"
  /\ events # <<>>
  /\ cam' = [cam EXCEPT ![Motion] = Head(events)]
  /\ events' = Tail(events)
  /\ pc' = [pc EXCEPT ![Motion] = "detect"]
  /\ UNCHANGED <<new, active, recent, cooling, sent>>

(* The coroutine w works for no camera any more. *)
Freed(w) == [cam EXCEPT ![w] = NoCamera]

(* Where a coroutine goes on when it has nothing (more) to alert about. *)
RestsAwaiting(w) == "detect"

Rest(w) == IF w = Motion THEN "idle" ELSE "detect"

(* What a camera's pipelines let through: ZoneFilter, NoveltyFilter,         *)
(* MinAreaFilter and EdgeChangeFilter may drop anything, CooldownFilter      *)
(* drops what is near a recent alert.                                        *)
Filtered(c) == SUBSET (Place \ recent[c])

(* The detections arrive and pass the filters and the baseline. *)
Detected(w) ==
  /\ pc[w] = "detect"
  /\ \E found \in Filtered(cam[w]) :
       /\ new' = [new EXCEPT ![w] = found]
       /\ pc' = [pc EXCEPT ![w] = IF found = {} THEN Rest(w) ELSE "pick"]
       /\ cam' = IF found = {} /\ w = Motion THEN Freed(w) ELSE cam
  /\ UNCHANGED <<events, active, recent, cooling, sent>>

(* select() is through with its delay and second inference; send_alert       *)
(* checks the cooldown and, if it is over, posts.                            *)
NeverCooling(c) == FALSE

InCooldown(c) == cooling[c]

Picked(w) ==
  /\ pc[w] = "pick"
  /\ pc' = [pc EXCEPT ![w] = IF InCooldown(cam[w]) THEN "shinobi" ELSE "post"]
  /\ UNCHANGED <<events, cam, new, active, recent, cooling, sent>>

(* Discord accepts the message and _last_sent is set, or it does not. *)
Posted(w) ==
  /\ pc[w] = "post"
  /\ \E accepted \in BOOLEAN :
       /\ pc' = [pc EXCEPT ![w] = "shinobi"]
       /\ cooling' = IF accepted THEN [cooling EXCEPT ![cam[w]] = TRUE] ELSE cooling
       /\ sent' = IF accepted THEN [sent EXCEPT ![cam[w]] = @ \cup {w}] ELSE sent
  /\ UNCHANGED <<events, cam, new, active, recent>>

(* trigger_event returned, whatever Shinobi said: record_alert. *)
Recorded(w) ==
  /\ pc[w] = "shinobi"
  /\ recent' = [recent EXCEPT ![cam[w]] = @ \cup new[w]]
  /\ new' = [new EXCEPT ![w] = {}]

FollowUpNotified(t) ==
  /\ Recorded(t)
  /\ pc' = [pc EXCEPT ![t] = "detect"]
  /\ UNCHANGED <<events, cam, active, cooling, sent>>

(* create_task makes a new task; which unused name it gets does not matter. *)
FreeTask == {t \in Task : pc[t] = "idle"}

(* After a motion alert the loop starts a follow-up unless one is active. *)
MotionNotified ==
  /\ Recorded(Motion)
  /\ \/ /\ active[cam[Motion]]
        /\ pc' = [pc EXCEPT ![Motion] = "idle"]
        /\ cam' = Freed(Motion)
     \/ /\ ~active[cam[Motion]]
        /\ FreeTask # {}
        /\ LET t == CHOOSE x \in FreeTask : TRUE
           IN  /\ pc' = [pc EXCEPT ![Motion] = "idle", ![t] = "created"]
               /\ cam' = [cam EXCEPT ![Motion] = NoCamera, ![t] = cam[Motion]]
  /\ UNCHANGED <<events, active, cooling, sent>>
-------------------------------------------------------------------------------
NotRechecked(c) == FALSE

AlreadyActive(c) == active[c]

(* follow_up_scan runs for the first time. *)
FollowUpStart(t) ==
  /\ pc[t] = "created"
  /\ pc' = [pc EXCEPT ![t] = IF AlreadyActive(cam[t]) THEN "idle" ELSE "detect"]
  /\ cam' = IF AlreadyActive(cam[t]) THEN Freed(t) ELSE cam
  /\ active' = [active EXCEPT ![cam[t]] = TRUE]
  /\ UNCHANGED <<events, new, recent, cooling, sent>>

(* The finally clause of follow_up_scan. *)
StaysActive(c) == active

Inactive(c) == [active EXCEPT ![c] = FALSE]

(* The deadline has passed while it slept. *)
FollowUpEnd(t) ==
  /\ pc[t] = "detect"
  /\ pc' = [pc EXCEPT ![t] = "idle"]
  /\ cam' = Freed(t)
  /\ active' = Inactive(cam[t])
  /\ UNCHANGED <<events, new, recent, cooling, sent>>

(* Where the "except Exception" of each coroutine leads. *)
LoopDies(w) == IF w = Motion THEN "ended" ELSE "idle"

AfterError(w) == "idle"

(* An exception while filtering or drawing the frame: both coroutines log    *)
(* it; the motion loop goes on, the follow-up ends.                          *)
Fail(w) ==
  /\ pc[w] \in {"detect", "pick"}
  /\ pc' = [pc EXCEPT ![w] = AfterError(w)]
  /\ new' = [new EXCEPT ![w] = {}]
  /\ cam' = Freed(w)
  /\ active' = IF w = Motion THEN active ELSE Inactive(cam[w])
  /\ UNCHANGED <<events, recent, cooling, sent>>
-------------------------------------------------------------------------------
(* Time passes: an alert is older than alert_cooldown_seconds, or Discord's  *)
(* cooldown is over.                                                         *)
Expire(c, p) ==
  /\ p \in recent[c]
  /\ recent' = [recent EXCEPT ![c] = @ \ {p}]
  /\ UNCHANGED <<events, pc, cam, new, active, cooling, sent>>

CoolDown(c) ==
  /\ cooling[c]
  /\ cooling' = [cooling EXCEPT ![c] = FALSE]
  /\ sent' = [sent EXCEPT ![c] = {}]
  /\ UNCHANGED <<events, pc, cam, new, active, recent>>
-------------------------------------------------------------------------------
MotionStep == TakeEvent \/ Detected(Motion) \/ Picked(Motion) \/ Posted(Motion) \/ MotionNotified

FollowUpStep(t) ==
  \/ FollowUpStart(t) \/ FollowUpEnd(t)
  \/ Detected(t) \/ Picked(t) \/ Posted(t) \/ FollowUpNotified(t)

Next ==
  \/ \E c \in Camera : MotionSeen(c)
  \/ MotionStep
  \/ \E t \in Task : FollowUpStep(t)
  \/ \E w \in Worker : Fail(w)
  \/ \E c \in Camera, p \in Place : Expire(c, p)
  \/ \E c \in Camera : CoolDown(c)

(* The event loop resumes what it can: the detector answers (scheduler),     *)
(* both notifiers turn errors and timeouts into a return, and a follow-up    *)
(* that finds nothing new reaches its deadline.                              *)
Fairness ==
  /\ WF_vars(MotionStep)
  /\ \A t \in Task : WF_vars(FollowUpStart(t)) /\ WF_vars(FollowUpEnd(t))

Spec == Init /\ [][Next]_vars
FairSpec == Spec /\ Fairness
-------------------------------------------------------------------------------
(* The types; whoever awaits something works for a camera. *)
TypeOK ==
  /\ events \in Seq(Camera)
  /\ pc \in [Worker -> Await]
  /\ pc[Motion] # "created"
  /\ cam \in [Worker -> Camera \cup {NoCamera}]
  /\ \A w \in Worker : pc[w] # "idle" <=> cam[w] \in Camera
  /\ new \in [Worker -> SUBSET Place]
  /\ active \in [Camera -> BOOLEAN]
  /\ recent \in [Camera -> SUBSET Place]
  /\ cooling \in [Camera -> BOOLEAN]
  /\ sent \in [Camera -> SUBSET Worker]

Running(t) == pc[t] \notin {"idle", "created"}

(* followup_active is set inside the task, after it was created, and cleared *)
(* on every way out: a camera has at most one running follow-up, and the     *)
(* flag is up exactly while it runs, so no camera loses follow-ups for good. *)
OneFollowUp ==
  /\ \A s, t \in Task : Running(s) /\ Running(t) /\ cam[s] = cam[t] => s = t
  /\ \A c \in Camera : active[c] <=> \E t \in Task : Running(t) /\ cam[t] = c

(* The check of Discord's cooldown and the renewal of _last_sent are two     *)
(* steps with the POST between them: in one cooldown the motion loop and one *)
(* follow-up get a message through, each once, and nobody else does.         *)
FloodBounded ==
  /\ \A c \in Camera : \A s, t \in sent[c] \cap Task : s = t
  /\ \A w \in Worker : pc[w] = "post" => w \notin sent[cam[w]]

(* A recorded motion alert never goes without a follow-up: when the loop     *)
(* goes on, one is running or about to.                                      *)
FollowUpAfterAlert ==
  [][ pc[Motion] = "shinobi" /\ pc'[Motion] = "idle" =>
        \E t \in Task : pc'[t] # "idle" /\ cam'[t] = cam[Motion] ]_vars

(* One loop serves all cameras: it always comes back to the queue, and a     *)
(* queued event is taken, however many alerts and follow-ups there are.      *)
EventsServed == events # <<>> ~> pc[Motion] = "detect"

(* A follow-up with no new arrivals ends and the camera is ready for another *)
(* one; the flag is not left behind by a second task or by an exception.     *)
FollowUpsEnd ==
  \A c \in Camera :
    <>[](\A t \in Task : pc[t] \notin {"pick", "post", "shinobi"}) => []<>~active[c]

===============================================================================
