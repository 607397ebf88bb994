---------------------------- MODULE AlertPathProofs ----------------------------
(***************************************************************************)
(* Theorems of AlertPath for any cameras, places, follow-up tasks and      *)
(* queue size.  The two strengthenings say what a coroutine that is        *)
(* posting may rely on: it found the cooldown over, and since then only    *)
(* the other kind of coroutine can have sent to its camera's channel.      *)
(***************************************************************************)
EXTENDS AlertPath, TLAPS

QuietWhenCool == \A c \in Camera : ~cooling[c] => sent[c] = {}

PostingAlone == \A t \in Task : pc[t] = "post" => sent[cam[t]] \cap Task = {}

IInv == TypeOK /\ OneFollowUp /\ FloodBounded /\ QuietWhenCool /\ PostingAlone

-------------------------------------------------------------------------------
(* The service before its first event. *)
LEMMA InitIInv == Init => IInv
<1> SUFFICES ASSUME Init
             PROVE  IInv
  OBVIOUS
<1>1. TypeOK
  BY AlertPathAssumption DEF Init, TypeOK, Worker, Await
<1>2. OneFollowUp
  BY DEF Init, OneFollowUp, Running, Worker
<1>3. FloodBounded /\ QuietWhenCool /\ PostingAlone
  BY DEF Init, FloodBounded, QuietWhenCool, PostingAlone, Worker
<1> QED BY <1>1, <1>2, <1>3 DEF IInv

(* What a step of the motion loop, or of the world, leaves of the follow-ups *)
(* when it sends nothing.                                                    *)
LEMMA FollowUpsUntouched ==
  ASSUME IInv, TypeOK', UNCHANGED <<active, cooling, sent>>,
         \A t \in Task : pc'[t] = pc[t] /\ cam'[t] = cam[t],
         pc'[Motion] = "post" => Motion \notin sent[cam'[Motion]]
  PROVE  IInv'
<1>1. OneFollowUp'
  BY DEF IInv, OneFollowUp, Running
<1>2. QuietWhenCool' /\ PostingAlone'
  BY DEF IInv, QuietWhenCool, PostingAlone
<1>3. FloodBounded'
  <2>1. \A c \in Camera : \A s, t \in sent'[c] \cap Task : s = t
    BY DEF IInv, FloodBounded
  <2>2. \A t \in Task : pc'[t] = "post" => t \notin sent'[cam'[t]]
    BY DEF IInv, FloodBounded, Worker
  <2> QED BY <2>1, <2>2 DEF FloodBounded, Worker
<1> QED BY <1>1, <1>2, <1>3 DEF IInv

(* A reader thread queues or drops an event. *)
LEMMA MotionSeenIInv == ASSUME IInv, NEW c \in Camera, MotionSeen(c) PROVE IInv'
<1>1. events' \in Seq(Camera)
  BY DEF MotionSeen, IInv, TypeOK
<1>2. TypeOK'
  BY <1>1 DEF MotionSeen, IInv, TypeOK
<1> QED
  BY <1>2, FollowUpsUntouched DEF MotionSeen, IInv, FloodBounded, Worker

(* The loop takes an event. *)
LEMMA TakeEventIInv == ASSUME IInv, TakeEvent PROVE IInv'
<1>1. /\ events \in Seq(Camera) /\ events # <<>>
      /\ Head(events) \in Camera /\ events' \in Seq(Camera)
  BY DEF TakeEvent, IInv, TypeOK
<1>2. /\ cam' = [cam EXCEPT ![Motion] = Head(events)]
      /\ pc' = [pc EXCEPT ![Motion] = "detect"]
      /\ UNCHANGED <<new, active, recent, cooling, sent>>
  BY DEF TakeEvent
<1>3. Motion \in Worker /\ Motion \notin Task
  BY AlertPathAssumption DEF Worker
<1>4. TypeOK'
  BY <1>1, <1>2, <1>3, AlertPathAssumption DEF IInv, TypeOK, Await
<1>5. \A t \in Task : pc'[t] = pc[t] /\ cam'[t] = cam[t]
  BY <1>2, <1>3 DEF IInv, TypeOK, Worker
<1>6. pc'[Motion] # "post"
  BY <1>2, <1>3 DEF IInv, TypeOK
<1> QED
  BY <1>2, <1>4, <1>5, <1>6, FollowUpsUntouched

(* A follow-up that goes on changes nothing of who runs for which camera. *)
LEMMA StillOneFollowUp ==
  ASSUME IInv, NEW t \in Task, UNCHANGED <<cam, active>>,
         \A w \in Worker : w # t => pc'[w] = pc[w],
         pc[t] \notin {"idle", "created"}, pc'[t] \notin {"idle", "created"}
  PROVE  OneFollowUp'
<1>1. \A s \in Task : Running(s)' <=> Running(s)
  BY DEF Running, Worker
<1> QED
  BY <1>1 DEF IInv, OneFollowUp, Running

(* The detections arrive. *)
LEMMA DetectedIInv == ASSUME IInv, NEW w \in Worker, Detected(w) PROVE IInv'
<1>1. PICK found \in SUBSET (Place \ recent[cam[w]]) :
        /\ new' = [new EXCEPT ![w] = found]
        /\ pc' = [pc EXCEPT ![w] = IF found = {} THEN Rest(w) ELSE "pick"]
        /\ cam' = IF found = {} /\ w = Motion THEN Freed(w) ELSE cam
  BY DEF Detected, Filtered
<1>2. /\ pc[w] = "detect" /\ cam[w] \in Camera
      /\ UNCHANGED <<events, active, recent, cooling, sent>>
  BY DEF Detected, IInv, TypeOK
<1>3. /\ pc' \in [Worker -> Await]
      /\ \A v \in Worker : v # w => pc'[v] = pc[v] /\ cam'[v] = cam[v]
      /\ cam' \in [Worker -> Camera \cup {NoCamera}]
      /\ new' \in [Worker -> SUBSET Place]
  BY <1>1, <1>2 DEF IInv, TypeOK, Rest, Freed, Await
<1>4. CASE w = Motion
  <2>1. /\ pc'[Motion] \in {"idle", "pick"}
        /\ pc'[Motion] = "idle" <=> cam'[Motion] \notin Camera
    BY <1>1, <1>2, <1>4, AlertPathAssumption DEF IInv, TypeOK, Rest, Freed
  <2>2. TypeOK'
    BY <1>2, <1>3, <1>4, <2>1, AlertPathAssumption DEF IInv, TypeOK
  <2> QED
    BY <1>2, <1>3, <1>4, <2>1, <2>2, FollowUpsUntouched, AlertPathAssumption DEF Worker
<1>5. CASE w # Motion
  <2>1. cam' = cam /\ pc'[w] \in {"detect", "pick"} /\ w \in Task
    BY <1>1, <1>2, <1>5 DEF IInv, TypeOK, Rest, Worker
  <2>2. TypeOK'
    BY <1>2, <1>3, <1>5, <2>1, AlertPathAssumption DEF IInv, TypeOK, Worker
  <2>3. OneFollowUp'
    BY <1>2, <1>3, <2>1, StillOneFollowUp
  <2>4. FloodBounded' /\ QuietWhenCool' /\ PostingAlone'
    BY <1>2, <1>3, <2>1 DEF IInv, FloodBounded, QuietWhenCool, PostingAlone, Worker
  <2> QED BY <2>2, <2>3, <2>4 DEF IInv
<1> QED BY <1>4, <1>5

(* Whoever finds the cooldown over knows that nothing was sent in it. *)
LEMMA PickedIInv == ASSUME IInv, NEW w \in Worker, Picked(w) PROVE IInv'
<1>1. /\ pc[w] = "pick" /\ cam[w] \in Camera
      /\ pc' = [pc EXCEPT ![w] = IF cooling[cam[w]] THEN "shinobi" ELSE "post"]
      /\ UNCHANGED <<events, cam, new, active, recent, cooling, sent>>
  BY DEF Picked, InCooldown, IInv, TypeOK
<1>2. /\ pc' \in [Worker -> Await] /\ pc'[w] \in {"shinobi", "post"}
      /\ \A v \in Worker : v # w => pc'[v] = pc[v]
      /\ pc'[w] = "post" => ~cooling[cam[w]]
  BY <1>1 DEF IInv, TypeOK, Await
<1>3. pc'[w] = "post" => sent[cam[w]] = {}
  BY <1>1, <1>2 DEF IInv, QuietWhenCool
<1>4. TypeOK'
  BY <1>1, <1>2, AlertPathAssumption DEF IInv, TypeOK, Worker
<1>5. CASE w = Motion
  BY <1>1, <1>2, <1>3, <1>4, <1>5, FollowUpsUntouched, AlertPathAssumption DEF Worker
<1>6. CASE w # Motion
  <2>1. w \in Task
    BY <1>6 DEF Worker
  <2>2. OneFollowUp'
    BY <1>1, <1>2, <2>1, StillOneFollowUp
  <2>3. FloodBounded' /\ QuietWhenCool' /\ PostingAlone'
    BY <1>1, <1>2, <1>3 DEF IInv, FloodBounded, QuietWhenCool, PostingAlone, Worker
  <2> QED BY <1>4, <2>2, <2>3 DEF IInv
<1> QED BY <1>5, <1>6

(* A message got through or not; it may be the second one of the cooldown,   *)
(* the other kind of coroutine having sent the first.                        *)
LEMMA PostedIInv == ASSUME IInv, NEW w \in Worker, Posted(w) PROVE IInv'
<1>1. PICK accepted \in BOOLEAN :
        /\ pc' = [pc EXCEPT ![w] = "shinobi"]
        /\ cooling' = IF accepted THEN [cooling EXCEPT ![cam[w]] = TRUE] ELSE cooling
        /\ sent' = IF accepted THEN [sent EXCEPT ![cam[w]] = @ \cup {w}] ELSE sent
  BY DEF Posted
<1>2. /\ pc[w] = "post" /\ cam[w] \in Camera
      /\ UNCHANGED <<events, cam, new, active, recent>>
  BY DEF Posted, IInv, TypeOK
<1>3. /\ pc' \in [Worker -> Await] /\ pc'[w] = "shinobi"
      /\ \A v \in Worker : v # w => pc'[v] = pc[v]
  BY <1>1 DEF IInv, TypeOK, Await
<1>4. /\ cooling' \in [Camera -> BOOLEAN]
      /\ sent' \in [Camera -> SUBSET Worker]
      /\ \A c \in Camera : c # cam[w] => sent'[c] = sent[c] /\ cooling'[c] = cooling[c]
      /\ sent'[cam[w]] \subseteq sent[cam[w]] \cup {w}
      /\ ~cooling'[cam[w]] => ~cooling[cam[w]] /\ sent'[cam[w]] = sent[cam[w]]
  BY <1>1, <1>2 DEF IInv, TypeOK
<1>5. TypeOK'
  BY <1>2, <1>3, <1>4, AlertPathAssumption DEF IInv, TypeOK, Worker
<1>6. QuietWhenCool'
  BY <1>4 DEF IInv, QuietWhenCool
<1>7. OneFollowUp'
  <2>1. CASE w = Motion
    BY <1>2, <1>3, <2>1, AlertPathAssumption DEF IInv, OneFollowUp, Running, Worker
  <2>2. CASE w # Motion
    BY <1>2, <1>3, <2>2, StillOneFollowUp DEF Worker
  <2> QED BY <2>1, <2>2
<1>8. PostingAlone'
  <2> SUFFICES ASSUME NEW t \in Task, pc'[t] = "post"
               PROVE  sent'[cam[t]] \cap Task = {}
    BY <1>2 DEF PostingAlone
  <2>1. t # w /\ pc[t] = "post" /\ cam[t] \in Camera
    BY <1>3 DEF IInv, TypeOK, Worker
  <2>2. sent[cam[t]] \cap Task = {}
    BY <2>1 DEF IInv, PostingAlone
  <2>3. w \in Task => cam[t] # cam[w]
    BY <1>2, <2>1 DEF IInv, OneFollowUp, Running
  <2> QED BY <1>4, <2>1, <2>2, <2>3
<1>9. FloodBounded'
  <2>1. ASSUME NEW c \in Camera, NEW s \in sent'[c] \cap Task, NEW t \in sent'[c] \cap Task
        PROVE  s = t
    <3>1. w \in Task => sent[cam[w]] \cap Task = {}
      BY <1>2 DEF IInv, PostingAlone
    <3> QED BY <1>4, <2>1, <3>1 DEF IInv, FloodBounded
  <2>2. ASSUME NEW v \in Worker, pc'[v] = "post"
        PROVE  v \notin sent'[cam'[v]]
    <3>1. v # w /\ pc[v] = "post" /\ cam[v] \in Camera
      BY <1>3, <2>2 DEF IInv, TypeOK
    <3> QED BY <1>2, <1>4, <3>1 DEF IInv, FloodBounded
  <2> QED BY <2>1, <2>2 DEF FloodBounded
<1> QED BY <1>5, <1>6, <1>7, <1>8, <1>9 DEF IInv

(* A follow-up has notified and sleeps again. *)
LEMMA FollowUpNotifiedIInv == ASSUME IInv, NEW t \in Task, FollowUpNotified(t) PROVE IInv'
<1>1. /\ pc[t] = "shinobi" /\ cam[t] \in Camera
      /\ pc' = [pc EXCEPT ![t] = "detect"]
      /\ new' = [new EXCEPT ![t] = {}]
      /\ recent' = [recent EXCEPT ![cam[t]] = @ \cup new[t]]
      /\ UNCHANGED <<events, cam, active, cooling, sent>>
  BY DEF FollowUpNotified, Recorded, IInv, TypeOK, Worker
<1>2. /\ pc' \in [Worker -> Await] /\ pc'[t] = "detect"
      /\ \A v \in Worker : v # t => pc'[v] = pc[v]
      /\ new' \in [Worker -> SUBSET Place]
      /\ recent' \in [Camera -> SUBSET Place]
  BY <1>1 DEF IInv, TypeOK, Await, Worker
<1>3. TypeOK'
  BY <1>1, <1>2, AlertPathAssumption DEF IInv, TypeOK, Worker
<1>4. OneFollowUp'
  BY <1>1, <1>2, StillOneFollowUp
<1>5. FloodBounded' /\ QuietWhenCool' /\ PostingAlone'
  BY <1>1, <1>2 DEF IInv, FloodBounded, QuietWhenCool, PostingAlone, Worker
<1> QED BY <1>3, <1>4, <1>5 DEF IInv

(* What MotionNotified does besides recording: a new task, or none. *)
LEMMA MotionNotifiedFacts ==
  ASSUME IInv, MotionNotified
  PROVE  /\ pc[Motion] = "shinobi" /\ cam[Motion] \in Camera
         /\ pc'[Motion] = "idle" /\ cam'[Motion] = NoCamera
         /\ new' \in [Worker -> SUBSET Place] /\ recent' \in [Camera -> SUBSET Place]
         /\ pc' \in [Worker -> Await] /\ cam' \in [Worker -> Camera \cup {NoCamera}]
         /\ UNCHANGED <<events, active, cooling, sent>>
         /\ \/ /\ active[cam[Motion]]
               /\ \A t \in Task : pc'[t] = pc[t] /\ cam'[t] = cam[t]
            \/ \E t \in Task :
                  /\ pc[t] = "idle" /\ pc'[t] = "created" /\ cam'[t] = cam[Motion]
                  /\ \A s \in Task : s # t => pc'[s] = pc[s] /\ cam'[s] = cam[s]
<1>1. Motion \in Worker /\ Motion \notin Task /\ Task \subseteq Worker
  BY AlertPathAssumption DEF Worker
<1>2. pc[Motion] = "shinobi" /\ cam[Motion] \in Camera
  BY <1>1 DEF MotionNotified, Recorded, IInv, TypeOK
<1>3. new' \in [Worker -> SUBSET Place] /\ recent' \in [Camera -> SUBSET Place]
  BY <1>1, <1>2 DEF MotionNotified, Recorded, IInv, TypeOK
<1>4. UNCHANGED <<events, active, cooling, sent>>
  BY DEF MotionNotified
<1>5. CASE /\ active[cam[Motion]]
           /\ pc' = [pc EXCEPT ![Motion] = "idle"]
           /\ cam' = Freed(Motion)
  BY <1>1, <1>2, <1>3, <1>4, <1>5 DEF IInv, TypeOK, Freed, Await
<1>6. CASE /\ FreeTask # {}
           /\ LET t == CHOOSE x \in FreeTask : TRUE
              IN  /\ pc' = [pc EXCEPT ![Motion] = "idle", ![t] = "created"]
                  /\ cam' = [cam EXCEPT ![Motion] = NoCamera, ![t] = cam[Motion]]
  <2>1. PICK t \in FreeTask :
          /\ pc' = [pc EXCEPT ![Motion] = "idle", ![t] = "created"]
          /\ cam' = [cam EXCEPT ![Motion] = NoCamera, ![t] = cam[Motion]]
    BY <1>6
  <2>2. t \in Task /\ pc[t] = "idle" /\ t # Motion
    BY <1>1 DEF FreeTask
  <2>3. /\ pc \in [Worker -> Await] /\ cam \in [Worker -> Camera \cup {NoCamera}]
        /\ {"idle", "created"} \subseteq Await
    BY DEF IInv, TypeOK, Await
  <2>4. /\ pc'[Motion] = "idle" /\ pc'[t] = "created" /\ pc' \in [Worker -> Await]
        /\ \A s \in Task : s # t => pc'[s] = pc[s]
    BY <1>1, <2>1, <2>2, <2>3
  <2>5. /\ cam'[Motion] = NoCamera /\ cam'[t] = cam[Motion]
        /\ cam' \in [Worker -> Camera \cup {NoCamera}]
        /\ \A s \in Task : s # t => cam'[s] = cam[s]
    BY <1>1, <1>2, <2>1, <2>2, <2>3
  <2> QED
    BY <1>1, <1>2, <1>3, <1>4, <2>2, <2>4, <2>5
<1> QED
  BY <1>5, <1>6 DEF MotionNotified

(* The loop goes back to the queue; a task it created does not run yet. *)
LEMMA MotionNotifiedIInv == ASSUME IInv, MotionNotified PROVE IInv'
<1>1. Motion \in Worker /\ Motion \notin Task /\ Worker = {Motion} \cup Task
  BY AlertPathAssumption DEF Worker
<1>2. TypeOK'
  <2>1. \A w \in Worker : pc'[w] # "idle" <=> cam'[w] \in Camera
    BY <1>1, MotionNotifiedFacts, AlertPathAssumption DEF IInv, TypeOK
  <2> QED
    BY <2>1, MotionNotifiedFacts DEF IInv, TypeOK
<1>3. \A t \in Task : /\ Running(t)' <=> Running(t)
                      /\ Running(t) => pc'[t] = pc[t] /\ cam'[t] = cam[t]
  BY MotionNotifiedFacts DEF Running
<1>4. OneFollowUp'
  BY <1>3, MotionNotifiedFacts DEF IInv, OneFollowUp
<1>5. QuietWhenCool' /\ PostingAlone'
  BY <1>3, MotionNotifiedFacts DEF IInv, QuietWhenCool, PostingAlone, Running
<1>6. FloodBounded'
  BY <1>1, <1>3, MotionNotifiedFacts DEF IInv, FloodBounded, Running
<1> QED BY <1>2, <1>4, <1>5, <1>6 DEF IInv

(* A follow-up starts unless one is active. *)
LEMMA FollowUpStartIInv == ASSUME IInv, NEW t \in Task, FollowUpStart(t) PROVE IInv'
<1>1. /\ t \in Worker /\ t # Motion /\ pc[t] = "created" /\ cam[t] \in Camera
      /\ UNCHANGED <<events, new, recent, cooling, sent>>
  BY AlertPathAssumption DEF FollowUpStart, IInv, TypeOK, Worker
<1>2. CASE active[cam[t]]
  <2>1. /\ pc' = [pc EXCEPT ![t] = "idle"] /\ cam' = Freed(t)
        /\ active' = [active EXCEPT ![cam[t]] = TRUE]
    BY <1>2 DEF FollowUpStart, AlreadyActive
  <2>2. active' = active
    BY <1>1, <1>2, <2>1 DEF IInv, TypeOK
  <2>3. /\ pc' \in [Worker -> Await] /\ cam' \in [Worker -> Camera \cup {NoCamera}]
        /\ pc'[t] = "idle" /\ cam'[t] = NoCamera
        /\ \A v \in Worker : v # t => pc'[v] = pc[v] /\ cam'[v] = cam[v]
    BY <1>1, <2>1 DEF IInv, TypeOK, Freed, Await
  <2>4. TypeOK'
    BY <1>1, <2>2, <2>3, AlertPathAssumption DEF IInv, TypeOK, Worker
  <2>5. OneFollowUp'
    BY <1>1, <2>2, <2>3 DEF IInv, OneFollowUp, Running, Worker
  <2>6. FloodBounded' /\ QuietWhenCool' /\ PostingAlone'
    BY <1>1, <2>3 DEF IInv, FloodBounded, QuietWhenCool, PostingAlone, Worker
  <2> QED BY <2>4, <2>5, <2>6 DEF IInv
<1>3. CASE ~active[cam[t]]
  <2>1. /\ pc' = [pc EXCEPT ![t] = "detect"] /\ cam' = cam
        /\ active' = [active EXCEPT ![cam[t]] = TRUE]
    BY <1>3 DEF FollowUpStart, AlreadyActive
  <2>2. /\ active' \in [Camera -> BOOLEAN] /\ active'[cam[t]]
        /\ \A c \in Camera : c # cam[t] => active'[c] = active[c]
    BY <1>1, <2>1 DEF IInv, TypeOK
  <2>3. /\ pc' \in [Worker -> Await] /\ pc'[t] = "detect"
        /\ \A v \in Worker : v # t => pc'[v] = pc[v]
    BY <1>1, <2>1 DEF IInv, TypeOK, Await
  <2>4. TypeOK'
    BY <1>1, <2>1, <2>2, <2>3, AlertPathAssumption DEF IInv, TypeOK, Worker
  <2>5. \A s \in Task : /\ s # t => (Running(s)' <=> Running(s))
                        /\ Running(s) => cam[s] # cam[t]
    BY <1>1, <1>3, <2>3 DEF IInv, OneFollowUp, Running, Worker
  <2>6. Running(t)'
    BY <2>3 DEF Running
  <2>7. OneFollowUp'
    BY <1>1, <2>1, <2>2, <2>5, <2>6 DEF IInv, OneFollowUp
  <2>8. FloodBounded' /\ QuietWhenCool' /\ PostingAlone'
    BY <1>1, <2>1, <2>3 DEF IInv, FloodBounded, QuietWhenCool, PostingAlone, Worker
  <2> QED BY <2>4, <2>7, <2>8 DEF IInv
<1> QED BY <1>2, <1>3

(* A running follow-up ends, at its deadline or with an exception, and       *)
(* clears the flag.                                                          *)
LEMMA FollowUpOver ==
  ASSUME IInv, NEW t \in Task, Running(t),
         pc' = [pc EXCEPT ![t] = "idle"], cam' = Freed(t), active' = Inactive(cam[t]),
         new' = new \/ new' = [new EXCEPT ![t] = {}],
         UNCHANGED <<events, recent, cooling, sent>>
  PROVE  IInv'
<1>1. t \in Worker /\ t # Motion /\ cam[t] \in Camera
  BY AlertPathAssumption DEF IInv, TypeOK, Worker, Running
<1>2. /\ pc' \in [Worker -> Await] /\ cam' \in [Worker -> Camera \cup {NoCamera}]
      /\ pc'[t] = "idle" /\ cam'[t] = NoCamera
      /\ \A v \in Worker : v # t => pc'[v] = pc[v] /\ cam'[v] = cam[v]
  BY <1>1 DEF IInv, TypeOK, Freed, Await
<1>3. /\ active' \in [Camera -> BOOLEAN] /\ ~active'[cam[t]]
      /\ \A c \in Camera : c # cam[t] => active'[c] = active[c]
      /\ new' \in [Worker -> SUBSET Place]
  BY <1>1 DEF IInv, TypeOK, Inactive
<1>4. TypeOK'
  BY <1>1, <1>2, <1>3, AlertPathAssumption DEF IInv, TypeOK, Worker
<1>5. /\ ~Running(t)'
      /\ \A s \in Task : s # t => /\ Running(s)' <=> Running(s)
                                  /\ cam'[s] = cam[s]
                                  /\ Running(s) => cam[s] # cam[t]
  BY <1>2 DEF IInv, OneFollowUp, Running, Worker
<1>6. OneFollowUp'
  BY <1>1, <1>3, <1>5 DEF IInv, OneFollowUp
<1>7. FloodBounded' /\ QuietWhenCool' /\ PostingAlone'
  BY <1>1, <1>2 DEF IInv, FloodBounded, QuietWhenCool, PostingAlone, Worker
<1> QED BY <1>4, <1>6, <1>7 DEF IInv

(* An exception: the motion loop goes on, a follow-up is over. *)
LEMMA FailIInv == ASSUME IInv, NEW w \in Worker, Fail(w) PROVE IInv'
<1>1. /\ pc[w] \in {"detect", "pick"}
      /\ pc' = [pc EXCEPT ![w] = "idle"]
      /\ new' = [new EXCEPT ![w] = {}]
      /\ cam' = Freed(w)
      /\ active' = IF w = Motion THEN active ELSE Inactive(cam[w])
      /\ UNCHANGED <<events, recent, cooling, sent>>
  BY DEF Fail, AfterError
<1>2. CASE w = Motion
  <2>1. /\ pc' \in [Worker -> Await] /\ cam' \in [Worker -> Camera \cup {NoCamera}]
        /\ new' \in [Worker -> SUBSET Place] /\ UNCHANGED active
        /\ pc'[Motion] = "idle" /\ cam'[Motion] = NoCamera
        /\ \A v \in Worker : v # w => pc'[v] = pc[v] /\ cam'[v] = cam[v]
    BY <1>1, <1>2 DEF IInv, TypeOK, Freed, Await
  <2>2. TypeOK'
    BY <1>1, <1>2, <2>1, AlertPathAssumption DEF IInv, TypeOK
  <2> QED
    BY <1>1, <1>2, <2>1, <2>2, FollowUpsUntouched, AlertPathAssumption DEF Worker
<1>3. CASE w # Motion
  BY <1>1, <1>3, FollowUpOver DEF Worker, Running
<1> QED BY <1>2, <1>3

-------------------------------------------------------------------------------
(* Every step keeps the invariant. *)
LEMMA NextIInv == IInv /\ [Next]_vars => IInv'
<1> SUFFICES ASSUME IInv, [Next]_vars
             PROVE  IInv'
  OBVIOUS
<1>1. ASSUME NEW c \in Camera, MotionSeen(c) PROVE IInv'
  BY <1>1, MotionSeenIInv
<1>2. CASE MotionStep
  BY <1>2, TakeEventIInv, DetectedIInv, PickedIInv, PostedIInv, MotionNotifiedIInv
     DEF MotionStep, Worker
<1>3. ASSUME NEW t \in Task, FollowUpStep(t) PROVE IInv'
  <2>1. CASE FollowUpEnd(t)
    BY <2>1, FollowUpOver DEF FollowUpEnd, Running
  <2> QED
    BY <1>3, <2>1, FollowUpStartIInv, DetectedIInv, PickedIInv, PostedIInv,
       FollowUpNotifiedIInv DEF FollowUpStep, Worker
<1>4. ASSUME NEW w \in Worker, Fail(w) PROVE IInv'
  BY <1>4, FailIInv
<1>5. ASSUME NEW c \in Camera, NEW p \in Place, Expire(c, p) PROVE IInv'
  <2>1. recent' \in [Camera -> SUBSET Place]
    BY <1>5 DEF Expire, IInv, TypeOK
  <2>2. TypeOK'
    BY <1>5, <2>1 DEF Expire, IInv, TypeOK
  <2> QED
    BY <1>5, <2>2, FollowUpsUntouched DEF Expire, IInv, FloodBounded, Worker
<1>6. ASSUME NEW c \in Camera, CoolDown(c) PROVE IInv'
  <2>1. /\ cooling' \in [Camera -> BOOLEAN] /\ sent' \in [Camera -> SUBSET Worker]
        /\ sent'[c] = {}
        /\ \A d \in Camera : d # c => sent'[d] = sent[d] /\ cooling'[d] = cooling[d]
        /\ UNCHANGED <<events, pc, cam, new, active, recent>>
    BY <1>6 DEF CoolDown, IInv, TypeOK
  <2>2. TypeOK'
    BY <2>1 DEF IInv, TypeOK
  <2>3. OneFollowUp' /\ QuietWhenCool'
    BY <2>1 DEF IInv, OneFollowUp, Running, QuietWhenCool
  <2>4. \A w \in Worker : pc[w] = "post" => cam[w] \in Camera
    BY DEF IInv, TypeOK
  <2>5. FloodBounded'
    BY <2>1, <2>4 DEF IInv, FloodBounded
  <2>6. PostingAlone'
    BY <2>1, <2>4 DEF IInv, PostingAlone, Worker
  <2> QED BY <2>2, <2>3, <2>5, <2>6 DEF IInv
<1>7. CASE UNCHANGED vars
  BY <1>7 DEF vars, IInv, TypeOK, OneFollowUp, Running, FloodBounded, QuietWhenCool,
     PostingAlone
<1> QED
  BY <1>1, <1>2, <1>3, <1>4, <1>5, <1>6, <1>7 DEF Next

(* The invariant holds in every reachable state. *)
LEMMA Invariance == Spec => []IInv
BY InitIInv, NextIInv, PTL DEF Spec

-------------------------------------------------------------------------------
(* The state of the coroutines, flags and cooldowns keeps its types. *)
THEOREM TypeCorrect == Spec => []TypeOK
<1>1. IInv => TypeOK
  BY DEF IInv
<1> QED BY <1>1, Invariance, PTL

(* A camera's flag is up exactly while its one follow-up runs. *)
THEOREM FollowUpExclusive == Spec => []OneFollowUp
<1>1. IInv => OneFollowUp
  BY DEF IInv
<1> QED BY <1>1, Invariance, PTL

(* In one Discord cooldown a camera's channel gets at most one message of    *)
(* the motion loop and one of all follow-ups.                                *)
THEOREM AtMostTwoMessages == Spec => []FloodBounded
<1>1. IInv => FloodBounded
  BY DEF IInv
<1> QED BY <1>1, Invariance, PTL

(* When the motion loop goes on after an alert, a follow-up of the camera    *)
(* exists.                                                                   *)
THEOREM AlertIsFollowedUp == Spec => FollowUpAfterAlert
<1> DEFINE Followed == pc[Motion] = "shinobi" /\ pc'[Motion] = "idle" =>
                         \E t \in Task : pc'[t] # "idle" /\ cam'[t] = cam[Motion]
<1>1. IInv /\ [Next]_vars => [Followed]_vars
  <2> SUFFICES ASSUME IInv, Next, pc[Motion] = "shinobi", pc'[Motion] = "idle"
               PROVE  \E t \in Task : pc'[t] # "idle" /\ cam'[t] = cam[Motion]
    OBVIOUS
  <2>1. MotionNotified
    <3>1. Motion \in Worker /\ Motion \notin Task
      BY AlertPathAssumption DEF Worker
    <3>2. ASSUME NEW w \in Worker, Detected(w) \/ Picked(w) \/ Posted(w) \/ Fail(w)
          PROVE  FALSE
      <4>1. w # Motion
        BY <3>2 DEF Detected, Picked, Posted, Fail
      <4>2. pc'[Motion] = pc[Motion]
        BY <3>1, <3>2, <4>1 DEF Detected, Picked, Posted, Fail, IInv, TypeOK
      <4> QED BY <4>2
    <3>3. ASSUME NEW t \in Task, FollowUpStart(t) \/ FollowUpEnd(t) \/ FollowUpNotified(t)
          PROVE  FALSE
      BY <3>1, <3>3 DEF FollowUpStart, FollowUpEnd, FollowUpNotified, IInv, TypeOK
    <3>4. ~TakeEvent
      BY DEF TakeEvent
    <3>5. /\ \A c \in Camera : ~MotionSeen(c) /\ ~CoolDown(c)
          /\ \A c \in Camera, p \in Place : ~Expire(c, p)
      BY DEF MotionSeen, CoolDown, Expire
    <3> QED
      BY <3>1, <3>2, <3>3, <3>4, <3>5 DEF Next, MotionStep, FollowUpStep, Worker
  <2>2. CASE active[cam[Motion]]
    <3>1. PICK t \in Task : Running(t) /\ cam[t] = cam[Motion]
      BY <2>1, <2>2, MotionNotifiedFacts DEF IInv, OneFollowUp
    <3>2. pc'[t] # "idle" /\ cam'[t] = cam[t]
      BY <2>1, <3>1, MotionNotifiedFacts DEF Running
    <3> QED BY <3>1, <3>2
  <2>3. CASE ~active[cam[Motion]]
    BY <2>1, <2>3, MotionNotifiedFacts
  <2> QED BY <2>2, <2>3
<1> QED
  BY <1>1, Invariance, PTL DEF Spec, FollowUpAfterAlert

===============================================================================
