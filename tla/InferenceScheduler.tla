-------------------------- MODULE InferenceScheduler --------------------------
(***************************************************************************)
(* src/inference_scheduler.py of shinobi-smtp-proxy: every YOLO inference  *)
(* goes through one worker coroutine that serves a priority queue.         *)
(*                                                                         *)
(* Everything runs on one asyncio event loop, so a step of this module is  *)
(* the code a coroutine runs between two suspensions.  infer() does not    *)
(* suspend before "await future": registering, preempting and queueing are *)
(* one step.  The worker does not suspend between answering a request and  *)
(* taking the next one from a queue that is not empty: answering, skipping *)
(* entries that are already answered and starting the next are one step.   *)
(*                                                                         *)
(* PriorityQueue orders by (priority, seq) and seq only grows, so the      *)
(* queue is one FIFO lane per priority.  A member of MotionReq stands for  *)
(* the request of one client that awaits its answer (the motion loop, one  *)
(* follow-up task); BaselineReq are the request objects of the baseline    *)
(* loop, more than one because a preempted one stays in the queue after    *)
(* the loop has gone on.  Request identities are reused, and the number of *)
(* BaselineReq bounds how many preempted entries can pile up.              *)
(*                                                                         *)
(* The short operators EnqueueAsBaseline, DismissedAnywhere, LaneIgnored,  *)
(* AfterNext, StaysRegistered, HasMotionWork and Unanswered are faulty     *)
(* variants of the definition that follows each of them: substituting one  *)
(* shows which property notices that mistake.                              *)
(***************************************************************************)
EXTENDS Naturals, Sequences

CONSTANTS Camera,       \* camera ids
          MotionReq,    \* requests with PRIORITY_MOTION
          BaselineReq,  \* requests with PRIORITY_BASELINE
          NoReq         \* None

ASSUME RequestsDisjoint ==
  /\ MotionReq \cap BaselineReq = {}
  /\ NoReq \notin MotionReq \cup BaselineReq

VARIABLES queue,    \* _queue: one FIFO lane per priority
          future,   \* the state of each request's future
          cam,      \* camera_id of each request (NoReq: never submitted)
          pending,  \* _pending_baseline: camera -> its queued scan
          running,  \* the request the worker awaits the detector for
          up        \* the worker task has not been cancelled

vars == <<queue, future, cam, pending, running, up>>

Req == MotionReq \cup BaselineReq
Priority == {"motion", "baseline"}

(* "detections": answered by the detector; "preempted": answered with []. *)
FutureState == {"none", "pending", "detections", "preempted"}

Queued(r) == \E p \in Priority : \E i \in DOMAIN queue[p] : queue[p][i] = r

Init ==
  /\ queue = [p \in Priority |-> <<>>]
  /\ future = [r \in Req |-> "none"]
  /\ cam = [r \in Req |-> NoReq]
  /\ pending = [c \in Camera |-> NoReq]
  /\ running = NoReq
  /\ up = TRUE
-------------------------------------------------------------------------------
(* _queue.put(req): put never suspends, the queue is unbounded. *)
EnqueueAsBaseline(p, r) == [queue EXCEPT !["baseline"] = Append(@, r)]

Enqueue(p, r) == [queue EXCEPT ![p] = Append(@, r)]

(* The registered scan that a motion request for camera c dismisses. *)
DismissedAnywhere(c) == {pending[d] : d \in Camera}

Dismissed(c) == {pending[c]}

(* infer(priority=PRIORITY_MOTION): a scan of the same camera that is still  *)
(* registered is popped and, if unanswered, answered with [].                *)
SubmitMotion(r, c) ==
  /\ future[r] # "pending"
  /\ future' = [q \in Req |->
                  IF q = r THEN "pending"
                  ELSE IF q \in Dismissed(c) /\ future[q] = "pending" THEN "preempted"
                  ELSE future[q]]
  /\ pending' = [pending EXCEPT ![c] = NoReq]
  /\ cam' = [cam EXCEPT ![r] = c]
  /\ queue' = Enqueue("motion", r)
  /\ UNCHANGED <<running, up>>

(* infer(priority=PRIORITY_BASELINE): called only from the baseline loop,    *)
(* which awaits each answer before it asks again.                            *)
SubmitBaseline(r, c) ==
  /\ \A b \in BaselineReq : future[b] # "pending"
  /\ ~Queued(r)
  /\ future' = [future EXCEPT ![r] = "pending"]
  /\ pending' = [pending EXCEPT ![c] = r]
  /\ cam' = [cam EXCEPT ![r] = c]
  /\ queue' = Enqueue("baseline", r)
  /\ UNCHANGED <<running, up>>
-------------------------------------------------------------------------------
(* Where a lane's first unanswered entry stands, if it has one. *)
FirstLive(lane, fut) ==
  {i \in DOMAIN lane : /\ fut[lane[i]] = "pending"
                       /\ \A j \in 1..(i - 1) : fut[lane[j]] # "pending"}

LaneIgnored(p, fut) == TRUE

LaneDrained(p, fut) == FirstLive(queue[p], fut) = {}

AfterNext(lane, i) == SubSeq(lane, i + 2, Len(lane))

After(lane, i) == SubSeq(lane, i + 1, Len(lane))

(* _pending_baseline.pop when a scan goes on the GPU. *)
StaysRegistered(r) == pending

Deregister(r) == [pending EXCEPT ![cam[r]] = NoReq]

(* The worker takes the next request; the entries in front of it, answered   *)
(* already, are skipped.                                                     *)
TakeMotion(fut) ==
  \E i \in FirstLive(queue["motion"], fut) :
    /\ running' = queue["motion"][i]
    /\ queue' = [queue EXCEPT !["motion"] = After(@, i)]
    /\ pending' = pending

TakeBaseline(fut) ==
  /\ LaneDrained("motion", fut)
  /\ \E i \in FirstLive(queue["baseline"], fut) :
       /\ running' = queue["baseline"][i]
       /\ queue' = [p \in Priority |->
                      IF p = "motion" THEN <<>> ELSE After(queue["baseline"], i)]
       /\ pending' = Deregister(queue["baseline"][i])

TakeNothing(fut) ==
  /\ LaneDrained("motion", fut)
  /\ LaneDrained("baseline", fut)
  /\ running' = NoReq
  /\ queue' = [p \in Priority |-> <<>>]
  /\ pending' = pending

TakeNext(fut) == TakeMotion(fut) \/ TakeBaseline(fut) \/ TakeNothing(fut)

(* The idle worker, suspended in _queue.get(), is woken by a put. *)
HasMotionWork == queue["motion"] # <<>>

HasWork == \E p \in Priority : queue[p] # <<>>

Wake ==
  /\ up
  /\ running = NoReq
  /\ HasWork
  /\ TakeNext(future)
  /\ UNCHANGED <<future, cam, up>>

(* get_detections returned (it turns its own errors into []): answer and go on. *)
Unanswered == future

Answered == [future EXCEPT ![running] = IF @ = "pending" THEN "detections" ELSE @]

Finish ==
  /\ up
  /\ running # NoReq
  /\ future' = Answered
  /\ TakeNext(Answered)
  /\ UNCHANGED <<cam, up>>

(* stop() cancels the worker; CancelledError is not caught by its "except    *)
(* Exception", so neither the running nor the queued futures are resolved.   *)
Stop ==
  /\ up
  /\ up' = FALSE
  /\ running' = NoReq
  /\ UNCHANGED <<queue, future, cam, pending>>
-------------------------------------------------------------------------------
Next ==
  \/ \E r \in MotionReq, c \in Camera : SubmitMotion(r, c)
  \/ \E r \in BaselineReq, c \in Camera : SubmitBaseline(r, c)
  \/ Wake
  \/ Finish
  \/ Stop

(* The worker task is scheduled whenever it can run and the detector returns. *)
Fairness == WF_vars(Wake) /\ WF_vars(Finish)

Spec == Init /\ [][Next]_vars
FairSpec == Spec /\ Fairness
-------------------------------------------------------------------------------
(* The types; the lanes hold requests of their own priority. *)
TypeOK ==
  /\ queue \in [Priority -> Seq(Req)]
  /\ queue["motion"] \in Seq(MotionReq)
  /\ queue["baseline"] \in Seq(BaselineReq)
  /\ future \in [Req -> FutureState]
  /\ cam \in [Req -> Camera \cup {NoReq}]
  /\ pending \in [Camera -> BaselineReq \cup {NoReq}]
  /\ running \in Req \cup {NoReq}
  /\ up \in BOOLEAN

(* Nobody is forgotten: while the worker lives, every caller suspended in    *)
(* "await future" has its request in the queue or on the GPU, whatever       *)
(* preemptions and reuse of the camera's registry entry happened before.     *)
NoLostRequest ==
  up => \A r \in Req : future[r] = "pending" => Queued(r) \/ running = r

(* The preemption registry is exact: _pending_baseline[c] is the queued,     *)
(* unanswered scan of camera c, and every such scan is registered, so motion *)
(* can dismiss it and never touches a scan already on the GPU.               *)
RegistryExact ==
  \A c \in Camera, b \in BaselineReq :
    pending[c] = b <=> /\ future[b] = "pending"
                       /\ \E i \in DOMAIN queue["baseline"] : queue["baseline"][i] = b
                       /\ cam[b] = c

(* What runs on the GPU is still wanted: its future is never resolved by     *)
(* anyone but the worker, so set_result cannot hit a resolved future.        *)
RunningUnanswered == running # NoReq => future[running] = "pending"

(* "Motion events (priority 0) always run before baseline scans": no step    *)
(* puts a scan on the GPU while a motion request is left waiting.            *)
MotionFirst ==
  [][ running' # running /\ running' \in BaselineReq
        => \A m \in MotionReq : future'[m] # "pending" ]_vars

(* Preemption stays within a camera: a scan is dismissed only by a motion    *)
(* request submitted for the same camera in that very step.                  *)
PreemptedByOwnCamera ==
  [][ \A b \in BaselineReq :
        future[b] = "pending" /\ future'[b] = "preempted"
          => \E m \in MotionReq : /\ future[m] # "pending"
                                  /\ future'[m] = "pending"
                                  /\ cam'[m] = cam[b] ]_vars

(* Every motion request is answered unless the worker is stopped, however    *)
(* many scans and other motion requests keep arriving.                       *)
MotionServed ==
  \A m \in MotionReq : future[m] = "pending" ~> (future[m] # "pending" \/ ~up)

(* A scan is answered or preempted if motion eventually calms down (under    *)
(* endless motion from two clients it may starve).                           *)
ScanServedWhenCalm ==
  <>[](\A m \in MotionReq : future[m] # "pending") =>
    \A b \in BaselineReq : future[b] = "pending" ~> (future[b] # "pending" \/ ~up)

(* The scheduler keeps the promise of InferenceService. *)
Service == INSTANCE InferenceService WITH
             waiting <- {r \in Req : future[r] = "pending"} \ {running},
             serving <- running

ImplementsService == Service!Spec

===============================================================================
