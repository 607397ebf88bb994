------------------------------- MODULE RtspReader -------------------------------
(***************************************************************************)
(* rtsp_reader.py: the thread that reads one camera's stream.  It opens    *)
(* the stream, reads frames, looks for motion between consecutive ones,    *)
(* and opens the stream again, after a growing delay, whenever anything    *)
(* fails.  Meanwhile the metrics loop of the asyncio thread                *)
(* (baseline_manager.py) takes and resets the thread's counters.           *)
(*                                                                         *)
(* The counters are guarded by a lock; an increment is a load and a store. *)
(* The clock is left out: a delay or the pause between two motion events   *)
(* is over at any time.  bytes_total is counted together with frames_ok.   *)
(* The camera has motion detection; what becomes of an event in the queue  *)
(* is in AlertPath.                                                        *)
(*                                                                         *)
(* Unguarded, ReferenceKept, Uncapped and ThreadDies are faulty variants   *)
(* of the definitions that follow them.                                    *)
(***************************************************************************)
EXTENDS Naturals

CONSTANTS Warmup,      \* frames without motion detection after opening (10)
          BackoffMax,  \* longest delay (30 s)
          MaxCount     \* bounds what is counted between two snapshots

ASSUME ReaderAssumption ==
  /\ Warmup \in Nat
  /\ BackoffMax \in Nat \ {0}
  /\ MaxCount \in Nat \ {0}

VARIABLES pc,        \* what the thread does next
          kind,      \* the counter it increments
          after,     \* where it goes on after that
          loaded,    \* the value it has loaded
          lock,      \* who holds _metrics_lock
          count,     \* frames_ok, frames_fail, motion_events
          snapshot,  \* what the metrics loop has read
          warmup,    \* _warmup_frames
          prev,      \* _prev_gray is not None
          quiet,     \* less than MOTION_COOLDOWN_SECONDS since _last_motion
          backoff,   \* _backoff
          connected, \* connected, and the gauge of that name
          stopping,  \* _stop_event
          since,     \* history: what happened since the last snapshot
          shown      \* history: frames read from this stream, up to Warmup + 2

counting == <<kind, after, loaded, lock, count, since>>
motion == <<warmup, prev, quiet, shown>>
link == <<backoff, connected>>
vars == <<pc, counting, snapshot, motion, link, stopping>>

Kind == {"ok", "fail", "motion"}

Init ==
  /\ pc = "connect"
  /\ kind = "ok" /\ after = "read" /\ loaded = 0
  /\ lock = "free"
  /\ count = [k \in Kind |-> 0]
  /\ snapshot = count
  /\ warmup = 0
  /\ prev = FALSE
  \* _last_motion is 0.0, so a host up for less than the pause is quiet
  /\ quiet \in BOOLEAN
  /\ backoff = 0
  /\ connected = FALSE
  /\ stopping = FALSE
  /\ since = count
  /\ shown = 0
-------------------------------------------------------------------------------
(* The thread is about to count one k and to go on at next. *)
Counting(k, next) ==
  /\ pc' = "count"
  /\ kind' = k
  /\ after' = next
  /\ UNCHANGED <<loaded, lock, count, since>>

Unguarded == TRUE

LockFree == lock = "free"

(* with self._metrics_lock: self.<counter> += 1 *)
Load ==
  /\ pc = "count"
  /\ LockFree
  /\ count[kind] < MaxCount
  /\ lock' = "reader"
  /\ loaded' = count[kind]
  /\ pc' = "store"
  /\ UNCHANGED <<kind, after, count, since, snapshot, motion, link, stopping>>

Store ==
  /\ pc = "store"
  /\ count' = [count EXCEPT ![kind] = loaded + 1]
  /\ since' = [since EXCEPT ![kind] = @ + 1]
  /\ lock' = "free"
  /\ pc' = after
  /\ UNCHANGED <<kind, after, loaded, snapshot, motion, link, stopping>>
-------------------------------------------------------------------------------
(* Both loops test _stop_event; stop() may come during what follows. *)
GoesOn ==
  /\ pc \in {"connect", "read"}
  /\ ~stopping
  /\ pc' = IF pc = "connect" THEN "opening" ELSE "grabbing"
  /\ UNCHANGED <<counting, snapshot, motion, link, stopping>>

Ends ==
  /\ pc \in {"connect", "read"}
  /\ stopping
  /\ pc' = "ended"
  /\ UNCHANGED <<counting, snapshot, motion, link, stopping>>

(* The reference of the motion detection when a stream has been opened. *)
ReferenceKept == prev

Reference == FALSE

Opens ==
  /\ pc = "opening"
  /\ pc' = "read"
  /\ connected' = TRUE
  /\ backoff' = 0
  /\ prev' = Reference
  /\ warmup' = Warmup
  /\ shown' = 0
  /\ UNCHANGED <<counting, snapshot, quiet, stopping>>

Uncapped(b) == IF b = 0 THEN 1 ELSE 2 * b

(* min(max(backoff * 2, 1), 30) *)
Doubled(b) == IF Uncapped(b) < BackoffMax THEN Uncapped(b) ELSE BackoffMax

(* Where the thread goes on after counting an error. *)
ThreadDies == "ended"

AfterError == "wait"

(* The stream does not open or is lost, or an image operation raises. *)
Breaks ==
  /\ pc \in {"opening", "grabbing", "motion"}
  /\ connected' = FALSE
  /\ backoff' = Doubled(backoff)
  /\ Counting("fail", AfterError)
  /\ UNCHANGED <<snapshot, motion, stopping>>

(* The delay is over, or stop() ends it. *)
WaitOver ==
  /\ pc = "wait"
  /\ pc' = "connect"
  /\ UNCHANGED <<counting, snapshot, motion, link, stopping>>

(* A frame that cannot be decoded or encoded is counted and skipped. *)
Unreadable ==
  /\ pc = "grabbing"
  /\ Counting("fail", "read")
  /\ UNCHANGED <<snapshot, motion, link, stopping>>

(* A frame goes to the buffer and is counted. *)
Frame ==
  /\ pc = "grabbing"
  /\ Counting("ok", "motion")
  /\ shown' = IF shown < Warmup + 2 THEN shown + 1 ELSE shown
  /\ UNCHANGED <<snapshot, warmup, prev, quiet, link, stopping>>

(* No motion detection while the stream settles. *)
WarmsUp ==
  /\ pc = "motion"
  /\ warmup > 0
  /\ warmup' = warmup - 1
  /\ pc' = "read"
  /\ UNCHANGED <<counting, snapshot, prev, quiet, shown, link, stopping>>

(* The frame differs from the reference, too soon or not, or it does not; in *)
(* any case it is the next reference.  Whether the event finds room in the   *)
(* queue makes no difference here.                                           *)
Compares ==
  /\ pc = "motion"
  /\ warmup = 0
  /\ prev' = TRUE
  /\ \/ /\ prev
        /\ ~quiet
        /\ quiet' = TRUE
        /\ Counting("motion", "read")
     \/ /\ pc' = "read"
        /\ quiet' = quiet
        /\ UNCHANGED counting
  /\ UNCHANGED <<snapshot, warmup, shown, link, stopping>>

-------------------------------------------------------------------------------
PauseOver ==
  /\ quiet
  /\ quiet' = FALSE
  /\ UNCHANGED <<pc, counting, snapshot, warmup, prev, shown, link, stopping>>

(* stop(), from the asyncio thread. *)
Stop ==
  /\ ~stopping
  /\ stopping' = TRUE
  /\ UNCHANGED <<pc, counting, snapshot, motion, link>>

(* snapshot_metrics(): read the counters, then reset them, under the lock;   *)
(* the metrics loop logs what it read.                                       *)
ReadCounters ==
  /\ LockFree
  /\ lock' = "metrics"
  /\ snapshot' = count
  /\ UNCHANGED <<pc, kind, after, loaded, count, since, motion, link, stopping>>

ResetCounters ==
  /\ lock = "metrics"
  /\ lock' = "free"
  /\ count' = [k \in Kind |-> 0]
  /\ since' = [k \in Kind |-> 0]
  /\ UNCHANGED <<pc, kind, after, loaded, snapshot, motion, link, stopping>>
-------------------------------------------------------------------------------
Reader ==
  \/ Load \/ Store
  \/ GoesOn \/ Ends
  \/ Opens \/ Breaks \/ WaitOver
  \/ Unreadable \/ Frame \/ WarmsUp \/ Compares

Snapshot == ReadCounters \/ ResetCounters

Next == Reader \/ PauseOver \/ Stop \/ Snapshot

(* The thread goes on: opening and reading time out.  The metrics loop comes *)
(* back, and the lock is fair enough to let the thread in.  A camera that is *)
(* tried again and again opens, and shows a frame, at last.                  *)
Fairness ==
  /\ WF_vars(Reader) /\ SF_vars(Load)
  /\ WF_vars(ReadCounters) /\ WF_vars(ResetCounters)
  /\ SF_vars(Opens) /\ SF_vars(Frame)

Spec == Init /\ [][Next]_vars
FairSpec == Spec /\ Fairness
-------------------------------------------------------------------------------
(* The types and bounds; the lock is held exactly during an increment or a   *)
(* snapshot.                                                                 *)
TypeOK ==
  /\ pc \in {"connect", "opening", "read", "grabbing", "motion", "count", "store",
             "wait", "ended"}
  /\ kind \in Kind /\ after \in {"read", "motion", "wait"}
  /\ loaded \in Nat
  /\ lock \in {"free", "reader", "metrics"}
  /\ lock = "reader" <=> pc = "store"
  /\ count \in [Kind -> 0 .. MaxCount] /\ snapshot \in [Kind -> 0 .. MaxCount]
  /\ warmup \in 0 .. Warmup
  /\ prev \in BOOLEAN /\ quiet \in BOOLEAN
  /\ connected \in BOOLEAN /\ stopping \in BOOLEAN
  /\ backoff \in 0 .. BackoffMax
  /\ since \in [Kind -> Nat]
  /\ shown \in 0 .. Warmup + 2

(* Every frame, failure and motion event is in exactly one snapshot: what    *)
(* the metrics loop reads is what happened since it last did, wherever the   *)
(* thread is in an increment.                                                *)
CountsExact == (IF lock = "metrics" THEN snapshot ELSE count) = since

(* A motion event compares two frames of the stream that is open now, both   *)
(* past its warm-up frames: losing and reopening a stream never looks like   *)
(* motion.                                                                   *)
MotionWarm == pc \in {"count", "store"} /\ kind = "motion" => shown = Warmup + 2

(* The thread survives every error: frames keep coming from a camera that    *)
(* can be reached now and then, until stop(), and then it ends.              *)
ReadsUntilStopped ==
  /\ []<>(stopping \/ pc = "motion")
  /\ stopping ~> pc = "ended"

===============================================================================
