---------------------------- MODULE RtspReaderProofs ----------------------------
(* The safety properties of RtspReader, for every length of the warm-up and  *)
(* every bound.                                                              *)
EXTENDS RtspReader, TLAPS

(* The thread is at p, or will be once it has counted something. *)
At(p) == pc = p \/ (pc \in {"count", "store"} /\ after = p)

(* Whoever holds the lock has read what the counters still hold. *)
LoadedIsCount == pc = "store" => loaded = count[kind] /\ count[kind] < MaxCount
SnapshotIsCount == lock = "metrics" => snapshot = count

(* How many frames of the stream have been seen, told from what the thread   *)
(* remembers: the frames it skipped, and that it has a reference.            *)
BeforeFrame ==
  At("read") \/ pc = "grabbing" =>
    IF prev THEN shown >= Warmup + 1 ELSE shown + warmup = Warmup

AfterFrame ==
  At("motion") => IF prev THEN shown = Warmup + 2 ELSE shown + warmup = Warmup + 1

IInv ==
  /\ TypeOK /\ CountsExact /\ MotionWarm
  /\ LoadedIsCount /\ SnapshotIsCount
  /\ BeforeFrame /\ AfterFrame

(* The delay never exceeds its bound. *)
LEMMA DoubledBounded ==
  ASSUME NEW b \in 0 .. BackoffMax
  PROVE  Doubled(b) \in 0 .. BackoffMax
  BY ReaderAssumption DEF Doubled, Uncapped

-------------------------------------------------------------------------------
LEMMA InitIInv == Init => IInv
<1> SUFFICES ASSUME Init PROVE IInv
  OBVIOUS
<1>1. /\ prev \in BOOLEAN /\ quiet \in BOOLEAN
      /\ connected \in BOOLEAN /\ stopping \in BOOLEAN
  BY DEF Init
<1>2. TypeOK
  BY <1>1, ReaderAssumption DEF Init, TypeOK, Kind
<1>3. CountsExact /\ SnapshotIsCount
  BY DEF Init, CountsExact, SnapshotIsCount
<1>4. MotionWarm /\ LoadedIsCount /\ BeforeFrame /\ AfterFrame
  BY DEF Init, MotionWarm, LoadedIsCount, BeforeFrame, AfterFrame, At
<1> QED
  BY <1>2, <1>3, <1>4 DEF IInv

(* Type correctness is inductive by itself once an increment starts below    *)
(* the bound.                                                                *)
LEMMA TypeStep == IInv /\ [Next]_vars => TypeOK'
<1> SUFFICES ASSUME IInv, [Next]_vars PROVE TypeOK'
  OBVIOUS
<1> USE ReaderAssumption DEF IInv, TypeOK, Kind
<1>1. CASE Load
  BY <1>1 DEF Load, LockFree, motion, link
<1>2. CASE Store
  BY <1>2 DEF Store, motion, link, LoadedIsCount
<1>3. CASE Opens
  <2>1. prev' \in BOOLEAN /\ connected' \in BOOLEAN
    BY <1>3 DEF Opens, Reference
  <2> QED
    BY <1>3, <2>1 DEF Opens, counting
<1>4. CASE Breaks
  BY <1>4, DoubledBounded DEF Breaks, Counting, AfterError, motion
<1>5. CASE GoesOn \/ WaitOver \/ Ends
  BY <1>5 DEF GoesOn, WaitOver, Ends, counting, motion, link
<1>6. CASE Unreadable
  BY <1>6 DEF Unreadable, Counting, motion, link
<1>7. CASE Frame
  BY <1>7 DEF Frame, Counting, link
<1>8. CASE WarmsUp
  BY <1>8 DEF WarmsUp, counting, link
<1>9. CASE Compares
  BY <1>9 DEF Compares, Counting, counting, link
<1>10. CASE PauseOver \/ Stop
  <2>1. quiet' \in BOOLEAN /\ stopping' \in BOOLEAN
    BY <1>10 DEF PauseOver, Stop, motion
  <2> QED
    BY <1>10, <2>1 DEF PauseOver, Stop, counting, motion, link
<1>11. CASE ReadCounters
  BY <1>11 DEF ReadCounters, LockFree, motion, link
<1>12. CASE ResetCounters
  BY <1>12 DEF ResetCounters, motion, link
<1>13. CASE UNCHANGED vars
  BY <1>13 DEF vars, counting, motion, link
<1> QED
  BY <1>1, <1>2, <1>3, <1>4, <1>5, <1>6, <1>7, <1>8, <1>9, <1>10, <1>11, <1>12, <1>13
     DEF Next, Reader, Snapshot

(* The counters and the true numbers move together: the lock keeps a         *)
(* snapshot out of an increment and an increment out of a snapshot.          *)
LEMMA CountStep ==
  IInv /\ [Next]_vars => CountsExact' /\ LoadedIsCount' /\ SnapshotIsCount'
<1> SUFFICES ASSUME IInv, [Next]_vars
             PROVE  CountsExact' /\ LoadedIsCount' /\ SnapshotIsCount'
  OBVIOUS
<1> USE ReaderAssumption DEF IInv, CountsExact, LoadedIsCount, SnapshotIsCount
<1>1. CASE Load
  BY <1>1 DEF Load, LockFree, TypeOK
<1>2. CASE Store
  <2>1. lock = "reader" /\ count = since /\ loaded = count[kind]
    BY <1>2 DEF Store, TypeOK
  <2>2. count' = since'
    BY <1>2, <2>1 DEF Store, TypeOK
  <2> QED
    BY <1>2, <2>1, <2>2 DEF Store, TypeOK
<1>3. CASE ReadCounters
  BY <1>3 DEF ReadCounters, LockFree, TypeOK
<1>4. CASE ResetCounters
  BY <1>4 DEF ResetCounters, TypeOK
<1>5. CASE Opens \/ GoesOn \/ WaitOver \/ Ends \/ WarmsUp
  BY <1>5 DEF Opens, GoesOn, WaitOver, Ends, WarmsUp, counting
<1>6. CASE Breaks \/ Unreadable \/ Frame
  BY <1>6 DEF Breaks, Unreadable, Frame, Counting
<1>7. CASE Compares
  BY <1>7 DEF Compares, Counting, counting
<1>8. CASE PauseOver \/ Stop \/ UNCHANGED vars
  BY <1>8 DEF PauseOver, Stop, vars, counting
<1> QED
  BY <1>1, <1>2, <1>3, <1>4, <1>5, <1>6, <1>7, <1>8 DEF Next, Reader, Snapshot

(* The frames of a stream are skipped, then one becomes the reference, and   *)
(* only then two are compared; opening a stream starts over.                 *)
LEMMA StreamStep ==
  IInv /\ [Next]_vars => MotionWarm' /\ BeforeFrame' /\ AfterFrame'
<1> SUFFICES ASSUME IInv, [Next]_vars
             PROVE  MotionWarm' /\ BeforeFrame' /\ AfterFrame'
  OBVIOUS
<1> USE ReaderAssumption DEF IInv, TypeOK, MotionWarm, BeforeFrame, AfterFrame, At
<1>1. CASE Load
  BY <1>1 DEF Load, motion
<1>2. CASE Store
  BY <1>2 DEF Store, motion
<1>3. CASE Opens
  BY <1>3 DEF Opens, Reference, counting
<1>4. CASE Breaks
  BY <1>4 DEF Breaks, Counting, AfterError, motion
<1>5. CASE GoesOn \/ WaitOver \/ Ends
  BY <1>5 DEF GoesOn, WaitOver, Ends, counting, motion
<1>6. CASE Unreadable
  BY <1>6 DEF Unreadable, Counting, motion
<1>7. CASE Frame
  BY <1>7 DEF Frame, Counting
<1>8. CASE WarmsUp
  BY <1>8 DEF WarmsUp, counting
<1>9. CASE Compares
  BY <1>9 DEF Compares, Counting, counting
<1>10. CASE PauseOver \/ Stop
  BY <1>10 DEF PauseOver, Stop, counting, motion
<1>11. CASE Snapshot
  BY <1>11 DEF Snapshot, ReadCounters, ResetCounters, motion
<1>12. CASE UNCHANGED vars
  BY <1>12 DEF vars, counting, motion
<1> QED
  BY <1>1, <1>2, <1>3, <1>4, <1>5, <1>6, <1>7, <1>8, <1>9, <1>10, <1>11, <1>12
     DEF Next, Reader

THEOREM Inductive == Spec => []IInv
<1>1. IInv /\ [Next]_vars => IInv'
  BY TypeStep, CountStep, StreamStep DEF IInv
<1> QED
  BY InitIInv, <1>1, PTL DEF Spec
-------------------------------------------------------------------------------
(* The state of the reader is well typed, its delay and warm-up stay within  *)
(* their bounds, and the lock is held exactly during an increment or a       *)
(* snapshot.                                                                 *)
THEOREM TypeCorrect == Spec => []TypeOK
<1>1. IInv => TypeOK
  BY DEF IInv
<1> QED
  BY Inductive, <1>1, PTL

(* snapshot_metrics() reports every frame, failure and motion event exactly  *)
(* once.                                                                     *)
THEOREM CountedOnce == Spec => []CountsExact
<1>1. IInv => CountsExact
  BY DEF IInv
<1> QED
  BY Inductive, <1>1, PTL

(* Motion is only ever seen between two frames of the same stream that are   *)
(* past its warm-up.                                                         *)
THEOREM MotionWithinStream == Spec => []MotionWarm
<1>1. IInv => MotionWarm
  BY DEF IInv
<1> QED
  BY Inductive, <1>1, PTL

===============================================================================
