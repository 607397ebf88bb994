----------------------- MODULE InferenceSchedulerProofs -----------------------
(***************************************************************************)
(* TLAPS proofs about InferenceScheduler, for any set of cameras and       *)
(* requests.  IInv is the inductive invariant: besides the properties the  *)
(* runs check it says that the motion lane never holds an answered entry,  *)
(* that no request is queued twice or while it runs, and that at most one  *)
(* scan is outstanding.                                                    *)
(***************************************************************************)
EXTENDS InferenceScheduler, SequenceTheorems, TLAPS

MotionLaneLive ==
  \A i \in DOMAIN queue["motion"] : future[queue["motion"][i]] = "pending"

NoDuplicates ==
  \A p \in Priority : \A i, j \in DOMAIN queue[p] :
    queue[p][i] = queue[p][j] => i = j

RunningNotQueued == running # NoReq => ~Queued(running)

OneScan ==
  \A a, b \in BaselineReq : future[a] = "pending" /\ future[b] = "pending" => a = b

IInv ==
  /\ TypeOK
  /\ NoLostRequest
  /\ RegistryExact
  /\ RunningUnanswered
  /\ MotionLaneLive
  /\ NoDuplicates
  /\ RunningNotQueued
  /\ OneScan
-------------------------------------------------------------------------------
(* What is left of a lane once its i-th entry has been taken. *)
LEMMA AfterProps ==
  ASSUME NEW S, NEW lane \in Seq(S), NEW i \in DOMAIN lane
  PROVE  /\ After(lane, i) \in Seq(S)
         /\ Len(After(lane, i)) = Len(lane) - i
         /\ \A j \in DOMAIN After(lane, i) : /\ i + j \in DOMAIN lane
                                            /\ After(lane, i)[j] = lane[i + j]
         /\ \A k \in DOMAIN lane : k > i => /\ k - i \in DOMAIN After(lane, i)
                                           /\ After(lane, i)[k - i] = lane[k]
<1>1. /\ Len(lane) \in Nat
      /\ DOMAIN lane = 1..Len(lane)
      /\ \A k \in (i + 1)..Len(lane) : lane[k] \in S
  OBVIOUS
<1>2. /\ After(lane, i) \in Seq(S)
      /\ Len(After(lane, i)) = IF i + 1 <= Len(lane) THEN Len(lane) - (i + 1) + 1 ELSE 0
      /\ \A j \in 1..(Len(lane) - (i + 1) + 1) : After(lane, i)[j] = lane[(i + 1) + j - 1]
  <2> i + 1 \in Int /\ Len(lane) \in Int
    BY <1>1
  <2> QED
    BY <1>1, SubSeqProperties DEF After
<1>3. Len(After(lane, i)) = Len(lane) - i
  <2> DEFINE n == Len(lane)
             a == After(lane, i)
  <2>1. n \in Nat /\ i \in 1..n /\ Len(a) = IF i + 1 <= n THEN n - (i + 1) + 1 ELSE 0
    BY <1>1, <1>2
  <2> HIDE DEF n, a
  <2>2. Len(a) = n - i
    BY <2>1
  <2> QED
    BY <2>2 DEF n, a
<1>4. DOMAIN After(lane, i) = 1..(Len(lane) - i)
  BY <1>2, <1>3
<1>5. ASSUME NEW j \in 1..(Len(lane) - i)
      PROVE  After(lane, i)[j] = lane[i + j]
  <2>1. j \in 1..(Len(lane) - (i + 1) + 1) /\ (i + 1) + j - 1 = i + j
    BY <1>1
  <2> QED
    BY <2>1, <1>2
<1>6. \A j \in DOMAIN After(lane, i) : /\ i + j \in DOMAIN lane
                                     /\ After(lane, i)[j] = lane[i + j]
  BY <1>1, <1>4, <1>5
<1>7. ASSUME NEW k \in DOMAIN lane, k > i
      PROVE  k - i \in DOMAIN After(lane, i) /\ After(lane, i)[k - i] = lane[k]
  <2>1. k - i \in 1..(Len(lane) - i) /\ i + (k - i) = k
    BY <1>1, <1>7
  <2> QED
    BY <2>1, <1>4, <1>5
<1> QED
  BY <1>2, <1>3, <1>6, <1>7

(* Submitting a request appends it to the lane of its priority only. *)
LEMMA EnqueueProps ==
  ASSUME TypeOK, NEW p \in Priority, NEW r \in Req
  PROVE  /\ Enqueue(p, r) \in [Priority -> Seq(Req)]
         /\ \A q \in Priority : q # p => Enqueue(p, r)[q] = queue[q]
         /\ DOMAIN Enqueue(p, r)[p] = 1..(Len(queue[p]) + 1)
         /\ DOMAIN queue[p] = 1..Len(queue[p])
         /\ Len(queue[p]) \in Nat
         /\ \A i \in 1..Len(queue[p]) : Enqueue(p, r)[p][i] = queue[p][i]
         /\ Enqueue(p, r)[p][Len(queue[p]) + 1] = r
<1>1. queue \in [Priority -> Seq(Req)] /\ queue[p] \in Seq(Req)
  BY DEF TypeOK
<1>2. Enqueue(p, r)[p] = Append(queue[p], r)
  BY <1>1 DEF Enqueue
<1>3. /\ Append(queue[p], r) \in Seq(Req)
      /\ Len(Append(queue[p], r)) = Len(queue[p]) + 1
      /\ \A i \in 1..Len(queue[p]) : Append(queue[p], r)[i] = queue[p][i]
      /\ Append(queue[p], r)[Len(queue[p]) + 1] = r
  BY <1>1, AppendProperties
<1>4. /\ Enqueue(p, r) \in [Priority -> Seq(Req)]
      /\ \A q \in Priority : q # p => Enqueue(p, r)[q] = queue[q]
  BY <1>1, <1>3 DEF Enqueue
<1> QED
  BY <1>1, <1>2, <1>3, <1>4

(* Opening TypeOK once: the shape of the two lanes. *)
LEMMA LaneShape ==
  ASSUME TypeOK
  PROVE  \A p \in Priority : /\ Len(queue[p]) \in Nat
                            /\ DOMAIN queue[p] = 1..Len(queue[p])
                            /\ \A i \in DOMAIN queue[p] : queue[p][i] \in Req
  BY DEF TypeOK
-------------------------------------------------------------------------------
LEMMA InitIInv == Init => IInv
<1> SUFFICES ASSUME Init PROVE IInv
  OBVIOUS
<1> USE DEF Init
<1>1. TypeOK
  BY RequestsDisjoint DEF TypeOK, Priority, Req, FutureState
<1>2. \A p \in Priority : DOMAIN queue[p] = {}
  OBVIOUS
<1>3. NoLostRequest /\ RegistryExact /\ RunningUnanswered /\ OneScan
  BY <1>2, RequestsDisjoint DEF NoLostRequest, RegistryExact, RunningUnanswered, OneScan, Req, Priority
<1>4. MotionLaneLive /\ NoDuplicates /\ RunningNotQueued
  BY <1>2 DEF MotionLaneLive, NoDuplicates, RunningNotQueued, Priority
<1> QED
  BY <1>1, <1>3, <1>4 DEF IInv

(* A motion request is queued behind the others; the scan it dismisses is    *)
(* the registered one, which by RegistryExact is the camera's only live scan. *)
LEMMA SubmitMotionStep ==
  ASSUME IInv, NEW r \in MotionReq, NEW c \in Camera, SubmitMotion(r, c)
  PROVE  IInv'
<1> USE DEF IInv
<1>t. /\ TypeOK /\ r \in Req /\ r \notin BaselineReq /\ r # NoReq
      /\ "motion" \in Priority /\ "baseline" \in Priority
      /\ BaselineReq \subseteq Req /\ MotionReq \subseteq Req
  BY RequestsDisjoint DEF Req, Priority
<1> DEFINE n == Len(queue["motion"])
<1>q. /\ queue' \in [Priority -> Seq(Req)]
      /\ queue'["baseline"] = queue["baseline"]
      /\ n \in Nat
      /\ DOMAIN queue["motion"] = 1..n
      /\ DOMAIN queue'["motion"] = 1..(n + 1)
      /\ \A i \in 1..n : queue'["motion"][i] = queue["motion"][i]
      /\ queue'["motion"][n + 1] = r
  BY <1>t, EnqueueProps DEF SubmitMotion
<1>f. /\ future' \in [Req -> FutureState]
      /\ future'[r] = "pending"
      /\ \A q \in Req : q # r =>
           future'[q] = IF q = pending[c] /\ future[q] = "pending"
                          THEN "preempted" ELSE future[q]
      /\ future[r] # "pending"
  BY <1>t DEF SubmitMotion, TypeOK, FutureState, Dismissed
<1>c. /\ cam' \in [Req -> Camera \cup {NoReq}]
      /\ \A b \in BaselineReq : cam'[b] = cam[b]
      /\ pending' \in [Camera -> BaselineReq \cup {NoReq}]
      /\ pending'[c] = NoReq
      /\ \A d \in Camera : d # c => pending'[d] = pending[d]
      /\ running' = running /\ up' = up
  BY <1>t DEF SubmitMotion, TypeOK
<1> HIDE DEF n
(* Only the dismissed scan stops waiting, and it is queued, not running. *)
<1>v. \A q \in Req : future[q] = "pending" /\ future'[q] # "pending"
        => q = pending[c] /\ q \in BaselineReq /\ q # running
  <2> SUFFICES ASSUME NEW q \in Req, future[q] = "pending", future'[q] # "pending"
               PROVE  q = pending[c] /\ q \in BaselineReq /\ q # running
    OBVIOUS
  <2>1. q = pending[c]
    BY <1>f
  <2>2. q \in BaselineReq
    BY <2>1, RequestsDisjoint DEF TypeOK, Req
  <2>3. \E i \in DOMAIN queue["baseline"] : queue["baseline"][i] = q
    BY <2>1, <2>2 DEF RegistryExact
  <2>4. q # NoReq /\ Queued(q)
    BY <2>2, <2>3, RequestsDisjoint DEF Queued, Priority
  <2> QED
    BY <2>1, <2>2, <2>4 DEF RunningNotQueued
<1>m. \A i \in DOMAIN queue["motion"] : queue["motion"][i] \in MotionReq
  BY <1>t DEF TypeOK
<1>1. TypeOK'
  <2>1. queue'["motion"] \in Seq(MotionReq)
    BY <1>t, AppendProperties DEF SubmitMotion, Enqueue, TypeOK
  <2> QED
    BY <2>1, <1>q, <1>f, <1>c DEF TypeOK
<1>2. NoLostRequest'
  <2> SUFFICES ASSUME up, NEW x \in Req, future'[x] = "pending"
               PROVE  Queued(x)' \/ running' = x
    BY <1>c DEF NoLostRequest
  <2>1. CASE x = r
    <3>1. n + 1 \in 1..(n + 1)
      BY <1>q
    <3> QED
      BY <2>1, <3>1, <1>q, <1>t DEF Queued
  <2>2. CASE x # r
    <3>1. future[x] = "pending"
      BY <2>2, <1>f
    <3>2. CASE running = x
      BY <3>2, <1>c
    <3>3. CASE Queued(x)
      <4>1. \A i \in 1..n : i \in 1..(n + 1)
        BY <1>q
      <4> QED
        BY <3>3, <4>1, <1>q DEF Queued, Priority
    <3> QED
      BY <3>1, <3>2, <3>3 DEF NoLostRequest
  <2> QED
    BY <2>1, <2>2
<1>3. RegistryExact'
  <2> SUFFICES ASSUME NEW d \in Camera, NEW b \in BaselineReq
               PROVE  pending'[d] = b <=>
                        /\ future'[b] = "pending"
                        /\ \E i \in DOMAIN queue'["baseline"] : queue'["baseline"][i] = b
                        /\ cam'[b] = d
    BY DEF RegistryExact
  <2>1. b \in Req /\ b # r /\ b # NoReq
    BY <1>t, RequestsDisjoint
  <2>2. CASE d = c
    BY <2>1, <2>2, <1>f, <1>c, <1>q DEF RegistryExact
  <2>3. CASE d # c
    BY <2>1, <2>3, <1>f, <1>c, <1>q DEF RegistryExact
  <2> QED
    BY <2>2, <2>3
<1>4. RunningUnanswered'
  BY <1>c, <1>v, <1>t DEF RunningUnanswered, TypeOK
<1>5. MotionLaneLive'
  <2> SUFFICES ASSUME NEW i \in 1..(n + 1)
               PROVE  future'[queue'["motion"][i]] = "pending"
    BY <1>q DEF MotionLaneLive
  <2>1. CASE i = n + 1
    BY <2>1, <1>q, <1>f
  <2>2. CASE i \in 1..n
    <3>1. queue["motion"][i] \in MotionReq /\ future[queue["motion"][i]] = "pending"
      BY <2>2, <1>q, <1>m DEF MotionLaneLive
    <3> QED
      BY <3>1, <2>2, <1>q, <1>v, <1>t, RequestsDisjoint
  <2> QED
    BY <2>1, <2>2, <1>q
<1>6. NoDuplicates'
  <2>1. \A i \in 1..n : queue["motion"][i] # r
    BY <1>q, <1>f DEF MotionLaneLive
  <2>2. \A i, j \in 1..n : queue["motion"][i] = queue["motion"][j] => i = j
    BY <1>q, <1>t DEF NoDuplicates
  <2>3. ASSUME NEW i \in 1..(n + 1), NEW j \in 1..(n + 1),
               queue'["motion"][i] = queue'["motion"][j]
        PROVE  i = j
    <3>1. (i \in 1..n \/ i = n + 1) /\ (j \in 1..n \/ j = n + 1)
      BY <1>q
    <3> QED
      BY <3>1, <2>1, <2>2, <2>3, <1>q
  <2>4. \A i, j \in DOMAIN queue'["baseline"] :
          queue'["baseline"][i] = queue'["baseline"][j] => i = j
    BY <1>q, <1>t DEF NoDuplicates
  <2> QED
    BY <2>3, <2>4, <1>q DEF NoDuplicates, Priority
<1>7. RunningNotQueued'
  <2> SUFFICES ASSUME running # NoReq, Queued(running)' PROVE FALSE
    BY <1>c DEF RunningNotQueued, Queued
  <2>1. running # r
    BY <1>f, <1>c DEF RunningUnanswered
  <2>2. \A i \in 1..(n + 1) : i \in 1..n \/ i = n + 1
    BY <1>q
  <2> QED
    BY <2>1, <2>2, <1>q, <1>c DEF RunningNotQueued, Queued, Priority
<1>8. OneScan'
  <2>1. \A b \in BaselineReq : future'[b] = "pending" => future[b] = "pending"
    BY <1>f, <1>t
  <2> QED
    BY <2>1 DEF OneScan
<1> QED
  BY <1>1, <1>2, <1>3, <1>4, <1>5, <1>6, <1>7, <1>8

(* A scan is submitted when no other scan is outstanding, so every registry  *)
(* entry is empty before and only camera c's is set after.                   *)
LEMMA SubmitBaselineStep ==
  ASSUME IInv, NEW r \in BaselineReq, NEW c \in Camera, SubmitBaseline(r, c)
  PROVE  IInv'
<1> USE DEF IInv
<1>t. /\ TypeOK /\ r \in Req /\ r \notin MotionReq /\ r # NoReq
      /\ "motion" \in Priority /\ "baseline" \in Priority
      /\ BaselineReq \subseteq Req /\ MotionReq \subseteq Req
  BY RequestsDisjoint DEF Req, Priority
<1> DEFINE n == Len(queue["baseline"])
<1>q. /\ queue' \in [Priority -> Seq(Req)]
      /\ queue'["motion"] = queue["motion"]
      /\ n \in Nat
      /\ DOMAIN queue["baseline"] = 1..n
      /\ DOMAIN queue'["baseline"] = 1..(n + 1)
      /\ \A i \in 1..n : queue'["baseline"][i] = queue["baseline"][i]
      /\ queue'["baseline"][n + 1] = r
  <2>1. queue' = Enqueue("baseline", r)
    BY DEF SubmitBaseline
  <2>2. "motion" # "baseline"
    OBVIOUS
  <2> QED
    BY <2>1, <2>2, <1>t, EnqueueProps
<1>f. /\ future' \in [Req -> FutureState]
      /\ future'[r] = "pending"
      /\ \A q \in Req : q # r => future'[q] = future[q]
      /\ \A b \in BaselineReq : future[b] # "pending"
  BY <1>t DEF SubmitBaseline, TypeOK, FutureState
<1>c. /\ cam' \in [Req -> Camera \cup {NoReq}]
      /\ \A q \in Req : q # r => cam'[q] = cam[q]
      /\ cam'[r] = c
      /\ pending' \in [Camera -> BaselineReq \cup {NoReq}]
      /\ pending'[c] = r
      /\ \A d \in Camera : d # c => pending'[d] = pending[d]
      /\ running' = running /\ up' = up /\ ~Queued(r)
  BY <1>t DEF SubmitBaseline, TypeOK
<1> HIDE DEF n
<1>a. /\ n + 1 \in 1..(n + 1)
      /\ \A i \in 1..n : i \in 1..(n + 1)
      /\ \A i \in 1..(n + 1) : i \in 1..n \/ i = n + 1
  BY <1>q
<1>r. running # r
  BY <1>t, <1>f DEF RunningUnanswered
<1>p. \A d \in Camera, b \in BaselineReq : pending[d] # b
  BY <1>f DEF RegistryExact
<1>1. TypeOK'
  <2>1. queue'["baseline"] \in Seq(BaselineReq)
    BY <1>t, AppendProperties DEF SubmitBaseline, Enqueue, TypeOK
  <2> QED
    BY <2>1, <1>q, <1>f, <1>c DEF TypeOK
<1>2. NoLostRequest'
  <2> SUFFICES ASSUME up, NEW x \in Req, future'[x] = "pending"
               PROVE  Queued(x)' \/ running' = x
    BY <1>c DEF NoLostRequest
  <2>1. CASE x = r
    BY <2>1, <1>q, <1>a, <1>t DEF Queued
  <2>2. CASE x # r
    <3>1. Queued(x) \/ running = x
      BY <2>2, <1>f DEF NoLostRequest
    <3>2. CASE Queued(x)
      BY <3>2, <1>q, <1>a DEF Queued, Priority
    <3> QED
      BY <3>1, <3>2, <1>c
  <2> QED
    BY <2>1, <2>2
<1>3. RegistryExact'
  <2> SUFFICES ASSUME NEW d \in Camera, NEW b \in BaselineReq
               PROVE  pending'[d] = b <=>
                        /\ future'[b] = "pending"
                        /\ \E i \in DOMAIN queue'["baseline"] : queue'["baseline"][i] = b
                        /\ cam'[b] = d
    BY DEF RegistryExact
  <2>1. CASE b = r
    <3>1. \E i \in DOMAIN queue'["baseline"] : queue'["baseline"][i] = b
      BY <2>1, <1>q, <1>a
    <3>2. d # c => pending'[d] # b
      BY <1>p, <1>c
    <3> QED
      BY <2>1, <3>1, <3>2, <1>f, <1>c
  <2>2. CASE b # r
    <3>1. b \in Req /\ b # r
      BY <2>2, <1>t
    <3>2. future'[b] # "pending"
      BY <3>1, <1>f
    <3>3. pending'[d] # b
      BY <3>1, <1>p, <1>c
    <3> QED
      BY <3>2, <3>3
  <2> QED
    BY <2>1, <2>2
<1>4. RunningUnanswered'
  BY <1>c, <1>r, <1>f, <1>t DEF RunningUnanswered, TypeOK
<1>5. MotionLaneLive'
  <2>1. \A i \in DOMAIN queue["motion"] : queue["motion"][i] \in MotionReq
    BY <1>t DEF TypeOK
  <2> QED
    BY <2>1, <1>q, <1>f, <1>t DEF MotionLaneLive
<1>6. NoDuplicates'
  <2>1. \A i \in 1..n : queue["baseline"][i] # r
    BY <1>q, <1>c, <1>t DEF Queued
  <2>2. \A i, j \in 1..n : queue["baseline"][i] = queue["baseline"][j] => i = j
    BY <1>q, <1>t DEF NoDuplicates
  <2>3. \A i, j \in 1..(n + 1) :
          queue'["baseline"][i] = queue'["baseline"][j] => i = j
    BY <2>1, <2>2, <1>q, <1>a
  <2>4. \A i, j \in DOMAIN queue'["motion"] :
          queue'["motion"][i] = queue'["motion"][j] => i = j
    BY <1>q, <1>t DEF NoDuplicates
  <2> QED
    BY <2>3, <2>4, <1>q DEF NoDuplicates, Priority
<1>7. RunningNotQueued'
  BY <1>r, <1>q, <1>a, <1>c DEF RunningNotQueued, Queued, Priority
<1>8. OneScan'
  BY <1>f, <1>t DEF OneScan
<1> QED
  BY <1>1, <1>2, <1>3, <1>4, <1>5, <1>6, <1>7, <1>8

(* Cancelling the worker keeps every clause: what ran is no longer running.  *)
LEMMA StopStep == IInv /\ Stop => IInv'
<1> SUFFICES ASSUME IInv, Stop PROVE IInv'
  OBVIOUS
<1> USE DEF IInv, Stop
<1>1. TypeOK'
  BY DEF TypeOK
<1>2. NoLostRequest' /\ RegistryExact' /\ RunningUnanswered'
  BY DEF NoLostRequest, RegistryExact, RunningUnanswered
<1>3. MotionLaneLive' /\ NoDuplicates' /\ OneScan'
  BY DEF MotionLaneLive, NoDuplicates, OneScan
<1>4. RunningNotQueued'
  BY DEF RunningNotQueued
<1> QED
  BY <1>1, <1>2, <1>3, <1>4
-------------------------------------------------------------------------------
(* The futures as the worker sees them when it takes the next entry: all as  *)
(* before, except that what ran is answered.                                 *)
Settled(fut) ==
  /\ fut \in [Req -> FutureState]
  /\ \A q \in Req : fut[q] = "pending" <=> future[q] = "pending" /\ q # running

(* What the worker finds in the queue: the motion lane holds live entries    *)
(* only, so the next one is its head; the baseline lane holds at most one.   *)
LEMMA QueueFacts ==
  ASSUME IInv, NEW fut, Settled(fut)
  PROVE  /\ \A k \in DOMAIN queue["motion"] : fut[queue["motion"][k]] = "pending"
         /\ \A i \in FirstLive(queue["motion"], fut) : i = 1
         /\ LaneDrained("motion", fut) => DOMAIN queue["motion"] = {}
         /\ \A i, k \in DOMAIN queue["baseline"] :
              /\ fut[queue["baseline"][i]] = "pending"
              /\ fut[queue["baseline"][k]] = "pending"
              => i = k
         /\ LaneDrained("baseline", fut) =>
              \A k \in DOMAIN queue["baseline"] : fut[queue["baseline"][k]] # "pending"
<1> USE DEF IInv
<1>t. /\ "motion" \in Priority /\ "baseline" \in Priority
      /\ BaselineReq \subseteq Req /\ MotionReq \subseteq Req
      /\ \A k \in DOMAIN queue["motion"] : queue["motion"][k] \in MotionReq
      /\ \A k \in DOMAIN queue["baseline"] : queue["baseline"][k] \in BaselineReq
      /\ DOMAIN queue["motion"] = 1..Len(queue["motion"])
      /\ Len(queue["motion"]) \in Nat
      /\ DOMAIN queue["baseline"] = 1..Len(queue["baseline"])
      /\ Len(queue["baseline"]) \in Nat
  BY DEF Priority, Req, TypeOK
<1>1. ASSUME NEW k \in DOMAIN queue["motion"]
      PROVE  fut[queue["motion"][k]] = "pending"
  <2>1. queue["motion"][k] # running
    <3>1. queue["motion"][k] # NoReq
      BY <1>t, RequestsDisjoint
    <3> QED
      BY <3>1, <1>t DEF RunningNotQueued, Queued
  <2> QED
    BY <2>1, <1>t DEF MotionLaneLive, Settled
<1>2. ASSUME NEW i \in FirstLive(queue["motion"], fut)
      PROVE  i = 1
  <2>1. i \in 1..Len(queue["motion"])
    BY <1>t DEF FirstLive
  <2>2. i # 1 => 1 \in 1..(i - 1) /\ 1 \in 1..Len(queue["motion"])
    BY <2>1, <1>t
  <2>3. i # 1 => fut[queue["motion"][1]] # "pending"
    BY <2>2 DEF FirstLive
  <2> QED
    BY <2>2, <2>3, <1>1, <1>t
<1>3. ASSUME LaneDrained("motion", fut)
      PROVE  DOMAIN queue["motion"] = {}
  <2> SUFFICES ASSUME Len(queue["motion"]) # 0 PROVE FALSE
    BY <1>t
  <2>1. 1 \in DOMAIN queue["motion"] /\ 1..(1 - 1) = {}
    BY <1>t
  <2>2. 1 \in FirstLive(queue["motion"], fut)
    BY <2>1, <1>1 DEF FirstLive
  <2> QED
    BY <2>2, <1>3 DEF LaneDrained
<1>4. ASSUME NEW i \in DOMAIN queue["baseline"], NEW k \in DOMAIN queue["baseline"],
             fut[queue["baseline"][i]] = "pending",
             fut[queue["baseline"][k]] = "pending"
      PROVE  i = k
  <2>1. queue["baseline"][i] = queue["baseline"][k]
    BY <1>4, <1>t DEF Settled, OneScan
  <2> QED
    BY <2>1, <1>t DEF NoDuplicates
<1>5. ASSUME LaneDrained("baseline", fut), NEW k \in DOMAIN queue["baseline"]
      PROVE  fut[queue["baseline"][k]] # "pending"
  <2> SUFFICES ASSUME fut[queue["baseline"][k]] = "pending" PROVE FALSE
    OBVIOUS
  <2>1. \A j \in 1..(k - 1) : j \in DOMAIN queue["baseline"] /\ j # k
    BY <1>t
  <2>2. k \in FirstLive(queue["baseline"], fut)
    BY <2>1, <1>4 DEF FirstLive
  <2> QED
    BY <2>2, <1>5 DEF LaneDrained
<1> QED
  BY <1>1, <1>2, <1>3, <1>4, <1>5

(* Whatever the worker takes, the invariant survives. *)
LEMMA TakeStep ==
  ASSUME IInv, NEW fut, Settled(fut), TakeNext(fut),
         future' = fut, cam' = cam, up' = up
  PROVE  IInv'
<1> USE DEF IInv
<1> DEFINE mq == queue["motion"]
           bq == queue["baseline"]
<1>t. /\ "motion" \in Priority /\ "baseline" \in Priority
      /\ BaselineReq \subseteq Req /\ MotionReq \subseteq Req
      /\ mq \in Seq(MotionReq) /\ bq \in Seq(BaselineReq)
      /\ \A k \in DOMAIN mq : mq[k] \in MotionReq
      /\ \A k \in DOMAIN bq : bq[k] \in BaselineReq
      /\ DOMAIN mq = 1..Len(mq) /\ Len(mq) \in Nat
      /\ DOMAIN bq = 1..Len(bq) /\ Len(bq) \in Nat
  BY DEF Priority, Req, TypeOK
<1>d. /\ \A i, j \in DOMAIN mq : mq[i] = mq[j] => i = j
      /\ \A i, j \in DOMAIN bq : bq[i] = bq[j] => i = j
  BY <1>t DEF NoDuplicates
<1>f. /\ future' \in [Req -> FutureState]
      /\ \A q \in Req : future'[q] = "pending" <=> future[q] = "pending" /\ q # running
  BY DEF Settled
<1>o. OneScan'
  BY <1>f, <1>t DEF OneScan
<1>n. ASSUME up, NEW q \in Req, future'[q] = "pending"
      PROVE  \/ \E k \in DOMAIN mq : mq[k] = q
             \/ \E k \in DOMAIN bq : bq[k] = q
  BY <1>n, <1>f DEF NoLostRequest, Queued, Priority
<1>1. CASE TakeMotion(fut)
  <2>1. PICK i \in FirstLive(mq, fut) :
          /\ running' = mq[i]
          /\ queue' = [queue EXCEPT !["motion"] = After(@, i)]
          /\ pending' = pending
    BY <1>1 DEF TakeMotion
  <2>2. i = 1 /\ i \in DOMAIN mq
    BY <2>1, QueueFacts DEF FirstLive
  <2>3. /\ queue' \in [Priority -> Seq(Req)]
        /\ queue'["motion"] = After(mq, 1)
        /\ queue'["baseline"] = bq
        /\ After(mq, 1) \in Seq(MotionReq)
    <3>1. After(mq, 1) \in Seq(MotionReq)
      BY <2>2, <1>t, AfterProps
    <3>2. After(mq, 1) \in Seq(Req)
      BY <3>1, <1>t
    <3> QED
      BY <2>1, <2>2, <3>1, <3>2, <1>t DEF TypeOK
  <2>4. /\ \A j \in DOMAIN After(mq, 1) : 1 + j \in DOMAIN mq /\ After(mq, 1)[j] = mq[1 + j]
        /\ \A k \in DOMAIN mq : k > 1 => /\ k - 1 \in DOMAIN After(mq, 1)
                                         /\ After(mq, 1)[k - 1] = mq[k]
        /\ DOMAIN After(mq, 1) \subseteq Nat
    <3>1. 1 \in DOMAIN mq
      BY <2>2
    <3> HIDE DEF mq, bq
    <3>2. /\ \A j \in DOMAIN After(mq, 1) : 1 + j \in DOMAIN mq /\ After(mq, 1)[j] = mq[1 + j]
          /\ \A k \in DOMAIN mq : k > 1 => /\ k - 1 \in DOMAIN After(mq, 1)
                                           /\ After(mq, 1)[k - 1] = mq[k]
      BY <3>1, <1>t, AfterProps
    <3>3. DOMAIN After(mq, 1) = 1..Len(After(mq, 1))
      BY <2>3
    <3> QED
      BY <3>2, <3>3
  <2>5. running' = mq[1] /\ running' \in MotionReq /\ running' \in Req
    BY <2>1, <2>2, <1>t
  <2> HIDE DEF mq, bq
  <2>6. \A j \in DOMAIN After(mq, 1) : After(mq, 1)[j] # mq[1]
    <3> SUFFICES ASSUME NEW j \in DOMAIN After(mq, 1) PROVE 1 + j # 1
      BY <2>2, <2>4, <1>d
    <3>1. j # 0
      BY <2>3
    <3> QED
      BY <3>1, <2>4
  <2>7. \A j \in DOMAIN After(mq, 1), k \in DOMAIN After(mq, 1) :
          After(mq, 1)[j] = After(mq, 1)[k] => j = k
    <3> SUFFICES ASSUME NEW j \in DOMAIN After(mq, 1), NEW k \in DOMAIN After(mq, 1),
                        After(mq, 1)[j] = After(mq, 1)[k]
                 PROVE  j = k
      OBVIOUS
    <3>1. 1 + j = 1 + k
      BY <2>4, <1>d
    <3> QED
      BY <3>1, <2>4
  <2>a. TypeOK'
    BY <2>1, <2>3, <2>5, <1>f, <1>t DEF TypeOK, bq
  <2>b. NoLostRequest'
    <3> SUFFICES ASSUME up, NEW q \in Req, future'[q] = "pending", running' # q
                 PROVE  Queued(q)'
      BY DEF NoLostRequest
    <3>1. ASSUME NEW k \in DOMAIN mq, mq[k] = q
          PROVE  Queued(q)'
      <4>1. k > 1
        BY <3>1, <2>5, <1>t DEF mq
      <4> QED
        BY <4>1, <3>1, <2>3, <2>4, <1>t DEF Queued
    <3>2. ASSUME NEW k \in DOMAIN bq, bq[k] = q
          PROVE  Queued(q)'
      BY <3>2, <2>3, <1>t DEF Queued
    <3> QED
      BY <3>1, <3>2, <1>n
  <2>c. RegistryExact'
    <3>1. \A b \in BaselineReq : (\E k \in DOMAIN bq : bq[k] = b) =>
            (future'[b] = "pending" <=> future[b] = "pending")
      BY <1>f, <1>t, RequestsDisjoint DEF RunningNotQueued, Queued, bq
    <3> QED
      BY <3>1, <2>1, <2>3 DEF RegistryExact, bq
  <2>d. RunningUnanswered' /\ MotionLaneLive'
    <3>1. \A k \in DOMAIN mq : future'[mq[k]] = "pending"
      BY QueueFacts DEF mq
    <3> QED
      BY <3>1, <2>2, <2>3, <2>4, <2>5 DEF RunningUnanswered, MotionLaneLive
  <2>e. NoDuplicates'
    BY <2>3, <2>7, <1>d DEF NoDuplicates, Priority
  <2>f. RunningNotQueued'
    <3>1. \A k \in DOMAIN bq : bq[k] # running'
      BY <1>t, <2>5, RequestsDisjoint
    <3> QED
      BY <3>1, <2>3, <2>5, <2>6 DEF RunningNotQueued, Queued, Priority
  <2> QED
    BY <2>a, <2>b, <2>c, <2>d, <2>e, <2>f, <1>o
<1>2. CASE TakeBaseline(fut)
  <2>1. PICK i \in FirstLive(bq, fut) :
          /\ running' = bq[i]
          /\ queue' = [p \in Priority |-> IF p = "motion" THEN <<>> ELSE After(bq, i)]
          /\ pending' = Deregister(bq[i])
    BY <1>2 DEF TakeBaseline
  <2>2. i \in DOMAIN bq /\ fut[bq[i]] = "pending"
    BY <2>1 DEF FirstLive
  <2>3. DOMAIN mq = {}
    BY <1>2, QueueFacts DEF TakeBaseline
  <2>4. /\ After(bq, i) \in Seq(BaselineReq)
        /\ \A j \in DOMAIN After(bq, i) : /\ i + j \in DOMAIN bq
                                          /\ After(bq, i)[j] = bq[i + j]
        /\ \A k \in DOMAIN bq : k > i => /\ k - i \in DOMAIN After(bq, i)
                                         /\ After(bq, i)[k - i] = bq[k]
        /\ DOMAIN After(bq, i) = 1..Len(After(bq, i))
        /\ i \in Nat
    <3>1. i \in DOMAIN bq
      BY <2>2
    <3> HIDE DEF mq, bq
    <3>2. /\ After(bq, i) \in Seq(BaselineReq)
          /\ \A j \in DOMAIN After(bq, i) : /\ i + j \in DOMAIN bq
                                            /\ After(bq, i)[j] = bq[i + j]
          /\ \A k \in DOMAIN bq : k > i => /\ k - i \in DOMAIN After(bq, i)
                                           /\ After(bq, i)[k - i] = bq[k]
      BY <3>1, <1>t, AfterProps
    <3>3. DOMAIN After(bq, i) = 1..Len(After(bq, i))
      BY <3>2
    <3>4. i \in Nat
      BY <3>1, <1>t
    <3> QED
      BY <3>2, <3>3, <3>4
  <2>5. /\ queue' \in [Priority -> Seq(Req)]
        /\ queue'["motion"] = <<>>
        /\ DOMAIN queue'["motion"] = {}
        /\ queue'["baseline"] = After(bq, i)
    <3>1. After(bq, i) \in Seq(Req)
      BY <2>4, <1>t
    <3>2. queue' = [p \in Priority |-> IF p = "motion" THEN <<>> ELSE After(bq, i)]
      BY <2>1
    <3>3. "motion" # "baseline"
      OBVIOUS
    <3> HIDE DEF bq
    <3> QED
      BY <3>1, <3>2, <3>3, <1>t
  <2>6. running' = bq[i] /\ running' \in BaselineReq /\ running' \in Req
    BY <2>1, <2>2, <1>t
  <2>7. \A k \in DOMAIN bq : fut[bq[k]] = "pending" => k = i
    BY <2>2, QueueFacts
  <2>8. future'[bq[i]] = "pending" /\ future[bq[i]] = "pending"
    BY <2>2, <2>6, <1>f
  <2> HIDE DEF mq, bq
  <2>9. \A j \in DOMAIN After(bq, i) : i + j # i
    BY <2>4
  <2>10. \A j \in DOMAIN After(bq, i) : /\ After(bq, i)[j] # bq[i]
                                       /\ future'[After(bq, i)[j]] # "pending"
    BY <2>9, <2>4, <2>2, <2>7, <1>d
  <2>11. \A b \in BaselineReq : future'[b] = "pending" => b = bq[i]
    BY <2>8, <2>6, <1>o DEF OneScan
  <2>a. TypeOK'
    <3>1. /\ queue'["motion"] \in Seq(MotionReq)
          /\ queue'["baseline"] \in Seq(BaselineReq)
      BY <2>4, <2>5
    <3>2. pending' \in [Camera -> BaselineReq \cup {NoReq}]
      BY <2>1 DEF Deregister, TypeOK
    <3> QED
      BY <3>1, <3>2, <2>5, <2>6, <1>f DEF TypeOK
  <2>b. NoLostRequest'
    <3> SUFFICES ASSUME up, NEW q \in Req, future'[q] = "pending"
                 PROVE  running' = q
      BY DEF NoLostRequest
    <3>1. PICK k \in DOMAIN bq : bq[k] = q
      BY <1>n, <2>3 DEF mq
    <3> QED
      BY <3>1, <2>6, <2>7
  <2>c. RegistryExact'
    <3>1. ASSUME NEW c \in Camera, NEW b \in BaselineReq
          PROVE  pending'[c] # b
      <4>1. CASE c = cam[bq[i]]
        BY <4>1, <2>1, RequestsDisjoint DEF Deregister, TypeOK
      <4>2. CASE c # cam[bq[i]]
        <5>1. pending'[c] = pending[c]
          BY <4>2, <2>1 DEF Deregister, TypeOK
        <5>2. pending[c] = b => future[b] = "pending" /\ cam[b] = c
          BY DEF RegistryExact
        <5>3. future[b] = "pending" => b = bq[i]
          BY <2>6, <2>8 DEF OneScan
        <5> QED
          BY <4>2, <5>1, <5>2, <5>3
      <4> QED
        BY <4>1, <4>2
    <3>2. ASSUME NEW b \in BaselineReq, future'[b] = "pending",
                 NEW j \in DOMAIN queue'["baseline"], queue'["baseline"][j] = b
          PROVE  FALSE
      BY <3>2, <2>5, <2>10
    <3> QED
      BY <3>1, <3>2 DEF RegistryExact
  <2>d. RunningUnanswered' /\ MotionLaneLive'
    BY <2>5, <2>6, <2>8 DEF RunningUnanswered, MotionLaneLive
  <2>e. NoDuplicates'
    <3>1. ASSUME NEW j \in DOMAIN After(bq, i), NEW k \in DOMAIN After(bq, i),
                 After(bq, i)[j] = After(bq, i)[k]
          PROVE  j = k
      <4>1. i + j = i + k
        BY <3>1, <2>4, <1>d
      <4> QED
        BY <4>1, <2>4
    <3> QED
      BY <3>1, <2>5 DEF NoDuplicates, Priority
  <2>f. RunningNotQueued'
    BY <2>5, <2>6, <2>10 DEF RunningNotQueued, Queued, Priority
  <2> QED
    BY <2>a, <2>b, <2>c, <2>d, <2>e, <2>f, <1>o
<1>3. CASE TakeNothing(fut)
  <2>1. /\ running' = NoReq
        /\ pending' = pending
        /\ queue' = [p \in Priority |-> <<>>]
        /\ DOMAIN mq = {}
        /\ \A k \in DOMAIN bq : fut[bq[k]] # "pending"
    BY <1>3, QueueFacts DEF TakeNothing
  <2>2. \A p \in Priority : queue'[p] = <<>> /\ DOMAIN queue'[p] = {}
    BY <2>1
  <2> HIDE DEF mq, bq
  <2>a. TypeOK'
    BY <2>1, <2>2, <1>f, <1>t DEF TypeOK
  <2>b. NoLostRequest'
    BY <2>1, <1>n DEF NoLostRequest
  <2>c. RegistryExact'
    <3> SUFFICES ASSUME NEW c \in Camera, NEW b \in BaselineReq, pending[c] = b
                 PROVE  FALSE
      BY <2>1, <2>2, <1>t DEF RegistryExact
    <3>1. PICK k \in DOMAIN bq : bq[k] = b
      BY DEF RegistryExact, bq
    <3>2. future[b] = "pending" /\ b \in Req /\ b # NoReq
      BY <1>t, RequestsDisjoint DEF RegistryExact
    <3>3. b # running
      BY <3>1, <3>2, <1>t DEF RunningNotQueued, Queued, bq
    <3> QED
      BY <3>1, <3>2, <3>3, <2>1, <1>f
  <2>d. RunningUnanswered' /\ MotionLaneLive' /\ NoDuplicates' /\ RunningNotQueued'
    BY <2>1, <2>2, <1>t DEF RunningUnanswered, MotionLaneLive, NoDuplicates, RunningNotQueued
  <2> QED
    BY <2>a, <2>b, <2>c, <2>d, <1>o
<1> QED
  BY <1>1, <1>2, <1>3 DEF TakeNext

LEMMA WakeStep == IInv /\ Wake => IInv'
<1> SUFFICES ASSUME IInv, Wake PROVE IInv'
  OBVIOUS
<1>1. Settled(future)
  BY RequestsDisjoint DEF IInv, TypeOK, Settled, Wake, Req
<1> QED
  BY <1>1, TakeStep DEF Wake

LEMMA SettledByFinish == ASSUME IInv, running # NoReq PROVE Settled(Answered)
<1>1. running \in Req /\ future \in [Req -> FutureState]
  BY DEF IInv, TypeOK
<1> QED
  BY <1>1 DEF Settled, Answered, FutureState

LEMMA FinishStep == IInv /\ Finish => IInv'
  BY SettledByFinish, TakeStep DEF Finish
-------------------------------------------------------------------------------
LEMMA Inductive == IInv /\ [Next]_vars => IInv'
<1> SUFFICES ASSUME IInv, [Next]_vars PROVE IInv'
  OBVIOUS
<1>1. CASE \E r \in MotionReq, c \in Camera : SubmitMotion(r, c)
  BY <1>1, SubmitMotionStep
<1>2. CASE \E r \in BaselineReq, c \in Camera : SubmitBaseline(r, c)
  BY <1>2, SubmitBaselineStep
<1>3. CASE Wake
  BY <1>3, WakeStep
<1>4. CASE Finish
  BY <1>4, FinishStep
<1>5. CASE Stop
  BY <1>5, StopStep
<1>6. CASE UNCHANGED vars
  <2> USE <1>6 DEF IInv, vars
  <2>1. TypeOK' /\ NoLostRequest' /\ RegistryExact' /\ RunningUnanswered'
    BY DEF TypeOK, NoLostRequest, RegistryExact, RunningUnanswered, Queued
  <2>2. MotionLaneLive' /\ NoDuplicates' /\ RunningNotQueued' /\ OneScan'
    BY DEF MotionLaneLive, NoDuplicates, RunningNotQueued, OneScan, Queued
  <2> QED
    BY <2>1, <2>2
<1> QED
  BY <1>1, <1>2, <1>3, <1>4, <1>5, <1>6 DEF Next

LEMMA Invariance == Spec => []IInv
BY InitIInv, Inductive, PTL DEF Spec

(* The variables stay in their types, and a lane only ever holds requests of *)
(* its own priority (infer, _worker and stop of inference_scheduler.py).     *)
THEOREM TypeCorrect == Spec => []TypeOK
<1>1. IInv => TypeOK
  BY DEF IInv
<1> QED
  BY <1>1, Invariance, PTL

(* No caller of infer() waits for a request that is neither queued nor on    *)
(* the GPU while the worker lives: preemption and the skipping of answered   *)
(* entries never drop a request somebody still awaits.                       *)
THEOREM NobodyForgotten == Spec => []NoLostRequest
<1>1. IInv => NoLostRequest
  BY DEF IInv
<1> QED
  BY <1>1, Invariance, PTL

(* _pending_baseline names, for each camera, exactly its queued unanswered   *)
(* scan, although infer() registers and _worker deregisters it separately.   *)
THEOREM RegistryCorrect == Spec => []RegistryExact
<1>1. IInv => RegistryExact
  BY DEF IInv
<1> QED
  BY <1>1, Invariance, PTL

(* The request on the GPU is never answered by anyone but the worker, so     *)
(* the preemption in infer() cannot race the answer of _worker.              *)
THEOREM AnsweredOnce == Spec => []RunningUnanswered
<1>1. IInv => RunningUnanswered
  BY DEF IInv
<1> QED
  BY <1>1, Invariance, PTL
-------------------------------------------------------------------------------
(* With the motion lane drained, nobody waits for a motion answer. *)
LEMMA NoMotionWaits ==
  ASSUME IInv, up, NEW fut, Settled(fut), LaneDrained("motion", fut),
         NEW m \in MotionReq
  PROVE  fut[m] # "pending"
<1> SUFFICES ASSUME fut[m] = "pending" PROVE FALSE
  OBVIOUS
<1>1. m \in Req /\ m \notin BaselineReq
  BY RequestsDisjoint DEF Req
<1>2. future[m] = "pending" /\ running # m
  BY <1>1 DEF Settled
<1>3. Queued(m)
  BY <1>1, <1>2 DEF IInv, NoLostRequest
<1>4. DOMAIN queue["motion"] = {}
  BY QueueFacts
<1>5. \A i \in DOMAIN queue["baseline"] : queue["baseline"][i] # m
  BY <1>1 DEF IInv, TypeOK
<1> QED
  BY <1>3, <1>4, <1>5 DEF Queued, Priority

(* The worker never takes a scan while a motion request waits: the priority  *)
(* order of the queue holds whatever was skipped or preempted in between.    *)
THEOREM MotionAlwaysFirst == Spec => MotionFirst
<1>1. ASSUME IInv, [Next]_vars, running' # running, running' \in BaselineReq,
             NEW m \in MotionReq
      PROVE  future'[m] # "pending"
  <2>1. ASSUME NEW fut, Settled(fut), up, TakeNext(fut), future' = fut
        PROVE  future'[m] # "pending"
    <3>1. ~TakeMotion(fut)
      <4> SUFFICES ASSUME TakeMotion(fut) PROVE FALSE
        OBVIOUS
      <4>1. running' \in MotionReq
        <5>1. \A i \in DOMAIN queue["motion"] : queue["motion"][i] \in MotionReq
          BY <1>1 DEF IInv, TypeOK
        <5> QED
          BY <5>1 DEF TakeMotion, FirstLive
      <4> QED
        BY <4>1, <1>1, RequestsDisjoint
    <3>2. LaneDrained("motion", fut)
      BY <2>1, <3>1 DEF TakeNext, TakeBaseline, TakeNothing
    <3> QED
      BY <3>2, <2>1, <1>1, NoMotionWaits
  <2>2. CASE Wake
    <3>1. Settled(future)
      BY <2>2, <1>1, RequestsDisjoint DEF IInv, TypeOK, Settled, Wake, Req
    <3> QED
      BY <3>1, <2>1, <2>2 DEF Wake
  <2>3. CASE Finish
    BY <2>1, <2>3, <1>1, SettledByFinish DEF Finish
  <2>4. ~Stop
    BY <1>1, RequestsDisjoint DEF Stop
  <2>5. running' = running => FALSE
    BY <1>1
  <2> QED
    BY <1>1, <2>2, <2>3, <2>4, <2>5 DEF Next, SubmitMotion, SubmitBaseline, vars
<1>2. IInv /\ [Next]_vars
        => [ running' # running /\ running' \in BaselineReq
               => \A m \in MotionReq : future'[m] # "pending" ]_vars
  BY <1>1
<1> QED
  BY <1>2, Invariance, PTL DEF Spec, MotionFirst

(* A scan is answered with [] only because a motion request for the same     *)
(* camera was submitted, never on behalf of another camera.                  *)
THEOREM PreemptionStaysHome == Spec => PreemptedByOwnCamera
<1>1. ASSUME IInv, [Next]_vars, NEW b \in BaselineReq,
             future[b] = "pending", future'[b] = "preempted"
      PROVE  \E m \in MotionReq : /\ future[m] # "pending"
                                  /\ future'[m] = "pending"
                                  /\ cam'[m] = cam[b]
  <2>1. b \in Req /\ BaselineReq \subseteq Req /\ MotionReq \subseteq Req
    BY DEF Req
  <2>2. ASSUME NEW r \in MotionReq, NEW c \in Camera, SubmitMotion(r, c)
        PROVE  \E m \in MotionReq : /\ future[m] # "pending"
                                    /\ future'[m] = "pending"
                                    /\ cam'[m] = cam[b]
    <3>1. pending[c] = b
      BY <1>1, <2>1, <2>2 DEF SubmitMotion, Dismissed
    <3>2. cam[b] = c
      BY <3>1, <1>1 DEF IInv, RegistryExact
    <3>3. future[r] # "pending" /\ future'[r] = "pending" /\ cam'[r] = c
      BY <1>1, <2>1, <2>2 DEF SubmitMotion, IInv, TypeOK
    <3> QED
      BY <3>2, <3>3
  <2>3. ~ \E r \in BaselineReq, c \in Camera : SubmitBaseline(r, c)
    BY <1>1, <2>1 DEF SubmitBaseline
  <2>4. ~Wake /\ ~Stop /\ ~UNCHANGED vars
    BY <1>1 DEF Wake, Stop, vars
  <2>5. ~Finish
    BY <1>1, <2>1 DEF Finish, Answered, IInv, TypeOK
  <2> QED
    BY <1>1, <2>2, <2>3, <2>4, <2>5 DEF Next
<1>2. IInv /\ [Next]_vars
        => [ \A b \in BaselineReq :
               future[b] = "pending" /\ future'[b] = "preempted"
                 => \E m \in MotionReq : /\ future[m] # "pending"
                                         /\ future'[m] = "pending"
                                         /\ cam'[m] = cam[b] ]_vars
  BY <1>1
<1> QED
  BY <1>2, Invariance, PTL DEF Spec, PreemptedByOwnCamera
-------------------------------------------------------------------------------
(* InferenceService's "waiting", as the scheduler's state defines it. *)
Waiting == {r \in Req : future[r] = "pending"} \ {running}

(* Taking the next entry is the service's Advance; finding nothing to take   *)
(* when nothing ran is invisible to the service.                             *)
LEMMA TakeIsAdvance ==
  ASSUME IInv, up, NEW fut, Settled(fut), TakeNext(fut), future' = fut, up' = up
  PROVE  Service!Advance \/ UNCHANGED <<Waiting, running, up>>
<1>w. Waiting = {r \in Req : fut[r] = "pending"}
  BY DEF Waiting, Settled
<1>w2. Waiting' = {r \in Req : fut[r] = "pending"} \ {running'}
  BY DEF Waiting, Req
<1>t. /\ BaselineReq \subseteq Req /\ MotionReq \subseteq Req
      /\ \A k \in DOMAIN queue["motion"] : queue["motion"][k] \in MotionReq
      /\ \A k \in DOMAIN queue["baseline"] : queue["baseline"][k] \in BaselineReq
  BY DEF IInv, TypeOK, Req
<1>1. CASE TakeMotion(fut)
  <2>1. running' \in MotionReq /\ fut[running'] = "pending"
    BY <1>1, <1>t DEF TakeMotion, FirstLive
  <2>2. running' \in Waiting /\ running' \notin BaselineReq
    BY <2>1, <1>w, <1>t, RequestsDisjoint
  <2>3. Waiting' = Waiting \ {running'}
    BY <1>w, <1>w2
  <2> QED
    BY <2>2, <2>3 DEF Service!Advance, Waiting
<1>2. CASE TakeBaseline(fut)
  <2>1. running' \in BaselineReq /\ fut[running'] = "pending"
    BY <1>2, <1>t DEF TakeBaseline, FirstLive
  <2>2. running' \in Waiting
    BY <2>1, <1>w, <1>t
  <2>3. Waiting \cap MotionReq = {}
    BY <1>2, <1>w, NoMotionWaits DEF TakeBaseline
  <2>4. Waiting' = Waiting \ {running'}
    BY <1>w, <1>w2
  <2> QED
    BY <2>2, <2>3, <2>4 DEF Service!Advance, Waiting
<1>3. CASE TakeNothing(fut)
  <2>1. Waiting = {}
    <3> SUFFICES ASSUME NEW r \in Req, fut[r] = "pending" PROVE FALSE
      BY <1>w
    <3>1. r \notin MotionReq
      BY <1>3, NoMotionWaits DEF TakeNothing
    <3>2. r \in BaselineReq /\ future[r] = "pending" /\ running # r
      BY <3>1 DEF Settled, Req
    <3>3. Queued(r)
      BY <3>2 DEF IInv, NoLostRequest
    <3>4. \E k \in DOMAIN queue["baseline"] : queue["baseline"][k] = r
      BY <3>1, <3>3, <1>t DEF Queued, Priority
    <3>5. \A k \in DOMAIN queue["baseline"] : fut[queue["baseline"][k]] # "pending"
      BY <1>3, QueueFacts DEF TakeNothing
    <3> QED
      BY <3>4, <3>5
  <2>2. Waiting' = Waiting
    BY <2>1, <1>w, <1>w2
  <2>3. running' = NoReq
    BY <1>3 DEF TakeNothing
  <2>4. CASE running = NoReq
    BY <2>2, <2>3, <2>4
  <2>5. CASE running # NoReq
    BY <2>1, <2>2, <2>3, <2>5 DEF Service!Advance, Waiting
  <2> QED
    BY <2>4, <2>5
<1> QED
  BY <1>1, <1>2, <1>3 DEF TakeNext

LEMMA StepIsServiceStep ==
  ASSUME IInv, [Next]_vars
  PROVE  Service!Next \/ UNCHANGED <<Waiting, running, up>>
<1>t. BaselineReq \subseteq Req /\ MotionReq \subseteq Req
  BY DEF Req
<1>1. ASSUME NEW r \in MotionReq, NEW c \in Camera, SubmitMotion(r, c)
      PROVE  Service!AskMotion(r)
  <2> DEFINE gone == {q \in {pending[c]} : q \in Req /\ future[q] = "pending"}
  <2>1. r \notin Waiting /\ r # running
    BY <1>1, RequestsDisjoint DEF SubmitMotion, Waiting, IInv, RunningUnanswered
  <2>2. \A q \in gone : q \in BaselineReq /\ Queued(q) /\ q # NoReq
    BY RequestsDisjoint DEF IInv, TypeOK, RegistryExact, Queued, Priority, Req
  <2>3. gone \in SUBSET (Waiting \cap BaselineReq)
    BY <2>2, <1>t DEF Waiting, IInv, RunningNotQueued
  <2>4. \A x, y \in gone : x = y
    OBVIOUS
  <2>5. \A q \in Req : future'[q] = "pending" <=>
                         q = r \/ (future[q] = "pending" /\ q \notin gone)
    BY <1>1 DEF SubmitMotion, Dismissed
  <2>6. Waiting' = (Waiting \ gone) \cup {r}
    <3>1. Waiting' = {q \in Req : future'[q] = "pending"} \ {running}
      BY <1>1 DEF Waiting, SubmitMotion, Req
    <3> HIDE DEF gone
    <3> QED
      BY <3>1, <2>1, <2>5, <1>t DEF Waiting
  <2>7. UNCHANGED <<running, up>>
    BY <1>1 DEF SubmitMotion
  <2> HIDE DEF gone
  <2> QED
    BY <2>1, <2>3, <2>4, <2>6, <2>7 DEF Service!AskMotion, Waiting
<1>2. ASSUME NEW r \in BaselineReq, NEW c \in Camera, SubmitBaseline(r, c)
      PROVE  Service!AskBaseline(r)
  <2>1. (Waiting \cup {running}) \cap BaselineReq = {}
    BY <1>2, RequestsDisjoint DEF SubmitBaseline, Waiting, IInv, RunningUnanswered
  <2>2. \A q \in Req : future'[q] = "pending" <=> q = r \/ future[q] = "pending"
    BY <1>2 DEF SubmitBaseline, IInv, TypeOK
  <2>3. r # running /\ UNCHANGED <<running, up>>
    BY <2>1, <1>2 DEF SubmitBaseline
  <2>4. Waiting' = Waiting \cup {r}
    <3>1. Waiting' = {q \in Req : future'[q] = "pending"} \ {running}
      BY <2>3 DEF Waiting, Req
    <3> QED
      BY <3>1, <2>2, <2>3, <1>t DEF Waiting
  <2> QED
    BY <2>1, <2>3, <2>4 DEF Service!AskBaseline, Waiting
<1>3. CASE Wake
  <2>1. Settled(future)
    BY <1>3, RequestsDisjoint DEF IInv, TypeOK, Settled, Wake, Req
  <2> QED
    BY <1>3, <2>1, TakeIsAdvance DEF Wake, Service!Next
<1>4. CASE Finish
  BY <1>4, SettledByFinish, TakeIsAdvance DEF Finish, Service!Next
<1>5. CASE Stop
  <2>1. Waiting' = Waiting \cup ({running} \ {NoReq})
    <3>1. Waiting' = {q \in Req : future[q] = "pending"} \ {NoReq}
      BY <1>5 DEF Stop, Waiting, Req
    <3>2. running # NoReq => running \in Req /\ future[running] = "pending"
      BY DEF IInv, TypeOK, RunningUnanswered
    <3> QED
      BY <3>1, <3>2, RequestsDisjoint DEF Waiting, Req
  <2> QED
    BY <1>5, <2>1 DEF Stop, Service!Halt, Service!Next, Waiting
<1>6. CASE UNCHANGED vars
  BY <1>6 DEF vars, Waiting, Req
<1>7. CASE \E r \in MotionReq, c \in Camera : SubmitMotion(r, c)
  BY <1>1, <1>7 DEF Service!Next
<1>8. CASE \E r \in BaselineReq, c \in Camera : SubmitBaseline(r, c)
  BY <1>2, <1>8 DEF Service!Next
<1> QED
  BY <1>3, <1>4, <1>5, <1>6, <1>7, <1>8 DEF Next

(* The queue, the registry and the skipping worker together implement the    *)
(* service: the GPU is never idle while somebody waits, motion goes first    *)
(* and only a waiting scan is ever dismissed.                                *)
THEOREM SchedulerImplementsService == Spec => ImplementsService
<1>1. Init => Service!Init
  BY RequestsDisjoint DEF Init, Service!Init
<1>2. IInv /\ [Next]_vars => [Service!Next]_(Service!vars)
  BY StepIsServiceStep DEF Service!vars, Waiting
<1> QED
  BY <1>1, <1>2, Invariance, PTL DEF Spec, ImplementsService, Service!Spec
===============================================================================
