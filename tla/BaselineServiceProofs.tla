------------------------ MODULE BaselineServiceProofs ------------------------
(***************************************************************************)
(* TLAPS proofs about BaselineTracker and BaselineService, for any groups, *)
(* positions, tolerance, threshold and bounds.                             *)
(*                                                                         *)
(* _feed is a fold over the detections of a frame and the removal of       *)
(* candidates renumbers the list.  Both are reasoned about by induction on *)
(* natural numbers, taken here as the absence of a least counterexample    *)
(* (LeastNat): FeedChain gives the states _feed goes through, FedInv what  *)
(* holds in each of them, WithoutProps where a kept entry goes.            *)
(***************************************************************************)
EXTENDS BaselineService, FiniteSetTheorems, SequenceTheorems, TLAPS

(* Every non-empty set of natural numbers has a least element. *)
LEMMA LeastNat ==
  ASSUME NEW T \in SUBSET Nat, T # {}
  PROVE  \E n \in T : \A m \in T : n <= m
<1>1. PICK n \in T : \A m \in T : ~ (<<m, n>> \in OpToRel(<, Nat))
  BY NatLessThanWellFounded, WFMin
<1>2. \A m \in T : ~ (m < n)
  BY <1>1 DEF OpToRel
<1> QED
  BY <1>2

(* g is what m rounds of _feed's loop make of the state s. *)
Rounds(s, g, frame, m) ==
  g = [k \in 0..m |-> IF k = 0 THEN s ELSE Absorb(g[k - 1], frame[k])]

(* The recursive function of Feed exists: a least m without one would        *)
(* extend the function of m - 1 by one value.                                *)
LEMMA RoundsExist ==
  ASSUME NEW s, NEW frame, NEW n \in Nat
  PROVE  \E g : Rounds(s, g, frame, n)
<1> DEFINE T == {m \in Nat : ~ \E g : Rounds(s, g, frame, m)}
<1>1. SUFFICES ASSUME T # {} PROVE FALSE
  OBVIOUS
<1>2. PICK m \in T : \A k \in T : m <= k
  BY <1>1, LeastNat
<1>3. CASE m = 0
  <2> DEFINE g == [k \in 0..0 |-> s]
  <2>1. g = [k \in 0..0 |-> IF k = 0 THEN s ELSE Absorb(g[k - 1], frame[k])]
    OBVIOUS
  <2> QED
    BY <2>1, <1>3 DEF Rounds
<1>4. CASE m # 0
  <2>1. m - 1 \in Nat /\ m - 1 \notin T
    BY <1>2, <1>4
  <2>2. PICK g : Rounds(s, g, frame, m - 1)
    BY <2>1
  <2> DEFINE h == [k \in 0..m |-> IF k = m THEN Absorb(g[m - 1], frame[m]) ELSE g[k]]
             r == [k \in 0..m |-> IF k = 0 THEN s ELSE Absorb(h[k - 1], frame[k])]
  <2>3. \A k \in 0..(m - 1) : g[k] = IF k = 0 THEN s ELSE Absorb(g[k - 1], frame[k])
    BY <2>2 DEF Rounds
  <2>4. ASSUME NEW k \in 0..m PROVE h[k] = r[k]
    <3>1. CASE k = 0
      BY <3>1, <2>3, <1>4
    <3>2. CASE k # 0
      <4>1. k - 1 \in 0..(m - 1) /\ k - 1 # m /\ k - 1 \in 0..m
        BY <3>2
      <4>2. h[k - 1] = g[k - 1]
        BY <4>1
      <4>3. h[k] = Absorb(g[k - 1], frame[k])
        BY <4>1, <2>3, <3>2
      <4> QED
        BY <4>2, <4>3, <3>2
    <3> QED
      BY <3>1, <3>2
  <2>5. h = r
    BY <2>4
  <2> QED
    BY <2>5, <1>2 DEF Rounds
<1> QED
  BY <1>3, <1>4

(* The states of one call of _feed, detection by detection. *)
LEMMA FeedChain ==
  ASSUME NEW frame, Len(frame) \in Nat
  PROVE  \E fed : /\ fed[0] = [list |-> candidates, matched |-> {}]
                  /\ \A k \in 1..Len(frame) : fed[k] = Absorb(fed[k - 1], frame[k])
                  /\ Feed(frame) = fed[Len(frame)]
<1> DEFINE s == [list |-> candidates, matched |-> {}]
           F == CHOOSE g : g = [k \in 0..Len(frame) |->
                                  IF k = 0 THEN s ELSE Absorb(g[k - 1], frame[k])]
<1>1. \E g : Rounds(s, g, frame, Len(frame))
  <2> HIDE DEF s
  <2> QED
    BY RoundsExist
<1>2. \E g : g = [k \in 0..Len(frame) |-> IF k = 0 THEN s ELSE Absorb(g[k - 1], frame[k])]
  BY <1>1 DEF Rounds
<1>3. F = [k \in 0..Len(frame) |-> IF k = 0 THEN s ELSE Absorb(F[k - 1], frame[k])]
  <2> HIDE DEF s
  <2> QED
    BY <1>2, Zenon
<1>4. Feed(frame) = F[Len(frame)]
  BY DEF Feed
<1> HIDE DEF F
<1>5. F[0] = s /\ \A k \in 1..Len(frame) : F[k] = Absorb(F[k - 1], frame[k])
  <2>1. 0 \in 0..Len(frame) /\ \A k \in 1..Len(frame) : k \in 0..Len(frame) /\ k # 0
    OBVIOUS
  <2> HIDE DEF s
  <2> QED
    BY <2>1, <1>3
<1> QED
  BY <1>4, <1>5
-------------------------------------------------------------------------------
(* The assumptions as facts about the single constants. *)
LEMMA Constants ==
  /\ Position \subseteq Nat
  /\ Tolerance \in Nat \ {0} /\ AddThreshold \in Nat \ {0}
  /\ MaxFrame \in Nat \ {0} /\ MaxCandidates \in Nat \ {0}
BY TrackerAssumption

(* Frames are sequences of detections. *)
LEMMA FrameShape ==
  ASSUME NEW frame \in Frame
  PROVE  /\ Len(frame) \in Nat
         /\ DOMAIN frame = 1..Len(frame)
         /\ \A k \in 1..Len(frame) : frame[k] \in Detection
         /\ frame = <<>> <=> Len(frame) = 0
<1>1. PICK m \in 0..MaxFrame : frame \in [1..m -> Detection]
  BY Constants DEF Frame, BoundedSeq, SeqOf
<1>2. frame \in Seq(Detection)
  BY <1>1, IsASeq
<1> QED
  BY <1>2

(* The average lies near both of what it averages. *)
LEMMA BlendNear ==
  ASSUME NEW a \in Nat, NEW b \in Nat, Distance(b, a) < Tolerance
  PROVE  /\ Blend(a, b) \in Nat
         /\ Distance(a, Blend(a, b)) < Tolerance
         /\ Distance(b, Blend(a, b)) < Tolerance
<1> DEFINE q == Blend(a, b)
<1>1. q \in Nat /\ 10 * q <= 7 * a + 3 * b + 5 /\ 7 * a + 3 * b + 5 < 10 * q + 10
  BY DEF Blend
<1>2. Tolerance \in Nat /\ a - b < Tolerance /\ b - a < Tolerance
  BY Constants DEF Distance
<1> HIDE DEF q
<1>3. a - q < Tolerance /\ q - a < Tolerance /\ b - q < Tolerance /\ q - b < Tolerance
  BY <1>1, <1>2
<1> QED
  BY <1>1, <1>3 DEF q, Distance

(* A matched candidate stays one of the same group and never loses its       *)
(* promotion; it counts one hit, and the image unless that did so before.    *)
LEMMA HitProps ==
  ASSUME NEW c \in Candidate, NEW d \in Detection, Matches(d, c), NEW again
  PROVE  /\ Hit(c, d, again) \in Candidate
         /\ Hit(c, d, again).group = c.group
         /\ Hit(c, d, again).at = Blend(c.at, d.at)
         /\ Hit(c, d, again).misses = 0
         /\ Hit(c, d, again).hits = AtMost(c.hits + 1, AddThreshold)
         /\ Hit(c, d, again).promoted <=> c.promoted \/ c.hits + 1 >= AddThreshold
         /\ Hit(c, d, again).images =
              IF again THEN c.images ELSE AtMost(c.images + 1, AddThreshold)
         /\ Matches(d, Hit(c, d, again))
<1> DEFINE h == AtMost(c.hits + 1, AddThreshold)
           m == IF again THEN c.images ELSE AtMost(c.images + 1, AddThreshold)
           x == Hit(c, d, again)
<1>1. /\ c.group \in Group /\ c.at \in Nat /\ c.hits \in 1..AddThreshold
      /\ c.images \in 1..AddThreshold
      /\ d.group = c.group /\ d.at \in Nat /\ Distance(d.at, c.at) < Tolerance
  BY Constants DEF Candidate, Detection, Matches
<1>2. h \in 1..AddThreshold /\ (h >= AddThreshold <=> c.hits + 1 >= AddThreshold)
  BY <1>1, Constants DEF AtMost
<1>3. Blend(c.at, d.at) \in Nat /\ Distance(d.at, Blend(c.at, d.at)) < Tolerance
  BY <1>1, BlendNear
<1>m. m \in 1..AddThreshold
  <2>1. AtMost(c.images + 1, AddThreshold) \in 1..AddThreshold
    BY <1>1, Constants DEF AtMost
  <2> QED
    BY <1>1, <2>1
<1>x. x = [c EXCEPT !.at = Blend(c.at, d.at), !.hits = h, !.misses = 0,
                    !.promoted = c.promoted \/ h >= AddThreshold, !.images = m]
  BY DEF Hit
<1> HIDE DEF h, m, x
<1>4. /\ x.group = c.group
      /\ x.at = Blend(c.at, d.at)
      /\ x.hits = h
      /\ x.misses = 0
      /\ x.images = m
  BY <1>x DEF Candidate
<1>5. x.promoted = (c.promoted \/ h >= AddThreshold)
  BY <1>x DEF Candidate
<1>6. x \in Candidate
  <2>2. (c.promoted \/ h >= AddThreshold) \in BOOLEAN
    OBVIOUS
  <2>3. 0 \in 0..(MaxMisses - 1)
    BY DEF MaxMisses
  <2> QED
    BY <1>x, <2>2, <2>3, <1>2, <1>3, <1>m DEF Candidate
<1>7. Matches(d, x)
  BY <1>1, <1>3, <1>4 DEF Matches
<1>8. x.promoted <=> c.promoted \/ c.hits + 1 >= AddThreshold
  BY <1>2, <1>5
<1> QED
  BY <1>4, <1>6, <1>7, <1>8 DEF h, m, x

(* A new candidate stands where its detection was. *)
LEMMA NewCandidateProps ==
  ASSUME NEW d \in Detection
  PROVE  /\ NewCandidate(d) \in Candidate
         /\ NewCandidate(d).group = d.group /\ NewCandidate(d).at = d.at
         /\ NewCandidate(d).hits = 1 /\ NewCandidate(d).misses = 0
         /\ NewCandidate(d).images = 1
         /\ ~NewCandidate(d).promoted
         /\ Matches(d, NewCandidate(d))
<1>1. d.at \in Nat /\ d.group \in Group
  BY Constants DEF Detection
<1>2. NewCandidate(d) \in Candidate
  BY <1>1, Constants DEF NewCandidate, Candidate, MaxMisses
<1> QED
  BY <1>1, <1>2, Constants DEF NewCandidate, Matches, Distance

-------------------------------------------------------------------------------
(* A promoted candidate has all its hits. *)
PromotedFull(list) ==
  \A i \in DOMAIN list : list[i].promoted => list[i].hits = AddThreshold

(* No image but the one that made a candidate has counted twice for it. *)
HitsCounted(list) ==
  \A i \in DOMAIN list : list[i].hits <= list[i].images + 1

(* What holds between two rounds of _feed, k detections being done.          *)
FedType(f) ==
  /\ f \in [list : Seq(Candidate), matched : SUBSET Nat]
  /\ f.matched \subseteq DOMAIN f.list
  /\ Len(candidates) <= Len(f.list)

(* An old candidate keeps its group, and a promotion is never taken back. *)
FedOld(f) ==
  \A i \in 1..Len(candidates) :
    /\ f.list[i].group = candidates[i].group
    /\ candidates[i].promoted => f.list[i].promoted
    /\ i \notin f.matched => f.list[i] = candidates[i]

(* A candidate made in this call may be hit once more by the same image. *)
FedNew(f) ==
  \A i \in DOMAIN f.list :
    i > Len(candidates) /\ i \notin f.matched =>
      ~f.list[i].promoted /\ f.list[i].hits = 1 /\ f.list[i].misses = 0

FedMatched(f) == \A i \in f.matched : f.list[i].misses = 0

(* Every detection is near a candidate, and stays near it: the candidate     *)
(* cannot move any more, or stands exactly where the detection was.          *)
FedSeen(f, frame, k) ==
  \A j \in 1..k : \E i \in DOMAIN f.list :
    /\ Matches(frame[j], f.list[i])
    /\ i \in f.matched \/ f.list[i].at = frame[j].at

FedInv(f, frame, k) ==
  /\ FedType(f)
  /\ FedOld(f)
  /\ FedNew(f)
  /\ FedMatched(f)
  /\ PromotedFull(f.list)
  /\ HitsCounted(f.list)
  /\ FedSeen(f, frame, k)

(* One detection is appended as a new candidate or hits one that is free. *)
LEMMA AbsorbCases ==
  ASSUME NEW f, FedType(f), NEW d \in Detection
  PROVE  \/ /\ Absorb(f, d).list = Append(f.list, NewCandidate(d))
            /\ Absorb(f, d).matched = f.matched
         \/ \E i \in DOMAIN f.list \ f.matched :
              /\ Matches(d, f.list[i])
              /\ Absorb(f, d).list = [f.list EXCEPT ![i] = Hit(f.list[i], d, Shown(f, i))]
              /\ Absorb(f, d).matched = f.matched \cup {i}
<1> DEFINE free == {i \in DOMAIN f.list \ f.matched : Matches(d, f.list[i])}
<1>1. CASE free = {}
  BY <1>1 DEF Absorb, FedType
<1>2. CASE free # {}
  <2>1. free \in SUBSET Nat
    BY DEF FedType
  <2>2. \E k \in free : \A j \in free : k <= j
    <3> HIDE DEF free
    <3> QED
      BY <1>2, <2>1, LeastNat
  <2> DEFINE i == CHOOSE k \in free : \A j \in free : k <= j
  <2>3. i \in free
    <3> HIDE DEF free
    <3> QED
      BY <2>2
  <2>4. Absorb(f, d) = [list |-> [f.list EXCEPT ![i] = Hit(f.list[i], d, Shown(f, i))],
                        matched |-> f.matched \cup {i}]
    BY <1>2 DEF Absorb
  <2> HIDE DEF i
  <2> QED
    BY <2>3, <2>4
<1> QED
  BY <1>1, <1>2

(* One round of _feed keeps the invariant of the loop. *)
LEMMA AbsorbStep ==
  ASSUME NEW f, NEW frame, NEW k \in Nat,
         candidates \in Seq(Candidate),
         FedInv(f, frame, k), frame[k + 1] \in Detection
  PROVE  FedInv(Absorb(f, frame[k + 1]), frame, k + 1)
<1> DEFINE d == frame[k + 1]
           g == Absorb(f, d)
           n == Len(f.list)
<1>t. /\ f.list \in Seq(Candidate) /\ f.matched \subseteq DOMAIN f.list
      /\ n \in Nat /\ DOMAIN f.list = 1..n
      /\ \A i \in 1..n : f.list[i] \in Candidate
      /\ Len(candidates) \in Nat /\ Len(candidates) <= n
      /\ f.matched \in SUBSET Nat
  BY DEF FedInv, FedType
<1>g. g \in [list : {g.list}, matched : {g.matched}]
  BY DEF Absorb, FedInv, FedType
<1>d. d \in Detection
  OBVIOUS
<1>j. \A j \in 1..(k + 1) : j \in 1..k \/ j = k + 1
  OBVIOUS
<1>1. CASE g.list = Append(f.list, NewCandidate(d)) /\ g.matched = f.matched
  <2> DEFINE c == NewCandidate(d)
  <2>c. /\ c \in Candidate /\ c.group = d.group /\ c.at = d.at /\ c.hits = 1
        /\ c.misses = 0 /\ ~c.promoted /\ c.images = 1 /\ Matches(d, c)
    BY <1>d, NewCandidateProps
  <2> HIDE DEF c
  <2>1. /\ g.list \in Seq(Candidate) /\ Len(g.list) = n + 1
        /\ DOMAIN g.list = 1..(n + 1)
        /\ \A i \in 1..n : g.list[i] = f.list[i]
        /\ g.list[n + 1] = c
    BY <1>1, <1>t, <2>c, AppendProperties DEF c
  <2>2. /\ n + 1 \in 1..(n + 1) /\ n + 1 \notin f.matched
        /\ \A i \in 1..(n + 1) : i \in 1..n \/ i = n + 1
        /\ \A i \in 1..n : i \in 1..(n + 1)
    BY <1>t
  <2> HIDE DEF d, g, n
  <2>3. FedType(g)
    <3>1. g \in [list : Seq(Candidate), matched : SUBSET Nat]
      BY <1>1, <1>t, <1>g, <2>1
    <3>2. g.matched \subseteq DOMAIN g.list
      BY <1>1, <1>t, <2>1, <2>2
    <3>3. Len(candidates) <= n + 1
      BY <1>t
    <3> QED
      BY <3>1, <3>2, <3>3, <2>1 DEF FedType
  <2>4. FedOld(g)
    <3>1. \A i \in 1..Len(candidates) : i \in 1..n
      BY <1>t
    <3> QED
      BY <3>1, <1>1, <2>1 DEF FedInv, FedOld
  <2>5. FedNew(g)
    BY <1>1, <1>t, <2>1, <2>2, <2>c DEF FedInv, FedNew
  <2>6. FedMatched(g)
    BY <1>1, <1>t, <2>1 DEF FedInv, FedMatched
  <2>7. PromotedFull(g.list)
    BY <1>t, <2>1, <2>2, <2>c DEF FedInv, PromotedFull
  <2>9. HitsCounted(g.list)
    <3>1. \A i \in 1..n : f.list[i].hits <= f.list[i].images + 1
      BY <1>t DEF FedInv, HitsCounted
    <3>2. c.hits <= c.images + 1
      BY <2>c
    <3>3. \A i \in 1..(n + 1) : g.list[i].hits <= g.list[i].images + 1
      BY <3>1, <3>2, <2>1, <2>2
    <3> QED
      BY <3>3, <2>1 DEF HitsCounted
  <2>8. FedSeen(g, frame, k + 1)
    <3>1. \A j \in 1..k : \E i \in DOMAIN g.list :
            /\ Matches(frame[j], g.list[i])
            /\ i \in g.matched \/ g.list[i].at = frame[j].at
      BY <1>1, <1>t, <2>1, <2>2 DEF FedInv, FedSeen
    <3>2. Matches(frame[k + 1], g.list[n + 1]) /\ g.list[n + 1].at = frame[k + 1].at
      BY <2>1, <2>c DEF d
    <3> QED
      BY <3>1, <3>2, <2>1, <2>2, <1>j DEF FedSeen
  <2> QED
    BY <2>3, <2>4, <2>5, <2>6, <2>7, <2>8, <2>9 DEF FedInv, g, d
<1>2. ASSUME NEW x \in DOMAIN f.list \ f.matched,
             Matches(d, f.list[x]),
             g.list = [f.list EXCEPT ![x] = Hit(f.list[x], d, Shown(f, x))],
             g.matched = f.matched \cup {x}
      PROVE  FedInv(g, frame, k + 1)
  <2> DEFINE c == f.list[x]
             h == Hit(c, d, Shown(f, x))
  <2>c. c \in Candidate /\ c.hits \in 1..AddThreshold /\ c.images \in 1..AddThreshold
        /\ c.at \in Nat
    BY <1>t, <1>2 DEF Candidate
  <2>h. /\ h \in Candidate /\ h.group = c.group /\ h.at = Blend(c.at, d.at)
        /\ h.misses = 0 /\ h.hits = AtMost(c.hits + 1, AddThreshold)
        /\ h.promoted <=> c.promoted \/ c.hits + 1 >= AddThreshold
        /\ h.images = IF Shown(f, x) THEN c.images ELSE AtMost(c.images + 1, AddThreshold)
        /\ Matches(d, h)
    BY <2>c, <1>d, <1>2, HitProps
  <2>k. c.hits + 1 >= AddThreshold => h.hits = AddThreshold
    BY <2>c, <2>h, Constants DEF AtMost
  <2> HIDE DEF h
  <2>1. /\ g.list \in Seq(Candidate) /\ Len(g.list) = n
        /\ DOMAIN g.list = 1..n
        /\ \A i \in 1..n : i # x => g.list[i] = f.list[i]
        /\ g.list[x] = h
        /\ x \in 1..n /\ x \in Nat /\ x \notin f.matched
    BY <1>2, <1>t, <2>h, ExceptSeq DEF h
  <2> HIDE DEF d, g, n
  <2>3. FedType(g)
    BY <1>2, <1>t, <1>g, <2>1 DEF FedType
  <2>4. FedOld(g)
    <3> SUFFICES ASSUME NEW i \in 1..Len(candidates)
                 PROVE  /\ g.list[i].group = candidates[i].group
                        /\ candidates[i].promoted => g.list[i].promoted
                        /\ i \notin g.matched => g.list[i] = candidates[i]
      BY DEF FedOld
    <3>1. i \in 1..n
      BY <1>t
    <3>2. CASE i # x
      BY <3>1, <3>2, <1>2, <2>1 DEF FedInv, FedOld
    <3>3. CASE i = x
      <4>1. c = candidates[i]
        BY <3>3, <2>1 DEF FedInv, FedOld
      <4>2. x \in g.matched
        BY <1>2
      <4> HIDE DEF c
      <4> QED
        BY <3>3, <4>1, <4>2, <2>1, <2>h, <2>k
    <3> QED
      BY <3>2, <3>3
  <2>5. FedNew(g)
    BY <1>2, <1>t, <2>1 DEF FedInv, FedNew
  <2>6. FedMatched(g)
    BY <1>2, <1>t, <2>1, <2>h DEF FedInv, FedMatched
  <2>7. PromotedFull(g.list)
    <3>1. c.promoted => c.hits = AddThreshold
      BY <1>t, <2>1 DEF FedInv, PromotedFull
    <3>2. c.promoted => c.hits + 1 >= AddThreshold
      BY <3>1, <2>c, Constants
    <3>3. h.promoted => h.hits = AddThreshold
      BY <3>2, <2>h, <2>k
    <3> QED
      BY <3>3, <1>t, <2>1 DEF FedInv, PromotedFull
  <2>9. HitsCounted(g.list)
    <3>1. CASE Shown(f, x)
      <4>1. c.hits = 1
        BY <3>1, <1>t, <2>1 DEF FedInv, FedNew, Shown
      <4>2. h.hits <= h.images + 1
        BY <3>1, <4>1, <2>c, <2>h, Constants DEF AtMost
      <4> QED
        BY <4>2, <1>t, <2>1 DEF FedInv, HitsCounted
    <3>2. CASE ~Shown(f, x)
      <4>1. c.hits <= c.images + 1
        BY <1>t, <2>1 DEF FedInv, HitsCounted
      <4>2. h.images = AtMost(c.images + 1, AddThreshold)
        BY <3>2, <2>h
      <4>3. h.hits <= h.images + 1
        BY <4>1, <4>2, <2>c, <2>h, Constants DEF AtMost
      <4> QED
        BY <4>3, <1>t, <2>1 DEF FedInv, HitsCounted
    <3> QED
      BY <3>1, <3>2
  <2>8. FedSeen(g, frame, k + 1)
    <3>1. ASSUME NEW j \in 1..k
          PROVE  \E i \in DOMAIN g.list :
                   /\ Matches(frame[j], g.list[i])
                   /\ i \in g.matched \/ g.list[i].at = frame[j].at
      <4>1. PICK i \in 1..n : /\ Matches(frame[j], f.list[i])
                              /\ i \in f.matched \/ f.list[i].at = frame[j].at
        BY <1>t DEF FedInv, FedSeen
      <4>2. CASE i # x
        BY <4>1, <4>2, <1>2, <2>1
      <4>3. CASE i = x
        <5>1. c.at = frame[j].at /\ frame[j].group = c.group
          BY <4>1, <4>3, <2>1 DEF Matches
        <5>2. d.at \in Nat /\ Distance(d.at, c.at) < Tolerance
          BY <1>d, <1>2, Constants DEF Detection, Matches
        <5> HIDE DEF c
        <5>3. Distance(frame[j].at, Blend(c.at, d.at)) < Tolerance
          BY <5>1, <5>2, <2>c, BlendNear
        <5>4. Matches(frame[j], h)
          BY <5>1, <5>3, <2>h DEF Matches
        <5> QED
          BY <5>4, <2>1, <1>2
      <4> QED
        BY <4>2, <4>3
    <3>2. Matches(frame[k + 1], g.list[x]) /\ x \in g.matched
      BY <2>1, <2>h, <1>2 DEF d
    <3> QED
      BY <3>1, <3>2, <2>1, <1>j DEF FedSeen
  <2> QED
    BY <2>3, <2>4, <2>5, <2>6, <2>7, <2>8, <2>9 DEF FedInv
<1>3. FedType(f)
  BY DEF FedInv
<1> QED
  BY <1>1, <1>2, <1>3, <1>d, AbsorbCases

(* All of it holds when _feed has gone through the frame. *)
LEMMA FeedInv ==
  ASSUME candidates \in Seq(Candidate), PromotedFull(candidates), HitsCounted(candidates),
         NEW frame \in Frame
  PROVE  FedInv(Feed(frame), frame, Len(frame))
<1>n. Len(frame) \in Nat /\ \A k \in 1..Len(frame) : frame[k] \in Detection
  BY FrameShape
<1>1. PICK fed : /\ fed[0] = [list |-> candidates, matched |-> {}]
                 /\ \A k \in 1..Len(frame) : fed[k] = Absorb(fed[k - 1], frame[k])
                 /\ Feed(frame) = fed[Len(frame)]
  BY <1>n, FeedChain
<1> DEFINE T == {k \in 0..Len(frame) : ~FedInv(fed[k], frame, k)}
<1>2. SUFFICES ASSUME T # {} PROVE FALSE
  BY <1>1, <1>n
<1>3. T \in SUBSET Nat
  BY <1>n
<1>4. PICK m \in T : \A k \in T : m <= k
  <2> HIDE DEF T
  <2> QED
    BY <1>2, <1>3, LeastNat
<1>5. CASE m = 0
  <2>1. FedInv([list |-> candidates, matched |-> {}], frame, 0)
    <3> DEFINE s == [list |-> candidates, matched |-> {}]
    <3>1. s.list = candidates /\ s.matched = {}
      OBVIOUS
    <3>2. /\ Len(candidates) \in Nat /\ DOMAIN candidates = 1..Len(candidates)
          /\ \A i \in 1..Len(candidates) : candidates[i] \in Candidate
      OBVIOUS
    <3>4. \A c \in Candidate : c.hits \in Nat
      BY Constants DEF Candidate
    <3>3. s \in [list : Seq(Candidate), matched : SUBSET Nat]
      OBVIOUS
    <3> HIDE DEF s
    <3> QED
      BY <3>1, <3>2, <3>3, <3>4
      DEF FedInv, FedType, FedOld, FedNew, FedMatched, PromotedFull, HitsCounted, FedSeen
  <2> QED
    BY <2>1, <1>1, <1>4, <1>5
<1>6. CASE m # 0
  <2>1. m - 1 \in 0..Len(frame) /\ m - 1 \notin T /\ m \in 1..Len(frame)
    BY <1>n, <1>4, <1>6
  <2>2. FedInv(fed[m - 1], frame, m - 1) /\ m - 1 \in Nat /\ (m - 1) + 1 = m
    BY <2>1, <1>n
  <2>3. fed[m] = Absorb(fed[m - 1], frame[m]) /\ frame[m] \in Detection
    BY <2>1, <1>1, <1>n
  <2>4. FedInv(fed[m], frame, m)
    BY <2>2, <2>3, AbsorbStep
  <2> QED
    BY <2>4, <1>4
<1> QED
  BY <1>5, <1>6

-------------------------------------------------------------------------------
(* Rank numbers the elements of a finite set of naturals from 1, in order. *)
LEMMA RankProps ==
  ASSUME NEW n \in Nat, NEW S \in SUBSET (1..n)
  PROVE  /\ IsFiniteSet(S)
         /\ Cardinality(S) \in Nat
         /\ \A i \in S : Rank(S, i) \in 1..Cardinality(S)
         /\ \A i, j \in S : i < j => Rank(S, i) < Rank(S, j)
         /\ \A k \in 1..Cardinality(S) : \E i \in S : Rank(S, i) = k
<1>0. \A i \in S : i \in Nat
  OBVIOUS
<1>1. IsFiniteSet(S) /\ Cardinality(S) \in Nat
  <2> DEFINE all == 1..n
  <2>1. IsFiniteSet(all) /\ S \in SUBSET all
    BY FS_Interval
  <2> HIDE DEF all
  <2>2. IsFiniteSet(S)
    BY <2>1, FS_Subset
  <2> QED
    BY <2>2, FS_CardinalityType
<1> DEFINE low(i) == {j \in S : j <= i}
           c == Cardinality(S)
<1>2. \A i \in S : IsFiniteSet(low(i)) /\ Cardinality(low(i)) \in Nat /\ Cardinality(low(i)) <= c
  <2> SUFFICES ASSUME NEW i \in S
               PROVE  IsFiniteSet(low(i)) /\ Cardinality(low(i)) \in Nat /\ Cardinality(low(i)) <= c
    OBVIOUS
  <2>1. low(i) \in SUBSET S
    OBVIOUS
  <2> HIDE DEF low
  <2> QED
    BY <2>1, <1>1, FS_Subset, FS_CardinalityType
<1>3. ASSUME NEW i \in S PROVE Rank(S, i) \in 1..c
  <2>1. i \in low(i)
    OBVIOUS
  <2>2. Cardinality(low(i)) # 0
    <3> HIDE DEF low
    <3> QED
      BY <2>1, <1>2, FS_EmptySet
  <2>3. Rank(S, i) = Cardinality(low(i))
    BY DEF Rank
  <2> HIDE DEF low
  <2> QED
    BY <2>2, <2>3, <1>1, <1>2
<1>4. ASSUME NEW i \in S, NEW j \in S, i < j PROVE Rank(S, i) < Rank(S, j)
  <2>1. low(i) \in SUBSET low(j) /\ j \in low(j) /\ j \notin low(i)
    <3>1. j <= j /\ ~(j <= i) /\ \A k \in S : k <= i => k <= j
      BY <1>0, <1>4
    <3>2. \A k \in low(i) : k \in low(j)
      BY <3>1
    <3> QED
      BY <3>1, <3>2
  <2>2. Rank(S, i) = Cardinality(low(i)) /\ Rank(S, j) = Cardinality(low(j))
    BY DEF Rank
  <2> HIDE DEF low
  <2>3. Cardinality(low(i)) <= Cardinality(low(j)) /\ Cardinality(low(i)) # Cardinality(low(j))
    BY <2>1, <1>2, FS_Subset
  <2> QED
    BY <2>2, <2>3, <1>2
<1>5. \A k \in 1..c : \E i \in S : Rank(S, i) = k
  <2> DEFINE f == [i \in S |-> Rank(S, i)]
  <2>1. f \in [S -> 1..c]
    BY <1>3
  <2>2. \A i, j \in S : f[i] = f[j] => i = j
    <3> SUFFICES ASSUME NEW i \in S, NEW j \in S, f[i] = f[j], i # j PROVE FALSE
      OBVIOUS
    <3>1. i \in Nat /\ j \in Nat /\ Rank(S, i) = Rank(S, j)
      OBVIOUS
    <3>2. Rank(S, i) \in Nat
      BY <1>1, <1>3
    <3>3. i < j \/ j < i
      BY <3>1
    <3> QED
      BY <3>1, <3>2, <3>3, <1>4
  <2>3. f \in Injection(S, 1..c)
    BY <2>1, <2>2 DEF Injection, IsInjective
  <2>4. IsFiniteSet(1..c) /\ Cardinality(1..c) = c
    BY <1>1, FS_Interval
  <2> HIDE DEF f, c
  <2>5. f \in Surjection(S, 1..c)
    BY <2>3, <2>4, FS_Injection DEF c
  <2>6. \A k \in 1..c : \E i \in S : f[i] = k
    BY <2>5 DEF Surjection
  <2> QED
    BY <2>6 DEF f
<1> HIDE DEF low
<1> QED
  BY <1>1, <1>3, <1>4, <1>5

(* In w the entries of list at the indices in kept have moved to the places  *)
(* their ranks say, in order, and nothing else is there.                     *)
Renumbered(list, kept, w) ==
  /\ IsFiniteSet(kept) /\ Cardinality(kept) \in Nat
  /\ Len(w) = Cardinality(kept)
  /\ DOMAIN w = 1..Cardinality(kept)
  /\ \A i \in kept : /\ Rank(kept, i) \in 1..Cardinality(kept)
                     /\ w[Rank(kept, i)] = list[i]
  /\ \A k \in 1..Cardinality(kept) : \E i \in kept : Rank(kept, i) = k /\ w[k] = list[i]

(* Without(list, gone) lists exactly the kept entries, in their order. *)
LEMMA WithoutProps ==
  ASSUME NEW Q, NEW list \in Seq(Q), NEW gone,
         NEW kept, kept = DOMAIN list \ gone
  PROVE  /\ Without(list, gone) \in Seq(Q)
         /\ Renumbered(list, kept, Without(list, gone))
<1> DEFINE c == Cardinality(kept)
           w == Without(list, gone)
           n == Len(list)
<1>1. n \in Nat /\ kept \in SUBSET (1..n) /\ \A i \in kept : i \in Nat /\ list[i] \in Q
  OBVIOUS
<1>2. /\ IsFiniteSet(kept) /\ c \in Nat
      /\ \A i \in kept : Rank(kept, i) \in 1..c
      /\ \A i, j \in kept : i < j => Rank(kept, i) < Rank(kept, j)
      /\ \A k \in 1..c : \E i \in kept : Rank(kept, i) = k
  <2> HIDE DEF n
  <2> QED
    BY <1>1, RankProps
<1>3. ASSUME NEW i \in kept PROVE (CHOOSE j \in kept : Rank(kept, j) = Rank(kept, i)) = i
  <2> DEFINE j == CHOOSE x \in kept : Rank(kept, x) = Rank(kept, i)
  <2>1. j \in kept /\ Rank(kept, j) = Rank(kept, i)
    OBVIOUS
  <2> HIDE DEF j, n
  <2>2. i \in Nat /\ j \in Nat
    BY <1>1, <2>1
  <2> DEFINE ri == Rank(kept, i)
             rj == Rank(kept, j)
  <2>5. /\ ri \in 1..c /\ c \in Nat /\ ri = rj
        /\ i < j => ri < rj
        /\ j < i => rj < ri
    BY <1>2, <2>1
  <2> HIDE DEF ri, rj, c
  <2>3. ~(i < j) /\ ~(j < i)
    BY <2>5
  <2>4. i = j
    BY <2>2, <2>3
  <2> QED
    BY <2>4 DEF j
<1>4. w = [k \in 1..c |-> list[CHOOSE i \in kept : Rank(kept, i) = k]]
  BY DEF Without
<1>5. ASSUME NEW i \in kept PROVE w[Rank(kept, i)] = list[i]
  <2>1. Rank(kept, i) \in 1..c
    BY <1>2
  <2> HIDE DEF w, c
  <2> QED
    BY <1>3, <1>4, <2>1
<1>6. ASSUME NEW k \in 1..c
      PROVE  \E i \in kept : Rank(kept, i) = k /\ w[k] = list[i]
  <2>1. PICK i \in kept : Rank(kept, i) = k
    BY <1>2
  <2> HIDE DEF w
  <2> QED
    BY <2>1, <1>5
<1>7. \A k \in 1..c : w[k] \in Q
  <2> HIDE DEF w
  <2> QED
    BY <1>1, <1>6
<1>8. w \in Seq(Q) /\ Len(w) = c /\ DOMAIN w = 1..c
  <2> HIDE DEF w, c
  <2>1. w \in [1..c -> Q]
    BY <1>4, <1>7
  <2> QED
    BY <2>1, <1>2, IsASeq, LenProperties
<1> HIDE DEF w, c
<1> QED
  BY <1>2, <1>5, <1>6, <1>8 DEF w, c, Renumbered

(* _missed_promoted is renumbered to where the entry has gone. *)
LEMMA ReindexedRank ==
  ASSUME NEW n \in Nat, NEW removed \in SUBSET (1..n), NEW i \in (1..n) \ removed
  PROVE  Reindexed(i, removed) = Rank((1..n) \ removed, i)
<1> DEFINE below == {r \in removed : r < i}
           low == {j \in (1..n) \ removed : j <= i}
           all == 1..i
<1>0. /\ i \in Nat /\ i \in 1..n
      /\ \A r \in removed : r \in Nat /\ 1 <= r /\ r # i
  OBVIOUS
<1>1. low = all \ below
  BY <1>0
<1>2. IsFiniteSet(all) /\ Cardinality(all) = i
  BY <1>0, FS_Interval
<1>3. all \cap below = below
  <2>1. \A r \in below : r \in all
    BY <1>0
  <2> QED
    BY <2>1
<1> HIDE DEF low, below, all
<1>4. Cardinality(low) = i - Cardinality(below)
  BY <1>1, <1>2, <1>3, FS_Difference
<1> QED
  BY <1>4 DEF low, below, Reindexed, Rank

-------------------------------------------------------------------------------
(* The inductive invariant of the tracker. *)
TrackerInv ==
  /\ TrackerTypeOK
  /\ MissedExact
  /\ PromotedFull(candidates)
  /\ HitsCounted(candidates)

Promoted(list) == {i \in DOMAIN list : list[i].promoted}

(* get_baseline() lists the promoted candidates in the order of the list. *)
BaselineOf(list) == Without(list, {i \in DOMAIN list : ~list[i].promoted})

(* Hence the baseline has one entry for each promoted candidate. *)
LEMMA BaselineOfProps ==
  ASSUME NEW list \in Seq(Candidate)
  PROVE  /\ IsFiniteSet(Promoted(list)) /\ Cardinality(Promoted(list)) \in Nat
         /\ BaselineOf(list) \in Seq(Candidate)
         /\ Len(BaselineOf(list)) = Cardinality(Promoted(list))
         /\ Renumbered(list, Promoted(list), BaselineOf(list))
<1> DEFINE gone == {i \in DOMAIN list : ~list[i].promoted}
           kept == Promoted(list)
<1>1. kept = DOMAIN list \ gone
  BY DEF Promoted
<1>2. BaselineOf(list) = Without(list, gone)
  BY DEF BaselineOf
<1> HIDE DEF gone, kept
<1>3. /\ Without(list, gone) \in Seq(Candidate)
      /\ Renumbered(list, kept, Without(list, gone))
  BY <1>1, WithoutProps
<1> QED
  BY <1>2, <1>3 DEF kept, Renumbered

(* Counting by ranks: as many as were kept are there. *)
LEMMA RankCounts ==
  ASSUME NEW n \in Nat, NEW kept \in SUBSET (1..n), NEW A \in SUBSET kept,
         NEW B, IsFiniteSet(B), \A i \in A : Rank(kept, i) \in B
  PROVE  Cardinality(A) <= Cardinality(B)
<1> DEFINE f == [i \in A |-> Rank(kept, i)]
<1>1. f \in [A -> B]
  OBVIOUS
<1>2. \A i, j \in A : f[i] = f[j] => i = j
  <2> SUFFICES ASSUME NEW i \in A, NEW j \in A, f[i] = f[j], i # j PROVE FALSE
    OBVIOUS
  <2> DEFINE ri == Rank(kept, i)
             rj == Rank(kept, j)
  <2>1. i \in Nat /\ j \in Nat /\ ri = rj
    OBVIOUS
  <2>2. /\ ri \in 1..Cardinality(kept) /\ Cardinality(kept) \in Nat
        /\ i < j => ri < rj
        /\ j < i => rj < ri
    BY RankProps
  <2> HIDE DEF ri, rj
  <2> QED
    BY <2>1, <2>2
<1>3. f \in Injection(A, B)
  BY <1>1, <1>2 DEF Injection, IsInjective
<1> HIDE DEF f
<1> QED
  BY <1>3, FS_Injection

(* Between the miss count and the removal a candidate may have all misses. *)
AgedCandidate == [group : Group, at : Nat, hits : 1..AddThreshold,
                  misses : 0..MaxMisses, promoted : BOOLEAN, images : 1..AddThreshold]

(* What the miss count of a cycle changes: misses of the unmatched only. *)
LEMMA AgedProps ==
  ASSUME NEW f, FedType(f), FedMatched(f)
  PROVE  /\ Aged(f) \in Seq(AgedCandidate)
         /\ DOMAIN Aged(f) = DOMAIN f.list
         /\ DOMAIN f.list = 1..Len(f.list) /\ Len(f.list) \in Nat
         /\ \A i \in DOMAIN f.list :
              /\ Aged(f)[i].group = f.list[i].group
              /\ Aged(f)[i].hits = f.list[i].hits
              /\ Aged(f)[i].promoted = f.list[i].promoted
              /\ Aged(f)[i].images = f.list[i].images
              /\ Aged(f)[i].misses = IF i \in f.matched THEN 0 ELSE f.list[i].misses + 1
<1> DEFINE n == Len(f.list)
           a == Aged(f)
<1>1. n \in Nat /\ DOMAIN f.list = 1..n /\ \A i \in 1..n : f.list[i] \in Candidate
  BY DEF FedType
<1>2. a = [i \in 1..n |-> IF i \in f.matched THEN f.list[i]
                          ELSE [f.list[i] EXCEPT !.misses = f.list[i].misses + 1]]
  BY <1>1 DEF Aged
<1> HIDE DEF a, n
<1>3. ASSUME NEW i \in 1..n
      PROVE  /\ a[i] \in AgedCandidate
             /\ a[i].group = f.list[i].group
             /\ a[i].hits = f.list[i].hits
             /\ a[i].promoted = f.list[i].promoted
             /\ a[i].images = f.list[i].images
             /\ a[i].misses = IF i \in f.matched THEN 0 ELSE f.list[i].misses + 1
  <2> DEFINE c == f.list[i]
  <2>1. /\ c \in [group : Group, at : Nat, hits : 1..AddThreshold,
                  misses : 0..(MaxMisses - 1), promoted : BOOLEAN,
                  images : 1..AddThreshold]
        /\ c.misses \in 0..2
    BY <1>1 DEF Candidate, MaxMisses
  <2>2. CASE i \in f.matched
    <3>1. c.misses = 0 /\ a[i] = c
      BY <2>2, <1>2 DEF FedMatched
    <3>2. c \in AgedCandidate
      BY <2>1, Constants DEF AgedCandidate, MaxMisses
    <3> QED
      BY <2>2, <3>1, <3>2
  <2>3. CASE i \notin f.matched
    <3>1. a[i] = [c EXCEPT !.misses = c.misses + 1]
      BY <2>3, <1>2
    <3>2. c.misses + 1 \in 0..MaxMisses
      BY <2>1 DEF MaxMisses
    <3> HIDE DEF c
    <3>3. a[i] \in AgedCandidate
      BY <2>1, <3>1, <3>2 DEF AgedCandidate
    <3>4. /\ a[i].group = c.group /\ a[i].hits = c.hits
          /\ a[i].promoted = c.promoted /\ a[i].misses = c.misses + 1
          /\ a[i].images = c.images
      BY <2>1, <3>1
    <3> QED
      BY <2>3, <3>3, <3>4 DEF c
  <2> QED
    BY <2>2, <2>3
<1>4. a \in Seq(AgedCandidate) /\ DOMAIN a = 1..n
  <2>1. a \in [1..n -> AgedCandidate]
    BY <1>2, <1>3
  <2> QED
    BY <2>1, <1>1, IsASeq DEF n
<1> QED
  BY <1>1, <1>3, <1>4 DEF a, n

(* The promoted candidates of a list grow in number from one state to the    *)
(* next, or at least do not shrink.                                          *)
NoneLost == Cardinality(Promoted(candidates)) <= Cardinality(Promoted(candidates)')

(* observe(): nothing is removed, renumbered or demoted. *)
LEMMA ObserveEffect ==
  ASSUME TrackerInv, NEW frame \in Frame, Observe(frame)
  PROVE  /\ TrackerInv'
         /\ Promoted(candidates) \subseteq Promoted(candidates)'
         /\ NoneLost
         /\ \A i \in DOMAIN candidates : /\ i \in DOMAIN candidates'
                                         /\ candidates'[i].group = candidates[i].group
         /\ \A d \in ToSet(frame) : \E i \in DOMAIN candidates' : Matches(d, candidates'[i])
<1> DEFINE f == Feed(frame)
<1>f. FedInv(f, frame, Len(frame))
  BY FeedInv DEF TrackerInv, TrackerTypeOK
<1>c. candidates' = f.list /\ missed' = missed /\ cycles' = cycles
  BY DEF Observe
<1>n. /\ Len(candidates) \in Nat /\ DOMAIN candidates = 1..Len(candidates)
      /\ candidates \in Seq(Candidate)
  BY DEF TrackerInv, TrackerTypeOK
<1>m. candidates' \in Seq(Candidate) /\ DOMAIN candidates' = 1..Len(candidates')
      /\ Len(candidates') \in Nat /\ Len(candidates) <= Len(candidates')
  BY <1>f, <1>c DEF FedInv, FedType
<1> HIDE DEF f
<1>i. \A i \in DOMAIN candidates : i \in DOMAIN candidates'
  BY <1>n, <1>m
<1>1. TrackerTypeOK'
  BY <1>m, <1>c, <1>i DEF TrackerInv, TrackerTypeOK
<1>2. \A i \in DOMAIN candidates : candidates[i].promoted => candidates'[i].promoted
  BY <1>f, <1>c, <1>n DEF FedInv, FedOld
<1>3. MissedExact'
  <2>1. \A i \in missed : i \in DOMAIN candidates' /\ candidates'[i].promoted
    BY <1>2, <1>i DEF TrackerInv, MissedExact
  <2>2. ASSUME NEW i \in DOMAIN candidates', candidates'[i].promoted, candidates'[i].misses > 0
        PROVE  i \in missed
    <3>1. i \notin f.matched
      <4> SUFFICES ASSUME i \in f.matched PROVE FALSE
        OBVIOUS
      <4>1. candidates'[i].misses = 0
        BY <1>f, <1>c DEF FedInv, FedMatched
      <4> QED
        BY <4>1, <2>2
    <3>2. i <= Len(candidates)
      BY <3>1, <2>2, <1>f, <1>c, <1>m, <1>n DEF FedInv, FedNew
    <3>3. i \in DOMAIN candidates /\ candidates'[i] = candidates[i]
      BY <3>1, <3>2, <1>f, <1>c, <1>m, <1>n DEF FedInv, FedOld
    <3> QED
      BY <3>3, <2>2 DEF TrackerInv, MissedExact
  <2> QED
    BY <2>1, <2>2, <1>c DEF MissedExact
<1>4. PromotedFull(candidates)' /\ HitsCounted(candidates)'
  BY <1>f, <1>c DEF FedInv, PromotedFull, HitsCounted
<1>5. Promoted(candidates) \subseteq Promoted(candidates)'
  BY <1>2, <1>i DEF Promoted
<1>6. NoneLost
  <2>1. IsFiniteSet(Promoted(candidates)')
    BY <1>m, BaselineOfProps
  <2> QED
    BY <2>1, <1>5, FS_Subset DEF NoneLost
<1>7. \A i \in DOMAIN candidates : candidates'[i].group = candidates[i].group
  BY <1>f, <1>c, <1>n DEF FedInv, FedOld
<1>8. \A d \in ToSet(frame) : \E i \in DOMAIN candidates' : Matches(d, candidates'[i])
  BY <1>f, <1>c, FrameShape DEF FedInv, FedSeen, ToSet
<1> QED
  BY <1>1, <1>3, <1>4, <1>5, <1>6, <1>7, <1>8, <1>i DEF TrackerInv

(* update(): candidates that miss three times go, none of them promoted, and *)
(* the promoted ones that were missed are known by their new indices.        *)
LEMMA UpdateEffect ==
  ASSUME TrackerInv, NEW frame \in Frame, Update(frame)
  PROVE  /\ TrackerInv'
         /\ NoneLost
<1> DEFINE f == Feed(frame)
           list == Aged(f)
           n == Len(f.list)
           removed == Forgotten(list, f.matched)
           P == {i \in DOMAIN list \ f.matched : list[i].promoted}
           kept == (1..n) \ removed
<1>f. FedInv(f, frame, Len(frame))
  BY FeedInv DEF TrackerInv, TrackerTypeOK
<1>c. /\ candidates' = Without(list, removed)
      /\ missed' = {Reindexed(i, removed) : i \in P}
      /\ cycles' = AtMost(cycles + 1, AddThreshold)
      /\ missed = {}
  BY DEF Update
<1>o. /\ Len(candidates) \in Nat /\ DOMAIN candidates = 1..Len(candidates)
      /\ candidates \in Seq(Candidate) /\ cycles \in 0..AddThreshold
  BY DEF TrackerInv, TrackerTypeOK
<1> HIDE DEF f
<1>l. /\ list \in Seq(AgedCandidate) /\ DOMAIN list = 1..n /\ n \in Nat
      /\ DOMAIN f.list = 1..n
      /\ \A i \in 1..n :
           /\ list[i] \in AgedCandidate
           /\ list[i].group = f.list[i].group
           /\ list[i].hits = f.list[i].hits
           /\ list[i].promoted = f.list[i].promoted
           /\ list[i].images = f.list[i].images
           /\ list[i].misses = IF i \in f.matched THEN 0 ELSE f.list[i].misses + 1
           /\ f.list[i] \in Candidate
  <2>1. /\ list \in Seq(AgedCandidate)
        /\ DOMAIN list = DOMAIN f.list
        /\ DOMAIN f.list = 1..n /\ n \in Nat
        /\ \A i \in DOMAIN f.list :
             /\ list[i].group = f.list[i].group
             /\ list[i].hits = f.list[i].hits
             /\ list[i].promoted = f.list[i].promoted
             /\ list[i].images = f.list[i].images
             /\ list[i].misses = IF i \in f.matched THEN 0 ELSE f.list[i].misses + 1
    BY <1>f, AgedProps DEF FedInv
  <2>2. \A i \in DOMAIN f.list : f.list[i] \in Candidate
    BY <1>f DEF FedInv, FedType
  <2> HIDE DEF list, n
  <2> QED
    BY <2>1, <2>2
<1>r. removed = {i \in (1..n) \ f.matched : ~list[i].promoted /\ list[i].misses >= MaxMisses}
  BY <1>l DEF Forgotten
<1> HIDE DEF list, n, removed
<1>k. kept = DOMAIN list \ removed /\ removed \in SUBSET (1..n) /\ P \in SUBSET kept
  BY <1>l, <1>r
<1> HIDE DEF kept
(* What is kept is a candidate again. *)
<1>1. ASSUME NEW i \in kept PROVE list[i] \in Candidate
  <2>1. i \in 1..n /\ i \notin removed
    BY <1>k, <1>l
  <2>2. /\ list[i] \in AgedCandidate /\ f.list[i] \in Candidate
        /\ list[i].promoted = f.list[i].promoted
        /\ list[i].misses = IF i \in f.matched THEN 0 ELSE f.list[i].misses + 1
    BY <2>1, <1>l
  <2>3. list[i].misses \in 0..(MaxMisses - 1)
    <3>1. CASE i \in f.matched
      BY <3>1, <2>2 DEF MaxMisses
    <3>2. CASE i \notin f.matched /\ ~list[i].promoted
      <4>1. ~(list[i].misses >= MaxMisses)
        BY <3>2, <2>1, <1>r
      <4>2. list[i].misses \in 0..MaxMisses
        BY <2>2 DEF AgedCandidate
      <4> QED
        BY <4>1, <4>2 DEF MaxMisses
    <3>3. CASE i \notin f.matched /\ list[i].promoted
      <4>1. i <= Len(candidates)
        BY <3>3, <2>1, <2>2, <1>l, <1>o, <1>f DEF FedInv, FedNew
      <4>2. i \in DOMAIN candidates /\ f.list[i] = candidates[i] /\ candidates[i].promoted
        BY <3>3, <4>1, <2>1, <2>2, <1>o, <1>f DEF FedInv, FedOld
      <4>3. candidates[i].misses \in Nat
        <5> candidates[i] \in Candidate
          BY <4>2, <1>o
        <5> QED
          BY DEF Candidate
      <4>4. candidates[i].misses = 0
        BY <4>2, <4>3, <1>c DEF TrackerInv, MissedExact
      <4> QED
        BY <4>2, <4>4, <2>2, <3>3 DEF MaxMisses
    <3> QED
      BY <3>1, <3>2, <3>3
  <2> QED
    BY <2>2, <2>3 DEF Candidate, AgedCandidate
<1>2. /\ IsFiniteSet(kept) /\ Cardinality(kept) \in Nat
      /\ candidates' \in Seq(AgedCandidate)
      /\ DOMAIN candidates' = 1..Cardinality(kept)
      /\ \A i \in kept : /\ Rank(kept, i) \in 1..Cardinality(kept)
                         /\ candidates'[Rank(kept, i)] = list[i]
      /\ \A k \in 1..Cardinality(kept) :
           \E i \in kept : Rank(kept, i) = k /\ candidates'[k] = list[i]
  <2>1. candidates' \in Seq(AgedCandidate) /\ Renumbered(list, kept, candidates')
    BY <1>c, <1>k, <1>l, WithoutProps
  <2> QED
    BY <2>1 DEF Renumbered
<1>3. candidates' \in Seq(Candidate)
  <2>1. candidates' \in [1..Cardinality(kept) -> Candidate]
    BY <1>1, <1>2
  <2> QED
    BY <2>1, <1>2, IsASeq
<1>4. missed' = {Rank(kept, i) : i \in P}
  <2>1. \A i \in P : Reindexed(i, removed) = Rank(kept, i)
    BY <1>k, <1>l, ReindexedRank DEF kept
  <2> QED
    BY <2>1, <1>c
<1>p. \A i \in P : i \in kept /\ i \notin f.matched /\ list[i].promoted
  BY <1>k
<1>q. \A i \in kept : list[i].promoted /\ list[i].misses > 0 => i \in P
  BY <1>k, <1>l DEF kept
<1> HIDE DEF P
<1>5. TrackerTypeOK'
  <2>1. missed' \subseteq DOMAIN candidates'
    BY <1>2, <1>4, <1>p
  <2>2. cycles' \in 0..AddThreshold
    BY <1>c, <1>o, Constants DEF AtMost
  <2> QED
    BY <2>1, <2>2, <1>3 DEF TrackerTypeOK
<1>6. MissedExact'
  <2>1. \A x \in missed' : x \in DOMAIN candidates' /\ candidates'[x].promoted
    BY <1>2, <1>4, <1>p
  <2>2. \A k \in DOMAIN candidates' :
          candidates'[k].promoted /\ candidates'[k].misses > 0 => k \in missed'
    BY <1>2, <1>4, <1>q
  <2> QED
    BY <2>1, <2>2 DEF MissedExact
<1>7. PromotedFull(candidates)'
  <2>1. \A i \in kept : list[i].promoted => list[i].hits = AddThreshold
    BY <1>f, <1>l DEF FedInv, PromotedFull, kept
  <2> QED
    BY <2>1, <1>2 DEF PromotedFull
<1>h. HitsCounted(candidates)'
  <2>1. \A i \in kept : list[i].hits <= list[i].images + 1
    BY <1>f, <1>l DEF FedInv, HitsCounted, kept
  <2> QED
    BY <2>1, <1>2 DEF HitsCounted
<1>8. NoneLost
  <2>1. \A i \in Promoted(candidates) : i \in kept /\ list[i].promoted
    <3> SUFFICES ASSUME NEW i \in Promoted(candidates)
                 PROVE  i \in kept /\ list[i].promoted
      OBVIOUS
    <3>1. i \in 1..Len(candidates) /\ candidates[i].promoted
      BY <1>o DEF Promoted
    <3>2. i \in 1..n /\ f.list[i].promoted
      BY <3>1, <1>o, <1>l, <1>f DEF FedInv, FedType, FedOld, n
    <3> QED
      BY <3>2, <1>l, <1>r DEF kept
  <2>2. IsFiniteSet(Promoted(candidates)')
    BY <1>3, BaselineOfProps
  <2>3. \A i \in Promoted(candidates) : Rank(kept, i) \in Promoted(candidates)'
    BY <2>1, <1>2 DEF Promoted
  <2>4. kept \in SUBSET (1..n) /\ Promoted(candidates) \in SUBSET kept
    BY <2>1 DEF kept
  <2> QED
    BY <2>2, <2>3, <2>4, <1>l, RankCounts DEF NoneLost
<1> QED
  BY <1>5, <1>6, <1>7, <1>h, <1>8 DEF TrackerInv, f

(* verify_missed(): only missed candidates go, and no miss stays on record   *)
(* of a promoted one.                                                        *)
LEMMA VerifyEffect ==
  ASSUME TrackerInv, NEW frame, VerifyMissed(frame)
  PROVE  /\ TrackerInv'
         /\ Cardinality(missed) \in Nat
         /\ Cardinality(Promoted(candidates)) - Cardinality(missed)
              <= Cardinality(Promoted(candidates)')
<1> DEFINE list == [i \in DOMAIN candidates |->
                      IF i \in missed THEN [candidates[i] EXCEPT !.misses = 0]
                                      ELSE candidates[i]]
           n == Len(candidates)
           gone == NotFound(frame)
           kept == (1..n) \ gone
<1>c. candidates' = Without(list, gone) /\ missed' = {} /\ cycles' = cycles
  BY DEF VerifyMissed
<1>o. /\ n \in Nat /\ DOMAIN candidates = 1..n /\ candidates \in Seq(Candidate)
      /\ missed \subseteq 1..n
      /\ \A i \in 1..n : candidates[i] \in Candidate
  BY DEF TrackerInv, TrackerTypeOK
<1>g. gone \subseteq missed
  BY DEF NotFound
<1> HIDE DEF n, gone
<1>1. ASSUME NEW i \in 1..n
      PROVE  /\ list[i] \in Candidate
             /\ list[i].group = candidates[i].group
             /\ list[i].hits = candidates[i].hits
             /\ list[i].promoted = candidates[i].promoted
             /\ list[i].images = candidates[i].images
             /\ list[i].promoted => list[i].misses = 0
  <2> DEFINE c == candidates[i]
  <2>1. c \in Candidate /\ i \in DOMAIN candidates /\ c.misses \in Nat
    BY <1>o DEF Candidate
  <2>2. CASE i \in missed
    <3>1. list[i] = [c EXCEPT !.misses = 0]
      BY <2>1, <2>2
    <3> HIDE DEF list, c
    <3>2. list[i] \in Candidate
      BY <2>1, <3>1 DEF Candidate, MaxMisses
    <3>3. /\ list[i].group = c.group /\ list[i].hits = c.hits
          /\ list[i].promoted = c.promoted /\ list[i].misses = 0
          /\ list[i].images = c.images
      BY <2>1, <3>1 DEF Candidate
    <3> QED
      BY <3>2, <3>3 DEF c
  <2>3. CASE i \notin missed
    <3>1. list[i] = c
      BY <2>1, <2>3
    <3>2. c.promoted => c.misses = 0
      BY <2>1, <2>3 DEF TrackerInv, MissedExact
    <3> HIDE DEF list
    <3> QED
      BY <2>1, <3>1, <3>2
  <2> QED
    BY <2>2, <2>3
<1>l. list \in Seq(Candidate) /\ DOMAIN list = 1..n
  <2>1. DOMAIN list = 1..n /\ list = [i \in 1..n |-> list[i]]
    BY <1>o
  <2> HIDE DEF list
  <2>2. list \in [1..n -> Candidate]
    BY <1>1, <2>1
  <2> QED
    BY <2>1, <2>2, <1>o, IsASeq
<1> HIDE DEF list
<1>k. kept = DOMAIN list \ gone
  BY <1>l
<1> HIDE DEF kept
<1>2. /\ IsFiniteSet(kept) /\ Cardinality(kept) \in Nat
      /\ candidates' \in Seq(Candidate)
      /\ DOMAIN candidates' = 1..Cardinality(kept)
      /\ \A i \in kept : /\ Rank(kept, i) \in 1..Cardinality(kept)
                         /\ candidates'[Rank(kept, i)] = list[i]
      /\ \A k \in 1..Cardinality(kept) :
           \E i \in kept : Rank(kept, i) = k /\ candidates'[k] = list[i]
  <2>1. candidates' \in Seq(Candidate) /\ Renumbered(list, kept, candidates')
    BY <1>c, <1>k, <1>l, WithoutProps
  <2> QED
    BY <2>1 DEF Renumbered
<1>s. \A i \in kept : i \in 1..n
  BY DEF kept
<1>3. TrackerInv'
  <2>1. TrackerTypeOK'
    BY <1>2, <1>c DEF TrackerInv, TrackerTypeOK
  <2>2. \A k \in DOMAIN candidates' : candidates'[k].promoted => candidates'[k].misses = 0
    BY <1>1, <1>2, <1>s
  <2>3. MissedExact'
    BY <2>2, <1>c DEF MissedExact
  <2>4. PromotedFull(candidates)'
    <3>1. \A i \in kept : list[i].promoted => list[i].hits = AddThreshold
      BY <1>1, <1>s, <1>o DEF TrackerInv, PromotedFull
    <3> QED
      BY <3>1, <1>2 DEF PromotedFull
  <2>5. HitsCounted(candidates)'
    <3>1. \A i \in kept : list[i].hits <= list[i].images + 1
      BY <1>1, <1>s, <1>o DEF TrackerInv, HitsCounted
    <3> QED
      BY <3>1, <1>2 DEF HitsCounted
  <2> QED
    BY <2>1, <2>3, <2>4, <2>5 DEF TrackerInv
<1>5. /\ Cardinality(missed) \in Nat
      /\ Cardinality(Promoted(candidates)) - Cardinality(missed)
           <= Cardinality(Promoted(candidates)')
  <2> DEFINE A == Promoted(candidates) \ gone
             old == Promoted(candidates)
             new == Promoted(candidates)'
  <2>1. IsFiniteSet(old) /\ Cardinality(old) \in Nat
    BY <1>o, BaselineOfProps
  <2>2. IsFiniteSet(new) /\ Cardinality(new) \in Nat
    BY <1>2, BaselineOfProps
  <2>3. IsFiniteSet(missed) /\ Cardinality(missed) \in Nat
    BY <1>o, RankProps
  <2>4. \A i \in A : i \in kept /\ list[i].promoted
    BY <1>o, <1>1 DEF Promoted, kept
  <2>5. \A i \in A : Rank(kept, i) \in new
    BY <2>4, <1>2 DEF Promoted
  <2>6. A \in SUBSET kept /\ kept \in SUBSET (1..n)
    BY <2>4 DEF kept
  <2> HIDE DEF A, old, new
  <2>7. Cardinality(A) <= Cardinality(new)
    BY <2>2, <2>5, <2>6, <1>o, RankCounts
  <2>8. Cardinality(A) = Cardinality(old) - Cardinality(old \cap gone)
    BY <2>1, FS_Difference DEF A, old
  <2>9. old \cap gone \in SUBSET missed
    BY <1>g
  <2>10. Cardinality(old \cap gone) <= Cardinality(missed) /\ Cardinality(old \cap gone) \in Nat
    BY <2>3, <2>9, FS_Subset, FS_CardinalityType
  <2> QED
    BY <2>1, <2>2, <2>3, <2>7, <2>8, <2>10 DEF old, new
<1> QED
  BY <1>3, <1>5

-------------------------------------------------------------------------------
(* The tracker starts without candidates. *)
LEMMA InitTrackerInv == TrackerInit => TrackerInv
<1> SUFFICES ASSUME TrackerInit PROVE TrackerInv
  OBVIOUS
<1>1. candidates = <<>> /\ cycles = 0 /\ missed = {}
  BY DEF TrackerInit
<1>2. DOMAIN candidates = {} /\ candidates \in Seq(Candidate)
  BY <1>1
<1> QED
  BY <1>1, <1>2, Constants DEF TrackerInv, TrackerTypeOK, MissedExact, PromotedFull, HitsCounted

(* Every operation of the tracker keeps its invariant. *)
LEMMA TrackerStep == TrackerInv /\ [TrackerNext]_trackerVars => TrackerInv'
<1> SUFFICES ASSUME TrackerInv, [TrackerNext]_trackerVars PROVE TrackerInv'
  OBVIOUS
<1>1. ASSUME NEW frame \in Frame, Observe(frame) PROVE TrackerInv'
  BY <1>1, ObserveEffect
<1>2. ASSUME NEW frame \in Frame, Update(frame) PROVE TrackerInv'
  BY <1>2, UpdateEffect
<1>3. ASSUME NEW frame \in Frame, VerifyMissed(frame) PROVE TrackerInv'
  BY <1>3, VerifyEffect
<1>4. CASE UNCHANGED trackerVars
  BY <1>4 DEF trackerVars, TrackerInv, TrackerTypeOK, MissedExact, PromotedFull, HitsCounted
<1> QED
  BY <1>1, <1>2, <1>3, <1>4 DEF TrackerNext

(* The tracker's data is well formed in every reachable state. *)
THEOREM TrackerTypeCorrect == TrackerSpec => []TrackerTypeOK
<1>1. TrackerInv => TrackerTypeOK
  BY DEF TrackerInv
<1> QED
  BY <1>1, InitTrackerInv, TrackerStep, PTL DEF TrackerSpec

(* _missed_promoted names exactly the promoted candidates with a miss on     *)
(* record, however the list was shortened and extended since.                *)
THEOREM MissedIsExact == TrackerSpec => []MissedExact
<1>1. TrackerInv => MissedExact
  BY DEF TrackerInv
<1> QED
  BY <1>1, InitTrackerInv, TrackerStep, PTL DEF TrackerSpec

(* A promoted object was seen in all but one of AddThreshold images,         *)
(* whatever boxes each image had: HitsCounted.                               *)
THEOREM SeenEnough == TrackerSpec => []SeenBeforePromoted
<1>1. TrackerInv => SeenBeforePromoted
  <2> SUFFICES ASSUME TrackerInv, NEW i \in DOMAIN candidates, candidates[i].promoted
               PROVE  candidates[i].images >= AddThreshold - 1
    BY DEF SeenBeforePromoted
  <2>1. candidates[i] \in Candidate
    BY DEF TrackerInv, TrackerTypeOK
  <2>2. candidates[i].hits = AddThreshold /\ candidates[i].hits <= candidates[i].images + 1
    BY DEF TrackerInv, PromotedFull, HitsCounted
  <2> QED
    BY <2>1, <2>2, Constants DEF Candidate
<1> QED
  BY <1>1, InitTrackerInv, TrackerStep, PTL DEF TrackerSpec

(* The length of the baseline is the number of promoted candidates. *)
LEMMA BaselineCount ==
  ASSUME TrackerInv
  PROVE  /\ Cardinality(Promoted(candidates)) \in Nat
         /\ Len(GetBaseline) = Cardinality(Promoted(candidates))
         /\ GetBaseline \in Seq(Candidate)
         /\ GetBaseline = BaselineOf(candidates)
<1>1. GetBaseline = BaselineOf(candidates)
  BY DEF GetBaseline, BaselineOf
<1> QED
  BY <1>1, BaselineOfProps DEF TrackerInv, TrackerTypeOK

(* The same after a step. *)
LEMMA BaselineCountNext ==
  ASSUME TrackerInv'
  PROVE  /\ Cardinality(Promoted(candidates)') \in Nat
         /\ Len(GetBaseline') = Cardinality(Promoted(candidates)')
         /\ GetBaseline' \in Seq(Candidate)
         /\ GetBaseline' = BaselineOf(candidates')
<1>1. GetBaseline' = BaselineOf(candidates')
  BY DEF GetBaseline, BaselineOf
<1>2. candidates' \in Seq(Candidate)
  BY DEF TrackerInv, TrackerTypeOK
<1>3. Promoted(candidates)' = Promoted(candidates')
  BY DEF Promoted
<1> QED
  BY <1>1, <1>2, <1>3, BaselineOfProps

(* No step takes more out of the baseline than the candidates that were      *)
(* waiting for their verification.                                           *)
THEOREM BaselineIsKept == TrackerSpec => BaselineKept
<1> DEFINE Kept == Len(GetBaseline') >= Len(GetBaseline) - Cardinality(missed)
<1>1. TrackerInv /\ [TrackerNext]_trackerVars => [Kept]_trackerVars
  <2> SUFFICES ASSUME TrackerInv, TrackerNext PROVE Kept
    OBVIOUS
  <2>1. TrackerInv'
    BY TrackerStep
  <2>2. /\ Cardinality(Promoted(candidates)) \in Nat
        /\ Len(GetBaseline) = Cardinality(Promoted(candidates))
    BY BaselineCount
  <2>3. /\ Cardinality(Promoted(candidates)') \in Nat
        /\ Len(GetBaseline') = Cardinality(Promoted(candidates)')
    BY <2>1, BaselineCountNext
  <2>4. Cardinality(missed) \in Nat
    <3>1. Len(candidates) \in Nat /\ missed \in SUBSET (1..Len(candidates))
      BY DEF TrackerInv, TrackerTypeOK
    <3> QED
      BY <3>1, RankProps
  <2>5. Cardinality(Promoted(candidates)) - Cardinality(missed)
          <= Cardinality(Promoted(candidates)')
    <3>1. ASSUME NEW frame \in Frame, Observe(frame) \/ Update(frame) PROVE NoneLost
      BY <3>1, ObserveEffect, UpdateEffect
    <3>2. NoneLost => Cardinality(Promoted(candidates)) <= Cardinality(Promoted(candidates)')
      BY DEF NoneLost
    <3>3. NoneLost \/ \E frame \in Frame : VerifyMissed(frame)
      BY <3>1 DEF TrackerNext
    <3>4. CASE NoneLost
      BY <3>2, <3>4, <2>2, <2>3, <2>4
    <3>5. CASE \E frame \in Frame : VerifyMissed(frame)
      BY <3>5, VerifyEffect
    <3> QED
      BY <3>3, <3>4, <3>5
  <2> QED
    BY <2>2, <2>3, <2>4, <2>5
<1> QED
  BY <1>1, InitTrackerInv, TrackerStep, PTL DEF TrackerSpec, BaselineKept

-------------------------------------------------------------------------------
(* BaselineService: the inductive invariant.  The loop is at its second      *)
(* await exactly while there are missed candidates, so that the guards of    *)
(* Update and VerifyMissed never hold the loop up; and camera.baseline never *)
(* has more objects than the tracker, also while a verification is awaited.  *)
VerificationPending == scan = "verify" <=> missed # {}

BaselineBehind == Len(baseline) <= Len(GetBaseline)

IInv ==
  /\ TrackerInv
  /\ TypeOK
  /\ VerificationPending
  /\ BaselineInSync
  /\ BaselineBehind
  /\ WarmupQuiet

(* The part of the invariant that only steps of the tracker can disturb. *)
TrackedInv ==
  /\ TrackerInv
  /\ VerificationPending
  /\ BaselineInSync
  /\ BaselineBehind

ShrinksVerified ==
  Len(baseline') < Len(baseline) => scan = "verify" /\ scan' = "idle"

(* A fresh copy of the tracker's baseline agrees with it. *)
LEMMA RefreshedProps ==
  ASSUME TrackerInv', baseline' = Refreshed
  PROVE  /\ baseline' \in Seq([group : Group, at : Nat])
         /\ Len(baseline') = Len(GetBaseline')
         /\ BaselineInSync'
         /\ BaselineBehind'
<1> DEFINE b == GetBaseline'
           m == Len(b)
<1>1. b \in Seq(Candidate)
  BY BaselineCountNext
<1>2. m \in Nat /\ DOMAIN b = 1..m /\ \A i \in 1..m : b[i].group \in Group /\ b[i].at \in Nat
  <2>1. \A i \in 1..m : b[i] \in Candidate
    BY <1>1
  <2>2. \A c \in Candidate : c.group \in Group /\ c.at \in Nat
    BY DEF Candidate
  <2> HIDE DEF b
  <2> QED
    BY <1>1, <2>1, <2>2
<1>3. baseline' = [i \in DOMAIN b |-> [group |-> b[i].group, at |-> b[i].at]]
  BY DEF Refreshed, Snapshot
<1> HIDE DEF b
<1>4. baseline' \in Seq([group : Group, at : Nat]) /\ DOMAIN baseline' = 1..m
  <2> HIDE DEF m
  <2>1. DOMAIN baseline' = 1..m
    BY <1>2, <1>3
  <2>2. \A i \in 1..m : baseline'[i] \in [group : Group, at : Nat]
    BY <1>2, <1>3
  <2>3. baseline' \in [1..m -> [group : Group, at : Nat]]
    BY <1>2, <1>3, <2>1, <2>2
  <2>4. ASSUME NEW R, NEW f \in [1..m -> R] PROVE f \in Seq(R)
    BY <1>2, IsASeq
  <2> QED
    BY <2>1, <2>3, <2>4
<1>5. Len(baseline') = m
  BY <1>2, <1>4, LenProperties
<1>6. \A i \in 1..m : baseline'[i].group = b[i].group
  BY <1>2, <1>3
<1>7. BaselineInSync'
  <2>1. [i \in DOMAIN baseline' |-> baseline'[i].group] = [i \in DOMAIN b |-> b[i].group]
    BY <1>2, <1>4, <1>6
  <2> QED
    BY <2>1 DEF b, BaselineInSync
<1>8. BaselineBehind'
  BY <1>2, <1>5 DEF b, BaselineBehind
<1> QED
  BY <1>4, <1>5, <1>7, <1>8 DEF b

(* Two lists with the same promoted indices and groups have baselines with   *)
(* the same groups, wherever the candidates have moved.                      *)
LEMMA SameGroups ==
  ASSUME NEW x \in Seq(Candidate), NEW y \in Seq(Candidate),
         Promoted(x) = Promoted(y),
         \A i \in Promoted(x) : x[i].group = y[i].group
  PROVE  [i \in DOMAIN BaselineOf(x) |-> BaselineOf(x)[i].group] =
         [i \in DOMAIN BaselineOf(y) |-> BaselineOf(y)[i].group]
<1> DEFINE kept == Promoted(x)
           bx == BaselineOf(x)
           by == BaselineOf(y)
<1>1. Renumbered(x, kept, bx)
  BY BaselineOfProps
<1>2. Renumbered(y, kept, by)
  BY BaselineOfProps
<1> HIDE DEF kept, bx, by
<1>3. DOMAIN bx = DOMAIN by
  BY <1>1, <1>2 DEF Renumbered
<1>4. ASSUME NEW k \in DOMAIN bx PROVE bx[k].group = by[k].group
  <2>1. PICK i \in kept : Rank(kept, i) = k /\ bx[k] = x[i]
    BY <1>1 DEF Renumbered
  <2>2. by[k] = y[i]
    BY <1>2, <2>1 DEF Renumbered
  <2> QED
    BY <2>1, <2>2 DEF kept
<1>5. [i \in DOMAIN bx |-> bx[i].group] = [i \in DOMAIN by |-> by[i].group]
  BY <1>3, <1>4
<1> QED
  BY <1>5 DEF bx, by

(* Steps that leave the tracker and camera.baseline alone. *)
LEMMA Untracked ==
  ASSUME IInv, UNCHANGED trackerVars, baseline' = baseline,
         scan' = "verify" <=> scan = "verify"
  PROVE  TrackedInv' /\ ShrinksVerified
<1>1. candidates' = candidates /\ cycles' = cycles /\ missed' = missed
  BY DEF trackerVars
<1>2. TrackerInv'
  BY <1>1 DEF IInv, TrackerInv, TrackerTypeOK, MissedExact, PromotedFull, HitsCounted
<1>3. GetBaseline' = GetBaseline
  BY <1>1 DEF GetBaseline
<1>4. VerificationPending' /\ BaselineInSync' /\ BaselineBehind'
  BY <1>1, <1>3 DEF IInv, VerificationPending, BaselineInSync, BaselineBehind
<1>5. ShrinksVerified
  <2>1. Len(baseline) \in Nat
    BY DEF IInv, TypeOK
  <2> QED
    BY <2>1 DEF ShrinksVerified
<1> QED
  BY <1>2, <1>4, <1>5 DEF TrackedInv

(* Lengths before a step. *)
LEMMA Lengths ==
  ASSUME IInv
  PROVE  /\ Len(baseline) \in Nat
         /\ Len(GetBaseline) \in Nat
         /\ Len(baseline) <= Len(GetBaseline)
         /\ Len(GetBaseline) = Cardinality(Promoted(candidates))
BY BaselineCount DEF IInv, TypeOK, BaselineBehind

(* The answer of the first scan: either a verification is asked for, or the   *)
(* copy is renewed by a tracker that has lost nothing.                       *)
LEMMA CycleAnswerTracked ==
  ASSUME IInv, NEW frame \in Frame, CycleAnswer(frame)
  PROVE  TrackedInv' /\ ShrinksVerified /\ baseline' \in Seq([group : Group, at : Nat])
<1>1. Update(frame) /\ scan = "detect"
  BY DEF CycleAnswer
<1>2. TrackerInv' /\ NoneLost
  BY <1>1, UpdateEffect DEF IInv
<1>3. Len(GetBaseline) <= Len(GetBaseline') /\ Len(GetBaseline') \in Nat
  BY <1>2, Lengths, BaselineCountNext DEF NoneLost
<1>4. CASE missed' # {}
  <2>1. scan' = "verify" /\ baseline' = baseline
    BY <1>4 DEF CycleAnswer, VerifyNeeded, cameraVars
  <2>2. VerificationPending' /\ BaselineInSync'
    BY <1>4, <2>1 DEF VerificationPending, BaselineInSync
  <2>3. BaselineBehind' /\ ShrinksVerified
    BY <2>1, <1>3, Lengths DEF BaselineBehind, ShrinksVerified
  <2>4. baseline' \in Seq([group : Group, at : Nat])
    BY <2>1 DEF IInv, TypeOK
  <2> QED
    BY <1>2, <2>2, <2>3, <2>4 DEF TrackedInv
<1>5. CASE missed' = {}
  <2>1. scan' = "idle" /\ baseline' = Refreshed
    BY <1>5 DEF CycleAnswer, VerifyNeeded, FinishCycle
  <2>2. VerificationPending'
    BY <1>5, <2>1 DEF VerificationPending
  <2>3. /\ BaselineInSync' /\ BaselineBehind' /\ Len(baseline') = Len(GetBaseline')
        /\ baseline' \in Seq([group : Group, at : Nat])
    BY <1>2, <2>1, RefreshedProps
  <2>4. ShrinksVerified
    BY <1>3, <2>3, Lengths DEF ShrinksVerified
  <2> QED
    BY <1>2, <2>2, <2>3, <2>4 DEF TrackedInv
<1> QED
  BY <1>4, <1>5

(* The answer of the verification: the one step that may shrink the copy. *)
LEMMA VerifyAnswerTracked ==
  ASSUME IInv, NEW frame \in Frame, VerifyAnswer(frame)
  PROVE  TrackedInv' /\ ShrinksVerified /\ baseline' \in Seq([group : Group, at : Nat])
<1>1. /\ VerifyMissed(frame) /\ scan = "verify" /\ scan' = "idle"
      /\ baseline' = Refreshed /\ missed' = {}
  BY DEF VerifyAnswer, FinishCycle, VerifyMissed
<1>2. TrackerInv'
  BY <1>1, VerifyEffect DEF IInv
<1>3. BaselineInSync' /\ BaselineBehind' /\ baseline' \in Seq([group : Group, at : Nat])
  BY <1>1, <1>2, RefreshedProps
<1> QED
  BY <1>1, <1>2, <1>3 DEF TrackedInv, ShrinksVerified, VerificationPending

(* observe() in a motion event: either the number of promoted candidates     *)
(* grows and the copy is renewed, or the same candidates are promoted.       *)
LEMMA MotionAnswerTracked ==
  ASSUME IInv, NEW frame \in Frame, Observe(frame), scan' = scan,
         baseline' = IF Len(GetBaseline') > Len(GetBaseline) THEN Refreshed ELSE baseline
  PROVE  TrackedInv' /\ ShrinksVerified /\ baseline' \in Seq([group : Group, at : Nat])
<1>1. /\ TrackerInv' /\ NoneLost
      /\ Promoted(candidates) \subseteq Promoted(candidates)'
      /\ \A i \in DOMAIN candidates : candidates'[i].group = candidates[i].group
  BY ObserveEffect DEF IInv
<1>2. VerificationPending'
  BY DEF IInv, VerificationPending, Observe
<1>3. /\ Len(GetBaseline) <= Len(GetBaseline') /\ Len(GetBaseline') \in Nat
      /\ Len(GetBaseline') = Cardinality(Promoted(candidates)')
  BY <1>1, Lengths, BaselineCountNext DEF NoneLost
<1>4. CASE Len(GetBaseline') > Len(GetBaseline)
  <2>1. /\ BaselineInSync' /\ BaselineBehind' /\ Len(baseline') = Len(GetBaseline')
        /\ baseline' \in Seq([group : Group, at : Nat])
    BY <1>1, <1>4, RefreshedProps
  <2>2. ShrinksVerified
    BY <1>3, <2>1, Lengths DEF ShrinksVerified
  <2> QED
    BY <1>1, <1>2, <2>1, <2>2 DEF TrackedInv
<1>5. CASE ~(Len(GetBaseline') > Len(GetBaseline))
  <2>1. baseline' = baseline
    BY <1>5
  <2>2. Len(GetBaseline') = Len(GetBaseline)
    BY <1>3, <1>5, Lengths
  <2>3. Promoted(candidates) = Promoted(candidates')
    <3>1. candidates' \in Seq(Candidate) /\ Promoted(candidates)' = Promoted(candidates')
      BY <1>1 DEF TrackerInv, TrackerTypeOK, Promoted
    <3>2. IsFiniteSet(Promoted(candidates'))
      BY <3>1, BaselineOfProps
    <3> QED
      BY <1>1, <1>3, <2>2, <3>1, <3>2, Lengths, FS_Subset
  <2>4. [i \in DOMAIN GetBaseline |-> GetBaseline[i].group] =
        [i \in DOMAIN GetBaseline' |-> GetBaseline'[i].group]
    <3>1. candidates \in Seq(Candidate) /\ candidates' \in Seq(Candidate)
      BY <1>1 DEF IInv, TrackerInv, TrackerTypeOK
    <3>2. \A i \in Promoted(candidates) : candidates[i].group = candidates'[i].group
      BY <1>1 DEF Promoted
    <3>3. GetBaseline = BaselineOf(candidates) /\ GetBaseline' = BaselineOf(candidates')
      BY <1>1, BaselineCount, BaselineCountNext DEF IInv
    <3> QED
      BY <3>1, <3>2, <3>3, <2>3, SameGroups
  <2>5. BaselineInSync'
    BY <2>1, <2>4 DEF IInv, BaselineInSync
  <2>6. BaselineBehind' /\ ShrinksVerified
    BY <2>1, <2>2, Lengths DEF BaselineBehind, ShrinksVerified
  <2>7. baseline' \in Seq([group : Group, at : Nat])
    BY <2>1 DEF IInv, TypeOK
  <2> QED
    BY <1>1, <1>2, <2>5, <2>6, <2>7 DEF TrackedInv
<1> QED
  BY <1>4, <1>5

-------------------------------------------------------------------------------
(* The scheduler's part of the types, for each of its operations. *)
WaitTypes ==
  /\ waiting \subseteq Client \cup Others \cup {Scan}
  /\ serving \in Client \cup Others \cup {Scan, NoReq}

LEMMA InferTypes ==
  ASSUME WaitTypes
  PROVE  /\ Infer!AskBaseline(Scan) => WaitTypes'
         /\ \A r \in Client \cup Others : Infer!AskMotion(r) => WaitTypes'
         /\ Infer!Advance => WaitTypes'
         /\ UNCHANGED inferVars => WaitTypes'
<1>1. Infer!AskBaseline(Scan) => WaitTypes'
  BY DEF WaitTypes, Infer!AskBaseline
<1>2. \A r \in Client \cup Others : Infer!AskMotion(r) => WaitTypes'
  BY DEF WaitTypes, Infer!AskMotion
<1>3. Infer!Advance => WaitTypes'
  BY DEF WaitTypes, Infer!Advance
<1>4. UNCHANGED inferVars => WaitTypes'
  BY DEF WaitTypes, inferVars
<1> QED
  BY <1>1, <1>2, <1>3, <1>4

(* The rest of the types but the tracker's and the baseline's. *)
LoopTypes ==
  /\ asking \subseteq Client
  /\ scan \in {"idle", "detect", "verify"}
  /\ alerted \in Client \cup {NoReq}

FlagTypes == {preempted, calm, initialized, following} \subseteq BOOLEAN

(* TypeOK in the parts that different steps disturb, before and after a step. *)
LEMMA TypesSplit ==
  TypeOK <=> /\ TrackerTypeOK /\ WaitTypes /\ LoopTypes /\ FlagTypes
             /\ baseline \in Seq([group : Group, at : Nat])
BY DEF TypeOK, WaitTypes, LoopTypes, FlagTypes

LEMMA TypesSplitNext ==
  TypeOK' <=> /\ TrackerTypeOK' /\ WaitTypes' /\ LoopTypes' /\ FlagTypes'
              /\ baseline' \in Seq([group : Group, at : Nat])
BY DEF TypeOK, WaitTypes, LoopTypes, FlagTypes

(* The initial state: nothing tracked, nothing known, nobody alerted. *)
LEMMA InitIInv == Init => IInv
<1> SUFFICES ASSUME Init PROVE IInv
  OBVIOUS
<1>1. TrackerInv
  BY InitTrackerInv DEF Init
<1>2. /\ waiting = {} /\ serving = NoReq /\ asking = {} /\ scan = "idle" /\ preempted = FALSE
      /\ calm \in BOOLEAN /\ baseline = <<>> /\ initialized = FALSE
      /\ following = FALSE /\ alerted = NoReq /\ missed = {} /\ candidates = <<>>
  BY DEF Init, Infer!Init, TrackerInit
<1>3. WaitTypes /\ LoopTypes /\ baseline \in Seq([group : Group, at : Nat])
  BY <1>2 DEF WaitTypes, LoopTypes
<1>4. FlagTypes
  BY <1>2 DEF FlagTypes
<1>5. TypeOK
  BY <1>1, <1>3, <1>4, TypesSplit DEF TrackerInv
<1>6. GetBaseline = <<>> /\ DOMAIN GetBaseline = {}
  <2>1. Promoted(candidates) = {}
    BY <1>2 DEF Promoted
  <2>2. Cardinality(Promoted(candidates)) = 0
    BY <2>1, FS_EmptySet
  <2>3. GetBaseline \in Seq(Candidate) /\ Len(GetBaseline) = 0
    BY <1>1, <2>2, BaselineCount
  <2> HIDE DEF GetBaseline
  <2> QED
    BY <2>3
<1>7. BaselineInSync /\ BaselineBehind
  BY <1>2, <1>6 DEF BaselineInSync, BaselineBehind
<1>8. VerificationPending
  BY <1>2 DEF VerificationPending
<1>9. WarmupQuiet
  BY <1>2, RequestsDistinct DEF WarmupQuiet
<1> QED
  BY <1>1, <1>5, <1>7, <1>8, <1>9 DEF IInv

(* From the parts to the whole. *)
LEMMA Joined ==
  ASSUME TrackedInv', WaitTypes', LoopTypes', FlagTypes', WarmupQuiet',
         baseline' \in Seq([group : Group, at : Nat])
  PROVE  IInv'
BY TypesSplitNext DEF IInv, TrackedInv, TrackerInv

(* Steps that leave the tracker and the baseline alone and alert about no    *)
(* motion event.                                                             *)
LEMMA QuietStep ==
  ASSUME IInv, UNCHANGED trackerVars, baseline' = baseline,
         scan' = "verify" <=> scan = "verify",
         WaitTypes', LoopTypes', FlagTypes', alerted' # Motion
  PROVE  IInv' /\ ShrinksVerified
<1>1. TrackedInv' /\ ShrinksVerified
  BY Untracked
<1>2. WarmupQuiet'
  BY DEF WarmupQuiet
<1>3. baseline' \in Seq([group : Group, at : Nat])
  BY DEF IInv, TypeOK
<1> QED
  BY <1>1, <1>2, <1>3, Joined

(* One lemma per action; the first six leave the tracker alone. *)
LEMMA CycleStartStep ==
  ASSUME IInv, CycleStart
  PROVE  IInv' /\ ShrinksVerified
<1>1. /\ UNCHANGED trackerVars /\ baseline' = baseline
      /\ scan = "idle" /\ scan' = "detect" /\ alerted' = NoReq
  BY DEF CycleStart, cameraVars
<1>2. WaitTypes'
  BY InferTypes, TypesSplit DEF CycleStart, IInv
<1>3. LoopTypes'
  BY <1>1, TypesSplit DEF CycleStart, IInv, LoopTypes
<1>4. FlagTypes'
  BY TypesSplit DEF CycleStart, IInv, FlagTypes, cameraVars
<1> QED
  BY <1>1, <1>2, <1>3, <1>4, QuietStep, RequestsDistinct

LEMMA AskStep ==
  ASSUME IInv, NEW client \in Client, Ask(client)
  PROVE  IInv' /\ ShrinksVerified
<1>1. /\ UNCHANGED trackerVars /\ baseline' = baseline /\ scan' = scan /\ alerted' = NoReq
  BY DEF Ask, cameraVars
<1>2. WaitTypes'
  BY InferTypes, TypesSplit DEF Ask, IInv
<1>3. LoopTypes'
  BY <1>1, TypesSplit DEF Ask, IInv, LoopTypes
<1>4. FlagTypes'
  <2>1. (preempted \/ DismissesScan) \in BOOLEAN /\ (calm /\ client # Motion) \in BOOLEAN
    BY Zenon
  <2>2. preempted' \in BOOLEAN /\ calm' \in BOOLEAN
    BY <2>1 DEF Ask
  <2>3. initialized' = initialized /\ following' = following
    BY DEF Ask, cameraVars
  <2> QED
    BY <2>2, <2>3, TypesSplit DEF IInv, FlagTypes
<1> QED
  BY <1>1, <1>2, <1>3, <1>4, QuietStep, RequestsDistinct

LEMMA AskOtherStep ==
  ASSUME IInv, NEW r \in Others, AskOther(r)
  PROVE  IInv' /\ ShrinksVerified
<1>1. /\ UNCHANGED trackerVars /\ baseline' = baseline /\ scan' = scan /\ alerted' = NoReq
  BY DEF AskOther, cameraVars
<1>2. WaitTypes'
  BY InferTypes, TypesSplit DEF AskOther, IInv
<1>3. LoopTypes'
  BY <1>1, TypesSplit DEF AskOther, IInv, LoopTypes
<1>4. FlagTypes'
  BY TypesSplit DEF AskOther, IInv, FlagTypes, cameraVars
<1> QED
  BY <1>1, <1>2, <1>3, <1>4, QuietStep, RequestsDistinct

LEMMA FollowUpAnswerStep ==
  ASSUME IInv, NEW frame \in Frame, FollowUpAnswer(frame)
  PROVE  IInv' /\ ShrinksVerified
<1>1. /\ UNCHANGED trackerVars /\ baseline' = baseline /\ scan' = scan
      /\ alerted' \in {FollowUp, NoReq}
  BY DEF FollowUpAnswer, Resume, Decide
<1>2. WaitTypes'
  BY InferTypes, TypesSplit DEF FollowUpAnswer, Resume, IInv
<1>3. LoopTypes'
  BY <1>1, TypesSplit DEF FollowUpAnswer, Resume, IInv, LoopTypes, Client
<1>4. FlagTypes'
  BY TypesSplit DEF FollowUpAnswer, Resume, IInv, FlagTypes
<1> QED
  BY <1>1, <1>2, <1>3, <1>4, QuietStep, RequestsDistinct

LEMMA FollowUpEndStep ==
  ASSUME IInv, FollowUpEnd
  PROVE  IInv' /\ ShrinksVerified
<1>1. /\ UNCHANGED trackerVars /\ baseline' = baseline /\ scan' = scan /\ alerted' = NoReq
  BY DEF FollowUpEnd, cameraVars
<1>2. WaitTypes'
  BY InferTypes, TypesSplit DEF FollowUpEnd, IInv
<1>3. LoopTypes'
  BY <1>1, TypesSplit DEF FollowUpEnd, IInv, LoopTypes
<1>4. FlagTypes'
  BY TypesSplit DEF FollowUpEnd, IInv, FlagTypes, cameraVars
<1> QED
  BY <1>1, <1>2, <1>3, <1>4, QuietStep, RequestsDistinct

LEMMA CalmDownStep ==
  ASSUME IInv, CalmDown
  PROVE  IInv' /\ ShrinksVerified
<1>1. /\ UNCHANGED trackerVars /\ baseline' = baseline /\ scan' = scan /\ alerted' = NoReq
  BY DEF CalmDown, cameraVars
<1>2. WaitTypes'
  BY InferTypes, TypesSplit DEF CalmDown, IInv
<1>3. LoopTypes'
  BY <1>1, TypesSplit DEF CalmDown, IInv, LoopTypes
<1>4. FlagTypes'
  BY TypesSplit DEF CalmDown, IInv, FlagTypes, cameraVars
<1> QED
  BY <1>1, <1>2, <1>3, <1>4, QuietStep, RequestsDistinct

LEMMA WorkerStep ==
  ASSUME IInv, Worker
  PROVE  IInv' /\ ShrinksVerified
<1>1. /\ UNCHANGED trackerVars /\ baseline' = baseline /\ scan' = scan /\ alerted' = NoReq
  BY DEF Worker, cameraVars
<1>2. WaitTypes'
  BY InferTypes, TypesSplit DEF Worker, IInv
<1>3. LoopTypes'
  BY <1>1, TypesSplit DEF Worker, IInv, LoopTypes
<1>4. FlagTypes'
  BY TypesSplit DEF Worker, IInv, FlagTypes, cameraVars
<1> QED
  BY <1>1, <1>2, <1>3, <1>4, QuietStep, RequestsDistinct

(* What a scan's answer holds is a frame, preempted or not. *)
LEMMA AnswerIsFrame == Answer \subseteq Frame
<1>1. <<>> \in Frame
  <2>1. 0 \in 0..MaxFrame /\ <<>> \in [1..0 -> Detection]
    BY Constants
  <2> QED
    BY <2>1 DEF Frame, BoundedSeq, SeqOf
<1> QED
  BY <1>1 DEF Answer

(* The answers that feed the tracker. *)
LEMMA CycleAnswerStep ==
  ASSUME IInv, NEW frame \in Frame, CycleAnswer(frame)
  PROVE  IInv' /\ ShrinksVerified
<1>1. TrackedInv' /\ ShrinksVerified /\ baseline' \in Seq([group : Group, at : Nat])
  BY CycleAnswerTracked
<1>2. WaitTypes'
  BY InferTypes, TypesSplit DEF CycleAnswer, IInv
<1>3. LoopTypes'
  BY TypesSplit DEF CycleAnswer, FinishCycle, IInv, LoopTypes
<1>4. FlagTypes'
  <2>1. preempted' = FALSE /\ calm' = calm /\ following' = following
        /\ initialized' \in {TRUE, initialized}
    BY DEF CycleAnswer, FinishCycle, cameraVars
  <2> QED
    BY <2>1, TypesSplit DEF IInv, FlagTypes
<1>5. WarmupQuiet'
  BY RequestsDistinct DEF CycleAnswer, WarmupQuiet
<1> QED
  BY <1>1, <1>2, <1>3, <1>4, <1>5, Joined

LEMMA VerifyAnswerStep ==
  ASSUME IInv, NEW frame \in Frame, VerifyAnswer(frame)
  PROVE  IInv' /\ ShrinksVerified
<1>1. TrackedInv' /\ ShrinksVerified /\ baseline' \in Seq([group : Group, at : Nat])
  BY VerifyAnswerTracked
<1>2. WaitTypes'
  BY InferTypes, TypesSplit DEF VerifyAnswer, IInv
<1>3. LoopTypes'
  BY TypesSplit DEF VerifyAnswer, FinishCycle, IInv, LoopTypes
<1>4. FlagTypes'
  BY TypesSplit DEF VerifyAnswer, FinishCycle, IInv, FlagTypes
<1>5. WarmupQuiet'
  BY RequestsDistinct DEF VerifyAnswer, WarmupQuiet
<1> QED
  BY <1>1, <1>2, <1>3, <1>4, <1>5, Joined

(* A motion event before the tracker is warm finds what it has just observed *)
(* among the candidates: FedSeen.                                            *)
LEMMA MotionAnswerStep ==
  ASSUME IInv, NEW frame \in Frame, MotionAnswer(frame)
  PROVE  IInv' /\ ShrinksVerified
<1>r. Resume(Motion) /\ scan' = scan /\ Motion \in Client
  BY DEF MotionAnswer, Resume, Client
<1>a. alerted' \in {Motion, NoReq}
  BY DEF MotionAnswer, Decide
<1>2. WaitTypes'
  BY <1>r, InferTypes, TypesSplit DEF Resume, IInv
<1>3. LoopTypes'
  BY <1>r, <1>a, TypesSplit DEF Resume, IInv, LoopTypes
<1>4. FlagTypes'
  <2>1. (following \/ alerted' = Motion) \in BOOLEAN
    BY Zenon
  <2>2. following' \in BOOLEAN
    BY <2>1 DEF MotionAnswer
  <2>3. preempted' = preempted /\ calm' = calm /\ initialized' = initialized
    BY <1>r DEF Resume
  <2> QED
    BY <2>2, <2>3, TypesSplit DEF IInv, FlagTypes
<1>5. CASE frame = <<>>
  <2>1. UNCHANGED trackerVars /\ baseline' = baseline /\ alerted' = NoReq
    BY <1>5 DEF MotionAnswer
  <2> QED
    BY <2>1, <1>r, <1>2, <1>3, <1>4, QuietStep, RequestsDistinct
<1>6. CASE frame # <<>>
  <2>1. /\ Observe(frame)
        /\ baseline' = IF Len(GetBaseline') > Len(GetBaseline) THEN Refreshed ELSE baseline
        /\ Decide(Motion, NewIn(frame, baseline', candidates', IsWarm, initialized))
    BY <1>6 DEF MotionAnswer
  <2>2. TrackedInv' /\ ShrinksVerified /\ baseline' \in Seq([group : Group, at : Nat])
    BY <2>1, <1>r, MotionAnswerTracked
  <2>3. WarmupQuiet'
    <3> SUFFICES ASSUME alerted' = Motion, baseline' = <<>>
                 PROVE  initialized' /\ IsWarm'
      BY DEF WarmupQuiet
    <3>1. NewIn(frame, <<>>, candidates', IsWarm, initialized) # {}
      BY <2>1, RequestsDistinct DEF Decide
    <3>2. initialized
      BY <3>1 DEF NewIn
    <3>3. PICK d \in ToSet(frame) : ~Near(d, Known(<<>>, candidates', IsWarm))
      BY <3>1, <3>2 DEF NewIn
    <3>4. Near(d, candidates')
      BY <2>1, ObserveEffect DEF Near, IInv
    <3>5. IsWarm
      BY <3>3, <3>4 DEF Known
    <3>6. initialized' = initialized /\ cycles' = cycles
      BY <2>1, <1>r DEF Resume, Observe
    <3> QED
      BY <3>2, <3>5, <3>6 DEF IsWarm
  <2> QED
    BY <2>2, <2>3, <1>2, <1>3, <1>4, Joined
<1> QED
  BY <1>5, <1>6

(* Every step keeps the invariant and shrinks the copy only when verified. *)
LEMMA Step ==
  ASSUME IInv, [Next]_vars
  PROVE  IInv' /\ ShrinksVerified
<1>1. CASE CycleStart
  BY <1>1, CycleStartStep
<1>2. CASE ScanStep
  BY <1>2, AnswerIsFrame, CycleAnswerStep, VerifyAnswerStep DEF ScanStep
<1>3. ASSUME NEW c \in Client, Ask(c) PROVE IInv' /\ ShrinksVerified
  BY <1>3, AskStep
<1>4. ASSUME NEW f \in Frame, MotionAnswer(f) PROVE IInv' /\ ShrinksVerified
  BY <1>4, MotionAnswerStep
<1>5. ASSUME NEW f \in Frame, FollowUpAnswer(f) PROVE IInv' /\ ShrinksVerified
  BY <1>5, FollowUpAnswerStep
<1>6. CASE FollowUpEnd
  BY <1>6, FollowUpEndStep
<1>7. CASE CalmDown
  BY <1>7, CalmDownStep
<1>8. CASE Worker
  BY <1>8, WorkerStep
<1>10. ASSUME NEW r \in Others, AskOther(r) PROVE IInv' /\ ShrinksVerified
  BY <1>10, AskOtherStep
<1>9. CASE UNCHANGED vars
  <2>1. UNCHANGED trackerVars /\ baseline' = baseline /\ scan' = scan
    BY <1>9 DEF vars, trackerVars
  <2>2. TrackedInv' /\ ShrinksVerified
    BY <2>1, Untracked
  <2>3. WaitTypes' /\ LoopTypes' /\ baseline' \in Seq([group : Group, at : Nat])
    BY <1>9, TypesSplit DEF vars, IInv, WaitTypes, LoopTypes
  <2>4. FlagTypes'
    BY <1>9, TypesSplit DEF vars, IInv, FlagTypes
  <2>5. WarmupQuiet'
    BY <1>9 DEF vars, IInv, WarmupQuiet, IsWarm
  <2> QED
    BY <2>2, <2>3, <2>4, <2>5, Joined
<1> QED
  BY <1>1, <1>2, <1>3, <1>4, <1>5, <1>6, <1>7, <1>8, <1>9, <1>10 DEF Next

(* The inductive invariant holds in every reachable state. *)
LEMMA Invariance == Spec => []IInv
<1>1. IInv /\ [Next]_vars => IInv'
  BY Step
<1> QED
  BY <1>1, InitIInv, PTL DEF Spec

(* The camera's data is well formed in every reachable state. *)
THEOREM TypeCorrect == Spec => []TypeOK
<1>1. IInv => TypeOK
  BY DEF IInv
<1> QED
  BY <1>1, Invariance, PTL

(* camera.baseline lists the tracker's promoted objects whenever no          *)
(* verification is awaited.                                                  *)
THEOREM InSync == Spec => []BaselineInSync
<1>1. IInv => BaselineInSync
  BY DEF IInv
<1> QED
  BY <1>1, Invariance, PTL

(* Motion is quiet until the scene is known. *)
THEOREM QuietDuringWarmup == Spec => []WarmupQuiet
<1>1. IInv => WarmupQuiet
  BY DEF IInv
<1> QED
  BY <1>1, Invariance, PTL

(* camera.baseline loses objects only at the end of a verification. *)
THEOREM ShrinksOnlyVerified == Spec => BaselineShrinksVerified
<1>1. IInv /\ [Next]_vars =>
        [Len(baseline') < Len(baseline) => scan = "verify" /\ scan' = "idle"]_vars
  BY Step DEF ShrinksVerified
<1> QED
  BY <1>1, Invariance, PTL DEF Spec, BaselineShrinksVerified

(* The loop awaits a verification exactly while something is missed: the     *)
(* guards of Update and VerifyMissed on missed never hold it up, and the     *)
(* tracker never loses a record of misses by an early update().              *)
THEOREM VerificationIsPending == Spec => []VerificationPending
<1>1. IInv => VerificationPending
  BY DEF IInv
<1> QED
  BY <1>1, Invariance, PTL

-------------------------------------------------------------------------------
(* BaselineService: its parts.  The composition gives the tracker and the    *)
(* scheduler only calls their own specifications allow.                      *)

(* What a step of the camera is for the tracker. *)
LEMMA StepIsTrackerStep ==
  ASSUME [Next]_vars
  PROVE  [TrackerNext]_trackerVars
<1>1. ASSUME NEW f \in Frame, CycleAnswer(f) PROVE TrackerNext
  BY <1>1 DEF CycleAnswer, TrackerNext
<1>2. ASSUME NEW f \in Frame, VerifyAnswer(f) PROVE TrackerNext
  BY <1>2 DEF VerifyAnswer, TrackerNext
<1>3. ASSUME NEW f \in Frame, MotionAnswer(f) PROVE TrackerNext \/ UNCHANGED trackerVars
  BY <1>3 DEF MotionAnswer, TrackerNext
<1>4. CASE CycleStart
  BY <1>4 DEF CycleStart
<1>5. CASE ScanStep
  BY <1>1, <1>2, <1>5, AnswerIsFrame DEF ScanStep
<1>6. CASE \E c \in Client : Ask(c)
  BY <1>6 DEF Ask
<1>7. CASE \E f \in Frame : FollowUpAnswer(f)
  BY <1>7 DEF FollowUpAnswer
<1>8. CASE FollowUpEnd \/ CalmDown \/ Worker
  BY <1>8 DEF FollowUpEnd, CalmDown, Worker
<1>9. CASE \E r \in Others : AskOther(r)
  BY <1>9 DEF AskOther
<1>10. CASE UNCHANGED vars
  BY <1>10 DEF vars, trackerVars
<1> QED
  BY <1>3, <1>4, <1>5, <1>6, <1>7, <1>8, <1>9, <1>10 DEF Next

(* Whatever the coroutines of a camera do, its tracker only ever makes steps *)
(* of its own specification: what is proved of the tracker holds in the      *)
(* service, where observe() comes between update() and verify_missed().      *)
THEOREM ServiceRunsTracker == Spec => TrackerSpec
<1>1. Init => TrackerInit
  BY DEF Init
<1>2. [Next]_vars => [TrackerNext]_trackerVars
  BY StepIsTrackerStep
<1> QED
  BY <1>1, <1>2, PTL DEF Spec, TrackerSpec

Outstanding == (waiting \cup {serving}) \ {NoReq}

(* Every request of this camera that the scheduler holds has a caller that   *)
(* awaits it, every request is held once, and a scan that motion dismissed   *)
(* is not held any more.                                                     *)
HeldIsAwaited ==
  /\ Outstanding \subseteq asking \cup Others \cup {Scan}
  /\ scan = "idle" => Scan \notin Outstanding /\ ~preempted
  /\ preempted => Scan \notin Outstanding
  /\ serving \notin waiting

(* Every step keeps it. *)
LEMMA HeldStep ==
  ASSUME TypeOK, HeldIsAwaited, [Next]_vars
  PROVE  HeldIsAwaited'
<1>s. /\ Scan # NoReq /\ Scan \notin Client /\ NoReq \notin Client
      /\ Scan \notin Others /\ NoReq \notin Others
  BY RequestsDistinct DEF Client
<1>t. waiting \subseteq Client \cup Others \cup {Scan} /\ NoReq \notin waiting
  BY <1>s DEF TypeOK
<1>1. CASE CycleStart
  BY <1>1, <1>s, <1>t DEF CycleStart, HeldIsAwaited, Outstanding, Infer!AskBaseline
<1>2. ASSUME NEW f, CycleAnswer(f) PROVE HeldIsAwaited'
  BY <1>2, <1>s, <1>t DEF CycleAnswer, FinishCycle, HeldIsAwaited, Outstanding, Answered,
                          Infer!AskBaseline, inferVars
<1>3. ASSUME NEW f, VerifyAnswer(f) PROVE HeldIsAwaited'
  BY <1>3 DEF VerifyAnswer, FinishCycle, HeldIsAwaited, Outstanding, Answered, inferVars
<1>4. ASSUME NEW c \in Client, Ask(c) PROVE HeldIsAwaited'
  <2>1. /\ waiting' \subseteq waiting \cup {c} /\ serving' = serving /\ scan' = scan
        /\ c \notin waiting /\ c # serving /\ Scan \notin waiting'
        /\ asking' = asking \cup {c}
        /\ preempted' = (preempted \/ Scan \in waiting)
    BY <1>4 DEF Ask, DismissesScan, Infer!AskMotion
  <2>2. Outstanding' \subseteq Outstanding \cup {c}
    BY <2>1 DEF Outstanding
  <2>3. preempted' => Scan \notin Outstanding'
    BY <2>1, <2>2, <1>s DEF HeldIsAwaited, Outstanding
  <2>4. scan' = "idle" => Scan \notin Outstanding' /\ ~preempted'
    BY <2>1, <2>2, <1>s DEF HeldIsAwaited, Outstanding
  <2> QED
    BY <2>1, <2>2, <2>3, <2>4 DEF HeldIsAwaited
<1>5. ASSUME NEW c, Resume(c), c # Scan PROVE HeldIsAwaited'
  BY <1>5 DEF Resume, HeldIsAwaited, Outstanding, Answered, inferVars
<1>6. CASE \E f \in Frame : MotionAnswer(f) \/ FollowUpAnswer(f)
  BY <1>5, <1>6, RequestsDistinct DEF MotionAnswer, FollowUpAnswer
<1>7. CASE FollowUpEnd \/ CalmDown
  BY <1>7 DEF FollowUpEnd, CalmDown, HeldIsAwaited, Outstanding, inferVars
<1>8. CASE Worker
  BY <1>8, <1>t DEF Worker, HeldIsAwaited, Outstanding, Infer!Advance
<1>9. ASSUME NEW r \in Others, AskOther(r) PROVE HeldIsAwaited'
  <2>1. /\ waiting' \subseteq waiting \cup {r} /\ serving' = serving /\ scan' = scan
        /\ r \notin waiting /\ r # serving /\ asking' = asking /\ preempted' = preempted
    BY <1>9 DEF AskOther, Infer!AskMotion
  <2>2. Outstanding' \subseteq Outstanding \cup {r} /\ r # Scan
    BY <2>1, <1>s DEF Outstanding
  <2> QED
    BY <2>1, <2>2 DEF HeldIsAwaited
<1>10. CASE UNCHANGED vars
  BY <1>10 DEF vars, HeldIsAwaited, Outstanding
<1> QED
  BY <1>1, <1>2, <1>3, <1>4, <1>6, <1>7, <1>8, <1>9, <1>10 DEF Next, ScanStep

(* Nothing is computed for nobody: the scheduler holds, of this camera's     *)
(* requests, only those that a coroutine awaits, each once, and a scan       *)
(* answered by its dismissal is never on the GPU as well.  So a coroutine    *)
(* that is not waiting may always ask.                                       *)
THEOREM EveryRequestAwaited == Spec => []HeldIsAwaited
<1>1. Init => HeldIsAwaited
  BY RequestsDistinct DEF Init, Infer!Init, HeldIsAwaited, Outstanding
<1>2. TypeOK /\ HeldIsAwaited /\ [Next]_vars => HeldIsAwaited'
  BY HeldStep
<1> QED
  BY <1>1, <1>2, TypeCorrect, PTL DEF Spec

=============================================================================
