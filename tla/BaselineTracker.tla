---------------------------- MODULE BaselineTracker ----------------------------
(***************************************************************************)
(* src/baseline_tracker.py of shinobi-smtp-proxy: which objects of one     *)
(* camera's view belong to the scene ("the baseline").  A candidate is     *)
(* promoted once it has been hit AddThreshold times.  A promoted candidate *)
(* that a baseline cycle misses stays until verify_missed(), called with a *)
(* second detection pass, fails to find it; motion events may observe()    *)
(* between the two calls.                                                  *)
(*                                                                         *)
(* Positions are one-dimensional and integers on a grid that CONSTANTS     *)
(* fix; the moving average is rounded to the grid.  Hits beyond            *)
(* AddThreshold and cycles beyond it are never told apart by the code and  *)
(* are capped there.  A frame is the list of detections of one image.      *)
(* The field images is no field of the code's: it counts, up to            *)
(* AddThreshold, the images a candidate was seen in.                       *)
(*                                                                         *)
(* HitEarly, StillCounted, NeverForgotten, NotReindexed, Unverified and    *)
(* PresentOnly are faulty variants of the definitions that follow them.    *)
(***************************************************************************)
EXTENDS Naturals, Sequences, SequencesExt, FiniteSets

CONSTANTS Group,          \* class groups: COCO ids, all vehicles being one
          Position,       \* where detections are seen
          Tolerance,      \* position_tolerance, on the grid
          AddThreshold,   \* baseline_add_threshold
          MaxFrame,       \* bound: detections in one image
          MaxCandidates   \* bound: candidates tracked at once

ASSUME TrackerAssumption ==
  /\ Position \subseteq Nat
  /\ {Tolerance, AddThreshold, MaxFrame, MaxCandidates} \subseteq Nat \ {0}

VARIABLES candidates,  \* list of candidates, in the order they were first seen
          cycles,      \* cycles: update() calls, up to AddThreshold
          missed       \* _missed_promoted: indices awaiting verify_missed()

trackerVars == <<candidates, cycles, missed>>

Detection == [group : Group, at : Position]
Frame == BoundedSeq(Detection, MaxFrame)

(* The third miss in a row removes a candidate that is not promoted. *)
MaxMisses == 3

AtMost(a, b) == IF a <= b THEN a ELSE b
Distance(a, b) == IF a <= b THEN b - a ELSE a - b

(* The moving average, alpha = 0.3, rounded to the grid. *)
Blend(old, seen) == (7 * old + 3 * seen + 5) \div 10

TrackerInit ==
  /\ candidates = <<>>
  /\ cycles = 0
  /\ missed = {}
-------------------------------------------------------------------------------
NewCandidate(d) ==
  [group |-> d.group, at |-> d.at, hits |-> 1, misses |-> 0, promoted |-> FALSE,
   images |-> 1]

Matches(d, c) == d.group = c.group /\ Distance(d.at, c.at) < Tolerance

HitEarly(c, d, again) ==
  LET hits == AtMost(c.hits + 1, AddThreshold)
  IN  [c EXCEPT !.at = Blend(@, d.at), !.hits = hits, !.misses = 0,
                !.promoted = @ \/ hits >= AddThreshold - 1,
                !.images = IF again THEN @ ELSE AtMost(@ + 1, AddThreshold)]

(* BaselineCandidate.update and the promotion that follows it in _feed;      *)
(* again: this image has shown the candidate before.                         *)
Hit(c, d, again) ==
  LET hits == AtMost(c.hits + 1, AddThreshold)
  IN  [c EXCEPT !.at = Blend(@, d.at),
                !.hits = hits,
                !.misses = 0,
                !.promoted = @ \/ hits >= AddThreshold,
                !.images = IF again THEN @ ELSE AtMost(@ + 1, AddThreshold)]

(* Candidate i was made or hit by this image. *)
Shown(fed, i) == i \in fed.matched \/ i > Len(candidates)

(* One detection of _feed: the first candidate in the list that matches and  *)
(* has not taken another detection takes it, otherwise it is a new candidate *)
(* - which is not yet marked as having taken one.                            *)
Absorb(fed, d) ==
  LET free == {i \in DOMAIN fed.list \ fed.matched : Matches(d, fed.list[i])}
  IN  IF free = {}
        THEN [fed EXCEPT !.list = Append(@, NewCandidate(d))]
        ELSE LET i == CHOOSE k \in free : \A j \in free : k <= j
             IN  [list |-> [fed.list EXCEPT ![i] = Hit(@, d, Shown(fed, i))],
                  matched |-> fed.matched \cup {i}]

Feed(frame) ==
  LET fed[k \in 0..Len(frame)] ==
        IF k = 0 THEN [list |-> candidates, matched |-> {}]
                 ELSE Absorb(fed[k - 1], frame[k])
  IN  fed[Len(frame)]

(* The list without the entries at the indices in gone. *)
Rank(S, i) == Cardinality({j \in S : j <= i})

Without(list, gone) ==
  LET kept == DOMAIN list \ gone
  IN  [k \in 1..Cardinality(kept) |-> list[CHOOSE i \in kept : Rank(kept, i) = k]]

(* observe(): what a motion event saw; it counts no cycle and no misses. *)
Observe(frame) ==
  /\ candidates' = Feed(frame).list
  /\ Len(candidates') <= MaxCandidates
  /\ UNCHANGED <<cycles, missed>>

(* Counting the misses of one cycle: every candidate without a detection,    *)
(* one created by this very frame included.                                  *)
StillCounted(fed) == fed.list

Aged(fed) ==
  [i \in DOMAIN fed.list |->
     IF i \in fed.matched THEN fed.list[i] ELSE [fed.list[i] EXCEPT !.misses = @ + 1]]

NeverForgotten(list, matched) == {}

Forgotten(list, matched) ==
  {i \in DOMAIN list \ matched : ~list[i].promoted /\ list[i].misses >= MaxMisses}

(* Index i once the removed entries in front of it are gone. *)
NotReindexed(i, removed) == i

Reindexed(i, removed) == i - Cardinality({r \in removed : r < i})

(* update(): one baseline cycle.  The baseline loop calls it only after the  *)
(* previous cycle's verification.                                            *)
Update(frame) ==
  LET fed     == Feed(frame)
      list    == Aged(fed)
      removed == Forgotten(list, fed.matched)
  IN  /\ missed = {}
      /\ candidates' = Without(list, removed)
      /\ Len(candidates') <= MaxCandidates
      /\ missed' = {Reindexed(i, removed) :
                      i \in {k \in DOMAIN list \ fed.matched : list[k].promoted}}
      /\ cycles' = AtMost(cycles + 1, AddThreshold)

(* verify_missed(): a missed candidate that the low-confidence frame does    *)
(* not show either is demoted and removed, the others are kept.              *)
Unverified(frame) ==
  {i \in DOMAIN candidates : \A k \in DOMAIN frame : ~Matches(frame[k], candidates[i])}

NotFound(frame) ==
  {i \in missed : \A k \in DOMAIN frame : ~Matches(frame[k], candidates[i])}

VerifyMissed(frame) ==
  /\ missed # {}
  /\ candidates' = Without([i \in DOMAIN candidates |->
                              IF i \in missed THEN [candidates[i] EXCEPT !.misses = 0]
                                              ELSE candidates[i]],
                           NotFound(frame))
  /\ missed' = {}
  /\ UNCHANGED cycles

(* get_baseline(), as candidates, and is_warm; get_all_seen() is the list.   *)
PresentOnly ==
  Without(candidates, {i \in DOMAIN candidates : ~candidates[i].promoted \/ candidates[i].misses > 0})

GetBaseline == Without(candidates, {i \in DOMAIN candidates : ~candidates[i].promoted})
IsWarm == cycles >= AddThreshold
-------------------------------------------------------------------------------
TrackerNext ==
  \/ \E f \in Frame : Observe(f)
  \/ \E f \in Frame : Update(f)
  \/ \E f \in Frame : VerifyMissed(f)

TrackerSpec == TrackerInit /\ [][TrackerNext]_trackerVars

-------------------------------------------------------------------------------
Candidate == [group : Group, at : Nat, hits : 1..AddThreshold,
              misses : 0..(MaxMisses - 1), promoted : BOOLEAN,
              images : 1..AddThreshold]

(* The types; a candidate with MaxMisses misses is gone in the same step. *)
TrackerTypeOK ==
  /\ candidates \in Seq(Candidate)
  /\ cycles \in 0..AddThreshold
  /\ missed \subseteq DOMAIN candidates

(* _missed_promoted survives the removal of list entries: it names, by their *)
(* indices in the shortened list, promoted candidates only, and every        *)
(* promoted candidate with a miss on record is named, so verify_missed pops  *)
(* the right entries whatever observe() did to the list in between.          *)
MissedExact ==
  /\ \A i \in missed : i \in DOMAIN candidates /\ candidates[i].promoted
  /\ \A i \in DOMAIN candidates :
       candidates[i].promoted /\ candidates[i].misses > 0 => i \in missed

(* No flood of boxes promotes an object: what is promoted was seen in        *)
(* AddThreshold images but one.  One image counts twice for an object at     *)
(* most, and only the image that first shows it: _feed leaves the candidate  *)
(* it appends free for another box of the same image.  The class comment's   *)
(* "objects must appear N cycles to enter" would be AddThreshold images.     *)
SeenBeforePromoted ==
  \A i \in DOMAIN candidates :
    candidates[i].promoted => candidates[i].images >= AddThreshold - 1

(* A promoted object leaves only in a verification, which may take away the  *)
(* missed ones only.                                                         *)
BaselineKept ==
  [][ Len(GetBaseline') >= Len(GetBaseline) - Cardinality(missed) ]_trackerVars

(* A scene that from some point on shows nothing but d (possibly as several  *)
(* boxes) becomes the baseline: whatever history came before, d ends up      *)
(* covered by a promoted candidate and every trace of other objects goes.    *)
Shows(d, frame) == frame # <<>> /\ \A k \in DOMAIN frame : frame[k] = d

SceneIs(d) ==
  \/ \E f \in Frame : Shows(d, f) /\ (Observe(f) \/ Update(f))
  \/ \E f \in Frame : (f = <<>> \/ Shows(d, f)) /\ VerifyMissed(f)

Cycle == \E f \in Frame : Update(f)
Verification == \E f \in Frame : VerifyMissed(f)

Settled(d) ==
  /\ \E i \in DOMAIN candidates : candidates[i].promoted /\ Matches(d, candidates[i])
  /\ \A i \in DOMAIN candidates : Matches(d, candidates[i])

SceneSettles ==
  \A d \in Detection :
    /\ <>[][SceneIs(d)]_trackerVars
    /\ []<><<Cycle>>_trackerVars
    => <>[]Settled(d)

===============================================================================
