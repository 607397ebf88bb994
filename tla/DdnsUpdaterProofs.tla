--------------------------- MODULE DdnsUpdaterProofs ---------------------------
(***************************************************************************)
(* Theorems of DdnsUpdater for every set of addresses and resolvers and    *)
(* every pair of backoff bounds.                                           *)
(***************************************************************************)
EXTENDS DdnsUpdater, TLAPS

(* Doubling stays between the bounds and, below the maximum, is exact. *)
LEMMA DoubledBounds ==
  ASSUME NEW now \in BackoffInitial .. BackoffMax
  PROVE  /\ Doubled(now) \in BackoffInitial .. BackoffMax
         /\ \/ Doubled(now) = 2 * now
            \/ Doubled(now) = BackoffMax /\ BackoffMax <= 2 * now
BY DdnsAssumption DEF Doubled

(* The next sleep after a failure: BACKOFF_INITIAL after a success, else the *)
(* last sleep doubled, which main's backoff variable stores ahead of its use.*)
BackoffAhead ==
  IF ok THEN backoff = BackoffInitial
  ELSE /\ sleep_time \in BackoffInitial .. BackoffMax
       /\ backoff = Doubled(sleep_time)

IInv == TypeOK /\ BackoffAhead

-------------------------------------------------------------------------------
(* The start of the process establishes the invariant. *)
LEMMA InitIInv == Init => IInv
<1> SUFFICES ASSUME Init
             PROVE  IInv
  OBVIOUS
<1>1. TypeOK
  <2>1. BackoffInitial \in BackoffInitial .. BackoffMax
    BY DdnsAssumption
  <2> QED BY <2>1 DEF Init, TypeOK
<1>2. BackoffAhead
  BY DEF Init, BackoffAhead
<1> QED BY <1>1, <1>2 DEF IInv

(* Every failing branch of a cycle keeps the types and the backoff.          *)
LEMMA FailedTypes ==
  ASSUME IInv, Failed
  PROVE  /\ ok' \in BOOLEAN /\ ok' = FALSE
         /\ pc' = "sleep"
         /\ seen' = seen
         /\ last_ip' = last_ip
         /\ backoff' \in BackoffInitial .. BackoffMax
         /\ sleep_time' \in BackoffInitial .. BackoffMax
         /\ BackoffAhead'
<1>1. backoff \in BackoffInitial .. BackoffMax
  BY DEF IInv, TypeOK
<1>2. Doubled(backoff) \in BackoffInitial .. BackoffMax
  BY <1>1, DoubledBounds
<1> QED
  BY <1>1, <1>2 DEF Failed, BackoffAhead, Doubled

(* Every step of the process and of the world around it keeps the invariant. *)
LEMMA NextIInv == IInv /\ [Next]_vars => IInv'
<1> SUFFICES ASSUME IInv, [Next]_vars
             PROVE  IInv'
  OBVIOUS
<1> USE DdnsAssumption DEF world
<1>1. CASE DetectFails
  <2>1. /\ UNCHANGED <<ip, cached, settled, shutdown, record>>
        /\ Failed
    BY <1>1 DEF DetectFails, Failed
  <2>2. TypeOK'
    BY <2>1, FailedTypes DEF IInv, TypeOK
  <2> QED BY <2>1, <2>2, FailedTypes DEF IInv
<1>2. CASE Detect
  BY <1>2 DEF Detect, IInv, TypeOK, BackoffAhead, Doubled
<1>3. ASSUME NEW answer, Lookup(answer)
      PROVE  IInv'
  <2>0. seen \in Addr
    BY <1>3 DEF Lookup, IInv, TypeOK
  <2>1. CASE Correct(answer)
    <3>1. Succeeded(seen) /\ record' = record
      BY <1>3, <2>1 DEF Lookup
    <3>2. TypeOK'
      BY <3>1, <2>0 DEF Succeeded, IInv, TypeOK
    <3>3. BackoffAhead'
      BY <3>1 DEF Succeeded, BackoffAhead
    <3> QED BY <3>2, <3>3 DEF IInv
  <2>2. CASE ~Correct(answer)
    BY <1>3, <2>0, <2>2 DEF Lookup, IInv, TypeOK, BackoffAhead, Doubled
  <2> QED BY <2>1, <2>2
<1>4. CASE PushAccepted
  <2>0. seen \in Addr
    BY <1>4 DEF PushAccepted, IInv, TypeOK
  <2> QED
    BY <1>4, <2>0 DEF PushAccepted, Succeeded, IInv, TypeOK, BackoffAhead
<1>5. CASE PushFails
  <2>1. /\ UNCHANGED <<ip, cached, settled, shutdown>>
        /\ record' \in {record, seen}
        /\ seen \in Addr
        /\ Failed
    BY <1>5 DEF PushFails, Failed, IInv, TypeOK
  <2>2. TypeOK'
    BY <2>1, FailedTypes DEF IInv, TypeOK
  <2> QED BY <2>1, <2>2, FailedTypes DEF IInv
<1>6. CASE Wake
  BY <1>6 DEF Wake, IInv, TypeOK, BackoffAhead, Doubled
<1>7. CASE Start
  <2>1. BackoffInitial \in BackoffInitial .. BackoffMax
    OBVIOUS
  <2> QED
    BY <1>7, <2>1 DEF Start, IInv, TypeOK, BackoffAhead
<1>8. CASE Signal
  BY <1>8 DEF Signal, IInv, TypeOK, BackoffAhead, Doubled
<1>9. CASE Crash
  BY <1>9 DEF Crash, IInv, TypeOK, BackoffAhead, Doubled
<1>10. CASE AddressChanges
  BY <1>10 DEF AddressChanges, IInv, TypeOK, BackoffAhead, Doubled
<1>11. CASE Settle
  BY <1>11 DEF Settle, IInv, TypeOK, BackoffAhead, Doubled
<1>12. ASSUME NEW r \in Resolver, Refresh(r)
       PROVE  IInv'
  BY <1>12 DEF Refresh, IInv, TypeOK, BackoffAhead, Doubled
<1>13. CASE UNCHANGED vars
  BY <1>13 DEF vars, IInv, TypeOK, BackoffAhead, Doubled
<1> QED
  BY <1>1, <1>2, <1>3, <1>4, <1>5, <1>6, <1>7, <1>8, <1>9, <1>10, <1>11, <1>12, <1>13
     DEF Next, Step, LookupAnswered, LookupFailed

(* The invariant holds in every reachable state. *)
LEMMA Invariance == Spec => []IInv
BY InitIInv, NextIInv, PTL DEF Spec

-------------------------------------------------------------------------------
(* The state of main and update_dns keeps its types; sleeps and backoff stay *)
(* between BACKOFF_INITIAL and BACKOFF_MAX.                                  *)
THEOREM TypeCorrect == Spec => []TypeOK
<1>1. IInv => TypeOK
  BY DEF IInv
<1> QED BY <1>1, Invariance, PTL

(* The first failure sleeps for BACKOFF_INITIAL, and in a series of failures *)
(* every sleep is twice the one before, up to the maximum.                   *)
THEOREM BackoffDoubles == Spec => BackoffGrows
<1> DEFINE Grows == Fails => IF ok THEN sleep_time' = BackoffInitial
                             ELSE \/ sleep_time' = 2 * sleep_time
                                  \/ sleep_time' = BackoffMax /\ BackoffMax < 2 * sleep_time
<1>1. IInv /\ [Next]_vars => [Grows]_vars
  <2> SUFFICES ASSUME IInv, Next, Fails
               PROVE  Grows
    BY DEF Fails
  <2>1. Failed
    BY DEF Fails, Next, Step, DetectFails, PushFails, Detect, Lookup, LookupAnswered,
           LookupFailed, PushAccepted, Succeeded, Wake, Start, Signal, Crash,
           AddressChanges, Settle, Refresh, vars, world
  <2>2. CASE ok
    BY <2>1, <2>2 DEF Failed, IInv, BackoffAhead
  <2>3. CASE ~ok
    <3>1. /\ sleep_time \in BackoffInitial .. BackoffMax
          /\ sleep_time' = Doubled(sleep_time)
      BY <2>1, <2>3 DEF Failed, IInv, BackoffAhead
    <3> QED
      BY <3>1, <2>3, DdnsAssumption DEF Doubled
  <2> QED BY <2>2, <2>3
<1> QED
  BY <1>1, Invariance, PTL DEF Spec, BackoffGrows

===============================================================================
