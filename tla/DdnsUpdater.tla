------------------------------ MODULE DdnsUpdater ------------------------------
(***************************************************************************)
(* godaddy_ddns.py: a long-lived process that keeps the A record of one    *)
(* host name at GoDaddy equal to the public address of the house.  Every   *)
(* cycle it asks what the public address is, asks two public resolvers     *)
(* what they answer for the name, and writes the record if they disagree   *)
(* (update_dns); then it sleeps, longer after every failure in a row       *)
(* (main).                                                                 *)
(*                                                                         *)
(* Outside the process, and modelled from how it is used: the public       *)
(* address, the record, and the resolvers' caches, which show an earlier   *)
(* record until they catch up.  A call may fail; a write may take effect   *)
(* although its answer is an error or never arrives, and the second one    *)
(* ends the process, because reading an answer raises an OSError that      *)
(* nothing catches.  The container is then started again.                  *)
(*                                                                         *)
(* ResetOnFailure and IgnoresDns are faulty variants of the definitions    *)
(* that follow them.                                                       *)
(***************************************************************************)
EXTENDS Naturals

CONSTANTS Addr,            \* addresses the house may be given
          NoAddr,          \* the empty string, and None
          Resolver,        \* DNS_SERVERS
          BackoffInitial,  \* BACKOFF_INITIAL, in units of time
          BackoffMax,      \* BACKOFF_MAX
          Interval         \* GODADDY_INTERVAL

ASSUME DdnsAssumption ==
  /\ NoAddr \notin Addr
  /\ BackoffInitial \in Nat \ {0} /\ BackoffMax \in Nat /\ Interval \in Nat
  /\ BackoffInitial < BackoffMax

VARIABLES ip,          \* the public address
          record,      \* the A record at GoDaddy
          cached,      \* what each resolver shows
          settled,     \* the address does not change any more
          pc,          \* what the process does next
          seen,        \* ip in update_dns: the address this cycle found
          ok,          \* ok in main: the last cycle succeeded
          last_ip,     \* last_ip in main
          backoff,     \* backoff in main
          sleep_time,  \* sleep_time in main
          shutdown     \* a signal has arrived

world == <<ip, record, cached, settled>>
vars == <<world, pc, seen, ok, last_ip, backoff, sleep_time, shutdown>>

Init ==
  /\ ip \in Addr
  /\ record \in Addr
  /\ cached = [r \in Resolver |-> record]
  /\ settled = FALSE
  /\ pc = "detect"
  /\ seen = NoAddr
  /\ ok = TRUE
  /\ last_ip = NoAddr
  /\ backoff = BackoffInitial
  /\ sleep_time = 0
  /\ shutdown = FALSE
-------------------------------------------------------------------------------
(* A cycle is over: main decides how long to sleep. *)
Succeeded(address) ==
  /\ ok' = TRUE
  /\ last_ip' = address
  /\ backoff' = BackoffInitial
  /\ sleep_time' = Interval
  /\ pc' = "sleep"
  /\ UNCHANGED <<ip, cached, settled, seen, shutdown>>

ResetOnFailure(now) == BackoffInitial

(* min(backoff * 2, BACKOFF_MAX) *)
Doubled(now) == IF now * 2 < BackoffMax THEN now * 2 ELSE BackoffMax

Failed ==
  /\ ok' = FALSE
  /\ sleep_time' = backoff
  /\ backoff' = Doubled(backoff)
  /\ pc' = "sleep"
  /\ UNCHANGED <<ip, cached, settled, seen, last_ip, shutdown>>

(* get_public_ip raises or does not return an address, or it returns it. *)
DetectFails ==
  /\ pc = "detect"
  /\ Failed
  /\ UNCHANGED record

Detect ==
  /\ pc = "detect"
  /\ seen' = ip
  /\ pc' = "lookup"
  /\ UNCHANGED <<world, ok, last_ip, backoff, sleep_time, shutdown>>

IgnoresDns(answer) == seen \in {answer, last_ip}

(* No need to write: the answer is right or, without one, last_ip is. *)
Correct(answer) == seen = (IF answer = NoAddr THEN last_ip ELSE answer)

(* resolve_external returns the first answer it gets, or None.  An answer    *)
(* that agrees, be it right or an old copy, sets last_ip without a write.    *)
Lookup(answer) ==
  /\ pc = "lookup"
  /\ IF Correct(answer)
       THEN /\ Succeeded(seen)
            /\ UNCHANGED record
       ELSE /\ pc' = "push"
            /\ UNCHANGED <<world, seen, ok, last_ip, backoff, sleep_time, shutdown>>

LookupAnswered == \E r \in Resolver : Lookup(cached[r])

LookupFailed == Lookup(NoAddr)

(* The PUT takes effect and its answer is read. *)
PushAccepted ==
  /\ pc = "push"
  /\ record' = seen
  /\ Succeeded(seen)

(* HTTPError or URLError, with or without effect. *)
PushFails ==
  /\ pc = "push"
  /\ record' \in {record, seen}
  /\ Failed

(* The sleep is over; it ends early when a signal has arrived. *)
Wake ==
  /\ pc = "sleep"
  /\ pc' = IF shutdown THEN "down" ELSE "detect"
  /\ UNCHANGED <<world, seen, ok, last_ip, backoff, sleep_time, shutdown>>

Signal ==
  /\ ~settled
  /\ pc # "down"
  /\ shutdown' = TRUE
  /\ UNCHANGED <<world, pc, seen, ok, last_ip, backoff, sleep_time>>

(* The process is killed, or the connection breaks while it reads the answer *)
(* to a write that took effect.                                              *)
Crash ==
  /\ ~settled
  /\ pc # "down"
  /\ pc' = "down"
  /\ record' \in IF pc = "push" THEN {record, seen} ELSE {record}
  /\ UNCHANGED <<ip, cached, settled, seen, ok, last_ip, backoff, sleep_time, shutdown>>

(* The container is started again; nothing was persisted. *)
Start ==
  /\ pc = "down"
  /\ pc' = "detect"
  /\ seen' = NoAddr
  /\ ok' = TRUE
  /\ last_ip' = NoAddr
  /\ backoff' = BackoffInitial
  /\ sleep_time' = 0
  /\ shutdown' = FALSE
  /\ UNCHANGED world
-------------------------------------------------------------------------------
AddressChanges ==
  /\ ~settled
  /\ ip' \in Addr
  /\ UNCHANGED <<record, cached, settled, pc, seen, ok, last_ip, backoff, sleep_time,
                 shutdown>>

Settle ==
  /\ ~settled
  /\ settled' = TRUE
  /\ UNCHANGED <<ip, record, cached, pc, seen, ok, last_ip, backoff, sleep_time,
                 shutdown>>

(* A resolver's copy expires and it asks for the record again. *)
Refresh(r) ==
  /\ cached' = [cached EXCEPT ![r] = record]
  /\ UNCHANGED <<ip, record, settled, pc, seen, ok, last_ip, backoff, sleep_time,
                 shutdown>>
-------------------------------------------------------------------------------
Step ==
  \/ DetectFails \/ Detect
  \/ LookupAnswered \/ LookupFailed
  \/ PushAccepted \/ PushFails
  \/ Wake \/ Start

Next ==
  \/ Step
  \/ Signal \/ Crash
  \/ AddressChanges \/ Settle
  \/ \E r \in Resolver : Refresh(r)

(* The process goes on; a service that is asked again and again works at     *)
(* last; caches expire.                                                      *)
Fairness ==
  /\ WF_vars(Step)
  /\ SF_vars(Detect) /\ SF_vars(LookupAnswered) /\ SF_vars(PushAccepted)
  /\ \A r \in Resolver : WF_vars(Refresh(r))

Spec == Init /\ [][Next]_vars
FairSpec == Spec /\ Fairness
-------------------------------------------------------------------------------
(* The types; update_dns always has an address once it looks the name up,    *)
(* and the sleeps stay between the two bounds of the backoff.                *)
TypeOK ==
  /\ ip \in Addr /\ record \in Addr
  /\ cached \in [Resolver -> Addr]
  /\ settled \in BOOLEAN /\ ok \in BOOLEAN /\ shutdown \in BOOLEAN
  /\ pc \in {"detect", "lookup", "push", "sleep", "down"}
  /\ seen \in Addr \cup {NoAddr}
  /\ pc \in {"lookup", "push"} => seen \in Addr
  /\ last_ip \in Addr \cup {NoAddr}
  /\ backoff \in BackoffInitial .. BackoffMax
  /\ sleep_time \in {0, Interval} \cup (BackoffInitial .. BackoffMax)

(* A cycle ends with a failure.                                              *)
Fails == pc # "sleep" /\ pc' = "sleep" /\ ~ok'

(* The first failure after a success or a start sleeps for BACKOFF_INITIAL;  *)
(* while cycles keep failing, each sleep is twice the one before, up to the  *)
(* maximum: no crash-free series of failures hammers the API, and no old     *)
(* series delays the first retry of a new one.                               *)
BackoffGrows ==
  [][ Fails => IF ok THEN sleep_time' = BackoffInitial
               ELSE \/ sleep_time' = 2 * sleep_time
                    \/ sleep_time' = BackoffMax /\ BackoffMax < 2 * sleep_time ]_vars

(* Whatever failed before, and whatever last_ip or the caches wrongly say:   *)
(* once the address stays, the record becomes the address and stays so.      *)
CatchesUp == <>settled => <>[](record = ip)

===============================================================================
