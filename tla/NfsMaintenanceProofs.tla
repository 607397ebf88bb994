------------------------- MODULE NfsMaintenanceProofs -------------------------
(***************************************************************************)
(* Theorems of NfsMaintenance for every cluster: any workloads, kinds and  *)
(* names.  The inductive invariant adds to the properties what each task   *)
(* of a run may rely on.                                                   *)
(***************************************************************************)
EXTENDS NfsMaintenance, TLAPS

AfterWrite == {"scale", "stop", "wait", "restore", "start"}

(* From the write on, and in an "up", the run's list is what the file says;  *)
(* the list is written before anything was scaled.                           *)
ListIsFile ==
  /\ task \in AfterWrite => found = file /\ underway
  /\ task = "write" => \A w \in DOMAIN found : found[w] \in Nat => found[w] = replicas[w]

(* What is left of a loop runs, as far as is known, and is of its kind.      *)
TodoKinds ==
  \A w \in todo :
    /\ w \in Running(found) \/ found[w] = Unread
    /\ task \in {"scale", "restore"} => Kind[w] \in Apps
    /\ task \in {"stop", "start"} => Kind[w] = "vm"
    /\ task \in AfterWrite

(* While a maintenance is under way that was saved once, the counts in the   *)
(* file are what people want, and only workloads it has a count of differ.   *)
FileWanted ==
  underway /\ ~rerun =>
    /\ \A w \in DOMAIN file : file[w] \in Nat => file[w] = wanted[w]
    /\ \A w \in Workload : replicas[w] # wanted[w] => w \in Running(file)

(* What the loops of "down" that are through, or this far, have done.        *)
DownProgress ==
  ~failed => \A w \in Running(found) :
    /\ Kind[w] \in Apps /\ (task \in {"stop", "wait"} \/ (task = "scale" /\ w \notin todo))
         => replicas[w] = 0
    /\ Kind[w] = "vm" /\ (task = "wait" \/ (task = "stop" /\ w \notin todo))
         => replicas[w] = 0
    /\ task = "wait" /\ w \notin todo => ~pods[w]

(* The same for "up". *)
UpProgress ==
  ~failed => \A w \in Running(found) :
    /\ Kind[w] \in Apps /\ (task = "start" \/ (task = "restore" /\ w \notin todo))
         => replicas[w] = found[w]
    /\ Kind[w] = "vm" /\ task = "start" /\ w \notin todo => replicas[w] = found[w]

(* "NFS maintenance ready" is the end of a run in a maintenance. *)
ReadyBetween == ready => task = "none" /\ underway

IInv == /\ TypeOK
        /\ RestoredInFull
        /\ StoppedQuiet
        /\ ListIsFile /\ TodoKinds /\ FileWanted
        /\ DownProgress /\ UpProgress /\ ReadyBetween

-------------------------------------------------------------------------------
(* The empty state file is a list. *)
LEMMA NoStateIsList == IsList(NoState) /\ DOMAIN NoState = {} /\ Running(NoState) = {}
BY DEF IsList, NoState, Running

(* What runs by a list is of a kind that the loops know. *)
LEMMA RunningScalable ==
  ASSUME NEW l, IsList(l), NEW w \in Running(l)
  PROVE  /\ w \in Workload /\ w \in DOMAIN l
         /\ l[w] \in Nat /\ l[w] > 0 /\ l[w] # Unread
         /\ Kind[w] \in Apps \/ Kind[w] = "vm"
BY NfsAssumption DEF Running, IsList, Scalable

(* What discovery says of the workloads is a list. *)
LEMMA ListsAreLists ==
  ASSUME replicas \in [Workload -> Nat], NEW list \in Lists
  PROVE  IsList(list)
<1>1. DOMAIN list = Discovered /\ Discovered \subseteq Workload
  BY NfsAssumption DEF Lists, Discovered
<1>2. ASSUME NEW w \in Discovered
      PROVE  list[w] \in {Uncounted} \cup IF Kind[w] \in Scalable THEN Nat \cup {Unread} ELSE {}
  <2>1. list[w] \in Listed(w)
    BY DEF Lists
  <2> QED
    BY <1>1, <2>1 DEF Listed, Scalable, Apps
<1> QED
  BY <1>1, <1>2 DEF IsList

(* A cluster nobody has run the playbook on. *)
LEMMA InitIInv == Init => IInv
<1> SUFFICES ASSUME Init
             PROVE  IInv
  OBVIOUS
<1>1. TypeOK
  <2>1. replicas \in [Workload -> Nat]
    BY NfsAssumption DEF Init
  <2>2. pods \in [Workload -> BOOLEAN]
    BY DEF Init
  <2> QED
    BY <2>1, <2>2, NoStateIsList DEF Init, TypeOK
<1>2. RestoredInFull /\ StoppedQuiet /\ ListIsFile /\ TodoKinds /\ FileWanted /\ ReadyBetween
  BY NoStateIsList DEF Init, RestoredInFull, StoppedQuiet, ListIsFile, TodoKinds,
     FileWanted, ReadyBetween, AfterWrite
<1>3. DownProgress /\ UpProgress
  BY NoStateIsList DEF Init, DownProgress, UpProgress
<1> QED
  BY <1>1, <1>2, <1>3 DEF IInv

(* The end of a run, for whatever reason, keeps what does not speak of ready *)
(* or of the history.                                                        *)
LEMMA RunEndsKeeps ==
  ASSUME IInv, RunEnds, UNCHANGED <<cluster, file>>
  PROVE  /\ IsList(found') /\ IsList(file') /\ todo' = {} /\ task' = "none" /\ failed' = FALSE
         /\ replicas' \in [Workload -> Nat] /\ pods' \in [Workload -> BOOLEAN]
         /\ ListIsFile' /\ TodoKinds' /\ DownProgress' /\ UpProgress'
<1>1. /\ IsList(found') /\ IsList(file') /\ todo' = {} /\ task' = "none" /\ failed' = FALSE
      /\ replicas' \in [Workload -> Nat] /\ pods' \in [Workload -> BOOLEAN]
  BY NoStateIsList DEF RunEnds, IInv, TypeOK, cluster
<1>2. ListIsFile' /\ TodoKinds'
  BY <1>1 DEF ListIsFile, TodoKinds, AfterWrite
<1>3. DownProgress' /\ UpProgress'
  BY <1>1 DEF DownProgress, UpProgress
<1> QED
  BY <1>1, <1>2, <1>3

(* When the run ends without a word about readiness and without completing   *)
(* the maintenance, the whole invariant is kept.                             *)
LEMMA RunEndsIInv ==
  ASSUME IInv, RunEnds, UNCHANGED <<cluster, file, ready, history>>, task # "none"
  PROVE  IInv'
<1>1. ~ready' /\ UNCHANGED <<replicas, pods, file, wanted, underway, rerun>>
  BY DEF IInv, ReadyBetween, cluster, history
<1>2. TypeOK'
  BY <1>1, RunEndsKeeps DEF IInv, TypeOK
<1>3. RestoredInFull' /\ StoppedQuiet' /\ FileWanted' /\ ReadyBetween'
  BY <1>1 DEF IInv, RestoredInFull, StoppedQuiet, FileWanted, ReadyBetween
<1> QED
  BY <1>2, <1>3, RunEndsKeeps DEF IInv

(* A loop begins with the items of its kinds, those that run among them. *)
LEMMA LoopItems ==
  ASSUME NEW name, NEW kinds, NEW list, Loop(name, kinds, list)
  PROVE  /\ task' = name /\ failed' = FALSE
         /\ todo' \subseteq DOMAIN list
         /\ \A w \in todo' : Kind[w] \in kinds /\ (w \in Running(list) \/ list[w] = Unread)
         /\ \A w \in Running(list) : Kind[w] \in kinds => w \in todo'
BY DEF Loop, Items, Running

(* The same for a loop over the VirtualMachines. *)
LEMMA LoopItemsVm ==
  ASSUME NEW name, NEW list, Loop(name, {"vm"}, list)
  PROVE  /\ task' = name /\ failed' = FALSE
         /\ todo' \subseteq DOMAIN list
         /\ \A w \in todo' : Kind[w] = "vm" /\ (w \in Running(list) \/ list[w] = Unread)
         /\ \A w \in Running(list) : Kind[w] = "vm" => w \in todo'
BY DEF Loop, Items, Running

-------------------------------------------------------------------------------
(* Discovery lists what runs now, before anything is scaled. *)
LEMMA DiscoverIInv == ASSUME IInv, Discover PROVE IInv'
<1>1. CASE Discovered = {}
  BY <1>1, RunEndsIInv DEF Discover
<1>2. CASE Discovered # {}
  <2>1. /\ found' \in Lists
        /\ task = "discover" /\ task' = "write"
        /\ UNCHANGED <<replicas, pods, file, ready, wanted, underway, rerun, todo, failed>>
    BY <1>2 DEF Discover, cluster, history
  <2>2. IsList(found')
    BY <2>1, ListsAreLists DEF IInv, TypeOK
  <2>3. todo = {} /\ ~ready
    BY <2>1 DEF IInv, TodoKinds, AfterWrite, ReadyBetween
  <2>4. TypeOK'
    BY <2>1, <2>2, <2>3 DEF IInv, TypeOK, DownTasks
  <2>7. \A w \in DOMAIN found' : found'[w] \in Nat => found'[w] = replicas[w]
    BY <2>1, NfsAssumption DEF Lists, Listed
  <2>5. ListIsFile' /\ TodoKinds' /\ DownProgress' /\ UpProgress'
    BY <2>1, <2>3, <2>7 DEF ListIsFile, TodoKinds, DownProgress, UpProgress, AfterWrite
  <2>6. RestoredInFull' /\ StoppedQuiet' /\ FileWanted' /\ ReadyBetween'
    BY <2>1, <2>3 DEF IInv, RestoredInFull, StoppedQuiet, FileWanted, ReadyBetween
  <2> QED BY <2>4, <2>5, <2>6 DEF IInv
<1> QED BY <1>1, <1>2

(* The first write of a maintenance makes the file what people want. *)
LEMMA WriteStateIInv == ASSUME IInv, WriteState PROVE IInv'
<1>1. /\ task = "write" /\ file' = found /\ found' = found
      /\ underway' = TRUE /\ rerun' = underway
      /\ wanted' = IF underway THEN wanted ELSE replicas
      /\ UNCHANGED <<replicas, pods, ready>>
      /\ Loop("scale", Apps, found)
  BY DEF WriteState, Written, cluster
<1>2. /\ task' = "scale" /\ failed' = FALSE /\ ~ready'
      /\ todo' \subseteq DOMAIN found
      /\ \A w \in todo' : Kind[w] \in Apps /\ (w \in Running(found) \/ found[w] = Unread)
      /\ \A w \in Running(found) : Kind[w] \in Apps => w \in todo'
  BY <1>1, LoopItems DEF IInv, ReadyBetween
<1>3. TypeOK'
  BY <1>1, <1>2 DEF IInv, TypeOK, DownTasks
<1>4. RestoredInFull' /\ StoppedQuiet' /\ ReadyBetween'
  BY <1>1, <1>2 DEF RestoredInFull, StoppedQuiet, ReadyBetween
<1>5. ListIsFile' /\ TodoKinds'
  BY <1>1, <1>2 DEF ListIsFile, TodoKinds, AfterWrite
<1>6. FileWanted'
  <2>0. ~rerun' => ~underway
    BY <1>1
  <2> SUFFICES ASSUME ~underway
               PROVE  FileWanted'
    BY <2>0 DEF FileWanted
  <2>1. wanted' = replicas /\ \A w \in DOMAIN found : found[w] \in Nat => found[w] = replicas[w]
    BY <1>1 DEF IInv, ListIsFile
  <2> QED
    BY <1>1, <2>1 DEF FileWanted
<1>7. DownProgress' /\ UpProgress'
  BY <1>1, <1>2 DEF DownProgress, UpProgress
<1> QED BY <1>3, <1>4, <1>5, <1>6, <1>7 DEF IInv

(* One item of a loop that scales to zero. *)
LEMMA ScaleItemIInv ==
  ASSUME IInv, NEW w \in Workload, ScaleDown(w) \/ StopVm(w)
  PROVE  IInv'
<1>1. /\ task \in {"scale", "stop"} /\ w \in todo /\ todo' = todo \ {w} /\ found[w] # Unread
      /\ \/ replicas' = [replicas EXCEPT ![w] = 0] /\ failed' = failed
         \/ replicas' = replicas /\ failed' = TRUE
      /\ UNCHANGED <<pods, file, task, found, ready, wanted, underway, rerun>>
  BY DEF ScaleDown, StopVm, SetItem, Item, history
<1>2. /\ found = file /\ underway /\ ~ready
      /\ w \in Running(file)
      /\ task = "scale" => Kind[w] \in Apps
      /\ task = "stop" => Kind[w] = "vm"
  BY <1>1 DEF IInv, TypeOK, ListIsFile, TodoKinds, ReadyBetween, AfterWrite
<1>3. /\ replicas' \in [Workload -> Nat]
      /\ \A v \in Workload : v # w => replicas'[v] = replicas[v]
      /\ ~failed' => replicas'[w] = 0 /\ ~failed
  BY <1>1 DEF IInv, TypeOK
<1>4. TypeOK'
  BY <1>1, <1>3 DEF IInv, TypeOK
<1>5. RestoredInFull' /\ StoppedQuiet' /\ ReadyBetween'
  BY <1>1, <1>2 DEF RestoredInFull, StoppedQuiet, ReadyBetween
<1>6. ListIsFile' /\ TodoKinds'
  BY <1>1, <1>2 DEF IInv, ListIsFile, TodoKinds, AfterWrite
<1>7. FileWanted'
  BY <1>1, <1>2, <1>3 DEF IInv, FileWanted
<1>8. DownProgress'
  BY <1>1, <1>2, <1>3, RunningScalable DEF IInv, TypeOK, DownProgress, Apps
<1>9. UpProgress'
  BY <1>1 DEF UpProgress
<1> QED BY <1>4, <1>5, <1>6, <1>7, <1>8, <1>9 DEF IInv

(* A loop that ends at an item without a count has failed. *)
LEMMA UndefinedIInv ==
  ASSUME IInv, NEW w \in Workload, Undefined(w)
  PROVE  IInv'
<1>1. /\ w \in todo /\ todo' = {} /\ failed' = TRUE
      /\ UNCHANGED <<replicas, pods, file, task, found, ready, wanted, underway, rerun>>
  BY DEF Undefined, cluster, history
<1>2. TypeOK'
  BY <1>1 DEF IInv, TypeOK
<1>3. RestoredInFull' /\ StoppedQuiet' /\ ReadyBetween' /\ FileWanted'
  BY <1>1 DEF IInv, RestoredInFull, StoppedQuiet, ReadyBetween, FileWanted
<1>4. ListIsFile' /\ TodoKinds' /\ DownProgress' /\ UpProgress'
  BY <1>1 DEF IInv, ListIsFile, TodoKinds, AfterWrite, DownProgress, UpProgress
<1> QED BY <1>2, <1>3, <1>4 DEF IInv

(* An item of the wait is over, one way or the other. *)
LEMMA WaitItemIInv ==
  ASSUME IInv, NEW w \in Workload, WaitOver(w) \/ RetriesExhausted(w)
  PROVE  IInv'
<1>1. /\ task = "wait" /\ w \in todo /\ todo' = todo \ {w}
      /\ \/ Gone(w) /\ failed' = failed
         \/ failed' = TRUE
      /\ UNCHANGED <<replicas, pods, file, task, found, ready, wanted, underway, rerun>>
  BY DEF WaitOver, RetriesExhausted, Item, cluster, history
<1>2. ~failed' => ~pods[w] /\ ~failed
  BY <1>1, NfsAssumption DEF Gone
<1>3. TypeOK'
  BY <1>1 DEF IInv, TypeOK
<1>4. RestoredInFull' /\ StoppedQuiet' /\ ReadyBetween' /\ FileWanted'
  BY <1>1 DEF IInv, RestoredInFull, StoppedQuiet, ReadyBetween, FileWanted
<1>5. ListIsFile' /\ TodoKinds'
  BY <1>1 DEF IInv, ListIsFile, TodoKinds, AfterWrite
<1>6. DownProgress' /\ UpProgress'
  BY <1>1, <1>2 DEF IInv, DownProgress, UpProgress
<1> QED BY <1>3, <1>4, <1>5, <1>6 DEF IInv

(* After the loop over the applications the VirtualMachines follow, or the   *)
(* run stops.                                                                *)
LEMMA ScaleDoneIInv == ASSUME IInv, ScaleDone PROVE IInv'
<1>1. /\ task = "scale" /\ todo = {}
      /\ UNCHANGED <<replicas, pods, file, ready, wanted, underway, rerun>>
  BY DEF ScaleDone, LoopDone, cluster, history
<1>2. CASE failed
  BY <1>1, <1>2, RunEndsIInv DEF ScaleDone
<1>3. CASE ~failed
  <2>1. found' = found /\ Loop("stop", {"vm"}, found)
    BY <1>3 DEF ScaleDone
  <2>2. /\ task' = "stop" /\ failed' = FALSE
        /\ todo' \subseteq DOMAIN found
        /\ \A w \in todo' : Kind[w] = "vm" /\ (w \in Running(found) \/ found[w] = Unread)
        /\ \A w \in Running(found) : Kind[w] = "vm" => w \in todo'
    BY <2>1, LoopItemsVm
  <2>3. TypeOK'
    BY <1>1, <2>1, <2>2 DEF IInv, TypeOK, DownTasks
  <2>4. RestoredInFull' /\ StoppedQuiet' /\ ReadyBetween' /\ FileWanted'
    BY <1>1 DEF IInv, RestoredInFull, StoppedQuiet, ReadyBetween, FileWanted
  <2>5. ListIsFile' /\ TodoKinds'
    BY <1>1, <2>1, <2>2 DEF IInv, ListIsFile, TodoKinds, AfterWrite
  <2>6. DownProgress' /\ UpProgress'
    BY <1>1, <1>3, <2>1, <2>2 DEF IInv, DownProgress, UpProgress
  <2> QED BY <2>3, <2>4, <2>5, <2>6 DEF IInv
<1> QED BY <1>2, <1>3

(* After the loop over the VirtualMachines the run waits, or stops. *)
LEMMA StopDoneIInv == ASSUME IInv, StopDone PROVE IInv'
<1>1. /\ task = "stop" /\ todo = {}
      /\ UNCHANGED <<replicas, pods, file, ready, wanted, underway, rerun>>
  BY DEF StopDone, LoopDone, cluster, history
<1>2. CASE failed
  BY <1>1, <1>2, RunEndsIInv DEF StopDone
<1>3. CASE ~failed
  <2>1. found' = found /\ Loop("wait", Scalable, found)
    BY <1>3 DEF StopDone
  <2>2. /\ task' = "wait" /\ failed' = FALSE
        /\ todo' \subseteq DOMAIN found
        /\ \A w \in todo' : w \in Running(found) \/ found[w] = Unread
        /\ \A w \in Running(found) : w \in todo'
    <3>1. \A w \in Running(found) : Kind[w] \in Scalable
      BY RunningScalable DEF IInv, TypeOK, Scalable
    <3> QED
      BY <2>1, <3>1, LoopItems
  <2>3. TypeOK'
    BY <1>1, <2>1, <2>2 DEF IInv, TypeOK, DownTasks
  <2>4. RestoredInFull' /\ StoppedQuiet' /\ ReadyBetween' /\ FileWanted'
    BY <1>1 DEF IInv, RestoredInFull, StoppedQuiet, ReadyBetween, FileWanted
  <2>5. ListIsFile' /\ TodoKinds'
    BY <1>1, <2>1, <2>2 DEF IInv, ListIsFile, TodoKinds, AfterWrite
  <2>6. DownProgress' /\ UpProgress'
    BY <1>1, <1>3, <2>1, <2>2 DEF IInv, DownProgress, UpProgress
  <2> QED BY <2>3, <2>4, <2>5, <2>6 DEF IInv
<1> QED BY <1>2, <1>3

(* "NFS maintenance ready": every wait succeeded. *)
LEMMA WaitDoneIInv == ASSUME IInv, WaitDone PROVE IInv'
<1>1. /\ task = "wait" /\ todo = {} /\ RunEnds /\ ready' = ~failed
      /\ UNCHANGED <<replicas, pods, file, wanted, underway, rerun>>
      /\ UNCHANGED <<cluster, file>>
  BY DEF WaitDone, LoopDone, cluster, history
<1>2. found = file /\ underway
  BY <1>1 DEF IInv, ListIsFile, AfterWrite
<1>3. TypeOK'
  BY <1>1, RunEndsKeeps DEF IInv, TypeOK
<1>4. StoppedQuiet'
  <2> SUFFICES ASSUME ~failed, NEW w \in Running(file)
               PROVE  replicas[w] = 0 /\ ~pods[w]
    BY <1>1 DEF StoppedQuiet
  <2>1. Kind[w] \in Apps \/ Kind[w] = "vm"
    BY RunningScalable DEF IInv, TypeOK
  <2> QED
    BY <1>1, <1>2, <2>1 DEF IInv, DownProgress
<1>5. RestoredInFull' /\ ReadyBetween' /\ FileWanted'
  BY <1>1, <1>2, RunEndsKeeps DEF IInv, RestoredInFull, ReadyBetween, FileWanted
<1> QED BY <1>1, <1>3, <1>4, <1>5, RunEndsKeeps DEF IInv

-------------------------------------------------------------------------------
(* "up" begins with the list the file holds. *)
LEMMA StartUpIInv == ASSUME IInv, StartUp PROVE IInv'
<1>1. /\ task = "none" /\ underway /\ found' = file /\ ready' = FALSE
      /\ UNCHANGED <<replicas, pods, file, wanted, underway, rerun>>
      /\ Loop("restore", Apps, file)
  BY DEF StartUp, cluster, history
<1>2. /\ task' = "restore" /\ failed' = FALSE
      /\ todo' \subseteq DOMAIN file
      /\ \A w \in todo' : Kind[w] \in Apps /\ (w \in Running(file) \/ file[w] = Unread)
      /\ \A w \in Running(file) : Kind[w] \in Apps => w \in todo'
  BY <1>1, LoopItems
<1>3. TypeOK'
  BY <1>1, <1>2 DEF IInv, TypeOK, UpTasks
<1>4. RestoredInFull' /\ StoppedQuiet' /\ ReadyBetween' /\ FileWanted'
  BY <1>1 DEF IInv, RestoredInFull, StoppedQuiet, ReadyBetween, FileWanted
<1>5. ListIsFile' /\ TodoKinds'
  BY <1>1, <1>2 DEF ListIsFile, TodoKinds, AfterWrite
<1>6. DownProgress' /\ UpProgress'
  BY <1>1, <1>2 DEF DownProgress, UpProgress
<1> QED BY <1>3, <1>4, <1>5, <1>6 DEF IInv

(* One item of a loop that gives a workload its count back. *)
LEMMA RestoreItemIInv ==
  ASSUME IInv, NEW w \in Workload, Restore(w) \/ StartVm(w)
  PROVE  IInv'
<1>1. /\ task \in {"restore", "start"} /\ w \in todo /\ todo' = todo \ {w} /\ found[w] # Unread
      /\ \/ replicas' = [replicas EXCEPT ![w] = found[w]] /\ failed' = failed
         \/ replicas' = replicas /\ failed' = TRUE
      /\ UNCHANGED <<pods, file, task, found, ready, wanted, underway, rerun>>
  BY DEF Restore, StartVm, SetItem, Item, Count, history
<1>2. /\ found = file /\ underway /\ ~ready
      /\ w \in Running(found) /\ w \in DOMAIN file /\ found[w] \in Nat
      /\ task = "restore" => Kind[w] \in Apps
      /\ task = "start" => Kind[w] = "vm"
  BY <1>1, RunningScalable DEF IInv, TypeOK, ListIsFile, TodoKinds, ReadyBetween, AfterWrite
<1>3. /\ replicas' \in [Workload -> Nat]
      /\ \A v \in Workload : v # w => replicas'[v] = replicas[v]
      /\ replicas'[w] \in {replicas[w], found[w]}
      /\ ~failed' => replicas'[w] = found[w] /\ ~failed
  BY <1>1, <1>2 DEF IInv, TypeOK
<1>4. TypeOK'
  BY <1>1, <1>3 DEF IInv, TypeOK
<1>5. RestoredInFull' /\ StoppedQuiet' /\ ReadyBetween'
  BY <1>1, <1>2 DEF RestoredInFull, StoppedQuiet, ReadyBetween
<1>6. ListIsFile' /\ TodoKinds'
  BY <1>1, <1>2 DEF IInv, ListIsFile, TodoKinds, AfterWrite
<1>7. FileWanted'
  BY <1>1, <1>2, <1>3 DEF IInv, FileWanted
<1>8. UpProgress'
  BY <1>1, <1>2, <1>3, RunningScalable DEF IInv, TypeOK, UpProgress, Apps
<1>9. DownProgress'
  BY <1>1 DEF DownProgress
<1> QED BY <1>4, <1>5, <1>6, <1>7, <1>8, <1>9 DEF IInv

(* After the first loop of "up" the VirtualMachines follow, or the run stops. *)
LEMMA RestoreDoneIInv == ASSUME IInv, RestoreDone PROVE IInv'
<1>1. /\ task = "restore" /\ todo = {}
      /\ UNCHANGED <<replicas, pods, file, ready, wanted, underway, rerun>>
  BY DEF RestoreDone, LoopDone, cluster, history
<1>2. CASE failed
  BY <1>1, <1>2, RunEndsIInv DEF RestoreDone
<1>3. CASE ~failed
  <2>1. found' = found /\ Loop("start", {"vm"}, found)
    BY <1>3 DEF RestoreDone
  <2>2. /\ task' = "start" /\ failed' = FALSE
        /\ todo' \subseteq DOMAIN found
        /\ \A w \in todo' : Kind[w] = "vm" /\ (w \in Running(found) \/ found[w] = Unread)
        /\ \A w \in Running(found) : Kind[w] = "vm" => w \in todo'
    BY <2>1, LoopItemsVm
  <2>3. TypeOK'
    BY <1>1, <2>1, <2>2 DEF IInv, TypeOK, UpTasks
  <2>4. RestoredInFull' /\ StoppedQuiet' /\ ReadyBetween' /\ FileWanted'
    BY <1>1 DEF IInv, RestoredInFull, StoppedQuiet, ReadyBetween, FileWanted
  <2>5. ListIsFile' /\ TodoKinds'
    BY <1>1, <2>1, <2>2 DEF IInv, ListIsFile, TodoKinds, AfterWrite
  <2>6. DownProgress' /\ UpProgress'
    BY <1>1, <1>3, <2>1, <2>2 DEF IInv, DownProgress, UpProgress
  <2> QED BY <2>3, <2>4, <2>5, <2>6 DEF IInv
<1> QED BY <1>2, <1>3

(* The maintenance is over: what differed from people's wishes was in the    *)
(* file, and the loops have set it.                                          *)
LEMMA StartDoneIInv == ASSUME IInv, StartDone PROVE IInv'
<1>1. /\ task = "start" /\ todo = {} /\ RunEnds
      /\ underway' = (underway /\ failed)
      /\ UNCHANGED <<replicas, pods, file, ready, wanted, rerun>>
      /\ UNCHANGED <<cluster, file>>
  BY DEF StartDone, LoopDone, cluster
<1>2. found = file /\ underway /\ ~ready
  BY <1>1 DEF IInv, ListIsFile, ReadyBetween, AfterWrite
<1>3. TypeOK'
  <2>1. underway' \in BOOLEAN
    BY <1>1
  <2> QED BY <1>1, <2>1, RunEndsKeeps DEF IInv, TypeOK
<1>4. ~failed /\ ~rerun => replicas = wanted
  <2> SUFFICES ASSUME ~failed, ~rerun
               PROVE  replicas = wanted
    OBVIOUS
  <2>1. ASSUME NEW w \in Workload, replicas[w] # wanted[w]
        PROVE  FALSE
    <3>1. w \in Running(file)
      BY <1>2, <2>1 DEF IInv, FileWanted
    <3>2. w \in DOMAIN file /\ file[w] \in Nat /\ (Kind[w] \in Apps \/ Kind[w] = "vm")
      BY <3>1, RunningScalable DEF IInv, TypeOK
    <3>3. replicas[w] = found[w]
      BY <1>1, <1>2, <3>1, <3>2 DEF IInv, UpProgress
    <3> QED
      BY <1>2, <2>1, <3>2, <3>3 DEF IInv, FileWanted
  <2> QED BY <2>1 DEF IInv, TypeOK
<1>5. RestoredInFull'
  BY <1>1, <1>2, <1>4 DEF RestoredInFull
<1>6. StoppedQuiet' /\ ReadyBetween' /\ FileWanted'
  BY <1>1, <1>2 DEF IInv, StoppedQuiet, ReadyBetween, FileWanted
<1> QED BY <1>3, <1>5, <1>6, <1>1, RunEndsKeeps DEF IInv

-------------------------------------------------------------------------------
(* A new "down" has done nothing yet. *)
LEMMA StartDownIInv == ASSUME IInv, StartDown PROVE IInv'
<1>1. /\ task = "none" /\ task' = "discover" /\ ready' = FALSE
      /\ UNCHANGED <<replicas, pods, file, found, todo, failed, wanted, underway, rerun>>
  BY DEF StartDown, cluster, history
<1>2. TypeOK'
  BY <1>1 DEF IInv, TypeOK, DownTasks
<1>3. RestoredInFull' /\ StoppedQuiet' /\ ReadyBetween' /\ FileWanted'
  BY <1>1 DEF IInv, RestoredInFull, StoppedQuiet, ReadyBetween, FileWanted
<1>4. ListIsFile' /\ TodoKinds' /\ DownProgress' /\ UpProgress'
  BY <1>1 DEF IInv, ListIsFile, TodoKinds, DownProgress, UpProgress, AfterWrite
<1> QED BY <1>2, <1>3, <1>4 DEF IInv

(* A workload scaled to zero gets no new pods. *)
LEMMA PodsFollowIInv == ASSUME IInv, NEW w \in Workload, PodsFollow(w) PROVE IInv'
<1>1. /\ pods' = [pods EXCEPT ![w] = ~pods[w]]
      /\ Kind[w] \in Scalable => pods[w] # (replicas[w] > 0)
      /\ UNCHANGED <<replicas, file, task, found, todo, failed, ready, wanted, underway, rerun>>
  BY DEF PodsFollow, history
<1>2. /\ pods' \in [Workload -> BOOLEAN]
      /\ \A v \in Workload : Kind[v] \in Scalable /\ replicas[v] = 0 /\ ~pods[v] => ~pods'[v]
  <2>1. pods' \in [Workload -> BOOLEAN]
    BY <1>1 DEF IInv, TypeOK
  <2>2. \A v \in Workload : v # w => pods'[v] = pods[v]
    BY <1>1 DEF IInv, TypeOK
  <2>3. Kind[w] \in Scalable /\ replicas[w] = 0 => pods[w]
    BY <1>1 DEF IInv, TypeOK
  <2> QED BY <2>1, <2>2, <2>3
<1>3. TypeOK'
  BY <1>1, <1>2 DEF IInv, TypeOK
<1>4. RestoredInFull' /\ ReadyBetween' /\ FileWanted'
  BY <1>1 DEF IInv, RestoredInFull, ReadyBetween, FileWanted
<1>5. StoppedQuiet'
  BY <1>1, <1>2, RunningScalable DEF IInv, TypeOK, Scalable, StoppedQuiet
<1>6. ListIsFile' /\ TodoKinds' /\ UpProgress'
  BY <1>1 DEF IInv, ListIsFile, TodoKinds, UpProgress
<1>7. DownProgress'
  <2> SUFFICES ASSUME ~failed, NEW v \in Running(found), task = "wait", v \notin todo
               PROVE  ~pods'[v]
    BY <1>1 DEF IInv, DownProgress
  <2>1. v \in Workload /\ Kind[v] \in Scalable /\ (Kind[v] \in Apps \/ Kind[v] = "vm")
    BY RunningScalable DEF IInv, TypeOK, Scalable
  <2>2. replicas[v] = 0 /\ ~pods[v]
    BY <2>1 DEF IInv, DownProgress
  <2> QED
    BY <1>2, <2>1, <2>2
<1> QED BY <1>3, <1>4, <1>5, <1>6, <1>7 DEF IInv

(* People scale outside a maintenance. *)
LEMMA ScaledIInv ==
  ASSUME IInv, NEW w \in Workload, NEW n \in Counts(w), Scaled(w, n)
  PROVE  IInv'
<1>1. /\ task = "none" /\ ~underway
      /\ replicas' = [replicas EXCEPT ![w] = n]
      /\ wanted' = [wanted EXCEPT ![w] = n]
      /\ UNCHANGED <<pods, file, task, found, todo, failed, ready, underway, rerun>>
  BY DEF Scaled
<1>2. n \in Nat
  BY NfsAssumption DEF Counts
<1>3. ~ready /\ todo = {}
  BY <1>1 DEF IInv, ReadyBetween, TodoKinds, AfterWrite
<1>4. TypeOK'
  BY <1>1, <1>2 DEF IInv, TypeOK
<1>5. RestoredInFull'
  BY <1>1 DEF IInv, RestoredInFull
<1>6. StoppedQuiet' /\ ReadyBetween' /\ FileWanted'
  BY <1>1, <1>3 DEF StoppedQuiet, ReadyBetween, FileWanted
<1>7. ListIsFile' /\ TodoKinds' /\ DownProgress' /\ UpProgress'
  BY <1>1, <1>3 DEF ListIsFile, TodoKinds, DownProgress, UpProgress, AfterWrite
<1> QED BY <1>4, <1>5, <1>6, <1>7 DEF IInv

-------------------------------------------------------------------------------
(* Every step keeps the invariant. *)
LEMMA NextIInv == IInv /\ [Next]_vars => IInv'
<1> SUFFICES ASSUME IInv, [Next]_vars
             PROVE  IInv'
  OBVIOUS
<1>1. CASE StartDown   BY <1>1, StartDownIInv
<1>2. CASE DownStep
  BY <1>2, DiscoverIInv, WriteStateIInv, ScaleItemIInv, WaitItemIInv, ScaleDoneIInv,
     StopDoneIInv, WaitDoneIInv DEF DownStep
<1>3. CASE StartUp     BY <1>3, StartUpIInv
<1>4. CASE UpStep
  BY <1>4, RestoreItemIInv, RestoreDoneIInv, StartDoneIInv DEF UpStep
<1>9. ASSUME NEW w \in Workload, Undefined(w)
      PROVE  IInv'
  BY <1>9, UndefinedIInv
<1>5. CASE Interrupted BY <1>5, RunEndsIInv DEF Interrupted
<1>6. ASSUME NEW w \in Workload, PodsFollow(w)
      PROVE  IInv'
  BY <1>6, PodsFollowIInv
<1>7. ASSUME NEW w \in Workload, NEW n \in Counts(w), Scaled(w, n)
      PROVE  IInv'
  BY <1>7, ScaledIInv
<1>8. CASE UNCHANGED vars
  BY <1>8 DEF vars, cluster, history, IInv, TypeOK, RestoredInFull, StoppedQuiet,
     ListIsFile, TodoKinds, FileWanted, DownProgress, UpProgress, ReadyBetween
<1> QED
  BY <1>1, <1>2, <1>3, <1>4, <1>5, <1>6, <1>7, <1>8, <1>9 DEF Next, RunStep

(* The invariant holds in every reachable state. *)
LEMMA Invariance == Spec => []IInv
BY InitIInv, NextIInv, PTL DEF Spec

(* The playbook's state, file and lists keep their types. *)
THEOREM TypeCorrect == Spec => []TypeOK
<1>1. IInv => TypeOK
  BY DEF IInv
<1> QED BY <1>1, Invariance, PTL

(* Nothing is scaled down before the state file says what it had, wherever   *)
(* a run stops.                                                              *)
THEOREM WriteAhead == Spec => []SavedFirst
<1>1. IInv => SavedFirst
  BY DEF IInv, TypeOK, FileWanted, RestoredInFull, SavedFirst, Running
<1> QED BY <1>1, Invariance, PTL

(* A completed "up" gives everything back, if "down" was started once. *)
THEOREM FullyRestored == Spec => []RestoredInFull
<1>1. IInv => RestoredInFull
  BY DEF IInv
<1> QED BY <1>1, Invariance, PTL

(* "NFS maintenance ready" is said only when what this "down" found running  *)
(* is scaled to zero and gone.                                               *)
THEOREM QuietWhenReady == Spec => []StoppedQuiet
<1>1. IInv => StoppedQuiet
  BY DEF IInv
<1> QED BY <1>1, Invariance, PTL

===============================================================================
