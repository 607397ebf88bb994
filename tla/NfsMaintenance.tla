----------------------------- MODULE NfsMaintenance ----------------------------
(***************************************************************************)
(* The playbook nfs-maintenance.yml: "down" discovers the workloads that   *)
(* use NFS (discover-nfs-workloads.py looks at the pods that exist), saves *)
(* their replica counts in a state file, scales them to zero and waits for *)
(* their pods to go; "up" restores what the file says.  The two are        *)
(* separate runs of ansible-playbook: what survives a run is the file and  *)
(* the cluster.                                                            *)
(*                                                                         *)
(* A task loops over its items; an item may fail, the others are tried,    *)
(* and the run stops after the task.  An item without the count that the   *)
(* condition of the loop reads ends the loop.  A run may be interrupted    *)
(* anywhere.  Pods follow their workload's replica count sooner or later.  *)
(* A VirtualMachine is a workload with one replica or none.  Nobody else   *)
(* changes replica counts between the start of a "down" and the end of the *)
(* "up" that completes it.                                                 *)
(*                                                                         *)
(* AppsOnly, NotWritten, NeverGivesUp and AnyReplicas are faulty variants  *)
(* of the definitions that follow them.                                    *)
(***************************************************************************)
EXTENDS Naturals

CONSTANTS Workload,     \* controllers of the cluster
          Kind,         \* "deploy", "sts", "vm", "other"; "bare": a pod without owner
          Nfs,          \* those whose pods mount NFS
          Named,        \* whose pods' names contain a workload's name
          MaxReplicas,  \* bounds the replica counts
          Unread,       \* in a list: without a count, which could not be read
          Uncounted     \* in a list: under a kind that no task scales

ASSUME NfsAssumption ==
  /\ Kind \in [Workload -> {"deploy", "sts", "vm", "other", "bare"}]
  /\ Nfs \subseteq Workload
  /\ Named \in [Workload -> SUBSET Workload]
  /\ \A w \in Workload : w \in Named[w]
  /\ MaxReplicas \in Nat \ {0}
  /\ Unread \notin Nat /\ Uncounted \notin Nat /\ Unread # Uncounted

VARIABLES replicas,   \* spec.replicas (spec.running) of each workload
          pods,       \* it has pods
          file,       \* the state file: what it says of each workload; or NoState
          task,       \* the task the current run is at, or "none"
          found,      \* nfs_workloads: what the run discovered or loaded
          todo,       \* the items of the task's loop that are left
          failed,     \* an item of the loop failed
          ready,      \* the last run ended with "NFS maintenance ready"
          wanted,     \* history: the replica counts as people left them
          underway,   \* history: a maintenance began and was not restored
          rerun       \* history: "down" found it under way and saved again

cluster == <<replicas, pods>>
history == <<wanted, underway, rerun>>
vars == <<cluster, file, task, found, todo, failed, ready, history>>

Apps == {"deploy", "sts"}
Scalable == Apps \cup {"vm"}

(* What may be asked of a workload; a Job or DaemonSet has no count. *)
Counts(w) ==
  CASE Kind[w] \in Apps -> 0 .. MaxReplicas
    [] Kind[w] = "vm"   -> {0, 1}
    [] OTHER            -> {0}

(* The list of workloads, by what is said of each; no file is ever empty.    *)
IsList(l) ==
  /\ DOMAIN l \subseteq Workload
  /\ \A w \in DOMAIN l :
       l[w] \in {Uncounted} \cup IF Kind[w] \in Scalable THEN Nat \cup {Unread} ELSE {}

(* Those of a list that were found running. *)
Running(list) == {w \in DOMAIN list : list[w] \in Nat /\ list[w] > 0}

NoState == [w \in {} |-> 0]

Init ==
  /\ replicas \in {r \in [Workload -> 0 .. MaxReplicas] : \A w \in Workload : r[w] \in Counts(w)}
  /\ pods = [w \in Workload |-> replicas[w] > 0]
  /\ file = NoState
  /\ task = "none"
  /\ found = NoState
  /\ todo = {}
  /\ failed = FALSE
  /\ ready = FALSE
  /\ wanted = replicas
  /\ underway = FALSE
  /\ rerun = FALSE
-------------------------------------------------------------------------------
(* The items of a loop: of this kind and running, or nobody knows.           *)
AppsOnly(kinds, list) == {w \in Running(list) : Kind[w] \in Apps}

Items(kinds, list) ==
  {w \in DOMAIN list : Kind[w] \in kinds /\ (w \in Running(list) \/ list[w] = Unread)}

Loop(name, kinds, list) ==
  /\ task' = name
  /\ todo' = Items(kinds, list)
  /\ failed' = FALSE

(* The run stops, at its end, after a task that failed or when interrupted. *)
RunEnds ==
  /\ task' = "none"
  /\ found' = NoState
  /\ todo' = {}
  /\ failed' = FALSE

StartDown ==
  /\ task = "none"
  /\ task' = "discover"
  /\ ready' = FALSE
  /\ UNCHANGED <<cluster, file, found, todo, failed, history>>

(* discover-nfs-workloads.py: the controllers of the pods that mount NFS; it *)
(* is an error to find none.  A pod without one is passed over.              *)
Discovered == {w \in Nfs : pods[w] /\ Kind[w] # "bare"}

(* What is said of one.  An error of the API server is passed over: without  *)
(* the owner of its ReplicaSet or VirtualMachineInstance a workload is taken *)
(* for that, and without its own object nothing is known of its count.  (Of  *)
(* two entries for one workload the one of its own kind counts.)             *)
Listed(w) ==
  CASE Kind[w] = "sts"               -> {replicas[w], Unread}
    [] Kind[w] \in {"deploy", "vm"} -> {replicas[w], Unread, Uncounted}
    [] OTHER                         -> {Uncounted}

Lists == {list \in [Discovered -> UNION {Listed(w) : w \in Discovered}] :
            \A w \in Discovered : list[w] \in Listed(w)}

Discover ==
  /\ task = "discover"
  /\ IF Discovered = {}
       THEN RunEnds
       ELSE /\ found' \in Lists
            /\ task' = "write"
            /\ UNCHANGED <<todo, failed>>
  /\ UNCHANGED <<cluster, file, ready, history>>

NotWritten(list) == file

(* copy: the file is replaced, whatever it held. *)
Written(list) == list

WriteState ==
  /\ task = "write"
  /\ file' = Written(found)
  /\ Loop("scale", Apps, found)
  /\ underway' = TRUE
  /\ rerun' = underway
  /\ wanted' = IF underway THEN wanted ELSE replicas
  /\ UNCHANGED <<cluster, found, ready>>

(* An item of a loop whose count can be looked at. *)
Item(w, name) == task = name /\ w \in todo /\ found[w] # Unread

(* "when" cannot be evaluated without the count: the loop ends at this item. *)
Undefined(w) ==
  /\ w \in todo
  /\ found[w] = Unread
  /\ todo' = {}
  /\ failed' = TRUE
  /\ UNCHANGED <<cluster, file, task, found, ready, history>>

(* One item of a loop that sets replica counts, as count says. *)
SetItem(w, name, count) ==
  /\ Item(w, name)
  /\ todo' = todo \ {w}
  /\ \/ replicas' = [replicas EXCEPT ![w] = count] /\ failed' = failed
     \/ replicas' = replicas /\ failed' = TRUE
  /\ UNCHANGED <<pods, file, task, found, ready, history>>

ScaleDown(w) == SetItem(w, "scale", 0)
StopVm(w) == SetItem(w, "stop", 0)

(* k8s_info is retried until no pod of the namespace has a name that         *)
(* contains the item's name, at most 30 times.                               *)
Gone(w) == \A v \in Named[w] : ~pods[v]

WaitOver(w) ==
  /\ Item(w, "wait")
  /\ Gone(w)
  /\ todo' = todo \ {w}
  /\ UNCHANGED <<cluster, file, task, found, failed, ready, history>>

NeverGivesUp(w) == FALSE

GivesUp(w) == ~Gone(w)

RetriesExhausted(w) ==
  /\ Item(w, "wait")
  /\ GivesUp(w)
  /\ todo' = todo \ {w}
  /\ failed' = TRUE
  /\ UNCHANGED <<cluster, file, task, found, ready, history>>

(* The loop of a task is through. *)
LoopDone(name) == task = name /\ todo = {}

ScaleDone ==
  /\ LoopDone("scale")
  /\ IF failed THEN RunEnds ELSE Loop("stop", {"vm"}, found) /\ found' = found
  /\ UNCHANGED <<cluster, file, ready, history>>

StopDone ==
  /\ LoopDone("stop")
  /\ IF failed THEN RunEnds ELSE Loop("wait", Scalable, found) /\ found' = found
  /\ UNCHANGED <<cluster, file, ready, history>>

WaitDone ==
  /\ LoopDone("wait")
  /\ RunEnds
  /\ ready' = ~failed
  /\ UNCHANGED <<cluster, file, history>>
-------------------------------------------------------------------------------
(* People run "up" to end a maintenance; slurp would fail without a file. *)
StartUp ==
  /\ task = "none"
  /\ underway
  /\ file # NoState
  /\ found' = file
  /\ Loop("restore", Apps, file)
  /\ ready' = FALSE
  /\ UNCHANGED <<cluster, file, history>>

AnyReplicas(w) == 1

Count(w) == found[w]

Restore(w) == SetItem(w, "restore", Count(w))
StartVm(w) == SetItem(w, "start", Count(w))

RestoreDone ==
  /\ LoopDone("restore")
  /\ IF failed THEN RunEnds ELSE Loop("start", {"vm"}, found) /\ found' = found
  /\ UNCHANGED <<cluster, file, ready, history>>

(* "All NFS-dependent workloads restored": the maintenance is over. *)
StartDone ==
  /\ LoopDone("start")
  /\ RunEnds
  /\ underway' = (underway /\ failed)
  /\ UNCHANGED <<cluster, file, ready, wanted, rerun>>

(* A failing command, an unreachable API server or the operator's Ctrl-C. *)
Interrupted ==
  /\ task # "none"
  /\ RunEnds
  /\ UNCHANGED <<cluster, file, ready, history>>
-------------------------------------------------------------------------------
(* The cluster: pods follow the replica count; others, as those of a CronJob *)
(* or those that people create, come and go; people scale what is not under  *)
(* maintenance.                                                              *)
PodsFollow(w) ==
  /\ Kind[w] \in Scalable => pods[w] # (replicas[w] > 0)
  /\ pods' = [pods EXCEPT ![w] = ~@]
  /\ UNCHANGED <<replicas, file, task, found, todo, failed, ready, history>>

Scaled(w, n) ==
  /\ task = "none"
  /\ ~underway
  /\ replicas' = [replicas EXCEPT ![w] = n]
  /\ wanted' = [wanted EXCEPT ![w] = n]
  /\ UNCHANGED <<pods, file, task, found, todo, failed, ready, underway, rerun>>
-------------------------------------------------------------------------------
DownStep ==
  \/ Discover \/ WriteState
  \/ \E w \in Workload : ScaleDown(w) \/ StopVm(w) \/ WaitOver(w) \/ RetriesExhausted(w)
  \/ ScaleDone \/ StopDone \/ WaitDone

UpStep ==
  \/ \E w \in Workload : Restore(w) \/ StartVm(w)
  \/ RestoreDone \/ StartDone

RunStep == DownStep \/ UpStep \/ \E w \in Workload : Undefined(w)

Next ==
  \/ StartDown \/ StartUp \/ RunStep
  \/ Interrupted
  \/ \E w \in Workload : PodsFollow(w) \/ \E n \in Counts(w) : Scaled(w, n)

(* Ansible goes on with the run it is in. *)
Fairness == WF_vars(RunStep)

Spec == Init /\ [][Next]_vars
FairSpec == Spec /\ Fairness
-------------------------------------------------------------------------------
DownTasks == {"discover", "write", "scale", "stop", "wait"}
UpTasks == {"restore", "start"}

(* The types; a loop only has items of the list it goes through. *)
TypeOK ==
  /\ replicas \in [Workload -> Nat]
  /\ pods \in [Workload -> BOOLEAN]
  /\ IsList(file)
  /\ task \in {"none"} \cup DownTasks \cup UpTasks
  /\ IsList(found)
  /\ todo \subseteq DOMAIN found
  /\ failed \in BOOLEAN /\ ready \in BOOLEAN
  /\ wanted \in [Workload -> Nat]
  /\ underway \in BOOLEAN /\ rerun \in BOOLEAN

(* Write ahead: whatever has been scaled down, and wherever the run was      *)
(* interrupted, the file holds the count people asked for, unless "down" was *)
(* started again in the same maintenance.                                    *)
SavedFirst ==
  ~rerun => \A w \in Workload :
              replicas[w] # wanted[w] =>
                w \in DOMAIN file /\ file[w] = wanted[w]

(* A maintenance whose "down" was started once leaves every workload as      *)
(* people asked for it, however often "up" had to be repeated.               *)
RestoredInFull == ~underway => rerun \/ replicas = wanted

(* "NFS maintenance ready": what this "down" found running is scaled to zero *)
(* and has no pod left, and stays so until the next run.  The message claims *)
(* more: a workload whose owner could not be read may run, and one that an   *)
(* earlier "down" scaled may have pods, as the wait skips it.                *)
StoppedQuiet == ready => \A w \in Running(file) : replicas[w] = 0 /\ ~pods[w]

(* A run ends even when a pod never goes, or when the search for a name      *)
(* matches the pods of a workload that keeps running.                        *)
RunsEnd == task # "none" ~> task = "none"

(* "All NFS-dependent workloads restored to pre-maintenance state." *)
RestoredToBefore == ~underway => replicas = wanted

===============================================================================
