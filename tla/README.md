# A TLA+ model of ansible_docker_plex

The repository runs a home lab: Ansible roles deploy applications to a Kubernetes
cluster, `docker-images/` holds the programs the author wrote for it. Most of the
repository is data (manifests, Helm values, inventories). This project models the
parts that have state and can go wrong in ways a unit test hardly reaches:

* **shinobi-smtp-proxy**, a Python service that watches RTSP cameras, runs an object
  detector on frames with motion, learns which objects always stand there (the
  *baseline*), and alerts about the others through Discord and Shinobi;
* **godaddy-ddns**, a process that keeps a DNS record equal to the house's address;
* **nfs-maintenance.yml**, a playbook that stops everything that uses NFS and restores
  it afterwards;
* the **Terraria, Valheim and Palworld servers**, containers whose scripts prepare a game,
  start it, and have to end it with its world saved.

Paths below are relative to `src/`; `proxy/` stands for
`docker-images/shinobi-smtp-proxy/src/`.

## Inventory

| Component | State | Operations | What makes it correct |
|---|---|---|---|
| Inference scheduler, `proxy/inference_scheduler.py` | priority queue, a future per request, `_pending_baseline` (camera to its queued scan), the worker task | `infer` (motion, baseline), `_worker`, `stop` | no caller forgotten; motion before scans; only a waiting scan of the same camera is preempted |
| Baseline tracker, `proxy/baseline_tracker.py` | candidates with hits, misses, averaged position; cycles; indices of missed promoted candidates | `update`, `observe`, `verify_missed`, `get_baseline` | hysteresis in both directions; indices stay right while the list changes |
| Baseline service and loop, `proxy/baseline_service.py`, `proxy/baseline_manager.py` | per camera: `baseline`, `baseline_initialized`, `recent_alerts`, `last_motion_time` | `update` (suspends once or twice), `compare`, `record_alert` | the copy agrees with the tracker although motion runs at every suspension |
| Motion loop and follow-ups, `proxy/motion_processor.py`, `proxy/baseline_manager.py` | bounded queue filled by reader threads, `followup_active`, the follow-up tasks | `process_motion_event`, `follow_up_scan`, `_start_follow_up_if_idle` | one follow-up per camera, none missing; an error stops nothing for good |
| Filters and best frame, `proxy/pipeline.py`, `proxy/frame_selector.py` | none | `run`, `select` | an object is alerted about once per cooldown |
| Alert dispatch, `proxy/alert_dispatcher.py`, `proxy/discord_notifier.py`, `proxy/shinobi_notifier.py` | `_last_sent` per camera, HTTP sessions | `send`, `send_alert`, `trigger_event` | the channel is not flooded |
| RTSP reader, `proxy/rtsp_reader.py` | connection, backoff, warm-up and motion-cooldown counters, frame buffer, four metric counters under a lock | `run`, `snapshot_metrics`, `stop` | reconnects; no count lost; motion reaches the queue |
| Object detector, `proxy/object_detector.py`, `proxy/scene_compare.py` | the model | `get_detections` | errors become `[]` |
| Start-up and configuration, `proxy/app.py`, `proxy/metrics.py`, `proxy/proxy_types/` | none after start-up | validation | |
| DDNS updater, `docker-images/godaddy-ddns/godaddy_ddns.py` | `last_ip`, `backoff`, `shutdown` | `update_dns`, `main` | the record catches up, even if `last_ip` was trusted wrongly for a while; failures back off |
| NFS maintenance, `ansible/playbooks/nfs-maintenance.yml`, `ansible/tools/discover-nfs-workloads.py` | the state file, the cluster | `-t down`, `-t up` | every count is saved before it is changed and comes back; "ready" means that nothing uses NFS any more |
| Terraria server, `docker-images/terraria-tmodloader/` | downloaded mods and `enabled.json` on the volume; the tmux pane, the fifo of its log, the game | prepare, start, autosave, stop | "Server stopped." is said when the game has saved and ended; no mod of an earlier list is enabled; a stop ends |
| Valheim server, `docker-images/valheim-server/` | `server_pid`, the pipeline of server and log filter | start, stop | a graceful stop saves |
| Palworld server, `docker-images/palworld-server/` | `PalWorldSettings.ini` on the volume, read back and rewritten at every start | `configure`, start | the present ConfigMap and Secret win, the rest stays, the file survives |
| Palworld and Zomboid backups, `docker-images/palworld-rcon-backup/`, `docker-images/zomboid-dedicated-server/` | none | save, copy | |
| Manifest filters, `ansible/filter_plugins/` and the roles' | none | text to text | unit tested |
| Harbor and Talos roles, backup and dump tools | files, remote objects | linear tasks | idempotence |

How they interact: reader threads put frames in a locked ring buffer and motion events
in one `queue.Queue`. Everything else of the proxy runs on one asyncio loop, so code
between two `await`s is atomic and everything interesting happens at the `await`s. The
motion loop, the follow-up tasks and the baseline loop all ask the scheduler, which owns
the only detector; a motion request of a camera answers that camera's waiting baseline
scan with `[]`. Motion and baseline share the camera's tracker. Motion and follow-ups
share the camera's alert history and Discord's cooldown. The updater and the playbook
run alone; their partners are a DNS provider, resolvers, and a cluster that changes by
itself. The partners of a game server's script are signals, the processes it starts, and
what earlier containers left on its volume.

The hazards, each at its line and with the property that covers it, are listed in
`PROJECT.json`.

## Modules

| Module | Models |
|---|---|
| `InferenceService` | what the scheduler promises, without a queue: who waits, who is served, and that a motion request may dismiss one waiting scan |
| `InferenceScheduler` | the queue as one FIFO lane per priority, futures, the registry, the worker with its skipping of answered entries, `stop()`; implements `InferenceService` |
| `BaselineTracker` | the tracker on a one-dimensional grid |
| `BaselineService` | one camera: EXTENDS `BaselineTracker` and composes it with an INSTANCE of `InferenceService`, the baseline loop, the motion path up to its decision, and a follow-up |
| `AlertPath` | all cameras: queue, motion loop, follow-up tasks, Discord's cooldown, alert history |
| `RtspReader` | the thread that reads one camera, and the metrics loop that takes its counters |
| `DdnsUpdater` | the updater, the provider's record, the resolvers' caches |
| `NfsMaintenance` | the playbook's tasks item by item, the state file, the cluster |
| `TerrariaServer` | `entrypoint.sh` with its handler, `autosave.sh`, the tmux pane, the game, Kubernetes |
| `ValheimServer` | `start.sh` under `tini -g` with its handler, the server, the log filter, Kubernetes |
| `PalworldServer` | `start.sh` and `configure.py` over restarts, with a ConfigMap and a Secret that change |
| `*Proofs` | the theorems of the module they are named after; `BaselineServiceProofs` also has those of `BaselineTracker` |
| `MC*` | constants for TLC |

`AlertPath` uses the scheduler and `BaselineService` through what they give it: an answer
arrives, and any set of detections outside the alert history may be new.

### How state and actions correspond to the code

**InferenceScheduler.** `queue` is `_queue`; `seq` is replaced by the order in a lane,
and the order of the two lanes is `LaneDrained`. `future` is the request's future,
`pending` is `_pending_baseline`. `infer` runs without suspending up to `await future`
(`put` on an unbounded queue does not suspend), so a call is one action. `Wake` and
`Finish` are the worker's two resumptions: from `_queue.get()` and from the detector;
both include the loop that skips answered entries and the pop of the registry, because
`get()` on a non-empty queue does not suspend. `Stop` is the cancellation. Request
objects are reused once they were answered and left the queue.

**BaselineTracker.** Frames are sequences of detections with a class group and a
position. Positions are one coordinate in grid units, tolerance in the same units;
`_match` tests both coordinates alike and strictly, and so does `Matches`. A candidate's
`images` is a history variable, the number of different images that showed it; `Shown`
tells a further box of an image from the first. `Blend` is
the average with alpha 0.3, rounded to the grid, so a candidate moves towards what it
matches and can move out of reach of it. `hits` and `cycles` are capped at
`AddThreshold`, which only comparisons with that threshold could notice. `Feed` applies
`Absorb` to one detection of the frame after the other (a recursive function, `fed[k]`
being what `_feed` holds after k detections), with the list of candidates that grows while
it is searched. `Update` includes miss counting, removal and re-indexing. `Without` is
every list comprehension that keeps a part of the candidates.

**BaselineService.** `update()` is cut at its two awaits: `CycleStart`, `CycleAnswer`,
`VerifyAnswer`. `Answer` is `<<>>` when the scan was preempted, else any frame.
`MotionAnswer` is the part of `process_motion_event` after the detector's answer up to
the decision, with `compare(observe=True)` inlined; `FollowUpAnswer` the same with
`observe=False`. The filters before `compare` are the choice of the frame, those after
it may drop everything. `calm` is the negation of `_recent_motion`. `Others` are the motion
requests of the other cameras (`AskOther`), which the worker serves before this camera's
scan and which do not dismiss it.

**AlertPath.** `pc` names what each coroutine awaits. Clocks are replaced by actions that
end a cooldown, expire an alert, or end a follow-up at any time. `sent` remembers who
sent a message in the current cooldown of Discord. `task`s are names that are reused;
`FollowUpStart` is the first run of the task that `create_task` only schedules, which is
why the flag is checked twice.

**RtspReader.** The only module with real threads: an increment is a load and a store
(`Load`, `Store`), a snapshot a read and a reset, and `lock` is what keeps them apart.
`pc` is at the loops' tests (`connect`, `read`), in a call that blocks (`opening`,
`grabbing`), in the motion detection, counting, or waiting out the backoff. Any call may
raise (`Breaks`). `prev` is whether there is a reference frame; `since` and `shown`
remember what really happened since the last snapshot and since the stream was opened.

**DdnsUpdater.** `pc` is cut at the three calls: detect, look up, push. A push that fails
may have changed the record; `Crash` is any end of the process, including the exception
that `f.read()` may raise past the two `except` clauses.

**NfsMaintenance.** `task` is the task a run is at, `todo` the loop's items that are left.
A failed item lets the others be tried and ends the run after the task. Runs may be
interrupted anywhere and repeated in any order; only the file and the cluster survive.
VirtualMachines are workloads with one replica or none. What the discovery tool says of a
workload (`Listed`) depends on what it could read: its count; `Unread`, the entry without a
count that a failed read of the object leaves, on which the loop's `when` cannot be
evaluated (`Undefined`); or `Uncounted`, an entry under a kind that no task scales, after a
failed read of the owner, and for Jobs and DaemonSets. Pods without an owner are passed
over (kind "bare").

**TerrariaServer.** `pc` is the script's next command, in order of the file. Process 1 has
no default signal actions, so `Terminate` leaves `pending` only when the trap is set
(`Noticed`); bash runs the handler between two commands or in `wait` (`TakeSignal`), and
`Command` therefore needs `~pending`. Commands that change nothing the model tells apart
(`mkfifo`, `sleep`, typing "help" or the goodbye) belong to the step they stand beside. `watched` is what `$tmux_pid` holds: pgrep finds the
tmux server while there is a pane, and a tmux client while autosave's `inject` runs; with
two pids in it the path `/proc/...` does not exist and the loop ends at once. The pane is
"game | tee": it closes when the game has ended and cat has the fifo open (`PaneEnds`).
A mod without a directory ends the script (`EnableMod`), not only that mod: `ls` fails in
`MOD_DIR=$(ls ... | tail)` and `set -e -o pipefail` acts before line 49 can test the
result. `unsaved` stays true when the game crashes: what it had not saved is lost, and
`crashed` remembers that it was the game's doing. The game's prompt (`save`, `exit`) is what the scripts rely on and external.

**ValheimServer.** `AssignPid` is `server_pid=$!`, the last process of the pipeline. The
shell's handler, the server and the log filter all get tini's SIGTERM; `told` holds the
processes that were sent a signal they act on: the log filter, as a background job of a
script, ignores SIGINT. When `start.sh` ends, tini ends and with it everything.

**PalworldServer.** A settings file, like the dict made of it, is an order of options and a
value for each; `Nothing` is an emptied file. Of a value the model keeps the text, `nest`
(opening less closing parentheses) and its percent signs, which is what the two parsers
react to: `ParsedTo` walks the options of a file as `parse_option_settings` does and, while
the depth is not zero, takes the next option for a part of the last one's value; `Readable`
and `Interpolated` are configparser, which refuses a bare percent sign and reads a doubled
one as a bare one. ConfigMap and Secret may hold such values alike; the template is the
game's and does not. `Read` is `configure()` up to the call of the API, `ReadSecret` up to
the `open`, which empties the file, and `Write` the rest; `Restarts` is the script's end
and its container's new start. `Updated` is a dict's update: known options keep their
place, new ones (`Added`) are appended in any order. Left out are commas inside values.
The image's tar holds only an empty directory, so the first start reads the template. The
game is assumed to read the file only.

## Runs

| Run | States | Shows |
|---|---|---|
| `scheduler` | 58 854 | `NoLostRequest`, `RegistryExact`, `MotionFirst`, `PreemptedByOwnCamera`; every motion request is answered; scans are once motion is calm; refinement of `InferenceService` |
| `tracker` | 23 740 | the missed indices are exact after any removal; what is promoted was seen in all but one of the images of the threshold; nothing promoted goes without a failed verification; on a static scene at least one promoted candidate covers the object and all candidates match it |
| `baseline_service` | 331 362 | the two copies of the baseline agree; warm-up is quiet; the baseline shrinks only after a verification; cycles end once the other cameras are quiet |
| `baseline_verify` | violated | a preempted verification demotes |
| `alert_path` | 249 924 | at most one running follow-up per camera, one exists after every alert, at most two Discord messages per cooldown, events are served and follow-ups end in spite of errors |
| `rtsp_reader` | 105 060 | what the metrics loop reads is what happened since it last did; motion is seen only between two frames of one stream, past the warm-up; the thread survives all errors and ends after `stop()` |
| `ddns` | 9 904 | backoff from the first failure of a series on, and that the record catches up |
| `nfs` | 419 140 | write-ahead of the state file; full restoration after a maintenance with one `down`; after "ready", what this `down` listed as running has no replicas and no pods; runs end |
| `nfs_rerun` | violated | a second `down` destroys the saved state |
| `terraria` | 7 341 | a container that says it stopped has lost changes only by a crash of the game or by looking for two processes; no mod of an earlier list is enabled; a container ends when its game has, and a shutdown begun while `cat` reads ends without SIGKILL |
| `palworld` | 59 484 | a game starts with the settings its start has read; options of the template survive until a start reads a file with an unmatched parenthesis; only an end between open and write empties the file |
| `valheim_stop` | violated | the container stops with the world unsaved |

The runs of the tracker, `ddns`, `nfs`, `terraria` and `palworld` leave the type
invariant, which is proved, to TLAPS.

### Bounds, and why they are enough

* *scheduler*: two cameras tell "own" from "another" camera; two motion clients can be
  ahead of each other in the lane; three scan objects let one be on the GPU, one dead in
  the queue, and one newly registered. The lanes need no bound: a request is in a queue
  at most once.
* *tracker*: threshold 3 (the code's default), positions 0, 2, 4 with tolerance 3, frames
  of up to two boxes, three candidates: enough for two candidates near one detection,
  for a removal in front of a missed index, for duplicates in a frame, and for drift out
  of reach. `MaxCandidates` limits a list the code does not limit; it is in the guards.
  One class group: a second one only makes objects that never interact.
* *baseline_service*: threshold 2, one box per frame, two candidates. The duplicates of a
  frame are the tracker's concern; here the order of the coroutines counts. Two requests
  of other cameras, so that one can wait while the other is on the GPU: with them alone a scan can be starved for ever.
* *alert_path*: a queue of one event makes the full queue common; two cameras share the
  loop; two tasks are a running and a newly created one of the same camera; one place
  suffices because places do not interact.
* *rtsp_reader*: two warm-up frames, a maximum delay of 3 that the doubling from 1 would
  overshoot, and two events of a kind between snapshots (`MaxCount`, in the guard of
  `Load`: a thread that is further ahead waits for the metrics loop), so that a lost or
  repeated increment differs from a late one.
* *ddns*: two addresses, two resolvers (as in the code), a backoff of 1 with maximum 5,
  so that the maximum is no power of two times the first value and the cap must cut.
* *nfs*: a Deployment, a VM, a workload that cannot be scaled, and a pod without an owner
  whose name contains the Deployment's; up to two replicas, so that a wrong count differs
  from a missing one. In *nfs_rerun* a StatefulSet takes the Deployment's place,
  which no error of the tool can list under a wrong kind, so that the violation comes from
  the second `down`.
* *terraria*: two mods and requests of none, one and both, so that a download can get the
  first and not the second and a new pod can ask for less than an old one left; nothing
  else needs a bound.
* *palworld*: three template options, one in front of the password and one behind it;
  ConfigMaps without options, with one of the template's, with a value that opens or one
  that closes a parenthesis, and with an option the template does not have that holds a
  bare or a doubled percent sign; passwords likewise; three edits (`MaxEdits`), enough to
  set a thing, to set another and to go back; unmatched parentheses that add up to at most
  three in one value (`MaxNest`, in the guard of `Read`).
* *valheim_stop*: no bounds.

Deadlock is checked except in `scheduler`, where nothing more happens after `stop()`
when every client waits.

### Fairness

* *scheduler*: weak fairness of the worker's two resumptions. asyncio resumes ready tasks
  in order and `get_detections` returns or turns its error into `[]`. Clients have no
  fairness. `ScanServedWhenCalm` supposes that motion requests stop, since
  nothing in the code keeps motion from starving scans.
* *baseline_service*: the worker, which is never idle while somebody waits, and the baseline
  loop; not motion, follow-ups or clocks. Which request the worker takes is left to the
  scheduler, so nothing keeps other cameras from starving this camera's scan, and without
  its premise that they become quiet `CycleEnds` is false.
* *alert_path*: the motion loop, a follow-up's first run and its deadline. Not the arrival
  of events or the end of cooldowns. That an awaited call returns relies on the
  detector, and on the time-outs of the HTTP client.
* *rtsp_reader*: the thread goes on, because opening and reading time out after 5 s; the
  metrics loop comes back, and sleeps 10 s between snapshots, so the thread gets the lock
  (strong fairness of `Load`). A camera that is tried again and again opens and shows a
  frame at last (strong fairness of `Opens` and `Frame`): an assumption about cameras.
* *ddns*: the process goes on; a call that is tried again and again succeeds at last
  (strong fairness of the successful outcomes), caches expire. The code guarantees
  neither, they are assumptions about the services, and `urlopen` without a time-out must
  return. Signals and crashes stop once the address has settled.
* *nfs*: Ansible goes on with a run. The pods have no fairness: `RunsEnd` holds although
  a pod may never go.
* *terraria*: the script, a started call of tmux and the end of the pane go on; the game
  loads and obeys `exit` as long as cat reads what it prints. Before that it may block on
  a full pipe. Autosaves, players, crashes and Kubernetes have no fairness. *palworld* and
  *valheim_stop* state no liveness.

## Findings

1. `LeavesOnlyAfterLooking`: "To leave, a low-confidence verification pass must also fail
   to find them" (`proxy/baseline_tracker.py:63`). A preempted verification is answered
   with `[]`, which demotes every missed object.
2. `RestoredToBefore`: "All NFS-dependent workloads restored to pre-maintenance state"
   (`nfs-maintenance.yml:204`). A second `down` overwrites the counts to restore.
3. `ValheimServer!StoppedSaved`: "Valheim server saves the world on SIGINT, then exits"
   (`docker-images/valheim-server/start.sh:68`), "always saves on graceful shutdown"
   (its `readme.md:53`). `$!` is the log filter, which tini's SIGTERM ends at once: the
   handler has nothing to wait for, and the container goes while the server saves.

Seven more texts say more than the code does. The models behave as the code does, and the
properties are stated as what is left:

* "objects must appear N cycles to enter" (`proxy/baseline_tracker.py:62`): a candidate
  that a detection makes is not marked as matched, so a second box of the same image
  counts as its second hit. `SeenBeforePromoted` asks for one image less.
* "last_written_ip is updated only when an actual API write occurs"
  (`godaddy_ddns.py:176`): line 209 updates it when a resolver answers with the address,
  be it an old copy. No property speaks of what `last_ip` is worth.
* "Will not re-push this IP until it changes" (`godaddy_ddns.py:267`): while a resolver
  shows the old record, every cycle writes the address again.
* "All NFS-dependent workloads scaled to zero" (`nfs-maintenance.yml:149`): a workload
  whose owner the tool could not read (`discover-nfs-workloads.py:84`, `:95`) is listed
  under a kind no task scales. `StoppedQuiet` speaks of those listed as running.
* "Wait for pods to terminate" (`nfs-maintenance.yml:122`), then "ready": a second `down`,
  as after a wait that timed out, lists no replicas and skips the wait (line 139).
  `StoppedQuiet` leaves out what an earlier `down` had scaled.
* "[terraria] Server stopped." (`entrypoint.sh:80`): with the autosave's call of tmux
  beside the server, pgrep prints two ids, and the loop over `/proc/${tmux_pid}` ends at
  once. `StopLosesLittle` names this exception.
* "WARNING: Mod ... not found in workshop cache", `continue` (`entrypoint.sh:50-51`):
  `set -e` with `pipefail` ends the script at line 48. `ModsFresh` speaks of games, which
  such a container never starts.

Further observations: two messages may go out in one Discord cooldown
(`FloodBounded` is the bound that does hold); an entry of the state file without a count
ends every later `up` at that item; a Terraria shutdown between `tmux new-session` and
`cat` waits until SIGKILL; a Palworld password or option with a bare percent sign makes
every later start fail (`BarePercentDooms`, `NoWayBack`), and one with an unmatched
parenthesis loses the options behind it (`unmatched` in `OptionsKept` excepts such
histories).

## Proofs

All theorems hold for every value of the constants that satisfies the named assumption of
the module (for example `SchedulerAssumption`, `AlertPathAssumption`, `ReaderAssumption`:
sets are disjoint, the none-values are not members, bounds are positive). TLC evaluates these assumptions in the runs.

* `InferenceSchedulerProofs`. The inductive invariant joins the types with: a request is
  in a queue at most once, and in the lane of its priority; an unanswered request is
  queued or running; the registry is exact. Uniqueness is what makes
  skipping safe: what lies in front of the first live entry is answered, so cutting it
  off loses nobody. `SchedulerImplementsService` maps `waiting` to the queued unanswered
  requests and `serving` to `running`; `Wake` and `Finish` map to `Advance` or a stutter,
  `Submit*` to `Ask*`, `Stop` to `Halt`.
* `BaselineServiceProofs`, first half: the tracker. `_feed` is a loop over the frame, so
  its result needs an induction over the number of detections. No induction theorem of the
  library can be instantiated by the provers; `LeastNat` (a non-empty set of naturals has
  a least element) takes its place, and every induction is the search for a least
  counterexample. `RoundsExist` and `FeedChain` show that the recursive function of `Feed`
  is what the loop computes, `FedInv` is the loop's invariant: an old candidate was hit at
  most once and keeps its group, a new one has at most two hits, the promoted have all
  their hits, and each detection done so far still matches a candidate (`FedSeen`: the
  average stays within the tolerance of both its arguments, `BlendNear`, which is strict
  only because the tolerance is). `Renumbered` says where entries go when others are
  removed; `ReindexedRank` that the code's re-indexing computes the same place. The
  inductive invariant `TrackerInv` adds to types and `MissedExact` that promoted
  candidates have all their hits (`PromotedFull`) and that a candidate has at most one hit
  more than images that showed it (`HitsCounted`). `SeenEnough` follows from the two.
  The one hit more is real: a candidate made by a detection is not marked as matched, so a
  second box in the same image hits it again. A candidate of an earlier image is hit once
  by an image, since it is marked then.
* `BaselineServiceProofs`, second half: the service. `IInv` adds that the loop awaits a
  verification exactly while something is missed (`VerificationPending`) and that
  camera.baseline never has more objects than the tracker (`BaselineBehind`). Without the
  first, `Update` could run on unverified misses, or renew the copy between the two
  answers; without the second, a renewal at the end of a cycle could shrink the copy after
  motion had promoted something. `WarmupQuiet` rests on `FedSeen`. `ServiceRunsTracker` says
  that every step of the camera is a step of the tracker's own specification or leaves it
  alone, so that the tracker's theorems hold in the service. `EveryRequestAwaited` says
  that of this camera's requests the scheduler holds only what somebody awaits, so that
  the conditions of `InferenceService` on a new request never hold a coroutine up.
* `AlertPathProofs`. `OneFollowUp` is inductive with the types, because a task sets the flag
  in the step in which it starts and clears it in the step in which it ends. `FloodBounded`
  needs in addition that no message is remembered when Discord is not cooling
  (`QuietWhenCool`) and that a coroutine that is posting has not sent in this cooldown
  (`PostingAlone`).
* `RtspReaderProofs`. `CountsExact` needs that whoever holds the lock has read what the
  counters still hold (`LoadedIsCount`, `SnapshotIsCount`). `MotionWarm` needs how many
  frames of the stream the thread has seen, told from its warm-up counter and whether it
  has a reference (`BeforeFrame`, `AfterFrame`).
* `DdnsUpdaterProofs`. `BackoffGrows` needs `BackoffAhead`: after a failure the next backoff is
  already the capped double of the last sleep.
* `NfsMaintenanceProofs`. `SavedFirst`, `RestoredInFull` and `StoppedQuiet` need to know that
  the list in memory is the file after the write (`ListIsFile`), that the items are of
  the task's kind (`TodoKinds`), that the file holds what people wanted (`FileWanted`),
  and how far each loop has come (`DownProgress`, `UpProgress`, `ReadyBetween`).
* `TerrariaServerProofs`. `StopLosesLittle` needs that there is a game only in a pane
  (`GameInPane`), that only a running game, or one that crashed, leaves something unsaved
  (`UnsavedInGame`), and that pgrep which found no server looked when there was none
  (`ServerFound`). `ModsFresh` needs that what is enabled and what the loop has left are
  together what was requested (`ListGrows`), which makes the list complete at the trap and
  after it (`ListComplete`), and that only downloaded mods are enabled (`CachedOnly`).
* `PalworldServerProofs`. `TypeCorrect` includes that file and dictionary list every option
  they have a value of, which takes an induction over the options of a file (`ParseChain`,
  by `LeastNat` as above). `SettingsRight` follows the ConfigMap and the password through
  the dictionary into the file (`ConfigTaken`, `PasswordTaken`). `OptionsKept` follows the
  template's options around the cycle from file to dictionary to file (`KeptInv`):
  `MatchedParsed` shows that a file without unmatched parentheses in front of another
  option is parsed into the options it has. `FileSurvives` needs that what is written has
  at least the password. `BarePercentDooms` shows that a bare percent sign taken from
  Secret or ConfigMap makes the file one that the next start refuses, and `NoWayBack` that
  such a file, or one that a cut has emptied, is never replaced: no later ConfigMap or
  Secret brings the game back.

Every invariant and every action property of the passing runs is proved. Only
model-checked: liveness (`MotionServed`, `ScanServedWhenCalm`, `SceneSettles`, `CycleEnds`,
`EventsServed`, `FollowUpsEnd`, `ReadsUntilStopped`, `CatchesUp`, `RunsEnd`, `EndsByItself`)
and everything else about enabledness, which the prover does not reason about; and
`ValheimServer` and the other violated runs, which have nothing to prove.

## Not modelled

Image processing and model inference (an oracle returns any short sequence); the start-up
and configuration; text filters of manifests; Helm values and vendored manifests. Of the
modelled parts: `reference_frame` and the edge filter, the frames in
`CameraBuffer` and the numbers of the heatmap, a camera without motion detection, shutdown
of the alert path (`BaselineManager.stop()` only runs when the process is interrupted by
hand; SIGTERM, which Kubernetes sends, has no handler and ends the process at once), HTTP
sessions. Of the game servers: the text files `prepare-config.sh` writes, Valheim's id
lists and arguments, what the games do beyond what the scripts rely on, and the backups,
which send a command or copy a directory and keep no state. Of NFS maintenance: several
operators running the playbook at once, workloads scaled by others during a maintenance,
an `up` outside one, and operators that scale their StatefulSets back.

## Plan

Order of work, most important behaviour first. Done: `InferenceService`,
`InferenceScheduler` with proofs, `BaselineTracker`, `BaselineService`, `AlertPath` with
proofs, `DdnsUpdater` with proofs, `NfsMaintenance` with proofs, `RtspReader` with proofs,
`TerrariaServer` and `PalworldServer` with proofs, `ValheimServer`,
`BaselineServiceProofs` for the tracker and the service.

Next: `BaselineService` with `reference_frame` (stored even when the scan was preempted):
which frame is the calm reference of the edge filter; the shutdown of the alert path.
