---------------------------- MODULE TerrariaServer ----------------------------
(***************************************************************************)
(* One pod of the Terraria server: entrypoint.sh, which is process 1 of    *)
(* the container, the tmux pane it runs the game in, autosave.sh, and what *)
(* Kubernetes does to the container.  The script downloads and enables     *)
(* mods, starts "game | tee pipe" in tmux, and then waits for "cat pipe";  *)
(* tee cannot open the fifo before cat does.  On SIGTERM its handler types *)
(* "exit" and waits for the process that pgrep calls tmux.                 *)
(*                                                                         *)
(* Process 1 has no default signal actions: a SIGTERM before the trap is   *)
(* set is lost.  Afterwards bash runs the handler when the command in the  *)
(* foreground is over, or at once in "wait".  The game is external: it     *)
(* loads, reads what is typed, saves on "save" and saves and ends on       *)
(* "exit", which is what the scripts rely on.  Of the time nothing is kept *)
(* but its order: the container may be killed at any time after SIGTERM.   *)
(*                                                                         *)
(* Appended, Unheard and LooksOnce are faulty variants of the definitions  *)
(* that follow them.                                                       *)
(***************************************************************************)
EXTENDS Naturals, Sequences, Functions

CONSTANTS Mods,       \* workshop ids
          Downloads,  \* TMOD_AUTODOWNLOAD
          Requests    \* values that TMOD_ENABLEDMODS has in one manifest or another

ASSUME TerrariaAssumption ==
  /\ Downloads \subseteq Mods
  /\ Requests \subseteq Seq(Mods)
  /\ Requests # {}

VARIABLES cache,      \* on the volume: mods that have been downloaded
          enabled,    \* on the volume: enabled.json, its entries and whether "]" is there
          requested,  \* TMOD_ENABLEDMODS of the pod
          pc,         \* what entrypoint.sh does next, or how it ended
          todo,       \* mods the enabling loop has still to look at
          pending,    \* SIGTERM has come and the handler not run yet
          watched,    \* what $tmux_pid of the handler holds
          pane,       \* the tmux pane, and with it the tmux server
          reading,    \* cat has the fifo open
          typed,      \* commands typed that the game has not read
          autosave,   \* autosave.sh: off, asleep, or in its call of tmux
          game,       \* off, loading or running
          unsaved,    \* there are changes to the world that the volume does not have
          crashed,    \* history: the game of this container ended without being told
          deleting    \* the pod is to go: SIGTERM was sent, SIGKILL will follow

volume == <<cache, enabled>>
script == <<pc, todo, pending, watched>>
session == <<pane, reading, typed, autosave>>
world == <<game, unsaved, crashed>>
pod == <<requested, deleting>>
vars == <<volume, script, session, world, pod>>

Over == {"stopped", "ended", "failed", "killed"}
Trapping == {"launch", "autosave", "cat", "wait"}
Handler == {"exit", "pgrep", "look"}

Init ==
  /\ cache = {} /\ enabled = [mods |-> <<>>, closed |-> TRUE]
  /\ pc = "download" /\ todo = <<>> /\ pending = FALSE /\ watched = "nothing"
  /\ pane = "none" /\ reading = FALSE /\ typed = {} /\ autosave = "off"
  /\ game = "off" /\ unsaved = FALSE /\ crashed = FALSE
  /\ requested \in Requests /\ deleting = FALSE
-------------------------------------------------------------------------------
(* The script before its trap is set.                                        *)

(* steamcmd may fail for some of the mods, which is only worth a warning. *)
Download ==
  /\ pc = "download"
  /\ \E got \in SUBSET Downloads : cache' = cache \cup got
  /\ pc' = IF requested = <<>> THEN "trap" ELSE "open"
  /\ UNCHANGED <<enabled, todo, pending, watched, session, world, pod>>

Appended == [enabled EXCEPT !.closed = FALSE]

Truncated == [mods |-> <<>>, closed |-> FALSE]

OpenList ==
  /\ pc = "open"
  /\ enabled' = Truncated
  /\ todo' = requested
  /\ pc' = "enable"
  /\ UNCHANGED <<cache, pending, watched, session, world, pod>>

(* Everything in the container ends with its process 1. *)
Ends(how) ==
  /\ pc' = how /\ todo' = <<>> /\ pending' = FALSE
  /\ pane' = "none" /\ reading' = FALSE /\ typed' = {} /\ autosave' = "off"
  /\ game' = "off"
  /\ UNCHANGED <<volume, watched, unsaved, crashed, pod>>

(* ls fails for a mod that is not there, and "set -e -o pipefail" turns that *)
(* into the end of the script before the test that would skip the mod.       *)
EnableMod ==
  /\ pc = "enable"
  /\ todo # <<>>
  /\ IF Head(todo) \in cache
       THEN /\ enabled' = [enabled EXCEPT !.mods = Append(@, Head(todo))]
            /\ todo' = Tail(todo)
            /\ UNCHANGED <<cache, pc, pending, watched, session, world, pod>>
       ELSE Ends("failed")

CloseList ==
  /\ pc = "enable"
  /\ todo = <<>>
  /\ enabled' = [enabled EXCEPT !.closed = TRUE]
  /\ pc' = "trap"
  /\ UNCHANGED <<cache, todo, pending, watched, session, world, pod>>

SetTrap ==
  /\ pc = "trap"
  /\ pc' = "launch"
  /\ UNCHANGED <<volume, todo, pending, watched, session, world, pod>>
-------------------------------------------------------------------------------
(* The script with its trap set: the handler goes before the next command.   *)

Command(at, next) ==
  /\ pc = at
  /\ ~pending
  /\ pc' = next
  /\ UNCHANGED <<volume, todo, pending, watched, pod>>

(* The fifo is made, and later "help" is typed; neither changes anything else. *)
Launch ==
  /\ Command("launch", "autosave")
  /\ pane' = "open"
  /\ game' = "loading"
  /\ UNCHANGED <<reading, typed, autosave, unsaved, crashed>>

StartAutosave ==
  /\ Command("autosave", "cat")
  /\ autosave' = "asleep"
  /\ UNCHANGED <<pane, reading, typed, world>>

StartCat ==
  /\ Command("cat", "wait")
  /\ reading' = TRUE
  /\ UNCHANGED <<pane, typed, autosave, world>>

(* cat sees the end of the file when tee has ended. *)
WaitReturns ==
  /\ pc = "wait"
  /\ pane = "none"
  /\ Ends("ended")
-------------------------------------------------------------------------------
(* The handler, shutdown().                                                  *)

TakeSignal ==
  /\ pc \in Trapping
  /\ pending
  /\ pending' = FALSE
  /\ pc' = "exit"
  /\ UNCHANGED <<volume, todo, watched, session, world, pod>>

(* inject works as long as there is a tmux server.  The handler says goodbye *)
(* first, which changes nothing.                                             *)
Unheard(command) == typed' = typed

Type(command) == typed' = IF pane = "open" THEN typed \cup {command} ELSE typed

TypeExit ==
  /\ pc = "exit"
  /\ pc' = "pgrep"
  /\ Type("exit")
  /\ UNCHANGED <<volume, todo, pending, watched, pane, reading, autosave, world, pod>>

(* pgrep lists the tmux server and any tmux client, one per line; a path     *)
(* with two lines in it does not exist.                                      *)
Pids == (IF pane = "open" THEN {"server"} ELSE {}) \cup
        (IF autosave = "calling" THEN {"client"} ELSE {})

Pgrep ==
  /\ pc = "pgrep"
  /\ watched' = CASE Pids = {}                   -> "nothing"
                  [] Pids = {"server"}           -> "server"
                  [] Pids = {"client"}           -> "client"
                  [] Pids = {"server", "client"} -> "several"
  /\ pc' = "look"
  /\ UNCHANGED <<volume, todo, pending, session, world, pod>>

LooksOnce == TRUE

Gone == watched = "server" => pane = "none"

(* The loop over /proc ends; a call of tmux is over before one would look. *)
Look ==
  /\ pc = "look"
  /\ Gone
  /\ Ends("stopped")

Script ==
  \/ Download \/ OpenList \/ EnableMod \/ CloseList \/ SetTrap
  \/ Launch \/ StartAutosave \/ StartCat \/ WaitReturns
  \/ TakeSignal \/ TypeExit \/ Pgrep \/ Look
-------------------------------------------------------------------------------
(* autosave.sh, the pane and the game.                                       *)

AutosaveWakes ==
  /\ autosave = "asleep"
  /\ autosave' = "calling"
  /\ UNCHANGED <<volume, script, pane, reading, typed, world, pod>>

AutosaveTypes ==
  /\ autosave = "calling"
  /\ autosave' = "asleep"
  /\ Type("save")
  /\ UNCHANGED <<volume, script, pane, reading, world, pod>>

(* tee ends when the game has, but only once it could open the fifo. *)
PaneEnds ==
  /\ pane = "open"
  /\ game = "off"
  /\ reading
  /\ pane' = "none"
  /\ typed' = {}
  /\ UNCHANGED <<volume, script, reading, autosave, world, pod>>

Loads == game = "loading" /\ game' = "running" /\ UNCHANGED <<typed, unsaved, crashed>>

Plays == game = "running" /\ unsaved' = TRUE /\ UNCHANGED <<game, typed, crashed>>

Saves ==
  /\ game = "running"
  /\ "save" \in typed
  /\ typed' = typed \ {"save"}
  /\ unsaved' = FALSE
  /\ UNCHANGED <<game, crashed>>

SavesAndExits ==
  /\ game = "running"
  /\ "exit" \in typed
  /\ game' = "off"
  /\ unsaved' = FALSE
  /\ UNCHANGED <<typed, crashed>>

(* What a crashed game had not saved never reaches the volume. *)
Crashes == game # "off" /\ game' = "off" /\ crashed' = TRUE /\ UNCHANGED <<typed, unsaved>>

Game ==
  /\ Loads \/ Plays \/ Saves \/ SavesAndExits \/ Crashes
  /\ UNCHANGED <<volume, script, pane, reading, autosave, pod>>
-------------------------------------------------------------------------------
(* Kubernetes.                                                               *)

Noticed == pc \in Trapping

Terminate ==
  /\ pc \notin Over
  /\ ~deleting
  /\ deleting' = TRUE
  /\ IF Noticed THEN pending' = TRUE ELSE pending' = pending
  /\ UNCHANGED <<volume, pc, todo, watched, session, world, requested>>

Kill ==
  /\ pc \notin Over
  /\ deleting
  /\ Ends("killed")

(* The container starts again on the same volume, in the same pod or, after  *)
(* a deletion, in a new one that may have been configured differently.       *)
Restart ==
  /\ pc \in Over
  /\ pc' = "download"
  /\ watched' = "nothing"
  /\ unsaved' = FALSE /\ crashed' = FALSE
  /\ deleting' = FALSE
  /\ IF deleting THEN requested' \in Requests ELSE requested' = requested
  /\ UNCHANGED <<volume, todo, pending, session, game>>

Next == Script \/ AutosaveWakes \/ AutosaveTypes \/ PaneEnds \/ Game
          \/ Terminate \/ Kill \/ Restart

(* The script and its helpers go on.  The game does as long as somebody      *)
(* reads what it prints: with tee stuck at the fifo it may block any time.   *)
Fairness ==
  /\ WF_vars(Script)
  /\ WF_vars(AutosaveTypes)
  /\ WF_vars(PaneEnds)
  /\ WF_vars(reading /\ Game /\ (Loads \/ SavesAndExits))

Spec == Init /\ [][Next]_vars

FairSpec == Spec /\ Fairness
-------------------------------------------------------------------------------
TypeOK ==
  /\ cache \subseteq Mods /\ enabled \in [mods : Seq(Mods), closed : BOOLEAN]
  /\ pc \in {"download", "open", "enable", "trap"} \cup Trapping \cup Handler \cup Over
  /\ todo \in Seq(Mods)
  /\ watched \in {"nothing", "server", "client", "several"}
  /\ pane \in {"none", "open"} /\ typed \subseteq {"save", "exit"}
  /\ autosave \in {"off", "asleep", "calling"}
  /\ game \in {"off", "loading", "running"}
  /\ requested \in Requests
  /\ {pending, reading, unsaved, crashed, deleting} \subseteq BOOLEAN

(* A container that ends with "Server stopped." leaves a saved world behind, *)
(* whenever the signal came and whatever the autosave did meanwhile, except  *)
(* for two reasons: the game had crashed, or pgrep found the autosave's call *)
(* of tmux beside the server, so that the handler waited for neither.        *)
StopLosesLittle == pc = "stopped" /\ unsaved => crashed \/ watched = "several"

(* A game runs with a complete list of those mods that its pod asks for and  *)
(* the volume has: nothing of an earlier pod's list is left in it, whatever  *)
(* downloads failed and wherever earlier containers were killed.  A pod that *)
(* asks for none gets what is on the volume.                                 *)
ModsFresh ==
  game # "off" /\ requested # <<>> =>
    enabled.closed /\ Range(enabled.mods) = Range(requested) \cap cache

(* The container does not outlive its game, and a shutdown that began when   *)
(* cat was reading needs no SIGKILL.                                         *)
EndsByItself ==
  reading /\ (game = "off" \/ pc \in Handler) ~> pc \in Over

===============================================================================
