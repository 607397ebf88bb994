---------------------------- MODULE ValheimServer -----------------------------
(***************************************************************************)
(* One pod of the Valheim server: start.sh under "tini -g", the server,    *)
(* and valheim-logfilter, which the server's output is piped through.  The *)
(* pipeline runs in the background, and $! is the process of its last      *)
(* command, the logfilter.  tini passes SIGTERM on to the whole process    *)
(* group; the script's handler then sends SIGINT to $server_pid and waits  *)
(* for it.                                                                 *)
(*                                                                         *)
(* What the server does about a signal is external: on SIGINT it saves and *)
(* ends, on SIGTERM it does that too, or ends without saving.  The         *)
(* logfilter ends on SIGTERM, or with its input.  A background job of a    *)
(* script starts with SIGINT ignored, and the logfilter leaves it so.      *)
(***************************************************************************)

VARIABLES pc,          \* what start.sh does next, or how the container ended
          server_pid,  \* the process it holds, or "none"
          pending,     \* SIGTERM has come and the handler not run yet
          alive,       \* which of server and logfilter run
          told,        \* those that were sent a signal they act on
          unsaved,     \* the server knows of changes to the world the volume does not
          deleting     \* the pod is to go: SIGTERM was sent, SIGKILL will follow

script == <<pc, server_pid, pending>>
vars == <<script, alive, told, unsaved, deleting>>

Over == {"stopped", "exited", "killed"}
Trapping == {"start", "assign", "wait"}

Init ==
  /\ pc = "setup" /\ server_pid = "none" /\ pending = FALSE
  /\ alive = {} /\ told = {} /\ unsaved = FALSE
  /\ deleting = FALSE
-------------------------------------------------------------------------------
(* start.sh.  Everything in the container ends with it, because tini does.   *)

Ends(how) ==
  /\ pc' = how /\ pending' = FALSE
  /\ alive' = {} /\ told' = {}
  /\ UNCHANGED <<server_pid, unsaved, deleting>>

Command(at, next) ==
  /\ pc = at
  /\ ~pending
  /\ pc' = next
  /\ UNCHANGED <<pending, told, unsaved, deleting>>

SetTrap == Command("setup", "start") /\ UNCHANGED <<server_pid, alive>>

StartPipeline ==
  Command("start", "assign") /\ alive' = {"server", "logfilter"} /\ UNCHANGED server_pid

(* server_pid=$! *)
AssignPid == Command("assign", "wait") /\ server_pid' = "logfilter" /\ UNCHANGED alive

WaitReturns ==
  /\ pc = "wait"
  /\ server_pid \notin alive
  /\ Ends("exited")

(* shutdown(): nothing to stop while server_pid is 0. *)
TakeSignal ==
  /\ pc \in Trapping
  /\ pending
  /\ IF server_pid = "none"
       THEN Ends("stopped")
       ELSE /\ pc' = "stop"
            /\ pending' = FALSE
            /\ told' = told \cup ({server_pid} \ {"logfilter"})
            /\ UNCHANGED <<server_pid, alive, unsaved, deleting>>

Stopped ==
  /\ pc = "stop"
  /\ server_pid \notin alive
  /\ Ends("stopped")
-------------------------------------------------------------------------------
(* The server and the logfilter.                                             *)

(* Players change the world, and the server saves it now and then. *)
Play ==
  /\ "server" \in alive
  /\ unsaved' \in BOOLEAN
  /\ UNCHANGED <<script, alive, told, deleting>>

SavesAndEnds ==
  /\ "server" \in alive \cap told
  /\ alive' = alive \ {"server"}
  /\ unsaved' = FALSE
  /\ UNCHANGED <<script, told, deleting>>

(* A crash, or SIGTERM without saving. *)
ServerDies ==
  /\ "server" \in alive
  /\ alive' = alive \ {"server"}
  /\ UNCHANGED <<script, told, unsaved, deleting>>

LogfilterEnds ==
  /\ "logfilter" \in alive
  /\ "server" \notin alive \/ "logfilter" \in told
  /\ alive' = alive \ {"logfilter"}
  /\ UNCHANGED <<script, told, unsaved, deleting>>
-------------------------------------------------------------------------------
(* Kubernetes.                                                               *)

(* SIGTERM for every process of the group; start.sh dies of it before its    *)
(* trap is set.                                                              *)
Terminate ==
  /\ pc \notin Over
  /\ ~deleting
  /\ deleting' = TRUE
  /\ IF pc = "setup" THEN pc' = "exited" /\ UNCHANGED pending
                     ELSE pending' = TRUE /\ UNCHANGED pc
  /\ told' = alive
  /\ UNCHANGED <<server_pid, alive, unsaved>>

Kill == pc \notin Over /\ deleting /\ Ends("killed")

Restart ==
  /\ pc \in Over
  /\ pc' = "setup" /\ server_pid' = "none" /\ pending' = FALSE
  /\ alive' = {} /\ told' = {} /\ unsaved' = FALSE /\ deleting' = FALSE

Next ==
  \/ SetTrap \/ StartPipeline \/ AssignPid \/ WaitReturns \/ TakeSignal \/ Stopped
  \/ Play \/ SavesAndEnds \/ ServerDies \/ LogfilterEnds
  \/ Terminate \/ Kill \/ Restart

Spec == Init /\ [][Next]_vars
-------------------------------------------------------------------------------
(* start.sh: "Valheim server saves the world on SIGINT, then exits", and the *)
(* readme: it "always saves on graceful shutdown (SIGINT/SIGTERM)".  Once    *)
(* the script knows what it waits for, it ends, saying "Server stopped.",    *)
(* only when there is no server left that has something to save.             *)
StoppedSaved ==
  [][ pc' = "stopped" /\ pc # "stopped" /\ server_pid # "none"
        => ~("server" \in alive /\ unsaved) ]_vars

===============================================================================
