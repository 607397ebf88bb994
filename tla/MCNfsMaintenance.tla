--------------------------- MODULE MCNfsMaintenance ---------------------------
EXTENDS NfsMaintenance

CONSTANTS plex, desktop, backup, shell

MCWorkload == {plex, desktop, backup, shell}

MCKind == [w \in MCWorkload |->
             CASE w = plex -> "deploy" [] w = desktop -> "vm"
               [] w = backup -> "other" [] w = shell -> "bare"]

(* The same with a StatefulSet, whose pods name it as their owner. *)
MCRerunKind == [MCKind EXCEPT ![plex] = "sts"]

(* Somebody's pod to look into Plex's files carries its name. *)
MCNamed == [w \in MCWorkload |-> IF w = plex THEN {plex, shell} ELSE {w}]

===============================================================================
