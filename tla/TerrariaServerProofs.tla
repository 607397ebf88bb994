------------------------- MODULE TerrariaServerProofs -------------------------
(* The safety properties of TerrariaServer, for any mods and any requests.   *)
EXTENDS TerrariaServer, SequenceTheorems, TLAPS

(* There is a game only in a pane, and neither before the script launches    *)
(* them nor when the container has ended.                                    *)
NotLaunched == pc \in {"download", "open", "enable", "trap", "launch"} \cup Over

GameInPane ==
  /\ game # "off" => pane = "open"
  /\ NotLaunched => pane = "none"

(* What is unsaved is known to a running game, or lost with the game or with *)
(* its container.                                                            *)
UnsavedInGame == unsaved => game = "running" \/ crashed \/ pc \in Over

(* If pgrep did not find the server there is none. *)
ServerFound == pc = "look" /\ watched \in {"nothing", "client"} => pane = "none"

StopInv == TypeOK /\ GameInPane /\ UnsavedInGame /\ ServerFound /\ StopLosesLittle

(* The list is as long as the loop has come, and complete before the trap.   *)
ListGrows == pc = "enable" => enabled.mods \o todo = requested

ListComplete ==
  pc \in {"trap"} \cup Trapping \cup Handler /\ requested # <<>> =>
    enabled = [mods |-> requested, closed |-> TRUE]

(* What has been listed is on the volume. *)
CachedOnly ==
  pc \in {"enable", "trap"} \cup Trapping \cup Handler /\ requested # <<>> =>
    Range(enabled.mods) \subseteq cache

ModsInv == StopInv /\ ListGrows /\ ListComplete /\ CachedOnly

USE DEF volume, script, session, world, pod, Over, Trapping, Handler

-------------------------------------------------------------------------------
LEMMA RequestsAreSeqs == \A r \in Requests : r \in Seq(Mods)
BY TerrariaAssumption

(* Type correctness, in two parts: the Boolean variables and the others. *)
Flags ==
  /\ pending \in BOOLEAN /\ reading \in BOOLEAN /\ unsaved \in BOOLEAN
  /\ crashed \in BOOLEAN /\ deleting \in BOOLEAN

Shapes ==
  /\ cache \subseteq Mods
  /\ enabled \in [mods : Seq(Mods), closed : BOOLEAN]
  /\ requested \in Requests
  /\ pc \in {"download", "open", "enable", "trap"} \cup Trapping \cup Handler \cup Over
  /\ todo \in Seq(Mods)
  /\ watched \in {"nothing", "server", "client", "several"}
  /\ pane \in {"none", "open"}
  /\ typed \subseteq {"save", "exit"}
  /\ autosave \in {"off", "asleep", "calling"}
  /\ game \in {"off", "loading", "running"}

LEMMA TypeParts == TypeOK <=> Flags /\ Shapes
BY DEF TypeOK, Flags, Shapes

LEMMA FlagsStep == Flags /\ [Next]_vars => Flags'
<1> SUFFICES ASSUME Flags, [Next]_vars PROVE Flags'
  OBVIOUS
<1> USE DEF Flags, Command
<1>1. CASE Download \/ OpenList \/ CloseList \/ SetTrap
  BY <1>1 DEF Download, OpenList, CloseList, SetTrap
<1>2. CASE EnableMod
  BY <1>2 DEF EnableMod, Ends
<1>3. CASE Launch \/ StartAutosave \/ StartCat
  BY <1>3 DEF Launch, StartAutosave, StartCat
<1>4. CASE WaitReturns \/ Look \/ Kill
  BY <1>4 DEF WaitReturns, Look, Kill, Ends
<1>5. CASE TakeSignal \/ TypeExit \/ Pgrep
  BY <1>5 DEF TakeSignal, TypeExit, Pgrep
<1>6. CASE AutosaveWakes \/ AutosaveTypes \/ PaneEnds
  BY <1>6 DEF AutosaveWakes, AutosaveTypes, PaneEnds
<1>7. CASE Game
  BY <1>7 DEF Game, Loads, Plays, Saves, SavesAndExits, Crashes
<1>8. CASE Terminate
  BY <1>8 DEF Terminate
<1>9. CASE Restart
  BY <1>9 DEF Restart
<1>10. CASE UNCHANGED vars
  BY <1>10 DEF vars
<1> QED
  BY <1>1, <1>2, <1>3, <1>4, <1>5, <1>6, <1>7, <1>8, <1>9, <1>10 DEF Next, Script

LEMMA ShapesStep == Shapes /\ [Next]_vars => Shapes'
<1> SUFFICES ASSUME Shapes, [Next]_vars PROVE Shapes'
  OBVIOUS
<1> USE DEF Shapes, Command
<1>1. CASE Download
  BY <1>1, TerrariaAssumption DEF Download
<1>2. CASE OpenList \/ CloseList
  <2>1. CASE OpenList
    <3>1. enabled' \in [mods : Seq(Mods), closed : BOOLEAN]
      BY <2>1 DEF OpenList, Truncated
    <3> QED
      BY <2>1, <3>1, RequestsAreSeqs DEF OpenList
  <2>2. CASE CloseList
    <3>1. enabled' \in [mods : Seq(Mods), closed : BOOLEAN]
      BY <2>2 DEF CloseList
    <3> QED
      BY <2>2, <3>1 DEF CloseList
  <2> QED
    BY <1>2, <2>1, <2>2
<1>3. CASE EnableMod
  <2>1. CASE Head(todo) \in cache
    <3>1. Append(enabled.mods, Head(todo)) \in Seq(Mods)
      BY <2>1
    <3>2. Tail(todo) \in Seq(Mods)
      BY <1>3 DEF EnableMod
    <3> QED
      BY <1>3, <2>1, <3>1, <3>2 DEF EnableMod
  <2>2. CASE Head(todo) \notin cache
    BY <1>3, <2>2 DEF EnableMod, Ends
  <2> QED
    BY <2>1, <2>2
<1>4. CASE SetTrap \/ Launch \/ StartAutosave \/ StartCat
  BY <1>4 DEF SetTrap, Launch, StartAutosave, StartCat
<1>5. CASE WaitReturns \/ Look \/ Kill
  <2>1. PICK how \in Over : Ends(how)
    BY <1>5 DEF WaitReturns, Look, Kill
  <2>2. pc' \in Over /\ todo' \in Seq(Mods) /\ typed' = {}
    BY <2>1 DEF Ends
  <2>3. UNCHANGED <<cache, enabled, requested, watched>>
    BY <2>1 DEF Ends
  <2>4. pane' = "none" /\ autosave' = "off" /\ game' = "off"
    BY <2>1 DEF Ends
  <2> QED
    BY <2>2, <2>3, <2>4
<1>6. CASE TakeSignal \/ TypeExit
  BY <1>6 DEF TakeSignal, TypeExit, Type
<1>7. CASE Pgrep
  <2>1. watched' \in {"nothing", "server", "client", "several"}
    BY <1>7 DEF Pgrep, Pids
  <2> QED
    BY <1>7, <2>1 DEF Pgrep
<1>8. CASE AutosaveWakes \/ AutosaveTypes \/ PaneEnds
  <2>1. CASE AutosaveWakes
    BY <2>1 DEF AutosaveWakes
  <2>2. CASE AutosaveTypes
    BY <2>2 DEF AutosaveTypes, Type
  <2>3. CASE PaneEnds
    BY <2>3 DEF PaneEnds
  <2> QED
    BY <1>8, <2>1, <2>2, <2>3
<1>9. CASE Game
  <2>1. /\ game' \in {"off", "loading", "running"}
        /\ typed' \subseteq {"save", "exit"}
    BY <1>9 DEF Game, Loads, Plays, Saves, SavesAndExits, Crashes
  <2>2. UNCHANGED <<volume, script, pane, autosave, pod>>
    BY <1>9 DEF Game, Loads, Plays, Saves, SavesAndExits, Crashes
  <2> QED
    BY <2>1, <2>2
<1>10. CASE Terminate \/ Restart
  BY <1>10 DEF Terminate, Restart
<1>11. CASE UNCHANGED vars
  BY <1>11 DEF vars
<1> QED
  BY <1>1, <1>2, <1>3, <1>4, <1>5, <1>6, <1>7, <1>8, <1>9, <1>10, <1>11 DEF Next, Script

LEMMA TypeStep == TypeOK /\ [Next]_vars => TypeOK'
<1>1. TypeOK' <=> Flags' /\ Shapes'
  BY DEF TypeOK, Flags, Shapes
<1> QED
  BY <1>1, TypeParts, FlagsStep, ShapesStep

LEMMA InitStopInv == Init => StopInv
<1> SUFFICES ASSUME Init PROVE StopInv
  OBVIOUS
<1>1. Flags
  BY DEF Init, Flags
<1>2. Shapes
  BY DEF Init, Shapes
<1> QED
  BY <1>1, <1>2, TypeParts
  DEF Init, StopInv, GameInPane, NotLaunched, UnsavedInGame, ServerFound, StopLosesLittle

-------------------------------------------------------------------------------
LEMMA GameInPaneStep ==
  Shapes /\ GameInPane /\ [Next]_vars => GameInPane'
<1> SUFFICES ASSUME Shapes /\ GameInPane, [Next]_vars PROVE GameInPane'
  OBVIOUS
<1> USE DEF Shapes, GameInPane, NotLaunched, Command
<1>1. CASE Download
  BY <1>1 DEF Download
<1>2. CASE OpenList
  BY <1>2 DEF OpenList
<1>3. CASE EnableMod
  BY <1>3 DEF EnableMod, Ends
<1>4. CASE CloseList
  BY <1>4 DEF CloseList
<1>5. CASE SetTrap
  BY <1>5 DEF SetTrap
<1>7. CASE Launch
  BY <1>7 DEF Launch
<1>9. CASE StartAutosave
  BY <1>9 DEF StartAutosave
<1>10. CASE StartCat
  BY <1>10 DEF StartCat
<1>11. CASE WaitReturns
  BY <1>11 DEF WaitReturns, Ends
<1>12. CASE TakeSignal
  BY <1>12 DEF TakeSignal
<1>14. CASE TypeExit
  BY <1>14 DEF TypeExit, Type
<1>15. CASE Pgrep
  BY <1>15 DEF Pgrep, Pids
<1>16. CASE Look
  BY <1>16 DEF Look, Gone, Ends
<1>17. CASE AutosaveWakes
  BY <1>17 DEF AutosaveWakes
<1>18. CASE AutosaveTypes
  BY <1>18 DEF AutosaveTypes, Type
<1>19. CASE PaneEnds
  BY <1>19 DEF PaneEnds
<1>20. CASE Game
  BY <1>20 DEF Game, Loads, Plays, Saves, SavesAndExits, Crashes
<1>21. CASE Terminate
  BY <1>21 DEF Terminate
<1>22. CASE Kill
  BY <1>22 DEF Kill, Ends
<1>23. CASE Restart
  BY <1>23 DEF Restart
<1>24. CASE UNCHANGED vars
  BY <1>24 DEF vars
<1> QED
  BY <1>1, <1>2, <1>3, <1>4, <1>5, <1>7, <1>9, <1>10, <1>11, <1>12, <1>14, <1>15, <1>16, <1>17, <1>18, <1>19, <1>20, <1>21, <1>22, <1>23, <1>24 DEF Next, Script

LEMMA UnsavedStep ==
  UnsavedInGame /\ GameInPane /\ [Next]_vars => UnsavedInGame'
<1> SUFFICES ASSUME UnsavedInGame /\ GameInPane, [Next]_vars PROVE UnsavedInGame'
  OBVIOUS
<1> USE DEF UnsavedInGame, Command
<1>1. CASE Download
  BY <1>1 DEF Download
<1>2. CASE OpenList
  BY <1>2 DEF OpenList
<1>3. CASE EnableMod
  BY <1>3 DEF EnableMod, Ends
<1>4. CASE CloseList
  BY <1>4 DEF CloseList
<1>5. CASE SetTrap
  BY <1>5 DEF SetTrap
<1>7. CASE Launch
  BY <1>7 DEF Launch, GameInPane, NotLaunched
<1>9. CASE StartAutosave
  BY <1>9 DEF StartAutosave
<1>10. CASE StartCat
  BY <1>10 DEF StartCat
<1>11. CASE WaitReturns
  BY <1>11 DEF WaitReturns, Ends
<1>12. CASE TakeSignal
  BY <1>12 DEF TakeSignal
<1>14. CASE TypeExit
  BY <1>14 DEF TypeExit, Type
<1>15. CASE Pgrep
  BY <1>15 DEF Pgrep, Pids
<1>16. CASE Look
  BY <1>16 DEF Look, Gone, Ends
<1>17. CASE AutosaveWakes
  BY <1>17 DEF AutosaveWakes
<1>18. CASE AutosaveTypes
  BY <1>18 DEF AutosaveTypes, Type
<1>19. CASE PaneEnds
  BY <1>19 DEF PaneEnds
<1>20. CASE Game
  BY <1>20 DEF Game, Loads, Plays, Saves, SavesAndExits, Crashes
<1>21. CASE Terminate
  BY <1>21 DEF Terminate
<1>22. CASE Kill
  BY <1>22 DEF Kill, Ends
<1>23. CASE Restart
  BY <1>23 DEF Restart
<1>24. CASE UNCHANGED vars
  BY <1>24 DEF vars
<1> QED
  BY <1>1, <1>2, <1>3, <1>4, <1>5, <1>7, <1>9, <1>10, <1>11, <1>12, <1>14, <1>15, <1>16, <1>17, <1>18, <1>19, <1>20, <1>21, <1>22, <1>23, <1>24 DEF Next, Script

LEMMA ServerFoundStep ==
  Shapes /\ ServerFound /\ [Next]_vars => ServerFound'
<1> SUFFICES ASSUME Shapes, ServerFound, [Next]_vars PROVE ServerFound'
  OBVIOUS
<1> USE DEF ServerFound, Command
<1>1. CASE Download
  BY <1>1 DEF Download
<1>2. CASE OpenList
  BY <1>2 DEF OpenList
<1>3. CASE EnableMod
  BY <1>3 DEF EnableMod, Ends
<1>4. CASE CloseList
  BY <1>4 DEF CloseList
<1>5. CASE SetTrap
  BY <1>5 DEF SetTrap
<1>7. CASE Launch
  BY <1>7 DEF Launch
<1>9. CASE StartAutosave
  BY <1>9 DEF StartAutosave
<1>10. CASE StartCat
  BY <1>10 DEF StartCat
<1>11. CASE WaitReturns
  BY <1>11 DEF WaitReturns, Ends
<1>12. CASE TakeSignal
  BY <1>12 DEF TakeSignal
<1>14. CASE TypeExit
  BY <1>14 DEF TypeExit, Type
<1>15. CASE Pgrep
  <2>1. CASE pane = "open"
    <3>1. Pids \in {{"server"}, {"server", "client"}}
      BY <2>1 DEF Pids
    <3>2. watched' \in {"server", "several"}
      BY <1>15, <3>1 DEF Pgrep
    <3> QED
      BY <3>2
  <2>2. CASE pane = "none"
    BY <1>15, <2>2 DEF Pgrep
  <2> QED
    BY <2>1, <2>2 DEF Shapes
<1>16. CASE Look
  BY <1>16 DEF Look, Gone, Ends
<1>17. CASE AutosaveWakes
  BY <1>17 DEF AutosaveWakes
<1>18. CASE AutosaveTypes
  BY <1>18 DEF AutosaveTypes, Type
<1>19. CASE PaneEnds
  BY <1>19 DEF PaneEnds
<1>20. CASE Game
  BY <1>20 DEF Game, Loads, Plays, Saves, SavesAndExits, Crashes
<1>21. CASE Terminate
  BY <1>21 DEF Terminate
<1>22. CASE Kill
  BY <1>22 DEF Kill, Ends
<1>23. CASE Restart
  BY <1>23 DEF Restart
<1>24. CASE UNCHANGED vars
  BY <1>24 DEF vars
<1> QED
  BY <1>1, <1>2, <1>3, <1>4, <1>5, <1>7, <1>9, <1>10, <1>11, <1>12, <1>14, <1>15, <1>16, <1>17, <1>18, <1>19, <1>20, <1>21, <1>22, <1>23, <1>24 DEF Next, Script

LEMMA StopLosesLittleStep ==
  Shapes /\ GameInPane /\ UnsavedInGame /\ ServerFound /\ StopLosesLittle /\ [Next]_vars => StopLosesLittle'
<1> SUFFICES ASSUME Shapes /\ GameInPane /\ UnsavedInGame /\ ServerFound /\ StopLosesLittle, [Next]_vars PROVE StopLosesLittle'
  OBVIOUS
<1> USE DEF StopLosesLittle, Command
<1>1. CASE Download
  BY <1>1 DEF Download
<1>2. CASE OpenList
  BY <1>2 DEF OpenList
<1>3. CASE EnableMod
  BY <1>3 DEF EnableMod, Ends
<1>4. CASE CloseList
  BY <1>4 DEF CloseList
<1>5. CASE SetTrap
  BY <1>5 DEF SetTrap
<1>7. CASE Launch
  BY <1>7 DEF Launch
<1>9. CASE StartAutosave
  BY <1>9 DEF StartAutosave
<1>10. CASE StartCat
  BY <1>10 DEF StartCat
<1>11. CASE WaitReturns
  BY <1>11 DEF WaitReturns, Ends
<1>12. CASE TakeSignal
  BY <1>12 DEF TakeSignal
<1>14. CASE TypeExit
  BY <1>14 DEF TypeExit, Type
<1>15. CASE Pgrep
  BY <1>15 DEF Pgrep, Pids
<1>16. CASE Look
  <2>1. SUFFICES ASSUME watched # "several", unsaved, ~crashed
                 PROVE  FALSE
    BY <1>16 DEF Look, Ends
  <2>2. pc = "look" /\ Gone
    BY <1>16 DEF Look
  <2>3. pane = "open"
    BY <2>1, <2>2 DEF UnsavedInGame, GameInPane
  <2>4. watched # "server"
    BY <2>2, <2>3 DEF Gone
  <2>5. watched \notin {"nothing", "client"}
    BY <2>2, <2>3 DEF ServerFound
  <2> QED
    BY <2>1, <2>4, <2>5 DEF Shapes
<1>17. CASE AutosaveWakes
  BY <1>17 DEF AutosaveWakes
<1>18. CASE AutosaveTypes
  BY <1>18 DEF AutosaveTypes, Type
<1>19. CASE PaneEnds
  BY <1>19 DEF PaneEnds
<1>20. CASE Game
  <2>1. pc' = pc /\ watched' = watched
    BY <1>20 DEF Game, Loads, Plays, Saves, SavesAndExits, Crashes
  <2>2. CASE pc = "stopped"
    <3>1. game = "off"
      BY <2>2 DEF GameInPane, NotLaunched
    <3> QED
      BY <1>20, <3>1 DEF Game, Loads, Plays, Saves, SavesAndExits, Crashes
  <2>3. CASE pc # "stopped"
    BY <2>1, <2>3
  <2> QED
    BY <2>2, <2>3
<1>21. CASE Terminate
  BY <1>21 DEF Terminate
<1>22. CASE Kill
  BY <1>22 DEF Kill, Ends
<1>23. CASE Restart
  BY <1>23 DEF Restart
<1>24. CASE UNCHANGED vars
  BY <1>24 DEF vars
<1> QED
  BY <1>1, <1>2, <1>3, <1>4, <1>5, <1>7, <1>9, <1>10, <1>11, <1>12, <1>14, <1>15, <1>16, <1>17, <1>18, <1>19, <1>20, <1>21, <1>22, <1>23, <1>24 DEF Next, Script

LEMMA StopStep == StopInv /\ [Next]_vars => StopInv'
BY TypeParts, TypeStep, GameInPaneStep, UnsavedStep, ServerFoundStep, StopLosesLittleStep
DEF StopInv

-------------------------------------------------------------------------------
(* Moving the head of what is left to the end of what is done changes        *)
(* nothing in the two together.                                              *)
LEMMA MoveHead ==
  ASSUME NEW S, NEW done \in Seq(S), NEW left \in Seq(S), left # <<>>
  PROVE  Append(done, Head(left)) \o Tail(left) = done \o left
<1>1. Head(left) \in S /\ Tail(left) \in Seq(S) /\ left = <<Head(left)>> \o Tail(left)
  OBVIOUS
<1>2. Append(done, Head(left)) = done \o <<Head(left)>>
  BY <1>1
<1>3. (done \o <<Head(left)>>) \o Tail(left) = done \o (<<Head(left)>> \o Tail(left))
  BY <1>1, ConcatAssociative
<1> QED
  BY <1>1, <1>2, <1>3

LEMMA ListGrowsStep == Shapes /\ ListGrows /\ [Next]_vars => ListGrows'
<1> SUFFICES ASSUME Shapes, ListGrows, Next \/ UNCHANGED vars, pc' = "enable"
             PROVE  enabled'.mods \o todo' = requested'
  BY DEF ListGrows
<1>1. CASE OpenList
  <2>1. enabled'.mods = <<>> /\ todo' = requested /\ requested' = requested
    BY <1>1 DEF OpenList, Truncated
  <2> QED
    BY <2>1, RequestsAreSeqs, ConcatEmptySeq DEF Shapes
<1>2. CASE EnableMod
  <2>1. Head(todo) \in cache
    BY <1>2 DEF EnableMod, Ends
  <2>2. /\ enabled' = [enabled EXCEPT !.mods = Append(@, Head(todo))]
        /\ todo' = Tail(todo)
        /\ requested' = requested
    BY <1>2, <2>1 DEF EnableMod
  <2>3. todo # <<>> /\ enabled.mods \o todo = requested
    BY <1>2 DEF EnableMod, ListGrows
  <2>4. enabled'.mods = Append(enabled.mods, Head(todo))
    BY <2>2 DEF Shapes
  <2>5. Append(enabled.mods, Head(todo)) \o Tail(todo) = enabled.mods \o todo
    <3>1. enabled.mods \in Seq(Mods) /\ todo \in Seq(Mods)
      BY DEF Shapes
    <3> QED
      BY ONLY <2>3, <3>1, MoveHead
  <2> QED
    BY <2>2, <2>3, <2>4, <2>5
<1>3. CASE UNCHANGED <<enabled, todo, requested, pc>>
  BY <1>3 DEF ListGrows
<1> QED
  <2>1. ASSUME Script, ~OpenList, ~EnableMod
        PROVE  FALSE
    BY <2>1 DEF Script, Download, CloseList, SetTrap, Launch, Command,
      StartAutosave, StartCat, WaitReturns, TakeSignal, TypeExit, Pgrep, Look, Ends
  <2>2. CASE AutosaveWakes \/ AutosaveTypes \/ PaneEnds \/ Game \/ Terminate
    BY <1>3, <2>2 DEF AutosaveWakes, AutosaveTypes, PaneEnds, Terminate,
      Game, Loads, Plays, Saves, SavesAndExits, Crashes
  <2>3. CASE Kill \/ Restart
    BY <2>3 DEF Kill, Restart, Ends
  <2>4. CASE UNCHANGED vars
    BY <1>3, <2>4 DEF vars
  <2> QED
    BY <1>1, <1>2, <2>1, <2>2, <2>3, <2>4 DEF Next

LEMMA ListCompleteStep ==
  Shapes /\ ListGrows /\ ListComplete /\ [Next]_vars => ListComplete'
<1> SUFFICES ASSUME Shapes, ListGrows, ListComplete, Next \/ UNCHANGED vars,
                    pc' \in {"trap"} \cup Trapping \cup Handler, requested' # <<>>
             PROVE  enabled' = [mods |-> requested', closed |-> TRUE]
  BY DEF ListComplete
<1>1. CASE CloseList
  <2>1. /\ enabled.mods \o <<>> = requested
        /\ enabled' = [enabled EXCEPT !.closed = TRUE]
        /\ requested' = requested
    BY <1>1 DEF CloseList, ListGrows
  <2>2. enabled.mods = requested
    BY <2>1, ConcatEmptySeq DEF Shapes
  <2> QED
    BY <2>1, <2>2 DEF Shapes
<1>2. CASE /\ pc \in {"trap"} \cup Trapping \cup Handler
           /\ UNCHANGED <<enabled, requested>>
  BY <1>2 DEF ListComplete
<1> QED
  <2>1. ASSUME Download \/ OpenList \/ EnableMod \/ WaitReturns \/ Look \/ Kill \/ Restart
        PROVE  FALSE
    BY <2>1 DEF Download, OpenList, EnableMod, WaitReturns, Look, Kill, Restart, Ends
  <2>2. CASE SetTrap \/ Launch \/ StartAutosave \/ StartCat
    BY <1>2, <2>2 DEF SetTrap, Launch, StartAutosave, StartCat, Command
  <2>3. CASE TakeSignal \/ TypeExit \/ Pgrep
    BY <1>2, <2>3 DEF TakeSignal, TypeExit, Pgrep
  <2>4. CASE AutosaveWakes \/ AutosaveTypes \/ PaneEnds \/ Game \/ Terminate
    BY <1>2, <2>4 DEF AutosaveWakes, AutosaveTypes, PaneEnds, Terminate,
      Game, Loads, Plays, Saves, SavesAndExits, Crashes
  <2>5. CASE UNCHANGED vars
    BY <1>2, <2>5 DEF vars
  <2> QED
    BY <1>1, <2>1, <2>2, <2>3, <2>4, <2>5 DEF Next, Script

(* Appending one of S to a sequence over S leaves it a sequence over S. *)
LEMMA AppendRange ==
  ASSUME NEW T, NEW S, NEW done \in Seq(T), NEW x \in S \cap T, Range(done) \subseteq S
  PROVE  Range(Append(done, x)) \subseteq S
BY DEF Range

LEMMA CachedOnlyStep == Shapes /\ CachedOnly /\ [Next]_vars => CachedOnly'
<1> SUFFICES ASSUME Shapes, CachedOnly, Next \/ UNCHANGED vars,
                    pc' \in {"enable", "trap"} \cup Trapping \cup Handler, requested' # <<>>
             PROVE  Range(enabled'.mods) \subseteq cache'
  BY DEF CachedOnly
<1>1. CASE OpenList
  <2>1. enabled'.mods = <<>>
    BY <1>1 DEF OpenList, Truncated
  <2> QED
    BY <2>1 DEF Range
<1>2. CASE EnableMod
  <2>1. Head(todo) \in cache
    BY <1>2 DEF EnableMod, Ends
  <2>2. /\ enabled' = [enabled EXCEPT !.mods = Append(@, Head(todo))]
        /\ cache' = cache /\ requested' = requested /\ pc = "enable"
    BY <1>2, <2>1 DEF EnableMod
  <2>3. enabled'.mods = Append(enabled.mods, Head(todo)) /\ enabled.mods \in Seq(Mods)
    BY <2>2 DEF Shapes
  <2>4. Range(enabled.mods) \subseteq cache
    BY <2>2 DEF CachedOnly
  <2>5. Head(todo) \in cache \cap Mods
    BY <2>1 DEF Shapes
  <2> QED
    BY <2>2, <2>3, <2>4, <2>5, AppendRange
<1>3. CASE CloseList
  <2>1. enabled'.mods = enabled.mods /\ cache' = cache /\ requested' = requested
    BY <1>3 DEF CloseList, Shapes
  <2> QED
    BY <1>3, <2>1 DEF CloseList, CachedOnly
<1>4. CASE /\ pc \in {"enable", "trap"} \cup Trapping \cup Handler
           /\ UNCHANGED <<cache, enabled, requested>>
  BY <1>4 DEF CachedOnly
<1> QED
  <2>1. CASE Download
    <3>1. requested = <<>> /\ requested' = requested
      BY <2>1 DEF Download
    <3> QED
      BY <3>1
  <2>2. ASSUME WaitReturns \/ Look \/ Kill \/ Restart
        PROVE  FALSE
    BY <2>2 DEF WaitReturns, Look, Kill, Restart, Ends
  <2>3. CASE SetTrap \/ Launch \/ StartAutosave \/ StartCat
    BY <1>4, <2>3 DEF SetTrap, Launch, StartAutosave, StartCat, Command
  <2>4. CASE TakeSignal \/ TypeExit \/ Pgrep
    BY <1>4, <2>4 DEF TakeSignal, TypeExit, Pgrep
  <2>5. CASE AutosaveWakes \/ AutosaveTypes \/ PaneEnds \/ Game \/ Terminate
    BY <1>4, <2>5 DEF AutosaveWakes, AutosaveTypes, PaneEnds, Terminate,
      Game, Loads, Plays, Saves, SavesAndExits, Crashes
  <2>6. CASE UNCHANGED vars
    BY <1>4, <2>6 DEF vars
  <2> QED
    BY <1>1, <1>2, <1>3, <2>1, <2>2, <2>3, <2>4, <2>5, <2>6 DEF Next, Script

LEMMA ModsStep == ModsInv /\ [Next]_vars => ModsInv'
BY TypeParts, StopStep, ListGrowsStep, ListCompleteStep, CachedOnlyStep DEF ModsInv, StopInv

LEMMA InitModsInv == Init => ModsInv
<1>1. Init => ListGrows /\ ListComplete /\ CachedOnly
  BY DEF Init, ListGrows, ListComplete, CachedOnly
<1> QED
  BY <1>1, InitStopInv DEF ModsInv

LEMMA ModsInvFresh == ModsInv => ModsFresh
<1> SUFFICES ASSUME ModsInv, game # "off", requested # <<>>
             PROVE  enabled.closed /\ Range(enabled.mods) = Range(requested) \cap cache
  BY DEF ModsFresh
<1>1. pc \in Trapping \cup Handler
  BY DEF ModsInv, StopInv, GameInPane, NotLaunched, TypeOK
<1>2. enabled = [mods |-> requested, closed |-> TRUE]
  BY <1>1 DEF ModsInv, ListComplete
<1>3. Range(requested) \subseteq cache
  BY <1>1, <1>2 DEF ModsInv, CachedOnly
<1> QED
  BY <1>2, <1>3

LEMMA Invariance == Spec => []ModsInv
BY InitModsInv, ModsStep, PTL DEF Spec

(* Every variable keeps its type, for any mods and requests. *)
THEOREM TypeCorrect == Spec => []TypeOK
<1>1. ModsInv => TypeOK
  BY DEF ModsInv, StopInv
<1> QED
  BY <1>1, Invariance, PTL

(* A container that says "Server stopped." while its world is not saved had  *)
(* its game crash, or found several processes by pgrep.                      *)
THEOREM SavedWhenStopped == Spec => []StopLosesLittle
<1>1. ModsInv => StopLosesLittle
  BY DEF ModsInv, StopInv
<1> QED
  BY <1>1, Invariance, PTL

(* A game runs with exactly those mods its pod asks for that could be        *)
(* downloaded, in a complete list.                                           *)
THEOREM FreshMods == Spec => []ModsFresh
BY ModsInvFresh, Invariance, PTL
===============================================================================
