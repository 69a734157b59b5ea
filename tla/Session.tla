------------------------------ MODULE Session ------------------------------
(***************************************************************************)
(* The session: vibewall-daemon with its picker (SinglePicker, what Daemon *)
(* implements) and the wallpapers that the daemon, the picker and others   *)
(* apply (Apply).  The daemon applies while it serves nothing else; the    *)
(* picker applies while it is on the screen and can be killed by a close   *)
(* in the middle; the command line and pickers of other parents apply at   *)
(* any time.                                                               *)
(***************************************************************************)
EXTENDS Apply

CONSTANTS
  Daemon, Picker, Cli, \* the appliers: the daemon, its picker, anybody else
  MaxActive            \* bound: processes that apply at a time

ASSUME AppliersAssumption ==
  /\ Appliers = {Daemon, Picker, Cli}
  /\ Daemon # Picker /\ Daemon # Cli /\ Picker # Cli
ASSUME ActiveAssumption == MaxActive \in 1..3

VARIABLES
  shown,  \* the pickers of the daemon
  phase,  \* what the daemon does
  outside \* history: others applied, or a backend went on by itself, beside the restore

sessionVars == <<vars, shown, phase, outside>>

Single == INSTANCE SinglePicker WITH Pids <- {Picker}

SessionInit == Init /\ Single!Init /\ outside = FALSE

Busy(a) == pc[a] # "idle"
Active == {a \in Appliers : Busy(a)}
MayBegin == Cardinality(Active) < MaxActive

Serves == phase = "serving" /\ ~Busy(Daemon)

KeepWallpaper == UNCHANGED vars
KeepPicker == UNCHANGED <<shown, phase>>

\* open_picker and the beginning of close_picker.
Open == Serves /\ Single!Open /\ KeepWallpaper /\ UNCHANGED outside
BeginClose == Serves /\ Single!BeginClose /\ shown' = shown /\ KeepWallpaper /\ UNCHANGED outside

\* The user leaves the picker; or it is closed, or ends of an exception, whatever
\* it is doing.
PickerLeaves == Single!Exit /\ ~Busy(Picker) /\ KeepWallpaper /\ UNCHANGED outside
PickerKilled == Single!Exit /\ Killed(Picker) /\ UNCHANGED outside

\* close_picker is done, and the last wallpaper is restored.
FinishClose == /\ MayBegin
               /\ Single!FinishClose
               /\ Restore(Daemon) \/ (settings.path = None /\ KeepWallpaper)
               /\ outside' = (orphans # {} \/ Busy(Cli))
Restored == ~Busy(Daemon) /\ Single!Restored /\ KeepWallpaper /\ outside' = FALSE

\* The commands restore and random, and the restore after the picker's own exit.
DaemonApplies == /\ Serves
                 /\ MayBegin
                 /\ Restore(Daemon) \/ ApplyRow(Daemon)
                 /\ KeepPicker /\ UNCHANGED outside

\* apply_selected and apply_random of the picker, and a picture of the web that it
\* has downloaded.
ApplyDownloaded(a) == \E w \in Images :
  Begin(a, [path |-> w, type |-> "image", monitor |-> NoMonitor], "resolve")

PickerApplies == /\ shown # {}
                 /\ MayBegin
                 /\ ApplyRow(Picker) \/ ApplyDownloaded(Picker)
                 /\ KeepPicker /\ UNCHANGED outside

CliApplies == /\ MayBegin
              /\ ApplyPath(Cli) \/ ApplyRow(Cli) \/ Restore(Cli)
              /\ KeepPicker
              /\ outside' = (phase = "restoring")

\* Every applier goes on by itself; the command line can be killed.
Proceed(a) ==
  /\ \/ ReadType(a) \/ ReadMonitor(a) \/ Resolve(a) \/ Check(a) \/ Missing(a)
     \/ StopVideo(a) \/ DropState(a) \/ StopStatic(a) \/ Launch(a)
     \/ BackendOk(a) \/ BackendFails(a) \/ Remember(a) \/ Persist(a)
  /\ KeepPicker /\ UNCHANGED outside

CliKilled == Killed(Cli) /\ KeepPicker /\ UNCHANGED outside

\* The daemon dies, in the middle of a restore too; its picker has died before.
Crash == /\ ~Busy(Picker)
         /\ Single!Crash
         /\ outside' = FALSE
         /\ IF Busy(Daemon) THEN Killed(Daemon) ELSE KeepWallpaper

Others == /\ \/ \E j \in orphans : OrphanEnds(j)
             \/ HyprpaperStarts
          /\ KeepPicker /\ UNCHANGED outside

SessionNext ==
  \/ Open \/ BeginClose \/ PickerLeaves \/ PickerKilled \/ FinishClose \/ Restored
  \/ DaemonApplies \/ PickerApplies \/ CliApplies \/ CliKilled \/ Crash \/ Others
  \/ \E a \in Appliers : Proceed(a)

SessionSpec == SessionInit /\ [][SessionNext]_sessionVars

-----------------------------------------------------------------------------
(* Properties, with SoloApplyHeals of Apply.                               *)

\* The restore that ends a close is not disturbed by the picker that was closed:
\* unless the command line applies too, or a backend is still going on by itself,
\* it runs alone, and SoloApplyHeals says what it leaves.
CloseRestoresAlone ==
  phase = "restoring" /\ Busy(Daemon) /\ ~outside => alone = {Daemon}
=============================================================================
