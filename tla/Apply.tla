------------------------------- MODULE Apply -------------------------------
(***************************************************************************)
(* Applying and restoring a wallpaper (core/wallpaper_apply.cpp).  The     *)
(* daemon, the picker and the command line each link this code and run it  *)
(* in a process of their own, on one settings table and one screen, with   *)
(* no lock between them; any of them can be killed between two steps (the  *)
(* daemon itself does this to a picker that is applying).                  *)
(*                                                                         *)
(* A job is what is being applied: [path, type, monitor].  The backend is  *)
(* a child process: when the process that waits for it is killed, it runs  *)
(* on and is an orphan.                                                    *)
(***************************************************************************)
EXTENDS Naturals, Sequences, FiniteSets

CONSTANTS
  Appliers,   \* processes that apply wallpapers
  Images, Videos,  \* wallpaper files, by what they contain
  Unindexed,  \* the files the database has no row for
  Deletable,  \* the files the user may delete
  Monitors,   \* names of monitors, NoMonitor for the empty string
  NoMonitor,
  MaxOrphans, \* bound: backends that outlive their applier at a time
  None        \* a setting that is not there

Wallpapers == Images \cup Videos
Jobs == [path : Wallpapers, type : {"image", "video"}, monitor : Monitors]

ASSUME KindsAssumption ==
  /\ Images \cap Videos = {}
  /\ None \notin Wallpapers \cup Monitors \cup Jobs \cup {"image", "video"}
ASSUME FilesAssumption == Unindexed \subseteq Wallpapers /\ Deletable \subseteq Wallpapers
ASSUME MonitorAssumption == NoMonitor \in Monitors
ASSUME OrphansAssumption == MaxOrphans \in Nat

VARIABLES
  pc,         \* pc[a]: the step of applier a
  job,        \* job[a]: what a applies, None when it is idle
  key,        \* key[a]: the next setting persist_last writes
  settings,   \* the rows last.* of the settings table
  mpv,        \* the videos mpvpaper processes show
  hyprpaper,  \* hyprpaper is up
  image,      \* the wallpaper the image backend was last told to show
  stateFile,  \* what $XDG_STATE_HOME/asura/video-wallpaper holds
  orphans,    \* jobs of backends whose applier was killed
  present,    \* the files that exist
  worked,     \* history: the paths a backend accepted for a live applier
  alone,      \* history: the applier that has run by itself so far
  solo,       \* history: the job that was applied by itself and is the last
  chosen      \* history: the same, when everything since was a restore

screenVars == <<mpv, hyprpaper, image, stateFile>>
historyVars == <<worked, alone, solo, chosen>>
vars == <<pc, job, key, settings, screenVars, orphans, present, historyVars>>

Keys == <<"path", "type", "monitor", "applied">>
KeyNames == {"path", "type", "monitor", "applied"}

Init == /\ pc = [a \in Appliers |-> "idle"]
        /\ job = [a \in Appliers |-> None]
        /\ key = [a \in Appliers |-> 1]
        /\ settings = [k \in KeyNames |-> None]
        /\ mpv = {}
        /\ hyprpaper = TRUE
        /\ image = None
        /\ stateFile = None
        /\ orphans = {}
        /\ present = Wallpapers
        /\ worked = {}
        /\ alone = {}
        /\ solo = None
        /\ chosen = None

RowType(w) == IF w \in Videos THEN "video" ELSE "image"
Quiet == orphans = {} /\ \A a \in Appliers : pc[a] = "idle"
Or(value, default) == IF value = None THEN default ELSE value

Step(a, from, to) == pc[a] = from /\ pc' = [pc EXCEPT ![a] = to]
Ends(a) == /\ pc' = [pc EXCEPT ![a] = "idle"]
           /\ job' = [job EXCEPT ![a] = None]
           /\ key' = [key EXCEPT ![a] = 1]

-----------------------------------------------------------------------------
(* Bugs the properties are tried against.                                  *)

\* The backend's exit code is ignored.
BugBackendFails(a) == /\ Step(a, "waiting", "persist")
                      /\ UNCHANGED <<job, key, settings, screenVars, orphans, present, historyVars>>

\* An image leaves mpvpaper up.
BugStopVideo(a) == /\ Step(a, "stopVideo", "dropState")
                   /\ mpv' = IF job[a].type = "video" THEN {} ELSE mpv
                   /\ UNCHANGED <<job, key, settings, hyprpaper, image, stateFile,
                                  orphans, present, historyVars>>

\* The row's type is not looked up.
BugTypeOf(j) == j.type

\* The type is not read.
BugReadType(a) == /\ Step(a, "readType", "readMonitor")
                  /\ UNCHANGED <<job, key, settings, screenVars, orphans, present, historyVars>>

\* hyprpaper is left up under a video.
BugAfterStop(a) == "launch"

-----------------------------------------------------------------------------
(* The entry points.                                                       *)

Begin(a, j, at) == /\ Step(a, "idle", at)
                   /\ job' = [job EXCEPT ![a] = j]
                   /\ alone' = IF Quiet THEN {a} ELSE {}
                   /\ solo' = None
                   /\ chosen' = IF at = "readType" THEN chosen ELSE None
                   /\ UNCHANGED <<key, settings, screenVars, orphans, present, worked>>

\* apply_wallpaper with a row of the table: the picker's selection, and
\* apply_random_wallpaper.
ApplyRow(a) == \E w \in Wallpapers \ Unindexed :
  Begin(a, [path |-> w, type |-> RowType(w), monitor |-> NoMonitor], "check")

\* apply_path from the command line: the type is guessed from the extension, in
\* which capital letters make an image of a video.
Guesses(w) == {RowType(w), "image"}

ApplyPath(a) == \E w \in Wallpapers, m \in Monitors : \E t \in Guesses(w) :
  Begin(a, [path |-> w, type |-> t, monitor |-> m], "resolve")

\* restore_last_wallpaper reads last.path; without one there is nothing to do.
Restore(a) ==
  /\ settings.path # None
  /\ Begin(a, [path |-> settings.path, type |-> "image", monitor |-> NoMonitor], "readType")

\* The other settings are read one by one, each with its default.
ReadType(a) == /\ Step(a, "readType", "readMonitor")
               /\ job' = [job EXCEPT ![a].type = Or(settings.type, "image")]
               /\ UNCHANGED <<key, settings, screenVars, orphans, present, historyVars>>

ReadMonitor(a) == /\ Step(a, "readMonitor", "resolve")
                  /\ job' = [job EXCEPT ![a].monitor = Or(settings.monitor, NoMonitor)]
                  /\ UNCHANGED <<key, settings, screenVars, orphans, present, historyVars>>

\* apply_path: a row of the table overrides the type it was given.
TypeOf(j) == IF j.path \in Unindexed THEN j.type ELSE RowType(j.path)

Resolve(a) == /\ Step(a, "resolve", "check")
              /\ job' = [job EXCEPT ![a].type = TypeOf(job[a])]
              /\ UNCHANGED <<key, settings, screenVars, orphans, present, historyVars>>

-----------------------------------------------------------------------------
(* apply_wallpaper.                                                        *)

Check(a) == /\ Step(a, "check", "stopVideo")
            /\ job[a].path \in present
            /\ UNCHANGED <<job, key, settings, screenVars, orphans, present, historyVars>>

Missing(a) == /\ pc[a] = "check"
              /\ job[a].path \notin present
              /\ Ends(a)
              /\ UNCHANGED <<settings, screenVars, orphans, present, historyVars>>

\* The three pkill of stop_video_wallpaper; the last of them counts.
StopVideo(a) == /\ Step(a, "stopVideo", "dropState")
                /\ mpv' = {}
                /\ UNCHANGED <<job, key, settings, hyprpaper, image, stateFile,
                               orphans, present, historyVars>>

AfterStop(a) == IF job[a].type = "video" THEN "stopStatic" ELSE "launch"

\* stop_video_wallpaper removes its state file.
DropState(a) == /\ Step(a, "dropState", AfterStop(a))
                /\ stateFile' = None
                /\ UNCHANGED <<job, key, settings, mpv, hyprpaper, image,
                               orphans, present, historyVars>>

StopStatic(a) == /\ Step(a, "stopStatic", "launch")
                 /\ hyprpaper' = FALSE
                 /\ UNCHANGED <<job, key, settings, mpv, image, stateFile,
                                orphans, present, historyVars>>

Launch(a) == /\ Step(a, "launch", "waiting")
             /\ UNCHANGED <<job, key, settings, screenVars, orphans, present, historyVars>>

\* What the backend of job j does to the screen.
Render(j) == IF j.type = "video" THEN mpv' = mpv \cup {j.path} /\ UNCHANGED image
             ELSE image' = j.path /\ UNCHANGED mpv

AfterBackend(a) == IF job[a].type = "video" THEN "remember" ELSE "persist"

BackendOk(a) == /\ Step(a, "waiting", AfterBackend(a))
                /\ Render(job[a])
                /\ worked' = worked \cup {job[a].path}
                /\ UNCHANGED <<job, key, settings, hyprpaper, stateFile, orphans, present,
                               alone, solo, chosen>>

\* The backend exits with another code: apply_wallpaper gives up.
BackendFails(a) == /\ pc[a] = "waiting"
                   /\ Ends(a)
                   /\ UNCHANGED <<settings, screenVars, orphans, present, historyVars>>

Remember(a) == /\ Step(a, "remember", "persist")
               /\ stateFile' = job[a].path
               /\ UNCHANGED <<job, key, settings, mpv, hyprpaper, image,
                              orphans, present, historyVars>>

\* What persist_last and the write of last.applied_path put under key k.
Value(j, k) == IF k = "type" THEN j.type ELSE IF k = "monitor" THEN j.monitor ELSE j.path
LastKey == Len(Keys)

\* One write, a transaction of its own; the last one ends the operation.
Persist(a) == /\ pc[a] = "persist"
              /\ settings' = [settings EXCEPT ![Keys[key[a]]] = Value(job[a], Keys[key[a]])]
              /\ IF key[a] < LastKey
                 THEN /\ key' = [key EXCEPT ![a] = @ + 1]
                      /\ UNCHANGED <<pc, job, solo, alone, chosen>>
                 ELSE /\ Ends(a)
                      /\ solo' = IF a \in alone THEN job[a] ELSE None
                      /\ chosen' = IF a \in alone THEN job[a] ELSE chosen
                      /\ alone' = {}
              /\ UNCHANGED <<screenVars, orphans, present, worked>>

-----------------------------------------------------------------------------
(* The environment.                                                        *)

\* The process of a is killed, or the database throws; a backend it waits for
\* goes on by itself.
Killed(a) == /\ pc[a] # "idle"
             /\ pc[a] = "waiting" => Cardinality(orphans) < MaxOrphans
             /\ Ends(a)
             /\ orphans' = IF pc[a] = "waiting" THEN orphans \cup {job[a]} ELSE orphans
             /\ UNCHANGED <<settings, screenVars, present, historyVars>>

OrphanEnds(j) == /\ j \in orphans
                 /\ orphans' = orphans \ {j}
                 /\ Render(j) \/ UNCHANGED <<mpv, image>>
                 /\ UNCHANGED <<pc, job, key, settings, hyprpaper, stateFile, present,
                                historyVars>>

\* The session starts hyprpaper while nothing is being applied.  This is assumed of
\* the session: between stop_static_wallpaper_renderer and the end of the backend
\* (wallpaper_apply.cpp:75-78) nothing in the code keeps a service from starting it.
HyprpaperStarts == /\ Quiet
                   /\ hyprpaper' = TRUE
                   /\ solo' = None
                   /\ UNCHANGED <<pc, job, key, settings, mpv, image, stateFile, orphans,
                                  present, worked, alone, chosen>>

FileDeleted(w) == /\ w \in present \cap Deletable
                  /\ present' = present \ {w}
                  /\ UNCHANGED <<pc, job, key, settings, screenVars, orphans, historyVars>>

ApplierStep(a) ==
  \/ ApplyRow(a) \/ ApplyPath(a) \/ Restore(a) \/ ReadType(a) \/ ReadMonitor(a)
  \/ Resolve(a) \/ Check(a) \/ Missing(a) \/ StopVideo(a) \/ DropState(a) \/ StopStatic(a)
  \/ Launch(a) \/ BackendOk(a) \/ BackendFails(a) \/ Remember(a) \/ Persist(a)

Next == \/ \E a \in Appliers : ApplierStep(a) \/ Killed(a)
        \/ \E j \in orphans : OrphanEnds(j)
        \/ HyprpaperStarts
        \/ \E w \in Wallpapers : FileDeleted(w)

Spec == Init /\ [][Next]_vars

-----------------------------------------------------------------------------
(* Properties.                                                             *)

Steps == {"idle", "readType", "readMonitor", "resolve", "check", "stopVideo", "dropState",
          "stopStatic", "launch", "waiting", "remember", "persist"}

TypeOK == /\ pc \in [Appliers -> Steps]
          /\ job \in [Appliers -> Jobs \cup {None}]
          /\ key \in [Appliers -> 1..Len(Keys)]
          /\ settings \in [KeyNames -> Wallpapers \cup Monitors \cup {"image", "video", None}]
          /\ {settings["path"], settings["applied"]} \subseteq Wallpapers \cup {None}
          /\ settings["type"] \in {"image", "video", None}
          /\ settings["monitor"] \in Monitors \cup {None}
          /\ mpv \subseteq Wallpapers
          /\ hyprpaper \in BOOLEAN
          /\ image \in Wallpapers \cup {None}
          /\ stateFile \in Wallpapers \cup {None}
          /\ orphans \subseteq Jobs
          /\ present \subseteq Wallpapers
          /\ worked \subseteq Wallpapers
          /\ alone \subseteq Appliers
          /\ solo \in Jobs \cup {None}
          /\ chosen \in Jobs \cup {None}

SettingsOf(j) == [k \in KeyNames |-> Value(j, k)]

\* An operation that ran by itself to its end leaves the screen and the
\* settings in agreement, whatever earlier operations that overlapped, failed
\* or were killed half way had left: a video runs alone without hyprpaper and
\* its state file names it; an image leaves no mpvpaper and no state file.
SoloApplyHeals ==
  solo # None =>
    /\ settings = SettingsOf(solo)
    /\ IF solo.type = "video"
       THEN mpv = {solo.path} /\ ~hyprpaper /\ stateFile = solo.path
       ELSE mpv = {} /\ image = solo.path /\ stateFile = None

\* However the settings were torn by overlapping or killed writers, a file the
\* database knows is shown by the backend of its own kind.
IndexedFileGetsItsBackend ==
  /\ mpv \ Unindexed \subseteq Videos
  /\ image # None /\ image \notin Unindexed => image \in Images

\* last.path only ever names a file some backend accepted: a failed apply, a
\* kill or a torn write leaves a wallpaper to restore that has worked.
OnlyWorkingFileIsRemembered == settings.path # None => settings.path \in worked

\* What was applied last by itself stays what is remembered, with its backend and
\* its monitor, however many restores follow, overlap, fail or are killed: a
\* restore writes what it has read.
RestoresKeepTheChoice == chosen # None => settings = SettingsOf(chosen)

\* Every way to start a video stops hyprpaper before (docs/VALIDATION.md:133), so that
\* it is not up when mpvpaper starts, also from a backend that outlives its applier.
\* This rests on two assumptions: the session starts hyprpaper only while nothing is
\* being applied (HyprpaperStarts), and what pkill has signalled is gone at once,
\* although pkill does not wait for it.
VideoStartsWithoutHyprpaper == [][\A w \in mpv' \ mpv : ~hyprpaper]_vars
=============================================================================
