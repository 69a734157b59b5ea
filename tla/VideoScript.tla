---------------------------- MODULE VideoScript ----------------------------
(***************************************************************************)
(* asura-video-wallpaper (home/programs/scripts/modules/                   *)
(* desktop-helpers.nix) beside vibewall (Apply): a second program that     *)
(* starts and stops mpvpaper and hyprpaper and writes the state file, with *)
(* no lock between the two, and the battery guard, a run of the script     *)
(* that a systemd timer starts again and again.                            *)
(*                                                                         *)
(* Notifications and noctalia's reload of its configuration are left out.  *)
(* As in Apply, the session starts hyprpaper only while neither program is *)
(* at work, and a process that pkill has signalled is gone at once.        *)
(***************************************************************************)
EXTENDS Apply

CONSTANTS
  Users, \* runs of the script by the user, at a time
  Guard, \* the run by the timer, of which there is one at a time
  AllowedOnBattery, \* ASURA_ALLOW_VIDEO_WALLPAPER_ON_BATTERY is 1
  MaxApplies \* bound: operations of vibewall

Scripts == Users \cup {Guard}

ASSUME ScriptsAssumption ==
  /\ Guard \notin Users /\ None \notin Scripts
  /\ AllowedOnBattery \in BOOLEAN
ASSUME AppliesAssumption == MaxApplies \in Nat

VARIABLES
  step,    \* step[s]: where run s of the script is
  video,   \* video[s]: the video it starts
  battery, \* what on_battery says
  apart,   \* history: the run that has had no company so far
  started, \* history: the video started by the last run of all, without company
  applies  \* the operations of vibewall so far

scriptVars == <<step, video>>
videoVars == <<vars, scriptVars, battery, apart, started, applies>>

VideoInit == /\ Init
             /\ step = [s \in Scripts |-> "idle"]
             /\ video = [s \in Scripts |-> None]
             /\ battery \in BOOLEAN
             /\ apart = {}
             /\ started = None
             /\ applies = 0

StepTo(s, from, to) == step[s] = from /\ step' = [step EXCEPT ![s] = to]
ScriptEnds(s) == /\ step' = [step EXCEPT ![s] = "idle"]
                 /\ video' = [video EXCEPT ![s] = None]

KeepVibewall == UNCHANGED <<pc, job, key, settings, image, orphans, present, historyVars,
                            applies>>
KeepScreen == UNCHANGED screenVars
KeepHistory == UNCHANGED <<apart, started>>

\* Run s begins, at step `at`, with video w.
Starts(s, at, w) == /\ StepTo(s, "idle", at)
                    /\ video' = [video EXCEPT ![s] = w]
                    /\ apart' = IF Quiet /\ \A r \in Scripts : step[r] = "idle"
                                THEN {s} ELSE {}
                    /\ started' = None
                    /\ KeepVibewall /\ KeepScreen /\ UNCHANGED battery

-----------------------------------------------------------------------------
(* Bugs the properties are tried against.                                  *)

\* The videos that are shown already are left.
BugKillMpvpaper(s) == /\ StepTo(s, "killMpvpaper", "killHyprpaper")
                      /\ UNCHANGED <<video, battery, mpv, hyprpaper, stateFile>>
                      /\ KeepVibewall /\ KeepHistory

\* hyprpaper is left up.
BugAfterMpvpaper == "exec"

\* The guard looks for a mains that is on.
BugMustSuspend == ~battery

-----------------------------------------------------------------------------
(* What the script is asked for.                                           *)

\* A path, or what find_video finds; None for a path of nothing and for no video.
Pick(s) == \E w \in Videos \cup {None} : Starts(s, "chosen", w)

\* --restore, without a state file nothing is to be done.
ScriptRestore(s) == stateFile # None /\ Starts(s, "chosen", stateFile)

\* --stop and --suspend, and the timer's --battery-guard.
Stop(s) == Starts(s, "stop", None)
SuspendNow(s) == Starts(s, "suspend", None)
GuardStarts == Starts(Guard, "look", None)

-----------------------------------------------------------------------------
(* Its steps.                                                              *)

\* The file is looked at, then the power supplies.
Unavailable(s) == /\ step[s] = "chosen"
                  /\ video[s] \notin present
                  /\ ScriptEnds(s)
                  /\ UNCHANGED <<battery, mpv, hyprpaper, stateFile>>
                  /\ KeepVibewall /\ KeepHistory

OnBattery == battery /\ ~AllowedOnBattery

Decide(s) == /\ StepTo(s, "chosen", IF OnBattery THEN "suspend" ELSE "write")
             /\ video[s] \in present
             /\ UNCHANGED <<video, battery, mpv, hyprpaper, stateFile>>
             /\ KeepVibewall /\ KeepHistory

WriteState(s) == /\ StepTo(s, "write", "killMpvpaper")
                 /\ stateFile' = video[s]
                 /\ UNCHANGED <<video, battery, mpv, hyprpaper>>
                 /\ KeepVibewall /\ KeepHistory

AfterMpvpaper == "killHyprpaper"

KillMpvpaper(s) == /\ StepTo(s, "killMpvpaper", AfterMpvpaper)
                   /\ mpv' = {}
                   /\ UNCHANGED <<video, battery, hyprpaper, stateFile>>
                   /\ KeepVibewall /\ KeepHistory

KillHyprpaper(s) == /\ StepTo(s, "killHyprpaper", "exec")
                    /\ hyprpaper' = FALSE
                    /\ UNCHANGED <<video, battery, mpv, stateFile>>
                    /\ KeepVibewall /\ KeepHistory

\* The script becomes mpvpaper.
Exec(s) == /\ step[s] = "exec"
           /\ ScriptEnds(s)
           /\ mpv' = mpv \cup {video[s]}
           /\ started' = IF s \in apart THEN video[s] ELSE None
           /\ apart' = {}
           /\ UNCHANGED <<battery, hyprpaper, stateFile>>
           /\ KeepVibewall

\* --stop kills the videos and removes the state file.
StopKills(s) == /\ StepTo(s, "stop", "forget")
                /\ mpv' = {}
                /\ UNCHANGED <<video, battery, hyprpaper, stateFile>>
                /\ KeepVibewall /\ KeepHistory

Forget(s) == /\ step[s] = "forget"
             /\ ScriptEnds(s)
             /\ stateFile' = None
             /\ UNCHANGED <<battery, mpv, hyprpaper>>
             /\ KeepVibewall /\ KeepHistory

\* The guard looks at the power supplies.
MustSuspend == battery

Look(s) == /\ step[s] = "look"
           /\ IF MustSuspend
              THEN step' = [step EXCEPT ![s] = "suspend"] /\ UNCHANGED video
              ELSE ScriptEnds(s)
           /\ UNCHANGED <<battery, mpv, hyprpaper, stateFile>>
           /\ KeepVibewall /\ KeepHistory

\* --suspend, the guard and a start on battery: the state file stays.
Suspend(s) == /\ step[s] = "suspend"
              /\ ScriptEnds(s)
              /\ mpv' = {}
              /\ UNCHANGED <<battery, hyprpaper, stateFile>>
              /\ KeepVibewall /\ KeepHistory

-----------------------------------------------------------------------------
(* The rest of the system.                                                 *)

ScriptKilled(s) == /\ step[s] # "idle"
                   /\ ScriptEnds(s)
                   /\ UNCHANGED <<battery, mpv, hyprpaper, stateFile>>
                   /\ KeepVibewall /\ KeepHistory

\* The charger is plugged in or out.
Power == /\ battery' = ~battery
         /\ UNCHANGED <<vars, scriptVars, applies>> /\ KeepHistory

\* A new operation of vibewall is company for every run of the script.
Vibewall(a) == /\ ApplierStep(a) \/ Killed(a)
               /\ UNCHANGED <<scriptVars, battery>>
               /\ IF pc[a] # "idle" THEN KeepHistory /\ UNCHANGED applies
                  ELSE /\ applies < MaxApplies
                       /\ applies' = applies + 1
                       /\ apart' = {} /\ started' = None

Session == /\ \/ \E j \in orphans : OrphanEnds(j)
              \/ (\A s \in Scripts : step[s] = "idle") /\ HyprpaperStarts
           /\ UNCHANGED <<scriptVars, battery, apart, applies>>
           /\ started' = IF hyprpaper' # hyprpaper THEN None ELSE started

UserRuns(s) == \/ Pick(s) \/ ScriptRestore(s) \/ Stop(s) \/ SuspendNow(s)
               \/ Unavailable(s) \/ Decide(s) \/ WriteState(s) \/ KillMpvpaper(s)
               \/ KillHyprpaper(s) \/ Exec(s) \/ StopKills(s) \/ Forget(s)

GuardRuns == GuardStarts \/ Look(Guard) \/ Suspend(Guard)

VideoNext == \/ \E s \in Users : UserRuns(s) \/ Suspend(s) \/ ScriptKilled(s)
             \/ GuardRuns \/ Power \/ Session
             \/ \E a \in Appliers : Vibewall(a)

VideoSpec == VideoInit /\ [][VideoNext]_videoVars

\* The timer starts the guard again and again, and the guard goes on.
Fairness == WF_videoVars(GuardRuns)

FairVideoSpec == VideoSpec /\ Fairness

-----------------------------------------------------------------------------
(* Properties, with VideoStartsWithoutHyprpaper of Apply.                  *)

\* A start of the script without company leaves its video alone on the screen,
\* without hyprpaper and named by the state file, whatever applies, stops and
\* suspensions of both programs had run into each other before.
SoloStartHeals ==
  started # None => mpv = {started} /\ ~hyprpaper /\ stateFile = started

\* On battery every video is suspended some time, the ones vibewall starts too and
\* those whose start has begun on mains (docs/VALIDATION.md:132).
VideoEndsOnBattery == battery /\ mpv # {} ~> ~battery \/ mpv = {}
=============================================================================
