----------------------------- MODULE ApplyProof -----------------------------
(***************************************************************************)
(* Proofs about Apply, for every set of appliers, files and monitors, and  *)
(* about the two specifications composed with it: VideoScript, for every   *)
(* number of runs of both programs and of operations of vibewall, and      *)
(* Session.                                                                *)
(***************************************************************************)
EXTENDS VideoScript, Session, TLAPS

-----------------------------------------------------------------------------
(* Apply.                                                                  *)

\* An applier that is not idle has a job; it writes settings in its last step alone.
BusyInv == \A a \in Appliers : /\ pc[a] # "idle" => job[a] \in Jobs
                               /\ pc[a] # "persist" => key[a] = 1
                               /\ pc[a] \in {"stopStatic", "remember"} => job[a].type = "video"

\* A job of an indexed file has the type of its row, once apply_path has looked.
Fits(j) == j.path \notin Unindexed => j.type = RowType(j.path)
Unresolved == {"idle", "readType", "readMonitor", "resolve"}
KindInv == /\ \A a \in Appliers : pc[a] \notin Unresolved => Fits(job[a])
           /\ \A j \in orphans : Fits(j)
           /\ IndexedFileGetsItsBackend

\* Only what a backend has accepted reaches the settings.
WorkedInv == /\ \A a \in Appliers : pc[a] \in {"remember", "persist"} => job[a].path \in worked
             /\ OnlyWorkingFileIsRemembered

\* What an applier that runs by itself has established so far, step by step.
Written(a) == /\ key[a] > 1 => settings["path"] = job[a].path
              /\ key[a] > 2 => settings["type"] = job[a].type
              /\ key[a] > 3 => settings["monitor"] = job[a].monitor
ByItself(a) ==
  /\ orphans = {} /\ solo = None
  /\ \A b \in Appliers \ {a} : pc[b] = "idle"
Cleared(a) ==
  /\ pc[a] \in {"dropState", "stopStatic", "launch", "waiting"} => mpv = {}
  /\ pc[a] \in {"stopStatic", "launch", "waiting"} => stateFile = None
  /\ pc[a] \in {"launch", "waiting", "remember", "persist"} /\ job[a].type = "video" => ~hyprpaper
Shown(a) ==
  /\ pc[a] \in {"remember", "persist"} /\ job[a].type = "video" => mpv = {job[a].path}
  /\ pc[a] = "persist" /\ job[a].type = "video" => stateFile = job[a].path
  /\ pc[a] = "persist" /\ job[a].type # "video" =>
       mpv = {} /\ image = job[a].path /\ stateFile = None
AloneInv == \A a \in alone : pc[a] # "idle" => ByItself(a) /\ Cleared(a) /\ Shown(a) /\ Written(a)

\* What an applier by itself has left stays until the next one begins.
SoloInv == (solo # None => Quiet) /\ SoloApplyHeals

\* Every applier at work is a restore that has read what was chosen.
ChoiceInv ==
  chosen # None =>
    /\ chosen \in Jobs /\ Fits(chosen)
    /\ settings = SettingsOf(chosen)
    /\ \A a \in Appliers :
         /\ pc[a] # "idle" => job[a].path = chosen.path
         /\ pc[a] \notin {"idle", "readType"} => job[a].type = chosen.type
         /\ pc[a] \notin {"idle", "readType", "readMonitor"} => job[a].monitor = chosen.monitor

USE KindsAssumption, FilesAssumption, MonitorAssumption
USE DEF vars, historyVars, screenVars, Jobs, Wallpapers, Keys, KeyNames, Step, Ends

\* A file has one of the two types.
LEMMA RowTypeFacts == \A w \in Wallpapers : RowType(w) \in {"image", "video"}
  BY DEF RowType

\* The last write of an applier by itself completes the settings of its job.
LEMMA LastWrite ==
  ASSUME TypeOK, BusyInv, AloneInv, NEW a \in Appliers, Persist(a), ~(key[a] < LastKey), a \in alone
  PROVE  /\ settings' = SettingsOf(job[a]) /\ job[a] \in Jobs
         /\ orphans = {} /\ \A b \in Appliers \ {a} : pc[b] = "idle"
         /\ \A b \in Appliers : pc'[b] = "idle"
  <1> USE DEF TypeOK, BusyInv, Steps
  <1>1. key[a] = 4
    BY DEF LastKey
  <1>2. /\ pc[a] = "persist" /\ settings' = [settings EXCEPT !["applied"] = job[a].path]
        /\ pc' = [pc EXCEPT ![a] = "idle"]
    BY <1>1 DEF Persist, LastKey, Value
  <1>3. /\ settings["path"] = job[a].path /\ settings["type"] = job[a].type
        /\ settings["monitor"] = job[a].monitor
        /\ orphans = {} /\ \A b \in Appliers \ {a} : pc[b] = "idle"
    BY <1>1, <1>2 DEF AloneInv, ByItself, Written
  <1>4. settings = [k \in KeyNames |-> settings[k]]
    OBVIOUS
  <1>5. settings' = [k \in KeyNames |-> IF k = "applied" THEN job[a].path ELSE settings[k]]
    BY <1>2, <1>4
  <1>6. \A k \in KeyNames : (IF k = "applied" THEN job[a].path ELSE settings[k]) = Value(job[a], k)
    BY <1>3 DEF Value
  <1>7. settings' = SettingsOf(job[a])
    BY <1>5, <1>6 DEF SettingsOf
  <1> QED
    BY <1>2, <1>3, <1>7

\* Every step of an applier and of the rest of the session keeps the types.
LEMMA StepTypeOK == TypeOK /\ BusyInv /\ [Next]_vars => TypeOK'
  <1> SUFFICES ASSUME TypeOK, BusyInv, [Next]_vars PROVE TypeOK'
    OBVIOUS
  <1> USE DEF TypeOK, BusyInv, Steps
  <1>1. ASSUME NEW a \in Appliers, ApplyRow(a) PROVE TypeOK'
    BY <1>1, RowTypeFacts DEF ApplyRow, Begin
  <1>2. ASSUME NEW a \in Appliers, ApplyPath(a) PROVE TypeOK'
    BY <1>2, RowTypeFacts DEF ApplyPath, Guesses, Begin
  <1>3. ASSUME NEW a \in Appliers, Restore(a) PROVE TypeOK'
    BY <1>3 DEF Restore, Begin
  <1>4. ASSUME NEW a \in Appliers, ReadType(a) PROVE TypeOK'
    BY <1>4 DEF ReadType, Or
  <1>5. ASSUME NEW a \in Appliers, ReadMonitor(a) PROVE TypeOK'
    BY <1>5 DEF ReadMonitor, Or
  <1>6. ASSUME NEW a \in Appliers, Resolve(a) PROVE TypeOK'
    BY <1>6, RowTypeFacts DEF Resolve, TypeOf
  <1>7. ASSUME NEW a \in Appliers, Check(a) PROVE TypeOK'
    BY <1>7 DEF Check
  <1>8. ASSUME NEW a \in Appliers, Missing(a) PROVE TypeOK'
    BY <1>8 DEF Missing
  <1>9. ASSUME NEW a \in Appliers, StopVideo(a) PROVE TypeOK'
    BY <1>9 DEF StopVideo
  <1>10. ASSUME NEW a \in Appliers, DropState(a) PROVE TypeOK'
    BY <1>10 DEF DropState, AfterStop
  <1>11. ASSUME NEW a \in Appliers, StopStatic(a) PROVE TypeOK'
    BY <1>11 DEF StopStatic
  <1>12. ASSUME NEW a \in Appliers, Launch(a) PROVE TypeOK'
    BY <1>12 DEF Launch
  <1>13. ASSUME NEW a \in Appliers, BackendOk(a) PROVE TypeOK'
    BY <1>13 DEF BackendOk, AfterBackend, Render
  <1>14. ASSUME NEW a \in Appliers, BackendFails(a) PROVE TypeOK'
    BY <1>14 DEF BackendFails
  <1>15. ASSUME NEW a \in Appliers, Remember(a) PROVE TypeOK'
    BY <1>15 DEF Remember
  <1>16. ASSUME NEW a \in Appliers, Persist(a) PROVE TypeOK'
    BY <1>16 DEF Persist, Value, LastKey
  <1>17. ASSUME NEW a \in Appliers, Killed(a) PROVE TypeOK'
    BY <1>17 DEF Killed
  <1>18. ASSUME NEW j \in orphans, OrphanEnds(j) PROVE TypeOK'
    BY <1>18 DEF OrphanEnds, Render
  <1>19. CASE HyprpaperStarts
    BY <1>19 DEF HyprpaperStarts
  <1>20. ASSUME NEW w \in Wallpapers, FileDeleted(w) PROVE TypeOK'
    BY <1>20 DEF FileDeleted
  <1>21. CASE UNCHANGED vars
    BY <1>21
  <1> QED
    BY <1>1, <1>2, <1>3, <1>4, <1>5, <1>6, <1>7, <1>8, <1>9, <1>10, <1>11, <1>12,
       <1>13, <1>14, <1>15, <1>16, <1>17, <1>18, <1>19, <1>20, <1>21 DEF Next, ApplierStep

\* A job is there from the first step of an applier to its last.
LEMMA StepBusy == TypeOK /\ BusyInv /\ [Next]_vars => BusyInv'
  <1> SUFFICES ASSUME TypeOK, BusyInv, [Next]_vars PROVE BusyInv'
    OBVIOUS
  <1> USE DEF TypeOK, BusyInv, Steps
  <1>1. ASSUME NEW a \in Appliers, ApplyRow(a) PROVE BusyInv'
    BY <1>1, RowTypeFacts DEF ApplyRow, Begin
  <1>2. ASSUME NEW a \in Appliers, ApplyPath(a) PROVE BusyInv'
    BY <1>2, RowTypeFacts DEF ApplyPath, Guesses, Begin
  <1>3. ASSUME NEW a \in Appliers, Restore(a) PROVE BusyInv'
    BY <1>3 DEF Restore, Begin
  <1>4. ASSUME NEW a \in Appliers, ReadType(a) PROVE BusyInv'
    BY <1>4 DEF ReadType, Or
  <1>5. ASSUME NEW a \in Appliers, ReadMonitor(a) PROVE BusyInv'
    BY <1>5 DEF ReadMonitor, Or
  <1>6. ASSUME NEW a \in Appliers, Resolve(a) PROVE BusyInv'
    BY <1>6, RowTypeFacts DEF Resolve, TypeOf
  <1>7. ASSUME NEW a \in Appliers, Check(a) PROVE BusyInv'
    BY <1>7 DEF Check
  <1>8. ASSUME NEW a \in Appliers, Missing(a) PROVE BusyInv'
    BY <1>8 DEF Missing
  <1>9. ASSUME NEW a \in Appliers, StopVideo(a) PROVE BusyInv'
    BY <1>9 DEF StopVideo
  <1>10. ASSUME NEW a \in Appliers, DropState(a) PROVE BusyInv'
    BY <1>10 DEF DropState, AfterStop
  <1>11. ASSUME NEW a \in Appliers, StopStatic(a) PROVE BusyInv'
    BY <1>11 DEF StopStatic
  <1>12. ASSUME NEW a \in Appliers, Launch(a) PROVE BusyInv'
    BY <1>12 DEF Launch
  <1>13. ASSUME NEW a \in Appliers, BackendOk(a) PROVE BusyInv'
    BY <1>13 DEF BackendOk, AfterBackend, Render
  <1>14. ASSUME NEW a \in Appliers, BackendFails(a) PROVE BusyInv'
    BY <1>14 DEF BackendFails
  <1>15. ASSUME NEW a \in Appliers, Remember(a) PROVE BusyInv'
    BY <1>15 DEF Remember
  <1>16. ASSUME NEW a \in Appliers, Persist(a) PROVE BusyInv'
    BY <1>16 DEF Persist, Value, LastKey
  <1>17. ASSUME NEW a \in Appliers, Killed(a) PROVE BusyInv'
    BY <1>17 DEF Killed
  <1>18. ASSUME NEW j \in orphans, OrphanEnds(j) PROVE BusyInv'
    BY <1>18 DEF OrphanEnds, Render
  <1>19. CASE HyprpaperStarts
    BY <1>19 DEF HyprpaperStarts
  <1>20. ASSUME NEW w \in Wallpapers, FileDeleted(w) PROVE BusyInv'
    BY <1>20 DEF FileDeleted
  <1>21. CASE UNCHANGED vars
    BY <1>21
  <1> QED
    BY <1>1, <1>2, <1>3, <1>4, <1>5, <1>6, <1>7, <1>8, <1>9, <1>10, <1>11, <1>12,
       <1>13, <1>14, <1>15, <1>16, <1>17, <1>18, <1>19, <1>20, <1>21 DEF Next, ApplierStep

\* apply_path looks the row up before any backend, so that torn settings do not matter.
LEMMA StepKind == TypeOK /\ BusyInv /\ KindInv /\ [Next]_vars => KindInv'
  <1> SUFFICES ASSUME TypeOK, BusyInv, KindInv, [Next]_vars PROVE KindInv'
    OBVIOUS
  <1> USE DEF TypeOK, BusyInv, KindInv, Steps, Fits, Unresolved, IndexedFileGetsItsBackend
  <1>1. ASSUME NEW a \in Appliers, ApplyRow(a) PROVE KindInv'
    BY <1>1, RowTypeFacts DEF ApplyRow, Begin
  <1>2. ASSUME NEW a \in Appliers, ApplyPath(a) PROVE KindInv'
    BY <1>2, RowTypeFacts DEF ApplyPath, Guesses, Begin
  <1>3. ASSUME NEW a \in Appliers, Restore(a) PROVE KindInv'
    BY <1>3 DEF Restore, Begin
  <1>4. ASSUME NEW a \in Appliers, ReadType(a) PROVE KindInv'
    BY <1>4 DEF ReadType, Or
  <1>5. ASSUME NEW a \in Appliers, ReadMonitor(a) PROVE KindInv'
    BY <1>5 DEF ReadMonitor, Or
  <1>6. ASSUME NEW a \in Appliers, Resolve(a) PROVE KindInv'
    BY <1>6, RowTypeFacts DEF Resolve, TypeOf
  <1>7. ASSUME NEW a \in Appliers, Check(a) PROVE KindInv'
    BY <1>7 DEF Check
  <1>8. ASSUME NEW a \in Appliers, Missing(a) PROVE KindInv'
    BY <1>8 DEF Missing
  <1>9. ASSUME NEW a \in Appliers, StopVideo(a) PROVE KindInv'
    BY <1>9 DEF StopVideo
  <1>10. ASSUME NEW a \in Appliers, DropState(a) PROVE KindInv'
    BY <1>10 DEF DropState, AfterStop
  <1>11. ASSUME NEW a \in Appliers, StopStatic(a) PROVE KindInv'
    BY <1>11 DEF StopStatic
  <1>12. ASSUME NEW a \in Appliers, Launch(a) PROVE KindInv'
    BY <1>12 DEF Launch
  <1>13. ASSUME NEW a \in Appliers, BackendOk(a) PROVE KindInv'
    BY <1>13 DEF BackendOk, AfterBackend, Render, RowType
  <1>14. ASSUME NEW a \in Appliers, BackendFails(a) PROVE KindInv'
    BY <1>14 DEF BackendFails
  <1>15. ASSUME NEW a \in Appliers, Remember(a) PROVE KindInv'
    BY <1>15 DEF Remember
  <1>16. ASSUME NEW a \in Appliers, Persist(a) PROVE KindInv'
    BY <1>16 DEF Persist, Value, LastKey
  <1>17. ASSUME NEW a \in Appliers, Killed(a) PROVE KindInv'
    BY <1>17 DEF Killed
  <1>18. ASSUME NEW j \in orphans, OrphanEnds(j) PROVE KindInv'
    BY <1>18 DEF OrphanEnds, Render, RowType
  <1>19. CASE HyprpaperStarts
    BY <1>19 DEF HyprpaperStarts
  <1>20. ASSUME NEW w \in Wallpapers, FileDeleted(w) PROVE KindInv'
    BY <1>20 DEF FileDeleted
  <1>21. CASE UNCHANGED vars
    BY <1>21
  <1> QED
    BY <1>1, <1>2, <1>3, <1>4, <1>5, <1>6, <1>7, <1>8, <1>9, <1>10, <1>11, <1>12,
       <1>13, <1>14, <1>15, <1>16, <1>17, <1>18, <1>19, <1>20, <1>21 DEF Next, ApplierStep

\* persist_last runs only after the backend's exit code was zero.
LEMMA StepWorked == TypeOK /\ BusyInv /\ WorkedInv /\ [Next]_vars => WorkedInv'
  <1> SUFFICES ASSUME TypeOK, BusyInv, WorkedInv, [Next]_vars PROVE WorkedInv'
    OBVIOUS
  <1> USE DEF TypeOK, BusyInv, WorkedInv, Steps, OnlyWorkingFileIsRemembered
  <1>1. ASSUME NEW a \in Appliers, ApplyRow(a) PROVE WorkedInv'
    BY <1>1 DEF ApplyRow, Begin
  <1>2. ASSUME NEW a \in Appliers, ApplyPath(a) PROVE WorkedInv'
    BY <1>2 DEF ApplyPath, Guesses, Begin
  <1>3. ASSUME NEW a \in Appliers, Restore(a) PROVE WorkedInv'
    BY <1>3 DEF Restore, Begin
  <1>4. ASSUME NEW a \in Appliers, ReadType(a) PROVE WorkedInv'
    BY <1>4 DEF ReadType, Or
  <1>5. ASSUME NEW a \in Appliers, ReadMonitor(a) PROVE WorkedInv'
    BY <1>5 DEF ReadMonitor, Or
  <1>6. ASSUME NEW a \in Appliers, Resolve(a) PROVE WorkedInv'
    BY <1>6 DEF Resolve, TypeOf
  <1>7. ASSUME NEW a \in Appliers, Check(a) PROVE WorkedInv'
    BY <1>7 DEF Check
  <1>8. ASSUME NEW a \in Appliers, Missing(a) PROVE WorkedInv'
    BY <1>8 DEF Missing
  <1>9. ASSUME NEW a \in Appliers, StopVideo(a) PROVE WorkedInv'
    BY <1>9 DEF StopVideo
  <1>10. ASSUME NEW a \in Appliers, DropState(a) PROVE WorkedInv'
    BY <1>10 DEF DropState, AfterStop
  <1>11. ASSUME NEW a \in Appliers, StopStatic(a) PROVE WorkedInv'
    BY <1>11 DEF StopStatic
  <1>12. ASSUME NEW a \in Appliers, Launch(a) PROVE WorkedInv'
    BY <1>12 DEF Launch
  <1>13. ASSUME NEW a \in Appliers, BackendOk(a) PROVE WorkedInv'
    BY <1>13 DEF BackendOk, AfterBackend, Render
  <1>14. ASSUME NEW a \in Appliers, BackendFails(a) PROVE WorkedInv'
    BY <1>14 DEF BackendFails
  <1>15. ASSUME NEW a \in Appliers, Remember(a) PROVE WorkedInv'
    BY <1>15 DEF Remember
  <1>16. ASSUME NEW a \in Appliers, Persist(a) PROVE WorkedInv'
    BY <1>16 DEF Persist, Value, LastKey
  <1>17. ASSUME NEW a \in Appliers, Killed(a) PROVE WorkedInv'
    BY <1>17 DEF Killed
  <1>18. ASSUME NEW j \in orphans, OrphanEnds(j) PROVE WorkedInv'
    BY <1>18 DEF OrphanEnds, Render
  <1>19. CASE HyprpaperStarts
    BY <1>19 DEF HyprpaperStarts
  <1>20. ASSUME NEW w \in Wallpapers, FileDeleted(w) PROVE WorkedInv'
    BY <1>20 DEF FileDeleted
  <1>21. CASE UNCHANGED vars
    BY <1>21
  <1> QED
    BY <1>1, <1>2, <1>3, <1>4, <1>5, <1>6, <1>7, <1>8, <1>9, <1>10, <1>11, <1>12,
       <1>13, <1>14, <1>15, <1>16, <1>17, <1>18, <1>19, <1>20, <1>21 DEF Next, ApplierStep

\* An applier that runs by itself clears the screen, shows its job and writes it down.
LEMMA StepAlone == TypeOK /\ BusyInv /\ AloneInv /\ [Next]_vars => AloneInv'
  <1> SUFFICES ASSUME TypeOK, BusyInv, AloneInv, [Next]_vars PROVE AloneInv'
    OBVIOUS
  <1> USE DEF TypeOK, BusyInv, AloneInv, ByItself, Cleared, Shown, Written, Steps, Quiet
  <1>1. ASSUME NEW a \in Appliers, ApplyRow(a) PROVE AloneInv'
    BY <1>1 DEF ApplyRow, Begin
  <1>2. ASSUME NEW a \in Appliers, ApplyPath(a) PROVE AloneInv'
    BY <1>2 DEF ApplyPath, Guesses, Begin
  <1>3. ASSUME NEW a \in Appliers, Restore(a) PROVE AloneInv'
    BY <1>3 DEF Restore, Begin
  <1>4. ASSUME NEW a \in Appliers, ReadType(a) PROVE AloneInv'
    BY <1>4 DEF ReadType, Or
  <1>5. ASSUME NEW a \in Appliers, ReadMonitor(a) PROVE AloneInv'
    BY <1>5 DEF ReadMonitor, Or
  <1>6. ASSUME NEW a \in Appliers, Resolve(a) PROVE AloneInv'
    BY <1>6 DEF Resolve, TypeOf
  <1>7. ASSUME NEW a \in Appliers, Check(a) PROVE AloneInv'
    BY <1>7 DEF Check
  <1>8. ASSUME NEW a \in Appliers, Missing(a) PROVE AloneInv'
    BY <1>8 DEF Missing
  <1>9. ASSUME NEW a \in Appliers, StopVideo(a) PROVE AloneInv'
    BY <1>9 DEF StopVideo
  <1>10. ASSUME NEW a \in Appliers, DropState(a) PROVE AloneInv'
    BY <1>10 DEF DropState, AfterStop
  <1>11. ASSUME NEW a \in Appliers, StopStatic(a) PROVE AloneInv'
    BY <1>11 DEF StopStatic
  <1>12. ASSUME NEW a \in Appliers, Launch(a) PROVE AloneInv'
    BY <1>12 DEF Launch
  <1>13. ASSUME NEW a \in Appliers, BackendOk(a) PROVE AloneInv'
    BY <1>13 DEF BackendOk, AfterBackend, Render
  <1>14. ASSUME NEW a \in Appliers, BackendFails(a) PROVE AloneInv'
    BY <1>14 DEF BackendFails
  <1>15. ASSUME NEW a \in Appliers, Remember(a) PROVE AloneInv'
    BY <1>15 DEF Remember
  <1>16. ASSUME NEW a \in Appliers, Persist(a) PROVE AloneInv'
    BY <1>16 DEF Persist, Value, LastKey
  <1>17. ASSUME NEW a \in Appliers, Killed(a) PROVE AloneInv'
    BY <1>17 DEF Killed
  <1>18. ASSUME NEW j \in orphans, OrphanEnds(j) PROVE AloneInv'
    BY <1>18 DEF OrphanEnds, Render
  <1>19. CASE HyprpaperStarts
    BY <1>19 DEF HyprpaperStarts
  <1>20. ASSUME NEW w \in Wallpapers, FileDeleted(w) PROVE AloneInv'
    BY <1>20 DEF FileDeleted
  <1>21. CASE UNCHANGED vars
    BY <1>21
  <1> QED
    BY <1>1, <1>2, <1>3, <1>4, <1>5, <1>6, <1>7, <1>8, <1>9, <1>10, <1>11, <1>12,
       <1>13, <1>14, <1>15, <1>16, <1>17, <1>18, <1>19, <1>20, <1>21 DEF Next, ApplierStep

\* The last write of an applier that ran by itself completes what SoloApplyHeals asks.
LEMMA StepSolo == TypeOK /\ BusyInv /\ AloneInv /\ SoloInv /\ [Next]_vars => SoloInv'
  <1> SUFFICES ASSUME TypeOK, BusyInv, AloneInv, SoloInv, [Next]_vars PROVE SoloInv'
    OBVIOUS
  <1> USE DEF TypeOK, BusyInv, SoloInv, SoloApplyHeals, SettingsOf, Value, Steps, Quiet
  <1>1. ASSUME NEW a \in Appliers, ApplyRow(a) PROVE SoloInv'
    BY <1>1 DEF ApplyRow, Begin
  <1>2. ASSUME NEW a \in Appliers, ApplyPath(a) PROVE SoloInv'
    BY <1>2 DEF ApplyPath, Guesses, Begin
  <1>3. ASSUME NEW a \in Appliers, Restore(a) PROVE SoloInv'
    BY <1>3 DEF Restore, Begin
  <1>4. ASSUME NEW a \in Appliers, ReadType(a) PROVE SoloInv'
    BY <1>4 DEF ReadType, Or
  <1>5. ASSUME NEW a \in Appliers, ReadMonitor(a) PROVE SoloInv'
    BY <1>5 DEF ReadMonitor, Or
  <1>6. ASSUME NEW a \in Appliers, Resolve(a) PROVE SoloInv'
    BY <1>6 DEF Resolve, TypeOf
  <1>7. ASSUME NEW a \in Appliers, Check(a) PROVE SoloInv'
    BY <1>7 DEF Check
  <1>8. ASSUME NEW a \in Appliers, Missing(a) PROVE SoloInv'
    BY <1>8 DEF Missing
  <1>9. ASSUME NEW a \in Appliers, StopVideo(a) PROVE SoloInv'
    BY <1>9 DEF StopVideo
  <1>10. ASSUME NEW a \in Appliers, DropState(a) PROVE SoloInv'
    BY <1>10 DEF DropState, AfterStop
  <1>11. ASSUME NEW a \in Appliers, StopStatic(a) PROVE SoloInv'
    BY <1>11 DEF StopStatic
  <1>12. ASSUME NEW a \in Appliers, Launch(a) PROVE SoloInv'
    BY <1>12 DEF Launch
  <1>13. ASSUME NEW a \in Appliers, BackendOk(a) PROVE SoloInv'
    BY <1>13 DEF BackendOk, AfterBackend, Render
  <1>14. ASSUME NEW a \in Appliers, BackendFails(a) PROVE SoloInv'
    BY <1>14 DEF BackendFails
  <1>15. ASSUME NEW a \in Appliers, Remember(a) PROVE SoloInv'
    BY <1>15 DEF Remember
  <1>16. ASSUME NEW a \in Appliers, Persist(a) PROVE SoloInv'
    <2>1. CASE key[a] < LastKey
      BY <1>16, <2>1 DEF Persist
    <2>2. CASE ~(key[a] < LastKey) /\ a \notin alone
      BY <1>16, <2>2 DEF Persist
    <2>3. CASE ~(key[a] < LastKey) /\ a \in alone
      <3>1. /\ settings' = SettingsOf(job[a]) /\ orphans = {} /\ job[a] \in Jobs
            /\ \A b \in Appliers : pc'[b] = "idle"
        BY <1>16, <2>3, LastWrite
      <3>2. /\ solo' = job[a] /\ pc[a] = "persist"
            /\ UNCHANGED <<mpv, hyprpaper, image, stateFile, orphans>>
        BY <1>16, <2>3 DEF Persist
      <3>3. Cleared(a) /\ Shown(a)
        BY <2>3, <3>2 DEF AloneInv
      <3>4. IF job[a].type = "video"
            THEN mpv = {job[a].path} /\ ~hyprpaper /\ stateFile = job[a].path
            ELSE mpv = {} /\ image = job[a].path /\ stateFile = None
        BY <3>2, <3>3 DEF Cleared, Shown
      <3> QED
        BY <3>1, <3>2, <3>4
    <2> QED
      BY <2>1, <2>2, <2>3
  <1>17. ASSUME NEW a \in Appliers, Killed(a) PROVE SoloInv'
    BY <1>17 DEF Killed
  <1>18. ASSUME NEW j \in orphans, OrphanEnds(j) PROVE SoloInv'
    BY <1>18 DEF OrphanEnds, Render
  <1>19. CASE HyprpaperStarts
    BY <1>19 DEF HyprpaperStarts
  <1>20. ASSUME NEW w \in Wallpapers, FileDeleted(w) PROVE SoloInv'
    BY <1>20 DEF FileDeleted
  <1>21. CASE UNCHANGED vars
    BY <1>21
  <1> QED
    BY <1>1, <1>2, <1>3, <1>4, <1>5, <1>6, <1>7, <1>8, <1>9, <1>10, <1>11, <1>12,
       <1>13, <1>14, <1>15, <1>16, <1>17, <1>18, <1>19, <1>20, <1>21 DEF Next, ApplierStep

\* A restore writes what it has read.
LEMMA StepChoice == TypeOK /\ BusyInv /\ KindInv /\ AloneInv /\ ChoiceInv /\ [Next]_vars => ChoiceInv'
  <1> SUFFICES ASSUME TypeOK, BusyInv, KindInv, AloneInv, ChoiceInv, [Next]_vars PROVE ChoiceInv'
    OBVIOUS
  <1> USE DEF TypeOK, BusyInv, ChoiceInv, Steps, SettingsOf, Value
  <1>1. ASSUME NEW a \in Appliers, ApplyRow(a) PROVE ChoiceInv'
    BY <1>1 DEF ApplyRow, Begin
  <1>2. ASSUME NEW a \in Appliers, ApplyPath(a) PROVE ChoiceInv'
    BY <1>2 DEF ApplyPath, Guesses, Begin
  <1>3. ASSUME NEW a \in Appliers, Restore(a) PROVE ChoiceInv'
    BY <1>3 DEF Restore, Begin
  <1>4. ASSUME NEW a \in Appliers, ReadType(a) PROVE ChoiceInv'
    BY <1>4 DEF ReadType, Or
  <1>5. ASSUME NEW a \in Appliers, ReadMonitor(a) PROVE ChoiceInv'
    BY <1>5 DEF ReadMonitor, Or
  <1>6. ASSUME NEW a \in Appliers, Resolve(a) PROVE ChoiceInv'
    BY <1>6 DEF Resolve, TypeOf, Fits
  <1>7. ASSUME NEW a \in Appliers, Check(a) PROVE ChoiceInv'
    BY <1>7 DEF Check
  <1>8. ASSUME NEW a \in Appliers, Missing(a) PROVE ChoiceInv'
    BY <1>8 DEF Missing
  <1>9. ASSUME NEW a \in Appliers, StopVideo(a) PROVE ChoiceInv'
    BY <1>9 DEF StopVideo
  <1>10. ASSUME NEW a \in Appliers, DropState(a) PROVE ChoiceInv'
    BY <1>10 DEF DropState, AfterStop
  <1>11. ASSUME NEW a \in Appliers, StopStatic(a) PROVE ChoiceInv'
    BY <1>11 DEF StopStatic
  <1>12. ASSUME NEW a \in Appliers, Launch(a) PROVE ChoiceInv'
    BY <1>12 DEF Launch
  <1>13. ASSUME NEW a \in Appliers, BackendOk(a) PROVE ChoiceInv'
    BY <1>13 DEF BackendOk, AfterBackend, Render
  <1>14. ASSUME NEW a \in Appliers, BackendFails(a) PROVE ChoiceInv'
    BY <1>14 DEF BackendFails
  <1>15. ASSUME NEW a \in Appliers, Remember(a) PROVE ChoiceInv'
    BY <1>15 DEF Remember
  <1>16. ASSUME NEW a \in Appliers, Persist(a) PROVE ChoiceInv'
    <2>0. chosen # None => \A k \in KeyNames : settings[k] = Value(job[a], k)
      BY <1>16 DEF Persist
    <2>1. CASE key[a] < LastKey
      <3>1. chosen' = chosen /\ pc' = pc /\ job' = job
        BY <1>16, <2>1 DEF Persist
      <3>2. chosen # None => settings' = settings
        BY <1>16, <2>0 DEF Persist
      <3> QED
        BY <3>1, <3>2 DEF Fits
    <2>2. CASE ~(key[a] < LastKey) /\ a \notin alone
      <3>1. chosen' = chosen /\ Ends(a)
        BY <1>16, <2>2 DEF Persist
      <3>2. chosen # None => settings' = settings
        BY <1>16, <2>0 DEF Persist
      <3> QED
        BY <3>1, <3>2 DEF Fits
    <2>3. CASE ~(key[a] < LastKey) /\ a \in alone
      <3>1. /\ settings' = SettingsOf(job[a]) /\ job[a] \in Jobs
            /\ \A b \in Appliers : pc'[b] = "idle"
        BY <1>16, <2>3, LastWrite
      <3>2. chosen' = job[a] /\ pc[a] = "persist"
        BY <1>16, <2>3 DEF Persist
      <3>3. Fits(job[a])
        BY <3>2 DEF KindInv, Unresolved
      <3> QED
        BY <3>1, <3>2, <3>3 DEF Fits
    <2> QED
      BY <2>1, <2>2, <2>3
  <1>17. ASSUME NEW a \in Appliers, Killed(a) PROVE ChoiceInv'
    BY <1>17 DEF Killed
  <1>18. ASSUME NEW j \in orphans, OrphanEnds(j) PROVE ChoiceInv'
    BY <1>18 DEF OrphanEnds, Render
  <1>19. CASE HyprpaperStarts
    BY <1>19 DEF HyprpaperStarts
  <1>20. ASSUME NEW w \in Wallpapers, FileDeleted(w) PROVE ChoiceInv'
    BY <1>20 DEF FileDeleted
  <1>21. CASE UNCHANGED vars
    BY <1>21
  <1> QED
    BY <1>1, <1>2, <1>3, <1>4, <1>5, <1>6, <1>7, <1>8, <1>9, <1>10, <1>11, <1>12,
       <1>13, <1>14, <1>15, <1>16, <1>17, <1>18, <1>19, <1>20, <1>21 DEF Next, ApplierStep

IInv == TypeOK /\ BusyInv /\ KindInv /\ WorkedInv /\ AloneInv /\ SoloInv /\ ChoiceInv

\* At the start nothing is set, shown or being applied.
LEMMA InitIInv == Init => IInv
  <1> SUFFICES ASSUME Init PROVE IInv
    OBVIOUS
  <1> USE DEF Init
  <1>1. settings = [k \in KeyNames |-> None]
    OBVIOUS
  <1>2. TypeOK /\ BusyInv
    BY DEF TypeOK, BusyInv, Steps
  <1>3. KindInv
    BY DEF KindInv, Unresolved, IndexedFileGetsItsBackend
  <1>4. WorkedInv
    BY DEF WorkedInv, OnlyWorkingFileIsRemembered
  <1>5. AloneInv /\ SoloInv /\ ChoiceInv
    BY DEF AloneInv, SoloInv, SoloApplyHeals, ChoiceInv
  <1> QED
    BY <1>2, <1>3, <1>4, <1>5 DEF IInv

\* The parts of the invariant are kept together: every step needs the types and
\* who is busy, what is remembered needs what an applier has done by itself.
THEOREM IInvHolds == Spec => []IInv
  <1>1. IInv /\ [Next]_vars => IInv'
    BY StepTypeOK, StepBusy, StepKind, StepWorked, StepAlone, StepSolo, StepChoice DEF IInv
  <1> QED
    BY InitIInv, <1>1, PTL DEF Spec

\* The types of the model hold for every set of appliers, files and monitors.
THEOREM TypeCorrect == Spec => []TypeOK
  <1>1. IInv => TypeOK
    BY DEF IInv
  <1> QED
    BY IInvHolds, <1>1, PTL

\* However many appliers overlap, fail or are killed, a file of the database is
\* shown by the backend of its kind (apply_path's look at the row).
THEOREM IndexedFilesGetTheirBackend == Spec => []IndexedFileGetsItsBackend
  <1>1. IInv => IndexedFileGetsItsBackend
    BY DEF IInv, KindInv
  <1> QED
    BY IInvHolds, <1>1, PTL

\* last.path names only files a backend has accepted (persist_last after the exit
\* code was looked at).
THEOREM OnlyWorkingFilesAreRemembered == Spec => []OnlyWorkingFileIsRemembered
  <1>1. IInv => OnlyWorkingFileIsRemembered
    BY DEF IInv, WorkedInv
  <1> QED
    BY IInvHolds, <1>1, PTL

\* An operation that ran by itself leaves screen, state file and settings in
\* agreement, whatever was there before it (apply_wallpaper and its helpers).
THEOREM SoloApplyAlwaysHeals == Spec => []SoloApplyHeals
  <1>1. IInv => SoloApplyHeals
    BY DEF IInv, SoloInv
  <1> QED
    BY IInvHolds, <1>1, PTL

\* Restores never change what is remembered, however they overlap
\* (restore_last_wallpaper, persist_last).
THEOREM RestoresAlwaysKeepTheChoice == Spec => []RestoresKeepTheChoice
  <1>1. IInv => RestoresKeepTheChoice
    BY DEF IInv, ChoiceInv, RestoresKeepTheChoice
  <1> QED
    BY IInvHolds, <1>1, PTL

-----------------------------------------------------------------------------
(* VideoScript.                                                            *)

ScriptSteps == {"idle", "chosen", "write", "killMpvpaper", "killHyprpaper", "exec", "stop",
                "forget", "look", "suspend"}
Starting == {"write", "killMpvpaper", "killHyprpaper", "exec"}

VideoTypeOK == /\ step \in [Scripts -> ScriptSteps]
               /\ video \in [Scripts -> Wallpapers \cup {None}]
               /\ apart \subseteq Scripts
               /\ \A s \in Scripts : step[s] \in Starting => video[s] \in Wallpapers

\* hyprpaper is down when somebody is about to start a video.
VibewallDown == hyprpaper =>
  /\ \A a \in Appliers : pc[a] \in {"launch", "waiting"} => job[a].type # "video"
  /\ \A j \in orphans : j.type # "video"
ScriptDown == hyprpaper => \A s \in Scripts : step[s] # "exec"

\* What a run without company has done so far.
ApartInv == \A s \in apart : step[s] # "idle" =>
  /\ Quiet /\ started = None
  /\ \A r \in Scripts \ {s} : step[r] = "idle"
  /\ step[s] \in {"killMpvpaper", "killHyprpaper", "exec"} => stateFile = video[s]
  /\ step[s] \in {"killHyprpaper", "exec"} => mpv = {}

StartedInv == started # None => /\ Quiet /\ \A s \in Scripts : step[s] = "idle"
                                /\ SoloStartHeals

ScriptStep(s) ==
  \/ UserRuns(s) \/ Suspend(s) \/ ScriptKilled(s) \/ Look(s) \/ Starts(s, "look", None)

USE KindsAssumption, ScriptsAssumption
USE DEF Wallpapers, KeepVibewall, KeepScreen, KeepHistory, screenVars, historyVars, scriptVars

\* A run of the script keeps the types, and starts no video that is not there.
LEMMA ScriptTypes ==
  ASSUME TypeOK, VideoTypeOK, NEW s \in Scripts, ScriptStep(s)
  PROVE  VideoTypeOK' /\ mpv' \subseteq Wallpapers /\ stateFile' \in Wallpapers \cup {None}
  <1> USE DEF TypeOK, VideoTypeOK, ScriptSteps, Starting, UserRuns
  <1>1. CASE Pick(s)
    BY <1>1 DEF Pick, Starts, StepTo
  <1>2. CASE ScriptRestore(s)
    BY <1>2 DEF ScriptRestore, Starts, StepTo
  <1>3. CASE Stop(s)
    BY <1>3 DEF Stop, Starts, StepTo
  <1>4. CASE SuspendNow(s)
    BY <1>4 DEF SuspendNow, Starts, StepTo
  <1>5. CASE Unavailable(s)
    BY <1>5 DEF Unavailable, ScriptEnds
  <1>6. CASE Decide(s)
    BY <1>6 DEF Decide, StepTo, OnBattery
  <1>7. CASE WriteState(s)
    BY <1>7 DEF WriteState, StepTo
  <1>8. CASE KillMpvpaper(s)
    BY <1>8 DEF KillMpvpaper, StepTo, AfterMpvpaper
  <1>9. CASE KillHyprpaper(s)
    BY <1>9 DEF KillHyprpaper, StepTo
  <1>10. CASE Exec(s)
    BY <1>10 DEF Exec, ScriptEnds
  <1>11. CASE StopKills(s)
    BY <1>11 DEF StopKills, StepTo
  <1>12. CASE Forget(s)
    BY <1>12 DEF Forget, ScriptEnds
  <1>13. CASE Look(s)
    BY <1>13 DEF Look, ScriptEnds
  <1>14. CASE Suspend(s)
    BY <1>14 DEF Suspend, ScriptEnds
  <1>15. CASE ScriptKilled(s)
    BY <1>15 DEF ScriptKilled, ScriptEnds
  <1>16. CASE Starts(s, "look", None)
    BY <1>16 DEF Starts, StepTo
  <1> QED
    BY <1>1, <1>2, <1>3, <1>4, <1>5, <1>6, <1>7, <1>8,
       <1>9, <1>10, <1>11, <1>12, <1>13, <1>14, <1>15, <1>16 DEF ScriptStep

\* The script starts mpvpaper only after it has stopped hyprpaper.
LEMMA ScriptHyprpaper ==
  ASSUME VideoTypeOK, ScriptDown, NEW s \in Scripts, ScriptStep(s)
  PROVE  ScriptDown' /\ (hyprpaper' => hyprpaper) /\ \A w \in mpv' \ mpv : ~hyprpaper
  <1> USE DEF VideoTypeOK, ScriptDown, ScriptSteps, UserRuns
  <1>1. CASE Pick(s)
    BY <1>1 DEF Pick, Starts, StepTo
  <1>2. CASE ScriptRestore(s)
    BY <1>2 DEF ScriptRestore, Starts, StepTo
  <1>3. CASE Stop(s)
    BY <1>3 DEF Stop, Starts, StepTo
  <1>4. CASE SuspendNow(s)
    BY <1>4 DEF SuspendNow, Starts, StepTo
  <1>5. CASE Unavailable(s)
    BY <1>5 DEF Unavailable, ScriptEnds
  <1>6. CASE Decide(s)
    BY <1>6 DEF Decide, StepTo, OnBattery
  <1>7. CASE WriteState(s)
    BY <1>7 DEF WriteState, StepTo
  <1>8. CASE KillMpvpaper(s)
    BY <1>8 DEF KillMpvpaper, StepTo, AfterMpvpaper
  <1>9. CASE KillHyprpaper(s)
    BY <1>9 DEF KillHyprpaper, StepTo
  <1>10. CASE Exec(s)
    BY <1>10 DEF Exec, ScriptEnds
  <1>11. CASE StopKills(s)
    BY <1>11 DEF StopKills, StepTo
  <1>12. CASE Forget(s)
    BY <1>12 DEF Forget, ScriptEnds
  <1>13. CASE Look(s)
    BY <1>13 DEF Look, ScriptEnds
  <1>14. CASE Suspend(s)
    BY <1>14 DEF Suspend, ScriptEnds
  <1>15. CASE ScriptKilled(s)
    BY <1>15 DEF ScriptKilled, ScriptEnds
  <1>16. CASE Starts(s, "look", None)
    BY <1>16 DEF Starts, StepTo
  <1> QED
    BY <1>1, <1>2, <1>3, <1>4, <1>5, <1>6, <1>7, <1>8,
       <1>9, <1>10, <1>11, <1>12, <1>13, <1>14, <1>15, <1>16 DEF ScriptStep

\* A run without company clears the screen before it shows its video.
LEMMA ScriptApart ==
  ASSUME VideoTypeOK, ApartInv, StartedInv, NEW s \in Scripts, ScriptStep(s)
  PROVE  ApartInv'
  <1> USE DEF VideoTypeOK, ApartInv, StartedInv, ScriptSteps, UserRuns, Quiet
  <1>1. CASE Pick(s)
    BY <1>1 DEF Pick, Starts, StepTo
  <1>2. CASE ScriptRestore(s)
    BY <1>2 DEF ScriptRestore, Starts, StepTo
  <1>3. CASE Stop(s)
    BY <1>3 DEF Stop, Starts, StepTo
  <1>4. CASE SuspendNow(s)
    BY <1>4 DEF SuspendNow, Starts, StepTo
  <1>5. CASE Unavailable(s)
    BY <1>5 DEF Unavailable, ScriptEnds
  <1>6. CASE Decide(s)
    BY <1>6 DEF Decide, StepTo, OnBattery
  <1>7. CASE WriteState(s)
    BY <1>7 DEF WriteState, StepTo
  <1>8. CASE KillMpvpaper(s)
    BY <1>8 DEF KillMpvpaper, StepTo, AfterMpvpaper
  <1>9. CASE KillHyprpaper(s)
    BY <1>9 DEF KillHyprpaper, StepTo
  <1>10. CASE Exec(s)
    BY <1>10 DEF Exec, ScriptEnds
  <1>11. CASE StopKills(s)
    BY <1>11 DEF StopKills, StepTo
  <1>12. CASE Forget(s)
    BY <1>12 DEF Forget, ScriptEnds
  <1>13. CASE Look(s)
    BY <1>13 DEF Look, ScriptEnds
  <1>14. CASE Suspend(s)
    BY <1>14 DEF Suspend, ScriptEnds
  <1>15. CASE ScriptKilled(s)
    BY <1>15 DEF ScriptKilled, ScriptEnds
  <1>16. CASE Starts(s, "look", None)
    BY <1>16 DEF Starts, StepTo
  <1> QED
    BY <1>1, <1>2, <1>3, <1>4, <1>5, <1>6, <1>7, <1>8,
       <1>9, <1>10, <1>11, <1>12, <1>13, <1>14, <1>15, <1>16 DEF ScriptStep

\* Its last step leaves what SoloStartHeals asks.
LEMMA ScriptStarted ==
  ASSUME VideoTypeOK, ScriptDown, ApartInv, StartedInv, NEW s \in Scripts, ScriptStep(s)
  PROVE  StartedInv'
  <1> USE DEF VideoTypeOK, StartedInv, SoloStartHeals, ScriptSteps, UserRuns, Quiet
  <1>1. CASE Pick(s)
    BY <1>1 DEF Pick, Starts, StepTo
  <1>2. CASE ScriptRestore(s)
    BY <1>2 DEF ScriptRestore, Starts, StepTo
  <1>3. CASE Stop(s)
    BY <1>3 DEF Stop, Starts, StepTo
  <1>4. CASE SuspendNow(s)
    BY <1>4 DEF SuspendNow, Starts, StepTo
  <1>5. CASE Unavailable(s)
    BY <1>5 DEF Unavailable, ScriptEnds
  <1>6. CASE Decide(s)
    BY <1>6 DEF Decide, StepTo, OnBattery
  <1>7. CASE WriteState(s)
    BY <1>7 DEF WriteState, StepTo
  <1>8. CASE KillMpvpaper(s)
    BY <1>8 DEF KillMpvpaper, StepTo, AfterMpvpaper
  <1>9. CASE KillHyprpaper(s)
    BY <1>9 DEF KillHyprpaper, StepTo
  <1>10. CASE Exec(s)
    BY <1>10 DEF Exec, ScriptEnds, ApartInv, ScriptDown
  <1>11. CASE StopKills(s)
    BY <1>11 DEF StopKills, StepTo
  <1>12. CASE Forget(s)
    BY <1>12 DEF Forget, ScriptEnds
  <1>13. CASE Look(s)
    BY <1>13 DEF Look, ScriptEnds
  <1>14. CASE Suspend(s)
    BY <1>14 DEF Suspend, ScriptEnds
  <1>15. CASE ScriptKilled(s)
    BY <1>15 DEF ScriptKilled, ScriptEnds
  <1>16. CASE Starts(s, "look", None)
    BY <1>16 DEF Starts, StepTo
  <1> QED
    BY <1>1, <1>2, <1>3, <1>4, <1>5, <1>6, <1>7, <1>8,
       <1>9, <1>10, <1>11, <1>12, <1>13, <1>14, <1>15, <1>16 DEF ScriptStep

\* vibewall starts mpvpaper only after it has stopped hyprpaper, and so does a
\* backend whose applier was killed.
LEMMA VibewallHyprpaper ==
  ASSUME TypeOK, BusyInv, VibewallDown, NEW a \in Appliers, ApplierStep(a) \/ Killed(a)
  PROVE  VibewallDown' /\ (hyprpaper' => hyprpaper) /\ \A w \in mpv' \ mpv : ~hyprpaper
  <1> USE DEF TypeOK, BusyInv, VibewallDown, Step, Ends, Steps
  <1>1. CASE ApplyRow(a)
    BY <1>1 DEF ApplyRow, Begin
  <1>2. CASE ApplyPath(a)
    BY <1>2 DEF ApplyPath, Guesses, Begin
  <1>3. CASE Restore(a)
    BY <1>3 DEF Restore, Begin
  <1>4. CASE ReadType(a)
    BY <1>4 DEF ReadType, Or
  <1>5. CASE ReadMonitor(a)
    BY <1>5 DEF ReadMonitor, Or
  <1>6. CASE Resolve(a)
    BY <1>6 DEF Resolve, TypeOf
  <1>7. CASE Check(a)
    BY <1>7 DEF Check
  <1>8. CASE Missing(a)
    BY <1>8 DEF Missing
  <1>9. CASE StopVideo(a)
    BY <1>9 DEF StopVideo
  <1>10. CASE DropState(a)
    BY <1>10 DEF DropState, AfterStop
  <1>11. CASE StopStatic(a)
    BY <1>11 DEF StopStatic
  <1>12. CASE Launch(a)
    BY <1>12 DEF Launch
  <1>13. CASE BackendOk(a)
    BY <1>13 DEF BackendOk, AfterBackend, Render
  <1>14. CASE BackendFails(a)
    BY <1>14 DEF BackendFails
  <1>15. CASE Remember(a)
    BY <1>15 DEF Remember
  <1>16. CASE Persist(a)
    BY <1>16 DEF Persist, Value, LastKey
  <1>17. CASE Killed(a)
    BY <1>17 DEF Killed
  <1> QED
    BY <1>1, <1>2, <1>3, <1>4, <1>5, <1>6, <1>7, <1>8, <1>9,
       <1>10, <1>11, <1>12, <1>13, <1>14, <1>15, <1>16, <1>17 DEF ApplierStep

VInv == /\ TypeOK /\ BusyInv /\ VideoTypeOK
        /\ VibewallDown /\ ScriptDown /\ ApartInv /\ StartedInv

\* At the start neither program is at work.
LEMMA InitVInv == VideoInit => VInv
  <1> SUFFICES ASSUME VideoInit PROVE VInv
    OBVIOUS
  <1>1. TypeOK /\ BusyInv
    BY InitIInv DEF VideoInit, IInv
  <1>2. VideoTypeOK /\ ScriptDown /\ ApartInv /\ StartedInv
    BY DEF VideoInit, VideoTypeOK, ScriptSteps, Starting, ScriptDown, ApartInv, StartedInv
  <1>3. VibewallDown
    BY DEF VideoInit, Init, VibewallDown
  <1> QED
    BY <1>1, <1>2, <1>3 DEF VInv

\* Every step keeps the parts together, and starts no video under hyprpaper.
LEMMA StepVInv ==
  VInv /\ [VideoNext]_videoVars => VInv' /\ \A w \in mpv' \ mpv : ~hyprpaper
  <1> DEFINE Covered == \A w \in mpv' \ mpv : ~hyprpaper
  <1> SUFFICES ASSUME VInv, [VideoNext]_videoVars PROVE VInv' /\ Covered
    OBVIOUS
  <1> USE DEF VInv
  <1>1. ASSUME NEW s \in Scripts, ScriptStep(s) PROVE VInv' /\ Covered
    <2>1. /\ VideoTypeOK' /\ mpv' \subseteq Wallpapers /\ stateFile' \in Wallpapers \cup {None}
          /\ ScriptDown' /\ (hyprpaper' => hyprpaper) /\ Covered
          /\ ApartInv' /\ StartedInv'
      BY <1>1, ScriptTypes, ScriptHyprpaper, ScriptApart, ScriptStarted
    <2>2. UNCHANGED <<pc, job, key, settings, image, orphans, present, historyVars>>
      BY <1>1 DEF ScriptStep, UserRuns, Pick, ScriptRestore, Stop, SuspendNow, Starts, Unavailable,
                  Decide, WriteState, KillMpvpaper, KillHyprpaper, Exec, StopKills, Forget, Look,
                  Suspend, ScriptKilled
    <2>3. hyprpaper' \in BOOLEAN
      BY <1>1 DEF TypeOK, ScriptStep, UserRuns, Pick, ScriptRestore, Stop, SuspendNow, Starts,
                  Unavailable, Decide, WriteState, KillMpvpaper, KillHyprpaper, Exec, StopKills,
                  Forget, Look, Suspend, ScriptKilled
    <2>4. TypeOK'
      BY <2>1, <2>2, <2>3 DEF TypeOK, Steps, Jobs
    <2>5. BusyInv' /\ VibewallDown'
      BY <2>1, <2>2 DEF BusyInv, VibewallDown
    <2> QED
      BY <2>1, <2>4, <2>5
  <1>2. ASSUME NEW a \in Appliers, Vibewall(a) PROVE VInv' /\ Covered
    <2>1. (ApplierStep(a) \/ Killed(a)) /\ UNCHANGED <<step, video>>
      BY <1>2 DEF Vibewall
    <2>2. TypeOK' /\ BusyInv'
      BY <2>1, StepTypeOK, StepBusy DEF Next
    <2>3. VibewallDown' /\ (hyprpaper' => hyprpaper) /\ Covered
      BY <2>1, VibewallHyprpaper
    <2>4. CASE pc[a] # "idle"
      <3>1. apart' = apart /\ started' = started /\ ~Quiet
        BY <1>2, <2>4 DEF Vibewall, Quiet
      <3> QED
        BY <2>1, <2>2, <2>3, <3>1 DEF VideoTypeOK, ScriptDown, ApartInv, StartedInv
    <2>5. CASE pc[a] = "idle"
      <3>1. apart' = {} /\ started' = None
        BY <1>2, <2>5 DEF Vibewall
      <3> QED
        BY <2>1, <2>2, <2>3, <3>1 DEF VideoTypeOK, ScriptDown, ApartInv, StartedInv
    <2> QED
      BY <2>4, <2>5
  <1>3. ASSUME NEW j \in orphans, OrphanEnds(j), UNCHANGED <<scriptVars, battery, apart, applies>>,
               started' = IF hyprpaper' # hyprpaper THEN None ELSE started
        PROVE  VInv' /\ Covered
    <2>1. TypeOK' /\ BusyInv'
      BY <1>3, StepTypeOK, StepBusy DEF Next
    <2>2. hyprpaper' = hyprpaper /\ orphans' \subseteq orphans /\ pc' = pc /\ job' = job
      BY <1>3 DEF OrphanEnds
    <2>3. Covered
      BY <1>3 DEF OrphanEnds, Render, VibewallDown
    <2>4. ~Quiet /\ started' = started
      BY <1>3, <2>2 DEF Quiet
    <2> QED
      BY <1>3, <2>1, <2>2, <2>3, <2>4
      DEF VideoTypeOK, VibewallDown, ScriptDown, ApartInv, StartedInv
  <1>4. ASSUME \A s \in Scripts : step[s] = "idle", HyprpaperStarts,
               UNCHANGED <<scriptVars, battery, apart, applies>>,
               started' = IF hyprpaper' # hyprpaper THEN None ELSE started
        PROVE  VInv' /\ Covered
    <2>1. TypeOK' /\ BusyInv'
      BY <1>4, StepTypeOK, StepBusy DEF Next
    <2>2. /\ \A a \in Appliers : pc'[a] = "idle"
          /\ orphans' = {} /\ hyprpaper' = TRUE /\ mpv' = mpv
      BY <1>4 DEF HyprpaperStarts, Quiet
    <2>3. hyprpaper => started' = started /\ UNCHANGED <<pc, orphans, stateFile, hyprpaper>>
      BY <1>4, <2>2 DEF HyprpaperStarts
    <2>4. ~hyprpaper => started' = None
      BY <1>4, <2>2
    <2>5. StartedInv'
      BY <1>4, <2>2, <2>3, <2>4 DEF StartedInv, SoloStartHeals, Quiet
    <2> QED
      BY <1>4, <2>1, <2>2, <2>5 DEF VideoTypeOK, VibewallDown, ScriptDown, ApartInv
  <1>5. CASE Power
    <2>1. UNCHANGED <<vars, step, video, apart, started>>
      BY <1>5 DEF Power
    <2>2. TypeOK' /\ BusyInv'
      BY <2>1, StepTypeOK, StepBusy
    <2> QED
      BY <2>1, <2>2 DEF vars, VideoTypeOK, VibewallDown, ScriptDown, ApartInv, StartedInv,
                        SoloStartHeals, Quiet
  <1>6. CASE UNCHANGED videoVars
    <2>1. UNCHANGED <<vars, step, video, apart, started>>
      BY <1>6 DEF videoVars
    <2>2. TypeOK' /\ BusyInv'
      BY <2>1, StepTypeOK, StepBusy
    <2> QED
      BY <2>1, <2>2 DEF vars, VideoTypeOK, VibewallDown, ScriptDown, ApartInv, StartedInv,
                        SoloStartHeals, Quiet
  <1>7. CASE VideoNext
    <2>1. \/ \E s \in Scripts : ScriptStep(s)
          \/ \E a \in Appliers : Vibewall(a)
          \/ Session \/ Power
      BY <1>7 DEF VideoNext, GuardRuns, GuardStarts, ScriptStep, Scripts
    <2> QED
      BY <1>1, <1>2, <1>3, <1>4, <1>5, <2>1 DEF Session
  <1> QED
    BY <1>6, <1>7

\* The parts hold throughout, also when vibewall begins any number of operations.
THEOREM VInvHolds == VideoSpec => []VInv
  <1>1. VInv /\ [VideoNext]_videoVars => VInv'
    BY StepVInv
  <1> QED
    BY InitVInv, <1>1, PTL DEF VideoSpec

\* A start of asura-video-wallpaper without company ends with its video alone on
\* the screen, whatever vibewall and the script had left before.
THEOREM SoloStartsHeal == VideoSpec => []SoloStartHeals
  <1>1. VInv => SoloStartHeals
    BY DEF VInv, StartedInv, SoloStartHeals
  <1> QED
    BY VInvHolds, <1>1, PTL

\* hyprpaper is stopped before mpvpaper starts (docs/VALIDATION.md:133), whichever of
\* the two programs starts it, provided that no service starts hyprpaper while either
\* is at work (HyprpaperStarts) and that pkill ends it at once.
THEOREM VideosStartWithoutHyprpaper == VideoSpec => VideoStartsWithoutHyprpaper
  <1> DEFINE Covered == \A w \in mpv' \ mpv : ~hyprpaper
  <1>1. VInv /\ [VideoNext]_videoVars => [Covered]_vars
    BY StepVInv
  <1> QED
    BY VInvHolds, <1>1, PTL DEF VideoSpec, VideoStartsWithoutHyprpaper

-----------------------------------------------------------------------------
(* Session.                                                                *)

\* The picker applies only while it is on the screen, of which a close takes it
\* first; the daemon applies only while it serves or restores; and who has begun
\* beside a restore, or is still at work, is remembered.
PhaseInv == phase \in {"serving", "closing", "restoring"} /\ outside \in BOOLEAN
PickerInv == /\ Busy(Picker) => shown # {}
             /\ phase = "restoring" => shown = {}
DaemonInv == phase = "closing" => ~Busy(Daemon)
RestoreInv == phase = "restoring" /\ Busy(Daemon) /\ ~outside =>
                orphans = {} /\ ~Busy(Cli) /\ alone = {Daemon}

SInv == TypeOK /\ BusyInv /\ PhaseInv /\ PickerInv /\ DaemonInv /\ RestoreInv

\* A picture of the web is applied as `vibewall apply` would do it.
LEMMA DownloadedIsApplied ==
  ASSUME NEW a \in Appliers, ApplyDownloaded(a)
  PROVE  ApplyPath(a)
  BY DEF ApplyDownloaded, ApplyPath, Guesses

\* What the session adds to Apply is who may begin when: every step is one of Apply
\* or leaves the wallpaper alone.
LEMMA SessionStepIsApplyStep == [SessionNext]_sessionVars => [Next]_vars
  <1> SUFFICES ASSUME [SessionNext]_sessionVars PROVE [Next]_vars
    OBVIOUS
  <1> USE AppliersAssumption DEF KeepWallpaper
  <1>1. CASE Open \/ BeginClose \/ PickerLeaves \/ Restored
    BY <1>1 DEF Open, BeginClose, PickerLeaves, Restored
  <1>2. CASE PickerKilled \/ CliKilled
    BY <1>2 DEF PickerKilled, CliKilled, Next
  <1>3. CASE FinishClose
    BY <1>3 DEF FinishClose, Next, ApplierStep
  <1>4. CASE DaemonApplies
    BY <1>4 DEF DaemonApplies, Next, ApplierStep
  <1>5. CASE PickerApplies
    BY <1>5, DownloadedIsApplied DEF PickerApplies, Next, ApplierStep
  <1>6. CASE CliApplies
    BY <1>6 DEF CliApplies, Next, ApplierStep
  <1>7. CASE Crash
    BY <1>7 DEF Crash, Next
  <1>8. CASE Others
    BY <1>8 DEF Others, Next
  <1>9. ASSUME NEW a \in Appliers, Proceed(a) PROVE [Next]_vars
    BY <1>9 DEF Proceed, Next, ApplierStep
  <1>10. CASE UNCHANGED sessionVars
    BY <1>10 DEF sessionVars
  <1> QED
    BY <1>1, <1>2, <1>3, <1>4, <1>5, <1>6, <1>7, <1>8, <1>9, <1>10 DEF SessionNext

\* Every step is one of SinglePicker or leaves pickers and phase alone.
LEMMA SessionStepIsPickerStep == [SessionNext]_sessionVars => [Single!Next]_(Single!vars)
  BY DEF SessionNext, sessionVars, Single!Next, Single!vars, Open, BeginClose, PickerLeaves,
         PickerKilled, FinishClose, Restored, DaemonApplies, PickerApplies, CliApplies,
         CliKilled, Crash, Others, Proceed, KeepPicker

\* The composition restricts Apply and nothing else: what is proved of Apply holds
\* in a session (apply_wallpaper in the daemon, the picker and the command line).
THEOREM SessionImplementsApply == SessionSpec => Spec
  BY SessionStepIsApplyStep, PTL DEF SessionSpec, SessionInit, Spec

\* The composition restricts SinglePicker and nothing else (open_picker and
\* close_picker of the daemon).
THEOREM SessionImplementsSinglePicker == SessionSpec => Single!Safety
  BY SessionStepIsPickerStep, PTL DEF SessionSpec, SessionInit, Single!Safety

\* Where a begin leads, and who else is concerned: nobody.
LEMMA BeginsAlone ==
  ASSUME TypeOK, NEW a \in Appliers, Restore(a) \/ ApplyRow(a) \/ ApplyPath(a)
  PROVE  /\ ~Busy(a) /\ pc' \in [Appliers -> Steps]
         /\ \A b \in Appliers : b # a => Busy(b)' = Busy(b)
         /\ orphans' = orphans
         /\ Quiet => alone' = {a}
  BY DEF Restore, ApplyRow, ApplyPath, Begin, Step, TypeOK, Busy, Steps

\* A step in the middle belongs to one applier, who was busy; it has ended when it
\* is no longer said to run alone.
LEMMA ProceedsAlone ==
  ASSUME TypeOK, NEW a \in Appliers, Proceed(a)
  PROVE  /\ Busy(a) /\ orphans' = orphans /\ KeepPicker /\ outside' = outside
         /\ \A b \in Appliers : b # a => Busy(b)' = Busy(b)
         /\ alone' = alone \/ ~Busy(a)'
  <1>1. CASE Persist(a)
    BY <1>1 DEF Proceed, Persist, Ends, TypeOK, Busy
  <1>2. CASE Missing(a) \/ BackendFails(a)
    BY <1>2 DEF Proceed, Missing, BackendFails, Ends, TypeOK, Busy, historyVars
  <1>3. CASE ReadType(a) \/ ReadMonitor(a) \/ Resolve(a) \/ Check(a)
    BY <1>3 DEF Proceed, ReadType, ReadMonitor, Resolve, Check, Step, TypeOK, Busy, historyVars
  <1>4. CASE StopVideo(a) \/ DropState(a) \/ StopStatic(a) \/ Launch(a)
    BY <1>4 DEF Proceed, StopVideo, DropState, StopStatic, Launch, Step, TypeOK, Busy, historyVars
  <1>5. CASE BackendOk(a) \/ Remember(a)
    BY <1>5 DEF Proceed, BackendOk, Remember, Step, TypeOK, Busy, historyVars
  <1> QED
    BY <1>1, <1>2, <1>3, <1>4, <1>5 DEF Proceed

\* Whoever is killed is idle, and nobody else notices.
LEMMA KilledAlone ==
  ASSUME TypeOK, NEW a \in Appliers, Killed(a)
  PROVE  /\ ~Busy(a)'
         /\ \A b \in Appliers : b # a => Busy(b)' = Busy(b)
         /\ alone' = alone
  BY DEF Killed, Ends, TypeOK, Busy, historyVars

\* Every step of the session keeps the phases and the operations in step.
LEMMA StepSession ==
  SInv /\ [SessionNext]_sessionVars => (PhaseInv /\ PickerInv /\ DaemonInv /\ RestoreInv)'
  <1> SUFFICES ASSUME SInv, [SessionNext]_sessionVars
               PROVE  (PhaseInv /\ PickerInv /\ DaemonInv /\ RestoreInv)'
    OBVIOUS
  <1> USE AppliersAssumption DEF SInv, PhaseInv, PickerInv, DaemonInv, RestoreInv
  <1>1. CASE Open \/ BeginClose \/ PickerLeaves \/ Restored
    BY <1>1 DEF Open, BeginClose, PickerLeaves, Restored, Single!Open, Single!BeginClose,
                Single!Exit, Single!Restored, Serves, KeepWallpaper, vars, Busy
  <1>2. CASE PickerKilled
    BY <1>2, KilledAlone DEF PickerKilled, Single!Exit
  <1>3. CASE CliKilled
    <2>1. phase = "restoring" /\ Busy(Daemon) /\ ~outside => ~Busy(Cli)
      OBVIOUS
    <2>2. Busy(Cli)
      BY <1>3 DEF CliKilled, Killed, Busy
    <2> QED
      BY <1>3, <2>1, <2>2, KilledAlone DEF CliKilled, KeepPicker
  <1>4. CASE FinishClose
    <2>1. CASE Restore(Daemon)
      <3>1. ~Busy(Picker) /\ ~Busy(Daemon)
        BY <1>4, <2>1, BeginsAlone DEF FinishClose, Single!FinishClose
      <3>2. ~outside' => Quiet
        BY <1>4, <3>1 DEF FinishClose, Quiet, Busy
      <3> QED
        BY <1>4, <2>1, <3>1, <3>2, BeginsAlone DEF FinishClose, Single!FinishClose, Quiet, Busy
    <2>2. CASE KeepWallpaper
      BY <1>4, <2>2 DEF FinishClose, Single!FinishClose, KeepWallpaper, vars, Busy
    <2> QED
      BY <1>4, <2>1, <2>2 DEF FinishClose
  <1>5. CASE DaemonApplies
    BY <1>5, BeginsAlone DEF DaemonApplies, Serves, KeepPicker
  <1>6. CASE PickerApplies
    BY <1>6, BeginsAlone, DownloadedIsApplied DEF PickerApplies, KeepPicker
  <1>7. CASE CliApplies
    BY <1>7, BeginsAlone DEF CliApplies, KeepPicker
  <1>8. CASE Crash
    BY <1>8, KilledAlone DEF Crash, Single!Crash, KeepWallpaper, vars, Busy
  <1>9. CASE Others
    BY <1>9 DEF Others, OrphanEnds, HyprpaperStarts, KeepPicker, historyVars, Busy
  <1>10. ASSUME NEW a \in Appliers, Proceed(a)
         PROVE  (PhaseInv /\ PickerInv /\ DaemonInv /\ RestoreInv)'
    BY <1>10, ProceedsAlone DEF KeepPicker
  <1>11. CASE UNCHANGED sessionVars
    BY <1>11 DEF sessionVars, vars, Busy
  <1> QED
    BY <1>1, <1>2, <1>3, <1>4, <1>5, <1>6, <1>7, <1>8, <1>9, <1>10, <1>11 DEF SessionNext

LEMMA InitSInv == SessionInit => SInv
  <1> SUFFICES ASSUME SessionInit PROVE SInv
    OBVIOUS
  <1>1. TypeOK /\ BusyInv
    BY InitIInv DEF SessionInit, IInv
  <1>2. PhaseInv /\ PickerInv /\ DaemonInv /\ RestoreInv
    BY AppliersAssumption
    DEF SessionInit, Init, Single!Init, PhaseInv, PickerInv, DaemonInv, RestoreInv, Busy
  <1> QED
    BY <1>1, <1>2 DEF SInv

\* The invariant of the session: which phase goes with which picker and operation.
THEOREM SInvHolds == SessionSpec => []SInv
  <1>1. SInv /\ [SessionNext]_sessionVars => SInv'
    BY SessionStepIsApplyStep, StepTypeOK, StepBusy, StepSession DEF SInv
  <1> QED
    BY InitSInv, <1>1, PTL DEF SessionSpec

\* The restore at the end of a close runs by itself unless somebody from outside
\* applies (close_picker waits for the picker to be gone before it restores).
THEOREM ClosesRestoreAlone == SessionSpec => []CloseRestoresAlone
  <1>1. SInv => CloseRestoresAlone
    BY DEF SInv, RestoreInv, CloseRestoresAlone
  <1> QED
    BY SInvHolds, <1>1, PTL

\* What Apply promises of an operation by itself holds in the session: with
\* ClosesRestoreAlone, a close leaves screen, settings and state file in agreement.
THEOREM SessionAppliesHeal == SessionSpec => []SoloApplyHeals
  BY SessionImplementsApply, SoloApplyAlwaysHeals, PTL
=============================================================================
