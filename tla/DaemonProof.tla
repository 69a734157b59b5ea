---------------------------- MODULE DaemonProof ----------------------------
(***************************************************************************)
(* Proofs about Daemon, for every set of pids, number of polls and way of  *)
(* supervision.                                                            *)
(***************************************************************************)
EXTENDS Daemon, TLAPS

\* What close_picker knows of picker_pid at each of its steps.
CloseInv ==
  /\ pc \in {"closePoll", "closeKill", "closeWait", "closeAbandon"} => pickerPid # None
  /\ pc \in {"closeWait", "closeAbandon"} => proc[pickerPid] \in {"killed", "zombie"}
  /\ pc \in {"closePkill", "closeReap", "closeRestore", "topRestore"} => pickerPid = None
  /\ pc = "closePoll" => polls < MaxPolls

\* A dead daemon has no children.
DeadInv == pc = "dead" => \A p \in Pids : ~Own(p)

IInv == /\ TypeOK
        /\ PickerPidIsOurChild
        /\ NoLeakedPicker
        /\ CloseInv
        /\ DeadInv


USE NoneAssumption, PollsAssumption, FlagsAssumption
USE DEF Locations, Closing, Restoring, ProcStates, Children, Live, LivePickers, Own,
        IInv, TypeOK, PickerPidIsOurChild, NoLeakedPicker, CloseInv, DeadInv

\* main starts with the invariant: no picker, no child, no command.
LEMMA InitIInv == Init => IInv
<1> SUFFICES ASSUME Init PROVE IInv
  OBVIOUS
<1>1. \A p \in Pids : proc[p] = "free"
  BY DEF Init
<1>2. running \in BOOLEAN /\ childExitPending \in BOOLEAN
  BY Zenon DEF Init
<1>3. TypeOK
  BY <1>2 DEF Init
<1> QED
  BY <1>1, <1>3 DEF Init

\* What reap_picker leaves: no zombie, and picker_pid still our child or -1.
LEMMA ReapFacts ==
  ASSUME IInv, pc # "dead"
  PROVE  /\ ProcAfterReap \in [Pids -> ProcStates]
         /\ PickerAfterReap \in Pids \cup {None}
         /\ PickerAfterReap # None => /\ PickerAfterReap = pickerPid
                                      /\ ProcAfterReap[pickerPid] = proc[pickerPid]
                                      /\ proc[pickerPid] \in {"forked", "running", "killed"}
         /\ \A p \in Pids : ProcAfterReap[p] \in Live => p = PickerAfterReap
         /\ pickerPid = None => PickerAfterReap = None
  BY DEF ProcAfterReap, PickerAfterReap

\* Every statement of the loop, every signal and every change of another
\* process keeps the invariant.
LEMMA StepIInv == IInv /\ [Next]_vars => IInv'
<1> SUFFICES ASSUME IInv, [Next]_vars PROVE IInv'
  OBVIOUS
<1>1. CASE LoopTop
  BY <1>1 DEF LoopTop
<1>2. CASE TopReap
  BY <1>2, ReapFacts DEF TopReap, ReapPicker
<1>3. CASE EnterAccept
  BY <1>3 DEF EnterAccept, Goto, daemonVars
<1>4. CASE AcceptClient
  BY <1>4 DEF AcceptClient, Goto, daemonVars
<1>5. CASE AcceptInterrupted
  BY <1>5, ReapFacts DEF AcceptInterrupted, Goto, ReapPicker
<1>6. CASE ReadNothing
  BY <1>6 DEF ReadNothing, Goto, daemonVars
<1>7. CASE Reply
  BY <1>7 DEF Reply, Goto, daemonVars
<1>8. ASSUME NEW to \in {"reply", "open", "close", "restore"}, Command(to) PROVE IInv'
  BY <1>8, ReapFacts DEF Command, Goto, ReapPicker
<1>9. CASE StatusOrUnknown \/ CmdOpen \/ CmdClose \/ CmdToggle \/ CmdRestoreOrRandom
  BY <1>8, <1>9 DEF StatusOrUnknown, CmdOpen, CmdClose, CmdToggle, CmdRestoreOrRandom
<1>10. CASE OpenAlready
  BY <1>10, ReapFacts DEF OpenAlready, Goto, ReapPicker
<1>11. CASE OpenFork
  BY <1>11, ReapFacts DEF OpenFork, Goto, PickerIsRunning
<1>12. CASE CloseTerm
  BY <1>12, ReapFacts DEF CloseTerm, Terminated
<1>13. CASE ClosePollGone
  BY <1>13 DEF ClosePollGone, Goto
<1>14. CASE ClosePollAgain
  BY <1>14 DEF ClosePollAgain
<1>15. CASE CloseKill
  BY <1>15 DEF CloseKill, Goto, daemonVars, Killed
<1>16. CASE CloseWait
  BY <1>16 DEF CloseWait, Goto
<1>17. CASE CloseAbandon
  BY <1>17 DEF CloseAbandon, Goto
<1>18. CASE ClosePkill
  BY <1>18 DEF ClosePkill, Goto, Terminated
<1>19. CASE CloseReap
  BY <1>19, ReapFacts DEF CloseReap, Goto, ReapPicker
<1>20. CASE RestoreDone
  BY <1>20 DEF RestoreDone, Restored, Goto
<1>21. CASE Ends
  BY <1>21 DEF Ends, AfterDeath, daemonVars
<1>22. CASE Restart
  BY <1>22 DEF Restart, Goto
<1>23. CASE Terminate
  BY <1>23 DEF Terminate
<1>24. ASSUME NEW p \in Pids, ProcessStep(p) PROVE IInv'
  <2>1. CASE proc[p] \in Children /\ ChildEnds(p)
    BY <2>1 DEF ChildEnds
  <2>2. CASE PickerExecs(p)
    BY <2>2 DEF PickerExecs, daemonVars
  <2>3. CASE OtherProcess(p)
    BY <2>3 DEF OtherProcess, Becomes, daemonVars
  <2> QED
    BY <1>24, <2>1, <2>2, <2>3 DEF ProcessStep, PickerExits, KilledPickerEnds, ExecFails
<1>25. CASE UNCHANGED vars
  BY <1>25 DEF vars
<1> QED
  BY <1>1, <1>2, <1>3, <1>4, <1>5, <1>6, <1>7, <1>9, <1>10, <1>11, <1>12, <1>13, <1>14,
     <1>15, <1>16, <1>17, <1>18, <1>19, <1>20, <1>21, <1>22, <1>23, <1>24, <1>25
  DEF Next, DaemonStep, ClientStep

\* The strengthened invariant holds throughout, from which the theorems below
\* are read off.
THEOREM IInvHolds == Spec => []IInv
  BY InitIInv, StepIInv, PTL DEF Spec

-----------------------------------------------------------------------------
\* The types, for every number of pids and polls.
THEOREM TypeCorrect == Spec => []TypeOK
  BY IInvHolds, PTL

\* No signal or wait of the daemon reaches a recycled pid.
THEOREM SignalsOnlyOurChild == Spec => []PickerPidIsOurChild
  BY IInvHolds, PTL

\* Every live picker of the daemon is the one it knows of.
THEOREM NoPickerLeaks == Spec => []NoLeakedPicker
  BY IInvHolds, PTL

\* The wallpaper is not restored under a live picker of the daemon.
THEOREM RestoresBehindNoPicker == Spec => []RestoreBehindNoPicker
<1>1. IInv => RestoreBehindNoPicker
  BY DEF RestoreBehindNoPicker
<1> QED
  BY <1>1, IInvHolds, PTL

-----------------------------------------------------------------------------
\* A step keeps every zombie announced: the flag falls only at LoopTop, which
\* goes to the reaping that leaves no zombie.
LEMMA StepZombie == IInv /\ ZombieIsAnnounced /\ [Next]_vars => ZombieIsAnnounced'
<1> SUFFICES ASSUME IInv, ZombieIsAnnounced, [Next]_vars PROVE ZombieIsAnnounced'
  OBVIOUS
<1> USE DEF ZombieIsAnnounced
<1>1. CASE LoopTop
  BY <1>1 DEF LoopTop
<1>2. CASE TopReap
  BY <1>2 DEF TopReap, ReapPicker, ProcAfterReap
<1>3. CASE /\ UNCHANGED childExitPending \/ childExitPending' = TRUE
           /\ pc # "topReap"
           /\ \A p \in Pids : proc'[p] = "zombie" => proc[p] = "zombie"
  BY <1>3
<1>4. CASE EnterAccept \/ AcceptClient \/ ReadNothing \/ Reply
  BY <1>3, <1>4 DEF EnterAccept, AcceptClient, ReadNothing, Reply, Goto, daemonVars
<1>5. CASE AcceptInterrupted
  BY <1>3, <1>5 DEF AcceptInterrupted, Goto, ReapPicker, ProcAfterReap
<1>6. ASSUME NEW to, Command(to) PROVE ZombieIsAnnounced'
  BY <1>3, <1>6 DEF Command, Goto, ReapPicker, ProcAfterReap
<1>7. CASE StatusOrUnknown \/ CmdOpen \/ CmdClose \/ CmdToggle \/ CmdRestoreOrRandom
  BY <1>6, <1>7 DEF StatusOrUnknown, CmdOpen, CmdClose, CmdToggle, CmdRestoreOrRandom
<1>8. CASE OpenAlready \/ OpenFork
  BY <1>3, <1>8 DEF OpenAlready, OpenFork, Goto, ReapPicker, ProcAfterReap
<1>9. CASE CloseTerm
  BY <1>3, <1>9 DEF CloseTerm, ProcAfterReap, Terminated
<1>10. CASE ClosePollGone \/ ClosePollAgain \/ CloseWait \/ CloseAbandon
  BY <1>3, <1>10 DEF ClosePollGone, ClosePollAgain, CloseWait, CloseAbandon, Goto
<1>11. CASE CloseKill
  BY <1>3, <1>11 DEF CloseKill, Goto, daemonVars, Killed
<1>12. CASE ClosePkill
  BY <1>3, <1>12 DEF ClosePkill, Goto, Terminated
<1>13. CASE CloseReap
  BY <1>3, <1>13 DEF CloseReap, Goto, ReapPicker, ProcAfterReap
<1>14. CASE RestoreDone
  BY <1>3, <1>14 DEF RestoreDone, Restored, Goto
<1>15. CASE Ends
  BY <1>3, <1>15 DEF Ends, AfterDeath, daemonVars
<1>16. CASE Restart
  BY <1>16 DEF Restart, Goto
<1>17. CASE Terminate
  BY <1>17 DEF Terminate
<1>18. ASSUME NEW p \in Pids, ProcessStep(p) PROVE ZombieIsAnnounced'
  <2>1. CASE ChildEnds(p)
    BY <2>1 DEF ChildEnds
  <2>2. CASE PickerExecs(p) \/ OtherProcess(p)
    BY <2>2 DEF PickerExecs, OtherProcess, Becomes, daemonVars
  <2> QED
    BY <1>18, <2>1, <2>2 DEF ProcessStep, PickerExits, KilledPickerEnds, ExecFails
<1>19. CASE UNCHANGED vars
  BY <1>19 DEF vars
<1> QED
  BY <1>1, <1>2, <1>4, <1>5, <1>7, <1>8, <1>9, <1>10, <1>11, <1>12, <1>13, <1>14, <1>15,
     <1>16, <1>17, <1>18, <1>19
  DEF Next, DaemonStep, ClientStep

\* No child that ended is forgotten.
THEOREM ZombiesAnnounced == Spec => []ZombieIsAnnounced
<1>1. Init => ZombieIsAnnounced
  BY DEF Init, ZombieIsAnnounced
<1> QED
  BY <1>1, IInvHolds, StepZombie, PTL DEF Spec

-----------------------------------------------------------------------------
(* The daemon implements SinglePicker: every step of it is a step of the   *)
(* single picker or leaves shown and phase alone.                          *)

\* When one reaps, what is on the screen does not change, and picker_pid = -1
\* afterwards means that nothing is.
LEMMA ReapShows ==
  ASSUME IInv, pc # "dead"
  PROVE  /\ \A p \in Pids : ProcAfterReap[p] \in Live <=> proc[p] \in Live
         /\ PickerAfterReap = None => LivePickers = {}
  BY DEF ProcAfterReap, PickerAfterReap

\* A step that changes neither the screen nor the phase is a stutter.
LEMMA Stutter ==
  ASSUME \A p \in Pids : proc'[p] \in Live <=> proc[p] \in Live, Phase' = Phase
  PROVE  UNCHANGED Abstract!vars
  BY DEF Abstract!vars

\* A step in which a live child is lost leaves nothing on the screen.
LEMMA LastPickerGoes ==
  ASSUME IInv, NEW p \in Pids, proc[p] \in Live, proc'[p] \notin Live,
         \A q \in Pids \ {p} : proc'[q] = proc[q], Phase' = Phase
  PROVE  Abstract!Exit
  BY DEF Abstract!Exit

\* A step of the daemon opens, closes or loses the one picker of SinglePicker,
\* or leaves all it can see unchanged.
LEMMA StepRefines == IInv /\ [Next]_vars => [Abstract!Next]_(Abstract!vars)
<1> SUFFICES ASSUME IInv, [Next]_vars PROVE Abstract!Next \/ UNCHANGED Abstract!vars
  OBVIOUS
<1> USE DEF Abstract!Next, Phase
<1>1. CASE LoopTop \/ EnterAccept \/ AcceptClient \/ ReadNothing \/ Reply
  BY <1>1, Stutter
  DEF LoopTop, EnterAccept, AcceptClient, ReadNothing, Reply, Goto, daemonVars
<1>2. CASE TopReap \/ AcceptInterrupted
  BY <1>2, Stutter, ReapShows DEF TopReap, AcceptInterrupted, Goto, ReapPicker
<1>3. ASSUME NEW to \in {"reply", "open", "restore"}, Command(to)
      PROVE  UNCHANGED Abstract!vars
  BY <1>3, Stutter, ReapShows DEF Command, Goto, ReapPicker
<1>4. ASSUME Command("close") PROVE Abstract!BeginClose
  <2>1. pc = "read" /\ pc' = "close" /\ proc' = ProcAfterReap
    BY <1>4 DEF Command, Goto, ReapPicker
  <2>2. LivePickers' = LivePickers
    BY <2>1, ReapShows
  <2> QED
    BY <2>1, <2>2 DEF Abstract!BeginClose
<1>5. CASE StatusOrUnknown \/ CmdOpen \/ CmdClose \/ CmdToggle \/ CmdRestoreOrRandom
  BY <1>3, <1>4, <1>5 DEF StatusOrUnknown, CmdOpen, CmdClose, CmdToggle, CmdRestoreOrRandom
<1>6. CASE OpenAlready
  BY <1>6, Stutter, ReapShows DEF OpenAlready, Goto, ReapPicker
<1>7. CASE OpenFork
  <2>1. PICK p \in Pids : proc' = [ProcAfterReap EXCEPT ![p] = "forked"]
    BY <1>7 DEF OpenFork
  <2>2. LivePickers = {}
    BY <1>7, ReapShows DEF OpenFork, Goto, PickerIsRunning
  <2>3. LivePickers' = {p}
    BY <1>7, <2>1, <2>2, ReapFacts, ReapShows DEF OpenFork, Goto
  <2>4. pc = "open" /\ pc' = "reply"
    BY <1>7 DEF OpenFork, Goto
  <2> QED
    BY <2>2, <2>3, <2>4 DEF Abstract!Open
<1>8. CASE CloseTerm
  <2>1. pc = "close" /\ pc' \in {"closePkill", "closePoll"}
    BY <1>8 DEF CloseTerm
  <2>2. CASE PickerAfterReap # None /\ proc[pickerPid] = "running"
    <3>1. LivePickers' = {} /\ LivePickers # {}
      BY <1>8, <2>1, <2>2, ReapFacts DEF CloseTerm, Terminated
    <3> QED
      BY <2>1, <3>1 DEF Abstract!Exit
  <2>3. CASE ~(PickerAfterReap # None /\ proc[pickerPid] = "running")
    <3>1. \A p \in Pids : proc'[p] \in Live <=> proc[p] \in Live
      BY <1>8, <2>1, <2>3, ReapFacts, ReapShows DEF CloseTerm, Terminated
    <3> QED
      BY <2>1, <3>1, Stutter
  <2> QED
    BY <2>2, <2>3
<1>9. CASE ClosePollGone \/ ClosePollAgain \/ CloseWait \/ CloseAbandon
  BY <1>9, Stutter DEF ClosePollGone, ClosePollAgain, CloseWait, CloseAbandon, Goto
<1>10. CASE CloseKill
  <2>1. /\ pickerPid \in Pids
        /\ pc = "closeKill" /\ pc' = "closeWait"
        /\ proc' = [proc EXCEPT ![pickerPid] = Killed(@)]
    BY <1>10 DEF CloseKill, Goto
  <2>2. CASE proc[pickerPid] \in Live
    BY <2>1, <2>2, LastPickerGoes DEF Killed
  <2>3. CASE proc[pickerPid] \notin Live
    BY <2>1, <2>3, Stutter DEF Killed
  <2> QED
    BY <2>2, <2>3
<1>11. CASE ClosePkill
  BY <1>11, Stutter DEF ClosePkill, Goto, Terminated
<1>12. CASE CloseReap
  <2>1. pc = "closeReap" /\ pc' = "closeRestore" /\ proc' = ProcAfterReap
    BY <1>12 DEF CloseReap, Goto, ReapPicker
  <2>2. LivePickers = {} /\ LivePickers' = {}
    BY <2>1, ReapShows
  <2> QED
    BY <2>1, <2>2 DEF Abstract!FinishClose
<1>13. CASE RestoreDone
  <2>1. LivePickers' = LivePickers
    BY <1>13 DEF RestoreDone, Restored
  <2>2. CASE pc = "closeRestore"
    BY <1>13, <2>1, <2>2 DEF RestoreDone, Restored, Goto, Abstract!Restored
  <2>3. CASE pc # "closeRestore"
    BY <1>13, <2>3, Stutter DEF RestoreDone, Restored, Goto
  <2> QED
    BY <2>2, <2>3
<1>14. CASE Ends
  BY <1>14 DEF Ends, AfterDeath, Abstract!Crash
<1>15. CASE Restart
  BY <1>15, Stutter DEF Restart, Goto
<1>16. CASE Terminate
  BY <1>16, Stutter DEF Terminate
<1>17. ASSUME NEW p \in Pids, ProcessStep(p) PROVE Abstract!Next \/ UNCHANGED Abstract!vars
  <2>1. CASE ChildEnds(p) /\ proc[p] \in Live
    BY <2>1, LastPickerGoes DEF ChildEnds
  <2>2. CASE ChildEnds(p) /\ proc[p] \notin Live
    BY <2>2, Stutter DEF ChildEnds
  <2>3. CASE PickerExecs(p) \/ OtherProcess(p)
    BY <2>3, Stutter DEF PickerExecs, OtherProcess, Becomes, daemonVars
  <2> QED
    BY <1>17, <2>1, <2>2, <2>3 DEF ProcessStep, PickerExits, KilledPickerEnds, ExecFails
<1>18. CASE UNCHANGED vars
  BY <1>18, Stutter DEF vars
<1> QED
  BY <1>1, <1>2, <1>5, <1>6, <1>7, <1>8, <1>9, <1>10, <1>11, <1>12, <1>13, <1>14, <1>15,
     <1>16, <1>17, <1>18
  DEF Next, DaemonStep, ClientStep

\* For every set of pids, the daemon shows at most one picker of its own, and
\* restores after a close only when that picker is off the screen.
THEOREM RefinesSinglePicker == Spec => Abstract!Safety
<1>1. Init => Abstract!Init
  BY DEF Init, Abstract!Init, Phase
<1> QED
  BY <1>1, IInvHolds, StepRefines, PTL DEF Spec, Abstract!Safety
=============================================================================
