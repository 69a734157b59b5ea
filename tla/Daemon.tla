------------------------------- MODULE Daemon -------------------------------
(***************************************************************************)
(* vibewall-daemon (packages/vibewallREzero/src/daemon/main.cpp): a single *)
(* thread that accepts one command at a time on a Unix socket and keeps at *)
(* most one picker child.  The model has one action per step of its main   *)
(* loop and of the command handlers, and the actions of its environment:   *)
(* picker processes that run, exit and are killed, signals that arrive     *)
(* between any two steps, pids that are recycled, and a crash with a       *)
(* restart.                                                                *)
(*                                                                         *)
(* proc gives the state of every pid the picker can have:                  *)
(*   free     no process (the kernel may hand the pid out again)           *)
(*   forked   our child between fork and exec: it still has the daemon's   *)
(*            signal handlers, so SIGTERM does not end it                  *)
(*   running  our child, a picker on the screen                            *)
(*   killed   our child with a fatal signal, not yet gone                  *)
(*   zombie   our child, gone but not waited for                           *)
(*   foreign  a vibewall-picker that is not our child                      *)
(*   alien    any other program                                            *)
(***************************************************************************)
EXTENDS Naturals, FiniteSets

CONSTANTS
  Pids,         \* pids pickers can have
  None,         \* the value -1 of picker_pid
  MaxPolls,     \* polls of close_picker for the child's end (30 in the code)
  Supervised,   \* systemd runs the daemon: the control group dies with it
  PkillMatches  \* USER is set and the picker's process name is the one
                \* pkill -x looks for (not so for a wrapped binary)

ASSUME NoneAssumption == None \notin Pids
ASSUME PollsAssumption == MaxPolls \in Nat \ {0}
ASSUME FlagsAssumption == Supervised \in BOOLEAN /\ PkillMatches \in BOOLEAN

VARIABLES
  pc,                \* where the daemon's thread is
  running,           \* running
  childExitPending,  \* child_exit_pending, set by the SIGCHLD handler
  pickerPid,         \* picker_pid
  polls,             \* i of the poll loop of close_picker
  proc               \* the process table

daemonVars == <<running, childExitPending, pickerPid, polls>>
vars == <<pc, running, childExitPending, pickerPid, polls, proc>>

ProcStates == {"free", "forked", "running", "killed", "zombie", "foreign", "alien"}
Children == {"forked", "running", "killed", "zombie"}
Live == {"forked", "running"}

Closing == {"close", "closePoll", "closeKill", "closeWait", "closeAbandon",
            "closePkill", "closeReap"}
Restoring == {"topRestore", "closeRestore", "restore"}
Locations == {"loop", "topReap", "preAccept", "accept", "eintr", "read", "open",
              "reply", "dead"} \cup Closing \cup Restoring

Own(p) == proc[p] \in Children
LivePickers == {p \in Pids : proc[p] \in Live}

Init == /\ pc = "loop"
        /\ running = TRUE
        /\ childExitPending = FALSE
        /\ pickerPid = None
        /\ polls = 0
        /\ proc = [p \in Pids |-> "free"]

Goto(from, to) == pc = from /\ pc' = to

-----------------------------------------------------------------------------
(* Bugs the properties are tried against: each takes the place of the      *)
(* definition its name ends in.                                            *)

\* The pending flag is cleared after the reaping and not before it.
BugEnterAccept == /\ Goto("preAccept", "accept")
                  /\ childExitPending' = FALSE
                  /\ UNCHANGED <<running, pickerPid, polls, proc>>

\* The loop does not look at running.
BugLoopTop == /\ pc = "loop"
              /\ pc' = IF childExitPending THEN "topReap" ELSE "preAccept"
              /\ childExitPending' = FALSE
              /\ UNCHANGED <<running, pickerPid, polls, proc>>

\* open_picker does not ask whether a picker is running.
BugPickerIsRunning == FALSE

\* SIGTERM once more in the place of SIGKILL.
BugCloseKill == /\ Goto("closeKill", "closeWait")
                /\ UNCHANGED <<daemonVars, proc>>

\* After the last poll the picker is given up without SIGKILL.
GiveUpCloseKill == /\ Goto("closeKill", "closePkill")
                   /\ pickerPid' = None
                   /\ UNCHANGED <<running, childExitPending, polls, proc>>

\* picker_pid is not reset after the blocking waitpid.
BugCloseWait == /\ Goto("closeWait", "closePkill")
                /\ proc[pickerPid] = "zombie"
                /\ proc' = [proc EXCEPT ![pickerPid] = "free"]
                /\ UNCHANGED daemonVars

-----------------------------------------------------------------------------
(* The helpers of the command handlers. *)

\* reap_picker: waitpid(-1, WNOHANG) collects every zombie; picker_pid is
\* cleared when it is one of them or, by the ESRCH test, names no process.
PickerAfterReap == IF pickerPid # None /\ proc[pickerPid] \in {"zombie", "free"}
                   THEN None ELSE pickerPid
ProcAfterReap == [p \in Pids |-> IF proc[p] = "zombie" THEN "free" ELSE proc[p]]

ReapPicker == pickerPid' = PickerAfterReap /\ proc' = ProcAfterReap

\* What a fatal signal does to a process in state s.
Terminated(s) == IF s = "running" THEN "killed" ELSE s
Killed(s) == IF s \in Live THEN "killed" ELSE s

\* Where the states of the processes go when the daemon is no more: systemd
\* ends its control group; else init adopts the children that are alive.
AfterDeath(s) == IF s \notin Children THEN s
                 ELSE IF s \in Live /\ ~Supervised THEN "foreign" ELSE "free"

-----------------------------------------------------------------------------
(* The main loop. *)

\* while (running); the pending flag is cleared before the children are reaped.
LoopTop == /\ pc = "loop"
           /\ running
           /\ pc' = IF childExitPending THEN "topReap" ELSE "preAccept"
           /\ childExitPending' = FALSE
           /\ UNCHANGED <<running, pickerPid, polls, proc>>

\* The pending exit is dealt with: restore only when our picker is the one.
TopReap == /\ pc = "topReap"
           /\ ReapPicker
           /\ pc' = IF pickerPid # None /\ PickerAfterReap = None
                    THEN "topRestore" ELSE "preAccept"
           /\ UNCHANGED <<running, childExitPending, polls>>

\* accept starts to wait: from here a signal interrupts it; a signal that came
\* after LoopTop looked has set its flag and is not looked at.
EnterAccept == /\ Goto("preAccept", "accept")
               /\ UNCHANGED <<daemonVars, proc>>

AcceptClient == /\ Goto("accept", "read")
                /\ UNCHANGED <<daemonVars, proc>>

\* accept returned EINTR: reap and go round.
AcceptInterrupted == /\ Goto("eintr", "loop")
                     /\ ReapPicker
                     /\ UNCHANGED <<running, childExitPending, polls>>

\* read returned nothing: the client closed or was silent for SO_RCVTIMEO, or a
\* signal interrupted the read and the command is dropped.
ReadNothing == /\ Goto("read", "loop")
               /\ UNCHANGED <<daemonVars, proc>>

Reply == /\ Goto("reply", "loop")
         /\ UNCHANGED <<daemonVars, proc>>

-----------------------------------------------------------------------------
(* handle_command: reap, then branch on the command. *)

Command(to) == /\ Goto("read", to)
               /\ ReapPicker
               /\ UNCHANGED <<running, childExitPending, polls>>

StatusOrUnknown == Command("reply")
CmdOpen == Command("open")
CmdClose == Command("close")
CmdToggle == Command(IF PickerAfterReap # None THEN "close" ELSE "open")
CmdRestoreOrRandom == Command("restore")

\* open_picker: fork only when picker_is_running says there is none.
PickerIsRunning == PickerAfterReap # None

OpenAlready == /\ Goto("open", "reply")
               /\ PickerIsRunning
               /\ ReapPicker
               /\ UNCHANGED <<running, childExitPending, polls>>

OpenFork == /\ Goto("open", "reply")
            /\ ~PickerIsRunning
            /\ \E p \in Pids : /\ ProcAfterReap[p] = "free"
                               /\ proc' = [ProcAfterReap EXCEPT ![p] = "forked"]
                               /\ pickerPid' = p
            /\ UNCHANGED <<running, childExitPending, polls>>

-----------------------------------------------------------------------------
(* close_picker, then restore_last_wallpaper. *)

\* reap_picker and SIGTERM.
CloseTerm == /\ pc = "close"
             /\ pickerPid' = PickerAfterReap
             /\ IF PickerAfterReap = None
                THEN /\ pc' = "closePkill"
                     /\ proc' = ProcAfterReap
                ELSE /\ pc' = "closePoll"
                     /\ proc' = [ProcAfterReap EXCEPT ![pickerPid] = Terminated(@)]
             /\ polls' = 0
             /\ UNCHANGED <<running, childExitPending>>

\* waitpid(picker_pid, WNOHANG) finds the child ended, or ECHILD.
ClosePollGone == /\ Goto("closePoll", "closePkill")
                 /\ proc[pickerPid] \notin {"forked", "running", "killed"}
                 /\ proc' = [proc EXCEPT ![pickerPid] =
                               IF @ = "zombie" THEN "free" ELSE @]
                 /\ pickerPid' = None
                 /\ UNCHANGED <<running, childExitPending, polls>>

\* Not yet: sleep 10 ms; after the last poll, SIGKILL.
ClosePollAgain == /\ pc = "closePoll"
                  /\ proc[pickerPid] \in {"forked", "running", "killed"}
                  /\ polls' = polls + 1
                  /\ pc' = IF polls' < MaxPolls THEN "closePoll" ELSE "closeKill"
                  /\ UNCHANGED <<running, childExitPending, pickerPid, proc>>

CloseKill == /\ Goto("closeKill", "closeWait")
             /\ proc' = [proc EXCEPT ![pickerPid] = Killed(@)]
             /\ UNCHANGED daemonVars

\* The blocking waitpid(picker_pid, 0).
CloseWait == /\ Goto("closeWait", "closePkill")
             /\ proc[pickerPid] = "zombie"
             /\ proc' = [proc EXCEPT ![pickerPid] = "free"]
             /\ pickerPid' = None
             /\ UNCHANGED <<running, childExitPending, polls>>

\* The waitpid was interrupted: its result is ignored, the child forgotten.
CloseAbandon == /\ Goto("closeAbandon", "closePkill")
                /\ pickerPid' = None
                /\ UNCHANGED <<running, childExitPending, polls, proc>>

\* run_process(pkill): ends every picker that matches; its own end raises
\* SIGCHLD.  Without USER no helper runs.
ClosePkill ==
  /\ Goto("closePkill", "closeReap")
  /\ IF PkillMatches
     THEN /\ proc' = [p \in Pids |-> IF proc[p] = "foreign" THEN "free"
                                     ELSE Terminated(proc[p])]
          /\ childExitPending' = TRUE
     ELSE /\ proc' = proc
          /\ childExitPending' \in {childExitPending, TRUE}
  /\ UNCHANGED <<running, pickerPid, polls>>

CloseReap == /\ Goto("closeReap", "closeRestore")
             /\ ReapPicker
             /\ UNCHANGED <<running, childExitPending, polls>>

\* restore_last_wallpaper or apply_random_wallpaper: the helpers they run, if
\* there is something to apply, raise SIGCHLD when they end.
Restored(from, to) == /\ Goto(from, to)
                      /\ childExitPending' \in {childExitPending, TRUE}
                      /\ UNCHANGED <<running, pickerPid, polls, proc>>

RestoreDone == \/ Restored("topRestore", "preAccept")
               \/ Restored("closeRestore", "reply")
               \/ Restored("restore", "reply")

-----------------------------------------------------------------------------
(* The end of the daemon and a new one. *)

\* The loop ends after SIGTERM; accept or fork fails; the database throws in a
\* restore; or the reply raises SIGPIPE because the client is gone.
Ends == /\ \/ pc = "loop" /\ ~running
           \/ pc = "accept"
           \/ pc = "open" /\ ~PickerIsRunning
           \/ pc \in Restoring
           \/ pc = "reply"
        /\ pc' = "dead"
        /\ proc' = [p \in Pids |-> AfterDeath(proc[p])]
        /\ UNCHANGED daemonVars

Restart == /\ Goto("dead", "loop")
           /\ running' = TRUE
           /\ childExitPending' = FALSE
           /\ pickerPid' = None
           /\ UNCHANGED <<polls, proc>>

-----------------------------------------------------------------------------
(* Signals and the other processes. *)

\* SIGTERM or SIGINT: handle_signal, and the blocking call is interrupted.
Terminate == /\ pc # "dead"
             /\ running' = FALSE
             /\ pc' = CASE pc = "accept" -> "eintr"
                        [] pc = "closeWait" /\ proc[pickerPid] # "zombie" -> "closeAbandon"
                        [] OTHER -> pc
             /\ UNCHANGED <<childExitPending, pickerPid, polls, proc>>

\* A child ends: SIGCHLD, which interrupts accept.
ChildEnds(p) == /\ proc' = [proc EXCEPT ![p] = "zombie"]
                /\ childExitPending' = TRUE
                /\ pc' = IF pc = "accept" THEN "eintr" ELSE pc
                /\ UNCHANGED <<running, pickerPid, polls>>

\* The user leaves the picker, or it crashes.
PickerExits(p) == proc[p] = "running" /\ ChildEnds(p)

\* A fatal signal takes effect.
KilledPickerEnds(p) == proc[p] = "killed" /\ ChildEnds(p)

\* execlp succeeds, or fails and the child leaves with 127.
PickerExecs(p) == /\ proc[p] = "forked"
                  /\ proc' = [proc EXCEPT ![p] = "running"]
                  /\ UNCHANGED <<pc, daemonVars>>
ExecFails(p) == proc[p] = "forked" /\ ChildEnds(p)

\* Other processes come and go: `vibewall picker` from a terminal, any program.
Becomes(p, from, to) == /\ proc[p] \in from
                        /\ proc' = [proc EXCEPT ![p] = to]
                        /\ UNCHANGED <<pc, daemonVars>>
OtherProcess(p) == \/ Becomes(p, {"free"}, "foreign")
                   \/ Becomes(p, {"free"}, "alien")
                   \/ Becomes(p, {"foreign", "alien"}, "free")

DaemonStep ==
  \/ LoopTop \/ TopReap \/ EnterAccept \/ AcceptInterrupted \/ ReadNothing \/ Reply
  \/ OpenAlready \/ OpenFork
  \/ CloseTerm \/ ClosePollGone \/ ClosePollAgain \/ CloseKill \/ CloseWait
  \/ CloseAbandon \/ ClosePkill \/ CloseReap \/ RestoreDone \/ Ends

ClientStep == \/ AcceptClient \/ StatusOrUnknown \/ CmdOpen \/ CmdClose
              \/ CmdToggle \/ CmdRestoreOrRandom

ProcessStep(p) == \/ PickerExits(p) \/ KilledPickerEnds(p) \/ PickerExecs(p)
                  \/ ExecFails(p) \/ OtherProcess(p)

Next == DaemonStep \/ ClientStep \/ Restart \/ Terminate \/ \E p \in Pids : ProcessStep(p)

Spec == Init /\ [][Next]_vars

\* The kernel schedules the daemon's thread, ends what it killed and lets a
\* fork reach its exec; the helpers of a restore end.  Nothing is assumed of
\* the clients, of the user or of a restart.  An error that ends the daemon is
\* not assumed either: only leaving the loop after SIGTERM is.
Fairness ==
  /\ WF_vars(DaemonStep /\ pc # "accept")
  /\ \A p \in Pids : WF_vars(KilledPickerEnds(p)) /\ WF_vars(PickerExecs(p) \/ ExecFails(p))

FairSpec == Spec /\ Fairness

-----------------------------------------------------------------------------
(* Properties. *)

TypeOK == /\ pc \in Locations
          /\ running \in BOOLEAN
          /\ childExitPending \in BOOLEAN
          /\ pickerPid \in Pids \cup {None}
          /\ polls \in 0..MaxPolls
          /\ proc \in [Pids -> ProcStates]

\* picker_pid always names a child that has not been waited for, so the
\* SIGTERM, the SIGKILL and the waitpid of close_picker and the kill(pid, 0)
\* of picker_is_running never reach a process that got a recycled pid.
PickerPidIsOurChild == pc # "dead" /\ pickerPid # None => Own(pickerPid)

\* A picker that open_picker started and nobody killed is the one picker_pid
\* names: it can be closed, and a second one is not started beside it.
NoLeakedPicker == \A p \in LivePickers : p = pickerPid

\* A child that ended is always still announced by child_exit_pending, or the
\* reaping that follows the clearing of the flag is the next step: no zombie
\* is forgotten, whatever signal arrives between the two.
ZombieIsAnnounced ==
  \A p \in Pids : proc[p] = "zombie" => childExitPending \/ pc = "topReap"

\* The wallpaper that comes back after a close or after the picker's own exit
\* is never applied under a picker of the daemon that is still alive.
RestoreBehindNoPicker == pc \in {"closeRestore", "topRestore"} => LivePickers = {}

\* Whatever the command and whatever signals interrupt it, the daemon comes
\* back to accept or ends: the poll, the SIGKILL and the blocking waitpid of a
\* close do not hang, and a silent client does not hold the loop.
EveryCommandEnds == pc # "accept" ~> pc \in {"accept", "dead"}

\* If accept never waits for ever, every child that ended is waited for.  (The
\* premise is needed: a SIGCHLD between the test of the flag and accept is
\* looked at only when accept returns.)
ZombiesAreReaped ==
  []<>(pc # "accept") => \A p \in Pids : proc[p] = "zombie" ~> proc[p] # "zombie"

\* If accept never waits for ever, SIGTERM ends the daemon.
StopIsHonoured == []<>(pc # "accept") => (~running ~> (pc = "dead" \/ running))

\* What the user sees of the daemon's state.
Phase == IF pc \in Closing THEN "closing"
         ELSE IF pc = "closeRestore" THEN "restoring" ELSE "serving"

Abstract == INSTANCE SinglePicker WITH shown <- LivePickers, phase <- Phase

\* The daemon implements the single picker the user is promised, with its
\* liveness.
ImplementsSinglePicker == Abstract!Spec
=============================================================================
