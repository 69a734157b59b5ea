---------------------------- MODULE SinglePicker ----------------------------
(***************************************************************************)
(* What vibewall-daemon promises the user of a keybinding: there is at     *)
(* most one picker of the daemon on the screen; closing it first takes it  *)
(* off the screen and only then puts the last wallpaper back; and a close  *)
(* that has begun comes to its end unless the daemon dies.                 *)
(*                                                                         *)
(* shown is the set of live pickers the daemon started, phase says whether *)
(* it serves commands, is closing the picker, or is restoring the          *)
(* wallpaper after a close.                                                *)
(***************************************************************************)
CONSTANT Pids

VARIABLES shown, phase

vars == <<shown, phase>>

Init == shown = {} /\ phase = "serving"

Open == /\ phase = "serving"
        /\ shown = {}
        /\ \E p \in Pids : shown' = {p}
        /\ UNCHANGED phase

\* The user closes the picker, or it crashes, in any phase.
Exit == /\ shown # {}
        /\ shown' = {}
        /\ UNCHANGED phase

BeginClose == /\ phase = "serving"
              /\ phase' = "closing"
              /\ shown' \in {shown, {}}

\* A bug the properties are tried against: the wallpaper is restored at once.
BugFinishClose == /\ phase = "closing"
                  /\ phase' = "restoring"
                  /\ UNCHANGED shown

FinishClose == /\ phase = "closing"
               /\ shown = {}
               /\ phase' = "restoring"
               /\ UNCHANGED shown

Restored == /\ phase = "restoring"
            /\ phase' = "serving"
            /\ UNCHANGED shown

\* The daemon dies and takes its picker with it.
Crash == phase' = "serving" /\ shown' = {}

Next == Open \/ Exit \/ BeginClose \/ FinishClose \/ Restored \/ Crash

Safety == Init /\ [][Next]_vars

Spec == /\ Safety
        /\ WF_vars(phase = "closing" /\ Exit)
        /\ WF_vars(FinishClose)
        /\ WF_vars(Restored)
=============================================================================
