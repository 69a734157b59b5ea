------------------------------ MODULE Startup ------------------------------
(***************************************************************************)
(* How a command of the user finds the daemon: send_ipc and ensure_daemon  *)
(* of cli/main.cpp, the start and the end of daemon/main.cpp, the unit     *)
(* vibewallrezero-daemon.service, and the socket file they all go through. *)
(* What the daemon does with a command is in Daemon.                       *)
(*                                                                         *)
(* A daemon removes whatever is at the path of the socket before it binds, *)
(* and removes whatever is there when it ends; a picker inherits the       *)
(* socket its daemon listens on.  Time is left out: the wait for a daemon  *)
(* can end before the daemon is ready, as on a loaded machine it does.     *)
(***************************************************************************)
EXTENDS Naturals, FiniteSets

CONSTANTS
  Clients,       \* processes of the command line
  Daemons,       \* bound: daemons there can be a trace of at a time
  ServiceTries,  \* probes after systemctl start (150 in the code)
  DetachedTries, \* probes after spawn_detached (50 in the code)
  None

ASSUME NoneAssumption == None \notin Daemons
ASSUME TriesAssumption == ServiceTries \in Nat \ {0} /\ DetachedTries \in Nat \ {0}

VARIABLES
  dpc,     \* dpc[d]: the step of daemon d
  sock,    \* the daemon that bound the socket file at the path, None without a file
  picker,  \* picker[d]: a picker that d has forked holds the socket of d too
  unit,    \* the main process of the service
  restart, \* systemd is about to start the service again
  cpc,     \* cpc[c]: the step of client c
  tries,   \* tries[c]: probes left
  conn,    \* conn[c]: the daemon whose answer c waits for
  late,    \* history: a client has waited for the service in vain
  lost     \* history: a daemon has ended since the last bind, other than by failing to bind

daemonVars == <<dpc, sock, picker, unit, restart, lost>>
clientVars == <<cpc, tries, conn, late>>
vars == <<daemonVars, clientVars>>

Alive == {d \in Daemons : dpc[d] # "none"}
Serving == {d \in Daemons : dpc[d] = "serve"}

\* connect succeeds as long as some process has the listening socket open.
Accepts(d) == dpc[d] = "serve" \/ picker[d]
Reachable == \E d \in Daemons : sock = d /\ Accepts(d)

\* Nothing is left of a process d: a new one can be called d.
Free(d) == /\ dpc[d] = "none" /\ ~picker[d] /\ sock # d
           /\ \A c \in Clients : conn[c] # d

-----------------------------------------------------------------------------
(* Bugs the properties are tried against.                                  *)

\* The daemon is spawned as soon as systemctl start has returned.
BugAfterStart == "spawn"

\* A daemon that could not bind removes the socket file all the same.
BugPathAfterFailure == None

\* When the service does not come up it is started once more.
BugAfterRefusal(step, left) ==
  CASE step = "probe" -> "start"
    [] step = "waitService" -> (IF left > 1 THEN step ELSE "start")
    [] step = "waitDetached" -> (IF left > 1 THEN step ELSE "idle")
    [] step = "command" -> "idle"

-----------------------------------------------------------------------------
Init == /\ dpc = [d \in Daemons |-> "none"]
        /\ sock = None
        /\ picker = [d \in Daemons |-> FALSE]
        /\ unit = None
        /\ restart \in BOOLEAN  \* WantedBy the target of the session
        /\ cpc = [c \in Clients |-> "idle"]
        /\ tries = [c \in Clients |-> 0]
        /\ conn = [c \in Clients |-> None]
        /\ late = FALSE
        /\ lost = FALSE

-----------------------------------------------------------------------------
(* The daemon.                                                             *)

\* A process is started as d, by systemd or detached.
Launch(d) == Free(d) /\ dpc' = [dpc EXCEPT ![d] = "remove"]

Remove(d) == /\ dpc[d] = "remove"
             /\ dpc' = [dpc EXCEPT ![d] = "bind"]
             /\ sock' = None
             /\ UNCHANGED <<picker, unit, restart, lost, clientVars>>

Bind(d) == /\ dpc[d] = "bind"
           /\ sock = None
           /\ sock' = d
           /\ lost' = FALSE
           /\ dpc' = [dpc EXCEPT ![d] = "listen"]
           /\ UNCHANGED <<picker, unit, restart, clientVars>>

\* d is gone; what the control group of the service has left is killed.
Gone(d, failed) == /\ dpc' = [dpc EXCEPT ![d] = "none"]
                   /\ unit' = IF unit = d THEN None ELSE unit
                   /\ restart' = (restart \/ (unit = d /\ failed))
                   /\ picker' = [picker EXCEPT ![d] = @ /\ unit # d]

\* Somebody else has bound since Remove: main throws and leaves the path alone.
PathAfterFailure == sock

BindFails(d) == /\ dpc[d] = "bind"
                /\ sock # None
                /\ sock' = PathAfterFailure
                /\ Gone(d, TRUE)
                /\ UNCHANGED <<lost, clientVars>>

Listen(d) == /\ dpc[d] = "listen"
             /\ dpc' = [dpc EXCEPT ![d] = "serve"]
             /\ UNCHANGED <<sock, picker, unit, restart, lost, clientVars>>

OpenPicker(d) == /\ dpc[d] = "serve"
                 /\ picker' = [picker EXCEPT ![d] = TRUE]
                 /\ UNCHANGED <<dpc, sock, unit, restart, lost, clientVars>>

PickerExits(d) == /\ picker[d]
                  /\ picker' = [picker EXCEPT ![d] = FALSE]
                  /\ UNCHANGED <<dpc, sock, unit, restart, lost, clientVars>>

\* SIGTERM or SIGINT ends the loop; main closes its socket.
Stop(d) == /\ dpc[d] = "serve"
           /\ dpc' = [dpc EXCEPT ![d] = "unlink"]
           /\ UNCHANGED <<sock, picker, unit, restart, lost, clientVars>>

\* main removes what is at the path, and returns.
Unlink(d) == /\ dpc[d] = "unlink"
             /\ sock' = None
             /\ lost' = TRUE
             /\ Gone(d, FALSE)
             /\ UNCHANGED clientVars

\* Killed, an exception, or SIGPIPE, which systemd takes for a clean end.
Crash(d) == /\ d \in Alive
            /\ \E failed \in BOOLEAN : Gone(d, failed)
            /\ lost' = TRUE
            /\ UNCHANGED <<sock, clientVars>>

\* Restart=on-failure, and the start with the session.
Restart == /\ restart
           /\ restart' = FALSE
           /\ IF unit = None THEN \E d \in Daemons : Launch(d) /\ unit' = d
                             ELSE UNCHANGED <<dpc, unit>>
           /\ UNCHANGED <<sock, picker, lost, clientVars>>

-----------------------------------------------------------------------------
(* The client.                                                             *)

Probing == {"probe", "waitService", "waitDetached", "command"}

Command(c) == /\ cpc[c] = "idle"
              /\ cpc' = [cpc EXCEPT ![c] = "probe"]
              /\ UNCHANGED <<tries, conn, late, daemonVars>>

\* send_ipc connects and writes.
Connect(c) == /\ cpc[c] \in Probing
              /\ conn[c] = None
              /\ Reachable
              /\ conn' = [conn EXCEPT ![c] = sock]
              /\ UNCHANGED <<cpc, tries, late, daemonVars>>

\* What ensure_daemon makes of a probe that found no daemon.
AfterRefusal(step, left) ==
  CASE step = "probe" -> "start"
    [] step = "waitService" -> (IF left > 1 THEN step ELSE "spawn")
    [] step = "waitDetached" -> (IF left > 1 THEN step ELSE "idle")
    [] step = "command" -> "idle"

Refused(c) == /\ cpc[c] \in Probing
              /\ conn[c] = None
              /\ ~Reachable
              /\ cpc' = [cpc EXCEPT ![c] = AfterRefusal(cpc[c], tries[c])]
              /\ tries' = [tries EXCEPT ![c] = IF @ > 0 THEN @ - 1 ELSE 0]
              /\ late' = (late \/ (cpc[c] = "waitService" /\ tries[c] = 1))
              /\ UNCHANGED <<conn, daemonVars>>

\* An answer, or the end of the connection, which send_ipc takes for one.
Answered(c) == /\ conn' = [conn EXCEPT ![c] = None]
               /\ cpc' = [cpc EXCEPT ![c] = IF @ = "command" THEN "idle" ELSE "command"]
               /\ tries' = [tries EXCEPT ![c] = 0]
               /\ UNCHANGED <<late, daemonVars>>

Reply(c) == conn[c] # None /\ dpc[conn[c]] = "serve" /\ Answered(c)

\* The last process that has the socket open has closed it.
HangsUp(d) == dpc[d] \in {"none", "unlink"} /\ ~picker[d]

Dropped(c) == conn[c] # None /\ HangsUp(conn[c]) /\ Answered(c)

AfterStart == "waitService"
ServiceProbes == ServiceTries

\* systemctl --user start, whose result is not looked at: there is nothing to
\* do for a running service, and it may fail.
Start(c) == /\ cpc[c] = "start"
            /\ cpc' = [cpc EXCEPT ![c] = AfterStart]
            /\ tries' = [tries EXCEPT ![c] = ServiceProbes]
            /\ \/ /\ unit = None
                  /\ \E d \in Daemons : Launch(d) /\ unit' = d
                  /\ restart' = FALSE
               \/ UNCHANGED <<dpc, unit, restart>>
            /\ UNCHANGED <<sock, picker, lost, conn, late>>

\* spawn_detached notices when fork fails, and does not when exec does.
Spawn(c) == /\ cpc[c] = "spawn"
            /\ cpc' = [cpc EXCEPT ![c] = "waitDetached"]
            /\ tries' = [tries EXCEPT ![c] = DetachedTries]
            /\ (\E d \in Daemons : Launch(d)) \/ UNCHANGED dpc
            /\ UNCHANGED <<sock, picker, unit, restart, lost, conn, late>>

SpawnFails(c) == /\ cpc[c] = "spawn"
                 /\ cpc' = [cpc EXCEPT ![c] = "idle"]
                 /\ UNCHANGED <<tries, conn, late, daemonVars>>

-----------------------------------------------------------------------------
DaemonStep(d) == Remove(d) \/ Bind(d) \/ BindFails(d) \/ Listen(d) \/ Unlink(d)
ClientStep(c) == Connect(c) \/ Refused(c) \/ Reply(c) \/ Dropped(c) \/ Start(c)
                 \/ Spawn(c) \/ SpawnFails(c)

Next == \/ \E d \in Daemons : \/ DaemonStep(d) \/ OpenPicker(d) \/ PickerExits(d)
                              \/ Stop(d) \/ Crash(d)
        \/ Restart
        \/ \E c \in Clients : Command(c) \/ ClientStep(c)

\* Processes that can run do; nothing makes a daemon end, or the user type.
Fairness == /\ \A d \in Daemons : WF_vars(DaemonStep(d))
            /\ \A c \in Clients : WF_vars(ClientStep(c))

Spec == Init /\ [][Next]_vars
FairSpec == Spec /\ Fairness

-----------------------------------------------------------------------------
(* Properties.                                                             *)

TypeOK == /\ dpc \in [Daemons -> {"none", "remove", "bind", "listen", "serve", "unlink"}]
          /\ sock \in Daemons \cup {None}
          /\ picker \in [Daemons -> BOOLEAN]
          /\ unit \in Daemons \cup {None}
          /\ restart \in BOOLEAN
          /\ cpc \in [Clients -> {"idle", "start", "spawn"} \cup Probing]
          /\ tries \in [Clients -> 0..(IF ServiceTries > DetachedTries
                                       THEN ServiceTries ELSE DetachedTries)]
          /\ conn \in [Clients -> Daemons \cup {None}]
          /\ late \in BOOLEAN
          /\ lost \in BOOLEAN

\* There is a second daemon only after some client has waited for the service
\* in vain: clients that start the service at the same time, and systemd that
\* starts it again, share one.
OneDaemonUnlessLate == Cardinality(Alive) > 1 => late

\* However the starts of several daemons interleave, each removing the socket
\* file of the other, in the end the path names one that serves, until a
\* daemon ends: a bind that fails leaves the winner its file.
ReachableUnlessLost ==
  /\ Alive = Serving
  /\ Serving # {}
  /\ ~lost
  => sock \in Serving

\* A command ends, with an answer or an error, however daemons come and go
\* during its three rounds of probes, unless it comes to wait on the socket of
\* a dead daemon that a picker has inherited (the read of cli/main.cpp:44 has
\* no timeout).
WaitsForTheDead(c) == \E d \in Daemons \ Serving : conn[c] = d /\ picker[d]
ClientsEnd == \A c \in Clients : cpc[c] # "idle" ~> cpc[c] = "idle" \/ WaitsForTheDead(c)
=============================================================================
