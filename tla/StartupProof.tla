---------------------------- MODULE StartupProof ----------------------------
(***************************************************************************)
(* Proofs about Startup, for every number of clients, daemons and probes.  *)
(***************************************************************************)
EXTENDS Startup, FiniteSetTheorems, TLAPS

\* A client comes to spawn a daemon only after it has waited for the service.
LateInv == \A c \in Clients : /\ cpc[c] = "waitService" => tries[c] >= 1
                              /\ cpc[c] \in {"spawn", "waitDetached"} => late

\* Until a client is late, daemons are started as the service only.
UnitInv == ~late => \A d \in Daemons : dpc[d] # "none" => unit = d

\* Until a daemon ends, the path names one that has bound it, or one is about
\* to bind it, or none ever has.
PathInv ==
  ~lost =>
    IF sock # None THEN dpc[sock] \in {"listen", "serve", "unlink"}
    ELSE \/ \E d \in Daemons : dpc[d] = "bind"
         \/ \A d \in Daemons : dpc[d] \in {"none", "remove"}

IInv == TypeOK /\ LateInv /\ UnitInv /\ PathInv

USE NoneAssumption, TriesAssumption
USE DEF Probing, daemonVars, clientVars, Reachable, Accepts, Free, PathAfterFailure,
        AfterStart, ServiceProbes, HangsUp, WaitsForTheDead, Serving, Alive

\* Before anybody has started anything the invariant holds.
LEMMA InitIInv == Init => IInv
<1> SUFFICES ASSUME Init PROVE IInv
  OBVIOUS
<1>1. TypeOK
  <2>1. /\ dpc \in [Daemons -> {"none", "remove", "bind", "listen", "serve", "unlink"}]
        /\ sock \in Daemons \cup {None} /\ unit \in Daemons \cup {None}
        /\ cpc \in [Clients -> {"idle", "start", "spawn"} \cup Probing]
        /\ conn \in [Clients -> Daemons \cup {None}]
    BY DEF Init
  <2>2. tries \in [Clients -> 0..(IF ServiceTries > DetachedTries
                                 THEN ServiceTries ELSE DetachedTries)]
    BY DEF Init
  <2>3. /\ picker \in [Daemons -> BOOLEAN]
        /\ restart \in BOOLEAN /\ late \in BOOLEAN /\ lost \in BOOLEAN
    BY Zenon DEF Init
  <2> QED BY <2>1, <2>2, <2>3 DEF TypeOK
<1>2. LateInv
  BY DEF Init, LateInv
<1>3. UnitInv
  BY DEF Init, UnitInv
<1>4. PathInv
  BY DEF Init, PathInv
<1> QED BY <1>1, <1>2, <1>3, <1>4 DEF IInv

\* Boolean histories and flags, apart from arithmetic.
LEMMA Flags ==
  ASSUME NEW p, NEW q
  PROVE  /\ (p \/ q) \in BOOLEAN
         /\ (p /\ q) \in BOOLEAN
  OBVIOUS

\* The steps ensure_daemon goes to.
LEMMA RefusalSteps ==
  ASSUME NEW step \in Probing, NEW left
  PROVE  AfterRefusal(step, left) \in {"idle", "start", "spawn"} \cup Probing
  BY DEF AfterRefusal

\* A daemon that ends keeps the types of what goes with it.
LEMMA GoneTypes ==
  ASSUME TypeOK, NEW d \in Daemons, NEW failed, Gone(d, failed)
  PROVE  /\ dpc' \in [Daemons -> {"none", "remove", "bind", "listen", "serve", "unlink"}]
         /\ unit' \in Daemons \cup {None}
         /\ restart' \in BOOLEAN
         /\ picker' \in [Daemons -> BOOLEAN]
<1>1. dpc' \in [Daemons -> {"none", "remove", "bind", "listen", "serve", "unlink"}]
  BY DEF TypeOK, Gone
<1>2. unit' \in Daemons \cup {None}
  BY DEF TypeOK, Gone
<1>3. restart' \in BOOLEAN
  BY Zenon DEF Gone
<1>4. picker' \in [Daemons -> BOOLEAN]
  <2>1. picker' = [picker EXCEPT ![d] = picker[d] /\ unit # d]
    BY DEF Gone
  <2>2. (picker[d] /\ unit # d) \in BOOLEAN
    BY Flags, Zenon
  <2> QED BY <2>1, <2>2 DEF TypeOK
<1> QED BY <1>1, <1>2, <1>3, <1>4

\* Every step of a daemon, of systemd and of a client keeps the types.
LEMMA StepTypeOK == IInv /\ [Next]_vars => TypeOK'
<1> SUFFICES ASSUME IInv, [Next]_vars PROVE TypeOK'
  OBVIOUS
<1>0. TypeOK
  BY DEF IInv
<1>1. ASSUME NEW d \in Daemons, Remove(d) PROVE TypeOK'
  BY <1>0, <1>1 DEF Remove, TypeOK
<1>2. ASSUME NEW d \in Daemons, Bind(d) PROVE TypeOK'
  BY <1>0, <1>2 DEF Bind, TypeOK
<1>3. ASSUME NEW d \in Daemons, BindFails(d) PROVE TypeOK'
  <2>1. Gone(d, TRUE)
    BY <1>3 DEF BindFails
  <2> QED BY <1>0, <1>3, <2>1, GoneTypes DEF BindFails, TypeOK
<1>4. ASSUME NEW d \in Daemons, Listen(d) PROVE TypeOK'
  BY <1>0, <1>4 DEF Listen, TypeOK
<1>5. ASSUME NEW d \in Daemons, Unlink(d) PROVE TypeOK'
  <2>1. Gone(d, FALSE)
    BY <1>5 DEF Unlink
  <2> QED BY <1>0, <1>5, <2>1, GoneTypes DEF Unlink, TypeOK
<1>6. ASSUME NEW d \in Daemons, OpenPicker(d) PROVE TypeOK'
  BY <1>0, <1>6 DEF OpenPicker, TypeOK
<1>7. ASSUME NEW d \in Daemons, PickerExits(d) PROVE TypeOK'
  BY <1>0, <1>7 DEF PickerExits, TypeOK
<1>8. ASSUME NEW d \in Daemons, Stop(d) PROVE TypeOK'
  BY <1>0, <1>8 DEF Stop, TypeOK
<1>9. ASSUME NEW d \in Daemons, Crash(d) PROVE TypeOK'
  <2>1. PICK failed \in BOOLEAN : Gone(d, failed)
    BY <1>9 DEF Crash
  <2> QED BY <1>0, <1>9, <2>1, GoneTypes DEF Crash, TypeOK
<1>10. CASE Restart
  BY <1>0, <1>10 DEF Restart, Launch, TypeOK
<1>11. ASSUME NEW c \in Clients, Command(c) PROVE TypeOK'
  BY <1>0, <1>11 DEF Command, TypeOK
<1>12. ASSUME NEW c \in Clients, Connect(c) PROVE TypeOK'
  BY <1>0, <1>12 DEF Connect, TypeOK
<1>13. ASSUME NEW c \in Clients, Refused(c) PROVE TypeOK'
  <2>1. late' \in BOOLEAN
    BY <1>13, Zenon DEF Refused
  <2>2. AfterRefusal(cpc[c], tries[c]) \in {"idle", "start", "spawn"} \cup Probing
    BY <1>13, RefusalSteps DEF Refused
  <2>3. cpc' \in [Clients -> {"idle", "start", "spawn"} \cup Probing]
    BY <1>0, <1>13, <2>2 DEF Refused, TypeOK
  <2>4. tries' \in [Clients -> 0..(IF ServiceTries > DetachedTries
                                   THEN ServiceTries ELSE DetachedTries)]
    BY <1>0, <1>13 DEF Refused, TypeOK
  <2> QED BY <1>0, <1>13, <2>1, <2>3, <2>4 DEF Refused, TypeOK
<1>14. ASSUME NEW c \in Clients, Reply(c) \/ Dropped(c) PROVE TypeOK'
  BY <1>0, <1>14 DEF Reply, Dropped, Answered, TypeOK
<1>15. ASSUME NEW c \in Clients, Start(c) PROVE TypeOK'
  <2>1. /\ dpc' \in [Daemons -> {"none", "remove", "bind", "listen", "serve", "unlink"}]
        /\ unit' \in Daemons \cup {None}
        /\ restart' \in BOOLEAN
    <3>1. CASE UNCHANGED <<dpc, unit, restart>>
      BY <1>0, <3>1 DEF TypeOK
    <3>2. ASSUME NEW d \in Daemons, Launch(d), unit' = d, restart' = FALSE
          PROVE  /\ dpc' \in [Daemons -> {"none", "remove", "bind", "listen", "serve",
                                       "unlink"}]
                 /\ unit' \in Daemons \cup {None}
                 /\ restart' \in BOOLEAN
      <4>1. restart' \in BOOLEAN
        BY <3>2, Zenon
      <4> QED BY <1>0, <3>2, <4>1 DEF Launch, TypeOK
    <3> QED BY <1>15, <3>1, <3>2 DEF Start
  <2>2. cpc' \in [Clients -> {"idle", "start", "spawn"} \cup Probing]
    BY <1>0, <1>15 DEF Start, TypeOK
  <2>3. tries' \in [Clients -> 0..(IF ServiceTries > DetachedTries
                                   THEN ServiceTries ELSE DetachedTries)]
    BY <1>0, <1>15 DEF Start, TypeOK
  <2> QED BY <1>0, <1>15, <2>1, <2>2, <2>3 DEF Start, TypeOK
<1>16. ASSUME NEW c \in Clients, Spawn(c) PROVE TypeOK'
  BY <1>0, <1>16 DEF Spawn, Launch, TypeOK
<1>17. ASSUME NEW c \in Clients, SpawnFails(c) PROVE TypeOK'
  BY <1>0, <1>17 DEF SpawnFails, TypeOK
<1>18. CASE UNCHANGED vars
  BY <1>0, <1>18 DEF vars, TypeOK
<1> QED
  BY <1>1, <1>2, <1>3, <1>4, <1>5, <1>6, <1>7, <1>8, <1>9, <1>10, <1>11, <1>12, <1>13,
     <1>14, <1>15, <1>16, <1>17, <1>18
  DEF Next, DaemonStep, ClientStep

\* ensure_daemon spawns a daemon only when its probes of the service are used up.
LEMMA StepLate == IInv /\ [Next]_vars => LateInv'
<1> SUFFICES ASSUME IInv, [Next]_vars PROVE LateInv'
  OBVIOUS
<1>0. TypeOK /\ LateInv
  BY DEF IInv
<1>1. CASE UNCHANGED clientVars
  BY <1>0, <1>1 DEF LateInv
<1>2. ASSUME NEW c \in Clients, Command(c) \/ Connect(c) \/ Reply(c) \/ Dropped(c)
                                \/ SpawnFails(c)
      PROVE LateInv'
  BY <1>0, <1>2 DEF Command, Connect, Reply, Dropped, SpawnFails, Answered, LateInv, TypeOK
<1>3. ASSUME NEW c \in Clients, Refused(c) PROVE LateInv'
  <2>1. ASSUME NEW k \in Clients, k # c
        PROVE  cpc'[k] = cpc[k] /\ tries'[k] = tries[k]
    BY <1>0, <1>3, <2>1 DEF Refused, TypeOK
  <2>2. late => late'
    BY <1>3, Zenon DEF Refused
  <2>3. cpc'[c] = AfterRefusal(cpc[c], tries[c])
    BY <1>0, <1>3 DEF Refused, TypeOK
  <2>4. tries[c] \in Nat /\ tries'[c] = IF tries[c] > 0 THEN tries[c] - 1 ELSE 0
    BY <1>0, <1>3 DEF Refused, TypeOK
  <2>5. cpc'[c] = "waitService" => tries[c] > 1
    BY <1>3, <2>3 DEF AfterRefusal, Refused
  <2>6. cpc'[c] = "spawn" => cpc[c] = "waitService" /\ ~(tries[c] > 1)
    BY <1>3, <2>3 DEF AfterRefusal, Refused
  <2>7. cpc'[c] = "spawn" => late'
    <3>1. cpc'[c] = "spawn" => cpc[c] = "waitService" /\ tries[c] = 1
      BY <1>0, <2>4, <2>6 DEF LateInv
    <3> QED BY <1>3, <3>1, Zenon DEF Refused
  <2>8. cpc'[c] = "waitDetached" => cpc[c] = "waitDetached"
    BY <1>3, <2>3 DEF AfterRefusal, Refused
  <2>9. cpc'[c] = "waitDetached" => late'
    BY <1>0, <2>8, <2>2 DEF LateInv
  <2>10. cpc'[c] = "waitService" => tries'[c] >= 1
    BY <2>4, <2>5
  <2> SUFFICES ASSUME NEW k \in Clients
               PROVE  /\ cpc'[k] = "waitService" => tries'[k] >= 1
                      /\ cpc'[k] \in {"spawn", "waitDetached"} => late'
    BY DEF LateInv
  <2>11. CASE k = c
    BY <2>7, <2>9, <2>10, <2>11
  <2>12. CASE k # c
    BY <1>0, <2>1, <2>2, <2>12 DEF LateInv
  <2> QED BY <2>11, <2>12
<1>4. ASSUME NEW c \in Clients, Start(c) PROVE LateInv'
  BY <1>0, <1>4 DEF Start, LateInv, TypeOK
<1>5. ASSUME NEW c \in Clients, Spawn(c) PROVE LateInv'
  BY <1>0, <1>5 DEF Spawn, LateInv, TypeOK
<1> QED
  BY <1>1, <1>2, <1>3, <1>4, <1>5
  DEF Next, DaemonStep, ClientStep, vars, Remove, Bind, BindFails, Listen, Unlink,
      OpenPicker, PickerExits, Stop, Crash, Restart

\* systemd starts the service only when it is not running.
LEMMA StepUnit == IInv /\ [Next]_vars => UnitInv'
<1> SUFFICES ASSUME IInv, [Next]_vars PROVE UnitInv'
  OBVIOUS
<1>0. TypeOK /\ LateInv /\ UnitInv
  BY DEF IInv
<1>1. CASE UNCHANGED <<dpc, unit>> /\ (late => late')
  BY <1>0, <1>1 DEF UnitInv
<1>2. ASSUME NEW d \in Daemons, Remove(d) \/ Bind(d) \/ Listen(d) \/ Stop(d)
      PROVE UnitInv'
  BY <1>0, <1>2 DEF Remove, Bind, Listen, Stop, UnitInv, TypeOK
<1>3. ASSUME NEW d \in Daemons, NEW failed, Gone(d, failed), late' = late PROVE UnitInv'
  BY <1>0, <1>3 DEF Gone, UnitInv, TypeOK
<1>4. CASE Restart
  BY <1>0, <1>4 DEF Restart, Launch, UnitInv, TypeOK
<1>5. ASSUME NEW c \in Clients, Start(c) PROVE UnitInv'
  BY <1>0, <1>5 DEF Start, Launch, UnitInv, TypeOK
<1>6. ASSUME NEW c \in Clients, Spawn(c) PROVE UnitInv'
  BY <1>0, <1>6 DEF Spawn, LateInv, UnitInv
<1>7. ASSUME NEW c \in Clients,
             Command(c) \/ Connect(c) \/ Refused(c) \/ Reply(c) \/ Dropped(c) \/ SpawnFails(c)
      PROVE  UNCHANGED <<dpc, unit>> /\ (late => late')
  <2>1. UNCHANGED <<dpc, unit>>
    BY <1>7 DEF Command, Connect, Refused, Reply, Dropped, SpawnFails, Answered
  <2>2. CASE Refused(c)
    <3>1. late => late'
      BY <2>2, Zenon DEF Refused
    <3> QED BY <2>1, <3>1
  <2>3. CASE late' = late
    BY <2>1, <2>3
  <2> QED BY <1>7, <2>2, <2>3 DEF Command, Connect, Reply, Dropped, SpawnFails, Answered
<1>8. ASSUME NEW d \in Daemons, OpenPicker(d) \/ PickerExits(d)
      PROVE  UNCHANGED <<dpc, unit>> /\ (late => late')
  BY <1>8 DEF OpenPicker, PickerExits
<1>9. ASSUME NEW d \in Daemons, BindFails(d) \/ Unlink(d) \/ Crash(d) PROVE UnitInv'
  BY <1>3, <1>9 DEF BindFails, Unlink, Crash
<1>10. UNCHANGED vars => UNCHANGED <<dpc, unit>> /\ (late => late')
  BY DEF vars
<1> QED
  BY <1>1, <1>2, <1>4, <1>5, <1>6, <1>7, <1>8, <1>9, <1>10 DEF Next, DaemonStep, ClientStep

\* The path is taken from a daemon only by one that is going to bind it, or
\* with the end of a daemon.
LEMMA StepPath == IInv /\ [Next]_vars => PathInv'
<1> SUFFICES ASSUME IInv, [Next]_vars PROVE PathInv'
  OBVIOUS
<1>0. TypeOK /\ PathInv
  BY DEF IInv
<1>1. CASE UNCHANGED <<dpc, sock, lost>>
  BY <1>0, <1>1 DEF PathInv
<1>2. ASSUME NEW d \in Daemons, Remove(d) PROVE PathInv'
  BY <1>0, <1>2 DEF Remove, PathInv, TypeOK
<1>3. ASSUME NEW d \in Daemons, Bind(d) PROVE PathInv'
  BY <1>0, <1>3 DEF Bind, PathInv, TypeOK
<1>4. ASSUME NEW d \in Daemons, BindFails(d) PROVE PathInv'
  BY <1>0, <1>4 DEF BindFails, Gone, PathInv, TypeOK
<1>5. ASSUME NEW d \in Daemons, Listen(d) \/ Stop(d) PROVE PathInv'
  BY <1>0, <1>5 DEF Listen, Stop, PathInv, TypeOK
<1>6. ASSUME NEW d \in Daemons, Unlink(d) \/ Crash(d) PROVE PathInv'
  BY <1>6 DEF Unlink, Crash, PathInv
<1>7. ASSUME NEW d \in Daemons, Launch(d), UNCHANGED <<sock, lost>> PROVE PathInv'
  BY <1>0, <1>7 DEF Launch, PathInv, TypeOK
<1>8. CASE Restart
  BY <1>1, <1>7, <1>8 DEF Restart
<1>9. ASSUME NEW c \in Clients, Start(c) \/ Spawn(c) PROVE PathInv'
  BY <1>1, <1>7, <1>9 DEF Start, Spawn
<1>10. ASSUME NEW c \in Clients,
              Command(c) \/ Connect(c) \/ Refused(c) \/ Reply(c) \/ Dropped(c) \/ SpawnFails(c)
       PROVE  UNCHANGED <<dpc, sock, lost>>
  BY <1>10 DEF Command, Connect, Refused, Reply, Dropped, SpawnFails, Answered
<1>11. ASSUME NEW d \in Daemons, OpenPicker(d) \/ PickerExits(d)
       PROVE  UNCHANGED <<dpc, sock, lost>>
  BY <1>11 DEF OpenPicker, PickerExits
<1>12. UNCHANGED vars => UNCHANGED <<dpc, sock, lost>>
  BY DEF vars
<1> QED
  BY <1>1, <1>2, <1>3, <1>4, <1>5, <1>6, <1>8, <1>9, <1>10, <1>11, <1>12
  DEF Next, DaemonStep, ClientStep

\* The strengthened invariant holds throughout.
THEOREM IInvHolds == Spec => []IInv
<1>1. IInv /\ [Next]_vars => IInv'
  BY StepTypeOK, StepLate, StepUnit, StepPath DEF IInv
<1> QED BY <1>1, InitIInv, PTL DEF Spec

\* Type correctness: in particular the probes of ensure_daemon stay in bounds.
THEOREM TypeCorrect == Spec => []TypeOK
<1>1. IInv => TypeOK
  BY DEF IInv
<1> QED BY <1>1, IInvHolds, PTL

\* Clients that start the daemon at the same time, and systemd that starts it
\* again, share one, as long as no client has waited in vain (ensure_daemon).
THEOREM OneDaemon == Spec => []OneDaemonUnlessLate
<1>1. IInv => OneDaemonUnlessLate
  <2> SUFFICES ASSUME IInv, ~late PROVE ~(Cardinality(Alive) > 1)
    BY DEF OneDaemonUnlessLate
  <2>1. Alive = {} \/ Alive = {unit}
    BY DEF IInv, UnitInv
  <2>2. Cardinality(Alive) = 0 \/ Cardinality(Alive) = 1
    BY <2>1, FS_EmptySet, FS_Singleton
  <2> QED BY <2>2
<1> QED BY <1>1, IInvHolds, PTL

\* When several daemons have started and none has ended since, the path of the
\* socket names one that serves (main of daemon/main.cpp).
THEOREM PathLeadsToADaemon == Spec => []ReachableUnlessLost
<1>1. IInv => ReachableUnlessLost
  BY DEF IInv, PathInv, ReachableUnlessLost, TypeOK
<1> QED BY <1>1, IInvHolds, PTL
=============================================================================
