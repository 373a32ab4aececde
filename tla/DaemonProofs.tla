----------------------------- MODULE DaemonProofs -----------------------------
(***************************************************************************)
(* Proofs about the daemon's process (Daemon) and about its copy of the    *)
(* files (Mirror, in the second half).                                     *)
(*                                                                         *)
(* Of the process, for any number of supervisors, slow or fast probes and  *)
(* start-ups: the types, that a living process keeps the lock only while   *)
(* it starts, that a stop is not undone by a respawn and takes effect, and *)
(* that a crash is recovered from.                                         *)
(*                                                                         *)
(* All rest on the supervisor's side of the bargain: a daemon that lives   *)
(* has its supervisor (Supervised), so that a lock never outlives the      *)
(* process it names to be taken for its successor's; and a supervisor that *)
(* was told to stop is gone, is shutting down, or is alone with the        *)
(* sentinel (Told).  Of the files, everything a dead daemon leaves names   *)
(* the dead.                                                               *)
(*                                                                         *)
(* The liveness theorems assume the fairness of the specification in the   *)
(* form "again and again the guard is false, or again and again the action *)
(* is taken", with the action's guard written out.                         *)
(***************************************************************************)
EXTENDS Daemon, Mirror, TLAPS

\* A daemon runs under a supervisor that waits for its end.
Supervised == \A s \in Sup : Alive(s) => sup[s].at = "supervising"

IInv == TypeOK /\ Supervised /\ LockMeansStartup

----------------------------------------------------------------------------
(* Files and probes. *)

LEMMA HealthyIsAlive ==
  ASSUME NEW pid, TRUE \in Health(pid)
  PROVE  PidAlive(pid)
BY DEF Health

LEMMA CleanType ==
  ASSUME TypeOK, CleanFiles
  PROVE  /\ info' \in Pid
         /\ lock' \in [pid : Pid, present : BOOLEAN, old : BOOLEAN]
         /\ lock' = lock \/ ~lock'.present
BY DEF TypeOK, CleanFiles, NoPid, Pid, Unlocked

LEMMA BuriedType ==
  ASSUME NEW s \in Sup, NEW pid \in Pid
  PROVE  /\ Buried(s, pid) \in Pid
         /\ PidAlive(Buried(s, pid)) => Buried(s, pid) = pid /\ pid.by # s
BY DEF Buried, Pid, PidAlive

LEMMA SeenType ==
  ASSUME TypeOK, NEW s \in Sup
  PROVE  SeenWithout(s) \in [Viewer -> Pid]
BY BuriedType DEF TypeOK, SeenWithout, Viewer, NoPid, Pid

LEMMA AbandonType ==
  ASSUME TypeOK, NEW s \in Sup, AbandonFiles(s)
  PROVE  /\ info' \in Pid
         /\ lock' \in [pid : Pid, present : BOOLEAN, old : BOOLEAN]
         /\ PidAlive(lock'.pid) => lock'.pid = lock.pid /\ lock.pid.by # s
         /\ lock'.present = lock.present
<1>1. lock.pid \in Pid
  BY DEF TypeOK
<1> QED BY <1>1, BuriedType DEF TypeOK, AbandonFiles

\* The lock stays what it says if it goes, loses its owner, or keeps an owner that starts on.
LEMMA LockKept ==
  ASSUME TypeOK, LockMeansStartup,
         lock' \in [pid : Pid, present : BOOLEAN, old : BOOLEAN],
         \/ ~lock'.present
         \/ ~PidAlive(lock'.pid)
         \/ /\ lock.present /\ lock'.pid = lock.pid
            /\ InStartup(lock.pid.by) => child'[lock.pid.by] \in {"starting", "listening", "published"}
  PROVE  LockMeansStartup'
<1> SUFFICES ASSUME lock'.present, PidAlive(lock'.pid)
             PROVE  child'[lock'.pid.by] \in {"starting", "listening", "published"}
  BY DEF LockMeansStartup, PidAlive, InStartup
<1> QED BY DEF LockMeansStartup

LEMMA SupervisorRecords ==
  /\ Absent \in SupRecord /\ GaveUp \in SupRecord
  /\ [Absent EXCEPT !.at = "supervising"] \in SupRecord
  /\ [Absent EXCEPT !.at = "probing"] \in SupRecord
<1>1. Absent \in SupRecord
  BY MaxRestartsAssumption DEF SupRecord, Absent
<1> QED BY <1>1, MaxRestartsAssumption DEF SupRecord, GaveUp

LEMMA BackoffRecord ==
  ASSUME NEW r \in SupRecord, ~(r.restarts + 1 >= MaxRestarts)
  PROVE  BacksOff(r) \in SupRecord
<1>1. r.restarts + 1 \in 0 .. MaxRestarts
  BY MaxRestartsAssumption DEF SupRecord
<1>2. /\ DOMAIN r = {"at", "restarts", "shuttingDown"}
      /\ r.at \in {"absent", "probing", "supervising", "backoff"} /\ r.shuttingDown \in BOOLEAN
  BY DEF SupRecord
<1> QED BY <1>1, <1>2 DEF SupRecord, BacksOff


----------------------------------------------------------------------------
(* The supervisor. *)

LEMMA SupervisorKeeps ==
  ASSUME IInv, NEW s \in Sup,
         \/ Start(s)
         \/ StartProbing(s)
         \/ StartFindsDaemon(s)
         \/ StartFindsNone(s)
         \/ ChildEnded(s)
         \/ ChildCrashed(s)
         \/ Respawn(s)
         \/ StopInBackoff(s)
         \/ ForgetRestarts(s)
  PROVE  IInv'
<1> USE DEF IInv
<1>1. CASE Start(s)
  <2>1. TypeOK'
    BY <1>1, MaxRestartsAssumption, CleanType, SupervisorRecords DEF Start, TypeOK, Spawn, Phase
  <2>2. Supervised'
    BY <1>1 DEF Start, TypeOK, Supervised, Alive, Spawn, SupRecord, Absent, GaveUp
  <2>3. LockMeansStartup'
    BY <1>1, <2>1, LockKept, CleanType DEF Start, TypeOK, InStartup, Spawn, Phase, Alive, CleanFiles, Unlocked
  <2> QED BY <2>1, <2>2, <2>3
<1>2. CASE StartProbing(s)
  <2>1. TypeOK'
    BY <1>2, MaxRestartsAssumption, SupervisorRecords DEF StartProbing, TypeOK, Viewer
  <2>2. Supervised'
    BY <1>2 DEF StartProbing, TypeOK, Supervised, Alive, SupRecord, Absent, GaveUp
  <2>3. LockMeansStartup'
    BY <1>2, <2>1, LockKept DEF StartProbing, TypeOK, InStartup
  <2> QED BY <2>1, <2>2, <2>3
<1>3. CASE StartFindsDaemon(s)
  <2>1. TypeOK'
    BY <1>3, MaxRestartsAssumption DEF StartFindsDaemon, TypeOK, SupRecord, Absent, GaveUp, Viewer, NoPid, Pid
  <2>2. Supervised'
    BY <1>3 DEF StartFindsDaemon, TypeOK, Supervised, Alive, SupRecord, Absent, GaveUp
  <2>3. LockMeansStartup'
    BY <1>3, <2>1, LockKept DEF StartFindsDaemon, TypeOK, InStartup
  <2> QED BY <2>1, <2>2, <2>3
<1>4. CASE StartFindsNone(s)
  <2>1. TypeOK'
    <3>1. sup' \in [Sup -> SupRecord]
      BY <1>4 DEF StartFindsNone, TypeOK, SupRecord
    <3>2. child' \in [Sup -> Phase] /\ seen' \in [Viewer -> Pid]
      BY <1>4 DEF StartFindsNone, Spawn, TypeOK, Phase, Viewer, NoPid, Pid
    <3> QED BY <1>4, <3>1, <3>2, CleanType DEF StartFindsNone, TypeOK
  <2>2. Supervised'
    BY <1>4 DEF StartFindsNone, TypeOK, Supervised, Alive, Spawn, SupRecord, Absent, GaveUp
  <2>3. LockMeansStartup'
    BY <1>4, <2>1, LockKept, CleanType DEF StartFindsNone, TypeOK, InStartup, Spawn, Phase, Supervised, Alive
  <2> QED BY <2>1, <2>2, <2>3
<1>5. CASE ChildEnded(s)
  <2>1. TypeOK'
    BY <1>5, MaxRestartsAssumption DEF ChildEnded, TypeOK, Phase, SupRecord, Absent, GaveUp
  <2>2. Supervised'
    BY <1>5 DEF ChildEnded, TypeOK, Supervised, Alive, SupRecord, Absent, GaveUp
  <2>3. LockMeansStartup'
    BY <1>5, <2>1, LockKept DEF ChildEnded, TypeOK, InStartup, Phase
  <2> QED BY <2>1, <2>2, <2>3
<1>6. CASE ChildCrashed(s)
  <2>1. TypeOK'
    <3>1. sup[s] \in SupRecord
      BY DEF TypeOK
    <3>2. sup'[s] \in SupRecord
      BY <1>6, <3>1, SupervisorRecords, BackoffRecord DEF ChildCrashed, TypeOK
    <3>3. sup' \in [Sup -> SupRecord]
      BY <1>6, <3>2 DEF ChildCrashed, TypeOK
    <3> QED BY <1>6, <3>3 DEF ChildCrashed, TypeOK, Phase
  <2>2. Supervised'
    BY <1>6 DEF ChildCrashed, TypeOK, Supervised, Alive, SupRecord, Absent, GaveUp
  <2>3. LockMeansStartup'
    BY <1>6, <2>1, LockKept DEF ChildCrashed, TypeOK, InStartup, Phase
  <2> QED BY <2>1, <2>2, <2>3
<1>7. CASE Respawn(s)
  <2>1. TypeOK'
    BY <1>7, MaxRestartsAssumption DEF Respawn, TypeOK, Spawn, Phase, SupRecord, Absent, GaveUp
  <2>2. Supervised'
    BY <1>7 DEF Respawn, TypeOK, Supervised, Alive, Spawn, SupRecord, Absent, GaveUp
  <2>3. LockMeansStartup'
    BY <1>7, <2>1, LockKept DEF Respawn, TypeOK, InStartup, Spawn, Supervised, Alive, Phase
  <2> QED BY <2>1, <2>2, <2>3
<1>8. CASE StopInBackoff(s)
  <2>1. TypeOK'
    BY <1>8, MaxRestartsAssumption, SupervisorRecords DEF StopInBackoff, TypeOK
  <2>2. Supervised'
    BY <1>8 DEF StopInBackoff, TypeOK, Supervised, Alive, SupRecord, Absent, GaveUp
  <2>3. LockMeansStartup'
    BY <1>8, <2>1, LockKept DEF StopInBackoff, TypeOK, InStartup
  <2> QED BY <2>1, <2>2, <2>3
<1>9. CASE ForgetRestarts(s)
  <2>1. TypeOK'
    BY <1>9, MaxRestartsAssumption DEF ForgetRestarts, TypeOK, SupRecord, Absent, GaveUp
  <2>2. Supervised'
    BY <1>9 DEF ForgetRestarts, TypeOK, Supervised, Alive, SupRecord, Absent, GaveUp
  <2>3. LockMeansStartup'
    BY <1>9, <2>1, LockKept DEF ForgetRestarts, TypeOK, InStartup
  <2> QED BY <2>1, <2>2, <2>3
<1> QED BY <1>1, <1>2, <1>3, <1>4, <1>5, <1>6, <1>7, <1>8, <1>9

----------------------------------------------------------------------------
(* The daemon. *)

LEMMA DaemonKeeps ==
  ASSUME IInv, NEW s \in Sup,
         \/ Look(s)
         \/ FindsDaemon(s)
         \/ FindsNone(s)
         \/ Clean(s)
         \/ AcquireLock(s)
         \/ FindStaleLock(s)
         \/ UnlinkStaleLock(s)
         \/ LockIsTaken(s)
         \/ WaitedInVain(s)
         \/ LookAgain(s)
         \/ Rechecked(s)
         \/ StartFails(s)
         \/ Listen(s)
         \/ Publish(s)
         \/ ReleaseLock(s)
         \/ Fail(s)
         \/ EndShutdown(s)
         \/ ForceExit(s)
         \/ Crash(s)
  PROVE  IInv'
<1> USE DEF IInv
<1>1. CASE Look(s)
  <2>1. TypeOK'
    BY <1>1, MaxRestartsAssumption DEF Look, TypeOK, Phase, Viewer
  <2>2. Supervised'
    BY <1>1 DEF Look, TypeOK, Supervised, Alive
  <2>3. LockMeansStartup'
    BY <1>1, <2>1, LockKept DEF Look, TypeOK, InStartup, Phase
  <2> QED BY <2>1, <2>2, <2>3
<1>2. CASE FindsDaemon(s)
  <2>1. TypeOK'
    BY <1>2, MaxRestartsAssumption, AbandonType, SeenType DEF FindsDaemon, TypeOK, Exit, Bury, Phase
  <2>2. Supervised'
    BY <1>2 DEF FindsDaemon, TypeOK, Supervised, Alive, Exit, Bury
  <2>3. LockMeansStartup'
    BY <1>2, <2>1, LockKept, AbandonType DEF FindsDaemon, TypeOK, InStartup, Exit, Bury
  <2> QED BY <2>1, <2>2, <2>3
<1>3. CASE FindsNone(s)
  <2>1. TypeOK'
    BY <1>3, MaxRestartsAssumption DEF FindsNone, TypeOK, Phase, Viewer, NoPid, Pid
  <2>2. Supervised'
    BY <1>3 DEF FindsNone, TypeOK, Supervised, Alive
  <2>3. LockMeansStartup'
    BY <1>3, <2>1, LockKept DEF FindsNone, TypeOK, InStartup
  <2> QED BY <2>1, <2>2, <2>3
<1>4. CASE Clean(s)
  <2>1. TypeOK'
    BY <1>4, MaxRestartsAssumption, CleanType DEF Clean, TypeOK, Phase
  <2>2. Supervised'
    BY <1>4 DEF Clean, TypeOK, Supervised, Alive
  <2>3. LockMeansStartup'
    BY <1>4, <2>1, LockKept, CleanType DEF Clean, TypeOK, InStartup
  <2> QED BY <2>1, <2>2, <2>3
<1>5. CASE AcquireLock(s)
  <2>1. TypeOK'
    BY <1>5, MaxRestartsAssumption DEF AcquireLock, TypeOK, Phase, PidOf, Pid
  <2>2. Supervised'
    BY <1>5 DEF AcquireLock, TypeOK, Supervised, Alive
  <2>3. LockMeansStartup'
    BY <1>5, <2>1, LockKept DEF AcquireLock, TypeOK, InStartup, LockMeansStartup, PidOf
  <2> QED BY <2>1, <2>2, <2>3
<1>6. CASE FindStaleLock(s)
  <2>1. TypeOK'
    BY <1>6, MaxRestartsAssumption DEF FindStaleLock, TypeOK, Phase
  <2>2. Supervised'
    BY <1>6 DEF FindStaleLock, TypeOK, Supervised, Alive
  <2>3. LockMeansStartup'
    BY <1>6, <2>1, LockKept DEF FindStaleLock, TypeOK, InStartup
  <2> QED BY <2>1, <2>2, <2>3
<1>7. CASE UnlinkStaleLock(s)
  <2>1. TypeOK'
    BY <1>7, MaxRestartsAssumption DEF UnlinkStaleLock, TypeOK, Phase, Unlocked, NoPid, Pid
  <2>2. Supervised'
    BY <1>7 DEF UnlinkStaleLock, TypeOK, Supervised, Alive
  <2>3. LockMeansStartup'
    BY <1>7, <2>1, LockKept DEF UnlinkStaleLock, TypeOK, InStartup, Unlocked
  <2> QED BY <2>1, <2>2, <2>3
<1>8. CASE LockIsTaken(s)
  <2>1. TypeOK'
    BY <1>8, MaxRestartsAssumption DEF LockIsTaken, TypeOK, Phase
  <2>2. Supervised'
    BY <1>8 DEF LockIsTaken, TypeOK, Supervised, Alive
  <2>3. LockMeansStartup'
    BY <1>8, <2>1, LockKept DEF LockIsTaken, TypeOK, InStartup
  <2> QED BY <2>1, <2>2, <2>3
<1>9. CASE WaitedInVain(s)
  <2>1. TypeOK'
    BY <1>9, MaxRestartsAssumption, CleanType, SeenType DEF WaitedInVain, TypeOK, Bury, Phase
  <2>2. Supervised'
    BY <1>9 DEF WaitedInVain, TypeOK, Supervised, Alive, Bury
  <2>3. LockMeansStartup'
    BY <1>9, <2>1, LockKept, CleanType DEF WaitedInVain, TypeOK, InStartup, Bury
  <2> QED BY <2>1, <2>2, <2>3
<1>10. CASE LookAgain(s)
  <2>1. TypeOK'
    BY <1>10, MaxRestartsAssumption DEF LookAgain, TypeOK, Phase, Viewer
  <2>2. Supervised'
    BY <1>10 DEF LookAgain, TypeOK, Supervised, Alive
  <2>3. LockMeansStartup'
    BY <1>10, <2>1, LockKept DEF LookAgain, TypeOK, InStartup
  <2> QED BY <2>1, <2>2, <2>3
<1>11. CASE Rechecked(s)
  <2>1. TypeOK'
    BY <1>11, MaxRestartsAssumption, CleanType, SeenType DEF Rechecked, TypeOK, Bury, Phase
  <2>2. Supervised'
    BY <1>11 DEF Rechecked, TypeOK, Supervised, Alive, Bury
  <2>3. LockMeansStartup'
    BY <1>11, <2>1, LockKept, CleanType DEF Rechecked, TypeOK, InStartup, Bury
  <2> QED BY <2>1, <2>2, <2>3
<1>12. CASE StartFails(s)
  <2>1. TypeOK'
    BY <1>12, MaxRestartsAssumption, BuriedType, SeenType DEF StartFails, TypeOK, Bury, Phase, Unlocked, NoPid, Pid
  <2>2. Supervised'
    BY <1>12 DEF StartFails, TypeOK, Supervised, Alive, Bury
  <2>3. LockMeansStartup'
    BY <1>12, <2>1, LockKept DEF StartFails, TypeOK, InStartup, Unlocked
  <2> QED BY <2>1, <2>2, <2>3
<1>13. CASE Listen(s)
  <2>1. TypeOK'
    BY <1>13, MaxRestartsAssumption DEF Listen, TypeOK, Phase
  <2>2. Supervised'
    BY <1>13 DEF Listen, TypeOK, Supervised, Alive
  <2>3. LockMeansStartup'
    BY <1>13, <2>1, LockKept DEF Listen, TypeOK, InStartup
  <2> QED BY <2>1, <2>2, <2>3
<1>14. CASE Publish(s)
  <2>1. TypeOK'
    BY <1>14, MaxRestartsAssumption DEF Publish, TypeOK, Phase, PidOf, Pid
  <2>2. Supervised'
    BY <1>14 DEF Publish, TypeOK, Supervised, Alive
  <2>3. LockMeansStartup'
    BY <1>14, <2>1, LockKept DEF Publish, TypeOK, InStartup
  <2> QED BY <2>1, <2>2, <2>3
<1>15. CASE ReleaseLock(s)
  <2>1. TypeOK'
    BY <1>15, MaxRestartsAssumption DEF ReleaseLock, TypeOK, Phase, Unlocked, NoPid, Pid
  <2>2. Supervised'
    BY <1>15 DEF ReleaseLock, TypeOK, Supervised, Alive
  <2>3. LockMeansStartup'
    BY <1>15, <2>1, LockKept DEF ReleaseLock, TypeOK, InStartup, Unlocked
  <2> QED BY <2>1, <2>2, <2>3
<1>16. CASE Fail(s)
  <2>1. TypeOK'
    BY <1>16, MaxRestartsAssumption DEF Fail, TypeOK, Phase
  <2>2. Supervised'
    BY <1>16 DEF Fail, TypeOK, Supervised, Alive
  <2>3. LockMeansStartup'
    BY <1>16, <2>1, LockKept DEF Fail, TypeOK, InStartup
  <2> QED BY <2>1, <2>2, <2>3
<1>17. CASE EndShutdown(s)
  <2>1. TypeOK'
    BY <1>17, MaxRestartsAssumption, BuriedType, SeenType DEF EndShutdown, TypeOK, Bury, Phase, NoPid, Pid
  <2>2. Supervised'
    BY <1>17 DEF EndShutdown, TypeOK, Supervised, Alive, Bury
  <2>3. LockMeansStartup'
    BY <1>17, <2>1, LockKept, BuriedType DEF EndShutdown, TypeOK, InStartup, Bury
  <2> QED BY <2>1, <2>2, <2>3
<1>18. CASE ForceExit(s)
  <2>1. TypeOK'
    BY <1>18, MaxRestartsAssumption, SeenType DEF ForceExit, TypeOK, Bury, Phase, Unlocked, NoPid, Pid
  <2>2. Supervised'
    BY <1>18 DEF ForceExit, TypeOK, Supervised, Alive, Bury
  <2>3. LockMeansStartup'
    BY <1>18, <2>1, LockKept DEF ForceExit, TypeOK, InStartup, Unlocked
  <2> QED BY <2>1, <2>2, <2>3
<1>19. CASE Crash(s)
  <2>1. TypeOK'
    BY <1>19, MaxRestartsAssumption, AbandonType, SeenType DEF Crash, TypeOK, Exit, Bury, Phase
  <2>2. Supervised'
    BY <1>19 DEF Crash, TypeOK, Supervised, Alive, Exit, Bury
  <2>3. LockMeansStartup'
    BY <1>19, <2>1, LockKept, AbandonType DEF Crash, TypeOK, InStartup, Exit, Bury
  <2> QED BY <2>1, <2>2, <2>3
<1> QED BY <1>1, <1>2, <1>3, <1>4, <1>5, <1>6, <1>7, <1>8, <1>9, <1>10, <1>11, <1>12, <1>13, <1>14, <1>15, <1>16, <1>17, <1>18, <1>19

----------------------------------------------------------------------------
(* Signals, commands, time. *)

\* What SIGTERM does keeps the child's phase, and the files but for the process it kills.
LEMMA TerminateType ==
  ASSUME TypeOK, NEW s \in Sup, Terminate(s)
  PROVE  /\ child' \in [Sup -> Phase]
         /\ info' \in Pid
         /\ lock' \in [pid : Pid, present : BOOLEAN, old : BOOLEAN]
         /\ \A r \in Sup \ {s} : child'[r] = child[r]
         /\ Alive(s)' => Alive(s)
         /\ \/ ~PidAlive(lock'.pid)
            \/ /\ lock'.pid = lock.pid /\ lock'.present = lock.present
               /\ lock.pid.by = s => child'[s] = child[s] \/ ~InStartup(s)
<1>1. CASE child[s] = "serving"
  BY <1>1 DEF Terminate, TypeOK, Phase, Alive, InStartup
<1>2. CASE ~Alive(s) \/ child[s] \in {"stopping", "failing"}
  BY <1>2 DEF Terminate, TypeOK, Alive, InStartup
<1>3. CASE Alive(s) /\ child[s] \notin {"serving", "stopping", "failing"}
  <2>1. child' = [child EXCEPT ![s] = "crashed"] /\ AbandonFiles(s)
    BY <1>3 DEF Terminate
  <2> QED BY <1>3, <2>1, AbandonType DEF TypeOK, Phase, Alive
<1> QED BY <1>1, <1>2, <1>3

LEMMA SignalKeeps ==
  ASSUME IInv, NEW s \in Sup, SignalSupervisor(s)
  PROVE  IInv'
<1> USE DEF IInv
<1>1. Terminate(s)
  BY DEF SignalSupervisor
<1>2. TypeOK'
  <2>1. sup' \in [Sup -> SupRecord]
    BY SupervisorRecords DEF SignalSupervisor, TypeOK, SupRecord
  <2>2. seen' \in [Viewer -> Pid]
    BY SeenType DEF SignalSupervisor, TypeOK
  <2> QED BY <1>1, <2>1, <2>2, TerminateType DEF SignalSupervisor, TypeOK
<1>3. Supervised'
  BY <1>1, TerminateType DEF SignalSupervisor, TypeOK, Supervised, Alive, Terminate, SupRecord
<1>4. LockMeansStartup'
  <2>1. CASE ~PidAlive(lock'.pid) \/ ~lock.present
    BY <1>1, <1>2, <2>1, TerminateType, LockKept DEF TypeOK, LockMeansStartup
  <2>2. CASE PidAlive(lock'.pid) /\ lock.present
    <3>1. lock'.pid = lock.pid /\ lock.pid.by \in Sup
      BY <1>1, <2>2, TerminateType DEF TypeOK, PidAlive, Pid
    <3>2. InStartup(lock.pid.by) => child'[lock.pid.by] \in {"starting", "listening", "published"}
      BY <1>1, <2>2, <3>1, TerminateType DEF InStartup
    <3> QED BY <1>1, <1>2, <2>2, <3>1, <3>2, TerminateType, LockKept DEF TypeOK
  <2> QED BY <2>1, <2>2
<1> QED BY <1>2, <1>3, <1>4

LEMMA StopHealthyKeeps ==
  ASSUME IInv, StopHealthy
  PROVE  IInv'
<1> USE DEF IInv
<1> DEFINE s == seen[NoSup].by
<1>1. s \in Sup /\ Terminate(s)
  BY HealthyIsAlive DEF StopHealthy, TypeOK, Viewer, Pid, PidAlive
<1>2. TypeOK'
  <2>1. seen' \in [Viewer -> Pid]
    BY <1>1, SeenType DEF StopHealthy, TypeOK, Viewer, NoPid, Pid
  <2>2. cmd' \in Commands /\ sentinel' \in BOOLEAN /\ stopped' \subseteq Sup
    BY DEF StopHealthy, TypeOK, Commands, Halted
  <2> QED BY <1>1, <2>1, <2>2, TerminateType DEF StopHealthy, TypeOK
<1>3. Supervised'
  BY <1>1, TerminateType DEF StopHealthy, TypeOK, Supervised, Alive
<1>4. LockMeansStartup'
  <2>1. CASE ~PidAlive(lock'.pid) \/ ~lock.present
    BY <1>1, <1>2, <2>1, TerminateType, LockKept DEF TypeOK, LockMeansStartup
  <2>2. CASE PidAlive(lock'.pid) /\ lock.present
    <3>1. lock'.pid = lock.pid /\ lock.pid.by \in Sup
      BY <1>1, <2>2, TerminateType DEF TypeOK, PidAlive, Pid
    <3>2. InStartup(lock.pid.by) => child'[lock.pid.by] \in {"starting", "listening", "published"}
      BY <1>1, <2>2, <3>1, TerminateType DEF InStartup
    <3> QED BY <1>1, <1>2, <2>2, <3>1, <3>2, TerminateType, LockKept DEF TypeOK
  <2> QED BY <2>1, <2>2
<1> QED BY <1>2, <1>3, <1>4

LEMMA CommandKeeps ==
  ASSUME IInv,
         \/ Stop
         \/ Status
         \/ \E which \in Commands \ {"none"} : Ask(which)
         \/ AskedInVain
         \/ StatusHealthy
         \/ LockAges
         \/ UNCHANGED vars
  PROVE  IInv'
<1> USE DEF IInv
<1>1. /\ UNCHANGED <<sup, child>>
      /\ info' \in Pid
      /\ lock' \in [pid : Pid, present : BOOLEAN, old : BOOLEAN]
      /\ \/ lock' = lock \/ ~lock'.present
         \/ lock.present /\ lock' = [lock EXCEPT !.old = TRUE]
  BY CleanType DEF TypeOK, Stop, Status, Ask, AskedInVain, StatusHealthy, LockAges, vars
<1>2. seen' \in [Viewer -> Pid]
  <2>1. NoSup \in Viewer /\ NoPid \in Pid
    BY DEF Viewer, NoPid, Pid
  <2>2. seen' \in {seen, [seen EXCEPT ![NoSup] = info], [seen EXCEPT ![NoSup] = NoPid]}
    BY DEF Stop, Status, Ask, AskedInVain, StatusHealthy, LockAges, vars
  <2> QED BY <2>1, <2>2 DEF TypeOK
<1>3. cmd' \in Commands /\ sentinel' \in BOOLEAN /\ stopped' \subseteq Sup
  BY DEF TypeOK, Stop, Status, Ask, AskedInVain, StatusHealthy, LockAges, vars, Halted, Commands
<1>4. TypeOK'
  BY <1>1, <1>2, <1>3 DEF TypeOK
<1>5. Supervised' /\ LockMeansStartup'
  BY <1>1 DEF TypeOK, Supervised, Alive, LockMeansStartup, PidAlive, InStartup
<1> QED BY <1>4, <1>5

----------------------------------------------------------------------------
(* The theorem of the lock. *)

LEMMA InitIInv == Init => IInv
<1> SUFFICES ASSUME Init PROVE IInv
  OBVIOUS
<1>1. TypeOK
  BY SupervisorRecords DEF Init, TypeOK, Phase, Viewer, Pid, NoPid, Commands
<1>2. Supervised /\ LockMeansStartup
  BY DEF Init, Supervised, Alive, LockMeansStartup
<1> QED BY <1>1, <1>2 DEF IInv

LEMMA StepIInv == IInv /\ [Next]_vars => IInv'
<1> SUFFICES ASSUME IInv, [Next]_vars PROVE IInv'
  OBVIOUS
<1>1. ASSUME NEW s \in Sup, Start(s) \/ StartProbing(s) \/ Supervises(s) \/ ForgetRestarts(s)
      PROVE  IInv'
  BY <1>1, SupervisorKeeps DEF Supervises
<1>2. ASSUME NEW s \in Sup, Runs(s) \/ Fail(s) \/ Crash(s)
      PROVE  IInv'
  BY <1>2, DaemonKeeps DEF Runs
<1>3. ASSUME NEW s \in Sup, SignalSupervisor(s)
      PROVE  IInv'
  BY <1>3, SignalKeeps
<1>4. CASE StopHealthy
  BY <1>4, StopHealthyKeeps
<1> QED BY <1>1, <1>2, <1>3, <1>4, CommandKeeps DEF Next, Answered

\* Whatever the supervisors, the daemons, the commands and the crashes do to the three files, the
\* types hold, and a lock whose owner lives is held by a start-up: nobody waits at the lock of a
\* daemon that already serves or is going down.
THEOREM LockOnlyInStartup == Spec => []Inv
<1>1. IInv => Inv
  BY DEF IInv, Inv
<1> QED BY <1>1, InitIInv, StepIInv, PTL DEF Spec

----------------------------------------------------------------------------
(* A stop is not undone. *)

\* A supervisor that a stop was meant for is gone, or was signalled, or has the sentinel to itself.
Told ==
  \A s \in stopped :
    \/ sup[s].at = "absent"
    \/ sup[s].at = "supervising" /\ sup[s].shuttingDown
    \/ /\ sentinel /\ sup[s].at \in {"supervising", "backoff"}
       /\ \A r \in Sup \ {s} : sup[r].at = "absent"

LEMMA SupervisorKeepsTold ==
  ASSUME TypeOK, Told, NEW s \in Sup,
         Start(s) \/ StartProbing(s) \/ Supervises(s) \/ ForgetRestarts(s) \/ SignalSupervisor(s)
  PROVE  Told'
<1>1. CASE Start(s) \/ StartProbing(s)
  BY <1>1 DEF Told, Start, StartProbing
<1>2. CASE StartFindsDaemon(s) \/ StartFindsNone(s)
  BY <1>2 DEF TypeOK, Told, StartFindsDaemon, StartFindsNone, SupRecord, Absent
<1>3. CASE ChildEnded(s) \/ StopInBackoff(s)
  BY <1>3 DEF TypeOK, Told, ChildEnded, StopInBackoff, SupRecord, Absent
<1>4. CASE ChildCrashed(s)
  BY <1>4 DEF TypeOK, Told, ChildCrashed, SupRecord, GaveUp, Absent
<1>5. CASE Respawn(s)
  BY <1>5 DEF TypeOK, Told, Respawn, SupRecord
<1>6. CASE ForgetRestarts(s)
  BY <1>6 DEF TypeOK, Told, ForgetRestarts, SupRecord
<1>7. CASE SignalSupervisor(s)
  BY <1>7 DEF TypeOK, Told, SignalSupervisor, SupRecord, Absent
<1> QED BY <1>1, <1>2, <1>3, <1>4, <1>5, <1>6, <1>7 DEF Supervises

LEMMA DaemonKeepsTold ==
  ASSUME Told, NEW s \in Sup, Runs(s) \/ Fail(s) \/ Crash(s)
  PROVE  Told'
<1>1. UNCHANGED <<sup, sentinel, stopped>>
  BY DEF Runs, Fail, Crash, Look, FindsDaemon, FindsNone, Clean, AcquireLock, LockIsTaken, FindStaleLock,
         UnlinkStaleLock, WaitedInVain, LookAgain, Rechecked, StartFails, Listen, Publish, ReleaseLock,
         EndShutdown, ForceExit
<1> QED BY <1>1 DEF Told

LEMMA CommandKeepsTold ==
  ASSUME Told,
         \/ Stop \/ Status \/ \E which \in Commands \ {"none"} : Ask(which)
         \/ Answered \/ LockAges \/ UNCHANGED vars
  PROVE  Told'
<1>1. CASE UNCHANGED <<sup, sentinel, stopped>>
  BY <1>1 DEF Told
<1>2. CASE sup' = sup /\ sentinel' /\ stopped' = stopped \cup Halted
  BY <1>2 DEF Told, Halted
<1>3. CASE Stop \/ StopHealthy
  BY <1>2, <1>3 DEF Stop, StopHealthy
<1>4. CASE AskedInVain
  <2>1. CASE cmd = "stop"
    BY <1>2, <1>4, <2>1 DEF AskedInVain
  <2>2. CASE cmd # "stop"
    BY <1>4, <2>2 DEF AskedInVain, Told
  <2> QED BY <2>1, <2>2
<1>5. CASE Status \/ StatusHealthy \/ LockAges \/ UNCHANGED vars \/ \E which \in Commands \ {"none"} : Ask(which)
  BY <1>1, <1>5 DEF Status, StatusHealthy, LockAges, Ask, vars
<1> QED BY <1>3, <1>4, <1>5 DEF Answered

LEMMA ToldIsInvariant == Spec => []Told
<1>1. Init => Told
  BY DEF Init, Told
<1>2. TypeOK /\ Told /\ [Next]_vars => Told'
  BY SupervisorKeepsTold, DaemonKeepsTold, CommandKeepsTold DEF Next
<1>3. Inv => TypeOK
  BY DEF Inv
<1> QED BY <1>1, <1>2, <1>3, LockOnlyInStartup, PTL DEF Spec

\* A supervisor that a stop was meant for does not respawn its daemon, wherever the stop met it:
\* with the daemon up, while it crashed, or in the backoff before the next attempt.
THEOREM StopOutlivesCrash == Spec => StaysStopped
<1>1. Told /\ [Next]_vars => [\A s \in Sup : Respawn(s) => s \notin stopped]_vars
  BY DEF Told, Respawn
<1> QED BY <1>1, ToldIsInvariant, PTL DEF Spec, StaysStopped

----------------------------------------------------------------------------
(* A stop ends the supervisor. *)

\* What s and its daemon are up to changes by their own doing, and by a stop of that daemon.
Concerns(s) ==
  \/ Start(s) \/ StartProbing(s) \/ Supervises(s) \/ ForgetRestarts(s) \/ SignalSupervisor(s)
  \/ Runs(s) \/ Fail(s) \/ Crash(s)
  \/ StopHealthy /\ seen[NoSup].by = s

LEMMA OthersLeaveAlone ==
  ASSUME TypeOK, [Next]_vars, NEW s \in Sup, ~Concerns(s)
  PROVE  sup'[s] = sup[s] /\ child'[s] = child[s]
<1>1. ASSUME NEW r \in Sup,
             Start(r) \/ StartProbing(r) \/ Supervises(r) \/ ForgetRestarts(r) \/ SignalSupervisor(r)
      PROVE  sup'[s] = sup[s] /\ child'[s] = child[s]
  <2>1. r # s
    BY <1>1 DEF Concerns
  <2> QED BY <1>1, <2>1, TerminateType DEF TypeOK, Start, StartProbing, Supervises, StartFindsDaemon,
             StartFindsNone, ChildEnded, ChildCrashed, Respawn, StopInBackoff, ForgetRestarts,
             SignalSupervisor, Spawn
<1>2. ASSUME NEW r \in Sup, Runs(r) \/ Fail(r) \/ Crash(r)
      PROVE  sup'[s] = sup[s] /\ child'[s] = child[s]
  <2>1. r # s
    BY <1>2 DEF Concerns
  <2> QED BY <1>2, <2>1 DEF TypeOK, Runs, Fail, Crash, Look, FindsDaemon, FindsNone, Clean, AcquireLock,
             LockIsTaken, FindStaleLock, UnlinkStaleLock, WaitedInVain, LookAgain, Rechecked, StartFails,
             Listen, Publish, ReleaseLock, EndShutdown, ForceExit, Exit, Bury
<1>3. CASE StopHealthy
  <2>1. seen[NoSup].by \in Sup \ {s} /\ Terminate(seen[NoSup].by) /\ sup' = sup
    BY <1>3, HealthyIsAlive DEF StopHealthy, TypeOK, Viewer, Pid, PidAlive, Concerns
  <2> QED BY <2>1, TerminateType
<1>4. CASE Stop \/ Status \/ (\E which \in Commands \ {"none"} : Ask(which)) \/ StatusHealthy
           \/ AskedInVain \/ LockAges \/ UNCHANGED vars
  BY <1>4 DEF Stop, Status, Ask, StatusHealthy, AskedInVain, LockAges, vars
<1> QED BY <1>1, <1>2, <1>3, <1>4 DEF Next, Answered

\* The guards of Supervises(s) and Runs(s): a decision of the supervisor is due, the daemon is
\* starting or going down.
Due(s) ==
  \/ sup[s].at \in {"probing", "backoff"}
  \/ sup[s].at = "supervising" /\ child[s] \in {"exited", "crashed"}

OnItsWay(s) == Alive(s) /\ child[s] # "serving"

\* The fairness of FairSpec, with these guards for what ENABLED says of the two actions.
DaemonFairness(s) ==
  /\ []<>~Due(s) \/ []<><<Supervises(s)>>_vars
  /\ []<>~OnItsWay(s) \/ []<><<Runs(s)>>_vars

\* A stop was meant for s, which is still up.
Halting(s) == s \in stopped /\ sup[s].at # "absent"

BackingOff(s) == sup[s].at = "backoff"
GoingDown(s) == sup[s].at = "supervising" /\ child[s] \in {"stopping", "failing"}
Ended(s) == sup[s].at = "supervising" /\ child[s] \in {"exited", "crashed"}

\* With the sentinel there, or the supervisor signalled, the backoff and the end of a daemon lead nowhere else.
LEMMA HaltedStays ==
  ASSUME IInv, Told, [Next]_vars, NEW s \in Sup, Halting(s), Halting(s)'
  PROVE  /\ BackingOff(s) => BackingOff(s)' /\ ~Supervises(s)
         /\ GoingDown(s) => GoingDown(s)' \/ Ended(s)'
         /\ GoingDown(s) /\ Runs(s) => Ended(s)'
         /\ Ended(s) => Ended(s)' /\ ~Supervises(s)
<1> USE DEF IInv, TypeOK, BackingOff, GoingDown, Ended
<1> DEFINE Moves == /\ BackingOff(s) => BackingOff(s)'
                    /\ GoingDown(s) => GoingDown(s)' \/ Ended(s)'
                    /\ Ended(s) => Ended(s)'
<1>1. BackingOff(s) => ~Alive(s)
  BY DEF Supervised
<1>2. Supervises(s) => ~BackingOff(s) /\ ~Ended(s) /\ ~GoingDown(s)
  <2>1. BackingOff(s) => sentinel
    BY DEF Told, Halting
  <2>2. Ended(s) => sup[s].shuttingDown \/ sentinel
    BY DEF Told, Halting
  <2>3. ~ChildEnded(s) /\ ~StopInBackoff(s)
    BY DEF ChildEnded, StopInBackoff, Halting, Absent
  <2>4. StartFindsDaemon(s) \/ StartFindsNone(s) => sup[s].at = "probing"
    BY DEF StartFindsDaemon, StartFindsNone
  <2>5. ChildCrashed(s) => Ended(s) /\ ~sup[s].shuttingDown /\ ~sentinel
    BY DEF ChildCrashed
  <2>6. Respawn(s) => BackingOff(s) /\ ~sentinel
    BY DEF Respawn
  <2> QED BY <2>1, <2>2, <2>3, <2>4, <2>5, <2>6 DEF Supervises
<1>3. Runs(s) => (GoingDown(s) => Ended(s)') /\ ~BackingOff(s) /\ ~Ended(s)
  <2>1. Runs(s) => Alive(s) /\ UNCHANGED sup
    BY DEF Runs, Look, FindsDaemon, FindsNone, Clean, AcquireLock, LockIsTaken, FindStaleLock,
           UnlinkStaleLock, WaitedInVain, LookAgain, Rechecked, StartFails, Listen, Publish,
           ReleaseLock, EndShutdown, ForceExit, Alive
  <2>2. Runs(s) /\ GoingDown(s) => EndShutdown(s) \/ ForceExit(s)
    BY DEF Runs, Look, FindsDaemon, FindsNone, Clean, AcquireLock, LockIsTaken, FindStaleLock,
           UnlinkStaleLock, WaitedInVain, LookAgain, Rechecked, StartFails, Listen, Publish,
           ReleaseLock
  <2>3. EndShutdown(s) \/ ForceExit(s) => child'[s] \in {"exited", "crashed"}
    BY DEF EndShutdown, ForceExit, Bury
  <2> QED BY <1>1, <2>1, <2>2, <2>3 DEF Alive
<1>4. Moves
  <2>1. CASE ~Concerns(s)
    BY <2>1, OthersLeaveAlone
  <2>2. CASE Start(s) \/ StartProbing(s)
    BY <2>2 DEF Start, StartProbing, Halting
  <2>3. CASE Supervises(s)
    BY <1>2, <2>3
  <2>4. CASE ForgetRestarts(s)
    BY <2>4 DEF ForgetRestarts
  <2>5. CASE SignalSupervisor(s)
    <3>1. ~BackingOff(s) /\ sup'[s].at = sup[s].at /\ Terminate(s)
      BY <2>5 DEF SignalSupervisor, Halting, Absent, SupRecord
    <3> QED BY <3>1 DEF Terminate, Alive
  <2>6. CASE Runs(s)
    BY <1>3, <2>6
  <2>7. CASE Fail(s) \/ Crash(s)
    BY <1>1, <2>7 DEF Fail, Crash, Exit, Bury, Alive
  <2>8. CASE StopHealthy /\ seen[NoSup].by = s
    <3>1. sup' = sup /\ Terminate(s)
      BY <2>8 DEF StopHealthy
    <3> QED BY <1>1, <3>1 DEF Terminate, Alive
  <2> QED BY <2>1, <2>2, <2>3, <2>4, <2>5, <2>6, <2>7, <2>8 DEF Concerns
<1> QED BY <1>2, <1>3, <1>4

\* A stop that met the daemon going down, or its supervisor in the backoff, takes effect, whatever
\* crashes and other commands come in between.
THEOREM StopsTakeEffect == Spec /\ (\A s \in Sup : DaemonFairness(s)) => StopsForGood
<1>1. ASSUME NEW s \in Sup
      PROVE  Spec /\ DaemonFairness(s) =>
               ((s \in stopped /\ (child[s] = "stopping" \/ sup[s].at = "backoff"))
                  ~> (sup[s].at = "absent" \/ s \notin stopped))
  <2> DEFINE World == IInv /\ Told /\ [Next]_vars
  <2>1. World /\ Halting(s) /\ Halting(s)' =>
          /\ BackingOff(s) => BackingOff(s)' /\ ~<<Supervises(s)>>_vars
          /\ GoingDown(s) => GoingDown(s)' \/ Ended(s)'
          /\ GoingDown(s) /\ <<Runs(s)>>_vars => Ended(s)'
          /\ Ended(s) => Ended(s)' /\ ~<<Supervises(s)>>_vars
    BY HaltedStays
  <2>2. (BackingOff(s) \/ Ended(s) => Due(s)) /\ (GoingDown(s) => OnItsWay(s))
    BY DEF BackingOff, Ended, GoingDown, Due, OnItsWay, Alive
  <2>3. IInv /\ Halting(s) /\ (child[s] = "stopping" \/ sup[s].at = "backoff")
          => BackingOff(s) \/ GoingDown(s)
    BY DEF IInv, Supervised, BackingOff, GoingDown, Alive
  <2>4. Halting(s) <=> ~(sup[s].at = "absent" \/ s \notin stopped)
    BY DEF Halting
  <2>5. (s \in stopped /\ (child[s] = "stopping" \/ sup[s].at = "backoff"))
          => ~Halting(s) \/ (Halting(s) /\ (child[s] = "stopping" \/ sup[s].at = "backoff"))
    BY DEF Halting
  <2>6. []IInv /\ []Told /\ [][Next]_vars /\ DaemonFairness(s) =>
          (Halting(s) /\ (BackingOff(s) \/ GoingDown(s)) ~> ~Halting(s))
    BY <2>1, <2>2, PTL DEF DaemonFairness
  <2>7. Spec => []IInv
    BY InitIInv, StepIInv, PTL DEF Spec
  <2> QED BY <2>3, <2>4, <2>5, <2>6, <2>7, ToldIsInvariant, PTL DEF Spec
<1> QED BY <1>1 DEF StopsForGood

----------------------------------------------------------------------------
(***************************************************************************)
(* A crash is recovered from.  With one supervisor up, nothing that a dead *)
(* daemon left behind can stop its successor: daemon.json names a living   *)
(* process only if that one is published (InfoMeansUp), so a start-up      *)
(* looks at a dead name, and the lock it then waits for is a dead one's.   *)
(* Each attempt therefore serves, is stopped, or crashes and is counted.   *)
(***************************************************************************)

Up == {"published", "serving", "stopping", "failing"}

\* daemon.json names a living process only from its publication to its end.
InfoMeansUp == PidAlive(info) => child[info.by] \in Up

LEMMA NobodyIsAlive == ~PidAlive(NoPid)
BY DEF PidAlive, NoPid

LEMMA InfoKept ==
  ASSUME TypeOK, InfoMeansUp,
         \/ ~PidAlive(info')
         \/ info' = info /\ (\A r \in Sup : info.by = r /\ child[r] \in Up => child'[r] \in Up)
  PROVE  InfoMeansUp'
<1>1. PidAlive(info) => info.by \in Sup
  BY DEF TypeOK, PidAlive, Pid
<1> QED BY <1>1 DEF InfoMeansUp, PidAlive

LEMMA TerminateKeepsInfo ==
  ASSUME TypeOK, InfoMeansUp, NEW s \in Sup, Terminate(s)
  PROVE  InfoMeansUp'
<1>1. CASE Alive(s) /\ child[s] \notin {"serving", "stopping", "failing"}
  <2>1. child' = [child EXCEPT ![s] = "crashed"] /\ AbandonFiles(s)
    BY <1>1 DEF Terminate
  <2>2. ~PidAlive(info') \/ (info' = info /\ info.by # s)
    BY <2>1, BuriedType DEF AbandonFiles, TypeOK
  <2> QED BY <2>1, <2>2, InfoKept DEF TypeOK
<1>2. CASE child[s] = "serving"
  BY <1>2, InfoKept DEF Terminate, TypeOK, Up, Alive
<1>3. CASE ~Alive(s) \/ child[s] \in {"stopping", "failing"}
  BY <1>3, InfoKept DEF Terminate, TypeOK, Alive
<1> QED BY <1>1, <1>2, <1>3

LEMMA InfoStep == IInv /\ InfoMeansUp /\ [Next]_vars => InfoMeansUp'
<1> SUFFICES ASSUME IInv, InfoMeansUp, [Next]_vars PROVE InfoMeansUp'
  OBVIOUS
<1> USE DEF TypeOK, IInv
<1>1. ASSUME NEW s \in Sup, Start(s) \/ StartFindsNone(s) PROVE InfoMeansUp'
  <2>1. CASE Start(s)
    <3>1. ~PidAlive(info) /\ info' \in {info, NoPid}
      BY <2>1 DEF Start, CleanFiles
    <3> QED BY <3>1, NobodyIsAlive, InfoKept DEF PidAlive
  <2>2. CASE StartFindsNone(s)
    <3>1. info' = NoPid
      BY <2>2 DEF StartFindsNone, CleanFiles
    <3> QED BY <3>1, NobodyIsAlive, InfoKept DEF PidAlive
  <2> QED BY <1>1, <2>1, <2>2
<1>2. ASSUME NEW s \in Sup, StartProbing(s) \/ StartFindsDaemon(s) \/ StopInBackoff(s) \/ ForgetRestarts(s)
      PROVE  InfoMeansUp'
  BY <1>2, InfoKept DEF StartProbing, StartFindsDaemon, StopInBackoff, ForgetRestarts
<1>3. ASSUME NEW s \in Sup, ChildEnded(s) \/ ChildCrashed(s) \/ Respawn(s) PROVE InfoMeansUp'
  <2>1. child[s] \notin Up
    BY <1>3 DEF ChildEnded, ChildCrashed, Respawn, Supervised, Alive, Up
  <2> QED BY <1>3, <2>1, InfoKept DEF ChildEnded, ChildCrashed, Respawn, Spawn
<1>4. ASSUME NEW s \in Sup, SignalSupervisor(s) PROVE InfoMeansUp'
  BY <1>4, TerminateKeepsInfo DEF SignalSupervisor
<1>5. ASSUME NEW s \in Sup,
             \/ Look(s) \/ FindsNone(s) \/ AcquireLock(s) \/ LockIsTaken(s) \/ FindStaleLock(s)
             \/ UnlinkStaleLock(s) \/ LookAgain(s) \/ Listen(s) \/ ReleaseLock(s) \/ Fail(s)
      PROVE  InfoMeansUp'
  <2>1. info' = info /\ (\A r \in Sup : child[r] \in Up => child'[r] \in Up)
    BY <1>5 DEF Look, FindsNone, AcquireLock, LockIsTaken, FindStaleLock, UnlinkStaleLock, LookAgain,
         Listen, ReleaseLock, Fail, Up
  <2>2. PidAlive(info) => info.by \in Sup
    BY DEF PidAlive, Pid
  <2> QED BY <2>1, <2>2 DEF InfoMeansUp
<1>6. ASSUME NEW s \in Sup, Clean(s) \/ EndShutdown(s) \/ ForceExit(s) PROVE InfoMeansUp'
  <2>1. ~PidAlive(info')
    BY <1>6 DEF Clean, EndShutdown, ForceExit, CleanFiles, PidAlive, NoPid
  <2> QED BY <2>1, InfoKept
<1>7. ASSUME NEW s \in Sup, FindsDaemon(s) \/ StartFails(s) \/ Crash(s) PROVE InfoMeansUp'
  <2>1. info' = Buried(s, info) /\ (\A r \in Sup \ {s} : child'[r] = child[r])
    BY <1>7 DEF FindsDaemon, StartFails, Crash, Exit, Bury, AbandonFiles
  <2>2. PidAlive(info') => info' = info /\ info.by \in Sup \ {s}
    BY <2>1, BuriedType DEF PidAlive, Pid
  <2> QED BY <2>1, <2>2 DEF InfoMeansUp
<1>8. ASSUME NEW s \in Sup, Publish(s) PROVE InfoMeansUp'
  BY <1>8 DEF Publish, InfoMeansUp, PidOf, Up
<1>9. ASSUME NEW s \in Sup, WaitedInVain(s) \/ Rechecked(s) PROVE InfoMeansUp'
  <2>1. info' \in {info, NoPid} /\ (\A r \in Sup \ {s} : child'[r] = child[r]) /\ child[s] \notin Up
    BY <1>9 DEF WaitedInVain, Rechecked, Bury, CleanFiles, Up
  <2>2. PidAlive(info') => info' = info /\ info.by \in Sup
    BY <2>1 DEF PidAlive, Pid, NoPid
  <2> QED BY <2>1, <2>2 DEF InfoMeansUp
<1>10. CASE StopHealthy
  BY <1>10, HealthyIsAlive, TerminateKeepsInfo DEF StopHealthy, Viewer, Pid, PidAlive
<1>11. CASE \/ Stop \/ Status \/ (\E which \in Commands \ {"none"} : Ask(which)) \/ StatusHealthy
            \/ AskedInVain \/ LockAges \/ UNCHANGED vars
  <2>1. child' = child /\ info' \in {info, NoPid}
    BY <1>11 DEF Stop, Status, Ask, StatusHealthy, AskedInVain, LockAges, vars, CleanFiles
  <2> QED BY <2>1, InfoKept DEF PidAlive, NoPid
<1> QED BY <1>1, <1>2, <1>3, <1>4, <1>5, <1>6, <1>7, <1>8, <1>9, <1>10, <1>11
         DEF Next, Supervises, Runs, Answered

LEMMA InfoIsPublished == Spec => [](IInv /\ InfoMeansUp)
<1>1. Init => InfoMeansUp
  BY DEF Init, InfoMeansUp, PidAlive, NoPid
<1> QED BY <1>1, InitIInv, StepIInv, InfoStep, PTL DEF Spec

\* With one supervisor up, whoever finds the sentinel or was signalled is one that a stop was meant for.
Marked ==
  \A s \in Sup :
    /\ sup[s].at \in {"supervising", "backoff"} /\ sentinel => s \in stopped
    /\ sup[s].at # "absent" /\ sup[s].shuttingDown => s \in stopped

LEMMA OthersAreAbsent ==
  ASSUME Alone, NEW s \in Sup, sup[s].at # "absent", NEW r \in Sup \ {s}
  PROVE  sup[r].at = "absent"
BY DEF Alone

\* A supervisor that comes up has the place to itself.
LEMMA MarkedStart ==
  ASSUME TypeOK, Marked, Alone', NEW r \in Sup, Start(r) \/ StartProbing(r) \/ StartFindsNone(r)
  PROVE  Marked'
<1>1. /\ sup'[r].at # "absent" /\ (sup'[r].shuttingDown => r \in stopped')
      /\ sup'[r].at \in {"supervising", "backoff"} => ~sentinel'
  <2>1. CASE Start(r) \/ StartProbing(r)
    <3>1. sup'[r] \in {[Absent EXCEPT !.at = "supervising"], [Absent EXCEPT !.at = "probing"]}
      BY <2>1 DEF Start, StartProbing, TypeOK
    <3>2. ~sup'[r].shuttingDown /\ sup'[r].at \in {"supervising", "probing"}
      BY <3>1 DEF Absent
    <3>3. sup'[r].at = "supervising" => ~sentinel'
      <4>1. CASE Start(r)
        BY <4>1 DEF Start
      <4>2. CASE StartProbing(r)
        BY <4>2 DEF StartProbing, TypeOK, Absent
      <4> QED BY <2>1, <4>1, <4>2
    <3> QED BY <3>2, <3>3
  <2>2. CASE StartFindsNone(r)
    <3>1. /\ sup'[r].at = "supervising" /\ sup'[r].shuttingDown = sup[r].shuttingDown
          /\ ~sentinel' /\ stopped' = stopped /\ sup[r].at = "probing"
      BY <2>2 DEF StartFindsNone, TypeOK, SupRecord
    <3> QED BY <3>1 DEF Marked
  <2> QED BY <2>1, <2>2
<1>2. \A s \in Sup \ {r} : sup'[s].at = "absent"
  BY <1>1 DEF Alone
<1> QED BY <1>1, <1>2 DEF Marked

LEMMA MarkedStep == TypeOK /\ Marked /\ Alone /\ Alone' /\ [Next]_vars => Marked'
<1> SUFFICES ASSUME TypeOK, Marked, Alone, Alone', [Next]_vars PROVE Marked'
  OBVIOUS
<1>1. ASSUME NEW r \in Sup, StartFindsDaemon(r) \/ ChildEnded(r) \/ ChildCrashed(r) \/ StopInBackoff(r)
                            \/ Respawn(r) \/ ForgetRestarts(r)
      PROVE  Marked'
  <2>1. \A s \in Sup \ {r} : sup'[s] = sup[s]
    BY <1>1 DEF StartFindsDaemon, ChildEnded, ChildCrashed, StopInBackoff, Respawn, ForgetRestarts, TypeOK
  <2>2. \/ sup'[r].at = "absent"
        \/ /\ sup[r].at \in {"supervising", "backoff"}
           /\ sup'[r].shuttingDown = sup[r].shuttingDown
    <3>1. CASE StartFindsDaemon(r) \/ ChildEnded(r) \/ StopInBackoff(r)
      <4>1. sup'[r] = Absent
        BY <3>1 DEF StartFindsDaemon, ChildEnded, StopInBackoff, TypeOK
      <4> QED BY <4>1 DEF Absent
    <3>2. CASE ChildCrashed(r)
      <4>1. sup'[r] \in {GaveUp, BacksOff(sup[r])} /\ sup[r].at = "supervising" /\ sup[r] \in SupRecord
        BY <3>2 DEF ChildCrashed, TypeOK
      <4> QED BY <4>1 DEF SupRecord, Absent, GaveUp, BacksOff
    <3>3. CASE Respawn(r) \/ ForgetRestarts(r)
      BY <3>3 DEF Respawn, ForgetRestarts, TypeOK, SupRecord
    <3> QED BY <1>1, <3>1, <3>2, <3>3
  <2>3. (sentinel' => sentinel) /\ stopped' = stopped
    <3>1. CASE ChildEnded(r)
      <4>1. stopped' = stopped
        BY <3>1 DEF ChildEnded
      <4>2. sentinel' => sentinel
        BY <3>1, Zenon DEF ChildEnded
      <4> QED BY <4>1, <4>2
    <3>2. CASE StopInBackoff(r)
      BY <3>2 DEF StopInBackoff
    <3>3. CASE StartFindsDaemon(r) \/ ChildCrashed(r) \/ Respawn(r) \/ ForgetRestarts(r)
      <4>1. UNCHANGED <<sentinel, stopped>>
        BY <3>3 DEF StartFindsDaemon, ChildCrashed, Respawn, ForgetRestarts
      <4> QED BY <4>1
    <3> QED BY <1>1, <3>1, <3>2, <3>3
  <2> QED BY <2>1, <2>2, <2>3 DEF Marked
<1>2. ASSUME NEW r \in Sup, SignalSupervisor(r) PROVE Marked'
  <2>1. /\ \A s \in Sup \ {r} : sup'[s] = sup[s]
        /\ sentinel' = sentinel /\ stopped' = stopped \cup {r}
    BY <1>2 DEF SignalSupervisor, TypeOK
  <2> QED BY <2>1 DEF Marked
<1>3. ASSUME NEW r \in Sup, Runs(r) \/ Fail(r) \/ Crash(r) PROVE Marked'
  <2>1. UNCHANGED <<sup, sentinel, stopped>>
    BY <1>3 DEF Runs, Fail, Crash, Look, FindsDaemon, FindsNone, Clean, AcquireLock, LockIsTaken,
         FindStaleLock, UnlinkStaleLock, WaitedInVain, LookAgain, Rechecked, StartFails, Listen,
         Publish, ReleaseLock, EndShutdown, ForceExit
  <2> QED BY <2>1 DEF Marked
<1>4. CASE Stop \/ StopHealthy \/ (AskedInVain /\ cmd = "stop")
  <2>1. sup' = sup /\ stopped' = stopped \cup Halted
    BY <1>4 DEF Stop, StopHealthy, AskedInVain
  <2>2. \A s \in Sup : sup[s].at \in {"supervising", "backoff"} => s \in Halted
    BY OthersAreAbsent DEF Halted
  <2> QED BY <2>1, <2>2 DEF Marked
<1>5. CASE \/ Status \/ (\E which \in Commands \ {"none"} : Ask(which)) \/ StatusHealthy
           \/ (AskedInVain /\ cmd # "stop") \/ LockAges \/ UNCHANGED vars
  <2>1. UNCHANGED <<sup, stopped>> /\ sentinel' = sentinel
    BY <1>5 DEF Status, Ask, StatusHealthy, AskedInVain, LockAges, vars, TypeOK
  <2> QED BY <2>1 DEF Marked
<1> QED BY <1>1, <1>2, <1>3, <1>4, <1>5, MarkedStart DEF Next, Supervises, Answered

\* What may happen while s is the one supervisor that is up.
LEMMA LoneSteps ==
  ASSUME TypeOK, Supervised, Alone, Alone', [Next]_vars,
         NEW s \in Sup, sup[s].at \in {"supervising", "backoff"}
  PROVE  \/ Supervises(s) \/ ForgetRestarts(s) \/ SignalSupervisor(s)
         \/ Runs(s) \/ Fail(s) \/ Crash(s) \/ StopHealthy
         \/ UNCHANGED <<sup, child>> /\ (lock'.present => lock.present)
<1>1. \A r \in Sup \ {s} : sup[r].at = "absent" /\ ~Alive(r)
  BY OthersAreAbsent DEF Supervised
<1>2. ASSUME NEW r \in Sup, Start(r) \/ StartProbing(r) PROVE FALSE
  <2>1. r # s
    BY <1>2 DEF Start, StartProbing
  <2>2. sup'[r] \in {[Absent EXCEPT !.at = "supervising"], [Absent EXCEPT !.at = "probing"]} /\ sup'[s] = sup[s]
    BY <1>2, <2>1 DEF Start, StartProbing, TypeOK
  <2>3. sup'[r].at # "absent" /\ sup'[s].at # "absent"
    BY <2>2 DEF Absent
  <2> QED BY <2>1, <2>3 DEF Alone
<1>3. ASSUME NEW r \in Sup, Supervises(r) \/ ForgetRestarts(r) \/ SignalSupervisor(r) PROVE r = s
  <2>1. sup[r].at # "absent"
    BY <1>3 DEF Supervises, ForgetRestarts, SignalSupervisor, StartFindsDaemon, StartFindsNone,
                ChildEnded, ChildCrashed, Respawn, StopInBackoff
  <2> QED BY <1>1, <2>1
<1>4. ASSUME NEW r \in Sup, Runs(r) \/ Fail(r) \/ Crash(r) PROVE r = s
  <2>1. Alive(r)
    BY <1>4 DEF Runs, Fail, Crash, Look, FindsDaemon, FindsNone, Clean, AcquireLock, LockIsTaken,
         FindStaleLock, UnlinkStaleLock, WaitedInVain, LookAgain, Rechecked, StartFails, Listen,
         Publish, ReleaseLock, EndShutdown, ForceExit, Alive
  <2> QED BY <1>1, <2>1
<1>5. CASE \/ Stop \/ Status \/ (\E which \in Commands \ {"none"} : Ask(which)) \/ StatusHealthy
           \/ AskedInVain \/ LockAges \/ UNCHANGED vars
  <2>1. UNCHANGED <<sup, child>>
    BY <1>5 DEF Stop, Status, Ask, StatusHealthy, AskedInVain, LockAges, vars
  <2>2. lock' \in {lock, Unlocked, [lock EXCEPT !.old = TRUE]}
    BY <1>5 DEF Stop, Status, Ask, StatusHealthy, AskedInVain, LockAges, vars, CleanFiles
  <2>3. lock'.present => lock.present
    BY <2>2 DEF Unlocked, TypeOK
  <2> QED BY <2>1, <2>3
<1> QED BY <1>2, <1>3, <1>4, <1>5 DEF Next, Answered

\* What ends the waiting for a recovery.
Recovered(s) == child[s] = "serving" \/ s \in stopped \/ sup[s] = GaveUp

\* The n-th crash in a row is behind it: the backoff, and the attempt that follows.
Backs(s, n) == sup[s].at = "backoff" /\ sup[s].restarts = n
Tries(s, n) == sup[s].at = "supervising" /\ sup[s].restarts = n

\* It backs off, or its daemon is on the way that a start-up takes when nobody competes with it.
OnWay(s) ==
  \/ sup[s].at = "backoff"
  \/ /\ sup[s].at = "supervising"
     /\ child[s] \in {"looking", "cleaning", "locking", "unlinking", "starting", "listening",
                      "published", "crashed"}

Stage(s, n) == OnWay(s) /\ sup[s].restarts = n

Locks(s) == child[s] = "locking" /\ lock.present
Makes(s) == child[s] = "locking" /\ ~lock.present

\* From the backoff the supervisor can only respawn its daemon, or be stopped, while crashes may age.
LEMMA BackoffMoves ==
  ASSUME IInv, Marked, Alone, Alone', [Next]_vars, NEW s \in Sup, NEW n, Backs(s, n), ~Recovered(s)
  PROVE  /\ Backs(s, n)' \/ (Tries(s, n) /\ child[s] = "looking")' \/ Recovered(s)' \/ ForgetRestarts(s)
         /\ Supervises(s) => (Tries(s, n) /\ child[s] = "looking")'
<1> USE DEF IInv
<1>1. ~Alive(s) /\ ~sentinel /\ sup[s] \in SupRecord
  BY DEF Supervised, Backs, Marked, Recovered, TypeOK
<1>2. Supervises(s) => Respawn(s)
  BY <1>1 DEF Supervises, StartFindsDaemon, StartFindsNone, ChildEnded, ChildCrashed, StopInBackoff, Backs
<1>3. Respawn(s) => (Tries(s, n) /\ child[s] = "looking")'
  BY <1>1 DEF Respawn, Spawn, Tries, Backs, TypeOK, SupRecord
<1>4. SignalSupervisor(s) \/ StopHealthy => Recovered(s)'
  <2>1. SignalSupervisor(s) => s \in stopped'
    BY DEF SignalSupervisor
  <2>2. StopHealthy => s \in stopped'
    BY OthersAreAbsent DEF StopHealthy, Halted, Backs
  <2> QED BY <2>1, <2>2 DEF Recovered
<1>5. ~Runs(s) /\ ~Fail(s) /\ ~Crash(s)
  BY <1>1 DEF Backs, Runs, Fail, Crash, Look, FindsDaemon, FindsNone, Clean, AcquireLock, LockIsTaken,
         FindStaleLock, UnlinkStaleLock, WaitedInVain, LookAgain, Rechecked, StartFails, Listen,
         Publish, ReleaseLock, EndShutdown, ForceExit, Alive
<1>6. UNCHANGED <<sup, child>> => Backs(s, n)'
  BY DEF Backs
<1> QED BY <1>2, <1>3, <1>4, <1>5, <1>6, LoneSteps DEF Backs

\* A start-up that nobody competes with meets no living process and no lock of one, so that each of
\* its steps brings it on, or it fails.
LEMMA TrialRuns ==
  ASSUME IInv, InfoMeansUp, Alone, NEW s \in Sup, sup[s].at = "supervising", Runs(s)
  PROVE  /\ UNCHANGED <<sup, stopped>>
         /\ child[s] = "looking" => child'[s] \in {"cleaning", "locking"}
         /\ child[s] = "cleaning" => child'[s] = "locking"
         /\ Locks(s) => child'[s] = "unlinking"
         /\ child[s] = "unlinking" => Makes(s)'
         /\ Makes(s) => child'[s] = "starting"
         /\ child[s] = "starting" => child'[s] \in {"listening", "crashed"}
         /\ child[s] = "listening" => child'[s] = "published"
         /\ child[s] = "published" => child'[s] = "serving"
         /\ child[s] # "crashed"
<1> USE DEF IInv, TypeOK
<1>1. \A r \in Sup : Alive(r) => r = s
  BY OthersAreAbsent DEF Supervised
<1>2. child[s] = "looking" => ~PidAlive(info)
  <2> SUFFICES ASSUME child[s] = "looking", PidAlive(info) PROVE FALSE
    OBVIOUS
  <2>1. info.by \in Sup /\ child[info.by] \in Up
    BY DEF InfoMeansUp, PidAlive, Pid
  <2>2. info.by = s
    BY <1>1, <2>1 DEF Alive, Up
  <2> QED BY <2>1, <2>2 DEF Up
<1>3. Locks(s) => LockIsStale
  <2> SUFFICES ASSUME Locks(s), PidAlive(lock.pid) PROVE FALSE
    BY DEF Locks, LockIsStale
  <2>1. lock.pid.by \in Sup /\ InStartup(lock.pid.by)
    BY DEF Locks, LockMeansStartup, PidAlive, Pid
  <2>2. lock.pid.by = s
    BY <1>1, <2>1 DEF Alive, InStartup
  <2> QED BY <2>1, <2>2 DEF Locks, InStartup
<1>4. UNCHANGED <<sup, stopped>>
  BY DEF Runs, Look, FindsDaemon, FindsNone, Clean, AcquireLock, LockIsTaken,
         FindStaleLock, UnlinkStaleLock, WaitedInVain, LookAgain, Rechecked, StartFails, Listen,
         Publish, ReleaseLock, EndShutdown, ForceExit
<1>5. CASE child[s] \in {"looking", "cleaning"}
  <2>1. Look(s) \/ Clean(s)
    BY <1>5 DEF Runs, FindsDaemon, FindsNone, AcquireLock, LockIsTaken, FindStaleLock, UnlinkStaleLock,
         WaitedInVain, LookAgain, Rechecked, StartFails, Listen, Publish, ReleaseLock, EndShutdown, ForceExit
  <2> QED BY <1>2, <1>4, <1>5, <2>1 DEF Look, Clean, Locks, Makes
<1>6. CASE child[s] \in {"locking", "unlinking"}
  <2>1. AcquireLock(s) \/ LockIsTaken(s) \/ FindStaleLock(s) \/ UnlinkStaleLock(s)
    BY <1>6 DEF Runs, Look, Clean, FindsDaemon, FindsNone, WaitedInVain, LookAgain, Rechecked, StartFails,
         Listen, Publish, ReleaseLock, EndShutdown, ForceExit
  <2>2. CASE child[s] = "unlinking"
    <3>1. UnlinkStaleLock(s)
      BY <2>1, <2>2 DEF AcquireLock, LockIsTaken, FindStaleLock
    <3> QED BY <1>4, <2>2, <3>1 DEF UnlinkStaleLock, Locks, Makes, Unlocked
  <2>3. CASE Locks(s)
    <3>1. FindStaleLock(s)
      BY <1>3, <2>1, <2>3 DEF AcquireLock, LockIsTaken, UnlinkStaleLock, Locks
    <3> QED BY <1>4, <2>3, <3>1 DEF FindStaleLock, Locks, Makes
  <2>4. CASE Makes(s)
    <3>1. AcquireLock(s)
      BY <2>1, <2>4 DEF LockIsTaken, FindStaleLock, LockIsStale, UnlinkStaleLock, Makes
    <3> QED BY <1>4, <2>4, <3>1 DEF AcquireLock, Locks, Makes
  <2> QED BY <1>6, <2>2, <2>3, <2>4 DEF Locks, Makes
<1>7. CASE child[s] \in {"starting", "listening", "published"}
  <2>1. StartFails(s) \/ Listen(s) \/ Publish(s) \/ ReleaseLock(s)
    BY <1>7 DEF Runs, Look, Clean, FindsDaemon, FindsNone, WaitedInVain, LookAgain, Rechecked, AcquireLock,
         LockIsTaken, FindStaleLock, UnlinkStaleLock, EndShutdown, ForceExit
  <2> QED BY <1>4, <1>7, <2>1 DEF StartFails, Listen, Publish, ReleaseLock, Bury, Locks, Makes
<1>8. child[s] # "crashed"
  BY DEF Runs, Look, FindsDaemon, FindsNone, Clean, AcquireLock, LockIsTaken,
         FindStaleLock, UnlinkStaleLock, WaitedInVain, LookAgain, Rechecked, StartFails, Listen,
         Publish, ReleaseLock, EndShutdown, ForceExit
<1> QED BY <1>4, <1>5, <1>6, <1>7, <1>8 DEF Locks, Makes

\* An attempt that is under way goes on, is stopped, or crashes and is counted, unless crashes age.
LEMMA TrialMoves ==
  ASSUME IInv, Marked, Alone, Alone', [Next]_vars, NEW s \in Sup, NEW n \in Nat, Tries(s, n),
         ~Recovered(s), child[s] \notin {"exited", "stopping", "failing"}
  PROVE  \/ Runs(s) \/ ForgetRestarts(s)
         \/ Recovered(s)' \/ Backs(s, n + 1)'
         \/ Tries(s, n)' /\ child'[s] = "crashed" /\ ~Supervises(s)
         \/ Tries(s, n)' /\ child'[s] = child[s] /\ (lock'.present => lock.present) /\ ~Supervises(s)
<1> USE DEF IInv
<1>1. ~sentinel /\ ~sup[s].shuttingDown /\ sup[s] \in SupRecord
  BY DEF Tries, Marked, Recovered, TypeOK
<1>2. Supervises(s) => Recovered(s)' \/ Backs(s, n + 1)'
  <2> SUFFICES ASSUME Supervises(s) PROVE Recovered(s)' \/ Backs(s, n + 1)'
    OBVIOUS
  <2>1. ChildCrashed(s)
    BY <1>1 DEF Supervises, StartFindsDaemon, StartFindsNone, ChildEnded, Respawn, StopInBackoff, Tries
  <2>2. sup'[s] = IF sup[s].restarts + 1 >= MaxRestarts THEN GaveUp ELSE BacksOff(sup[s])
    BY <2>1 DEF ChildCrashed, TypeOK
  <2>3. sup'[s] = GaveUp => Recovered(s)'
    BY DEF Recovered
  <2>4. sup'[s] = BacksOff(sup[s]) => Backs(s, n + 1)'
    BY <1>1 DEF BacksOff, Backs, Tries, SupRecord
  <2> QED BY <2>2, <2>3, <2>4
<1>3. SignalSupervisor(s) \/ StopHealthy => Recovered(s)'
  <2>1. SignalSupervisor(s) => s \in stopped'
    BY DEF SignalSupervisor
  <2>2. StopHealthy => s \in stopped'
    BY OthersAreAbsent DEF StopHealthy, Halted, Tries
  <2> QED BY <2>1, <2>2 DEF Recovered
<1>4. ~Fail(s)
  BY DEF Fail, Recovered
<1>5. Crash(s) => Tries(s, n)' /\ child'[s] = "crashed"
  BY DEF Crash, Exit, Bury, Tries, TypeOK
<1>6. UNCHANGED <<sup, child>> => Tries(s, n)' /\ child'[s] = child[s]
  BY DEF Tries
<1> QED BY <1>2, <1>3, <1>4, <1>5, <1>6, LoneSteps DEF Tries

\* What holds as long as one supervisor at a time is up.
Lone == IInv /\ InfoMeansUp /\ Marked /\ Alone

LEMMA LoneAlways == Spec /\ []Alone => []Lone
<1>1. Init => Marked
  <2>1. Absent.at = "absent"
    BY DEF Absent
  <2> QED BY <2>1 DEF Init, Marked
<1>2. IInv => TypeOK
  BY DEF IInv
<1>3. Lone <=> IInv /\ InfoMeansUp /\ Marked /\ Alone
  BY DEF Lone
<1> QED BY <1>1, <1>2, <1>3, MarkedStep, InfoIsPublished, PTL DEF Spec

\* Crashes that age leave a supervisor and its daemon where they are.
LEMMA AgeingStays ==
  ASSUME TypeOK, NEW s \in Sup, ForgetRestarts(s)
  PROVE  sup'[s].at = sup[s].at /\ child' = child /\ vars' # vars
<1>1. PICK n \in 0 .. MaxRestarts : n < sup[s].restarts /\ sup' = [sup EXCEPT ![s].restarts = n]
  BY DEF ForgetRestarts
<1>2. sup[s] \in SupRecord /\ sup'[s] = [sup[s] EXCEPT !.restarts = n]
  BY <1>1 DEF TypeOK
<1>3. sup'[s].at = sup[s].at /\ sup'[s].restarts = n /\ sup[s].restarts # n
  BY <1>1, <1>2, MaxRestartsAssumption DEF SupRecord
<1> QED BY <1>3 DEF ForgetRestarts, vars

\* It stays on its way until the waiting is over, however crashes age.
LEMMA OnWayStays ==
  ASSUME Lone, Lone', [Next]_vars, NEW s \in Sup, OnWay(s), ~Recovered(s)
  PROVE  OnWay(s)' \/ Recovered(s)'
<1> USE DEF Lone
<1>1. PICK n \in Nat : sup[s].restarts = n
  BY MaxRestartsAssumption DEF IInv, TypeOK, SupRecord
<1>2. CASE ForgetRestarts(s)
  BY <1>2, AgeingStays DEF OnWay, IInv
<1>3. CASE ~ForgetRestarts(s) /\ sup[s].at = "backoff"
  BY <1>1, <1>3, BackoffMoves DEF OnWay, Backs, Tries
<1>4. CASE ~ForgetRestarts(s) /\ sup[s].at = "supervising"
  <2>1. Tries(s, n) /\ child[s] \notin {"exited", "stopping", "failing"}
    BY <1>1, <1>4 DEF OnWay, Tries
  <2>2. CASE Runs(s)
    BY <1>4, <2>2, TrialRuns DEF OnWay, Locks, Makes, Recovered
  <2>3. CASE ~Runs(s)
    BY <1>4, <2>1, <2>3, TrialMoves DEF OnWay, Tries, Backs
  <2> QED BY <2>2, <2>3
<1> QED BY <1>2, <1>3, <1>4 DEF OnWay

\* One attempt, as long as crashes do not age: from the n-th crash in a row the way leads to a daemon
\* that serves, to a stop, to giving up, or to the backoff after the next crash.
LEMMA AttemptsAreCounted ==
  ASSUME NEW s \in Sup, NEW n \in Nat, NEW m \in Nat, m = n + 1
  PROVE  []Lone /\ [][Next]_vars /\ [][ForgetRestarts(s) => child[s] = "serving"]_vars /\ DaemonFairness(s)
           => (Stage(s, n) ~> Recovered(s) \/ Backs(s, m))
<1> DEFINE World == /\ Lone /\ Lone' /\ [Next]_vars
                    /\ [ForgetRestarts(s) => child[s] = "serving"]_vars
           Out == Recovered(s) \/ Backs(s, m)
           Looks == Tries(s, n) /\ child[s] = "looking"
           Cleans == Tries(s, n) /\ child[s] = "cleaning"
           Finds == Tries(s, n) /\ Locks(s)
           Removes == Tries(s, n) /\ child[s] = "unlinking"
           Takes == Tries(s, n) /\ Makes(s)
           Starts == Tries(s, n) /\ child[s] = "starting"
           Listens == Tries(s, n) /\ child[s] = "listening"
           Publishes == Tries(s, n) /\ child[s] = "published"
           Failed == Tries(s, n) /\ child[s] = "crashed"
<1>0. World /\ ~Out => Lone /\ IInv /\ InfoMeansUp /\ Marked /\ Alone /\ Alone' /\ ~ForgetRestarts(s)
  BY AgeingStays DEF Lone, Recovered, IInv
<1>1. World /\ ~Out /\ Backs(s, n) =>
        (Backs(s, n)' \/ Looks' \/ Out') /\ (<<Supervises(s)>>_vars => Looks')
  BY <1>0, BackoffMoves
<1>2. ASSUME World, ~Out, Tries(s, n), child[s] \notin {"exited", "stopping", "failing"}
      PROVE  \/ Runs(s)
             \/ Out' \/ (Failed' /\ ~Supervises(s))
             \/ Tries(s, n)' /\ child'[s] = child[s] /\ (lock'.present => lock.present) /\ ~Supervises(s)
  BY <1>0, <1>2, TrialMoves
<1>3. ASSUME World, ~Out, Tries(s, n), Runs(s)
      PROVE  /\ child[s] = "looking" => Cleans' \/ Finds' \/ Takes'
             /\ child[s] = "cleaning" => Finds' \/ Takes'
             /\ Locks(s) => Removes'
             /\ child[s] = "unlinking" => Takes'
             /\ Makes(s) => Starts'
             /\ child[s] = "starting" => Listens' \/ Failed'
             /\ child[s] = "listening" => Publishes'
             /\ child[s] = "published" => Out'
             /\ child[s] # "crashed"
  <2>1. Tries(s, n)'
    BY <1>0, <1>3, TrialRuns DEF Tries
  <2> QED BY <1>0, <1>3, <2>1, TrialRuns DEF Tries, Locks, Makes, Recovered
<1> DEFINE Moves(from, to) == /\ World /\ ~Out /\ from => from' \/ to' \/ Failed' \/ Out'
                              /\ World /\ ~Out /\ from /\ <<Runs(s)>>_vars => to' \/ Failed' \/ Out'
<1>4. Moves(Looks, Cleans \/ Finds \/ Takes)
  BY <1>2, <1>3
<1>5. Moves(Cleans, Finds \/ Takes)
  BY <1>2, <1>3
<1>6. Moves(Finds, Removes \/ Takes)
  BY <1>2, <1>3 DEF Locks, Makes
<1>7. Moves(Removes, Takes)
  BY <1>2, <1>3
<1>8. Moves(Takes, Starts)
  BY <1>2, <1>3 DEF Makes
<1>9. Moves(Starts, Listens)
  BY <1>2, <1>3
<1>10. Moves(Listens, Publishes)
  BY <1>2, <1>3
<1>11. Moves(Publishes, Out)
  BY <1>2, <1>3
<1>12. World /\ ~Out /\ Failed => (Failed' \/ Out') /\ (<<Supervises(s)>>_vars => Out')
  BY <1>2, <1>3
<1>13. /\ Looks \/ Cleans \/ Finds \/ Removes \/ Takes \/ Starts \/ Listens \/ Publishes => OnItsWay(s)
       /\ Backs(s, n) \/ Failed => Due(s)
  BY DEF OnItsWay, Alive, Due, Locks, Makes, Tries, Backs
<1>14. Stage(s, n) => \/ Backs(s, n) \/ Looks \/ Cleans \/ Finds \/ Removes \/ Takes
                      \/ Starts \/ Listens \/ Publishes \/ Failed
  BY DEF Stage, OnWay, Backs, Tries, Locks, Makes
<1> DEFINE Always == []Lone /\ [][Next]_vars /\ [][ForgetRestarts(s) => child[s] = "serving"]_vars
<1> HIDE DEF Out, Looks, Cleans, Finds, Removes, Takes, Starts, Listens, Publishes, Failed
<1>15. Always /\ DaemonFairness(s) => (Failed ~> Out)
  BY <1>12, <1>13, PTL DEF DaemonFairness
<1>16. Always /\ DaemonFairness(s) => (Backs(s, n) ~> Looks \/ Out)
  BY <1>1, <1>13, PTL DEF DaemonFairness
<1>17. Always /\ DaemonFairness(s) => (Looks ~> Cleans \/ Finds \/ Takes \/ Failed \/ Out)
  BY <1>4, <1>13, PTL DEF DaemonFairness
<1>18. Always /\ DaemonFairness(s) => (Cleans ~> Finds \/ Takes \/ Failed \/ Out)
  BY <1>5, <1>13, PTL DEF DaemonFairness
<1>19. Always /\ DaemonFairness(s) => (Finds ~> Removes \/ Takes \/ Failed \/ Out)
  BY <1>6, <1>13, PTL DEF DaemonFairness
<1>20. Always /\ DaemonFairness(s) => (Removes ~> Takes \/ Failed \/ Out)
  BY <1>7, <1>13, PTL DEF DaemonFairness
<1>21. Always /\ DaemonFairness(s) => (Takes ~> Starts \/ Failed \/ Out)
  BY <1>8, <1>13, PTL DEF DaemonFairness
<1>22. Always /\ DaemonFairness(s) => (Starts ~> Listens \/ Failed \/ Out)
  BY <1>9, <1>13, PTL DEF DaemonFairness
<1>23. Always /\ DaemonFairness(s) => (Listens ~> Publishes \/ Failed \/ Out)
  BY <1>10, <1>13, PTL DEF DaemonFairness
<1>24. Always /\ DaemonFairness(s) => (Publishes ~> Failed \/ Out)
  BY <1>11, <1>13, PTL DEF DaemonFairness
<1>25. Always /\ DaemonFairness(s) => (Starts ~> Out)
  BY <1>15, <1>22, <1>23, <1>24, PTL DEF DaemonFairness
<1>26. Always /\ DaemonFairness(s) => (Cleans \/ Finds \/ Takes ~> Out)
  BY <1>15, <1>18, <1>19, <1>20, <1>21, <1>25, PTL DEF DaemonFairness
<1>27. Always /\ DaemonFairness(s) => (Backs(s, n) ~> Out)
  BY <1>15, <1>16, <1>17, <1>26, PTL DEF DaemonFairness
<1>28. Always /\ DaemonFairness(s) => (Looks \/ Removes \/ Listens \/ Publishes \/ Failed ~> Out)
  BY <1>15, <1>17, <1>20, <1>21, <1>23, <1>24, <1>25, <1>26, PTL
<1> QED BY <1>25, <1>26, <1>27, <1>28, <1>14, PTL DEF Out

\* A supervisor backs off only from a crash that leaves it attempts.
Few == \A s \in Sup : sup[s].at = "backoff" => sup[s].restarts < MaxRestarts

LEMMA BackoffsAreFew == Spec => []Few
<1> USE DEF Few
<1>1. Init => Few
  <2>1. Absent.at = "absent"
    BY DEF Absent
  <2> QED BY <2>1 DEF Init
<1>2. IInv /\ Few /\ [Next]_vars => Few'
  <2> SUFFICES ASSUME IInv, Few, [Next]_vars, NEW s \in Sup, sup'[s].at = "backoff"
               PROVE  sup'[s].restarts < MaxRestarts
    OBVIOUS
  <2>1. CASE sup'[s] = sup[s]
    BY <2>1
  <2>2. CASE ForgetRestarts(s)
    <3>1. PICK n \in 0 .. MaxRestarts : n < sup[s].restarts /\ sup' = [sup EXCEPT ![s].restarts = n]
      BY <2>2 DEF ForgetRestarts
    <3>2. sup[s] \in SupRecord /\ sup'[s] = [sup[s] EXCEPT !.restarts = n]
      BY <3>1 DEF IInv, TypeOK
    <3>3. sup'[s].restarts = n /\ sup'[s].at = sup[s].at
      BY <3>2 DEF SupRecord
    <3> QED BY <3>1, <3>2, <3>3, MaxRestartsAssumption DEF SupRecord
  <2>3. CASE sup'[s] # sup[s] /\ ~ForgetRestarts(s)
    <3>1. ChildCrashed(s)
      <4>1. Concerns(s)
        BY <2>3, OthersLeaveAlone DEF IInv
      <4>2. ~Start(s) /\ ~StartProbing(s) /\ ~SignalSupervisor(s)
        <5>1. sup'[s] # [Absent EXCEPT !.at = "supervising"] /\ sup'[s] # [Absent EXCEPT !.at = "probing"]
              /\ sup'[s] # Absent
          BY DEF Absent
        <5>2. sup[s] \in SupRecord
          BY DEF IInv, TypeOK
        <5>3. SignalSupervisor(s) =>
                \/ sup'[s] = Absent
                \/ sup'[s] = [sup[s] EXCEPT !.shuttingDown = TRUE] /\ sup[s].at # "backoff"
          BY DEF SignalSupervisor, IInv, TypeOK
        <5>4. ~SignalSupervisor(s)
          BY <5>1, <5>2, <5>3 DEF SupRecord
        <5>5. Start(s) \/ StartProbing(s)
                => sup'[s] \in {[Absent EXCEPT !.at = "supervising"], [Absent EXCEPT !.at = "probing"]}
          BY DEF Start, StartProbing, IInv, TypeOK
        <5> QED BY <5>1, <5>4, <5>5
      <4>3. ~StartFindsDaemon(s) /\ ~ChildEnded(s) /\ ~StopInBackoff(s)
        <5>1. sup'[s] # Absent
          BY DEF Absent
        <5> QED BY <5>1 DEF StartFindsDaemon, ChildEnded, StopInBackoff, IInv, TypeOK
      <4>4. ~StartFindsNone(s) /\ ~Respawn(s)
        <5>1. sup[s] \in SupRecord
          BY DEF IInv, TypeOK
        <5>2. StartFindsNone(s) \/ Respawn(s) => sup'[s] = [sup[s] EXCEPT !.at = "supervising"]
          BY DEF StartFindsNone, Respawn, IInv, TypeOK
        <5> QED BY <5>1, <5>2 DEF SupRecord
      <4>5. ~(Runs(s) \/ Fail(s) \/ Crash(s) \/ StopHealthy)
        BY <2>3 DEF Runs, Fail, Crash, StopHealthy, Look, FindsDaemon, FindsNone, Clean, AcquireLock,
           LockIsTaken, FindStaleLock, UnlinkStaleLock, WaitedInVain, LookAgain, Rechecked, StartFails,
           Listen, Publish, ReleaseLock, EndShutdown, ForceExit
      <4> QED BY <2>3, <4>1, <4>2, <4>3, <4>4, <4>5 DEF Concerns, Supervises
    <3>2. sup'[s] = IF sup[s].restarts + 1 >= MaxRestarts THEN GaveUp ELSE BacksOff(sup[s])
      BY <3>1 DEF ChildCrashed, IInv, TypeOK
    <3>3. sup'[s] = BacksOff(sup[s]) /\ sup[s].restarts + 1 < MaxRestarts
      BY <3>2, MaxRestartsAssumption DEF GaveUp, Absent, IInv, TypeOK, SupRecord
    <3> QED BY <3>3 DEF BacksOff, IInv, TypeOK, SupRecord
  <2> QED BY <2>1, <2>2, <2>3
<1> QED BY <1>1, <1>2, InfoIsPublished, PTL DEF Spec

\* With the five attempts that the code allows, a crash is followed by a daemon that serves, a stop, or
\* the supervisor's giving up, whatever the dead daemon left in the files, as long as no second
\* supervisor comes up and crashes do not age for ever before any daemon serves.
THEOREM CrashesAreRecovered ==
  ASSUME MaxRestarts <= 5
  PROVE  Spec /\ (\A s \in Sup : DaemonFairness(s)) => Recovers
<1>1. ASSUME NEW s \in Sup
      PROVE  Spec /\ []Alone /\ DaemonFairness(s) /\ CrashesCount(s) => (sup[s].at = "backoff" ~> Recovered(s))
  <2> DEFINE Always == []Lone /\ [][Next]_vars /\ DaemonFairness(s)
             Counted == [][ForgetRestarts(s) => child[s] = "serving"]_vars
             World == Always /\ Counted
  <2>1. World => (Stage(s, 0) ~> Recovered(s) \/ Backs(s, 1))
    <3>1. PICK n \in Nat, m \in Nat : n = 0 /\ m = n + 1
      OBVIOUS
    <3>2. World => (Stage(s, n) ~> Recovered(s) \/ Backs(s, m))
      BY <3>1, AttemptsAreCounted
    <3>3. (Stage(s, n) <=> Stage(s, 0)) /\ (Backs(s, m) <=> Backs(s, 1))
      BY <3>1
    <3> QED BY <3>2, <3>3, PTL
  <2>2. World => (Stage(s, 1) ~> Recovered(s) \/ Backs(s, 2))
    <3>1. PICK n \in Nat, m \in Nat : n = 1 /\ m = n + 1
      OBVIOUS
    <3>2. World => (Stage(s, n) ~> Recovered(s) \/ Backs(s, m))
      BY <3>1, AttemptsAreCounted
    <3>3. (Stage(s, n) <=> Stage(s, 1)) /\ (Backs(s, m) <=> Backs(s, 2))
      BY <3>1
    <3> QED BY <3>2, <3>3, PTL
  <2>3. World => (Stage(s, 2) ~> Recovered(s) \/ Backs(s, 3))
    <3>1. PICK n \in Nat, m \in Nat : n = 2 /\ m = n + 1
      OBVIOUS
    <3>2. World => (Stage(s, n) ~> Recovered(s) \/ Backs(s, m))
      BY <3>1, AttemptsAreCounted
    <3>3. (Stage(s, n) <=> Stage(s, 2)) /\ (Backs(s, m) <=> Backs(s, 3))
      BY <3>1
    <3> QED BY <3>2, <3>3, PTL
  <2>4. World => (Stage(s, 3) ~> Recovered(s) \/ Backs(s, 4))
    <3>1. PICK n \in Nat, m \in Nat : n = 3 /\ m = n + 1
      OBVIOUS
    <3>2. World => (Stage(s, n) ~> Recovered(s) \/ Backs(s, m))
      BY <3>1, AttemptsAreCounted
    <3>3. (Stage(s, n) <=> Stage(s, 3)) /\ (Backs(s, m) <=> Backs(s, 4))
      BY <3>1
    <3> QED BY <3>2, <3>3, PTL
  <2>5. World => (Stage(s, 4) ~> Recovered(s) \/ Backs(s, 5))
    <3>1. PICK n \in Nat, m \in Nat : n = 4 /\ m = n + 1
      OBVIOUS
    <3>2. World => (Stage(s, n) ~> Recovered(s) \/ Backs(s, m))
      BY <3>1, AttemptsAreCounted
    <3>3. (Stage(s, n) <=> Stage(s, 4)) /\ (Backs(s, m) <=> Backs(s, 5))
      BY <3>1
    <3> QED BY <3>2, <3>3, PTL
  <2>6. World => (Stage(s, 5) ~> Recovered(s) \/ Backs(s, 6))
    <3>1. PICK n \in Nat, m \in Nat : n = 5 /\ m = n + 1
      OBVIOUS
    <3>2. World => (Stage(s, n) ~> Recovered(s) \/ Backs(s, m))
      BY <3>1, AttemptsAreCounted
    <3>3. (Stage(s, n) <=> Stage(s, 5)) /\ (Backs(s, m) <=> Backs(s, 6))
      BY <3>1
    <3> QED BY <3>2, <3>3, PTL
  <2>7. Lone /\ OnWay(s)
          => Stage(s, 0) \/ Stage(s, 1) \/ Stage(s, 2) \/ Stage(s, 3) \/ Stage(s, 4) \/ Stage(s, 5)
    <3> SUFFICES ASSUME Lone, OnWay(s) PROVE sup[s].restarts \in {0, 1, 2, 3, 4, 5}
      BY DEF Stage
    <3>1. sup[s].restarts \in 0 .. MaxRestarts
      BY DEF Lone, IInv, TypeOK, SupRecord
    <3> QED BY <3>1, MaxRestartsAssumption
  <2>8. Few => ~Backs(s, 5) /\ ~Backs(s, 6)
    BY MaxRestartsAssumption DEF Few, Backs
  <2>9. /\ Backs(s, 1) => Stage(s, 1)
        /\ Backs(s, 2) => Stage(s, 2)
        /\ Backs(s, 3) => Stage(s, 3)
        /\ Backs(s, 4) => Stage(s, 4)
    BY DEF Backs, Stage, OnWay
  <2>10. World /\ []Few => (OnWay(s) ~> Recovered(s))
    BY <2>1, <2>2, <2>3, <2>4, <2>5, <2>6, <2>7, <2>8, <2>9, PTL
  <2>11. Lone /\ Lone' /\ [Next]_vars /\ OnWay(s) => Recovered(s) \/ OnWay(s)' \/ Recovered(s)'
    BY OnWayStays
  <2>12. sup[s].at = "backoff" => OnWay(s)
    BY DEF OnWay
  <2>13. CrashesCount(s) <=> <>Counted
    BY DEF CrashesCount
  <2>14. Always /\ []Few /\ <>Counted => (OnWay(s) ~> Recovered(s))
    BY <2>10, <2>11, PTL DEF DaemonFairness
  <2> QED BY <2>12, <2>13, <2>14, BackoffsAreFew, LoneAlways, PTL DEF Spec
<1>2. ASSUME NEW s \in Sup
      PROVE  (sup[s].at = "backoff" ~> Recovered(s))
               => (sup[s].at = "backoff" ~> (child[s] = "serving" \/ s \in stopped \/ sup[s] = GaveUp))
  BY DEF Recovered
<1> QED BY <1>1, <1>2 DEF Recovers

----------------------------------------------------------------------------
(***************************************************************************)
(* What the daemon remembers of the files: module Mirror, whose constants  *)
(* and variables are other than Daemon's.                                  *)
(*                                                                         *)
(* MirrorInv speaks of moments at which nothing is on its way.  The        *)
(* inductive form has to follow a change through the moments at which      *)
(* something is: as the event on its way, as the pending event with a      *)
(* timer or a reload to take it up, as a reload that waits.  The chain can *)
(* break only where an event is skipped, so the form also says that        *)
(* whatever a suppression could still swallow has either been swallowed on *)
(* the record (missed) or is about to be written over.  That a snapshot    *)
(* follows every reload rests on one more fact: as long as no reload was   *)
(* given up, at most one is under way, and the watcher awaits it.          *)
(***************************************************************************)

\* The file whose contents the daemon is about to replace, if it announced the write.
BeingWritten == IF writing # NoFile /\ ~landed THEN {writing} \ {Project} ELSE {}

\* A suppressed file that memory has not is written over soon, or was edited while suppressed.
Excused == \A f \in ignored \cap stale : f \in missed \cup BeingWritten

\* A reload that is awaited exists.
Awaits == processing => waiting > 0 \/ loading

\* The pending event leads to a reload: a timer is armed for it, or will be when the reload ends.
TakenUp == pending # NoFile /\ (timer \/ (processing /\ pending \notin ignored))

\* Each difference has an event on its way, is on the record, or is about to be written over.
OnRecord == stale \subseteq stirred \cup missed \cup BeingWritten

\* Every difference between memory and the files leads to a reload, or is on the record.
Accounted == failed \/ waiting > 0 \/ TakenUp \/ OnRecord

\* Nobody writes during a reload, and an event left pending that will be skipped at its end is of
\* a change that another event announces.
Still == writing = NoFile /\ (pending \in ignored => stale \subseteq stirred \cup missed)

Quiet == loading => Still

\* Unless one was given up, there is one reload at a time, and it is awaited; what the clients have
\* not seen comes from it.
InTime ==
  ~late =>
    /\ loading => processing /\ waiting = 0
    /\ waiting > 0 => processing /\ waiting = 1
    /\ unseen # {} => loading

MirrorIInv == MirrorTypeOK /\ Excused /\ Awaits /\ Accounted /\ Quiet /\ InTime

LEMMA Loads == MaxLoads \in Nat /\ MaxLoads > 0
BY MirrorAssumption

\* MirrorInit establishes the inductive invariant.
LEMMA Starts == MirrorInit => MirrorIInv
<1> SUFFICES ASSUME MirrorInit PROVE MirrorIInv
  OBVIOUS
<1>1. MirrorTypeOK
  <2>1. waiting \in 0 .. MaxLoads
    BY Loads DEF MirrorInit
  <2>2. pending \in File \cup {NoFile} /\ writing \in File \cup {NoFile}
    BY DEF MirrorInit
  <2>3. stale \subseteq File /\ unseen \subseteq File /\ bad \subseteq File
    BY DEF MirrorInit
  <2> QED BY <2>1, <2>2, <2>3 DEF MirrorInit, MirrorTypeOK
<1>2. Excused
  BY DEF MirrorInit, Excused
<1>3. Awaits /\ Quiet /\ InTime
  BY DEF MirrorInit, Awaits, Quiet, InTime
<1>4. Accounted
  BY DEF MirrorInit, Accounted, OnRecord
<1> QED BY <1>1, <1>2, <1>3, <1>4 DEF MirrorIInv

\* The inductive invariant implies the invariant.
LEMMA AtRest == MirrorIInv => MirrorInv
BY Loads DEF MirrorIInv, MirrorInv, MirrorTypeOK, Awaits, Accounted, InTime, StaleIsUnderWay, UnderWay,
             UnseenIsUnderWay, TakenUp, OnRecord, BeingWritten

\* When the watcher is done with a reload, an event left pending arms the timer again or is
\* skipped, and the skip uses up its suppression.
LEMMA DoneProcessing ==
  ASSUME MirrorTypeOK, Processed
  PROVE  /\ processing' = FALSE /\ pending' = pending
         /\ timer' \in BOOLEAN /\ ignored' \subseteq ignored
         /\ timer => timer'
         /\ pending # NoFile /\ pending \notin ignored => timer'
BY DEF MirrorTypeOK, Processed, Schedule, Skip

\* The suppressions, the debounce and the reloads keep their types.
LEMMA WatcherTyped ==
  ASSUME MirrorIInv, [MirrorNext]_mirrorVars
  PROVE  /\ ignored' \subseteq File \ {Project}
         /\ pending' \in File \cup {NoFile}
         /\ timer' \in BOOLEAN
         /\ processing' \in BOOLEAN
<1> USE DEF Watcher, Reload, Write, Past
<1>0. MirrorTypeOK
  BY DEF MirrorIInv
<1>1. CASE \E f \in File : Edit(f) \/ BeginWrite(f) \/ Hear(f) \/ Expire(f)
  BY <1>0, <1>1 DEF Edit, BeginWrite, Hear, Expire, Schedule, Skip, MirrorTypeOK
<1>2. CASE LandWrite \/ EndWrite \/ FailWrite \/ Load \/ UNCHANGED mirrorVars
  BY <1>0, <1>2 DEF LandWrite, EndWrite, FailWrite, Load, MirrorTypeOK, mirrorVars
<1>3. CASE Debounced
  BY <1>0, <1>3 DEF Debounced, MirrorTypeOK
<1>4. CASE FinishLoad \/ FailLoad \/ GiveUp
  BY <1>0, <1>4, DoneProcessing DEF FinishLoad, FailLoad, GiveUp, MirrorTypeOK
<1> QED BY <1>1, <1>2, <1>3, <1>4 DEF MirrorNext

\* The number of reloads in the queue of the mutex is bounded by the guard of Debounced.
LEMMA WaitingTyped ==
  ASSUME MirrorIInv, [MirrorNext]_mirrorVars
  PROVE  waiting' \in 0 .. MaxLoads
<1> USE DEF Reload
<1>0. waiting \in Nat /\ waiting <= MaxLoads
  BY Loads DEF MirrorIInv, MirrorTypeOK
<1>1. CASE Debounced
  BY <1>0, <1>1, Loads DEF Debounced
<1>2. CASE Load \/ FailLoad
  BY <1>0, <1>2, Loads DEF Load, FailLoad
<1>3. ASSUME waiting' = waiting PROVE waiting' \in 0 .. MaxLoads
  BY <1>0, <1>3, Loads
<1>4. CASE ~(Debounced \/ Load \/ FailLoad)
  BY <1>3, <1>4
     DEF MirrorNext, Edit, BeginWrite, Hear, Expire, LandWrite, EndWrite, FailWrite, FinishLoad, GiveUp,
         mirrorVars
<1> QED BY <1>1, <1>2, <1>4

\* The files, the write and the history keep their types.
LEMMA FilesTyped ==
  ASSUME MirrorIInv, [MirrorNext]_mirrorVars
  PROVE  /\ stale' \subseteq File /\ unseen' \subseteq File /\ bad' \subseteq File
         /\ stirred' \subseteq File /\ missed' \subseteq File
         /\ writing' \in File \cup {NoFile}
         /\ loading' \in BOOLEAN /\ landed' \in BOOLEAN
         /\ failed' \in BOOLEAN /\ late' \in BOOLEAN
         /\ landed' => writing' # NoFile
<1> DEFINE Good ==
      /\ stale \subseteq File /\ unseen \subseteq File /\ bad \subseteq File
      /\ stirred \subseteq File /\ missed \subseteq File
      /\ writing \in File \cup {NoFile}
      /\ loading \in BOOLEAN /\ landed \in BOOLEAN
      /\ failed \in BOOLEAN /\ late \in BOOLEAN
      /\ landed => writing # NoFile
<1> USE DEF Watcher, Reload, Write, Past
<1>0. Good /\ NoFile \notin File
  BY MirrorAssumption DEF MirrorIInv, MirrorTypeOK
<1>1. ASSUME NEW f \in File, Edit(f) PROVE Good'
  BY <1>0, <1>1 DEF Edit
<1>2. ASSUME NEW f \in File, BeginWrite(f) \/ Hear(f) \/ Expire(f) PROVE Good'
  BY <1>0, <1>2 DEF BeginWrite, MutexFree, Hear, Expire
<1>3. CASE LandWrite
  BY <1>0, <1>3 DEF LandWrite
<1>4. CASE EndWrite
  BY <1>0, <1>4 DEF EndWrite
<1>5. CASE FailWrite
  BY <1>0, <1>5 DEF FailWrite
<1>6. CASE Debounced
  BY <1>0, <1>6 DEF Debounced
<1>7. CASE Load
  BY <1>0, <1>7 DEF Load
<1>8. CASE FinishLoad
  BY <1>0, <1>8 DEF FinishLoad
<1>9. CASE FailLoad
  BY <1>0, <1>9 DEF FailLoad
<1>10. CASE GiveUp
  BY <1>0, <1>10 DEF GiveUp
<1>11. CASE UNCHANGED mirrorVars
  BY <1>0, <1>11 DEF mirrorVars
<1> QED BY <1>1, <1>2, <1>3, <1>4, <1>5, <1>6, <1>7, <1>8, <1>9, <1>10, <1>11 DEF MirrorNext

LEMMA Typed == MirrorIInv /\ [MirrorNext]_mirrorVars => MirrorTypeOK'
BY WatcherTyped, WaitingTyped, FilesTyped DEF MirrorTypeOK

----------------------------------------------------------------------------
(* The parts of the inductive invariant. *)

\* A write that is announced covers its file until it lands or fails; a write and a reload never
\* overlap, and nothing else is being written.
LEMMA WriteCovers ==
  ASSUME MirrorTypeOK
  PROVE  /\ MutexFree => BeingWritten = {}
         /\ landed => BeingWritten = {}
         /\ BeingWritten \subseteq File \ {Project}
BY DEF MirrorTypeOK, MutexFree, BeingWritten

\* A suppression never covers a difference that nobody answers for.
LEMMA ExcusedKept == MirrorIInv /\ [MirrorNext]_mirrorVars => Excused'
<1> SUFFICES ASSUME MirrorIInv, [MirrorNext]_mirrorVars PROVE Excused'
  OBVIOUS
<1> USE DEF Watcher, Reload, Write, Past, Excused
<1>0. MirrorTypeOK /\ Excused
  BY DEF MirrorIInv
<1>1. ASSUME NEW f \in File, Edit(f) PROVE Excused'
  BY <1>0, <1>1 DEF Edit, BeingWritten
<1>2. ASSUME NEW f \in File, BeginWrite(f) PROVE Excused'
  <2>1. BeingWritten = {}
    BY <1>0, <1>2, WriteCovers DEF BeginWrite
  <2>2. BeingWritten' = {f} \ {Project}
    BY <1>0, <1>2, MirrorAssumption DEF BeginWrite, MutexFree, BeingWritten, MirrorTypeOK
  <2> QED BY <1>0, <1>2, <2>1, <2>2 DEF BeginWrite
<1>3. ASSUME NEW f \in File, Hear(f) \/ Expire(f) PROVE Excused'
  <2>1. ignored' \subseteq ignored
    BY <1>3 DEF Hear, Schedule, Skip, Expire
  <2> QED BY <1>0, <1>3, <2>1 DEF Hear, Expire, BeingWritten
<1>4. CASE LandWrite
  BY <1>0, <1>4 DEF LandWrite, BeingWritten
<1>5. CASE EndWrite
  BY <1>0, <1>5 DEF EndWrite, BeingWritten
<1>6. CASE FailWrite
  BY <1>0, <1>6 DEF FailWrite, BeingWritten
<1>7. CASE Debounced
  BY <1>0, <1>7 DEF Debounced, BeingWritten
<1>8. CASE Load
  BY <1>8 DEF Load
<1>9. CASE FinishLoad \/ FailLoad \/ GiveUp
  <2>1. ignored' \subseteq ignored
    BY <1>0, <1>9, DoneProcessing DEF FinishLoad, FailLoad, GiveUp
  <2> QED BY <1>0, <1>9, <2>1 DEF FinishLoad, FailLoad, GiveUp, BeingWritten
<1>10. CASE UNCHANGED mirrorVars
  BY <1>0, <1>10 DEF mirrorVars, BeingWritten
<1> QED BY <1>1, <1>2, <1>3, <1>4, <1>5, <1>6, <1>7, <1>8, <1>9, <1>10 DEF MirrorNext

\* The watcher never awaits a reload that nobody runs.
LEMMA AwaitsKept == MirrorIInv /\ [MirrorNext]_mirrorVars => Awaits'
<1> SUFFICES ASSUME MirrorIInv, [MirrorNext]_mirrorVars PROVE Awaits'
  OBVIOUS
<1> USE DEF Watcher, Reload, Write, Past
<1>0. Awaits /\ waiting \in Nat
  BY Loads DEF MirrorIInv, MirrorTypeOK
<1>1. CASE processing' = processing /\ waiting' = waiting /\ loading' = loading
  BY <1>0, <1>1 DEF Awaits
<1>2. CASE processing' = FALSE
  BY <1>2 DEF Awaits
<1>3. CASE Debounced
  <2>1. CASE waiting' = waiting + 1
    <3>1. waiting' > 0
      BY <1>0, <2>1
    <3> QED BY <3>1 DEF Awaits
  <2> QED BY <1>1, <1>3, <2>1 DEF Debounced
<1>4. CASE Load
  BY <1>4 DEF Load, Awaits
<1>5. CASE FinishLoad
  <2>1. CASE ~Awaited /\ processing' = processing /\ waiting' = waiting
    <3>1. waiting = 0 \/ waiting > 0
      BY <1>0
    <3> QED BY <2>1, <3>1 DEF Awaits, Awaited
  <2> QED BY <1>2, <1>5, <2>1 DEF FinishLoad, Processed
<1>6. CASE FailLoad
  <2>1. CASE processing' = processing /\ ~(processing /\ waiting = 1)
    <3>1. waiting # 1 => waiting' > 0
      BY <1>0, <1>6 DEF FailLoad
    <3> QED BY <2>1, <3>1 DEF Awaits
  <2> QED BY <1>2, <1>6, <2>1 DEF FailLoad, Processed
<1>7. CASE GiveUp
  BY <1>2, <1>7 DEF GiveUp, Processed
<1>8. CASE ~(Debounced \/ Load \/ GiveUp \/ FinishLoad \/ FailLoad)
  BY <1>1, <1>8
     DEF MirrorNext, Edit, BeginWrite, Hear, Expire, LandWrite, EndWrite, FailWrite, mirrorVars
<1> QED BY <1>3, <1>4, <1>5, <1>6, <1>7, <1>8

\* Unless a reload was given up, there is one at a time and the watcher awaits it.
LEMMA InTimeKept == MirrorIInv /\ [MirrorNext]_mirrorVars => InTime'
<1> SUFFICES ASSUME MirrorIInv, [MirrorNext]_mirrorVars PROVE InTime'
  OBVIOUS
<1> USE DEF Watcher, Reload, Write, Past, InTime
<1>0. InTime /\ waiting \in Nat /\ processing \in BOOLEAN /\ loading \in BOOLEAN /\ late \in BOOLEAN
  BY Loads DEF MirrorIInv, MirrorTypeOK
<1>1. CASE Debounced
  BY <1>0, <1>1 DEF Debounced
<1>2. CASE Load
  BY <1>0, <1>2 DEF Load
<1>3. CASE GiveUp
  BY <1>3 DEF GiveUp
<1>4. CASE FinishLoad
  BY <1>0, <1>4 DEF FinishLoad, Awaited, Processed
<1>5. CASE FailLoad
  BY <1>0, <1>5 DEF FailLoad, MutexFree
<1>6. CASE EndWrite
  BY <1>0, <1>6 DEF EndWrite
<1>7. CASE ~(Debounced \/ Load \/ GiveUp \/ FinishLoad \/ FailLoad \/ EndWrite)
  BY <1>0, <1>7
     DEF MirrorNext, Edit, BeginWrite, Hear, Expire, LandWrite, FailWrite, mirrorVars
<1> QED BY <1>1, <1>2, <1>3, <1>4, <1>5, <1>6, <1>7

\* Nobody writes during a reload, and an event skipped at its end loses nothing.
LEMMA QuietKept == MirrorIInv /\ [MirrorNext]_mirrorVars => Quiet'
<1> SUFFICES ASSUME MirrorIInv, [MirrorNext]_mirrorVars, loading' PROVE Still'
  BY DEF Quiet
<1> USE DEF Watcher, Reload, Write, Past, Still
<1>0. MirrorTypeOK /\ Quiet /\ Excused
  BY DEF MirrorIInv
<1>1. CASE Load
  BY <1>1 DEF Load, MutexFree
<1>2. loading \/ Load
  BY DEF MirrorNext, Edit, BeginWrite, Hear, Expire, LandWrite, EndWrite, FailWrite, Debounced,
         FinishLoad, FailLoad, GiveUp, mirrorVars
<1>3. CASE loading
  <2>1. writing = NoFile /\ ~landed /\ BeingWritten = {}
    BY <1>0, <1>3 DEF Quiet, MirrorTypeOK, BeingWritten
  <2>2. pending \in ignored => stale \subseteq stirred \cup missed
    BY <1>0, <1>3 DEF Quiet
  <2>3. ASSUME NEW f \in File, Edit(f) PROVE Still'
    BY <2>1, <2>2, <2>3 DEF Edit
  <2>4. ASSUME NEW f \in File, Hear(f) PROVE Still'
    <3>1. CASE Skip(f)
      <4>1. f \in stale => f \in missed
        BY <1>0, <2>1, <3>1 DEF Excused, Skip
      <4> QED BY <2>1, <2>2, <2>4, <3>1, <4>1 DEF Hear, Skip
    <3>2. CASE ~Skip(f)
      BY <2>1, <2>4, <3>2 DEF Hear, Schedule
    <3> QED BY <3>1, <3>2
  <2>5. ASSUME NEW f \in File, Expire(f) PROVE Still'
    BY <2>1, <2>2, <2>5 DEF Expire
  <2>6. CASE Debounced
    <3>1. NoFile \notin ignored
      BY <1>0, MirrorAssumption DEF MirrorTypeOK
    <3> QED BY <2>1, <2>2, <2>6, <3>1 DEF Debounced
  <2>7. CASE GiveUp
    BY <1>0, <2>1, <2>2, <2>7, DoneProcessing DEF GiveUp
  <2>8. CASE UNCHANGED mirrorVars
    BY <2>1, <2>2, <2>8 DEF mirrorVars
  <2>9. /\ ~\E f \in File : BeginWrite(f)
        /\ ~(LandWrite \/ EndWrite \/ FailWrite \/ FinishLoad \/ FailLoad)
    BY <1>3, <2>1 DEF BeginWrite, MutexFree, LandWrite, EndWrite, FailWrite, FinishLoad, FailLoad
  <2> QED BY <1>1, <2>3, <2>4, <2>5, <2>6, <2>7, <2>8, <2>9 DEF MirrorNext
<1> QED BY <1>1, <1>2, <1>3

\* When the watcher is done with a reload, whatever was taken up still is.
LEMMA StaysTaken ==
  ASSUME MirrorTypeOK, Processed, TakenUp
  PROVE  TakenUp'
BY DoneProcessing DEF TakenUp

\* No difference between memory and the files is dropped without a record.
LEMMA AccountedKept == MirrorIInv /\ [MirrorNext]_mirrorVars => Accounted'
<1> SUFFICES ASSUME MirrorIInv, [MirrorNext]_mirrorVars PROVE Accounted'
  OBVIOUS
<1> USE DEF Watcher, Reload, Write, Past
<1>0. MirrorTypeOK /\ Accounted /\ Excused /\ Awaits /\ Quiet /\ waiting \in Nat
  BY Loads DEF MirrorIInv, MirrorTypeOK
<1>1. ASSUME NEW f \in File, Edit(f) PROVE Accounted'
  <2>1. OnRecord => OnRecord'
    BY <1>1 DEF Edit, OnRecord, BeingWritten
  <2> QED BY <1>0, <1>1, <2>1 DEF Edit, Accounted, TakenUp
<1>2. ASSUME NEW f \in File, BeginWrite(f) PROVE Accounted'
  <2>1. OnRecord => OnRecord'
    BY <1>0, <1>2, WriteCovers DEF BeginWrite, OnRecord
  <2>2. TakenUp /\ timer => TakenUp'
    BY <1>2 DEF BeginWrite, TakenUp
  <2>3. TakenUp /\ ~timer => waiting > 0
    BY <1>0, <1>2 DEF BeginWrite, MutexFree, TakenUp, Awaits
  <2> QED BY <1>0, <1>2, <2>1, <2>2, <2>3 DEF BeginWrite, Accounted
<1>3. ASSUME NEW f \in File, Hear(f) PROVE Accounted'
  <2>1. CASE Skip(f)
    <3>1. f \in stale => f \in missed \cup BeingWritten
      BY <1>0, <2>1 DEF Excused, Skip
    <3>2. BeingWritten' = BeingWritten
      BY <1>3 DEF Hear, BeingWritten
    <3>3. OnRecord => OnRecord'
      BY <1>3, <3>1, <3>2 DEF Hear, OnRecord
    <3>4. TakenUp => TakenUp'
      BY <1>3, <2>1 DEF Hear, Skip, TakenUp
    <3> QED BY <1>0, <1>3, <3>3, <3>4 DEF Hear, Accounted
  <2>2. CASE ~Skip(f)
    <3>1. pending' # NoFile /\ timer'
      BY <1>3, <2>2, MirrorAssumption DEF Hear, Schedule
    <3> QED BY <3>1 DEF Accounted, TakenUp
  <2> QED BY <2>1, <2>2
<1>4. ASSUME NEW f \in File, Expire(f) PROVE Accounted'
  <2>1. OnRecord => OnRecord'
    BY <1>4 DEF Expire, OnRecord, BeingWritten
  <2>2. TakenUp => TakenUp'
    BY <1>4 DEF Expire, TakenUp
  <2> QED BY <1>0, <1>4, <2>1, <2>2 DEF Expire, Accounted
<1>5. CASE LandWrite \/ EndWrite \/ FailWrite
  <2>1. OnRecord => OnRecord'
    <3>1. CASE LandWrite
      BY <3>1 DEF LandWrite, OnRecord, BeingWritten
    <3>2. CASE EndWrite
      BY <1>0, <3>2, WriteCovers DEF EndWrite, OnRecord
    <3>3. CASE FailWrite
      BY <3>3 DEF FailWrite, OnRecord, BeingWritten
    <3> QED BY <1>5, <3>1, <3>2, <3>3
  <2>2. TakenUp => TakenUp'
    BY <1>5 DEF LandWrite, EndWrite, FailWrite, TakenUp
  <2> QED BY <1>0, <1>5, <2>1, <2>2 DEF LandWrite, EndWrite, FailWrite, Accounted
<1>6. CASE Debounced
  <2>1. OnRecord => OnRecord'
    BY <1>6 DEF Debounced, OnRecord, BeingWritten
  <2>2. CASE processing \/ pending = NoFile
    <3>1. TakenUp /\ pending \in ignored => waiting > 0 \/ OnRecord
      BY <1>0, <2>2 DEF TakenUp, Awaits, Quiet, Still, OnRecord
    <3>2. TakenUp /\ pending \notin ignored => TakenUp'
      BY <1>6, <2>2 DEF Debounced, TakenUp
    <3> QED BY <1>0, <1>6, <2>1, <2>2, <3>1, <3>2 DEF Debounced, Accounted
  <2>3. CASE ~(processing \/ pending = NoFile)
    <3>1. waiting' > 0
      BY <1>0, <1>6, <2>3 DEF Debounced
    <3> QED BY <3>1 DEF Accounted
  <2> QED BY <2>2, <2>3
<1>7. CASE Load
  BY <1>7 DEF Load, Accounted, OnRecord
<1>8. CASE FinishLoad \/ GiveUp
  <2>1. OnRecord => OnRecord'
    BY <1>8 DEF FinishLoad, GiveUp, OnRecord, BeingWritten
  <2>2. TakenUp => TakenUp'
    <3>1. CASE Processed
      BY <1>0, <3>1, StaysTaken
    <3>2. CASE UNCHANGED <<processing, pending, timer, ignored>>
      BY <3>2 DEF TakenUp
    <3> QED BY <1>8, <3>1, <3>2 DEF FinishLoad, GiveUp
  <2> QED BY <1>0, <1>8, <2>1, <2>2 DEF FinishLoad, GiveUp, Accounted
<1>9. CASE FailLoad
  BY <1>9 DEF FailLoad, Accounted
<1>10. CASE UNCHANGED mirrorVars
  BY <1>0, <1>10 DEF mirrorVars, Accounted, TakenUp, OnRecord, BeingWritten
<1> QED BY <1>1, <1>2, <1>3, <1>4, <1>5, <1>6, <1>7, <1>8, <1>9, <1>10 DEF MirrorNext

----------------------------------------------------------------------------
(* The theorems. *)

\* The inductive invariant holds in every behaviour.
THEOREM MirrorInvariance == MirrorSpec => []MirrorIInv
<1>1. MirrorIInv /\ [MirrorNext]_mirrorVars => MirrorIInv'
  BY Typed, ExcusedKept, AwaitsKept, AccountedKept, QuietKept, InTimeKept DEF MirrorIInv
<1> QED BY Starts, <1>1, PTL DEF MirrorSpec

\* FileWatcher and load, among the writes of the state manager: whenever no event, timer, reload or
\* write is on its way, memory has what the files hold, but for files edited while their
\* suppression stood and for a reload that could not read project.json; and whatever memory took
\* from the files reaches the clients, unless a reload was given up.
THEOREM NothingIsForgotten == MirrorSpec => []MirrorInv
BY MirrorInvariance, AtRest, PTL

----------------------------------------------------------------------------
(***************************************************************************)
(* Edits are seen.  A reload would end it all, so an edit that is overdue  *)
(* for ever would have none: nobody would be awaited, and the events, the  *)
(* timer and the write that SomethingComes speaks of would lead to one.    *)
(***************************************************************************)

\* The fairness of MirrorFairSpec, with the guard of each action for what ENABLED says of it.
MirrorFairness(f) ==
  /\ []<>~(f \in stirred) \/ []<><<Hear(f)>>_mirrorVars
  /\ []<>~(timer /\ (processing \/ waiting < MaxLoads)) \/ []<><<Debounced>>_mirrorVars
  /\ []<>~(writing # NoFile /\ ~landed) \/ []<><<LandWrite \/ FailWrite>>_mirrorVars
  /\ []<>~landed \/ []<><<EndWrite>>_mirrorVars
  /\ <>[]~(MutexFree /\ waiting > 0) \/ []<><<Load \/ FailLoad>>_mirrorVars
  /\ []<>~loading \/ []<><<FinishLoad>>_mirrorVars

\* Memory does not have f, and nothing excuses it.
Overdue(f) == f \in stale /\ f \notin missed /\ ~failed

Queued == waiting > 0
Armed == timer /\ pending # NoFile
Replacing(f) == writing = f /\ ~landed /\ f # Project
Unlanded == writing # NoFile /\ ~landed

\* As long as a file is overdue, no reload has read the files.
LEMMA NobodyLoads ==
  ASSUME MirrorIInv, [MirrorNext]_mirrorVars, NEW f \in File, Overdue(f), Overdue(f)'
  PROVE  /\ ~(Load \/ FailLoad)
         /\ Queued => Queued'
         /\ ~loading => ~loading'
         /\ FinishLoad => ~loading'
<1> USE DEF Watcher, Reload, Write, Past, Queued
<1>1. ~(Load \/ FailLoad)
  BY DEF Load, FailLoad, Overdue
<1>2. waiting \in Nat
  BY Loads DEF MirrorIInv, MirrorTypeOK
<1>3. CASE Debounced
  <2>1. loading' = loading /\ (waiting' = waiting \/ waiting' = waiting + 1)
    BY <1>3 DEF Debounced
  <2>2. FinishLoad => ~loading'
    BY DEF FinishLoad
  <2> QED BY <1>1, <1>2, <2>1, <2>2
<1>4. CASE ~Debounced
  BY <1>1, <1>2, <1>4
     DEF MirrorNext, Edit, BeginWrite, Hear, Expire, LandWrite, EndWrite, FailWrite, FinishLoad,
         GiveUp, mirrorVars
<1> QED BY <1>1, <1>3, <1>4

\* A write goes from its beginning to the rename or a failure, and from there to its end.
LEMMA WritesGoOn ==
  ASSUME MirrorIInv, [MirrorNext]_mirrorVars
  PROVE  /\ Unlanded => Unlanded' \/ landed' \/ (writing' = NoFile /\ ~landed')
         /\ Unlanded /\ (LandWrite \/ FailWrite) => ~Unlanded'
         /\ landed => landed' \/ (writing' = NoFile /\ ~landed')
         /\ EndWrite => writing' = NoFile /\ ~landed'
         /\ landed /\ landed' => ~Unlanded'
<1> USE DEF Unlanded
<1>1. landed \in BOOLEAN /\ writing \in File \cup {NoFile}
  BY DEF MirrorIInv, MirrorTypeOK
<1>2. CASE LandWrite \/ FailWrite \/ EndWrite
  BY <1>1, <1>2 DEF LandWrite, FailWrite, EndWrite, Write
<1>3. CASE ~(LandWrite \/ FailWrite \/ EndWrite)
  BY <1>1, <1>3
     DEF MirrorNext, Edit, BeginWrite, MutexFree, Hear, Expire, Debounced, Load, FinishLoad, FailLoad,
         GiveUp, mirrorVars, Write
<1> QED BY <1>2, <1>3

\* An overdue file that is about to be written over stays so, and the write does not come to its end.
LEMMA ReplacingLasts ==
  ASSUME MirrorIInv, [MirrorNext]_mirrorVars, NEW f \in File, Overdue(f), Overdue(f)', Replacing(f)
  PROVE  Replacing(f)' /\ ~(LandWrite \/ FailWrite) /\ Unlanded
<1> USE DEF Replacing, Unlanded, Overdue
<1>1. NoFile \notin File
  BY MirrorAssumption
<1>2. ~(LandWrite \/ FailWrite)
  BY DEF LandWrite, FailWrite
<1>3. ~EndWrite
  BY DEF EndWrite
<1>4. writing' = writing /\ landed' = landed
  BY <1>1, <1>2, <1>3
     DEF MirrorNext, Edit, BeginWrite, MutexFree, Hear, Expire, Debounced, Load, FinishLoad, FailLoad,
         GiveUp, mirrorVars, Write
<1> QED BY <1>1, <1>2, <1>4

\* The event of an overdue file is not lost: it arms the timer when it arrives.
LEMMA EventsArm ==
  ASSUME MirrorIInv, MirrorIInv', [MirrorNext]_mirrorVars, NEW f \in File, Overdue(f), Overdue(f)', f \in stirred
  PROVE  /\ f \in stirred' \/ Hear(f)
         /\ Hear(f) => Armed' \/ Replacing(f)'
<1> USE DEF Watcher, Reload, Write, Past
<1>1. f \in stirred' \/ Hear(f)
  <2>1. ~(Load \/ FailLoad)
    BY NobodyLoads
  <2> QED BY <2>1
     DEF MirrorNext, Edit, BeginWrite, Hear, Expire, LandWrite, EndWrite, FailWrite, FinishLoad,
         GiveUp, Debounced, mirrorVars
<1>2. ASSUME Hear(f) PROVE Armed' \/ Replacing(f)'
  <2>1. CASE Skip(f)
    <3>1. f \in BeingWritten
      BY <2>1 DEF Skip, MirrorIInv, Excused, Overdue
    <3>2. Replacing(f)'
      BY <1>2, <3>1 DEF BeingWritten, Replacing, Hear
    <3> QED BY <3>2
  <2>2. CASE ~Skip(f)
    BY <1>2, <2>2, MirrorAssumption DEF Hear, Schedule, Armed
  <2> QED BY <2>1, <2>2
<1> QED BY <1>1, <1>2

\* An armed timer stays so until it asks for a reload, unless one is awaited.
LEMMA TimersAsk ==
  ASSUME MirrorIInv, [MirrorNext]_mirrorVars, NEW f \in File, Overdue(f), Overdue(f)', Armed, ~processing
  PROVE  /\ Armed' \/ Debounced
         /\ Debounced => Queued'
<1> USE DEF Watcher, Reload, Write, Past, Armed
<1>0. waiting \in Nat /\ NoFile \notin File
  BY Loads, MirrorAssumption DEF MirrorIInv, MirrorTypeOK
<1>1. Debounced => Queued'
  BY <1>0 DEF Debounced, Queued
<1>2. ~(Load \/ FailLoad)
  BY NobodyLoads
<1>3. CASE \E g \in File : Hear(g)
  BY <1>0, <1>1, <1>3 DEF Hear, Schedule, Skip
<1>4. CASE FinishLoad \/ GiveUp
  BY <1>0, <1>1, <1>4 DEF FinishLoad, GiveUp, Processed, Schedule, Skip
<1>5. CASE ~(Debounced \/ FinishLoad \/ GiveUp) /\ ~\E g \in File : Hear(g)
  BY <1>2, <1>5
     DEF MirrorNext, Edit, BeginWrite, Expire, LandWrite, EndWrite, FailWrite, mirrorVars
<1> QED BY <1>1, <1>3, <1>4, <1>5

\* When no reload waits or runs, an overdue file has an event, a timer, or a write that covers it.
LEMMA SomethingComes ==
  ASSUME MirrorIInv, NEW f \in File, Overdue(f), ~Queued, ~loading
  PROVE  ~processing /\ (Armed \/ f \in stirred \/ Replacing(f))
<1>1. ~processing
  BY DEF MirrorIInv, Awaits, Queued
<1>2. TakenUp \/ OnRecord
  BY DEF MirrorIInv, Accounted, Overdue, Queued
<1>3. TakenUp => Armed
  BY <1>1 DEF TakenUp, Armed
<1>4. OnRecord => f \in stirred \/ Replacing(f)
  BY DEF OnRecord, Overdue, BeingWritten, Replacing
<1> QED BY <1>1, <1>2, <1>3, <1>4

\* World is what is supposed of a file that stays overdue; it ends in a contradiction.
LEMMA NothingStaysOverdue ==
  ASSUME NEW f \in File
  PROVE  MirrorSpec /\ MirrorFairness(f) => (f \in stale ~> f \notin stale \/ f \in missed \/ failed)
<1> DEFINE Step == MirrorIInv /\ MirrorIInv' /\ [MirrorNext]_mirrorVars /\ Overdue(f) /\ Overdue(f)'
           Free == writing = NoFile /\ ~landed
           World == []MirrorIInv /\ [][MirrorNext]_mirrorVars /\ MirrorFairness(f) /\ []Overdue(f)
<1>1. Step => /\ ~(Load \/ FailLoad)
              /\ Queued => Queued'
              /\ ~loading => ~loading'
              /\ FinishLoad => ~loading'
  BY NobodyLoads
<1>2. Step => /\ Unlanded => Unlanded' \/ landed' \/ Free'
              /\ Unlanded /\ (LandWrite \/ FailWrite) => ~Unlanded'
              /\ landed => landed' \/ Free'
              /\ EndWrite => Free'
  BY WritesGoOn
<1>3. Step /\ Replacing(f) => Replacing(f)' /\ ~(LandWrite \/ FailWrite) /\ Unlanded
  BY ReplacingLasts
<1>4. Step /\ f \in stirred => /\ f \in stirred' \/ Hear(f)
                               /\ Hear(f) => Armed' \/ Replacing(f)'
  BY EventsArm
<1>5. Step /\ Armed /\ ~processing => /\ Armed' \/ Debounced
                                      /\ Debounced => Queued'
  BY TimersAsk
<1>6. MirrorIInv /\ Overdue(f) /\ ~Queued /\ ~loading
        => ~processing /\ (Armed \/ f \in stirred \/ Replacing(f))
  BY SomethingComes
<1>7. MirrorIInv => Unlanded \/ landed \/ Free
  BY DEF MirrorIInv, MirrorTypeOK, Unlanded
<1>8. Free /\ ~loading /\ Queued => MutexFree /\ waiting > 0
  BY DEF MutexFree, Queued
<1>9. MirrorIInv /\ Armed /\ ~Queued => timer /\ (processing \/ waiting < MaxLoads)
  BY Loads DEF MirrorIInv, MirrorTypeOK, Armed, Queued
<1>10. Unlanded <=> (writing # NoFile /\ ~landed)
  BY DEF Unlanded
<1> HIDE DEF Free
<1>11. (f \notin stale \/ f \in missed \/ failed) <=> ~Overdue(f)
  BY DEF Overdue
<1>12. World => <>[]~loading
  BY <1>1, PTL DEF MirrorFairness
<1>13. World => []<>(Free \/ loading)
  BY <1>2, <1>7, <1>10, PTL DEF MirrorFairness
<1>14. World => []<>~Replacing(f)
  BY <1>3, <1>10, PTL DEF MirrorFairness
<1>15. World => []<>~Queued
  BY <1>1, <1>8, <1>12, <1>13, PTL DEF MirrorFairness
<1>16. World /\ []~Queued => <>[](~processing /\ (Armed \/ f \in stirred \/ Replacing(f)))
  BY <1>6, <1>12, PTL
<1>17. World /\ []~Queued => <>[]~Replacing(f)
  BY <1>3, <1>14, PTL
<1>18. World /\ []~Queued => []<>(~(f \in stirred) \/ Armed)
  BY <1>4, <1>17, PTL DEF MirrorFairness
<1>19. World /\ []~Queued => []<>~(Armed /\ ~processing)
  BY <1>5, <1>9, PTL DEF MirrorFairness
<1>20. World => <>Queued
  BY <1>5, <1>16, <1>17, <1>18, <1>19, PTL
<1>21. ~World
  BY <1>1, <1>15, <1>20, PTL
<1>22. MirrorSpec => []MirrorIInv /\ [][MirrorNext]_mirrorVars
  BY MirrorInvariance, PTL DEF MirrorSpec
<1>23. MirrorFairness(f) => []MirrorFairness(f)
  BY PTL DEF MirrorFairness
<1> QED
  BY <1>11, <1>21, <1>22, <1>23, PTL

\* A reload that nobody gave up ends by showing the clients everything.
LEMMA NothingStaysUnseen ==
  MirrorSpec /\ MirrorFairness(Project) => (unseen # {} ~> unseen = {} \/ late)
<1> DEFINE Dark == unseen # {} /\ ~late
<1>1. MirrorIInv /\ Dark => loading /\ Awaited
  <2> SUFFICES ASSUME MirrorIInv, Dark PROVE loading /\ Awaited
    OBVIOUS
  <2> QED BY DEF MirrorIInv, InTime, Awaited
<1>2. FinishLoad /\ Awaited => ~Dark'
  BY DEF FinishLoad
<1>3. (unseen = {} \/ late) <=> ~Dark
  OBVIOUS
<1> HIDE DEF Dark
<1>4. MirrorFairness(Project) /\ []MirrorIInv => ~<>[]Dark
  BY <1>1, <1>2, PTL DEF MirrorFairness
<1> QED BY <1>3, <1>4, MirrorInvariance, PTL

\* FileWatcher and load: an edit reaches memory, or is written over, and what memory took from it
\* reaches the clients, for any number of files and however edits, writes and reloads interleave.
THEOREM EditsComeThrough ==
  MirrorSpec /\ (\A f \in File : MirrorFairness(f)) => EditsAreSeen
<1>1. ASSUME NEW f \in File
      PROVE  MirrorSpec /\ MirrorFairness(f) => (f \in stale ~> f \notin stale \/ f \in missed \/ failed)
  BY NothingStaysOverdue
<1>2. Project \in File
  BY MirrorAssumption
<1> QED BY <1>1, <1>2, NothingStaysUnseen DEF EditsAreSeen

=============================================================================
