------------------------------- MODULE Daemon -------------------------------
(***************************************************************************)
(* The life of the Moe daemon as a process: `moe-daemon start` is a        *)
(* supervisor that spawns the daemon proper and respawns it when it        *)
(* crashes; `stop` and `status` are short-lived processes.  They share     *)
(* three files under .moe and nothing else: daemon.json, which names the   *)
(* process that serves, daemon.lock, which serialises start-ups, and       *)
(* daemon.stop, by which `stop` speaks to a supervisor.                    *)
(*                                                                         *)
(* These are processes of the operating system: any may be preempted       *)
(* between two of the steps below, and any may be killed.  A step is most  *)
(* often one file operation, but some take several together:               *)
(*   - cleaning up: daemon.json is removed, the lock read, checked and     *)
(*     removed (in acquireLock the check and the removal are two steps);   *)
(*   - Start, Stop, Status and WaitedInVain: daemon.json is read and found *)
(*     to name a dead process, the files are cleaned up, and the sentinel  *)
(*     is removed or left (a live process is asked for its health in a     *)
(*     step of its own, and anything may happen meanwhile);                *)
(*   - AskedInVain and StopHealthy: the sentinel is left, then files are   *)
(*     cleaned up or a SIGTERM is sent;                                    *)
(*   - acquireLock: the lock file is created, then its owner written to it.*)
(***************************************************************************)
EXTENDS Naturals

CONSTANTS
  Sup,          \* supervisors; each has at most one child, and a new one after each crash
  NoSup,
  MaxRestarts,  \* SUPERVISOR_MAX_RESTARTS
  SlowProbe,    \* a serving daemon may fail to answer /health within SOCKET_TIMEOUT_MS (200 ms)
  SlowStart     \* a start-up may take longer than LOCK_STALE_TIMEOUT_MS (15 s)

ASSUME NoSupAssumption == NoSup \notin Sup
ASSUME MaxRestartsAssumption == MaxRestarts \in Nat \ {0}
ASSUME FlagsAssumption == SlowProbe \in BOOLEAN /\ SlowStart \in BOOLEAN

VARIABLES
  sup,       \* what each supervisor is doing, and its crash count and shuttingDown flag
  child,     \* what the daemon it spawned is doing
  seen,      \* the daemon.json that a process read before it asked /health
  info,      \* daemon.json
  lock,      \* daemon.lock
  sentinel,  \* daemon.stop exists
  cmd,       \* the stop or status command under way
  stopped    \* history: the supervisors that a stop was meant for, since the last start

vars == <<sup, child, seen, info, lock, sentinel, cmd, stopped>>

\* A process id, as files hold it: the child of a supervisor, until that child is gone.
Pid == [by : Sup \cup {NoSup}, gone : BOOLEAN]

NoPid == [by |-> NoSup, gone |-> TRUE]

PidOf(s) == [by |-> s, gone |-> FALSE]

Buried(s, pid) == IF pid.by = s THEN [pid EXCEPT !.gone = TRUE] ELSE pid

\* "looking" is before startDaemon reads daemon.json, "cleaning" before it removes stale files,
\* "locking" before acquireLock; "starting" holds the lock, "listening" too, with its port open,
\* and "published" has written daemon.json; "failing" is a shutdown that will exit with code 1.
Phase == {"none", "looking", "probing", "cleaning", "locking", "waiting", "rechecking", "unlinking", "starting", "listening",
          "published", "serving", "stopping", "failing", "exited", "crashed"}

Alive(s) == child[s] \notin {"none", "exited", "crashed"}

InStartup(s) == child[s] \in {"starting", "listening", "published"}

Commands == {"none", "stop", "status"}

Viewer == Sup \cup {NoSup}    \* NoSup stands for the command's process

SupRecord == [at : {"absent", "probing", "supervising", "backoff"}, restarts : 0 .. MaxRestarts,
              shuttingDown : BOOLEAN]

Absent == [at |-> "absent", restarts |-> 0, shuttingDown |-> FALSE]

\* It waits before it respawns.
BacksOff(r) == [r EXCEPT !.at = "backoff", !.restarts = @ + 1]

\* It exited with code 1: "Too many restarts".
GaveUp == [Absent EXCEPT !.restarts = MaxRestarts]

Init ==
  /\ sup = [s \in Sup |-> Absent]
  /\ child = [s \in Sup |-> "none"]
  /\ seen = [v \in Viewer |-> NoPid]
  /\ info = NoPid
  /\ lock = [pid |-> NoPid, present |-> FALSE, old |-> FALSE]
  /\ sentinel = FALSE
  /\ cmd = "none"
  /\ stopped = {}

----------------------------------------------------------------------------
(* Files and probes. *)

\* daemon.json exists.
Published == info.by # NoSup

\* isProcessAlive, of the process a file names.
PidAlive(pid) == pid.by # NoSup /\ ~pid.gone

\* What /health may answer for the process: a daemon that is shutting down is healthy until its
\* WebSocket server begins to close.
Health(pid) ==
  IF ~PidAlive(pid) THEN {FALSE}
  ELSE CASE child[pid.by] \in {"published", "serving"} -> IF SlowProbe THEN BOOLEAN ELSE {TRUE}
         [] child[pid.by] \in {"stopping", "failing"}  -> BOOLEAN
         [] OTHER                                      -> {FALSE}

Unlocked == [pid |-> NoPid, present |-> FALSE, old |-> FALSE]

\* staleLockReason
LockIsStale == lock.present /\ (~PidAlive(lock.pid) \/ lock.old)

\* cleanupStaleDaemonFiles: whatever daemon.json says by now, it goes; the lock only if it is stale.
CleanFiles ==
  /\ info' = NoPid
  /\ lock' = IF LockIsStale THEN Unlocked ELSE lock

\* Process s is gone: no file that names it names a live process any more.
SeenWithout(s) == [v \in Viewer |-> IF v = s THEN NoPid ELSE Buried(s, seen[v])]

Bury(s, how) ==
  /\ child' = [child EXCEPT ![s] = how]
  /\ seen' = SeenWithout(s)

AbandonFiles(s) ==
  /\ info' = Buried(s, info)
  /\ lock' = [lock EXCEPT !.pid = Buried(s, @)]

\* It ends and leaves its files as they are.
Exit(s, how) == Bury(s, how) /\ AbandonFiles(s)

----------------------------------------------------------------------------
(* The supervisor. *)

Spawn(s) == child' = [child EXCEPT ![s] = "looking"]

\* superviseDaemon: there is no daemon.json, or the process it names is dead.
Start(s) ==
  /\ sup[s].at = "absent" /\ ~Alive(s)
  /\ ~PidAlive(info)
  /\ IF Published THEN CleanFiles ELSE UNCHANGED <<info, lock>>
  /\ sentinel' = FALSE
  /\ sup' = [sup EXCEPT ![s] = [Absent EXCEPT !.at = "supervising"]]
  /\ Spawn(s)
  /\ stopped' = {}
  /\ UNCHANGED <<seen, cmd>>

\* superviseDaemon: daemon.json names a live process, which is asked for its health.
StartProbing(s) ==
  /\ sup[s].at = "absent" /\ ~Alive(s)
  /\ PidAlive(info)
  /\ sup' = [sup EXCEPT ![s] = [Absent EXCEPT !.at = "probing"]]
  /\ seen' = [seen EXCEPT ![s] = info]
  /\ stopped' = {}
  /\ UNCHANGED <<child, info, lock, sentinel, cmd>>

\* It is healthy: "Moe daemon already running".
StartFindsDaemon(s) ==
  /\ sup[s].at = "probing" /\ TRUE \in Health(seen[s])
  /\ sup' = [sup EXCEPT ![s] = Absent]
  /\ seen' = [seen EXCEPT ![s] = NoPid]
  /\ UNCHANGED <<child, info, lock, sentinel, cmd, stopped>>

\* It is not: its files go, and a daemon is spawned.
StartFindsNone(s) ==
  /\ sup[s].at = "probing" /\ FALSE \in Health(seen[s])
  /\ CleanFiles
  /\ sentinel' = FALSE
  /\ sup' = [sup EXCEPT ![s].at = "supervising"]
  /\ seen' = [seen EXCEPT ![s] = NoPid]
  /\ Spawn(s)
  /\ UNCHANGED <<cmd, stopped>>

\* child.on('exit'): asked to stop, one way or the other, or a clean exit.
ChildEnded(s) ==
  /\ sup[s].at = "supervising" /\ child[s] \in {"exited", "crashed"}
  /\ sup[s].shuttingDown \/ sentinel \/ child[s] = "exited"
  /\ sup' = [sup EXCEPT ![s] = Absent]
  /\ sentinel' = (sentinel /\ sup[s].shuttingDown)
  /\ child' = [child EXCEPT ![s] = "none"]
  /\ UNCHANGED <<seen, info, lock, cmd, stopped>>

\* child.on('exit'): a crash; after too many in a minute the supervisor gives up.
ChildCrashed(s) ==
  /\ sup[s].at = "supervising" /\ child[s] = "crashed"
  /\ ~sup[s].shuttingDown /\ ~sentinel
  /\ sup' = [sup EXCEPT ![s] =
               IF sup[s].restarts + 1 >= MaxRestarts THEN GaveUp ELSE BacksOff(sup[s])]
  /\ child' = [child EXCEPT ![s] = "none"]
  /\ UNCHANGED <<seen, info, lock, sentinel, cmd, stopped>>

\* Mutant of Respawn: the sentinel is not looked at again after the backoff.
RespawnBlindly(s) ==
  /\ sup[s].at = "backoff"
  /\ sup' = [sup EXCEPT ![s].at = "supervising"]
  /\ Spawn(s)
  /\ UNCHANGED <<seen, info, lock, sentinel, cmd, stopped>>

\* The backoff is over, and no stop was issued meanwhile.
Respawn(s) ==
  /\ sup[s].at = "backoff" /\ ~sentinel
  /\ sup' = [sup EXCEPT ![s].at = "supervising"]
  /\ Spawn(s)
  /\ UNCHANGED <<seen, info, lock, sentinel, cmd, stopped>>

\* The backoff is over, and a stop was issued.
StopInBackoff(s) ==
  /\ sup[s].at = "backoff" /\ sentinel
  /\ sentinel' = FALSE
  /\ sup' = [sup EXCEPT ![s] = Absent]
  /\ UNCHANGED <<child, seen, info, lock, cmd, stopped>>

\* Some of the crashes are a minute old, whatever the daemon is doing: the latest n still count.
ForgetRestarts(s) ==
  /\ sup[s].at \in {"supervising", "backoff"}
  /\ \E n \in 0 .. MaxRestarts : n < sup[s].restarts /\ sup' = [sup EXCEPT ![s].restarts = n]
  /\ UNCHANGED <<child, seen, info, lock, sentinel, cmd, stopped>>

\* What SIGTERM does to a daemon: its handlers are there once the lock is released; before that
\* the process is killed where it is.
Terminate(s) ==
  \/ /\ child[s] = "serving"
     /\ child' = [child EXCEPT ![s] = "stopping"]
     /\ UNCHANGED <<info, lock>>
  \/ /\ ~Alive(s) \/ child[s] \in {"stopping", "failing"}
     /\ UNCHANGED <<child, info, lock>>
  \/ /\ Alive(s) /\ child[s] \notin {"serving", "stopping", "failing"}
     /\ child' = [child EXCEPT ![s] = "crashed"]
     /\ AbandonFiles(s)

\* SIGTERM or SIGINT to the supervisor, which passes it on; in backoff it just exits.
SignalSupervisor(s) ==
  /\ sup[s].at \in {"supervising", "backoff"} /\ ~sup[s].shuttingDown
  /\ sup' = [sup EXCEPT ![s] = IF @.at = "backoff" THEN Absent ELSE [@ EXCEPT !.shuttingDown = TRUE]]
  /\ Terminate(s)
  /\ seen' = IF child'[s] = "crashed" THEN SeenWithout(s) ELSE seen
  /\ stopped' = stopped \cup {s}
  /\ UNCHANGED <<sentinel, cmd>>

----------------------------------------------------------------------------
(* The daemon: startDaemon. *)

Look(s) ==
  /\ child[s] = "looking"
  /\ child' = [child EXCEPT ![s] = IF PidAlive(info) THEN "probing"
                                   ELSE IF Published THEN "cleaning" ELSE "locking"]
  /\ seen' = IF PidAlive(info) THEN [seen EXCEPT ![s] = info] ELSE seen
  /\ UNCHANGED <<sup, info, lock, sentinel, cmd, stopped>>

FindsDaemon(s) ==
  /\ child[s] = "probing" /\ TRUE \in Health(seen[s])
  /\ Exit(s, "exited")
  /\ UNCHANGED <<sup, sentinel, cmd, stopped>>

FindsNone(s) ==
  /\ child[s] = "probing" /\ FALSE \in Health(seen[s])
  /\ child' = [child EXCEPT ![s] = "cleaning"]
  /\ seen' = [seen EXCEPT ![s] = NoPid]
  /\ UNCHANGED <<sup, info, lock, sentinel, cmd, stopped>>

Clean(s) ==
  /\ child[s] = "cleaning"
  /\ CleanFiles
  /\ child' = [child EXCEPT ![s] = "locking"]
  /\ UNCHANGED <<sup, seen, sentinel, cmd, stopped>>

\* acquireLock: there is no lock file, and creating it is atomic (O_EXCL).
AcquireLock(s) ==
  /\ child[s] = "locking"
  /\ ~lock.present
  /\ lock' = [pid |-> PidOf(s), present |-> TRUE, old |-> FALSE]
  /\ child' = [child EXCEPT ![s] = "starting"]
  /\ UNCHANGED <<sup, seen, info, sentinel, cmd, stopped>>

\* Mutant of FindStaleLock: a lock that is there is never stale.
FindNoStaleLock(s) ==
  /\ child[s] = "locking"
  /\ LockIsStale /\ FALSE
  /\ UNCHANGED vars

\* There is one, and it is stale.
FindStaleLock(s) ==
  /\ child[s] = "locking"
  /\ LockIsStale
  /\ child' = [child EXCEPT ![s] = "unlinking"]
  /\ UNCHANGED <<sup, seen, info, lock, sentinel, cmd, stopped>>

\* The lock file goes, whoever's it is by now, and the next attempt begins.
UnlinkStaleLock(s) ==
  /\ child[s] = "unlinking"
  /\ lock' = Unlocked
  /\ child' = [child EXCEPT ![s] = "locking"]
  /\ UNCHANGED <<sup, seen, info, sentinel, cmd, stopped>>

LockIsTaken(s) ==
  /\ child[s] = "locking"
  /\ lock.present /\ ~LockIsStale
  /\ child' = [child EXCEPT ![s] = "waiting"]
  /\ UNCHANGED <<sup, seen, info, lock, sentinel, cmd, stopped>>

\* Two seconds later there is no daemon.json, or it names a dead process.
WaitedInVain(s) ==
  /\ child[s] = "waiting" /\ ~PidAlive(info)
  /\ Bury(s, "exited")
  /\ IF Published THEN CleanFiles ELSE UNCHANGED <<info, lock>>
  /\ UNCHANGED <<sup, sentinel, cmd, stopped>>

\* Or it names a live one, which is asked for its health.
LookAgain(s) ==
  /\ child[s] = "waiting" /\ PidAlive(info)
  /\ child' = [child EXCEPT ![s] = "rechecking"]
  /\ seen' = [seen EXCEPT ![s] = info]
  /\ UNCHANGED <<sup, info, lock, sentinel, cmd, stopped>>

\* "Daemon started by another process", or its files go; either way this one ends.
Rechecked(s) ==
  /\ child[s] = "rechecking"
  /\ \E healthy \in Health(seen[s]) : IF healthy THEN UNCHANGED <<info, lock>> ELSE CleanFiles
  /\ Bury(s, "exited")
  /\ UNCHANGED <<sup, sentinel, cmd, stopped>>

\* The start-up takes longer than others are ready to believe.
LockAges ==
  /\ SlowStart
  /\ lock.present /\ ~lock.old
  /\ lock' = [lock EXCEPT !.old = TRUE]
  /\ UNCHANGED <<sup, child, seen, info, sentinel, cmd, stopped>>

\* Loading the project fails, or the port does not answer: the lock is released first.
StartFails(s) ==
  /\ child[s] = "starting"
  /\ Bury(s, "crashed")
  /\ lock' = Unlocked
  /\ info' = Buried(s, info)
  /\ UNCHANGED <<sup, sentinel, cmd, stopped>>

Listen(s) ==
  /\ child[s] = "starting"
  /\ child' = [child EXCEPT ![s] = "listening"]
  /\ UNCHANGED <<sup, seen, info, lock, sentinel, cmd, stopped>>

Publish(s) ==
  /\ child[s] = "listening"
  /\ info' = PidOf(s)
  /\ child' = [child EXCEPT ![s] = "published"]
  /\ UNCHANGED <<sup, seen, lock, sentinel, cmd, stopped>>

\* Mutant of ReleaseLock: the lock file stays until the daemon ends.
KeepLock(s) ==
  /\ child[s] = "published"
  /\ child' = [child EXCEPT ![s] = "serving"]
  /\ UNCHANGED <<sup, seen, info, lock, sentinel, cmd, stopped>>

\* releaseLock: the file goes, whoever's it is by now.
ReleaseLock(s) ==
  /\ child[s] = "published"
  /\ lock' = Unlocked
  /\ child' = [child EXCEPT ![s] = "serving"]
  /\ UNCHANGED <<sup, seen, info, sentinel, cmd, stopped>>

\* An uncaught exception: a shutdown that exits with code 1.
Fail(s) ==
  /\ child[s] \in {"serving", "stopping"}
  /\ child' = [child EXCEPT ![s] = "failing"]
  /\ UNCHANGED <<sup, seen, info, lock, sentinel, cmd, stopped>>

\* shutdown() is through: daemon.json goes, whoever it names by now.
EndShutdown(s) ==
  /\ child[s] \in {"stopping", "failing"}
  /\ Bury(s, IF child[s] = "failing" THEN "crashed" ELSE "exited")
  /\ info' = NoPid
  /\ lock' = [lock EXCEPT !.pid = Buried(s, @)]
  /\ UNCHANGED <<sup, sentinel, cmd, stopped>>

\* shutdown() hangs: the forced exit removes lock and daemon.json, whoever's they are, with code 1.
ForceExit(s) ==
  /\ child[s] \in {"stopping", "failing"}
  /\ Bury(s, "crashed")
  /\ lock' = Unlocked
  /\ info' = NoPid
  /\ UNCHANGED <<sup, sentinel, cmd, stopped>>

\* The daemon is killed, by the operating system or by its supervisor's patience.
Crash(s) ==
  /\ Alive(s)
  /\ Exit(s, "crashed")
  /\ UNCHANGED <<sup, sentinel, cmd, stopped>>

----------------------------------------------------------------------------
(* stop and status. *)

\* History: a stop is meant for a supervisor when there is no other.  (The sentinel is one file:
\* with two supervisors either may take it.)
Halted ==
  {s \in Sup : sup[s].at \in {"supervising", "backoff"} /\ \A r \in Sup \ {s} : sup[r].at = "absent"}

\* Mutant of Stop: without a daemon to signal, no sentinel is left.
StopSilently ==
  /\ cmd = "none" /\ ~PidAlive(info)
  /\ IF Published THEN CleanFiles ELSE UNCHANGED <<info, lock>>
  /\ stopped' = stopped \cup Halted
  /\ UNCHANGED <<sup, child, seen, cmd, sentinel>>

\* stopDaemon: no daemon.json, or it names a dead process; the sentinel is for a supervisor in
\* backoff.
Stop ==
  /\ cmd = "none" /\ ~PidAlive(info)
  /\ sentinel' = TRUE
  /\ IF Published THEN CleanFiles ELSE UNCHANGED <<info, lock>>
  /\ stopped' = stopped \cup Halted
  /\ UNCHANGED <<sup, child, seen, cmd>>

\* statusDaemon, likewise.
Status ==
  /\ cmd = "none" /\ Published /\ ~PidAlive(info)
  /\ CleanFiles
  /\ UNCHANGED <<sup, child, seen, sentinel, cmd, stopped>>

\* Either asks a live process for its health.
Ask(which) ==
  /\ cmd = "none" /\ PidAlive(info)
  /\ cmd' = which
  /\ seen' = [seen EXCEPT ![NoSup] = info]
  /\ UNCHANGED <<sup, child, info, lock, sentinel, stopped>>

\* stopDaemon: it is healthy, so it gets a SIGTERM, and its supervisor the sentinel.
StopHealthy ==
  /\ cmd = "stop" /\ TRUE \in Health(seen[NoSup])
  /\ sentinel' = TRUE
  /\ LET s == seen[NoSup].by IN
       /\ Terminate(s)
       /\ seen' = [IF child'[s] = "crashed" THEN SeenWithout(s) ELSE seen EXCEPT ![NoSup] = NoPid]
  /\ cmd' = "none"
  /\ stopped' = stopped \cup Halted
  /\ UNCHANGED sup

\* Both, of a process that is not healthy: its files are taken to be stale.
AskedInVain ==
  /\ cmd # "none" /\ FALSE \in Health(seen[NoSup])
  /\ sentinel' = (sentinel \/ cmd = "stop")
  /\ stopped' = IF cmd = "stop" THEN stopped \cup Halted ELSE stopped
  /\ CleanFiles
  /\ cmd' = "none"
  /\ seen' = [seen EXCEPT ![NoSup] = NoPid]
  /\ UNCHANGED <<sup, child>>

StatusHealthy ==
  /\ cmd = "status" /\ TRUE \in Health(seen[NoSup])
  /\ cmd' = "none"
  /\ seen' = [seen EXCEPT ![NoSup] = NoPid]
  /\ UNCHANGED <<sup, child, info, lock, sentinel, stopped>>

----------------------------------------------------------------------------

Supervises(s) ==
  \/ StartFindsDaemon(s) \/ StartFindsNone(s)
  \/ ChildEnded(s) \/ ChildCrashed(s)
  \/ Respawn(s) \/ StopInBackoff(s)

Runs(s) ==
  \/ Look(s) \/ FindsDaemon(s) \/ FindsNone(s) \/ Clean(s)
  \/ AcquireLock(s) \/ LockIsTaken(s) \/ FindStaleLock(s) \/ UnlinkStaleLock(s) \/ WaitedInVain(s) \/ LookAgain(s) \/ Rechecked(s)
  \/ StartFails(s) \/ Listen(s) \/ Publish(s) \/ ReleaseLock(s)
  \/ EndShutdown(s) \/ ForceExit(s)

Answered == StopHealthy \/ StatusHealthy \/ AskedInVain

Next ==
  \/ \E s \in Sup : Start(s) \/ StartProbing(s) \/ Supervises(s) \/ ForgetRestarts(s) \/ SignalSupervisor(s)
  \/ \E s \in Sup : Runs(s) \/ Fail(s) \/ Crash(s)
  \/ Stop \/ Status \/ \E which \in Commands \ {"none"} : Ask(which)
  \/ Answered
  \/ LockAges

Spec == Init /\ [][Next]_vars

\* Processes run, probes end, timers fire.
FairSpec == Spec /\ WF_vars(Answered) /\ \A s \in Sup : WF_vars(Supervises(s)) /\ WF_vars(Runs(s))

----------------------------------------------------------------------------
(* Properties. *)

\* Supervisors, daemons and the three files have their types.
TypeOK ==
  /\ sup \in [Sup -> SupRecord]
  /\ child \in [Sup -> Phase]
  /\ seen \in [Viewer -> Pid]
  /\ info \in Pid
  /\ lock \in [pid : Pid, present : BOOLEAN, old : BOOLEAN]
  /\ sentinel \in BOOLEAN
  /\ cmd \in Commands
  /\ stopped \subseteq Sup

\* A lock whose owner lives is held by a start-up: no daemon that serves, stops or has given way
\* keeps one, so a start-up that waits for a lock waits for another start-up.
LockMeansStartup == lock.present /\ PidAlive(lock.pid) => InStartup(lock.pid.by)

\* The state of daemon, supervisors and files: its type, and the lock.
Inv == TypeOK /\ LockMeansStartup

\* After a stop no supervisor that it was meant for respawns its daemon, whether the stop came
\* while the daemon served, while it crashed or during the backoff.
StaysStopped == [][\A s \in Sup : Respawn(s) => s \notin stopped]_vars

\* A stop of a serving daemon, or during the backoff, ends the supervisor, unless a start follows.
StopsForGood ==
  \A s \in Sup :
    (s \in stopped /\ (child[s] = "stopping" \/ sup[s].at = "backoff"))
      ~> (sup[s].at = "absent" \/ s \notin stopped)

\* At most one supervisor is up.
Alone == \E s \in Sup : \A r \in Sup \ {s} : sup[r].at = "absent"

\* The restarts of s that count do not age out for ever while its daemons die before they serve.
CrashesCount(s) == <>[][ForgetRestarts(s) => child[s] = "serving"]_vars

\* As long as one supervisor at a time is up, a crash is followed by a daemon that serves, a stop,
\* or the supervisor's giving up, whatever files the crash left, stale daemon.json or stale lock:
\* nothing but start-ups that die too slowly to count keeps it from all three.
Recovers ==
  []Alone => \A s \in Sup :
    CrashesCount(s) =>
      (sup[s].at = "backoff" ~> (child[s] = "serving" \/ s \in stopped \/ sup[s] = GaveUp))

=============================================================================
