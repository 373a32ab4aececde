------------------------------- MODULE Mirror -------------------------------
(***************************************************************************)
(* The daemon's memory mirrors the files under .moe/, which people and     *)
(* other tools edit too.                                                   *)
(*                                                                         *)
(* FileWatcher hears of a changed file some time after the change, one     *)
(* event for however many changes in between, and asks for a reload of     *)
(* everything when it has heard nothing more for the debounce time.  An    *)
(* event of a file the daemon has just written itself is meant to be       *)
(* skipped.  A reload is one section of the state mutex among the writes,  *)
(* and goes on when the watcher has stopped waiting for it.                *)
(* A file's contents are reduced to what matters here: whether memory has  *)
(* them, whether the clients have seen what memory has, and whether they   *)
(* can be read at all.                                                     *)
(* What every module has (Init, Next, TypeOK and so on) is named for the   *)
(* module here, so that one module of theorems extends this and Daemon.    *)
(***************************************************************************)
EXTENDS Naturals

CONSTANTS
  File,       \* the watched files
  Project,    \* project.json, without which nothing loads, and which is written unannounced
  NoFile,
  MaxLoads    \* bound: reloads that wait for the mutex at a time

ASSUME MirrorAssumption == Project \in File /\ NoFile \notin File /\ MaxLoads \in Nat \ {0}

VARIABLES
  stale,       \* the files whose contents memory does not have (nor is about to be given)
  unseen,      \* the files whose contents in memory no event and no snapshot has shown the clients
  bad,         \* the files that do not parse
  stirred,     \* the files of which an event is on its way from the file system
  ignored,     \* ignorePaths
  pending,     \* pendingEvent
  timer,       \* debounceTimer is armed
  processing,  \* isProcessing: a reload is awaited, the last one asked for
  waiting,     \* the reloads that wait for the state mutex
  loading,     \* a reload has the mutex and has read the files
  writing,     \* the file that the holder of the mutex writes
  landed,      \* it has been renamed into place
  missed,      \* history: files edited while suppressed, or whose write failed, since the last reload
  failed,      \* history: the last reload could not read project.json
  late         \* history: a reload was given up, and no snapshot sent since

Watcher == <<stirred, ignored, pending, timer>>
Reload  == <<processing, waiting, loading>>
Write   == <<writing, landed>>
Past    == <<missed, failed, late>>
mirrorVars == <<stale, unseen, bad, Watcher, Reload, Write, Past>>

MutexFree == writing = NoFile /\ ~loading

\* load() has run, and the watcher has started.
MirrorInit ==
  /\ stale = {} /\ unseen = {} /\ stirred = {} /\ ignored = {} /\ missed = {}
  /\ bad \in SUBSET (File \ {Project})
  /\ pending = NoFile /\ timer = FALSE
  /\ processing = FALSE /\ waiting = 0 /\ loading = FALSE
  /\ writing = NoFile /\ landed = FALSE
  /\ failed = FALSE /\ late = FALSE

----------------------------------------------------------------------------
(* The files. *)

\* Somebody else writes, creates or deletes f, perhaps leaving it half-written.
Edit(f) ==
  /\ stale' = stale \cup {f}
  /\ bad' \in {bad \cup {f}, bad \ {f}}
  /\ stirred' = stirred \cup {f}
  /\ missed' = IF f \in ignored THEN missed \cup {f} ELSE missed
  /\ UNCHANGED <<unseen, ignored, pending, timer, Reload, Write, failed, late>>

\* writeEntity, or a deletion: the suppression comes before the file is touched; updateSettings
\* writes project.json with none.
BeginWrite(f) ==
  /\ MutexFree
  /\ writing' = f
  /\ ignored' = ignored \cup ({f} \ {Project})
  /\ UNCHANGED <<stale, unseen, bad, stirred, pending, timer, Reload, landed, Past>>

\* The rename: what memory is going to be given next is what the file holds.
LandWrite ==
  /\ writing # NoFile /\ ~landed
  /\ landed' = TRUE
  /\ stale' = stale \ {writing}
  /\ bad' = bad \ {writing}
  /\ stirred' = stirred \cup {writing}
  /\ UNCHANGED <<unseen, ignored, pending, timer, Reload, writing, Past>>

\* The map is set and the event emitted, which shows the clients this one entity.
EndWrite ==
  /\ landed
  /\ writing' = NoFile /\ landed' = FALSE
  /\ unseen' = unseen \ {writing}
  /\ UNCHANGED <<stale, bad, Watcher, Reload, Past>>

\* The write throws: the file and the map are what they were, the suppression stays.
FailWrite ==
  /\ writing # NoFile /\ ~landed
  /\ writing' = NoFile
  /\ missed' = missed \cup ({writing} \ {Project})
  /\ UNCHANGED <<stale, unseen, bad, Watcher, Reload, landed, failed, late>>

----------------------------------------------------------------------------
(* FileWatcher. *)

\* scheduleChange(f): a suppressed event is skipped, and uses the suppression up.
Skip(f) ==
  /\ f \in ignored
  /\ ignored' = ignored \ {f}
  /\ UNCHANGED <<pending, timer>>

Schedule(f) ==
  \/ Skip(f)
  \/ /\ f \notin ignored
     /\ pending' = f /\ timer' = TRUE
     /\ UNCHANGED ignored

\* An event of f arrives.
Hear(f) ==
  /\ f \in stirred
  /\ stirred' = stirred \ {f}
  /\ Schedule(f)
  /\ UNCHANGED <<stale, unseen, bad, Reload, Write, Past>>

\* Half a second after ignorePath, heard or not.
Expire(f) ==
  /\ f \in ignored
  /\ ignored' = ignored \ {f}
  /\ UNCHANGED <<stale, unseen, bad, stirred, pending, timer, Reload, Write, Past>>

\* The debounce timer fires, and processChange asks for a reload, unless one is awaited already.
Debounced ==
  /\ timer
  /\ timer' = FALSE
  /\ \/ /\ processing \/ pending = NoFile
        /\ UNCHANGED <<pending, processing, waiting>>
     \/ /\ ~processing /\ pending # NoFile
        /\ waiting < MaxLoads
        /\ pending' = NoFile /\ processing' = TRUE
        /\ waiting' = waiting + 1
  /\ UNCHANGED <<stale, unseen, bad, stirred, ignored, loading, Write, Past>>

\* Mutant of Processed: an event that came in while processing is left where it is.
ProcessedAndDone ==
  /\ processing' = FALSE
  /\ UNCHANGED <<pending, timer, ignored>>

\* processChange ends: an event that came in meanwhile is scheduled again, like a new one.
Processed ==
  /\ processing' = FALSE
  /\ \/ pending = NoFile /\ UNCHANGED <<pending, timer, ignored>>
     \/ pending # NoFile /\ Schedule(pending)

----------------------------------------------------------------------------
(* StateManager.load. *)

\* Everything is read in one go; project.json is written back when that changes it.
Load ==
  /\ MutexFree /\ waiting > 0
  /\ Project \notin bad
  /\ waiting' = waiting - 1 /\ loading' = TRUE
  /\ unseen' = unseen \cup stale
  /\ stale' = {}
  /\ missed' = {} /\ failed' = FALSE
  /\ \/ stirred' = stirred
     \/ Project \in stale /\ stirred' = stirred \cup {Project}
  /\ UNCHANGED <<bad, ignored, pending, timer, processing, Write, late>>

\* The watcher awaits the last reload asked for: this one, if no other waits.
Awaited == processing /\ waiting = 0

\* Mutant of FinishLoad: the clients are sent nothing.
FinishLoadInSilence ==
  /\ loading /\ loading' = FALSE
  /\ IF Awaited THEN Processed ELSE UNCHANGED <<processing, pending, timer, ignored>>
  /\ UNCHANGED <<stale, unseen, bad, stirred, waiting, Write, Past>>

\* The mutex is released, and whoever awaits this reload sends the clients a snapshot.
FinishLoad ==
  /\ loading /\ loading' = FALSE
  /\ \/ /\ Awaited /\ Processed
        /\ unseen' = {} /\ late' = FALSE
     \/ /\ ~Awaited
        /\ UNCHANGED <<unseen, late, processing, pending, timer, ignored>>
  /\ UNCHANGED <<stale, bad, stirred, waiting, Write, missed, failed>>

\* project.json does not parse: load throws before it has changed anything.
FailLoad ==
  /\ MutexFree /\ waiting > 0
  /\ Project \in bad
  /\ waiting' = waiting - 1
  /\ failed' = TRUE
  /\ \/ processing /\ waiting = 1 /\ Processed
     \/ ~(processing /\ waiting = 1) /\ UNCHANGED <<processing, pending, timer, ignored>>
  /\ UNCHANGED <<stale, unseen, bad, stirred, loading, Write, missed, late>>

\* withTimeout: the watcher goes on, and the reload stays where it is.
GiveUp ==
  /\ processing
  /\ Processed
  /\ late' = TRUE
  /\ UNCHANGED <<stale, unseen, bad, stirred, waiting, loading, Write, missed, failed>>

MirrorNext ==
  \/ \E f \in File : Edit(f) \/ BeginWrite(f) \/ Hear(f) \/ Expire(f)
  \/ LandWrite \/ EndWrite \/ FailWrite
  \/ Debounced
  \/ Load \/ FinishLoad \/ FailLoad \/ GiveUp

MirrorSpec == MirrorInit /\ [][MirrorNext]_mirrorVars

\* The file system reports a change in the end; edits do not follow one another faster than the
\* debounce time for ever; a write ends; and the mutex, granted in order (module AsyncMutex), comes
\* to a waiting reload however many writes there are.
MirrorFairSpec ==
  /\ MirrorSpec
  /\ \A f \in File : WF_mirrorVars(Hear(f))
  /\ WF_mirrorVars(Debounced) /\ WF_mirrorVars(LandWrite \/ FailWrite) /\ WF_mirrorVars(EndWrite)
  /\ SF_mirrorVars(Load \/ FailLoad) /\ WF_mirrorVars(FinishLoad)

----------------------------------------------------------------------------
(* Properties. *)

\* Files, watcher and reloads have their types; project.json is never suppressed.
MirrorTypeOK ==
  /\ stale \subseteq File /\ unseen \subseteq File /\ bad \subseteq File
  /\ stirred \subseteq File /\ missed \subseteq File
  /\ ignored \subseteq File \ {Project}
  /\ pending \in File \cup {NoFile} /\ writing \in File \cup {NoFile}
  /\ timer \in BOOLEAN /\ processing \in BOOLEAN /\ loading \in BOOLEAN /\ landed \in BOOLEAN
  /\ failed \in BOOLEAN /\ late \in BOOLEAN
  /\ waiting \in 0 .. MaxLoads
  /\ landed => writing # NoFile

\* A reload is on its way, or a change that leads to one unless the watcher takes it for the daemon's.
UnderWay ==
  \/ stirred # {}
  \/ pending # NoFile /\ (timer \/ processing)
  \/ waiting > 0
  \/ writing # NoFile /\ ~landed

\* When nothing is on its way, memory has what the files hold, but for an edit made while the
\* watcher skipped that file, and what goes with project.json when it does not parse.
StaleIsUnderWay ==
  UnderWay \/ failed \/ stale \subseteq missed

\* The clients see what memory has, or are about to, or a reload took longer than the watcher waits.
UnseenIsUnderWay ==
  unseen # {} => late \/ processing

\* Types, and nothing at rest that should be under way.
MirrorInv == MirrorTypeOK /\ StaleIsUnderWay /\ UnseenIsUnderWay

\* An edit reaches memory, or is written over by the daemon, and what memory took from it reaches
\* the clients, whatever else is being written, loaded or edited, but for the reasons StaleIsUnderWay
\* and UnseenIsUnderWay name.
EditsAreSeen ==
  /\ \A f \in File : f \in stale ~> f \notin stale \/ f \in missed \/ failed
  /\ unseen # {} ~> unseen = {} \/ late

=============================================================================
