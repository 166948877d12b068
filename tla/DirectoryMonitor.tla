--------------------------- MODULE DirectoryMonitor ---------------------------
(***************************************************************************)
(* core/directory_monitor.py: a watcher thread reports changes of the      *)
(* source directory; the coordinator coroutine makes a candidate of each   *)
(* new audio file and submits it once it has been stable for some checks.  *)
(* AppState.reload_directory_monitor (infra/api/app.py) replaces one       *)
(* instance by the next.                                                   *)
(*                                                                         *)
(* A file is known by its identity. `birth' and `version' stand for        *)
(* created, size and modified; same_file compares the inode alone and      *)
(* same_content_state everything else.                                     *)
(***************************************************************************)
EXTENDS Naturals, FiniteSets

CONSTANTS
  File,       \* paths of audio files below the root
  Initial,    \* those that exist before the service starts
  Inode,      \* inodes of the file system; a free one may be used again
  None,       \* no file, identity, candidate, event or snapshot
  Required,   \* required_stable_checks
  MaxBirths,  \* bound on the creations of one path
  MaxWrites,  \* bound on the writes to one file
  MaxReloads  \* bound on the reloads

ASSUME MonitorAssumption ==
  /\ Initial \subseteq File
  /\ Cardinality(File) <= Cardinality(Inode)
  /\ Required \in Nat \ {0, 1}
  /\ {MaxBirths, MaxWrites, MaxReloads} \subseteq Nat

Change == {"added", "modified", "deleted"}
Identity == [inode : Inode, birth : 0..MaxBirths, version : 0..MaxWrites]
Candidate == [last : Identity, checks : 0..Required]

ASSUME NoneAssumption ==
  None \notin Change \cup Identity \cup Candidate \cup [File -> Identity \cup {None}]

VARIABLES
  \* the file system
  disk,        \* identity of the file at each path, or None
  births,      \* how often each path has been created
  raw,         \* changes of each path the watcher has not reported yet
  scans,       \* files whose directory is new as well, and to be scanned
  \* the monitor
  mon,         \* "off", "starting", "running", "failed", "stopping"
  pending,     \* _pending_events
  batch,       \* the events the coordinator has taken
  todo,        \* candidates it has still to look at in this pass
  work,        \* what it awaits
  known, seen, candidates, suppressed,
  snapshot,    \* _recovery_snapshot of the next instance
  \* history
  reloads,
  submitted,   \* accepted submissions of each birth of each path
  exempt,      \* births in a baseline, or whose path was suppressed
  missed       \* births that began over a trace of their path or ran into a reload

files   == <<disk, births, raw, scans>>
memory  == <<known, seen, candidates, suppressed>>
control == <<mon, batch, todo, work>>
history == <<reloads, submitted, exempt, missed>>
vars == <<files, memory, control, pending, snapshot, history>>

Idle == [step |-> "idle"]

TypeOK ==
  /\ disk \in [File -> Identity \cup {None}]
  /\ births \in [File -> 0..MaxBirths]
  /\ raw \in [File -> SUBSET Change]
  /\ scans \subseteq File
  /\ mon \in {"off", "starting", "running", "failed", "stopping"}
  /\ pending \in [File -> Change \cup {None}]
  /\ batch \in [File -> Change \cup {None}]
  /\ todo \subseteq File
  /\ \/ work = Idle
     \/ work \in [step : {"event", "scan"}, file : File, change : Change, id : Identity]
     \/ work \in [step : {"check", "submit"}, file : File, entry : Candidate]
  /\ known \in [File -> Identity \cup {None}]
  /\ seen \in [File -> Identity \cup {None}]
  /\ candidates \in [File -> Candidate \cup {None}]
  /\ suppressed \subseteq File
  /\ snapshot \in [File -> Identity \cup {None}] \cup {None}
  /\ reloads \in 0..MaxReloads
  /\ submitted \in [File \X (0..MaxBirths) -> Nat]
  /\ exempt \subseteq File \X (0..MaxBirths)
  /\ missed \subseteq File \X (0..MaxBirths)

Nothing == [f \in File |-> None]

Init ==
  /\ \E place \in [Initial -> Inode] :
       /\ \A f, g \in Initial : place[f] = place[g] => f = g
       /\ disk = [f \in File |-> IF f \in Initial
                    THEN [inode |-> place[f], birth |-> 0, version |-> 0] ELSE None]
  /\ births = [f \in File |-> 0]
  /\ raw = [f \in File |-> {}] /\ scans = {}
  /\ mon = "off"
  /\ pending = Nothing /\ batch = Nothing /\ todo = {} /\ work = Idle
  /\ known = Nothing /\ seen = Nothing /\ candidates = Nothing /\ suppressed = {}
  /\ snapshot = None
  /\ reloads = 0
  /\ submitted = [b \in File \X (0..MaxBirths) |-> 0]
  /\ exempt = {} /\ missed = {}

SameContent(id, other) == id.birth = other.birth /\ id.version = other.version

\* Slip: a file that was rewritten is another one.
SameState(id, other) == id # None /\ SameContent(id, other)

SameFile(id, other) == id # None /\ id.inode = other.inode

-----------------------------------------------------------------------------
(* The source directory and the watcher *)

Watching == mon \in {"starting", "running"}
Notice(f, change) ==
  raw' = IF Watching THEN [raw EXCEPT ![f] = @ \cup {change}] ELSE raw

(* The monitor has forgotten the path, and no event of it is on its way.   *)
Quiet(f) ==
  /\ raw[f] = {} /\ f \notin scans /\ pending[f] = None /\ batch[f] = None
  /\ work = Idle \/ work.file # f
Untraced(f) ==
  /\ Quiet(f)
  /\ known[f] = None /\ seen[f] = None /\ candidates[f] = None
  /\ snapshot # None => snapshot[f] = None

Create(f) ==
  /\ disk[f] = None /\ births[f] < MaxBirths
  /\ births' = [births EXCEPT ![f] = @ + 1]
  /\ \E i \in Inode :
       /\ \A g \in File : disk[g] # None => disk[g].inode # i
       /\ disk' = [disk EXCEPT ![f] = [inode |-> i, birth |-> births[f] + 1, version |-> 0]]
  /\ Notice(f, "added")
  /\ \E newDirectory \in BOOLEAN :
       scans' = IF newDirectory /\ Watching THEN scans \cup {f} ELSE scans
  /\ exempt' = IF f \in suppressed THEN exempt \cup {<<f, births[f] + 1>>} ELSE exempt
  /\ missed' = IF Untraced(f) THEN missed ELSE missed \cup {<<f, births[f] + 1>>}
  /\ UNCHANGED <<memory, control, pending, snapshot, reloads, submitted>>

Write(f) ==
  /\ disk[f] # None /\ disk[f].version < MaxWrites
  /\ disk' = [disk EXCEPT ![f].version = @ + 1]
  /\ Notice(f, "modified")
  /\ UNCHANGED <<births, scans, memory, control, pending, snapshot, history>>

Unlink(f) ==
  /\ disk[f] # None
  /\ disk' = [disk EXCEPT ![f] = None]
  /\ Notice(f, "deleted")
  /\ UNCHANGED <<births, scans, memory, control, pending, snapshot, history>>

(* _coalesce_change *)
Coalesce(current, incoming) ==
  IF incoming = "modified" /\ current = "added" THEN "added" ELSE incoming

(* What the changes S of one path, which come as a set in any order, make  *)
(* of the pending event c.                                                 *)
Merged(c, S) ==
  UNION {{Coalesce(previous, e) : previous \in IF S = {e} THEN {c} ELSE S \ {e}} : e \in S}

(* _publish_changes, called with what the thread has accumulated. *)
Publish(f) ==
  /\ Watching /\ raw[f] # {}
  /\ \E e \in Merged(pending[f], raw[f]) : pending' = [pending EXCEPT ![f] = e]
  /\ raw' = [raw EXCEPT ![f] = {}]
  /\ UNCHANGED <<disk, births, scans, memory, control, snapshot, history>>

-----------------------------------------------------------------------------
(* _discover_added *)

Discover(f, id) ==
  IF f \notin suppressed /\ SameFile(seen[f], id)
  THEN UNCHANGED <<known, seen, candidates>>
  ELSE /\ known' = [known EXCEPT ![f] = id]
       /\ seen' = [seen EXCEPT ![f] = id]
       /\ candidates' = [candidates EXCEPT ![f] =
            IF f \in suppressed THEN None ELSE [last |-> id, checks |-> 0]]

Forget(f) ==
  /\ known' = [known EXCEPT ![f] = None]
  /\ seen' = [seen EXCEPT ![f] = None]
  /\ candidates' = [candidates EXCEPT ![f] = None]

-----------------------------------------------------------------------------
(* The coordinator: one pass handles the pending events, then looks at     *)
(* each candidate. A failed instance ends its pass and begins no other.    *)

Alive == mon \in {"running", "failed", "stopping"}
Between == work = Idle /\ batch = Nothing /\ todo = {}

BeginPass ==
  /\ mon \in {"running", "stopping"} /\ Between
  /\ batch' = pending
  /\ pending' = Nothing
  /\ IF pending = Nothing
     THEN todo' = {f \in File : candidates[f] # None} /\ todo' # {}
     ELSE todo' = {}
  /\ UNCHANGED <<files, memory, mon, work, snapshot, history>>

(* Batch and todo after an event of the path f or the scan that found it:  *)
(* the last one turns to the candidates.                                   *)
Handled(f, entries) ==
  /\ batch' = IF work.step = "scan" THEN batch ELSE [batch EXCEPT ![f] = None]
  /\ todo' = IF batch' = Nothing THEN {g \in File : entries[g] # None} ELSE todo

(* _handle_event up to the await for the file's identity. *)
BeginEvent(f) ==
  /\ Alive /\ work = Idle /\ batch[f] # None
  /\ IF batch[f] = "deleted"
     THEN Forget(f) /\ Handled(f, candidates') /\ UNCHANGED work
     ELSE IF disk[f] = None
     THEN Handled(f, candidates) /\ UNCHANGED <<known, seen, candidates, work>>
     ELSE /\ work' = [step |-> "event", file |-> f, change |-> batch[f], id |-> disk[f]]
          /\ UNCHANGED <<known, seen, candidates, batch, todo>>
  /\ UNCHANGED <<files, mon, pending, suppressed, snapshot, history>>

(* The event of a new directory, in a pass that it begins or among the     *)
(* others of the batch: _scan_audio_files finds what is there.             *)
ScanDirectory(f) ==
  /\ work = Idle /\ todo = {}
  /\ f \in scans /\ scans' = scans \ {f}
  /\ IF batch = Nothing
     THEN /\ mon \in {"running", "stopping"}
          /\ batch' = pending
          /\ pending' = Nothing
     ELSE /\ Alive
          /\ UNCHANGED <<batch, pending>>
  /\ work' = IF disk[f] = None THEN Idle
             ELSE [step |-> "scan", file |-> f, change |-> "added", id |-> disk[f]]
  /\ UNCHANGED <<disk, births, raw, memory, mon, todo, snapshot, history>>

EndEvent ==
  /\ Alive /\ work.step \in {"event", "scan"}
  /\ LET f == work.file IN
     /\ IF work.change = "added"
        THEN Discover(f, work.id)
        ELSE IF candidates[f] = None
        THEN UNCHANGED <<known, seen, candidates>>
        ELSE /\ candidates' = [candidates EXCEPT ![f] = [last |-> work.id, checks |-> 0]]
             /\ known' = [known EXCEPT ![f] = work.id]
             /\ UNCHANGED seen
     /\ Handled(f, candidates')
  /\ work' = Idle
  /\ UNCHANGED <<files, mon, pending, suppressed, snapshot, history>>

(* A candidate after a check that found the identity id. Counts past       *)
(* Required are alike.                                                     *)
Checked(entry, id) ==
  [last |-> id,
   checks |-> IF ~SameContent(entry.last, id) THEN 0
              ELSE IF entry.checks < Required THEN entry.checks + 1 ELSE Required]

(* _check_candidates up to the await for the identity; `due' is whether    *)
(* next_check_at has passed. Two checks are 10 s apart. A change is        *)
(* reported within two seconds: a file that looks unchanged has no change  *)
(* that the watcher still holds. A thread that is asked to stop is joined  *)
(* within five: each candidate has one more check at most, which matters   *)
(* if it is the last.                                                      *)
BeginCheck(f, due) ==
  /\ Alive /\ work = Idle /\ f \in todo
  /\ todo' = todo \ {f}
  /\ IF f \in suppressed
     THEN candidates' = [candidates EXCEPT ![f] = None] /\ UNCHANGED <<known, seen, work>>
     ELSE IF ~due
     THEN UNCHANGED <<known, seen, candidates, work>>
     ELSE IF disk[f] = None
     THEN Forget(f) /\ UNCHANGED work
     ELSE /\ mon = "stopping" => candidates[f].checks >= Required - 1
          /\ SameContent(candidates[f].last, disk[f]) => raw[f] = {} /\ f \notin scans
          /\ work' = [step |-> "check", file |-> f, entry |-> Checked(candidates[f], disk[f])]
          /\ UNCHANGED <<known, seen, candidates>>
  /\ UNCHANGED <<files, mon, pending, batch, suppressed, snapshot, history>>

\* Slip: the number of checks must be exceeded.
EndCheckPastRequired ==
  /\ Alive /\ work.step = "check"
  /\ LET f == work.file IN
     /\ known' = [known EXCEPT ![f] = work.entry.last]
     /\ candidates' = [candidates EXCEPT ![f] = IF @ = None THEN None ELSE work.entry]
  /\ work' = IF work.entry.checks <= Required THEN Idle ELSE [work EXCEPT !.step = "submit"]
  /\ UNCHANGED <<files, mon, pending, batch, todo, seen, suppressed, snapshot, history>>

(* What follows the await acts on the candidate and the identity it has,   *)
(* whatever suppress_paths has changed meanwhile.                          *)
EndCheck ==
  /\ Alive /\ work.step = "check"
  /\ LET f == work.file IN
     /\ known' = [known EXCEPT ![f] = work.entry.last]
     /\ candidates' = [candidates EXCEPT ![f] = IF @ = None THEN None ELSE work.entry]
  /\ work' = IF work.entry.checks < Required THEN Idle ELSE [work EXCEPT !.step = "submit"]
  /\ UNCHANGED <<files, mon, pending, batch, todo, seen, suppressed, snapshot, history>>

Count(entry, f) == submitted' = [submitted EXCEPT ![<<f, entry.last.birth>>] = @ + 1]

(* _enqueue_directory_monitor_file creates a task, or finds an active one  *)
(* for the path.                                                           *)
Accept ==
  /\ Alive /\ work.step = "submit"
  /\ disk[work.file] # None
  /\ Count(work.entry, work.file)
  /\ candidates' = [candidates EXCEPT ![work.file] = None]
  /\ work' = Idle
  /\ UNCHANGED <<files, mon, pending, batch, todo, known, seen, suppressed, snapshot, reloads, exempt, missed>>

(* It refuses while files are being organised in place, and raises when    *)
(* the file is missing: the candidate stays.                               *)
Refuse ==
  /\ Alive /\ work.step = "submit"
  /\ work' = Idle
  /\ UNCHANGED <<files, mon, pending, batch, todo, memory, snapshot, history>>

-----------------------------------------------------------------------------
(* suppress_paths, called when a manual organisation has finished, and its *)
(* expiry after ten minutes, which no pass of the coordinator takes        *)

Suppress(f) ==
  /\ mon \in {"starting", "running", "failed"}
  /\ suppressed' = suppressed \cup {f}
  /\ candidates' = [candidates EXCEPT ![f] = None]
  /\ known' = [known EXCEPT ![f] = disk[f]]
  /\ seen' = [seen EXCEPT ![f] = disk[f]]
  /\ exempt' = exempt \cup {<<f, births[f]>>}
  /\ UNCHANGED <<files, control, pending, snapshot, reloads, submitted, missed>>

Unsuppress(f) ==
  /\ f \in suppressed /\ f \notin todo
  /\ suppressed' = suppressed \ {f}
  /\ UNCHANGED <<files, control, pending, known, seen, candidates, snapshot, history>>

-----------------------------------------------------------------------------
(* AppState.reload_directory_monitor, and failure *)

(* The first start, and the start of the next instance: its watcher runs.  *)
StartWatcher ==
  /\ mon = "off"
  /\ mon' = "starting"
  /\ exempt' = IF snapshot = None THEN exempt \cup {<<f, births[f]>> : f \in File} ELSE exempt
  /\ missed' = IF snapshot = Nothing THEN missed \cup {<<f, births[f]>> : f \in File} ELSE missed
  /\ UNCHANGED <<files, memory, pending, batch, todo, work, snapshot, reloads, submitted>>

(* What a snapshot does not know is new, unless its addition is known by   *)
(* an event of the watcher.                                                *)
Recovered ==
  {f \in File : /\ disk[f] # None /\ ~SameFile(snapshot[f], disk[f])
                /\ f \in suppressed \/ ~SameFile(seen[f], disk[f])}

(* The baseline is scanned. An empty snapshot counts as none.              *)
TakeBaseline ==
  /\ mon = "starting"
  /\ mon' = "running"
  /\ known' = disk
  /\ IF snapshot \in {None, Nothing}
     THEN UNCHANGED <<seen, candidates>>
     ELSE /\ seen' = [f \in File |-> IF f \in Recovered THEN disk[f]
                          ELSE IF disk[f] = None /\ snapshot[f] # None THEN None ELSE seen[f]]
          /\ candidates' = [f \in File |-> IF f \in Recovered \ suppressed
                              THEN [last |-> disk[f], checks |-> 0] ELSE None]
  /\ snapshot' = None
  /\ UNCHANGED <<files, pending, batch, todo, work, suppressed, history>>

(* The reload ends without a next instance: the monitor is disabled, has   *)
(* no directory, or its probe fails. The snapshot is gone.                 *)
NotStarted ==
  /\ mon = "off" /\ snapshot # None
  /\ snapshot' = None
  /\ UNCHANGED <<files, control, memory, pending, history>>

(* The watcher thread or the health probe fails.                           *)
Fail ==
  /\ mon = "running"
  /\ mon' = "failed"
  /\ raw' = [f \in File |-> {}] /\ scans' = {}
  /\ UNCHANGED <<disk, births, memory, pending, batch, todo, work, snapshot, history>>

(* The known files are copied, then stop() asks the thread to end. The     *)
(* coordinator goes on until the thread has been joined.                   *)
BeginReload ==
  /\ mon \in {"running", "failed"} /\ reloads < MaxReloads
  /\ reloads' = reloads + 1
  /\ mon' = "stopping"
  /\ snapshot' = known
  /\ raw' = [f \in File |-> {}] /\ scans' = {}
  /\ UNCHANGED <<disk, births, memory, pending, batch, todo, work, submitted, exempt, missed>>

(* The coordinator is cancelled at its await, perhaps after a task has     *)
(* been committed; the next instance has nothing but the snapshot.         *)
EndStop ==
  /\ mon = "stopping"
  /\ mon' = "off"
  /\ IF work.step = "submit"
     THEN UNCHANGED submitted \/ Count(work.entry, work.file)
     ELSE UNCHANGED submitted
  /\ missed' = missed \cup {<<f, births[f]>> : f \in {g \in File : snapshot[g] # None}}
  /\ pending' = Nothing /\ batch' = Nothing /\ todo' = {} /\ work' = Idle
  /\ known' = Nothing /\ seen' = Nothing /\ candidates' = Nothing /\ suppressed' = {}
  /\ UNCHANGED <<files, snapshot, reloads, exempt>>

-----------------------------------------------------------------------------
Coordinate ==
  \/ BeginPass \/ EndEvent \/ EndCheck \/ Accept \/ Refuse
  \/ \E f \in File :
       \/ BeginEvent(f) \/ ScanDirectory(f)
       \/ \E due \in BOOLEAN : BeginCheck(f, due)

Next ==
  \/ \E f \in File :
       \/ Create(f) \/ Write(f) \/ Unlink(f)
       \/ Publish(f)
       \/ Suppress(f) \/ Unsuppress(f)
  \/ Coordinate
  \/ StartWatcher \/ TakeBaseline \/ NotStarted \/ Fail \/ BeginReload \/ EndStop

Spec == Init /\ [][Next]_vars

(* The watcher reports, the coordinator proceeds, a candidate's time for   *)
(* its check comes, and a submission is accepted in the end.               *)
Fairness ==
  /\ WF_vars(Coordinate)
  /\ WF_vars(StartWatcher) /\ WF_vars(TakeBaseline) /\ WF_vars(EndStop)
  /\ SF_vars(Accept)
  /\ \A f \in File :
       /\ WF_vars(Publish(f)) /\ SF_vars(ScanDirectory(f))
       /\ SF_vars(BeginCheck(f, TRUE))

FairSpec == Spec /\ Fairness

-----------------------------------------------------------------------------
(* Properties *)

(* A file is submitted once at most, and never if it was there before the  *)
(* service: not when it is reported again or rewritten, not after a        *)
(* refused submission, a failure or a reload. A path that the application  *)
(* has just organised is no candidate, whatever the coordinator awaited.   *)
CapturedOnce ==
  \A f \in File :
    /\ \A b \in 0..MaxBirths : submitted[<<f, b>>] <= IF b = 0 THEN 0 ELSE 1
    /\ f \in suppressed => candidates[f] = None

Birth(f) == <<f, births[f]>>

(* A file that stays is captured once the monitor runs.                    *)
FreshFilesCaptured ==
  \A f \in File :
    /\ disk[f] # None /\ births[f] > 0 /\ mon = "running"
    ~> \/ submitted[Birth(f)] > 0 \/ Birth(f) \in exempt \cup missed
       \/ disk[f] = None \/ mon # "running"
=============================================================================
