------------------------ MODULE DirectoryMonitorProofs ------------------------
(***************************************************************************)
(* A file is captured once, for any files, inodes, number of stable checks *)
(* above one, rewrites, re-creations and reloads.  That the paths in       *)
(* _added_seen are refused is not what ensures it: a file that replaces    *)
(* another in the middle of a pass is a candidate under the old inode.     *)
(* What ensures it is that an addition that could make a new candidate of  *)
(* a file has been handled by the second check that finds it unchanged,    *)
(* and that the known files a reload copies have the inode of every file   *)
(* that the instance may still submit while it stops.                      *)
(* The second half is about MetadataSelection: what a file is taken to be. *)
(***************************************************************************)
EXTENDS DirectoryMonitor, MetadataSelection, FiniteSetTheorems, WellFoundedInduction, TLAPS

(* The changes that make a candidate of a path or forget it.               *)
Telling == {"added", "deleted"}

(* An identity of the file that is now at the path; a birth that was there *)
(* before the service, or has been submitted.                              *)
Current(f, id) == disk[f] # None /\ id.birth = births[f]
Taken(f, b) == b = 0 \/ submitted[<<f, b>>] > 0

(* What the coordinator awaits.                                            *)
Looking == work.step \in {"event", "scan"}
Checking == work.step \in {"check", "submit"}

(* Each phase of the monitor and of a pass has no more than its own.       *)
Phases ==
  /\ mon \in {"off", "starting"} =>
       batch = Nothing /\ todo = {} /\ work = Idle /\ candidates = Nothing
  /\ mon = "off" => pending = Nothing
  /\ ~Watching => raw = [f \in File |-> {}] /\ scans = {}
  /\ mon = "stopping" => snapshot # None
  /\ todo # {} => batch = Nothing
  /\ Checking => batch = Nothing /\ work.file \notin todo
  /\ Looking => todo = {}
  /\ \A f \in todo : f \in suppressed \/ candidates[f] # None

TypeInv == TypeOK /\ Phases

(* Whatever identity is held of a path was its own once: a birth has one   *)
(* inode, and the known file of a candidate is the candidate's.            *)
Truthful(f, id) ==
  /\ id.birth <= births[f]
  /\ Current(f, id) => id.inode = disk[f].inode

Identities ==
  /\ \A f \in File :
       /\ disk[f] # None => disk[f].birth = births[f]
       /\ candidates[f] # None =>
            /\ Truthful(f, candidates[f].last)
            /\ known[f] # None /\ known[f].inode = candidates[f].last.inode
  /\ Looking => Truthful(work.file, work.id)
  /\ Checking => Truthful(work.file, work.entry.last)

(* What is on its way to a submission has not been submitted.              *)
Untaken ==
  /\ \A f \in File :
       /\ candidates[f] # None => ~Taken(f, candidates[f].last.birth)
       /\ f \in suppressed => candidates[f] = None
       /\ \A b \in 0..MaxBirths :
            /\ submitted[<<f, b>>] <= IF b = 0 THEN 0 ELSE 1
            /\ b > births[f] => submitted[<<f, b>>] = 0
  /\ Checking => ~Taken(work.file, work.entry.last.birth)
  /\ Looking /\ (work.change = "added" \/ candidates[work.file] # None) =>
       ~Taken(work.file, work.id.birth)

(* The inode of the file is known, and to the next instance too.           *)
Remembered(f) ==
  /\ mon \in {"running", "failed"} => SameFile(known[f], disk[f])
  /\ mon = "stopping" => SameFile(snapshot[f], disk[f])

(* A check that finds the file as it was finds nothing of its addition or  *)
(* deletion still with the watcher, the next one nothing on its way.       *)
Sure(f, entry) ==
  Current(f, entry.last) /\ entry.checks > 0 =>
    /\ raw[f] \cap Telling = {} /\ f \notin scans
    /\ entry.checks > 1 => pending[f] \notin Telling /\ batch[f] \notin Telling
    /\ Remembered(f)

Counted ==
  /\ \A f \in File : candidates[f] # None =>
       /\ Sure(f, candidates[f])
       /\ Current(f, candidates[f].last) /\ candidates[f].checks > 0 =>
            (batch # Nothing \/ f \in todo \/ Looking => pending[f] \notin Telling)
  /\ Checking => Sure(work.file, work.entry)
  /\ work.step = "submit" => work.entry.checks = Required

(* A path whose file is taken: no candidate, nothing that would make one,  *)
(* and nothing that would forget it while the file is there.               *)
Closed(f) ==
  /\ candidates[f] = None
  /\ "added" \notin raw[f] /\ f \notin scans /\ pending[f] # "added" /\ batch[f] # "added"
  /\ Looking /\ work.change = "added" => work.file # f
  /\ Checking => work.file # f
  /\ disk[f] # None =>
       /\ "deleted" \notin raw[f] /\ pending[f] # "deleted" /\ batch[f] # "deleted"
       /\ Remembered(f)
       /\ mon \in {"off", "starting"} => snapshot = None \/ SameFile(snapshot[f], disk[f])

Settled == \A f \in File : Taken(f, births[f]) => Closed(f)

Capture == Untaken /\ Counted /\ Settled


-----------------------------------------------------------------------------
(* Types *)

LEMMA Works ==
  ASSUME TypeOK
  PROVE  /\ work = Idle \/ Looking \/ Checking
         /\ work = Idle => work.step = "idle" /\ ~Looking /\ ~Checking
         /\ Looking => /\ work.file \in File /\ work.id \in Identity /\ work.change \in Change
                       /\ work \in [step : {"event", "scan"}, file : File, change : Change, id : Identity]
                       /\ ~Checking /\ work # Idle
         /\ Checking => /\ work.file \in File /\ work.entry \in Candidate
                        /\ work \in [step : {"check", "submit"}, file : File, entry : Candidate]
                        /\ ~Looking /\ work # Idle
BY DEF TypeOK, Looking, Checking, Idle

LEMMA TypesInit == Init => TypeOK
<1> SUFFICES ASSUME Init PROVE TypeOK
  OBVIOUS
<1> USE MonitorAssumption DEF Init, Nothing
<1>1. disk \in [File -> Identity \cup {None}]
  BY DEF Identity
<1>2. submitted \in [File \X (0..MaxBirths) -> Nat]
  OBVIOUS
<1>3. births \in [File -> 0..MaxBirths] /\ reloads \in 0..MaxReloads
  OBVIOUS
<1> QED BY <1>1, <1>2, <1>3 DEF TypeOK, Idle

LEMMA FileTypes ==
  ASSUME TypeOK, NEW f \in File, Create(f) \/ Write(f) \/ Unlink(f) \/ Publish(f) \/ Suppress(f) \/ Unsuppress(f)
  PROVE  TypeOK'
<1> USE MonitorAssumption, NoneAssumption
<1>1. CASE Create(f)
  <2>1. disk' \in [File -> Identity \cup {None}] /\ births' \in [File -> 0..MaxBirths]
    BY <1>1 DEF Create, TypeOK, Identity
  <2>2. raw' \in [File -> SUBSET Change] /\ scans' \subseteq File
    BY <1>1 DEF Create, TypeOK, Notice, Change
  <2>3. exempt' \subseteq File \X (0..MaxBirths) /\ missed' \subseteq File \X (0..MaxBirths)
    BY <1>1 DEF Create, TypeOK
  <2> QED BY <1>1, <2>1, <2>2, <2>3 DEF Create, TypeOK, memory, control
<1>2. CASE Write(f)
  <2>1. disk' \in [File -> Identity \cup {None}]
    <3>1. disk[f] \in Identity /\ disk[f].version + 1 \in 0..MaxWrites
      BY <1>2 DEF Write, TypeOK, Identity
    <3>2. [disk[f] EXCEPT !.version = @ + 1] \in Identity
      BY <3>1 DEF Identity
    <3> QED BY <1>2, <3>2 DEF Write, TypeOK
  <2>2. raw' \in [File -> SUBSET Change]
    BY <1>2 DEF Write, TypeOK, Notice, Change
  <2> QED BY <1>2, <2>1, <2>2 DEF Write, TypeOK, memory, control, history
<1>3. CASE Unlink(f)
  BY <1>3 DEF Unlink, TypeOK, Notice, Change, memory, control, history
<1>4. CASE Publish(f)
  <2>1. \A e \in Merged(pending[f], raw[f]) : e \in Change
    BY DEF Merged, Coalesce, TypeOK, Change
  <2> QED BY <1>4, <2>1 DEF Publish, TypeOK, memory, control, history
<1>5. CASE Suppress(f)
  <2>1. births[f] \in 0..MaxBirths
    BY DEF TypeOK
  <2> QED BY <1>5, <2>1 DEF Suppress, TypeOK, files, control
<1>6. CASE Unsuppress(f)
  BY <1>6 DEF Unsuppress, TypeOK, files, control, history
<1> QED BY <1>1, <1>2, <1>3, <1>4, <1>5, <1>6

(* What a pass begins with, and what is left after an event. *)
LEMMA Passes ==
  ASSUME TypeOK
  PROVE  /\ Nothing \in [File -> Change \cup {None}]
         /\ Nothing \in [File -> Identity \cup {None}]
         /\ Nothing \in [File -> Candidate \cup {None}]
         /\ \A f \in File : \A entries : Handled(f, entries) => 
              batch' \in [File -> Change \cup {None}] /\ todo' \subseteq File
BY DEF Nothing, Handled, TypeOK

LEMMA DiscoverTypes ==
  ASSUME TypeOK, NEW f \in File, NEW id \in Identity, Discover(f, id) \/ Forget(f)
  PROVE  /\ known' \in [File -> Identity \cup {None}]
         /\ seen' \in [File -> Identity \cup {None}]
         /\ candidates' \in [File -> Candidate \cup {None}]
<1>1. [last |-> id, checks |-> 0] \in Candidate
  BY MonitorAssumption DEF Candidate
<1> QED BY <1>1 DEF Discover, Forget, TypeOK

LEMMA CheckedType ==
  ASSUME NEW entry \in Candidate, NEW id \in Identity
  PROVE  Checked(entry, id) \in Candidate
BY MonitorAssumption DEF Checked, Candidate

LEMMA CountTypes ==
  ASSUME TypeOK, NEW f \in File, NEW entry \in Candidate, Count(entry, f)
  PROVE  submitted' \in [File \X (0..MaxBirths) -> Nat]
<1>1. entry.last.birth \in 0..MaxBirths
  BY DEF Candidate, Identity
<1> QED BY <1>1 DEF Count, TypeOK

LEMMA CoordinateTypes == TypeInv /\ Coordinate => TypeOK'
<1> SUFFICES ASSUME TypeOK, Phases, Coordinate PROVE TypeOK'
  BY DEF TypeInv
<1> USE Works, Passes DEF files, memory, control, history
<1>1. CASE BeginPass
  BY <1>1 DEF BeginPass, TypeOK
<1>2. CASE EndEvent
  <2> DEFINE f == work.file
  <2>1. Looking /\ f \in File /\ work.id \in Identity
    BY <1>2 DEF EndEvent, Looking
  <2>2. /\ known' \in [File -> Identity \cup {None}]
        /\ seen' \in [File -> Identity \cup {None}]
        /\ candidates' \in [File -> Candidate \cup {None}]
    <3>1. CASE work.change = "added"
      BY <1>2, <2>1, <3>1, DiscoverTypes DEF EndEvent
    <3>2. CASE work.change # "added"
      <4>1. [last |-> work.id, checks |-> 0] \in Candidate
        BY <2>1, MonitorAssumption DEF Candidate
      <4> QED BY <1>2, <2>1, <3>2, <4>1 DEF EndEvent, TypeOK
    <3> QED BY <3>1, <3>2
  <2>3. batch' \in [File -> Change \cup {None}] /\ todo' \subseteq File
    BY <1>2, <2>1 DEF EndEvent
  <2> QED BY <1>2, <2>2, <2>3 DEF EndEvent, TypeOK
<1>3. CASE EndCheck
  <2>1. Checking /\ work.file \in File /\ work.entry \in Candidate /\ work.entry.last \in Identity
    BY <1>3 DEF EndCheck, Checking, Candidate
  <2>2. [work EXCEPT !.step = "submit"] \in [step : {"check", "submit"}, file : File, entry : Candidate]
    BY <2>1
  <2> QED BY <1>3, <2>1, <2>2 DEF EndCheck, TypeOK
<1>4. CASE Accept
  <2>1. Checking /\ work.file \in File /\ work.entry \in Candidate
    BY <1>4 DEF Accept, Checking
  <2> QED BY <1>4, <2>1, CountTypes DEF Accept, TypeOK
<1>5. CASE Refuse
  BY <1>5 DEF Refuse, TypeOK
<1>6. ASSUME NEW f \in File, BeginEvent(f) PROVE TypeOK'
  <2>1. CASE batch[f] = "deleted"
    <3>1. /\ known' \in [File -> Identity \cup {None}]
          /\ seen' \in [File -> Identity \cup {None}]
          /\ candidates' \in [File -> Candidate \cup {None}]
      BY <1>6, <2>1 DEF BeginEvent, Forget, TypeOK
    <3> QED BY <1>6, <2>1, <3>1 DEF BeginEvent, TypeOK
  <2>2. CASE batch[f] # "deleted"
    BY <1>6, <2>2 DEF BeginEvent, TypeOK
  <2> QED BY <2>1, <2>2
<1>7. ASSUME NEW f \in File, ScanDirectory(f) PROVE TypeOK'
  <2>1. work' = Idle \/ work' \in [step : {"event", "scan"}, file : File, change : Change, id : Identity]
    BY <1>7 DEF ScanDirectory, TypeOK, Change
  <2>2. batch' \in [File -> Change \cup {None}] /\ pending' \in [File -> Change \cup {None}]
    BY <1>7 DEF ScanDirectory, TypeOK
  <2> QED BY <1>7, <2>1, <2>2 DEF ScanDirectory, TypeOK
<1>8. ASSUME NEW f \in File, NEW due \in BOOLEAN, BeginCheck(f, due) PROVE TypeOK'
  <2>1. todo' \subseteq File
    BY <1>8 DEF BeginCheck, TypeOK
  <2>2. /\ known' \in [File -> Identity \cup {None}]
        /\ seen' \in [File -> Identity \cup {None}]
        /\ candidates' \in [File -> Candidate \cup {None}]
        /\ work' = Idle \/ Checking'
    BY <1>8 DEF BeginCheck, TypeOK, Forget, Checking
  <2>3. CASE candidates[f] # None /\ disk[f] # None
    <3>1. Checked(candidates[f], disk[f]) \in Candidate
      BY <2>3, CheckedType DEF TypeOK
    <3>2. \/ work' = Idle
          \/ work' \in [step : {"check", "submit"}, file : File, entry : Candidate]
      BY <1>8, <3>1 DEF BeginCheck
    <3> QED BY <1>8, <2>1, <2>2, <3>2 DEF BeginCheck, TypeOK
  <2>4. CASE candidates[f] = None \/ disk[f] = None
    <3>1. work' = work
      BY <1>8, <2>4 DEF BeginCheck, Phases
    <3> QED BY <1>8, <2>1, <2>2, <3>1 DEF BeginCheck, TypeOK
  <2> QED BY <2>3, <2>4
<1> QED BY <1>1, <1>2, <1>3, <1>4, <1>5, <1>6, <1>7, <1>8 DEF Coordinate

LEMMA ReloadTypes ==
  ASSUME TypeInv, StartWatcher \/ TakeBaseline \/ NotStarted \/ Fail \/ BeginReload \/ EndStop
  PROVE  TypeOK'
<1> USE Works, Passes, MonitorAssumption DEF TypeInv, files, memory, control, history
<1>1. CASE StartWatcher
  <2>1. {<<f, births[f]>> : f \in File} \subseteq File \X (0..MaxBirths)
    BY DEF TypeOK
  <2> QED BY <1>1, <2>1 DEF StartWatcher, TypeOK
<1>2. CASE TakeBaseline
  <2>1. \A f \in Recovered : disk[f] \in Identity /\ [last |-> disk[f], checks |-> 0] \in Candidate
    BY DEF Recovered, Candidate, TypeOK
  <2>2. /\ seen' \in [File -> Identity \cup {None}]
        /\ candidates' \in [File -> Candidate \cup {None}]
    BY <1>2, <2>1 DEF TakeBaseline, TypeOK
  <2> QED BY <1>2, <2>2 DEF TakeBaseline, TypeOK
<1>3. CASE NotStarted
  BY <1>3 DEF NotStarted, TypeOK
<1>4. CASE Fail
  BY <1>4 DEF Fail, TypeOK
<1>5. CASE BeginReload
  <2>1. reloads + 1 \in 0..MaxReloads
    BY <1>5 DEF BeginReload, TypeOK
  <2> QED BY <1>5, <2>1 DEF BeginReload, TypeOK
<1>6. CASE EndStop
  <2>1. submitted' \in [File \X (0..MaxBirths) -> Nat]
    <3>1. CASE work.step = "submit"
      <4>1. Checking /\ work.file \in File /\ work.entry \in Candidate
        BY <3>1 DEF Checking
      <4> QED BY <1>6, <4>1, CountTypes DEF EndStop, TypeOK
    <3> QED BY <1>6, <3>1 DEF EndStop, TypeOK
  <2>2. missed' \subseteq File \X (0..MaxBirths)
    BY <1>6 DEF EndStop, TypeOK
  <2> QED BY <1>6, <2>1, <2>2 DEF EndStop, TypeOK
<1> QED BY <1>1, <1>2, <1>3, <1>4, <1>5, <1>6

-----------------------------------------------------------------------------
(* Phases *)

LEMMA PhasesInit == Init => Phases
BY DEF Init, Phases, Watching, Looking, Checking, Idle

LEMMA FilePhases ==
  ASSUME TypeInv, NEW f \in File, Create(f) \/ Write(f) \/ Unlink(f) \/ Publish(f) \/ Suppress(f) \/ Unsuppress(f)
  PROVE  Phases'
<1> USE Works DEF TypeInv, files, memory, control, history
<1>1. CASE Create(f)
  BY <1>1 DEF Create, Phases, Watching, Notice, Looking, Checking
<1>2. CASE Write(f)
  BY <1>2 DEF Write, Phases, Watching, Notice, Looking, Checking
<1>3. CASE Unlink(f)
  BY <1>3 DEF Unlink, Phases, Watching, Notice, Looking, Checking
<1>4. CASE Publish(f)
  BY <1>4 DEF Publish, Phases, Watching, Looking, Checking
<1>5. CASE Suppress(f)
  <2>1. mon \in {"off", "starting"} => candidates' = Nothing
    BY <1>5 DEF Suppress, Phases, Nothing, TypeOK
  <2> QED BY <1>5, <2>1 DEF Suppress, Phases, TypeOK, Watching, Looking, Checking
<1>6. CASE Unsuppress(f)
  BY <1>6 DEF Unsuppress, Phases, Watching, Looking, Checking
<1> QED BY <1>1, <1>2, <1>3, <1>4, <1>5, <1>6

LEMMA CoordinatePhases == TypeInv /\ Coordinate => Phases'
<1> SUFFICES ASSUME TypeOK, Phases, Coordinate PROVE Phases'
  BY DEF TypeInv
<1> USE Works, Passes DEF files, memory, control, history, Alive, Watching
<1>1. CASE BeginPass
  BY <1>1 DEF BeginPass, Phases, Between, Looking, Checking
<1>2. CASE EndEvent
  <2>1. Looking /\ work.file \in File /\ work' = Idle /\ ~Looking' /\ ~Checking'
    BY <1>2 DEF EndEvent, Looking, Checking, Idle
  <2>2. todo = {}
    BY <2>1 DEF Phases
  <2>3. \/ batch' = Nothing /\ todo' = {g \in File : candidates'[g] # None}
        \/ todo' = {}
    BY <1>2, <2>2 DEF EndEvent, Handled
  <2> QED BY <1>2, <2>1, <2>3 DEF EndEvent, Phases
<1>3. CASE EndCheck
  <2>1. Checking /\ work.file \in File /\ work.entry \in Candidate
    BY <1>3 DEF EndCheck, Checking
  <2>2. work' = Idle \/ (Checking' /\ work'.file = work.file /\ ~Looking')
    <3>1. work' = Idle \/ work' = [work EXCEPT !.step = "submit"]
      BY <1>3 DEF EndCheck
    <3>2. CASE work' = [work EXCEPT !.step = "submit"]
      <4>1. work'.step = "submit" /\ work'.file = work.file
        BY <2>1, <3>2
      <4> QED BY <4>1 DEF Checking, Looking
    <3> QED BY <3>1, <3>2
  <2>3. \A f \in todo : candidates'[f] = candidates[f]
    BY <1>3, <2>1 DEF EndCheck, Phases, TypeOK
  <2> QED BY <1>3, <2>1, <2>2, <2>3 DEF EndCheck, Phases, Looking, Checking, Idle
<1>4. CASE Accept
  <2>1. Checking /\ work.file \in File
    BY <1>4 DEF Accept, Checking
  <2>2. \A f \in todo : candidates'[f] = candidates[f]
    BY <1>4, <2>1 DEF Accept, Phases, TypeOK
  <2> QED BY <1>4, <2>1, <2>2 DEF Accept, Phases, Looking, Checking, Idle
<1>5. CASE Refuse
  BY <1>5 DEF Refuse, Phases, Looking, Checking, Idle
<1>6. ASSUME NEW f \in File, BeginEvent(f) PROVE Phases'
  <2>1. batch # Nothing /\ todo = {}
    BY <1>6 DEF BeginEvent, Phases, Nothing
  <2>2. \/ batch' = Nothing /\ todo' = {g \in File : candidates'[g] # None}
        \/ todo' = {}
    BY <1>6, <2>1 DEF BeginEvent, Handled
  <2>3. ~Checking' /\ (work' = Idle \/ todo' = {})
    <3>1. work = Idle
      BY <1>6 DEF BeginEvent
    <3>2. \/ work' = Idle
          \/ /\ work' = [step |-> "event", file |-> f, change |-> batch[f], id |-> disk[f]]
             /\ todo' = todo
      BY <1>6, <3>1 DEF BeginEvent
    <3> QED BY <2>1, <3>2 DEF Checking, Idle
  <2>4. Looking' => todo' = {}
    BY <2>3 DEF Looking, Idle
  <2> QED BY <1>6, <2>1, <2>2, <2>3, <2>4 DEF BeginEvent, Phases
<1>7. ASSUME NEW f \in File, ScanDirectory(f) PROVE Phases'
  BY <1>7 DEF ScanDirectory, Phases, Looking, Checking, Idle
<1>8. ASSUME NEW f \in File, NEW due \in BOOLEAN, BeginCheck(f, due) PROVE Phases'
  <2>1. \A g \in todo' : candidates'[g] = candidates[g]
    BY <1>8 DEF BeginCheck, Forget, TypeOK
  <2>2. work' = Idle \/ (Checking' /\ ~Looking' /\ work'.file = f)
    <3>1. work = Idle
      BY <1>8 DEF BeginCheck
    <3>2. \/ work' = Idle
          \/ work' = [step |-> "check", file |-> f, entry |-> Checked(candidates[f], disk[f])]
      BY <1>8, <3>1 DEF BeginCheck
    <3> QED BY <3>2 DEF Checking, Looking
  <2> QED BY <1>8, <2>1, <2>2 DEF BeginCheck, Phases, Checking, Looking, Idle
<1> QED BY <1>1, <1>2, <1>3, <1>4, <1>5, <1>6, <1>7, <1>8 DEF Coordinate

LEMMA ReloadPhases ==
  ASSUME TypeInv, StartWatcher \/ TakeBaseline \/ NotStarted \/ Fail \/ BeginReload \/ EndStop
  PROVE  Phases'
<1> USE Works, NoneAssumption DEF TypeInv, files, memory, control, history, Watching, Looking, Checking
<1>1. CASE StartWatcher
  BY <1>1 DEF StartWatcher, Phases
<1>2. CASE TakeBaseline
  BY <1>2 DEF TakeBaseline, Phases, Idle
<1>3. CASE NotStarted
  BY <1>3 DEF NotStarted, Phases
<1>4. CASE Fail
  BY <1>4 DEF Fail, Phases
<1>5. CASE BeginReload
  BY <1>5 DEF BeginReload, Phases, TypeOK
<1>6. CASE EndStop
  BY <1>6 DEF EndStop, Phases, Idle
<1> QED BY <1>1, <1>2, <1>3, <1>4, <1>5, <1>6

(* Every variable has its type, and each phase of the monitor has no more  *)
(* than its own: none has an event or a candidate in hand while it starts. *)
THEOREM TypeCorrect == Spec => []TypeInv
<1>1. Init => TypeInv
  BY TypesInit, PhasesInit DEF TypeInv
<1>2. TypeInv /\ [Next]_vars => TypeInv'
  <2> SUFFICES ASSUME TypeInv, [Next]_vars PROVE TypeInv'
    OBVIOUS
  <2>1. CASE UNCHANGED vars
    BY <2>1 DEF TypeInv, TypeOK, Phases, vars, files, memory, control, history, Watching, Looking, Checking
  <2>2. ASSUME NEW f \in File,
               Create(f) \/ Write(f) \/ Unlink(f) \/ Publish(f) \/ Suppress(f) \/ Unsuppress(f)
        PROVE  TypeInv'
    BY <2>2, FileTypes, FilePhases DEF TypeInv
  <2>3. CASE Coordinate
    BY <2>3, CoordinateTypes, CoordinatePhases DEF TypeInv
  <2>4. CASE StartWatcher \/ TakeBaseline \/ NotStarted \/ Fail \/ BeginReload \/ EndStop
    BY <2>4, ReloadTypes, ReloadPhases DEF TypeInv
  <2> QED BY <2>1, <2>2, <2>3, <2>4 DEF Next
<1> QED BY <1>1, <1>2, PTL DEF Spec

-----------------------------------------------------------------------------
(* Identities *)

(* What was true of an identity stays true: a path has one inode for each  *)
(* of its births.                                                          *)
LEMMA TruthKept ==
  ASSUME TypeOK, NEW g \in File, Create(g) \/ Write(g) \/ Unlink(g),
         NEW f \in File, disk[f] # None => disk[f].birth = births[f]
  PROVE  /\ disk'[f] # None => disk'[f].birth = births'[f]
         /\ \A id \in Identity : Truthful(f, id) => Truthful(f, id)'
<1>1. births[f] \in Nat /\ (disk[f] # None => disk[f] \in Identity)
  BY MonitorAssumption DEF TypeOK
<1>2. CASE Create(g) /\ f = g
  <2>1. births'[f] = births[f] + 1 /\ disk'[f].birth = births[f] + 1
    BY <1>2 DEF Create, TypeOK
  <2> QED BY <1>1, <2>1, MonitorAssumption DEF Truthful, Current, Identity
<1>3. CASE Write(g) /\ f = g
  <2>1. /\ births' = births /\ disk[f] # None /\ disk[f] \in Identity
        /\ disk'[f] = [disk[f] EXCEPT !.version = @ + 1]
    BY <1>1, <1>3 DEF Write, TypeOK, files
  <2>2. disk'[f].birth = disk[f].birth /\ disk'[f].inode = disk[f].inode
    BY <2>1 DEF Identity
  <2> QED BY <2>1, <2>2 DEF Truthful, Current
<1>4. CASE Unlink(g) /\ f = g
  BY <1>4 DEF Unlink, TypeOK, Truthful, Current
<1>5. CASE f # g
  <2>1. disk'[f] = disk[f] /\ births'[f] = births[f]
    BY <1>5 DEF Create, Write, Unlink, TypeOK
  <2> QED BY <2>1 DEF Truthful, Current
<1> QED BY <1>2, <1>3, <1>4, <1>5

LEMMA DiskIsTrue ==
  ASSUME TypeOK, Identities, NEW f \in File, disk[f] # None
  PROVE  disk[f] \in Identity /\ Truthful(f, disk[f])
BY MonitorAssumption DEF TypeOK, Identities, Truthful, Current, Identity

LEMMA IdentitiesInit == Init => Identities
BY NoneAssumption DEF Init, Nothing, Identities, Looking, Checking, Idle

LEMMA FileIdentities ==
  ASSUME TypeInv, Identities, NEW g \in File,
         Create(g) \/ Write(g) \/ Unlink(g) \/ Publish(g) \/ Suppress(g) \/ Unsuppress(g)
  PROVE  Identities'
<1> USE Works DEF TypeInv
<1>1. CASE Create(g) \/ Write(g) \/ Unlink(g)
  <2>1. candidates' = candidates /\ known' = known /\ work' = work
    BY <1>1 DEF Create, Write, Unlink, memory, control
  <2>2. /\ Looking' <=> Looking
        /\ Checking' <=> Checking
    BY <2>1 DEF Looking, Checking
  <2>3. ASSUME NEW f \in File, candidates[f] # None PROVE candidates[f].last \in Identity
    BY <2>3 DEF TypeOK, Candidate
  <2>4. Checking => work.entry.last \in Identity
    BY DEF Candidate
  <2>5. Looking => Truthful(work.file, work.id)'
    BY <1>1, <2>1, TruthKept DEF Identities
  <2>6. Checking => Truthful(work.file, work.entry.last)'
    BY <1>1, <2>1, <2>4, TruthKept DEF Identities
  <2>7. ASSUME NEW f \in File
        PROVE  /\ disk'[f] # None => disk'[f].birth = births'[f]
               /\ candidates[f] # None => Truthful(f, candidates[f].last)'
    BY <1>1, <2>1, <2>3, TruthKept DEF Identities
  <2> QED BY <2>1, <2>2, <2>5, <2>6, <2>7 DEF Identities
<1>2. CASE Publish(g) \/ Unsuppress(g)
  BY <1>2 DEF Publish, Unsuppress, Identities, Truthful, Current, files, memory, control, Looking, Checking
<1>3. CASE Suppress(g)
  BY <1>3 DEF Suppress, TypeOK, Identities, Truthful, Current, files, control, Looking, Checking
<1> QED BY <1>1, <1>2, <1>3

(* The rest leaves the files alone.                                        *)
LEMMA SameTruth ==
  ASSUME disk' = disk, births' = births
  PROVE  \A f, id : Truthful(f, id)' <=> Truthful(f, id)
BY DEF Truthful, Current

LEMMA CoordinateIdentities == TypeInv /\ Identities /\ Coordinate => Identities'
<1> SUFFICES ASSUME TypeOK, Phases, Identities, Coordinate PROVE Identities'
  BY DEF TypeInv
<1> USE Works DEF files, memory, control, history
<1>1. CASE BeginPass
  BY <1>1 DEF BeginPass, Identities, Truthful, Current, Looking, Checking
<1>2. CASE EndEvent
  <2> DEFINE f == work.file
  <2>1. Looking /\ f \in File /\ Truthful(f, work.id) /\ ~Looking' /\ ~Checking'
    BY <1>2 DEF EndEvent, Looking, Checking, Idle, Identities
  <2>2. /\ \/ candidates'[f] = None
           \/ candidates'[f].last = work.id /\ known'[f] = work.id
           \/ candidates'[f] = candidates[f] /\ known'[f] = known[f]
        /\ \A g \in File \ {f} : candidates'[g] = candidates[g] /\ known'[g] = known[g]
        /\ disk' = disk /\ births' = births
    BY <1>2, <2>1 DEF EndEvent, Discover, TypeOK
  <2>3. work.id # None
    BY <2>1, NoneAssumption
  <2> QED BY <2>1, <2>2, <2>3 DEF Identities, Truthful, Current
<1>3. CASE EndCheck
  <2>1. PICK f \in File, entry \in Candidate : f = work.file /\ entry = work.entry /\ Checking
    BY <1>3 DEF EndCheck, Checking
  <2>2. Truthful(f, entry.last) /\ entry.last # None
    BY <2>1, NoneAssumption DEF Identities, Candidate
  <2>3. /\ candidates'[f] = None \/ candidates'[f] = entry
        /\ known'[f] = entry.last
        /\ \A g \in File \ {f} : candidates'[g] = candidates[g] /\ known'[g] = known[g]
        /\ disk' = disk /\ births' = births
    BY <1>3, <2>1 DEF EndCheck, TypeOK
  <2>4. work' = Idle \/ work' = [work EXCEPT !.step = "submit"]
    BY <1>3 DEF EndCheck
  <2>5. ~Looking' /\ (Checking' => work'.file = f /\ work'.entry = entry)
    BY <2>1, <2>4 DEF Looking, Checking, Idle
  <2>6. Checking' => Truthful(work.file, work.entry.last)'
    BY <2>2, <2>3, <2>5 DEF Truthful, Current
  <2> QED BY <2>2, <2>3, <2>5, <2>6 DEF Identities, Truthful, Current
<1>4. CASE Accept
  <2>1. work.file \in File /\ ~Looking' /\ ~Checking'
    BY <1>4 DEF Accept, Checking, Looking, Idle
  <2> QED BY <1>4, <2>1 DEF Accept, TypeOK, Identities, Truthful, Current
<1>5. CASE Refuse
  BY <1>5 DEF Refuse, Identities, Truthful, Current, Looking, Checking, Idle
<1>6. ASSUME NEW f \in File, BeginEvent(f) PROVE Identities'
  <2>1. /\ \/ candidates' = candidates /\ known' = known
           \/ Forget(f)
        /\ disk' = disk /\ births' = births
    BY <1>6 DEF BeginEvent
  <2>2. \/ work' = Idle
        \/ /\ work' = [step |-> "event", file |-> f, change |-> batch[f], id |-> disk[f]]
           /\ disk[f] # None
    BY <1>6 DEF BeginEvent
  <2>3. ~Checking' /\ (Looking' => work'.file = f /\ work'.id = disk[f] /\ disk[f] # None)
    BY <2>2 DEF Checking, Looking, Idle
  <2>4. Looking' => Truthful(work.file, work.id)'
    BY <2>1, <2>3, DiskIsTrue DEF Truthful, Current
  <2> QED BY <2>1, <2>3, <2>4 DEF Forget, TypeOK, Identities, Truthful, Current
<1>7. ASSUME NEW f \in File, ScanDirectory(f) PROVE Identities'
  <2>1. candidates' = candidates /\ known' = known /\ disk' = disk /\ births' = births
    BY <1>7 DEF ScanDirectory
  <2>2. \/ work' = Idle
        \/ /\ work' = [step |-> "scan", file |-> f, change |-> "added", id |-> disk[f]]
           /\ disk[f] # None
    BY <1>7 DEF ScanDirectory
  <2>3. ~Checking' /\ (Looking' => work'.file = f /\ work'.id = disk[f] /\ disk[f] # None)
    BY <2>2 DEF Checking, Looking, Idle
  <2>4. Looking' => Truthful(work.file, work.id)'
    BY <2>1, <2>3, DiskIsTrue DEF Truthful, Current
  <2> QED BY <2>1, <2>3, <2>4 DEF Identities, Truthful, Current
<1>8. ASSUME NEW f \in File, NEW due \in BOOLEAN, BeginCheck(f, due) PROVE Identities'
  <2>1. /\ \/ candidates' = candidates /\ known' = known
           \/ candidates' = [candidates EXCEPT ![f] = None] /\ known' = known
           \/ Forget(f)
        /\ disk' = disk /\ births' = births
    BY <1>8 DEF BeginCheck
  <2>2. \/ work' = Idle
        \/ /\ work' = [step |-> "check", file |-> f, entry |-> Checked(candidates[f], disk[f])]
           /\ disk[f] # None
    BY <1>8 DEF BeginCheck
  <2>3. ~Looking' /\ (Checking' => work'.file = f /\ work'.entry.last = disk[f] /\ disk[f] # None)
    BY <2>2 DEF Checking, Looking, Idle, Checked
  <2>4. Checking' => Truthful(work.file, work.entry.last)'
    BY <2>1, <2>3, DiskIsTrue DEF Truthful, Current
  <2> QED BY <2>1, <2>3, <2>4 DEF Forget, TypeOK, Identities, Truthful, Current
<1> QED BY <1>1, <1>2, <1>3, <1>4, <1>5, <1>6, <1>7, <1>8 DEF Coordinate

LEMMA ReloadIdentities ==
  ASSUME TypeInv, Identities, StartWatcher \/ TakeBaseline \/ NotStarted \/ Fail \/ BeginReload \/ EndStop
  PROVE  Identities'
<1> USE Works DEF TypeInv, files, memory, control, history, Looking, Checking
<1>1. CASE StartWatcher \/ NotStarted \/ Fail \/ BeginReload
  BY <1>1 DEF StartWatcher, NotStarted, Fail, BeginReload, Identities, Truthful, Current
<1>2. CASE TakeBaseline
  <2>1. candidates = Nothing /\ work = Idle
    BY <1>2 DEF TakeBaseline, Phases
  <2>2. /\ known' = disk /\ disk' = disk /\ births' = births /\ work' = work
        /\ \A f \in File : \/ candidates'[f] = None
                           \/ disk[f] # None /\ candidates'[f].last = disk[f]
    BY <1>2, <2>1 DEF TakeBaseline, Nothing, Recovered
  <2> QED BY <2>1, <2>2, DiskIsTrue DEF Identities, Truthful, Current, Idle
<1>3. CASE EndStop
  BY <1>3 DEF EndStop, Nothing, Identities, Truthful, Current, Idle
<1> QED BY <1>1, <1>2, <1>3

-----------------------------------------------------------------------------
(* Captures *)

LEMMA CaptureInit == Init => Capture
<1> SUFFICES ASSUME Init PROVE Capture
  OBVIOUS
<1> USE MonitorAssumption, NoneAssumption DEF Init, Nothing, Looking, Checking, Idle
<1>1. Untaken
  BY DEF Untaken
<1>2. Counted
  BY DEF Counted
<1>3. Settled
  BY DEF Settled, Closed, Remembered, Change
<1> QED BY <1>1, <1>2, <1>3 DEF Capture

(* What changes of a path tell is told of it.                              *)
LEMMA Tells ==
  ASSUME NEW c, NEW S, NEW e \in Merged(c, S)
  PROVE  /\ e = "added" => "added" \in S \/ c = "added"
         /\ e = "deleted" => "deleted" \in S
BY DEF Merged, Coalesce

LEMMA CreateCapture ==
  ASSUME TypeInv, Identities, Capture, NEW g \in File, Create(g)
  PROVE  Capture'
<1> USE Works DEF TypeInv
<1>1. /\ UNCHANGED <<memory, control, pending, snapshot, reloads, submitted>>
      /\ births' = [births EXCEPT ![g] = @ + 1] /\ disk[g] = None
      /\ \A f \in File \ {g} : disk'[f] = disk[f] /\ births'[f] = births[f] /\ raw'[f] = raw[f]
      /\ \A f \in File \ {g} : f \in scans' => f \in scans
      /\ births'[g] = births[g] + 1
  BY DEF Create, TypeOK, Notice
<1>2. /\ known' = known /\ candidates' = candidates /\ suppressed' = suppressed
      /\ mon' = mon /\ batch' = batch /\ todo' = todo /\ work' = work
      /\ pending' = pending /\ snapshot' = snapshot /\ submitted' = submitted
  BY <1>1 DEF memory, control
<1>3. births[g] \in Nat /\ births'[g] \in 0..MaxBirths
  BY MonitorAssumption DEF Create, TypeOK
<1>4. ~Taken(g, births[g])'
  <2>1. births'[g] > births[g] /\ births'[g] # 0
    BY <1>1, <1>3
  <2>2. submitted[<<g, births'[g]>>] = 0
    BY <1>3, <2>1 DEF Capture, Untaken
  <2> QED BY <1>2, <2>1, <2>2 DEF Taken
<1>5. \A f \in File : \A id \in Identity :
        Truthful(f, id) /\ Current(f, id)' => f # g /\ Current(f, id)
  BY <1>1, <1>3, MonitorAssumption DEF Current, Truthful, Identity
<1>6. \A f \in File, entry \in Candidate :
        Truthful(f, entry.last) /\ Sure(f, entry) => Sure(f, entry)'
  <2> TAKE f \in File, entry \in Candidate
  <2> SUFFICES ASSUME Truthful(f, entry.last), Sure(f, entry), Current(f, entry.last)', entry.checks > 0
               PROVE  Sure(f, entry)'
    BY DEF Sure
  <2>1. f # g /\ Current(f, entry.last)
    BY <1>5 DEF Candidate
  <2> QED BY <1>1, <1>2, <2>1 DEF Sure, Remembered
<1>7. Untaken'
  <2>1. \A f \in File : \A b : Taken(f, b)' <=> Taken(f, b)
    BY <1>2 DEF Taken
  <2>2. \A f \in File, b \in 0..MaxBirths : b > births'[f] => b > births[f]
    BY <1>1, <1>3, MonitorAssumption DEF TypeOK
  <2> QED BY <1>2, <2>1, <2>2 DEF Capture, Untaken, Looking, Checking
<1>8. Counted'
  <2>1. ASSUME NEW f \in File, candidates[f] # None
        PROVE  /\ Sure(f, candidates[f])'
               /\ Current(f, candidates[f].last)' /\ candidates[f].checks > 0 =>
                    (batch # Nothing \/ f \in todo \/ Looking => pending[f] \notin Telling)
    <3>1. candidates[f] \in Candidate /\ candidates[f].last \in Identity /\ Truthful(f, candidates[f].last)
      BY <2>1 DEF TypeOK, Candidate, Identities
    <3>2. Sure(f, candidates[f])
      BY <2>1 DEF Capture, Counted
    <3>3. Current(f, candidates[f].last)' => Current(f, candidates[f].last)
      BY <1>2, <1>5, <3>1 DEF Current
    <3> QED BY <1>2, <1>6, <2>1, <3>1, <3>2, <3>3 DEF Capture, Counted, Sure, Current, Remembered
  <2>2. Checking => Sure(work.file, work.entry)'
    BY <1>2, <1>6 DEF Capture, Counted, Identities, Sure, Current, Remembered
  <2> QED BY <1>2, <2>1, <2>2 DEF Capture, Counted, Looking, Checking
<1>9. Settled'
  BY <1>1, <1>2, <1>4 DEF Capture, Settled, Closed, Taken, Remembered, Looking, Checking
<1> QED BY <1>7, <1>8, <1>9 DEF Capture

LEMMA FileCapture ==
  ASSUME TypeInv, Identities, Capture, NEW g \in File,
         Write(g) \/ Unlink(g) \/ Publish(g) \/ Suppress(g) \/ Unsuppress(g)
  PROVE  Capture'
<1> USE Works DEF TypeInv
<1>1. CASE Write(g)
  <2>1. /\ UNCHANGED <<births, scans, memory, control, pending, snapshot, history>>
        /\ disk[g] # None /\ disk[g] \in Identity
        /\ disk' = [disk EXCEPT ![g] = [disk[g] EXCEPT !.version = @ + 1]]
    BY <1>1 DEF Write, TypeOK
  <2>2. /\ \A f \in File : (disk'[f] = None <=> disk[f] = None)
        /\ \A f \in File : disk[f] # None => disk'[f].inode = disk[f].inode
        /\ \A f \in File : raw'[f] \cap Telling = raw[f] \cap Telling
    <3>1. [disk[g] EXCEPT !.version = @ + 1].inode = disk[g].inode
      BY <2>1 DEF Identity
    <3>2. [disk[g] EXCEPT !.version = @ + 1] # None
      <4>1. disk[g].version + 1 \in 0..MaxWrites
        BY <1>1, <2>1, MonitorAssumption DEF Write, Identity
      <4>2. [disk[g] EXCEPT !.version = @ + 1] \in Identity
        BY <2>1, <4>1 DEF Identity
      <4> QED BY <4>2, NoneAssumption
    <3>3. \A f \in File : raw'[f] = raw[f] \/ raw'[f] = raw[f] \cup {"modified"}
      BY <1>1 DEF Write, Notice, TypeOK
    <3>4. \A f \in File : raw'[f] \cap Telling = raw[f] \cap Telling
      BY <3>3 DEF Telling
    <3>5. disk \in [File -> Identity \cup {None}]
      BY DEF TypeOK
    <3> QED BY <2>1, <3>1, <3>2, <3>4, <3>5
  <2>3. \A f \in File : /\ "added" \in raw'[f] <=> "added" \in raw[f]
                        /\ "deleted" \in raw'[f] <=> "deleted" \in raw[f]
    BY <2>2 DEF Telling
  <2>4. /\ known' = known /\ candidates' = candidates /\ suppressed' = suppressed
        /\ mon' = mon /\ batch' = batch /\ todo' = todo /\ work' = work /\ births' = births
        /\ scans' = scans
        /\ pending' = pending /\ snapshot' = snapshot /\ submitted' = submitted
    BY <2>1 DEF memory, control, history
  <2>5. \A f \in File : /\ \A id : Current(f, id)' <=> Current(f, id)
                        /\ disk[f] # None /\ Remembered(f) => Remembered(f)'
                        /\ \A id : disk[f] # None => (SameFile(id, disk[f]) => SameFile(id, disk'[f]))
    BY <2>2, <2>4 DEF Current, Remembered, SameFile
  <2>6. \A f \in File : \A entry : Sure(f, entry) => Sure(f, entry)'
    BY <2>2, <2>4, <2>5 DEF Sure, Current
  <2>7. Untaken'
    BY <2>4 DEF Capture, Untaken, Looking, Checking, Taken
  <2>8. Counted'
    BY <2>4, <2>5, <2>6 DEF Capture, Counted, Looking, Checking, Sure, Current, Remembered
  <2>9. Settled'
    BY <2>2, <2>3, <2>4, <2>5 DEF Capture, Settled, Closed, Looking, Checking, Taken, SameFile
  <2> QED BY <2>7, <2>8, <2>9 DEF Capture
<1>2. CASE Unlink(g)
  <2>1. /\ UNCHANGED <<births, scans, memory, control, pending, snapshot, history>>
        /\ disk'[g] = None
        /\ \A f \in File \ {g} : disk'[f] = disk[f] /\ raw'[f] = raw[f]
        /\ "added" \in raw'[g] => "added" \in raw[g]
    BY <1>2 DEF Unlink, Notice, TypeOK
  <2>2. /\ known' = known /\ candidates' = candidates /\ suppressed' = suppressed
        /\ mon' = mon /\ batch' = batch /\ todo' = todo /\ work' = work /\ births' = births
        /\ scans' = scans
        /\ pending' = pending /\ snapshot' = snapshot /\ submitted' = submitted
    BY <2>1 DEF memory, control, history
  <2>3. \A f \in File : \A entry : Sure(f, entry) => Sure(f, entry)'
    BY <2>1, <2>2 DEF Sure, Current, Remembered
  <2>4. Untaken'
    BY <2>2 DEF Capture, Untaken, Looking, Checking, Taken
  <2>5. Counted'
    BY <2>1, <2>2, <2>3 DEF Capture, Counted, Looking, Checking, Sure, Current, Remembered
  <2>6. Settled'
    BY <2>1, <2>2 DEF Capture, Settled, Closed, Looking, Checking, Taken, Remembered
  <2> QED BY <2>4, <2>5, <2>6 DEF Capture
<1>3. CASE Publish(g)
  <2>1. /\ UNCHANGED <<disk, births, scans, memory, control, snapshot, history>>
        /\ raw'[g] = {}
        /\ \A f \in File \ {g} : raw'[f] = raw[f] /\ pending'[f] = pending[f]
        /\ pending'[g] \in Merged(pending[g], raw[g])
    BY <1>3 DEF Publish, TypeOK
  <2>2. /\ known' = known /\ candidates' = candidates /\ suppressed' = suppressed
        /\ mon' = mon /\ batch' = batch /\ todo' = todo /\ work' = work /\ births' = births
        /\ scans' = scans /\ disk' = disk /\ snapshot' = snapshot /\ submitted' = submitted
    BY <2>1 DEF memory, control, history
  <2>3. /\ pending'[g] = "added" => "added" \in raw[g] \/ pending[g] = "added"
        /\ pending'[g] = "deleted" => "deleted" \in raw[g]
    BY <2>1, Tells
  <2>4. \A f \in File : raw[f] \cap Telling = {} /\ pending[f] \notin Telling =>
          pending'[f] \notin Telling
    BY <2>1, <2>3 DEF Telling
  <2>5. \A f \in File : \A entry : Sure(f, entry) => Sure(f, entry)'
    BY <2>1, <2>2, <2>4 DEF Sure, Current, Remembered
  <2>6. Untaken'
    BY <2>2 DEF Capture, Untaken, Looking, Checking, Taken
  <2>7. Counted'
    BY <2>1, <2>2, <2>4, <2>5 DEF Capture, Counted, Looking, Checking, Sure, Current, Remembered
  <2>8. Settled'
    BY <2>1, <2>2, <2>3 DEF Capture, Settled, Closed, Looking, Checking, Taken, Remembered
  <2> QED BY <2>6, <2>7, <2>8 DEF Capture
<1>4. CASE Suppress(g)
  <2>1. /\ UNCHANGED <<files, control, pending, snapshot, reloads, submitted, missed>>
        /\ mon \in {"starting", "running", "failed"}
        /\ candidates'[g] = None /\ known'[g] = disk[g] /\ suppressed' = suppressed \cup {g}
        /\ \A f \in File \ {g} : candidates'[f] = candidates[f] /\ known'[f] = known[f]
    BY <1>4 DEF Suppress, TypeOK
  <2>2. /\ mon' = mon /\ batch' = batch /\ todo' = todo /\ work' = work /\ births' = births
        /\ scans' = scans /\ disk' = disk /\ snapshot' = snapshot /\ submitted' = submitted
        /\ pending' = pending /\ raw' = raw
    BY <2>1 DEF files, control
  <2>3. \A f \in File : disk[f] # None /\ Remembered(f) => Remembered(f)'
    BY <2>1, <2>2 DEF Remembered, SameFile
  <2>4. \A f \in File : \A entry : Sure(f, entry) => Sure(f, entry)'
    BY <2>2, <2>3 DEF Sure, Current
  <2>5. Untaken'
    <3>1. \A f \in File : candidates'[f] # None => candidates'[f] = candidates[f]
      BY <2>1
    <3>2. \A f \in File : f \in suppressed' => candidates'[f] = None
      BY <2>1 DEF Capture, Untaken
    <3>3. \A f, b : Taken(f, b)' <=> Taken(f, b)
      BY <2>2 DEF Taken
    <3>4. (Looking' <=> Looking) /\ (Checking' <=> Checking)
      BY <2>2 DEF Looking, Checking
    <3> QED BY <2>2, <3>1, <3>2, <3>3, <3>4 DEF Capture, Untaken
  <2>6. Counted'
    BY <2>1, <2>2, <2>4 DEF Capture, Counted, Looking, Checking, Sure, Current, Remembered
  <2>7. Settled'
    BY <2>1, <2>2, <2>3 DEF Capture, Settled, Closed, Looking, Checking, Taken
  <2> QED BY <2>5, <2>6, <2>7 DEF Capture
<1>5. CASE Unsuppress(g)
  <2>1. /\ mon' = mon /\ batch' = batch /\ todo' = todo /\ work' = work /\ births' = births
        /\ scans' = scans /\ disk' = disk /\ snapshot' = snapshot /\ submitted' = submitted
        /\ pending' = pending /\ raw' = raw /\ known' = known /\ candidates' = candidates
        /\ suppressed' \subseteq suppressed
    BY <1>5 DEF Unsuppress, files, control, history
  <2>2. Untaken'
    BY <2>1 DEF Capture, Untaken, Looking, Checking, Taken
  <2>3. Counted'
    BY <2>1 DEF Capture, Counted, Looking, Checking, Sure, Current, Remembered
  <2>4. Settled'
    BY <2>1 DEF Capture, Settled, Closed, Looking, Checking, Taken, Remembered
  <2> QED BY <2>2, <2>3, <2>4 DEF Capture
<1> QED BY <1>1, <1>2, <1>3, <1>4, <1>5

LEMMA PassCapture ==
  ASSUME TypeInv, Identities, Capture,
         BeginPass \/ Refuse \/ \E f \in File : BeginEvent(f) \/ ScanDirectory(f)
  PROVE  Capture'
<1> USE Works, NoneAssumption DEF TypeInv, files, memory, history
<1>1. CASE BeginPass
  <2>1. /\ UNCHANGED <<files, memory, mon, work, snapshot, history>>
        /\ work = Idle /\ batch = Nothing /\ batch' = pending /\ pending' = Nothing
    BY <1>1 DEF BeginPass, Between
  <2>2. \A f \in File : pending'[f] \notin Telling /\ batch'[f] = pending[f]
    BY <2>1 DEF Nothing, Telling, Change
  <2>3. ~Looking' /\ ~Checking'
    BY <2>1 DEF Idle, Looking, Checking
  <2>4. Untaken'
    BY <2>1, <2>3 DEF Capture, Untaken, Taken
  <2>5. Counted'
    BY <2>1, <2>2, <2>3 DEF Capture, Counted, Sure, Current, Remembered, Checking
  <2>6. Settled'
    BY <2>1, <2>2, <2>3 DEF Capture, Settled, Closed, Taken, Remembered, Telling
  <2> QED BY <2>4, <2>5, <2>6 DEF Capture
<1>2. CASE Refuse
  <2>1. /\ UNCHANGED <<files, mon, pending, batch, todo, memory, snapshot, history>>
        /\ ~Looking' /\ ~Checking'
    BY <1>2 DEF Refuse, Idle, Looking, Checking
  <2>2. Untaken'
    BY <2>1 DEF Capture, Untaken, Taken
  <2>3. Counted'
    BY <2>1 DEF Capture, Counted, Sure, Current, Remembered, Checking
  <2>4. Settled'
    BY <2>1 DEF Capture, Settled, Closed, Taken, Remembered
  <2> QED BY <2>2, <2>3, <2>4 DEF Capture
<1>3. ASSUME NEW f \in File, BeginEvent(f) PROVE Capture'
  <2>1. /\ UNCHANGED <<files, mon, pending, suppressed, snapshot, history>>
        /\ batch # Nothing /\ batch[f] # None
        /\ \A g \in File : batch'[g] = batch[g] \/ batch'[g] = None
        /\ \A g \in File : \/ candidates'[g] = candidates[g] /\ known'[g] = known[g]
                           \/ /\ candidates'[g] = None /\ g = f
                              /\ batch[f] = "deleted"
    BY <1>3 DEF BeginEvent, Handled, Forget, Nothing, TypeOK
  <2>2. /\ ~Checking'
        /\ Looking' => /\ work'.file = f /\ work'.change = batch[f] /\ work'.id = disk[f]
                       /\ disk[f] # None
                       /\ candidates' = candidates
    BY <1>3 DEF BeginEvent, Looking, Checking, Idle
  <2>3. batch[f] = "added" \/ candidates[f] # None => ~Taken(f, births[f])
    BY DEF Capture, Settled, Closed
  <2>4. Untaken'
    <3>1. Looking' => disk[f].birth = births[f]
      BY <2>2 DEF Identities
    <3>2. \A g \in File : candidates'[g] # None => candidates'[g] = candidates[g]
      BY <2>1
    <3>3. \A g, b : Taken(g, b)' <=> Taken(g, b)
      BY <2>1 DEF Taken
    <3>4. (Looking /\ (work.change = "added" \/ candidates[work.file] # None) =>
             ~Taken(work.file, work.id.birth))'
      BY <2>2, <2>3, <3>1, <3>3
    <3> QED BY <2>1, <2>2, <3>2, <3>3, <3>4 DEF Capture, Untaken
  <2>5. Counted'
    <3>1. \A g \in File : batch[g] \notin Telling => batch'[g] \notin Telling
      BY <2>1 DEF Telling, Change
    <3>2. \A g \in File : candidates'[g] # None =>
             candidates'[g] = candidates[g] /\ known'[g] = known[g]
      BY <2>1
    <3> QED BY <2>1, <2>2, <3>1, <3>2 DEF Capture, Counted, Sure, Current, Remembered, Checking
  <2>6. Settled'
    <3>1. \A g \in File : /\ batch'[g] = "added" => batch[g] = "added"
                          /\ batch'[g] = "deleted" => batch[g] = "deleted"
      BY <2>1 DEF Change
    <3> QED BY <2>1, <2>2, <3>1 DEF Capture, Settled, Closed, Taken, Remembered
  <2> QED BY <2>4, <2>5, <2>6 DEF Capture
<1>4. ASSUME NEW f \in File, ScanDirectory(f) PROVE Capture'
  <2>1. /\ UNCHANGED <<disk, births, raw, memory, mon, todo, snapshot, history>>
        /\ todo = {} /\ f \in scans /\ scans' = scans \ {f}
        /\ \/ batch = Nothing /\ batch' = pending /\ pending' = Nothing
           \/ batch # Nothing /\ batch' = batch /\ pending' = pending
    BY <1>4 DEF ScanDirectory
  <2>2. /\ ~Checking'
        /\ Looking' => work'.file = f /\ work'.id = disk[f] /\ disk[f] # None
    BY <1>4 DEF ScanDirectory, Looking, Checking, Idle
  <2>3. ~Taken(f, births[f])
    BY <2>1 DEF Capture, Settled, Closed
  <2>4. Untaken'
    <3>1. Looking' => disk[f].birth = births[f]
      BY <2>2 DEF Identities
    <3> QED BY <2>1, <2>2, <2>3, <3>1 DEF Capture, Untaken, Taken
  <2>5. Counted'
    <3>1. \A g \in File : pending'[g] = None \/ (batch # Nothing /\ pending'[g] = pending[g])
      BY <2>1 DEF Nothing
    <3>2. \A g \in File : batch'[g] = batch[g] \/ (pending'[g] = None /\ batch'[g] = pending[g])
      BY <2>1 DEF Nothing
    <3>3. None \notin Telling
      BY DEF Telling, Change
    <3> QED BY <2>1, <2>2, <3>1, <3>2, <3>3 DEF Capture, Counted, Sure, Current, Remembered, Checking
  <2>6. Settled'
    <3>1. \A g \in File, e \in Change :
            batch[g] # e /\ pending[g] # e => batch'[g] # e /\ pending'[g] # e
      BY <2>1 DEF Nothing
    <3>2. {"added", "deleted"} \subseteq Change
      BY DEF Change
    <3>3. ASSUME NEW g \in File, Taken(g, births[g])' PROVE Closed(g)'
      <4>1. Closed(g) /\ g # f
        BY <2>1, <2>3, <3>3 DEF Capture, Settled, Taken
      <4> QED BY <2>1, <2>2, <3>1, <3>2, <4>1 DEF Closed, Remembered
    <3> QED BY <3>3 DEF Settled
  <2> QED BY <2>4, <2>5, <2>6 DEF Capture
<1> QED BY <1>1, <1>2, <1>3, <1>4

LEMMA EndEventCapture ==
  ASSUME TypeInv, Identities, Capture, EndEvent
  PROVE  Capture'
<1> USE Works, NoneAssumption DEF TypeInv, files, history
<1>1. PICK f \in File, id \in Identity : f = work.file /\ id = work.id /\ Looking
  BY DEF EndEvent, Looking
<1>2. /\ UNCHANGED <<disk, births, raw, scans, mon, pending, suppressed, snapshot, submitted>>
      /\ ~Looking' /\ ~Checking'
  BY DEF EndEvent, Looking, Checking, Idle
<1>3. \A g \in File : batch'[g] = batch[g] \/ batch'[g] = None
  BY <1>1 DEF EndEvent, Handled, TypeOK
<1>4. \A g \in File \ {f} : candidates'[g] = candidates[g] /\ known'[g] = known[g]
  BY <1>1 DEF EndEvent, Discover, TypeOK
<1>5. \/ candidates'[f] = candidates[f] /\ known'[f] = known[f]
      \/ candidates'[f] = None /\ work.change = "added"
      \/ /\ candidates'[f] = [last |-> id, checks |-> 0]
         /\ work.change = "added" \/ candidates[f] # None
  BY <1>1 DEF EndEvent, Discover, TypeOK
<1>6. f \in suppressed => candidates'[f] = None
  <2>1. f \in suppressed => candidates[f] = None
    BY DEF Capture, Untaken
  <2> QED BY <1>1, <2>1 DEF EndEvent, Discover, TypeOK
<1>7. \A g, b : Taken(g, b)' <=> Taken(g, b)
  BY <1>2 DEF Taken
<1>8. Untaken'
  <2>1. work.change = "added" \/ candidates[f] # None => ~Taken(f, id.birth)
    BY <1>1 DEF Capture, Untaken
  <2>2. candidates'[f] # None => ~Taken(f, candidates'[f].last.birth)
    BY <1>5, <2>1 DEF Capture, Untaken
  <2> QED BY <1>2, <1>4, <1>6, <1>7, <2>2 DEF Capture, Untaken
<1>9. Counted'
  <2>1. \A g \in File : batch[g] \notin Telling => batch'[g] \notin Telling
    BY <1>3 DEF Telling, Change
  <2>2. \A g \in File : candidates'[g] # None =>
          \/ candidates'[g] = candidates[g] /\ known'[g] = known[g]
          \/ candidates'[g].checks = 0
    BY <1>4, <1>5
  <2> QED BY <1>1, <1>2, <2>1, <2>2 DEF Capture, Counted, Sure, Current, Remembered, Checking
<1>10. Settled'
  <2>1. \A g \in File : /\ batch'[g] = "added" => batch[g] = "added"
                        /\ batch'[g] = "deleted" => batch[g] = "deleted"
    BY <1>3 DEF Change
  <2>2. ASSUME NEW g \in File, Taken(g, births[g])' PROVE Closed(g)'
    <3>1. Closed(g)
      BY <1>2, <1>7, <2>2 DEF Capture, Settled
    <3>2. candidates'[g] = candidates[g] /\ known'[g] = known[g]
      BY <1>1, <1>4, <1>5, <3>1 DEF Closed
    <3> QED BY <1>2, <2>1, <3>1, <3>2 DEF Closed, Remembered
  <2> QED BY <2>2 DEF Settled
<1> QED BY <1>8, <1>9, <1>10 DEF Capture

LEMMA BeginCheckCapture ==
  ASSUME TypeInv, Identities, Capture, NEW f \in File, NEW due \in BOOLEAN, BeginCheck(f, due)
  PROVE  Capture'
<1> USE Works, NoneAssumption DEF TypeInv, files, history
<1>1. /\ UNCHANGED <<disk, births, raw, scans, mon, pending, batch, suppressed, snapshot, submitted>>
      /\ work = Idle /\ f \in todo /\ todo' = todo \ {f} /\ batch = Nothing
  BY DEF BeginCheck, Phases
<1>2. \A g \in File : \/ candidates'[g] = candidates[g] /\ known'[g] = known[g]
                      \/ /\ candidates'[g] = None
                         /\ known'[g] = known[g] \/ disk[g] = None
  BY DEF BeginCheck, Forget, TypeOK
<1>3. ~Looking'
  BY DEF BeginCheck, Looking, Idle
<1>4. Checking' =>
        /\ f \notin suppressed /\ disk[f] # None
        /\ mon = "stopping" => candidates[f].checks >= Required - 1
        /\ SameContent(candidates[f].last, disk[f]) => raw[f] = {} /\ f \notin scans
        /\ work' = [step |-> "check", file |-> f, entry |-> Checked(candidates[f], disk[f])]
        /\ candidates' = candidates /\ known' = known
  BY DEF BeginCheck, Checking, Idle
<1>5. Checking' => work'.step = "check" /\ work'.file = f /\ work'.entry = Checked(candidates[f], disk[f])
  BY <1>4
<1>6. Checking' => /\ candidates[f] # None /\ ~Taken(f, births[f]) /\ disk[f].birth = births[f]
  <2>1. candidates[f] # None => ~Taken(f, births[f])
    BY DEF Capture, Settled, Closed
  <2> QED BY <1>1, <1>4, <2>1 DEF Phases, Identities
<1>7. \A g, b : Taken(g, b)' <=> Taken(g, b)
  BY <1>1 DEF Taken
<1>8. Untaken'
  <2>1. Checking' => work'.file = f /\ work'.entry.last = disk[f]
    BY <1>5 DEF Checked
  <2> QED BY <1>1, <1>2, <1>3, <1>6, <1>7, <2>1 DEF Capture, Untaken
<1>9. Checking' => Sure(f, Checked(candidates[f], disk[f]))
  <2> DEFINE c == candidates[f]
             entry == Checked(c, disk[f])
  <2> SUFFICES ASSUME Checking', entry.checks > 0 PROVE Sure(f, entry)
    BY DEF Sure
  <2>1. c \in Candidate /\ c # None /\ c.last \in Identity /\ c.checks \in 0..Required /\ disk[f] # None
    BY <1>4, <1>6 DEF TypeOK, Candidate
  <2>2. SameContent(c.last, disk[f])
    BY DEF Checked
  <2>3. raw[f] = {} /\ f \notin scans
    BY <1>4, <2>2
  <2>4. Current(f, c.last)
    BY <1>6, <2>1, <2>2 DEF SameContent, Current
  <2>5. entry.checks > 1 => c.checks > 0
    BY <2>1, MonitorAssumption DEF Checked
  <2>6. entry.checks > 1 => pending[f] \notin Telling /\ batch[f] \notin Telling
    <3>1. batch[f] \notin Telling
      BY <1>1 DEF Nothing, Telling, Change
    <3> QED BY <1>1, <2>1, <2>4, <2>5, <3>1 DEF Capture, Counted
  <2>7. mon \in {"running", "failed"} => SameFile(known[f], disk[f])
    BY <2>1, <2>4 DEF Identities, Truthful, SameFile
  <2>8. mon = "stopping" => SameFile(snapshot[f], disk[f])
    <3>1. mon = "stopping" => c.checks > 0
      BY <1>4, <2>1, MonitorAssumption
    <3> QED BY <2>1, <2>4, <3>1 DEF Capture, Counted, Sure, Remembered
  <2> QED BY <2>3, <2>6, <2>7, <2>8 DEF Sure, Remembered
<1>10. Counted'
  <2>1. Checking' => Sure(work.file, work.entry)'
    BY <1>1, <1>4, <1>5, <1>9 DEF Sure, Current, Remembered
  <2>2. \A g \in File : candidates'[g] # None => candidates'[g] = candidates[g]
    BY <1>2
  <2>3. \A g \in File : disk[g] # None => known'[g] = known[g] \/ candidates'[g] = None
    BY <1>2
  <2>4. work'.step # "submit"
    BY <1>5, <1>3 DEF Checking
  <2> QED BY <1>1, <1>3, <2>1, <2>2, <2>3, <2>4 DEF Capture, Counted, Sure, Current, Remembered
<1>11. Settled'
  <2> SUFFICES ASSUME NEW g \in File, Taken(g, births[g])' PROVE Closed(g)'
    BY DEF Settled
  <2>1. Taken(g, births[g]) /\ Closed(g)
    BY <1>1, <1>7 DEF Capture, Settled
  <2>2. Checking' => work'.file # g
    BY <1>5, <1>6, <2>1
  <2>3. candidates'[g] = None /\ (disk[g] # None => known'[g] = known[g])
    BY <1>2, <2>1 DEF Closed
  <2> QED BY <1>1, <1>3, <2>1, <2>2, <2>3 DEF Closed, Remembered
<1> QED BY <1>8, <1>10, <1>11 DEF Capture

LEMMA EndCheckCapture ==
  ASSUME TypeInv, Identities, Capture, EndCheck
  PROVE  Capture'
<1> USE Works, NoneAssumption DEF TypeInv, files, history
<1>1. PICK f \in File, entry \in Candidate : f = work.file /\ entry = work.entry /\ Checking
  BY DEF EndCheck, Checking
<1>2. /\ UNCHANGED <<disk, births, raw, scans, mon, pending, batch, todo, suppressed, snapshot, submitted>>
      /\ batch = Nothing /\ f \notin todo
  BY <1>1 DEF EndCheck, Phases
<1>3. /\ known'[f] = entry.last
      /\ candidates'[f] = None \/ (candidates[f] # None /\ candidates'[f] = entry)
      /\ \A g \in File \ {f} : candidates'[g] = candidates[g] /\ known'[g] = known[g]
  BY <1>1 DEF EndCheck, TypeOK
<1>4. \/ work' = Idle
      \/ entry.checks >= Required /\ work' = [work EXCEPT !.step = "submit"]
  BY <1>1, MonitorAssumption DEF EndCheck, Candidate
<1>5. /\ ~Looking'
      /\ Checking' => work'.file = f /\ work'.entry = entry /\ entry.checks = Required
      /\ work'.step = "submit" => Checking'
  BY <1>1, <1>4, MonitorAssumption DEF Looking, Checking, Idle, Candidate
<1>6. \A g, b : Taken(g, b)' <=> Taken(g, b)
  BY <1>2 DEF Taken
<1>7. ~Taken(f, entry.last.birth) /\ Sure(f, entry) /\ Truthful(f, entry.last)
  BY <1>1 DEF Capture, Untaken, Counted, Identities
<1>8. Untaken'
  BY <1>2, <1>3, <1>5, <1>6, <1>7 DEF Capture, Untaken
<1>9. Sure(f, entry)'
  <2>1. Current(f, entry.last) => SameFile(entry.last, disk[f])
    BY <1>7 DEF Truthful, SameFile, Candidate
  <2> QED BY <1>2, <1>3, <1>7, <2>1 DEF Sure, Current, Remembered
<1>10. Counted'
  <2>1. \A g \in File \ {f} : candidates'[g] # None => Sure(g, candidates[g])'
    BY <1>2, <1>3 DEF Capture, Counted, Sure, Current, Remembered
  <2>2. candidates'[f] # None => Sure(f, candidates[f])'
    BY <1>3, <1>9 DEF Sure, Current, Remembered
  <2>3. Checking' => Sure(work.file, work.entry)'
    BY <1>5, <1>9 DEF Sure, Current, Remembered
  <2>4. \A g \in File : candidates'[g] # None => 
          ~(batch' # Nothing \/ g \in todo' \/ Looking') \/ (g # f /\ g \in todo)
    BY <1>2, <1>5
  <2>5. \A g \in File \ {f} : candidates'[g] # None /\ g \in todo =>
          (Current(g, candidates[g].last) /\ candidates[g].checks > 0 => pending[g] \notin Telling)
    BY <1>3 DEF Capture, Counted
  <2>6. \A g \in File : candidates'[g] # None =>
          (Current(g, candidates[g].last) /\ candidates[g].checks > 0 =>
             (batch # Nothing \/ g \in todo \/ Looking => pending[g] \notin Telling))'
    BY <1>2, <1>3, <2>4, <2>5 DEF Current
  <2> QED BY <1>5, <2>1, <2>2, <2>3, <2>6 DEF Counted
<1>11. Settled'
  <2> SUFFICES ASSUME NEW g \in File, Taken(g, births[g])' PROVE Closed(g)'
    BY DEF Settled
  <2>1. Closed(g)
    BY <1>2, <1>6 DEF Capture, Settled
  <2>2. g # f
    BY <1>1, <2>1 DEF Closed
  <2> QED BY <1>2, <1>3, <1>5, <2>1, <2>2 DEF Closed, Remembered
<1> QED BY <1>8, <1>10, <1>11 DEF Capture

(* A birth that is counted had not been counted, and is the only one.      *)
LEMMA Counting ==
  ASSUME TypeInv, Identities, Capture, work.step = "submit", Count(work.entry, work.file),
         births' = births
  PROVE  /\ \A f \in File, b \in 0..MaxBirths :
              /\ submitted'[<<f, b>>] <= IF b = 0 THEN 0 ELSE 1
              /\ b > births'[f] => submitted'[<<f, b>>] = 0
         /\ \A f \in File, b \in 0..MaxBirths :
              Taken(f, b)' => \/ Taken(f, b)
                              \/ f = work.file /\ b = work.entry.last.birth
         /\ Sure(work.file, work.entry) /\ work.entry.checks = Required /\ Required > 1
<1> USE Works DEF TypeInv
<1>1. PICK f \in File, entry \in Candidate : f = work.file /\ entry = work.entry /\ Checking
  BY DEF Checking
<1> DEFINE c == entry.last.birth
<1>2. c \in 0..MaxBirths /\ c \in Nat /\ c <= births[f] /\ ~Taken(f, c) /\ births[f] \in Nat
  BY <1>1, MonitorAssumption DEF Candidate, Identity, Capture, Untaken, Identities, Truthful, TypeOK
<1>3. submitted[<<f, c>>] = 0 /\ c # 0
  BY <1>2 DEF Taken, TypeOK
<1>4. /\ submitted'[<<f, c>>] = 1
      /\ \A g \in File, b \in 0..MaxBirths :
           g # f \/ b # c => submitted'[<<g, b>>] = submitted[<<g, b>>]
  BY <1>1, <1>2, <1>3 DEF Count, TypeOK
<1>5. \A g \in File, b \in 0..MaxBirths :
        /\ submitted'[<<g, b>>] <= IF b = 0 THEN 0 ELSE 1
        /\ b > births'[g] => submitted'[<<g, b>>] = 0
  <2> TAKE g \in File, b \in 0..MaxBirths
  <2>1. CASE g = f /\ b = c
    BY <1>2, <1>3, <1>4, <2>1
  <2>2. CASE g # f \/ b # c
    BY <1>4, <2>2 DEF Capture, Untaken
  <2> QED BY <2>1, <2>2
<1>6. \A g \in File, b \in 0..MaxBirths : Taken(g, b)' => Taken(g, b) \/ (g = f /\ b = c)
  BY <1>4 DEF Taken
<1> QED BY <1>1, <1>5, <1>6, MonitorAssumption DEF Capture, Counted

LEMMA AcceptCapture ==
  ASSUME TypeInv, Identities, Capture, Accept
  PROVE  Capture'
<1> USE Works, NoneAssumption DEF TypeInv, files, history
<1>1. PICK f \in File, entry \in Candidate : f = work.file /\ entry = work.entry /\ Checking
  BY DEF Accept, Checking
<1>2. /\ UNCHANGED <<disk, births, raw, scans, mon, pending, batch, todo, known, suppressed, snapshot>>
      /\ ~Looking' /\ ~Checking' /\ disk[f] # None /\ Alive /\ work'.step # "submit"
      /\ candidates'[f] = None
      /\ \A g \in File \ {f} : candidates'[g] = candidates[g]
      /\ ~Looking
  BY <1>1 DEF Accept, Looking, Checking, Idle, TypeOK
<1>3. /\ \A g \in File, b \in 0..MaxBirths :
           /\ submitted'[<<g, b>>] <= IF b = 0 THEN 0 ELSE 1
           /\ b > births'[g] => submitted'[<<g, b>>] = 0
      /\ \A g \in File, b \in 0..MaxBirths :
           Taken(g, b)' => Taken(g, b) \/ (g = f /\ b = entry.last.birth)
      /\ Sure(f, entry) /\ entry.checks = Required /\ Required > 1
  BY <1>1, <1>2, Counting DEF Accept
<1>4. Untaken'
  <2>1. ASSUME NEW g \in File, candidates'[g] # None PROVE ~Taken(g, candidates[g].last.birth)'
    <3>1. g # f /\ candidates'[g] = candidates[g] /\ candidates[g].last.birth \in 0..MaxBirths
      BY <1>2, <2>1 DEF TypeOK, Candidate, Identity
    <3>2. ~Taken(g, candidates[g].last.birth)
      BY <1>2, <2>1, <3>1 DEF Capture, Untaken
    <3> QED BY <1>3, <3>1, <3>2 DEF Taken
  <2> QED BY <1>2, <1>3, <2>1 DEF Capture, Untaken
<1>5. Counted'
  <2>1. \A g \in File : candidates'[g] # None => candidates'[g] = candidates[g]
    BY <1>2
  <2> QED BY <1>2, <2>1 DEF Capture, Counted, Sure, Current, Remembered
<1>6. Settled'
  <2> SUFFICES ASSUME NEW g \in File, Taken(g, births[g])' PROVE Closed(g)'
    BY DEF Settled
  <2>1. Taken(g, births[g])' => Taken(g, births[g]) \/ (g = f /\ births[g] = entry.last.birth)
    <3>1. births' = births /\ births[g] \in 0..MaxBirths
      BY <1>2 DEF TypeOK
    <3> QED BY <1>3, <3>1 DEF Taken
  <2>2. CASE Taken(g, births[g])
    BY <1>2, <2>2 DEF Capture, Settled, Closed, Remembered
  <2>3. CASE g = f /\ births[g] = entry.last.birth
    <3>1. raw[f] \cap Telling = {} /\ f \notin scans /\ pending[f] \notin Telling /\ batch[f] \notin Telling
          /\ Remembered(f)
      <4>1. entry.checks > 1 /\ entry.checks > 0 /\ Current(f, entry.last)
        BY <1>2, <1>3, <2>3, MonitorAssumption DEF Current
      <4> QED BY <1>3, <4>1 DEF Sure
    <3> QED BY <1>2, <2>3, <3>1 DEF Closed, Telling, Remembered, Alive
  <2> QED BY <2>1, <2>2, <2>3
<1> QED BY <1>4, <1>5, <1>6 DEF Capture

LEMMA ReloadCapture ==
  ASSUME TypeInv, Identities, Capture,
         StartWatcher \/ TakeBaseline \/ NotStarted \/ Fail \/ BeginReload \/ EndStop
  PROVE  Capture'
<1> USE Works, NoneAssumption DEF TypeInv, files, memory, control, history, Looking, Checking
<1>1. CASE StartWatcher \/ NotStarted
  <2>1. /\ UNCHANGED <<disk, births, raw, scans, pending, batch, todo, work, known, candidates, suppressed, submitted>>
        /\ mon = "off" /\ (mon' = "off" \/ mon' = "starting")
        /\ snapshot' = snapshot \/ snapshot' = None
        /\ candidates = Nothing /\ work = Idle
    BY <1>1 DEF StartWatcher, NotStarted, Phases
  <2>2. Untaken'
    BY <2>1 DEF Capture, Untaken, Taken
  <2>3. Counted'
    BY <2>1 DEF Counted, Nothing, Idle
  <2>4. Settled'
    BY <2>1 DEF Capture, Settled, Closed, Taken, Remembered
  <2> QED BY <2>2, <2>3, <2>4 DEF Capture
<1>2. CASE TakeBaseline
  <2>1. /\ UNCHANGED <<disk, births, raw, scans, pending, batch, todo, work, suppressed, submitted>>
        /\ mon = "starting" /\ mon' = "running" /\ known' = disk
        /\ candidates = Nothing /\ work = Idle
    BY <1>2 DEF TakeBaseline, Phases
  <2>2. ASSUME NEW f \in File, candidates'[f] # None
        PROVE  /\ candidates'[f].last = disk[f] /\ candidates'[f].checks = 0
               /\ disk[f] # None /\ f \notin suppressed
               /\ ~SameFile(snapshot[f], disk[f]) /\ snapshot # None
    <3>1. /\ f \in Recovered \ suppressed /\ snapshot # None
          /\ candidates'[f] = [last |-> disk[f], checks |-> 0]
      BY <1>2, <2>1, <2>2 DEF TakeBaseline, Nothing
    <3> QED BY <3>1 DEF Recovered
  <2>3. \A f \in File : candidates'[f] # None => ~Taken(f, births[f]) /\ disk[f].birth = births[f]
    BY <2>1, <2>2 DEF Capture, Settled, Closed, Identities
  <2>4. Untaken'
    <3>1. ASSUME NEW f \in File, candidates'[f] # None
          PROVE  ~Taken(f, candidates[f].last.birth)' /\ f \notin suppressed
      BY <2>1, <2>3, <2>2, <3>1 DEF Taken
    <3>2. ~Looking' /\ ~Checking'
      BY <2>1
    <3> QED BY <2>1, <3>1, <3>2 DEF Capture, Untaken
  <2>5. Counted'
    <3>1. \A f \in File : candidates'[f] # None => ~(candidates'[f].checks > 0)
      BY <2>2
    <3>2. ~Looking' /\ ~Checking' /\ work'.step # "submit"
      BY <2>1
    <3> QED BY <3>1, <3>2 DEF Counted, Sure
  <2>6. Settled'
    <3>1. \A f \in File : disk[f] # None => SameFile(disk[f], disk[f])
      BY DEF SameFile
    <3> QED BY <2>1, <2>3, <3>1 DEF Capture, Settled, Closed, Taken, Remembered, Idle
  <2> QED BY <2>4, <2>5, <2>6 DEF Capture
<1>3. CASE Fail \/ BeginReload
  <2>1. /\ UNCHANGED <<disk, births, pending, batch, todo, work, known, candidates, suppressed, submitted>>
        /\ \A f \in File : raw'[f] = {} /\ f \notin scans'
        /\ \/ mon = "running" /\ mon' = "failed" /\ snapshot' = snapshot
           \/ mon \in {"running", "failed"} /\ mon' = "stopping" /\ snapshot' = known
    BY <1>3 DEF Fail, BeginReload
  <2>2. Untaken'
    BY <2>1 DEF Capture, Untaken, Taken
  <2>3. \A f \in File : Remembered(f) => Remembered(f)'
    BY <2>1 DEF Remembered
  <2>4. Counted'
    BY <2>1, <2>3 DEF Capture, Counted, Sure, Current, Remembered
  <2>5. Settled'
    BY <2>1, <2>3 DEF Capture, Settled, Closed, Taken, Remembered
  <2> QED BY <2>2, <2>4, <2>5 DEF Capture
<1>4. CASE EndStop
  <2>1. /\ UNCHANGED <<disk, births, raw, scans, snapshot>>
        /\ mon = "stopping" /\ mon' = "off" /\ suppressed' = {}
        /\ \A f \in File : pending'[f] = None /\ batch'[f] = None /\ candidates'[f] = None
        /\ work' = Idle /\ raw = [f \in File |-> {}] /\ scans = {}
    BY <1>4 DEF EndStop, Nothing, Phases, Watching
  <2>2. CASE submitted' = submitted
    <3>1. Untaken'
      BY <2>1, <2>2 DEF Capture, Untaken, Taken, Idle
    <3>2. Counted'
      BY <2>1 DEF Counted, Idle
    <3>3. Settled'
      BY <2>1, <2>2 DEF Capture, Settled, Closed, Taken, Remembered, Idle, Change
    <3> QED BY <3>1, <3>2, <3>3 DEF Capture
  <2>3. CASE work.step = "submit" /\ Count(work.entry, work.file)
    <3>1. /\ \A g \in File, b \in 0..MaxBirths :
               /\ submitted'[<<g, b>>] <= IF b = 0 THEN 0 ELSE 1
               /\ b > births'[g] => submitted'[<<g, b>>] = 0
          /\ \A g \in File, b \in 0..MaxBirths :
               Taken(g, b)' => Taken(g, b) \/ (g = work.file /\ b = work.entry.last.birth)
          /\ Sure(work.file, work.entry) /\ work.entry.checks = Required /\ Required > 1
      BY <2>1, <2>3, Counting
    <3>2. Untaken'
      BY <2>1, <3>1 DEF Untaken, Idle
    <3>3. Counted'
      BY <2>1 DEF Counted, Idle
    <3>4. ASSUME NEW g \in File, Taken(g, births[g])', disk[g] # None
          PROVE  SameFile(snapshot[g], disk[g])
      <4>1. Taken(g, births[g]) \/ (g = work.file /\ births[g] = work.entry.last.birth)
        <5>1. births' = births /\ births[g] \in 0..MaxBirths
          BY <2>1 DEF TypeOK
        <5> QED BY <3>1, <3>4, <5>1 DEF Taken
      <4>2. CASE Taken(g, births[g])
        BY <2>1, <3>4, <4>2 DEF Capture, Settled, Closed, Remembered
      <4>3. CASE g = work.file /\ births[g] = work.entry.last.birth
        <5>1. work.entry.checks > 0 /\ Current(work.file, work.entry.last)
          BY <3>1, <3>4, <4>3, MonitorAssumption DEF Current
        <5> QED BY <2>1, <3>1, <4>3, <5>1 DEF Sure, Remembered
      <4> QED BY <4>1, <4>2, <4>3
    <3>5. Settled'
      BY <2>1, <3>4 DEF Settled, Closed, Remembered, Idle, Change
    <3> QED BY <3>2, <3>3, <3>5 DEF Capture
  <2> QED BY <1>4, <2>2, <2>3 DEF EndStop
<1> QED BY <1>1, <1>2, <1>3, <1>4

-----------------------------------------------------------------------------
(* A file is submitted once at most, and never if it was there before the  *)
(* service, whatever the watcher reports, in whatever order, and whatever  *)
(* a reload or a failure meets.                                            *)
THEOREM FilesAreCapturedOnce == Spec => []CapturedOnce
<1> DEFINE Inv == TypeInv /\ Identities /\ Capture
<1>1. Init => Inv
  BY TypesInit, PhasesInit, IdentitiesInit, CaptureInit DEF TypeInv
<1>2. Inv /\ TypeInv' /\ [Next]_vars => Inv'
  <2> SUFFICES ASSUME Inv, TypeInv', [Next]_vars PROVE Inv'
    OBVIOUS
  <2>1. CASE UNCHANGED vars
    <3> USE <2>1 DEF vars, files, memory, control, history, Looking, Checking
    <3>1. Identities'
      BY DEF Identities, Truthful, Current
    <3>2. Untaken'
      BY DEF Capture, Untaken, Taken
    <3>3. Counted'
      BY DEF Capture, Counted, Sure, Current, Remembered
    <3>4. Settled'
      BY DEF Capture, Settled, Closed, Taken, Remembered
    <3> QED BY <3>1, <3>2, <3>3, <3>4 DEF Capture
  <2>2. ASSUME NEW f \in File,
               Create(f) \/ Write(f) \/ Unlink(f) \/ Publish(f) \/ Suppress(f) \/ Unsuppress(f)
        PROVE  Inv'
    BY <2>2, FileIdentities, CreateCapture, FileCapture
  <2>3. CASE Coordinate
    <3>1. Identities'
      BY <2>3, CoordinateIdentities
    <3>2. Capture'
      BY <2>3, PassCapture, EndEventCapture, BeginCheckCapture, EndCheckCapture, AcceptCapture
         DEF Coordinate
    <3> QED BY <3>1, <3>2
  <2>4. CASE StartWatcher \/ TakeBaseline \/ NotStarted \/ Fail \/ BeginReload \/ EndStop
    BY <2>4, ReloadIdentities, ReloadCapture
  <2> QED BY <2>1, <2>2, <2>3, <2>4 DEF Next
<1>3. Inv => CapturedOnce
  BY DEF Capture, Untaken, CapturedOnce
<1> QED BY <1>1, <1>2, <1>3, TypeCorrect, PTL DEF Spec

-----------------------------------------------------------------------------
(* METADATA SELECTION.  The rest of the module is about MetadataSelection,  *)
(* for all texts, files, configurations, sources and answers.               *)

(* The element of a set of one. *)
LEMMA TheOne == \A x : The({x}) = x
BY DEF The

(* A set of numbers that is not empty has a least one. *)
LEMMA LeastOf ==
  ASSUME NEW I \in SUBSET Nat, I # {}
  PROVE  \E i \in I : \A k \in I : i <= k
<1> DEFINE Below == OpToRel(<, Nat)
<1>1. IsWellFoundedOn(Below, Nat)
  BY NatLessThanWellFounded
<1>2. \A i, k \in Nat : k < i => <<k, i>> \in Below
  BY DEF OpToRel
<1> HIDE DEF Below
<1>3. PICK i \in I : \A k \in I : ~ (<<k, i>> \in Below)
  BY <1>1, WFMin, Zenon
<1>4. \A k \in I : i <= k
  <2> TAKE k \in I
  <2>1. i \in Nat /\ k \in Nat
    OBVIOUS
  <2>2. ~ (k < i)
    BY <2>1, <1>2, <1>3, Zenon
  <2> QED
    BY <2>1, <2>2
<1> QED
  BY <1>4

Places(n) == [1..n -> Int]

(* Places of one length are in a strict order, and any two are comparable. *)
LEMMA NoneAboveItself ==
  ASSUME NEW n \in Nat, NEW k \in Places(n)
  PROVE  ~Above(k, k)
BY DEF Above, Places

(* What is above in the order of tuples is above what that is above.        *)
LEMMA AboveIsTransitive ==
  ASSUME NEW n \in Nat, NEW k \in Places(n), NEW l \in Places(n), NEW m \in Places(n),
         Above(k, l), Above(l, m)
  PROVE  Above(k, m)
<1>1. PICK i \in 1..n : k[i] > l[i] /\ \A j \in 1..(i - 1) : k[j] = l[j]
  BY DEF Above, Places
<1>2. PICK h \in 1..n : l[h] > m[h] /\ \A j \in 1..(h - 1) : l[j] = m[j]
  BY DEF Above, Places
<1>3. k[i] \in Int /\ l[i] \in Int /\ m[i] \in Int /\ k[h] \in Int /\ l[h] \in Int /\ m[h] \in Int
  BY DEF Places
<1>4. CASE i < h
  <2>1. k[i] > m[i] /\ \A j \in 1..(i - 1) : k[j] = m[j]
    BY <1>1, <1>2, <1>3, <1>4
  <2> QED
    BY <2>1 DEF Above, Places
<1>5. CASE h <= i
  <2>1. k[h] > m[h] /\ \A j \in 1..(h - 1) : k[j] = m[j]
    <3>1. CASE h = i
      BY <1>1, <1>2, <1>3, <3>1
    <3>2. CASE h < i
      BY <1>1, <1>2, <1>3, <3>2
    <3> QED
      BY <1>5, <3>1, <3>2
  <2> QED
    BY <2>1 DEF Above, Places
<1> QED
  BY <1>4, <1>5

(* Of two different tuples one is above the other.                          *)
LEMMA AboveIsTotal ==
  ASSUME NEW n \in Nat, NEW k \in Places(n), NEW l \in Places(n), k # l
  PROVE  Above(k, l) \/ Above(l, k)
<1> DEFINE Differ == {i \in 1..n : k[i] # l[i]}
<1>1. Differ # {}
  BY DEF Places
<1>2. PICK i \in Differ : \A j \in Differ : i <= j
  <2>1. Differ \in SUBSET Nat
    OBVIOUS
  <2> HIDE DEF Differ
  <2> QED
    BY <1>1, <2>1, LeastOf
<1>3. \A j \in 1..(i - 1) : k[j] = l[j]
  BY <1>2
<1>4. k[i] \in Int /\ l[i] \in Int /\ k[i] # l[i] /\ i \in 1..n
  BY DEF Places
<1>5. k[i] > l[i] \/ l[i] > k[i]
  BY <1>4
<1> QED
  BY <1>3, <1>4, <1>5 DEF Above, Places

(* A strict order on a finite set has a minimal element: one with as few    *)
(* others below it as any.                                                  *)
LEMMA MinimalElement ==
  ASSUME NEW E, IsFiniteSet(E), E # {}, NEW R,
         \A d \in E : <<d, d>> \notin R,
         \A c, d, e \in E : <<c, d>> \in R /\ <<d, e>> \in R => <<c, e>> \in R
  PROVE  \E e \in E : \A d \in E : <<d, e>> \notin R
<1> DEFINE Below(e) == {d \in E : <<d, e>> \in R}
           Counts == {Cardinality(Below(e)) : e \in E}
<1>1. \A e \in E : IsFiniteSet(Below(e)) /\ Cardinality(Below(e)) \in Nat
  BY FS_Subset, FS_CardinalityType
<1>2. Counts \in SUBSET Nat /\ Counts # {}
  <2>1. \A e \in E : Cardinality(Below(e)) \in Nat
    BY <1>1
  <2> HIDE DEF Below
  <2> QED
    BY <2>1
<1>3. PICK m \in Counts : \A k \in Counts : m <= k
  <2> HIDE DEF Counts
  <2> QED
    BY <1>2, LeastOf
<1>4. PICK e \in E : m = Cardinality(Below(e))
  OBVIOUS
<1>5. ASSUME NEW d \in E, <<d, e>> \in R
      PROVE  FALSE
  <2>1. Below(d) \subseteq Below(e) /\ d \in Below(e) /\ d \notin Below(d)
    BY <1>5
  <2>2. Cardinality(Below(d)) <= Cardinality(Below(e)) /\ Cardinality(Below(d)) # Cardinality(Below(e))
    BY <1>1, <2>1, FS_Subset
  <2>3. Cardinality(Below(d)) < Cardinality(Below(e))
    BY <1>1, <2>2
  <2> HIDE DEF Below
  <2>4. m <= Cardinality(Below(d))
    BY <1>3
  <2> QED
    BY <1>1, <1>4, <2>3, <2>4
<1> QED
  BY <1>5

Standing(E, R) == [e \in E |-> Cardinality({d \in E : <<d, e>> \in R})]

(* In a total one, each number from 0 up to the size less one counts what   *)
(* is below some element, and of one element only.                          *)
LEMMA Ranks ==
  ASSUME NEW E, IsFiniteSet(E), NEW R,
         \A d \in E : <<d, d>> \notin R,
         \A c, d, e \in E : <<c, d>> \in R /\ <<d, e>> \in R => <<c, e>> \in R,
         \A d, e \in E : d # e => <<d, e>> \in R \/ <<e, d>> \in R
  PROVE  /\ Standing(E, R) \in [E -> 0..(Cardinality(E) - 1)]
         /\ \A d, e \in E : Standing(E, R)[d] = Standing(E, R)[e] => d = e
         /\ \A j \in 0..(Cardinality(E) - 1) : \E e \in E : Standing(E, R)[e] = j
<1> DEFINE Below(e) == {d \in E : <<d, e>> \in R}
<1>1. Cardinality(E) \in Nat
  BY FS_CardinalityType
<1>2. ASSUME NEW e \in E
      PROVE  IsFiniteSet(Below(e)) /\ Cardinality(Below(e)) \in Nat /\ Cardinality(Below(e)) < Cardinality(E)
  <2>1. Below(e) \subseteq E /\ Below(e) # E
    BY DEF Below
  <2>2. IsFiniteSet(Below(e)) /\ Cardinality(Below(e)) <= Cardinality(E) /\ Cardinality(Below(e)) # Cardinality(E)
    BY <2>1, FS_Subset
  <2>3. Cardinality(Below(e)) \in Nat
    BY <2>2, FS_CardinalityType
  <2> QED
    BY <1>1, <2>2, <2>3
<1>3. \A e \in E : Standing(E, R)[e] = Cardinality(Below(e))
  BY DEF Standing
<1>4. Standing(E, R) \in [E -> 0..(Cardinality(E) - 1)]
  <2>1. \A e \in E : Cardinality(Below(e)) \in 0..(Cardinality(E) - 1)
    <3> HIDE DEF Below
    <3> QED
      BY <1>1, <1>2
  <2> QED
    BY <2>1 DEF Standing
<1>5. ASSUME NEW d \in E, NEW e \in E, <<d, e>> \in R
      PROVE  Standing(E, R)[d] # Standing(E, R)[e]
  <2>1. Below(d) \subseteq Below(e) /\ d \in Below(e) /\ d \notin Below(d)
    BY <1>5
  <2>2. Cardinality(Below(d)) # Cardinality(Below(e))
    BY <1>2, <2>1, FS_Subset
  <2> QED
    BY <1>3, <2>2
<1>6. \A d, e \in E : Standing(E, R)[d] = Standing(E, R)[e] => d = e
  BY <1>5
<1>7. IsFiniteSet(0..(Cardinality(E) - 1)) /\ Cardinality(0..(Cardinality(E) - 1)) = Cardinality(E)
  <2>1. 0 \in Int /\ Cardinality(E) - 1 \in Int
    BY <1>1
  <2>2. /\ IsFiniteSet(0..(Cardinality(E) - 1))
        /\ Cardinality(0..(Cardinality(E) - 1)) =
             IF 0 > Cardinality(E) - 1 THEN 0 ELSE (Cardinality(E) - 1) - 0 + 1
    BY <2>1, FS_Interval, Zenon
  <2> QED
    BY <1>1, <2>2
<1>8. Standing(E, R) \in Injection(E, 0..(Cardinality(E) - 1))
  BY <1>4, <1>6 DEF Injection, IsInjective
<1>9. Standing(E, R) \in Surjection(E, 0..(Cardinality(E) - 1))
  BY <1>7, <1>8, FS_Injection
<1> QED
  BY <1>4, <1>6, <1>9 DEF Surjection

(* The image of a finite set is finite.                                     *)
LEMMA FiniteImage ==
  ASSUME NEW E, IsFiniteSet(E), NEW f
  PROVE  IsFiniteSet({f[e] : e \in E})
<1> DEFINE g == [e \in E |-> f[e]]
           I == {f[e] : e \in E}
<1>1. g \in Surjection(E, I)
  BY DEF Surjection
<1> HIDE DEF g, I
<1>2. IsFiniteSet(I)
  BY <1>1, FS_Surjection
<1> QED
  BY <1>2 DEF I

(* Entries of finite number, whose places are of one length and differ.     *)
Entries(E, n) ==
  /\ IsFiniteSet(E) /\ n \in Nat
  /\ \A e \in E : e.at \in Places(n)
  /\ \A d, e \in E : d.at = e.at => d = e

(* In order, they are their contents.                                       *)
LEMMA InOrderIsAll ==
  ASSUME NEW E, NEW n, Entries(E, n), NEW T, \A e \in E : e.x \in T
  PROVE  /\ InOrder(E) \in [1..Cardinality(E) -> T]
         /\ \A e \in E : \E j \in 1..Cardinality(E) : InOrder(E)[j] = e.x
<1> DEFINE R == {p \in E \X E : Above(p[2].at, p[1].at)}
           rank == Standing(E, R)
<1>1. \A d \in E : <<d, d>> \notin R
  BY NoneAboveItself DEF Entries
<1>2. \A c, d, e \in E : <<c, d>> \in R /\ <<d, e>> \in R => <<c, e>> \in R
  BY AboveIsTransitive DEF Entries
<1>3. \A d, e \in E : d # e => <<d, e>> \in R \/ <<e, d>> \in R
  BY AboveIsTotal DEF Entries
<1>4. \A e \in E : Cardinality(Before(E, e)) = rank[e]
  <2> TAKE e \in E
  <2>1. Before(E, e) = {d \in E : <<d, e>> \in R}
    BY DEF Before
  <2> QED
    BY <2>1 DEF Standing
<1>5. Cardinality(E) \in Nat
  BY FS_CardinalityType DEF Entries
<1>6. /\ rank \in [E -> 0..(Cardinality(E) - 1)]
      /\ \A d, e \in E : rank[d] = rank[e] => d = e
      /\ \A j \in 0..(Cardinality(E) - 1) : \E e \in E : rank[e] = j
  <2>1. IsFiniteSet(E)
    BY DEF Entries
  <2> HIDE DEF R
  <2> QED
    BY <1>1, <1>2, <1>3, <2>1, Ranks
<1> HIDE DEF R, rank
<1>7. InOrder(E) = [j \in 1..Cardinality(E) |-> (CHOOSE e \in E : Cardinality(Before(E, e)) = j - 1).x]
  BY DEF InOrder
<1>8. ASSUME NEW e \in E, NEW j \in 1..Cardinality(E), rank[e] = j - 1
      PROVE  InOrder(E)[j] = e.x
  <2>1. Cardinality(Before(E, e)) = j - 1
    BY <1>4, <1>8
  <2>2. \A d \in E : Cardinality(Before(E, d)) = j - 1 => d = e
    BY <1>4, <1>6, <1>8
  <2>3. (CHOOSE d \in E : Cardinality(Before(E, d)) = j - 1) = e
    BY <2>1, <2>2
  <2> QED
    BY <1>7, <2>3
<1>9. \A j \in 1..Cardinality(E) : \E e \in E : rank[e] = j - 1
  <2> TAKE j \in 1..Cardinality(E)
  <2>1. j - 1 \in 0..(Cardinality(E) - 1)
    BY <1>5
  <2> QED
    BY <1>6, <2>1
<1>10. \A j \in 1..Cardinality(E) : InOrder(E)[j] \in T
  BY <1>8, <1>9
<1>11. InOrder(E) \in [1..Cardinality(E) -> T]
  BY <1>7, <1>10
<1>12. \A e \in E : \E j \in 1..Cardinality(E) : InOrder(E)[j] = e.x
  <2> TAKE e \in E
  <2>1. rank[e] + 1 \in 1..Cardinality(E) /\ rank[e] = (rank[e] + 1) - 1
    BY <1>5, <1>6
  <2> QED
    BY <1>8, <2>1
<1> QED
  BY <1>11, <1>12

(* An entry that comes first of those with its key is kept for each key.    *)
LEMMA KeptHasEveryKey ==
  ASSUME NEW E, NEW n, Entries(E, n)
  PROVE  /\ Entries(Kept(E), n) /\ Kept(E) \subseteq E
         /\ \A e \in E : \E d \in Kept(E) : d.key = e.key
<1>1. Kept(E) \subseteq E
  BY DEF Kept
<1>2. Entries(Kept(E), n)
  BY <1>1, FS_Subset DEF Entries
<1>3. ASSUME NEW e \in E
      PROVE  \E d \in Kept(E) : d.key = e.key
  <2> DEFINE Same == {d \in E : d.key = e.key}
             R == {p \in E \X E : Above(p[2].at, p[1].at)}
  <2>1. Same \subseteq E /\ IsFiniteSet(Same) /\ Same # {}
    BY FS_Subset DEF Entries
  <2>2. \A d \in Same : <<d, d>> \notin R
    BY NoneAboveItself DEF Entries
  <2>3. \A b, c, d \in Same : <<b, c>> \in R /\ <<c, d>> \in R => <<b, d>> \in R
    BY AboveIsTransitive DEF Entries
  <2>4. PICK d \in Same : \A c \in Same : <<c, d>> \notin R
    <3> HIDE DEF Same, R
    <3> QED
      BY <2>1, <2>2, <2>3, MinimalElement
  <2>5. d \in Kept(E)
    BY <2>4 DEF Kept, Before
  <2> QED
    BY <2>5
<1> QED
  BY <1>1, <1>2, <1>3

(* Firsts lists entries: contents of entries only, and every key of one.    *)
LEMMA FirstsAreKept ==
  ASSUME NEW E, NEW n, Entries(E, n), NEW T, \A e \in E : e.x \in T
  PROVE  /\ \E m \in Nat : Firsts(E) \in [1..m -> T]
         /\ \A e \in E : \E d \in E : d.key = e.key /\ d.x \in ToSet(Firsts(E))
<1>1. Firsts(E) = InOrder(Kept(E))
  BY TheOne DEF Firsts
<1>2. Cardinality(Kept(E)) \in Nat
  BY KeptHasEveryKey, FS_CardinalityType DEF Entries
<1>3. /\ InOrder(Kept(E)) \in [1..Cardinality(Kept(E)) -> T]
      /\ \A e \in Kept(E) : \E j \in 1..Cardinality(Kept(E)) : InOrder(Kept(E))[j] = e.x
  <2>1. Entries(Kept(E), n) /\ \A e \in Kept(E) : e.x \in T
    BY KeptHasEveryKey
  <2> QED
    BY <2>1, InOrderIsAll
<1>4. \A e \in Kept(E) : e.x \in ToSet(Firsts(E))
  BY <1>1, <1>3 DEF ToSet
<1> QED
  BY <1>1, <1>2, <1>3, <1>4, KeptHasEveryKey

-----------------------------------------------------------------------------
(* Candidates *)

(* What is collected are the candidates of both lists, one of each key.     *)
LEMMA GatherKeepsKeys ==
  ASSUME NEW T, NEW old \in Seq(T), NEW new \in Seq(T)
  PROVE  /\ Gather(old, new) \in Seq(T)
         /\ \A c \in ToSet(old) \cup ToSet(new) :
              \E d \in ToSet(Gather(old, new)) :
                CandidateKey(d) = CandidateKey(c) /\ d \in ToSet(old) \cup ToSet(new)
<1> DEFINE Old == {Entered(<<1, i>>, CandidateKey(old[i]), old[i]) : i \in DOMAIN old}
           New == {Entered(<<2, i>>, CandidateKey(new[i]), new[i]) : i \in DOMAIN new}
<1>1. \A e \in Old : \E i \in DOMAIN old : e = [at |-> <<1, i>>, key |-> CandidateKey(old[i]), x |-> old[i]]
  BY DEF Entered
<1>2. \A e \in New : \E i \in DOMAIN new : e = [at |-> <<2, i>>, key |-> CandidateKey(new[i]), x |-> new[i]]
  BY DEF Entered
<1>3. \A i \in DOMAIN old : [at |-> <<1, i>>, key |-> CandidateKey(old[i]), x |-> old[i]] \in Old
  BY DEF Entered
<1>4. \A i \in DOMAIN new : [at |-> <<2, i>>, key |-> CandidateKey(new[i]), x |-> new[i]] \in New
  BY DEF Entered
<1>5. Gather(old, new) = Firsts(Old \cup New)
  BY DEF Gather
<1>6. IsFiniteSet(DOMAIN old) /\ IsFiniteSet(DOMAIN new) /\ DOMAIN old \subseteq Int /\ DOMAIN new \subseteq Int
  BY FS_Interval
<1>7. IsFiniteSet(Old) /\ IsFiniteSet(New)
  <2> DEFINE f == [i \in DOMAIN old |-> Entered(<<1, i>>, CandidateKey(old[i]), old[i])]
             g == [i \in DOMAIN new |-> Entered(<<2, i>>, CandidateKey(new[i]), new[i])]
  <2>1. Old = {f[i] : i \in DOMAIN old} /\ New = {g[i] : i \in DOMAIN new}
    OBVIOUS
  <2> HIDE DEF f, g, Old, New
  <2>2. IsFiniteSet({f[i] : i \in DOMAIN old}) /\ IsFiniteSet({g[i] : i \in DOMAIN new})
    BY <1>6, FiniteImage
  <2> QED
    BY <2>1, <2>2
<1> HIDE DEF Old, New
<1>8. Entries(Old \cup New, 2)
  <2>1. IsFiniteSet(Old \cup New)
    BY <1>7, FS_Union
  <2>2. \A e \in Old \cup New : e.at \in Places(2)
    BY <1>1, <1>2, <1>6 DEF Places
  <2>3. \A d, e \in Old \cup New : d.at = e.at => d = e
    BY <1>1, <1>2, <1>6
  <2> QED
    BY <2>1, <2>2, <2>3 DEF Entries
<1>9. \A e \in Old \cup New : e.x \in T /\ e.x \in ToSet(old) \cup ToSet(new) /\ e.key = CandidateKey(e.x)
  BY <1>1, <1>2 DEF ToSet
<1>10. PICK m \in Nat : Gather(old, new) \in [1..m -> T]
  <2>1. \A e \in Old \cup New : e.x \in T
    BY <1>9
  <2>2. \E m \in Nat : Firsts(Old \cup New) \in [1..m -> T]
    BY <1>8, <2>1, FirstsAreKept
  <2> QED
    BY <1>5, <2>2
<1>11. Gather(old, new) \in Seq(T)
  BY <1>10
<1>12. ASSUME NEW c \in ToSet(old) \cup ToSet(new)
       PROVE  \E e \in Old \cup New : e.x = c
  <2>1. CASE c \in ToSet(old)
    <3>1. PICK i \in DOMAIN old : c = old[i]
      BY <2>1 DEF ToSet
    <3> DEFINE e == [at |-> <<1, i>>, key |-> CandidateKey(old[i]), x |-> old[i]]
    <3>2. e \in Old /\ e.x = c
      BY <1>3, <3>1
    <3> HIDE DEF e
    <3> QED
      BY <3>2
  <2>2. CASE c \in ToSet(new)
    <3>1. PICK i \in DOMAIN new : c = new[i]
      BY <2>2 DEF ToSet
    <3> DEFINE e == [at |-> <<2, i>>, key |-> CandidateKey(new[i]), x |-> new[i]]
    <3>2. e \in New /\ e.x = c
      BY <1>4, <3>1
    <3> HIDE DEF e
    <3> QED
      BY <3>2
  <2> QED
    BY <1>12, <2>1, <2>2
<1>13. ASSUME NEW c \in ToSet(old) \cup ToSet(new)
       PROVE  \E d \in ToSet(Gather(old, new)) :
                CandidateKey(d) = CandidateKey(c) /\ d \in ToSet(old) \cup ToSet(new)
  <2>1. PICK e \in Old \cup New : e.x = c
    BY <1>12
  <2>2. PICK d \in Old \cup New : d.key = e.key /\ d.x \in ToSet(Gather(old, new))
    BY <1>5, <1>8, <1>9, FirstsAreKept
  <2> QED
    BY <1>9, <2>1, <2>2
<1> QED
  BY <1>11, <1>13

(* The texts, and queries by title and artist.                              *)
Word == DOMAIN Text

(* What is read out of a text is a text.                                    *)
LEMMA TextsOfWords ==
  /\ IsFiniteSet(Word) /\ "" \in Word
  /\ \A t \in Word : /\ Text[t].base \in Word /\ Text[t].bare \in Word
                     /\ Text[t].canon \in Word /\ Text[t].names \subseteq Word
<1>1. IsFiniteSet(Word) /\ "" \in Word
  BY TextsAreRead DEF Word
<1>2. \A t \in Word : /\ Text[t].base \in Word /\ Text[t].bare \in Word
                     /\ Text[t].canon \in Word /\ Text[t].names \subseteq Word
  BY TextsAreRead DEF Word
<1> QED
  BY <1>1, <1>2, Zenon

(* Short lists.                                                             *)
LEMMA ListOfOne == \A W : \A x \in W : <<x>> \in Seq(W)
OBVIOUS
LEMMA ListOfTwo == \A W : \A x, y \in W : <<x, y>> \in Seq(W)
OBVIOUS
LEMMA ListOfNone == \A W : <<>> \in Seq(W)
OBVIOUS

Query == [title : Word, artist : Word]

(* The names an artist is searched by.                                      *)
LEMMA AliasesAreNames ==
  ASSUME NEW a \in Word
  PROVE  AliasesOf(a) \in Seq(Word)
<1> DEFINE N == {n \in Word : n # "" /\ Text[n].canon = Text[a].canon}
<1>1. IsFiniteSet(Word) /\ "" \in Word
  BY TextsOfWords
<1>2. IsFiniteSet(N)
  BY <1>1, FS_Subset
<1>3. SetToSeq(N) \in [1..Cardinality(N) -> N]
  <2>1. PICK f \in Bijection(1..Cardinality(N), N) : TRUE
    BY <1>2, FS_CardinalityType DEF ExistsBijection
  <2>2. f \in [1..Cardinality(N) -> N] /\ IsInjective(f)
    BY <2>1 DEF Bijection, Injection, IsInjective
  <2>3. SetToSeq(N) \in [1..Cardinality(N) -> N]
    BY <2>2 DEF SetToSeq
  <2> QED
    BY <2>3
<1>4. Cardinality(N) \in Nat
  BY <1>2, FS_CardinalityType
<1>5. SetToSeq(N) \in Seq(Word)
  <2>1. N \subseteq Word
    OBVIOUS
  <2> HIDE DEF N
  <2> QED
    BY <1>3, <1>4, <2>1
<1>6. <<"">> \in Seq(Word) /\ <<a>> \in Seq(Word)
  BY <1>1, ListOfOne, Zenon
<1>7. AliasesOf(a) \in {<<"">>, <<a>>, SetToSeq(N)}
  BY DEF AliasesOf, Word
<1> HIDE DEF N
<1> QED
  BY <1>5, <1>6, <1>7, Zenon

(* The titles a search is made for are texts.                               *)
LEMMA TitlesAreTexts ==
  ASSUME NEW t \in Word
  PROVE  SearchTitles(t) \in Seq(Word)
<1>1. Text[t].bare \in Word /\ Text[Text[t].base].bare \in Word
  BY TextsOfWords
<1>2. SearchTitles(t) \in {<<>>, <<Text[t].bare>>, <<Text[t].bare, Text[Text[t].base].bare>>}
  BY DEF SearchTitles
<1>3. <<Text[t].bare>> \in Seq(Word) /\ <<Text[t].bare, Text[Text[t].base].bare>> \in Seq(Word)
  BY <1>1, ListOfOne, ListOfTwo, Zenon
<1> QED
  BY <1>2, <1>3, ListOfNone, Zenon

(* The queries for a title and an artist are finitely many, placed and      *)
(* typed.                                                                   *)
LEMMA QueriesAreFinite ==
  ASSUME NEW n \in Int, NEW t \in Word, NEW a \in Word
  PROVE  /\ IsFiniteSet(QueriesOf(n, t, a))
         /\ \A e \in QueriesOf(n, t, a) :
              /\ e.at \in Places(3) /\ e.at[1] = n /\ e.x \in Query
              /\ \A d \in QueriesOf(n, t, a) : d.at = e.at => d = e
<1> DEFINE titles == SearchTitles(t)
           names == AliasesOf(a)
           K == (DOMAIN titles) \X (DOMAIN names)
           q(k) == [title |-> titles[k[1]], artist |-> names[k[2]]]
           f == [k \in K |-> Entered(<<n, k[1], k[2]>>, q(k), q(k))]
<1>1. titles \in Seq(Word) /\ names \in Seq(Word)
  BY AliasesAreNames, TitlesAreTexts
<1> HIDE DEF titles, names
<1>2. IsFiniteSet(DOMAIN titles) /\ IsFiniteSet(DOMAIN names)
  BY <1>1, FS_Interval
<1>3. DOMAIN titles \subseteq Int /\ DOMAIN names \subseteq Int
  BY <1>1
<1>4. IsFiniteSet(K)
  BY <1>2, FS_Product
<1>5. QueriesOf(n, t, a) = {f[k] : k \in K}
  BY DEF QueriesOf, titles, names
<1>6. IsFiniteSet(QueriesOf(n, t, a))
  <2> HIDE DEF f, K
  <2> QED
    BY <1>4, <1>5, FiniteImage
<1>7. \A k \in K : f[k] = [at |-> <<n, k[1], k[2]>>, key |-> q(k), x |-> q(k)]
  BY DEF Entered
<1> HIDE DEF f
<1>8. \A k \in K : k \in Int \X Int /\ q(k) \in Query
  <2> TAKE k \in K
  <2>1. k[1] \in DOMAIN titles /\ k[2] \in DOMAIN names
    OBVIOUS
  <2>2. titles[k[1]] \in Word /\ names[k[2]] \in Word
    BY <1>1, <2>1
  <2> QED
    BY <1>3, <2>2 DEF Query
<1> HIDE DEF K, q
<1>9. \A e \in QueriesOf(n, t, a) : \E k \in K : e = [at |-> <<n, k[1], k[2]>>, key |-> q(k), x |-> q(k)]
  BY <1>5, <1>7
<1>10. \A e \in QueriesOf(n, t, a) : e.at \in Places(3) /\ e.at[1] = n /\ e.x \in Query
  BY <1>8, <1>9 DEF Places
<1>11. \A j, k \in K : <<n, j[1], j[2]>> = <<n, k[1], k[2]>> => j = k
  BY <1>8
<1>12. \A d, e \in QueriesOf(n, t, a) : d.at = e.at => d = e
  BY <1>9, <1>11
<1> QED
  BY <1>6, <1>10, <1>12

(* The texts of metadata are texts.                                         *)
LEMMA FieldsOfMetadata ==
  \A md \in Metadata : /\ md.title \in Word /\ md.artist \in Word /\ md.album \in Word
                       /\ md.lyrics \in {"", "text"}
                       /\ DOMAIN md = {"title", "artist", "album", "lyrics"}
BY DEF Metadata, Word

(* Two finite sets of entries make one; so do four.                         *)
LEMMA TwoSetsOfEntries ==
  ASSUME NEW n, NEW A, NEW B, Entries(A, n), Entries(B, n),
         \A d \in A, e \in B : d.at # e.at
  PROVE  Entries(A \cup B, n)
<1>1. IsFiniteSet(A \cup B)
  BY FS_Union DEF Entries
<1> QED
  BY <1>1 DEF Entries

(* The queries for a title and an artist are entries.                       *)
LEMMA QueriesAreEntries ==
  \A n \in Int : \A t, a \in Word :
    /\ Entries(QueriesOf(n, t, a), 3)
    /\ \A e \in QueriesOf(n, t, a) : e.at[1] = n /\ e.x \in Query
BY QueriesAreFinite DEF Entries

LEMMA FourSetsOfEntries ==
  ASSUME NEW A, NEW B, NEW C, NEW D,
         Entries(A, 3), Entries(B, 3), Entries(C, 3), Entries(D, 3),
         \A e \in A : e.at[1] = 1, \A e \in B : e.at[1] = 2,
         \A e \in C : e.at[1] = 3, \A e \in D : e.at[1] = 4
  PROVE  Entries(A \cup B \cup C \cup D, 3)
<1>1. Entries(A \cup B, 3)
  <2>1. \A d \in A, e \in B : d.at # e.at
    OBVIOUS
  <2> QED
    BY <2>1, TwoSetsOfEntries
<1>2. Entries(A \cup B \cup C, 3)
  <2>1. \A d \in A \cup B, e \in C : d.at # e.at
    OBVIOUS
  <2> QED
    BY <1>1, <2>1, TwoSetsOfEntries
<1>3. \A d \in A \cup B \cup C, e \in D : d.at # e.at
  OBVIOUS
<1> QED
  BY <1>2, <1>3, TwoSetsOfEntries

(* No text is a text.                                                       *)
LEMMA NoWord == "" \in Word
BY TextsOfWords, Zenon

(* The queries of a look-up are a list.                                     *)
LEMMA QueriesAreListed ==
  ASSUME NEW tags \in Metadata, NEW ref \in Metadata
  PROVE  Queries(tags, ref) \in Seq(Query)
<1> DEFINE A == QueriesOf(1, ref.title, ref.artist)
           B == QueriesOf(2, tags.title, tags.artist)
           C == QueriesOf(3, ref.title, "")
           D == QueriesOf(4, tags.title, "")
           E == A \cup B \cup C \cup D
<1>1. ref.title \in Word /\ ref.artist \in Word /\ tags.title \in Word /\ tags.artist \in Word
  BY FieldsOfMetadata
<1>2. "" \in Word
  BY NoWord, Zenon
<1>3. 1 \in Int /\ 2 \in Int /\ 3 \in Int /\ 4 \in Int
  OBVIOUS
<1>4. /\ Entries(A, 3) /\ \A e \in A : e.at[1] = 1 /\ e.x \in Query
      /\ Entries(B, 3) /\ \A e \in B : e.at[1] = 2 /\ e.x \in Query
  BY <1>1, <1>3, QueriesAreEntries, Zenon
<1>5. /\ Entries(C, 3) /\ \A e \in C : e.at[1] = 3 /\ e.x \in Query
      /\ Entries(D, 3) /\ \A e \in D : e.at[1] = 4 /\ e.x \in Query
  BY <1>1, <1>2, <1>3, QueriesAreEntries, Zenon
<1>6. Queries(tags, ref) = Firsts(E)
  BY Zenon DEF Queries
<1> HIDE DEF A, B, C, D
<1>7. Entries(E, 3)
  BY <1>4, <1>5, FourSetsOfEntries
<1>8. \A e \in E : e.x \in Query
  BY <1>4, <1>5
<1> HIDE DEF E
<1>9. PICK m \in Nat : Firsts(E) \in [1..m -> Query]
  BY <1>7, <1>8, FirstsAreKept
<1>10. Firsts(E) \in Seq(Query)
  BY <1>9
<1> QED
  BY <1>6, <1>10

(* A source sends records of songs; where its score puts them is a number.  *)
LEMMA ScoresAreNumbers ==
  ASSUME NEW q, NEW song \in Metadata
  PROVE  SongScore(q, song).total \in Int
<1>1. \A l, k : SourceScore(l, k) \in 0..2
  BY DEF SourceScore
<1>2. \A names \in SUBSET Word : \A l : NamesScore(l, names) \in Int
  <2> TAKE names \in SUBSET Word
  <2> TAKE l
  <2>1. IsFiniteSet(names)
    BY TextsOfWords, FS_Subset
  <2>2. /\ Cardinality({n \in names : SourceScore(l, n) >= 1}) \in Nat
        /\ Cardinality({n \in names : SourceScore(l, n) = 2}) \in Nat
    BY <2>1, FS_Subset, FS_CardinalityType
  <2> QED
    BY <2>2 DEF NamesScore
<1>3. Text[song.artist].names \in SUBSET Word
  BY TextsOfWords, FieldsOfMetadata
<1>4. ASSUME NEW named \in Int, NEW credit \in Int
      PROVE  SongScoreOf(q, song, named, credit).total \in Int
  <2> DEFINE a == IF q.artist # "" /\ credit = 0 THEN -2 ELSE credit
             t == IF q.artist = "" /\ credit >= 1 /\ named >= 1 THEN 2 ELSE named
  <2>1. -2 \in Int /\ 2 \in Int
    OBVIOUS
  <2>2. a \in {-2, credit} /\ t \in {2, named}
    BY Zenon
  <2>3. SourceScore(q.title, song.album) \in Int
    BY <1>1
  <2>4. SongScoreOf(q, song, named, credit) = [title |-> t, total |-> t + a + SourceScore(q.title, song.album)]
    BY Zenon DEF SongScoreOf
  <2> HIDE DEF a, t
  <2> QED
    BY <2>1, <2>2, <2>3, <2>4
<1>5. \A l, k : SourceScore(l, k) \in Int
  BY <1>1
<1> QED
  BY <1>2, <1>3, <1>4, <1>5, Zenon DEF SongScore

(* Lyrics may be none.                                                      *)
LEMMA NoText == "" \in {"", "text"}
BY Zenon

(* Metadata with other lyrics are metadata.                                 *)
LEMMA OtherLyrics ==
  ASSUME NEW song \in Metadata, NEW L, L = {"", "text"}, NEW l \in L
  PROVE  [song EXCEPT !.lyrics = l] \in Metadata
BY DEF Metadata

(* So is what a source sends.                                               *)
LEMMA SentIsMetadata ==
  ASSUME NEW song \in Metadata, NEW bare \in BOOLEAN
  PROVE  Sent(song, bare) \in Metadata
<1>1. [song EXCEPT !.lyrics = ""] \in Metadata
  BY OtherLyrics, NoText, Zenon
<1> QED
  BY <1>1, Zenon DEF Sent

(* The places and the elements of a list.                                   *)
LEMMA PlacesOfList ==
  \A W : \A q \in Seq(W) : IsFiniteSet(DOMAIN q) /\ DOMAIN q \subseteq Int
<1> SUFFICES ASSUME NEW W, NEW q \in Seq(W) PROVE IsFiniteSet(DOMAIN q) /\ DOMAIN q \subseteq Int
  OBVIOUS
<1> QED
  BY FS_Interval

LEMMA ElementsOfList == \A W : \A q \in Seq(W) : \A i \in DOMAIN q : q[i] \in W
OBVIOUS

(* The answers of a source are finitely many, placed and typed.             *)
LEMMA AnswersAreFinite ==
  ASSUME NEW q \in Query, NEW s \in DOMAIN Songs, NEW bare \in BOOLEAN
  PROVE  /\ IsFiniteSet(AnswerTo(q, s, bare))
         /\ \A e \in AnswerTo(q, s, bare) :
              /\ e.at[1] \in Int /\ e.at[2] \in Int /\ e.x \in Metadata
              /\ e.key = CandidateKey(e.x)
              /\ \A d \in AnswerTo(q, s, bare) : d.at[2] = e.at[2] => d = e
<1> DEFINE Hit == Hits(q, s)
           song(p) == Sent(Songs[s][p], bare)
           f == [p \in Hit |-> Entered(<<-SongScore(q, Songs[s][p]).total, p>>,
                                       CandidateKey(song(p)), song(p))]
<1>1. Songs[s] \in Seq(Metadata)
  BY InputsAreMetadata
<1>2. Hit \subseteq DOMAIN Songs[s]
  BY DEF Hits
<1>3. IsFiniteSet(Hit) /\ Hit \subseteq Int
  <2>1. IsFiniteSet(DOMAIN Songs[s]) /\ DOMAIN Songs[s] \subseteq Int
    BY <1>1, PlacesOfList, Zenon
  <2> HIDE DEF Hit
  <2> QED
    BY <1>2, <2>1, FS_Subset
<1>4. AnswerTo(q, s, bare) = {f[p] : p \in Hit}
  BY DEF AnswerTo
<1>5. \A p \in Hit : f[p] = [at |-> <<-SongScore(q, Songs[s][p]).total, p>>,
                             key |-> CandidateKey(song(p)), x |-> song(p)]
  BY DEF Entered
<1> HIDE DEF f, Hit
<1>6. IsFiniteSet(AnswerTo(q, s, bare))
  <2> DEFINE I == {f[p] : p \in Hit}
  <2>1. IsFiniteSet(I)
    BY <1>3, FiniteImage
  <2> HIDE DEF I
  <2> QED
    BY <1>4, <2>1, Zenon DEF I
<1>7. \A p \in Hit : Songs[s][p] \in Metadata
  BY <1>1, <1>2, ElementsOfList, Zenon
<1>8. \A p \in Hit : song(p) \in Metadata /\ -SongScore(q, Songs[s][p]).total \in Int
  BY <1>7, ScoresAreNumbers, SentIsMetadata
<1> HIDE DEF song
<1>9. ASSUME NEW e \in AnswerTo(q, s, bare)
      PROVE  \E p \in Hit : e = [at |-> <<-SongScore(q, Songs[s][p]).total, p>>,
                                 key |-> CandidateKey(song(p)), x |-> song(p)]
  BY <1>4, <1>5
<1>10. \A e \in AnswerTo(q, s, bare) :
         e.at[1] \in Int /\ e.at[2] \in Int /\ e.x \in Metadata /\ e.key = CandidateKey(e.x)
  <2> TAKE e \in AnswerTo(q, s, bare)
  <2>1. PICK p \in Hit : e = [at |-> <<-SongScore(q, Songs[s][p]).total, p>>,
                               key |-> CandidateKey(song(p)), x |-> song(p)]
    BY <1>9
  <2>2. -SongScore(q, Songs[s][p]).total \in Int /\ p \in Int /\ song(p) \in Metadata
    BY <1>3, <1>8
  <2> HIDE DEF song
  <2> QED
    BY <2>1, <2>2
<1>11. \A d, e \in AnswerTo(q, s, bare) : d.at[2] = e.at[2] => d = e
  BY <1>9
<1> QED
  BY <1>6, <1>10, <1>11

(* The answers of one source to one query, with their place among all.      *)
LEMMA AnswersArePlaced ==
  ASSUME NEW qs \in Seq(Query), NEW a \in Replies,
         NEW k \in (DOMAIN qs) \X (DOMAIN a.order)
  PROVE  /\ IsFiniteSet(AnswersTo(qs, a, k))
         /\ \A e \in AnswersTo(qs, a, k) :
              /\ e.at \in Places(4) /\ e.at[1] = k[1] /\ e.at[2] = k[2] /\ e.x \in Metadata
              /\ e.key = CandidateKey(e.x)
              /\ \A d \in AnswersTo(qs, a, k) : d.at = e.at => d = e
<1> DEFINE q == qs[k[1]]
           s == a.order[k[2]]
           bare == s \in a.bare
           H == AnswerTo(q, s, bare)
           f == [h \in H |-> Entered(<<k[1], k[2], h.at[1], h.at[2]>>, h.key, h.x)]
<1>1. k[1] \in DOMAIN qs /\ k[2] \in DOMAIN a.order /\ k[1] \in Int
  BY PlacesOfList
<1>2. a.order \in Seq(DOMAIN Songs)
  BY InputsAreMetadata
<1>3. k[2] \in Int
  BY <1>1, <1>2, PlacesOfList
<1>4. q \in Query /\ s \in DOMAIN Songs /\ bare \in BOOLEAN
  BY <1>1, <1>2, ElementsOfList
<1> HIDE DEF q, s, bare
<1>5. /\ IsFiniteSet(H)
      /\ \A e \in H : /\ e.at[1] \in Int /\ e.at[2] \in Int /\ e.x \in Metadata
                      /\ e.key = CandidateKey(e.x)
                      /\ \A d \in H : d.at[2] = e.at[2] => d = e
  BY <1>4, AnswersAreFinite
<1>6. Answer[<<q, s, bare>>] = H
  <2>1. <<q, s, bare>> \in [title : DOMAIN Text, artist : DOMAIN Text] \X (DOMAIN Songs) \X BOOLEAN
    BY <1>4 DEF Query, Word
  <2>2. Answer = [j \in [title : DOMAIN Text, artist : DOMAIN Text] \X (DOMAIN Songs) \X BOOLEAN |->
                   AnswerTo(j[1], j[2], j[3])]
    BY Zenon DEF Answer
  <2>3. \A x, y, z : AnswerTo(<<x, y, z>>[1], <<x, y, z>>[2], <<x, y, z>>[3]) = AnswerTo(x, y, z)
    OBVIOUS
  <2> QED
    BY <2>1, <2>2, <2>3
<1> HIDE DEF H
<1>7. AnswersTo(qs, a, k) = {f[h] : h \in H}
  BY <1>6 DEF AnswersTo, q, s, bare
<1>8. \A h \in H : f[h] = [at |-> <<k[1], k[2], h.at[1], h.at[2]>>, key |-> h.key, x |-> h.x]
  BY DEF Entered
<1> HIDE DEF f
<1>9. IsFiniteSet(AnswersTo(qs, a, k))
  <2> DEFINE I == {f[h] : h \in H}
  <2>1. IsFiniteSet(I)
    BY <1>5, FiniteImage
  <2> HIDE DEF I
  <2> QED
    BY <1>7, <2>1, Zenon DEF I
<1>10. \A e \in AnswersTo(qs, a, k) : \E h \in H :
         e = [at |-> <<k[1], k[2], h.at[1], h.at[2]>>, key |-> h.key, x |-> h.x]
  <2>1. \A e \in AnswersTo(qs, a, k) : \E h \in H : e = f[h]
    BY <1>7
  <2> TAKE e \in AnswersTo(qs, a, k)
  <2>2. PICK h \in H : e = f[h]
    BY <2>1
  <2> QED
    BY <1>8, <2>2, Zenon
<1>11. \A e \in AnswersTo(qs, a, k) :
         /\ e.at \in Places(4) /\ e.at[1] = k[1] /\ e.at[2] = k[2] /\ e.x \in Metadata
         /\ e.key = CandidateKey(e.x)
  <2> TAKE e \in AnswersTo(qs, a, k)
  <2>1. PICK h \in H : e = [at |-> <<k[1], k[2], h.at[1], h.at[2]>>, key |-> h.key, x |-> h.x]
    BY <1>10
  <2> QED
    BY <1>1, <1>3, <1>5, <2>1 DEF Places
<1>12. \A d, e \in AnswersTo(qs, a, k) : d.at = e.at => d = e
  <2> SUFFICES ASSUME NEW d \in AnswersTo(qs, a, k), NEW e \in AnswersTo(qs, a, k), d.at = e.at
               PROVE  d = e
    OBVIOUS
  <2>1. PICK g \in H : d = [at |-> <<k[1], k[2], g.at[1], g.at[2]>>, key |-> g.key, x |-> g.x]
    BY <1>10
  <2>2. PICK h \in H : e = [at |-> <<k[1], k[2], h.at[1], h.at[2]>>, key |-> h.key, x |-> h.x]
    BY <1>10
  <2>3. g.at[2] = h.at[2]
    BY <2>1, <2>2
  <2> QED
    BY <1>5, <2>1, <2>2, <2>3
<1> QED
  BY <1>9, <1>11, <1>12

(* A search by metadata returns a list of metadata, and every answer has    *)
(* one with its key in it.                                                  *)
LEMMA SearchIsListed ==
  ASSUME NEW tags \in Metadata, NEW ref \in Metadata, NEW a \in Replies
  PROVE  Search(tags, ref, a) \in Seq(Metadata)
<1> DEFINE qs == Queries(tags, ref)
           K == (DOMAIN qs) \X (DOMAIN a.order)
           E == UNION {AnswersTo(qs, a, k) : k \in K}
           f == [k \in K |-> AnswersTo(qs, a, k)]
<1>1. qs \in Seq(Query)
  BY QueriesAreListed
<1>2. Search(tags, ref, a) = Firsts(E)
  BY TheOne, Zenon DEF Search
<1> HIDE DEF qs
<1>3. a.order \in Seq(DOMAIN Songs)
  BY InputsAreMetadata
<1>4. IsFiniteSet(K)
  BY <1>1, <1>3, PlacesOfList, FS_Product, Zenon
<1>5. \A k \in K :
        /\ IsFiniteSet(AnswersTo(qs, a, k))
        /\ \A e \in AnswersTo(qs, a, k) :
             /\ e.at \in Places(4) /\ e.at[1] = k[1] /\ e.at[2] = k[2] /\ e.x \in Metadata
             /\ \A d \in AnswersTo(qs, a, k) : d.at = e.at => d = e
  BY <1>1, AnswersArePlaced
<1>6. \A j, k \in K : j[1] = k[1] /\ j[2] = k[2] => j = k
  OBVIOUS
<1>7. E = UNION {f[k] : k \in K}
  OBVIOUS
<1>8. IsFiniteSet(E)
  <2> DEFINE I == {f[k] : k \in K}
  <2>1. \A X \in I : IsFiniteSet(X)
    BY <1>5
  <2> HIDE DEF f, K, E
  <2>2. IsFiniteSet(I)
    BY <1>4, FiniteImage
  <2> HIDE DEF I
  <2>3. IsFiniteSet(UNION I)
    BY <2>1, <2>2, FS_UNION
  <2> QED
    BY <1>7, <2>3, Zenon DEF I
<1>9. \A e \in E : \E k \in K : e \in AnswersTo(qs, a, k)
  OBVIOUS
<1> HIDE DEF E, K
<1>10. \A e \in E : e.at \in Places(4) /\ e.x \in Metadata
  BY <1>5, <1>9
<1>11. \A d, e \in E : d.at = e.at => d = e
  <2> SUFFICES ASSUME NEW d \in E, NEW e \in E, d.at = e.at PROVE d = e
    OBVIOUS
  <2>1. PICK j \in K : d \in AnswersTo(qs, a, j)
    BY <1>9
  <2>2. PICK k \in K : e \in AnswersTo(qs, a, k)
    BY <1>9
  <2>3. j = k
    BY <1>5, <1>6, <2>1, <2>2
  <2> QED
    BY <1>5, <2>1, <2>2, <2>3
<1>12. Entries(E, 4)
  BY <1>8, <1>10, <1>11 DEF Entries
<1>13. PICK m \in Nat : Firsts(E) \in [1..m -> Metadata]
  BY <1>10, <1>12, FirstsAreKept
<1>14. Firsts(E) \in Seq(Metadata)
  BY <1>13
<1> QED
  BY <1>2, <1>14, Zenon

-----------------------------------------------------------------------------
(* Selection *)

(* How well a candidate matches a reference is told in numbers.             *)
LEMMA LargestOfSmall ==
  ASSUME NEW X \in SUBSET (0..2), X # {}
  PROVE  Max(X) \in X
<1>1. \E x \in X : \A y \in X : x >= y
  <2>0. \A x \in X : x = 0 \/ x = 1 \/ x = 2
    OBVIOUS
  <2>1. CASE 2 \in X
    BY <2>0, <2>1
  <2>2. CASE 2 \notin X /\ 1 \in X
    BY <2>0, <2>2
  <2>3. CASE 2 \notin X /\ 1 \notin X
    <3>1. PICK x \in X : TRUE
      OBVIOUS
    <3>2. \A y \in X : x >= y
      BY <2>0, <2>3
    <3> QED
      BY <3>2
  <2> QED
    BY <2>1, <2>2, <2>3
<1> QED
  BY <1>1 DEF Max

(* Matches count 0, 1 or 2, those of artists too.                           *)
LEMMA MatchesAreSmall == \A x, y : MatchScore(x, y) \in 0..2
<1>1. \A l, k : KeyScore(l, k) \in 0..2
  BY DEF KeyScore
<1> QED
  BY <1>1, Zenon DEF MatchScore

LEMMA ArtistScoresAreSmall == \A pairs : ArtistScore(pairs) \in 0..2
<1> TAKE pairs
<1> DEFINE X == {MatchScore(p[1], p[2]) : p \in pairs}
<1>1. X \in SUBSET (0..2)
  BY MatchesAreSmall
<1>2. pairs # {} => X # {}
  OBVIOUS
<1>3. ArtistScore(pairs) \in {0, 2, Max(X)}
  BY DEF ArtistScore
<1>4. pairs = {} => ArtistScore(pairs) = 0
  BY DEF ArtistScore
<1> HIDE DEF X
<1>5. X # {} => Max(X) \in 0..2
  BY <1>1, LargestOfSmall
<1> QED
  BY <1>2, <1>3, <1>4, <1>5

Scores == [title : Int, artist : Int, album : Int, extra : Int, same : BOOLEAN]

(* The score of a candidate is one.                                         *)
LEMMA ScoreIsTyped ==
  \A ref, c, f : Score(ref, c, f) \in Scores
<1> TAKE ref, c, f
<1>1. ArtistMatch(ref, c) \in Int
  <2>1. \A s \in 0..2 : Penalty(ref, s) \in Int
    BY DEF Penalty
  <2> QED
    BY <2>1, ArtistScoresAreSmall DEF ArtistMatch
<1>2. VariantScore(ref, c, f) \in Int
  <2>1. \A s, t, v, w : WeakScore(s, t, v, w) \in Int
    BY DEF WeakScore
  <2>2. \A b \in BOOLEAN : (IF b THEN 3 ELSE -3) \in Int
    OBVIOUS
  <2> QED
    BY <2>1, <2>2 DEF VariantScore
<1>3. DuetScore(ref, c, f) \in Int
  BY DEF DuetScore
<1>4. \A x, y : MatchScore(x, y) \in Int
  BY MatchesAreSmall
<1>5. (Strong(ref, f) = Strong(c, Nil) /\ SameCredits(ref, c, f)) \in BOOLEAN
  OBVIOUS
<1>6. VariantScore(ref, c, f) + DuetScore(ref, c, f) \in Int
  BY <1>2, <1>3
<1> QED
  BY <1>1, <1>4, <1>5, <1>6 DEF Score, Scores

(* The top of a finite set of entries whose keys differ.                    *)
LEMMA TopOfEntries ==
  ASSUME NEW E, IsFiniteSet(E), NEW n \in Nat, \A x \in E : x.key \in Places(n),
         \A x, y \in E : x.key = y.key => x = y
  PROVE  /\ E = {} => Top(E) = Nil
         /\ E # {} => Top(E) \in E /\ \A y \in E \ {Top(E)} : Above(Top(E).key, y.key)
<1> DEFINE R == {p \in E \X E : Above(p[1].key, p[2].key)}
<1>1. Top(E) = TopOf(E)
  BY TheOne, Zenon DEF Top
<1>2. E = {} => Top(E) = Nil
  BY <1>1 DEF TopOf
<1>3. ASSUME E # {}
      PROVE  \E x \in E : \A y \in E \ {x} : Above(x.key, y.key)
  <2>1. \A d \in E : <<d, d>> \notin R
    BY NoneAboveItself
  <2>2. \A c, d, e \in E : <<c, d>> \in R /\ <<d, e>> \in R => <<c, e>> \in R
    BY AboveIsTransitive
  <2>3. PICK x \in E : \A d \in E : <<d, x>> \notin R
    <3> HIDE DEF R
    <3> QED
      BY <1>3, <2>1, <2>2, MinimalElement
  <2>4. \A y \in E \ {x} : ~Above(y.key, x.key)
    BY <2>3
  <2>5. \A y \in E \ {x} : Above(x.key, y.key)
    BY <2>4, AboveIsTotal
  <2> QED
    BY <2>5
<1>4. ASSUME E # {}
      PROVE  Top(E) \in E /\ \A y \in E \ {Top(E)} : Above(Top(E).key, y.key)
  BY <1>1, <1>3, <1>4 DEF TopOf
<1> QED
  BY <1>2, <1>4

(* What is asked of a candidate.                                            *)
Demands ==
  [need : SUBSET Fields, missing : SUBSET Fields, gain : BOOLEAN, max : BOOLEAN,
   version : BOOLEAN, trust : BOOLEAN]

(* The fields are finitely many.                                            *)
LEMMA FewFields == IsFiniteSet(Fields) /\ \A M \in SUBSET Fields : IsFiniteSet(M)
<1>1. IsFiniteSet({"lyrics"})
  BY FS_Singleton, Zenon
<1>2. IsFiniteSet({"lyrics"} \cup {"album"})
  BY <1>1, FS_AddElement
<1>3. IsFiniteSet({"lyrics"} \cup {"album"} \cup {"artist"})
  BY <1>2, FS_AddElement
<1>4. Fields = {"lyrics"} \cup {"album"} \cup {"artist"}
  BY DEF Fields
<1>5. IsFiniteSet(Fields)
  BY <1>3, <1>4, Zenon
<1> QED
  BY <1>5, FS_Subset, Zenon

(* What a candidate gains is a number.                                      *)
LEMMA GainIsNumber ==
  ASSUME NEW o \in Demands, NEW c
  PROVE  Gain(c, o) \in Nat
<1>1. o.missing \subseteq Fields
  BY DEF Demands
<1>2. o.missing \ Missing(c, o.missing) \subseteq Fields
  BY <1>1
<1>3. Cardinality(o.missing \ Missing(c, o.missing)) \in Nat
  BY <1>2, FewFields, FS_CardinalityType
<1> QED
  BY <1>3 DEF Gain

(* The candidate at place i of a list, measured by a reference.             *)
Placed(ref, cs, o, i) ==
  Ranked(Measured(ref, cs[i]),
         Rank(Score(ref.md, cs[i], job.file), Gain(cs[i], o), i, o))

(* What candidates are ranked by is a tuple of numbers.                     *)
LEMMA KeysArePlaces ==
  \A s \in Scores : \A g, i \in Int : \A o \in Demands :
     Rank(s, g, i, o) \in Places(7) /\ Rank(s, g, i, o)[7] = -i
<1> SUFFICES ASSUME NEW s \in Scores, NEW g \in Int, NEW i \in Int, NEW o \in Demands
             PROVE  Rank(s, g, i, o) \in Places(7) /\ Rank(s, g, i, o)[7] = -i
  OBVIOUS
<1>1. s.title \in Int /\ s.artist \in Int /\ s.album \in Int /\ s.extra \in Int
  BY DEF Scores
<1>2. Ranking(s) \in Int /\ Total(s) \in Int
  BY <1>1 DEF Ranking, Total
<1>3. (IF o.max THEN g ELSE 0) \in Int /\ -i \in Int
  OBVIOUS
<1> QED
  BY <1>1, <1>2, <1>3 DEF Rank, Places

(* Best is an eligible candidate of the list that ranks above the others,   *)
(* if there is any.                                                         *)
LEMMA BestOfList ==
  ASSUME NEW ref, NEW cs \in Seq(Metadata), NEW o \in Demands
  PROVE  LET I == {i \in DOMAIN cs : Eligible(Measured(ref, cs[i]), o)}
         IN /\ I = {} => Best(ref, cs, o) = Nil
            /\ I # {} => \E i \in I :
                 /\ Best(ref, cs, o) = Placed(ref, cs, o, i)
                 /\ \A j \in I \ {i} : Above(Placed(ref, cs, o, i).key, Placed(ref, cs, o, j).key)
<1> DEFINE I == {i \in DOMAIN cs : Eligible(Measured(ref, cs[i]), o)}
           f == [i \in I |-> Placed(ref, cs, o, i)]
           E == {f[i] : i \in I}
           X == {x \in {<<i, Measured(ref, cs[i])>> : i \in DOMAIN cs} : Eligible(x[2], o)}
           Y == {Ranked(x[2], Rank(x[2].score, Gain(x[2].pick, o), x[1], o)) : x \in X}
<1>1. Best(ref, cs, o) = Top(Y)
  BY Zenon DEF Best
<1>2. \A i : Measured(ref, cs[i]).score = Score(ref.md, cs[i], job.file)
              /\ Measured(ref, cs[i]).pick = cs[i]
  BY DEF Measured
<1>3. X = {<<i, Measured(ref, cs[i])>> : i \in I}
  <2>1. \A i : <<i, Measured(ref, cs[i])>>[2] = Measured(ref, cs[i])
    OBVIOUS
  <2>2. \A x \in X : \E i \in I : x = <<i, Measured(ref, cs[i])>>
    <3> TAKE x \in X
    <3>1. PICK i \in DOMAIN cs : x = <<i, Measured(ref, cs[i])>>
      OBVIOUS
    <3>2. Eligible(Measured(ref, cs[i]), o)
      BY <2>1, <3>1
    <3> QED
      BY <3>1, <3>2
  <2>3. \A i \in I : <<i, Measured(ref, cs[i])>> \in X
    BY <2>1
  <2> QED
    BY <2>2, <2>3
<1>4. Y = E
  <2>1. \A i \in I : Ranked(Measured(ref, cs[i]),
                           Rank(Measured(ref, cs[i]).score, Gain(Measured(ref, cs[i]).pick, o), i, o))
                   = f[i]
    BY <1>2 DEF Placed
  <2>2. \A x \in X : \E i \in I : x[1] = i /\ x[2] = Measured(ref, cs[i])
    BY <1>3
  <2>3. \A i \in I : \E x \in X : x[1] = i /\ x[2] = Measured(ref, cs[i])
    <3> TAKE i \in I
    <3> DEFINE x == <<i, Measured(ref, cs[i])>>
    <3>1. x \in X
      BY <1>3
    <3>2. x[1] = i /\ x[2] = Measured(ref, cs[i])
      OBVIOUS
    <3> HIDE DEF x
    <3> QED
      BY <3>1, <3>2
  <2> HIDE DEF f, I, X
  <2>4. \A y \in Y : \E i \in I : y = f[i]
    <3> TAKE y \in Y
    <3>1. PICK x \in X : y = Ranked(x[2], Rank(x[2].score, Gain(x[2].pick, o), x[1], o))
      OBVIOUS
    <3>2. PICK i \in I : x[1] = i /\ x[2] = Measured(ref, cs[i])
      BY <2>2
    <3> QED
      BY <2>1, <3>1, <3>2
  <2>5. \A i \in I : f[i] \in Y
    <3> TAKE i \in I
    <3>1. PICK x \in X : x[1] = i /\ x[2] = Measured(ref, cs[i])
      BY <2>3
    <3> QED
      BY <2>1, <3>1
  <2> HIDE DEF Y
  <2> QED
    BY <2>4, <2>5
<1>5. IsFiniteSet(DOMAIN cs) /\ DOMAIN cs \subseteq Int
  BY PlacesOfList
<1>6. IsFiniteSet(I) /\ I \subseteq Int
  BY <1>5, FS_Subset
<1>7. IsFiniteSet(E)
  <2> HIDE DEF f, I
  <2> QED
    BY <1>6, FiniteImage
<1>8. \A i \in I : Placed(ref, cs, o, i).key \in Places(7) /\ Placed(ref, cs, o, i).key[7] = -i
  <2> TAKE i \in I
  <2>1. Score(ref.md, cs[i], job.file) \in Scores /\ Gain(cs[i], o) \in Int /\ i \in Int
    BY <1>6, ScoreIsTyped, GainIsNumber
  <2>2. Placed(ref, cs, o, i).key = Rank(Score(ref.md, cs[i], job.file), Gain(cs[i], o), i, o)
    BY DEF Placed, Ranked
  <2> QED
    BY <2>1, <2>2, KeysArePlaces
<1>9. \A i \in I : f[i] = Placed(ref, cs, o, i)
  OBVIOUS
<1> HIDE DEF f, I, X, Y
<1>10. \A x \in E : x.key \in Places(7)
  BY <1>8, <1>9
<1>11. \A x, y \in E : x.key = y.key => x = y
  <2>1. \A i, j \in I : Placed(ref, cs, o, i).key = Placed(ref, cs, o, j).key => i = j
    BY <1>6, <1>8
  <2> QED
    BY <1>9, <2>1
<1>12. /\ E = {} => Top(E) = Nil
       /\ E # {} => Top(E) \in E /\ \A y \in E \ {Top(E)} : Above(Top(E).key, y.key)
  <2> HIDE DEF E
  <2> QED
    BY <1>7, <1>10, <1>11, TopOfEntries
<1>13. ASSUME I # {}
       PROVE  \E i \in I :
                 /\ Best(ref, cs, o) = Placed(ref, cs, o, i)
                 /\ \A j \in I \ {i} : Above(Placed(ref, cs, o, i).key, Placed(ref, cs, o, j).key)
  <2>1. E # {}
    BY <1>13
  <2>2. PICK i \in I : Top(E) = f[i]
    BY <1>12, <2>1
  <2>3. \A j \in I \ {i} : f[j] \in E \ {Top(E)}
    <3> TAKE j \in I \ {i}
    <3>1. Placed(ref, cs, o, j).key[7] # Placed(ref, cs, o, i).key[7]
      BY <1>6, <1>8
    <3>2. f[j] # f[i]
      BY <1>9, <3>1
    <3> QED
      BY <2>2, <3>2
  <2>4. \A j \in I \ {i} : Above(Placed(ref, cs, o, i).key, Placed(ref, cs, o, j).key)
    BY <1>9, <1>12, <2>1, <2>2, <2>3
  <2>5. Best(ref, cs, o) = Placed(ref, cs, o, i)
    BY <1>1, <1>4, <1>9, <2>2
  <2> QED
    BY <2>4, <2>5
<1>14. I = {} => Best(ref, cs, o) = Nil
  BY <1>1, <1>4, <1>12
<1> QED
  BY <1>13, <1>14 DEF I

(* A candidate p selected of a list, by a reference.                        *)
Chosen(p, ref, cs, o) ==
  /\ p.kind = ref.kind /\ p.md = ref.md
  /\ \E i \in DOMAIN cs : p.pick = cs[i]
  /\ p.score = Score(p.md, p.pick, job.file)
  /\ o.version => p.score.same

(* The best of a list is an eligible one of it.                             *)
LEMMA BestIsChosen ==
  ASSUME NEW ref, NEW cs \in Seq(Metadata), NEW o \in Demands,
         Best(ref, cs, o) # Nil
  PROVE  Chosen(Best(ref, cs, o), ref, cs, o)
<1> DEFINE I == {i \in DOMAIN cs : Eligible(Measured(ref, cs[i]), o)}
<1>1. PICK i \in I : Best(ref, cs, o) = Placed(ref, cs, o, i)
  BY BestOfList
<1>2. /\ Placed(ref, cs, o, i).kind = ref.kind /\ Placed(ref, cs, o, i).md = ref.md
      /\ Placed(ref, cs, o, i).pick = cs[i]
      /\ Placed(ref, cs, o, i).score = Score(ref.md, cs[i], job.file)
  BY DEF Placed, Ranked, Measured
<1>3. o.version => Score(ref.md, cs[i], job.file).same
  BY DEF Eligible, Measured
<1> QED
  BY <1>1, <1>2, <1>3 DEF Chosen

(* A candidate that is verified was selected by one of the references.      *)
LEMMA VerifiedIsChosen ==
  ASSUME NEW W, NEW refs \in Seq(W), NEW cs \in Seq(Metadata), NEW o \in Demands,
         Verified(refs, cs, o) # Nil
  PROVE  \E i \in DOMAIN refs : Chosen(Verified(refs, cs, o), refs[i], cs, o)
<1> DEFINE t == [o EXCEPT !.trust = TRUE]
           b == [i \in DOMAIN refs |-> Best(refs[i], cs, t)]
           I == {i \in DOMAIN refs : b[i] # Nil}
           gain(p) == IF o.max THEN Gain(p, o) ELSE 0
           f == [i \in I |-> Ranked(b[i], VerifiedRank(b[i].score, gain(b[i].pick), i))]
           E == {f[i] : i \in I}
           V == {v \in {<<i, Best(refs[i], cs, [o EXCEPT !.trust = TRUE])>> : i \in DOMAIN refs} :
                   v[2] # Nil}
           Y == {Ranked(v[2], VerifiedRank(v[2].score, gain(v[2].pick), v[1])) : v \in V}
<1>1. Verified(refs, cs, o) = Top(Y)
  BY Zenon DEF Verified
<1>2. t \in Demands /\ t.version = o.version
  BY DEF Demands
<1>3. \A v \in V : \E i \in I : v[1] = i /\ v[2] = b[i]
  <2> TAKE v \in V
  <2>1. PICK i \in DOMAIN refs : v = <<i, Best(refs[i], cs, [o EXCEPT !.trust = TRUE])>>
    OBVIOUS
  <2>2. v[1] = i /\ v[2] = b[i] /\ v[2] # Nil
    BY <2>1
  <2> QED
    BY <2>2
<1> HIDE DEF t
<1>4. \A i \in I : Chosen(b[i], refs[i], cs, o)
  <2> TAKE i \in I
  <2>1. b[i] = Best(refs[i], cs, t) /\ b[i] # Nil
    BY DEF t
  <2>2. Chosen(b[i], refs[i], cs, t)
    BY <1>2, <2>1, BestIsChosen
  <2> QED
    BY <1>2, <2>2 DEF Chosen
<1>5. Y \subseteq E
  <2> HIDE DEF b, I, V
  <2> SUFFICES ASSUME NEW v \in V
               PROVE  Ranked(v[2], VerifiedRank(v[2].score, gain(v[2].pick), v[1])) \in E
    OBVIOUS
  <2>1. PICK i \in I : v[1] = i /\ v[2] = b[i]
    BY <1>3
  <2> QED
    BY <2>1
<1>6. IsFiniteSet(DOMAIN refs) /\ DOMAIN refs \subseteq Int
  BY PlacesOfList
<1>7. IsFiniteSet(I) /\ I \subseteq Int
  BY <1>6, FS_Subset
<1>8. IsFiniteSet(Y)
  <2> HIDE DEF f, I, E, Y
  <2>1. IsFiniteSet({f[i] : i \in I})
    BY <1>7, FiniteImage
  <2> QED
    BY <1>5, <2>1, FS_Subset DEF E
<1>9. \A p : gain(p) \in Int
  BY GainIsNumber
<1> HIDE DEF gain, b, I
<1>10. \A i \in I : /\ f[i].kind = b[i].kind /\ f[i].md = b[i].md /\ f[i].pick = b[i].pick
                    /\ f[i].score = b[i].score
                    /\ f[i].key = VerifiedRank(b[i].score, gain(b[i].pick), i)
  BY DEF Ranked
<1> HIDE DEF f
<1>11. \A i \in I : f[i].key \in Places(7) /\ f[i].key[7] = -i
  <2> TAKE i \in I
  <2>1. b[i].score \in Scores
    BY <1>4, ScoreIsTyped DEF Chosen
  <2> DEFINE s == b[i].score
             g == gain(b[i].pick)
  <2>2. s.title \in Int /\ s.artist \in Int /\ s.album \in Int /\ s.extra \in Int /\ g \in Int /\ -i \in Int
    BY <1>7, <1>9, <2>1 DEF Scores
  <2> HIDE DEF s, g
  <2>3. Ranking(s) \in Int /\ Total(s) \in Int
    BY <2>2 DEF Ranking, Total
  <2>4. VerifiedRank(s, g, i) \in Places(7) /\ VerifiedRank(s, g, i)[7] = -i
    BY <2>2, <2>3 DEF VerifiedRank, Places
  <2> QED
    BY <1>10, <2>4 DEF s, g
<1>12. \A i, j \in I : f[i].key = f[j].key => i = j
  <2> SUFFICES ASSUME NEW i \in I, NEW j \in I, f[i].key = f[j].key
               PROVE  i = j
    OBVIOUS
  <2>1. -i = -j
    BY <1>11
  <2>2. i \in Int /\ j \in Int
    BY <1>7
  <2> QED
    BY <2>1, <2>2
<1>13. \A x \in Y : \E i \in I : x = f[i]
  BY <1>5
<1> HIDE DEF Y
<1>14. Top(Y) \in Y
  <2>1. \A x \in Y : x.key \in Places(7)
    BY <1>11, <1>13
  <2>2. \A x, y \in Y : x.key = y.key => x = y
    BY <1>12, <1>13
  <2>3. /\ Y = {} => Top(Y) = Nil
        /\ Y # {} => Top(Y) \in Y
    BY <1>8, <2>1, <2>2, TopOfEntries
  <2> QED
    BY <1>1, <2>3
<1>15. PICK i \in I : Top(Y) = f[i]
  BY <1>13, <1>14
<1>16. Chosen(f[i], refs[i], cs, o)
  BY <1>4, <1>10 DEF Chosen
<1> QED
  BY <1>1, <1>15, <1>16 DEF I

(* So was one taken at last.                                                *)
LEMMA AtLastIsChosen ==
  ASSUME NEW W, NEW refs \in Seq(W), NEW cs \in Seq(Metadata), NEW o \in Demands,
         VerifiedAtLast(refs, cs, o) # Nil
  PROVE  \E i \in DOMAIN refs : Chosen(VerifiedAtLast(refs, cs, o), refs[i], cs, o)
<1>1. \A v, w : OrElse(v, w) = IF v = Nil THEN w ELSE v
  <2> TAKE v, w
  <2>1. {IF x = Nil THEN w ELSE x : x \in {v}} = {IF v = Nil THEN w ELSE v}
    OBVIOUS
  <2> QED
    BY <2>1, TheOne DEF OrElse
<1>2. VerifiedAtLast(refs, cs, o) \in
      {Nil, Verified(refs, cs, Asked(o)), Verified(refs, cs, Anyhow(o))}
  BY <1>1 DEF VerifiedAtLast
<1>3. Asked(o) \in Demands /\ Asked(o).version = o.version
  BY DEF Demands, Asked
<1>4. Anyhow(o) \in Demands /\ Anyhow(o).version = o.version
  BY DEF Demands, Anyhow
<1>5. \A p, ref, d : Chosen(p, ref, cs, d) /\ d.version = o.version => Chosen(p, ref, cs, o)
  BY DEF Chosen
<1> QED
  BY <1>2, <1>3, <1>4, <1>5, VerifiedIsChosen

-----------------------------------------------------------------------------
(* Metadata, and the references made of a file *)

LEMMA MixedMetadata ==
  \A md, new \in Metadata : \A keep \in BOOLEAN :
    Merge(md, new) \in Metadata /\ Fill(md, new, keep) \in Metadata
<1> SUFFICES ASSUME NEW md \in Metadata, NEW new \in Metadata, NEW keep \in BOOLEAN
             PROVE  Merge(md, new) \in Metadata /\ Fill(md, new, keep) \in Metadata
  OBVIOUS
<1>1. \A x, y, W : x \in W /\ y \in W => Or(x, y) \in W
  BY DEF Or
<1>2. Merge(md, new) \in Metadata
  <2>1. \A f \in DOMAIN md : Merge(md, new)[f] = Or(new[f], md[f])
    BY DEF Merge
  <2> QED
    BY <1>1 DEF Metadata, Merge
<1>3. Fill(md, new, keep) \in Metadata
  BY <1>1 DEF Metadata, Fill
<1> QED
  BY <1>2, <1>3

(* What a path spells out is metadata.                                      *)
LEMMA EntryIsMetadata ==
  ASSUME NEW t \in Word, NEW a \in Word, NEW b \in Word
  PROVE  /\ Entry(t, a, b) \in Metadata
         /\ Entry(t, a, b).title = t /\ Entry(t, a, b).artist = a /\ Entry(t, a, b).album = b
<1>1. \A l \in {"", "text"} : [title |-> t, artist |-> a, album |-> b, lyrics |-> l] \in Metadata
  BY DEF Metadata, Word
<1>2. Entry(t, a, b) \in Metadata
  BY <1>1, NoText, Zenon DEF Entry
<1> QED
  BY <1>2 DEF Entry

(* What a text spells out are texts.                                        *)
LEMMA SpeltWords ==
  ASSUME NEW t \in Word, Text[t].parsed # <<>>
  PROVE  Text[t].parsed[1] \in Word /\ Text[t].parsed[2] \in Word
<1>1. Text[t].parsed \in Word \X Word
  BY TextsAreRead DEF Word
<1> QED
  BY <1>1

(* The files and the configurations are as they were assumed.               *)
LEMMA FilesAreRead ==
  ASSUME NEW f \in Files
  PROVE  /\ f.tags \in Metadata /\ f.stem \in Word /\ f.artist \in Word /\ f.album \in Word
         /\ f.tags.title \in Word
<1>1. f.tags \in Metadata /\ f.stem \in Word /\ f.artist \in Word /\ f.album \in Word
  BY InputsAreMetadata DEF Word
<1> QED
  BY <1>1, FieldsOfMetadata

LEMMA ConfigsAreRead ==
  ASSUME NEW c \in Configs
  PROVE  /\ c.want \cup c.need \subseteq Fields
         /\ c.max \in BOOLEAN /\ c.version \in BOOLEAN
BY InputsAreMetadata DEF Fields

(* What the path says of a file is metadata, with its directory's album.    *)
LEMMA PathIsMetadata ==
  ASSUME NEW f \in Files
  PROVE  Turned(f) \in Metadata /\ Turned(f).album = f.album
<1> DEFINE p == Text[f.stem].parsed
<1>1. f.stem \in Word /\ f.artist \in Word /\ f.album \in Word /\ Text[f.stem].bare \in Word
  BY FilesAreRead, TextsOfWords, Zenon
<1>2. p # <<>> => p[1] \in Word /\ p[2] \in Word
  BY <1>1, SpeltWords
<1> DEFINE A == Entry(p[2], p[1], f.album)
           B == Entry(Text[f.stem].bare, f.artist, f.album)
           C == Entry(p[1], p[2], f.album)
<1>3. p # <<>> => A \in Metadata /\ A.album = f.album /\ C \in Metadata /\ C.album = f.album
  BY <1>1, <1>2, EntryIsMetadata
<1>4. B \in Metadata /\ B.album = f.album
  BY <1>1, EntryIsMetadata
<1>5. \/ Turned(f) = B
      \/ p # <<>> /\ Turned(f) \in {A, C}
  BY Zenon DEF Turned, Inferred
<1> HIDE DEF A, B, C, p
<1> QED
  BY <1>3, <1>4, <1>5

(* In an artist's directory the album is that of the tags, if any.          *)
LEMMA HousedIsMetadata ==
  ASSUME NEW tags \in Metadata, NEW d \in Metadata
  PROVE  /\ Housed(tags, d) \in Metadata
         /\ Housed(tags, d).album = d.album \/ ~HasValue(tags, "album")
            \/ Housed(tags, d).album = tags.album
<1> DEFINE b == IF HasValue(tags, "album") THEN tags.album ELSE ""
           A == Entry(d.title, d.album, b)
<1>1. b \in Word
  BY FieldsOfMetadata, NoWord, Zenon
<1>2. d.title \in Word /\ d.album \in Word
  BY FieldsOfMetadata
<1>3. HasValue(tags, "album") => b = tags.album
  BY Zenon
<1>4. Housed(tags, d) \in {A, d}
  BY Zenon DEF Housed
<1> HIDE DEF b
<1>5. A \in Metadata /\ A.album = b
  BY <1>1, <1>2, EntryIsMetadata
<1> HIDE DEF A
<1> QED
  BY <1>3, <1>4, <1>5

(* Other names for a file leave its lyrics, a valid artist and a valid      *)
(* album as they are; without an artist the directory's album goes first.   *)
LEMMA MatchingKeeps ==
  ASSUME NEW tags \in Metadata, NEW d \in Metadata, NEW p,
         p # <<>> => p[1] \in Word /\ p[2] \in Word
  PROVE  LET m == Matching(tags, d, p)
         IN /\ m \in Metadata /\ m.lyrics = tags.lyrics
            /\ HasValue(tags, "artist") => m.artist = tags.artist
            /\ HasValue(tags, "album") =>
               m.album = tags.album \/ (~HasValue(tags, "artist") /\ m.album = d.album /\ d.album # "")
<1> DEFINE album == IF HasValue(tags, "album") THEN tags.album ELSE d.album
           named(t, a, b) == [tags EXCEPT !.title = t, !.artist = a, !.album = b]
           t2 == IF Backwards(p, d) THEN d.title ELSE p[2]
           a2 == IF Backwards(p, d) THEN d.artist ELSE p[1]
           b3 == IF HasValue(tags, "album") THEN tags.album ELSE ""
           m == Matching(tags, d, p)
<1>1. /\ tags.title \in Word /\ tags.artist \in Word /\ tags.album \in Word
      /\ d.title \in Word /\ d.artist \in Word /\ d.album \in Word
  BY FieldsOfMetadata
<1>2. \A t, a, b \in Word :
        /\ named(t, a, b) \in Metadata /\ named(t, a, b).lyrics = tags.lyrics
        /\ named(t, a, b).artist = a /\ named(t, a, b).album = b
  BY DEF Metadata, Word
<1>3. [tags EXCEPT !.album = album] \in Metadata
      /\ [tags EXCEPT !.album = album].lyrics = tags.lyrics
      /\ [tags EXCEPT !.album = album].artist = tags.artist
      /\ [tags EXCEPT !.album = album].album = album
  <2>1. album \in Word
    BY <1>1
  <2> HIDE DEF album
  <2> QED
    BY <2>1 DEF Metadata, Word
<1>4. CASE HasValue(tags, "artist")
  <2>1. m = [tags EXCEPT !.album = album]
    BY <1>4, Zenon DEF Matching
  <2>2. HasValue(tags, "album") => album = tags.album
    BY Zenon
  <2> HIDE DEF m, album
  <2>3. /\ m \in Metadata /\ m.lyrics = tags.lyrics /\ m.artist = tags.artist
        /\ HasValue(tags, "album") => m.album = tags.album
    BY <1>3, <2>1, <2>2
  <2> QED
    BY <2>3, Zenon DEF m
<1>5. CASE ~HasValue(tags, "artist") /\ p # <<>>
  <2>1. m = [tags EXCEPT !.title = t2, !.artist = a2, !.album = album]
    BY <1>5, Zenon DEF Matching
  <2>2. HasValue(tags, "album") => album = tags.album
    BY Zenon
  <2>3. t2 \in Word /\ a2 \in Word /\ album \in Word
    BY <1>1, <1>5
  <2>4. m = named(t2, a2, album)
    BY <2>1
  <2> HIDE DEF m, album, t2, a2, named
  <2>5. m \in Metadata /\ m.lyrics = tags.lyrics /\ m.album = album
    BY <1>2, <2>3, <2>4
  <2>6. HasValue(tags, "album") => m.album = tags.album
    BY <2>2, <2>5, Zenon
  <2> QED
    BY <1>5, <2>5, <2>6, Zenon DEF m
<1>6. CASE ~HasValue(tags, "artist") /\ p = <<>> /\ (d.artist # "" \/ d.album # "")
  <2>1. m = [tags EXCEPT !.title = d.title, !.artist = d.artist, !.album = Or(d.album, b3)]
    BY <1>6 DEF Matching
  <2>2. HasValue(tags, "album") => b3 = tags.album
    BY Zenon
  <2>3. b3 \in Word
    BY <1>1, NoWord, Zenon
  <2> HIDE DEF b3
  <2>4. /\ Or(d.album, b3) \in Word
        /\ (Or(d.album, b3) = d.album /\ d.album # "") \/ Or(d.album, b3) = b3
    BY <1>1, <2>3 DEF Or
  <2>5. m = named(d.title, d.artist, Or(d.album, b3))
    BY <2>1
  <2> HIDE DEF m, named
  <2>6. m \in Metadata /\ m.lyrics = tags.lyrics /\ m.album = Or(d.album, b3)
    <3>1. d.title \in Word /\ d.artist \in Word /\ Or(d.album, b3) \in Word
      BY <1>1, <2>4
    <3> DEFINE b == Or(d.album, b3)
    <3>2. m = named(d.title, d.artist, b) /\ b \in Word
      BY <2>5, <3>1
    <3> HIDE DEF b
    <3>3. m \in Metadata /\ m.lyrics = tags.lyrics /\ m.album = b
      BY <1>2, <3>1, <3>2
    <3> QED
      BY <3>3 DEF b
  <2>7. HasValue(tags, "album") => m.album = tags.album \/ (m.album = d.album /\ d.album # "")
    BY <2>2, <2>4, <2>6, Zenon
  <2> QED
    BY <1>6, <2>6, <2>7, Zenon DEF m
<1>7. CASE ~HasValue(tags, "artist") /\ p = <<>> /\ ~(d.artist # "" \/ d.album # "")
  <2>1. m = tags
    BY <1>7, Zenon DEF Matching
  <2> QED
    BY <2>1, Zenon
<1> QED
  BY <1>4, <1>5, <1>6, <1>7, Zenon

(* Metadata without the marks of the title are metadata.                    *)
LEMMA StrippedIsMetadata ==
  ASSUME NEW md \in Metadata
  PROVE  Stripped(md) \in Metadata
<1> DEFINE t == Text[md.title].bare
           p == Text[t].parsed
<1>1. md.title \in Word /\ t \in Word
  BY FieldsOfMetadata, TextsOfWords
<1>2. p # <<>> => p[1] \in Word /\ p[2] \in Word
  BY <1>1, SpeltWords
<1>3. Or(t, md.title) \in Word
  BY <1>1 DEF Or
<1>4. \/ p # <<>> /\ Stripped(md) = [md EXCEPT !.title = p[2], !.artist = p[1]]
      \/ Stripped(md) = [md EXCEPT !.title = Or(t, md.title)]
  BY DEF Stripped
<1> HIDE DEF t, p
<1>5. \A x, y \in Word : /\ [md EXCEPT !.title = x, !.artist = y] \in Metadata
                         /\ [md EXCEPT !.title = x] \in Metadata
  BY DEF Metadata, Word
<1> QED
  BY <1>2, <1>3, <1>4, <1>5

\* What a job is made of; only a batch is given candidates.
JobTyped ==
  /\ job.file \in Files /\ job.config \in Configs /\ job.mode \in Modes
  /\ job.given \in Seq(Metadata) /\ job.knew \subseteq library
  /\ job.mode \in {"context", "forced"} => job.with \in Metadata
  /\ job.mode # "batch" => job.given = <<>>

\* What a file's own value has become: the same, or its directory's album.
Preserved(md, f) ==
  \/ md[f] = job.file.tags[f]
  \/ /\ f = "album" /\ ~HasValue(job.file.tags, "artist")
     /\ md[f] = job.file.album /\ job.file.album # ""

Referents ==
  {x \in [kind : {"contextual", "source", "inferred"}, md : Metadata] :
     x.kind = "source" => x.md = job.file.tags}

Referred(x) ==
  /\ {x.match, x.fallback, x.md, x.search} \subseteq Metadata
  /\ x.missing = Missing(job.file.tags, job.config.want \cup job.config.need)
  /\ x.refs \in Seq(Referents)
  /\ job.mode = "context" => x.verify
  /\ ~x.verify => \A f \in Fields : HasValue(job.file.tags, f) => Preserved(x.md, f)

(* What the match keeps of the file's values, it keeps merged with the      *)
(* tags.                                                                    *)
LEMMA MergedKeeps ==
  ASSUME JobTyped, NEW m \in Metadata, NEW f \in Fields,
         HasValue(job.file.tags, f), Preserved(m, f)
  PROVE  Preserved(Merge(job.file.tags, m), f)
<1>1. job.file.tags \in Metadata
  BY FilesAreRead DEF JobTyped
<1>2. Merge(job.file.tags, m)[f] = Or(m[f], job.file.tags[f])
  BY <1>1 DEF Merge, Metadata, Fields
<1> QED
  BY <1>2, Zenon DEF Preserved, Or

(* The references made of a file are what the invariant says of them.       *)
LEMMA FileIsReferred ==
  ASSUME JobTyped
  PROVE  Referred(References)
<1> DEFINE tags == job.file.tags
           path == Turned(job.file)
           spelt == IF Text[tags.title].parsed # <<>> THEN tags.title ELSE job.file.stem
           p == Text[spelt].parsed
           d == Housed(tags, path)
           match == Matching(tags, d, p)
           context == job.mode = "context"
           md == Merge(tags, match)
           x == Reference(path, match)
<1>1. /\ job.file \in Files /\ tags \in Metadata /\ job.file.stem \in Word /\ tags.title \in Word
      /\ path \in Metadata /\ path.album = job.file.album
  BY FilesAreRead, PathIsMetadata DEF JobTyped
<1>2. p # <<>> => p[1] \in Word /\ p[2] \in Word
  <2>1. spelt \in Word
    BY <1>1
  <2> HIDE DEF spelt
  <2> QED
    BY <2>1, SpeltWords
<1>3. /\ d \in Metadata
      /\ d.album = job.file.album \/ ~HasValue(tags, "album") \/ d.album = tags.album
  <2> HIDE DEF tags, path
  <2> QED
    BY <1>1, HousedIsMetadata
<1> HIDE DEF d, p, spelt, path
<1>4. /\ match \in Metadata /\ match.lyrics = tags.lyrics
      /\ HasValue(tags, "artist") => match.artist = tags.artist
      /\ HasValue(tags, "album") =>
         match.album = tags.album \/ (~HasValue(tags, "artist") /\ match.album = d.album /\ d.album # "")
  <2> HIDE DEF tags
  <2> QED
    BY <1>1, <1>2, <1>3, MatchingKeeps
<1>5. References = x
  <2>1. References = The({Reference(y, Matching(tags, Housed(tags, y), p)) : y \in {path}})
    BY Zenon DEF References, p, spelt, path
  <2>2. {Reference(y, Matching(tags, Housed(tags, y), p)) : y \in {path}} = {x}
    BY DEF d
  <2> QED
    BY <2>1, <2>2, TheOne
<1>6. \A f \in Fields : HasValue(tags, f) => Preserved(match, f)
  <2>1. CASE HasValue(tags, "artist")
    BY <1>4, <2>1, Zenon DEF Preserved, Fields
  <2>2. CASE ~HasValue(tags, "artist")
    BY <1>3, <1>4, <2>2, Zenon DEF Preserved, Fields
  <2> QED
    BY <2>1, <2>2
<1> HIDE DEF match
<1>7. /\ x.match = IF context THEN Merge(match, job.with) ELSE match
      /\ x.fallback = IF context THEN job.with ELSE path
      /\ x.md = IF context THEN Merge(md, job.with) ELSE md
      /\ x.missing = Missing(tags, job.config.want \cup job.config.need)
      /\ x.verify = (context \/ (job.mode # "forced" /\ Doubtful(job.file, match, md)))
      /\ x.search = IF context THEN job.with ELSE Stripped(md)
      /\ x.refs = IF context THEN <<[kind |-> "contextual", md |-> job.with]>>
                  ELSE IF SameKey(tags, path) THEN <<[kind |-> "source", md |-> tags]>>
                  ELSE <<[kind |-> "source", md |-> tags], [kind |-> "inferred", md |-> path]>>
  BY DEF Reference
<1> HIDE DEF x
<1>8. context => job.with \in Metadata
  BY DEF JobTyped
<1>9. md \in Metadata /\ Stripped(md) \in Metadata
  <2>1. md \in Metadata
    BY <1>1, <1>4, MixedMetadata
  <2> HIDE DEF md
  <2> QED
    BY <2>1, StrippedIsMetadata
<1>10. {x.match, x.fallback, x.md, x.search} \subseteq Metadata
  <2>1. context => Merge(match, job.with) \in Metadata /\ Merge(md, job.with) \in Metadata
    BY <1>4, <1>8, <1>9, MixedMetadata
  <2> HIDE DEF context, md
  <2>2. x.match \in Metadata /\ x.fallback \in Metadata /\ x.md \in Metadata /\ x.search \in Metadata
    BY <1>1, <1>4, <1>7, <1>8, <1>9, <2>1
  <2> QED
    BY <2>2
<1>11. x.refs \in Seq(Referents)
  <2> DEFINE a == [kind |-> "contextual", md |-> job.with]
             b == [kind |-> "source", md |-> tags]
             c == [kind |-> "inferred", md |-> path]
  <2>1. (context => a \in Referents) /\ b \in Referents /\ c \in Referents
    BY <1>1, <1>8 DEF Referents
  <2>2. x.refs \in {<<b>>, <<b, c>>} \/ (context /\ x.refs = <<a>>)
    BY <1>7, Zenon
  <2> HIDE DEF a, b, c
  <2> QED
    BY <2>1, <2>2, ListOfOne, ListOfTwo, Zenon
<1>12. context => x.verify
  BY <1>7, Zenon
<1>13. ~context => \A f \in Fields : HasValue(tags, f) => Preserved(x.md, f)
  <2>1. \A f \in Fields : HasValue(tags, f) => Preserved(md, f)
    BY <1>4, <1>6, MergedKeeps
  <2> QED
    BY <1>7, <2>1, Zenon
<1>14. x.missing = Missing(job.file.tags, job.config.want \cup job.config.need)
  BY <1>7
<1>15. Referred(x)
  BY <1>10, <1>11, <1>12, <1>13, <1>14, Zenon DEF Referred
<1> QED
  BY <1>5, <1>15, Zenon

-----------------------------------------------------------------------------
(* The invariant *)

(* A pick: metadata, selected by a reference that the file's own tags are   *)
(* if it is called so, and of the reference's version as long as the        *)
(* artist library stays as it was.                                          *)
Picked(p) ==
  /\ p.pick \in Metadata /\ p.md \in Metadata
  /\ p.kind = "source" => p.md = job.file.tags
  /\ library = job.knew /\ job.config.version => Score(p.md, p.pick, job.file).same

Referring == {"lookup", "lookupPath", "looked", "search", "searchPath", "decide", "record", "done"}

Phase ==
  /\ pc \in {"idle", "preload", "process"} \cup Referring
  /\ pc \in Referring => Referred(r)
  /\ r # Nil => Referred(r)
  /\ cands \in Seq(Metadata)
  /\ pick # Nil => Picked(pick)

Decided ==
  /\ pc \in {"decide", "record", "done"} \/ (by = "tags" /\ out = Nil)
  /\ pc = "searchPath" => ~r.verify
  /\ pc = "decide" => out = Nil /\ by \in {"tags", "path"}
  /\ pc = "decide" /\ job.mode # "forced" /\ pick # Nil =>
       IF r.verify THEN pick.kind \in {"contextual", "source", "inferred"}
       ELSE pick.md = Basis

NotBegun == job = Nil /\ r = Nil /\ cands = <<>> /\ pick = Nil /\ by = "tags" /\ out = Nil

Inv ==
  IF pc = "idle" THEN NotBegun
  ELSE JobTyped /\ Phase /\ Decided

(* The options of a selection are well formed.                              *)
LEMMA OptionsAreDemands ==
  ASSUME JobTyped, NEW x, Referred(x)
  PROVE  Options(x) \in Demands /\ Options(x).version = job.config.version
<1>1. x.missing \subseteq Fields
  BY ConfigsAreRead DEF Referred, Missing, JobTyped
<1>2. /\ job.config.need \subseteq Fields /\ job.config.max \in BOOLEAN
      /\ job.config.version \in BOOLEAN
  BY ConfigsAreRead DEF JobTyped
<1> QED
  BY <1>1, <1>2 DEF Options, Demands

(* What is chosen is a pick: from a list, by a reference, or of several.    *)
LEMMA ChosenIsPicked ==
  ASSUME NEW p, NEW ref, NEW cs \in Seq(Metadata), NEW o, Chosen(p, ref, cs, o),
         o.version = job.config.version,
         ref.md \in Metadata, ref.kind = "source" => ref.md = job.file.tags
  PROVE  Picked(p) /\ p.md = ref.md /\ p.kind = ref.kind
<1>1. p.pick \in Metadata
  BY ElementsOfList, Zenon DEF Chosen
<1> QED
  BY <1>1 DEF Chosen, Picked

LEMMA PlainIsPicked ==
  ASSUME JobTyped, NEW x, Referred(x), NEW cs \in Seq(Metadata)
  PROVE  /\ LET p == Best(ByTags(x), cs, Options(x))
            IN p # Nil => Picked(p) /\ p.md = x.match
         /\ LET p == Best(ByPath(x), cs, Options(x))
            IN p # Nil => Picked(p) /\ p.md = x.fallback
<1>1. Options(x) \in Demands /\ Options(x).version = job.config.version
  BY OptionsAreDemands
<1>2. x.match \in Metadata /\ x.fallback \in Metadata
  BY DEF Referred
<1>3. /\ ByTags(x).md = x.match /\ ByTags(x).kind # "source"
      /\ ByPath(x).md = x.fallback /\ ByPath(x).kind # "source"
  BY DEF ByTags, ByPath
<1>4. ASSUME NEW ref, ref.md \in Metadata, ref.kind # "source",
             Best(ref, cs, Options(x)) # Nil
      PROVE  Picked(Best(ref, cs, Options(x))) /\ Best(ref, cs, Options(x)).md = ref.md
  <2>1. Chosen(Best(ref, cs, Options(x)), ref, cs, Options(x))
    BY <1>1, <1>4, BestIsChosen
  <2> QED
    BY <1>1, <1>4, <2>1, ChosenIsPicked
<1> QED
  BY <1>2, <1>3, <1>4

LEMMA VerifiedIsPicked ==
  ASSUME JobTyped, NEW x, Referred(x), NEW cs \in Seq(Metadata)
  PROVE  /\ LET p == Verified(x.refs, cs, Asked(Options(x)))
            IN p # Nil => Picked(p) /\ p.kind \in {"contextual", "source", "inferred"}
         /\ LET p == VerifiedAtLast(x.refs, cs, Options(x))
            IN p # Nil => Picked(p) /\ p.kind \in {"contextual", "source", "inferred"}
<1> DEFINE o == Options(x)
<1>1. o \in Demands /\ o.version = job.config.version
  BY OptionsAreDemands
<1>2. x.refs \in Seq(Referents)
  BY DEF Referred
<1>3. \A i \in DOMAIN x.refs : x.refs[i] \in Referents
  BY <1>2, ElementsOfList, Zenon
<1> HIDE DEF o
<1>5. Asked(o) \in Demands /\ Asked(o).version = job.config.version
  BY <1>1 DEF Asked, Demands
<1>6. ASSUME NEW p, NEW d, d.version = job.config.version, NEW i \in DOMAIN x.refs,
             Chosen(p, x.refs[i], cs, d)
      PROVE  Picked(p) /\ p.kind \in {"contextual", "source", "inferred"}
  <2> DEFINE ref == x.refs[i]
  <2>1. /\ ref.md \in Metadata /\ ref.kind \in {"contextual", "source", "inferred"}
        /\ ref.kind = "source" => ref.md = job.file.tags
    <3>1. ref \in Referents
      BY <1>3
    <3> HIDE DEF ref
    <3> QED
      BY <3>1 DEF Referents
  <2>2. Chosen(p, ref, cs, d)
    BY <1>6
  <2> HIDE DEF ref
  <2>3. Picked(p) /\ p.kind = ref.kind
    BY <1>6, <2>1, <2>2, ChosenIsPicked
  <2> QED
    BY <2>1, <2>3
<1>7. Verified(x.refs, cs, Asked(o)) # Nil =>
      \E i \in DOMAIN x.refs : Chosen(Verified(x.refs, cs, Asked(o)), x.refs[i], cs, Asked(o))
  BY <1>2, <1>5, VerifiedIsChosen
<1>8. VerifiedAtLast(x.refs, cs, o) # Nil =>
      \E i \in DOMAIN x.refs : Chosen(VerifiedAtLast(x.refs, cs, o), x.refs[i], cs, o)
  BY <1>1, <1>2, AtLastIsChosen
<1> QED
  BY <1>1, <1>5, <1>6, <1>7, <1>8 DEF o

(* What is found online is a list of metadata.                              *)
LEMMA OnlineIsListed ==
  ASSUME JobTyped, Referred(r), NEW a \in Replies
  PROVE  Online(a) \in Seq(Metadata) /\ Search(r.fallback, r.fallback, a) \in Seq(Metadata)
<1>1. r.search \in Metadata /\ r.match \in Metadata /\ r.fallback \in Metadata
  BY DEF Referred
<1>2. job.file.tags \in Metadata
  BY FilesAreRead DEF JobTyped
<1> DEFINE t == IF r.verify THEN r.search ELSE job.file.tags
           m == IF r.verify THEN r.search ELSE r.match
<1>3. t \in Metadata /\ m \in Metadata
  BY <1>1, <1>2
<1>4. Online(a) = Search(t, m, a)
  BY DEF Online
<1> HIDE DEF t, m
<1> QED
  BY <1>1, <1>3, <1>4, SearchIsListed

(* The same job and the same library keep what is known of them.            *)
LEMMA JobGoesOn ==
  ASSUME JobTyped, UNCHANGED job, library \subseteq library'
  PROVE  JobTyped' /\ \A x : Referred(x) => Referred(x)'
BY DEF JobTyped, Referred, Referents, Preserved

(* A pick remains one while nothing is learned; and when something is.      *)
LEMMA PickGoesOn ==
  ASSUME UNCHANGED <<job, library>>
  PROVE  \A p : Picked(p) <=> Picked(p)'
<1>1. \A m, c, f : Score(m, c, f) = Score(m, c, f)'
  BY DEF Score, SameCredits, ArtistMatch, ArtistScore, DuetScore, Alike
<1> QED
  BY <1>1 DEF Picked

LEMMA PickIsLearned ==
  ASSUME UNCHANGED job, JobTyped, library \subseteq library', library' # library
  PROVE  \A p : Picked(p) => Picked(p)'
BY DEF Picked, JobTyped

(* What is gathered is a list of metadata.                                  *)
LEMMA GatheredIsListed ==
  ASSUME NEW new \in Seq(Metadata), cands \in Seq(Metadata), Gathered(new)
  PROVE  cands' \in Seq(Metadata)
BY GatherKeepsKeys DEF Gathered

(* Once the references are made, a step that leaves the job and the library *)
(* as they are keeps the invariant if what is picked by then is a pick.     *)
LEMMA PhaseGoesOn ==
  ASSUME JobTyped, Phase, UNCHANGED <<job, library, r>>, Referred(r),
         cands' \in Seq(Metadata), pick' # Nil => Picked(pick'),
         pc' \in {"process"} \cup Referring
  PROVE  JobTyped' /\ Phase'
<1>1. JobTyped' /\ Referred(r)'
  BY JobGoesOn
<1>2. pick' # Nil => Picked(pick)'
  BY PickGoesOn
<1> QED
  BY <1>1, <1>2 DEF Phase

(* Every step keeps the invariant.                                          *)
LEMMA BeginKeeps == Inv /\ Begin => Inv'
<1> SUFFICES ASSUME Inv, Begin PROVE Inv'
  OBVIOUS
<1>1. NotBegun
  BY DEF Inv, Begin
<1>2. PICK f \in Files, c \in Configs, m \in Modes, g \in Given :
       /\ m \in {"context", "forced"} => g # <<>>
       /\ job' = [file |-> f, config |-> c, mode |-> m,
                  given |-> IF m = "batch" THEN g ELSE <<>>,
                  knew |-> library,
                  with |-> IF m \in {"context", "forced"} THEN [Head(g) EXCEPT !.lyrics = ""]
                           ELSE Nil]
       /\ cands' = job'.given
       /\ pc' \in {"preload", "process"}
  BY Zenon DEF Begin
<1>3. g \in Seq(Metadata) /\ <<>> \in Seq(Metadata)
  BY ListOfNone, InputsAreMetadata, Zenon
<1>4. g # <<>> => Head(g) \in Metadata
  BY <1>3
<1>5. m \in {"context", "forced"} => [Head(g) EXCEPT !.lyrics = ""] \in Metadata
  BY <1>2, <1>4, OtherLyrics, NoText, Zenon
<1> DEFINE w == [Head(g) EXCEPT !.lyrics = ""]
           v == IF m = "batch" THEN g ELSE <<>>
<1>6. v \in Seq(Metadata)
  BY <1>3
<1>7. /\ job'.file = f /\ job'.config = c /\ job'.mode = m /\ job'.given = v /\ job'.knew = library
      /\ m \in {"context", "forced"} => job'.with = w
  BY <1>2
<1> HIDE DEF w, v
<1>8. library' = library /\ r' = r /\ pick' = pick /\ by' = by /\ out' = out
  BY DEF Begin
<1>9. JobTyped'
  <2>1. m \in {"context", "forced"} => w \in Metadata
    BY <1>5 DEF w
  <2>2. m # "batch" => v = <<>>
    BY DEF v
  <2> QED
    BY <1>6, <1>7, <1>8, <2>1, <2>2 DEF JobTyped
<1>10. Phase' /\ Decided'
  BY <1>1, <1>2, <1>6, <1>7, <1>8 DEF Phase, Decided, NotBegun, Referring
<1>11. pc' # "idle"
  BY <1>2
<1> QED
  BY <1>9, <1>10, <1>11 DEF Inv

LEMMA LearnKeeps == Inv /\ Learn => Inv'
<1> SUFFICES ASSUME Inv, Learn PROVE Inv'
  OBVIOUS
<1>1. /\ UNCHANGED <<pc, job, r, cands, pick, by, out>>
      /\ library \subseteq library' /\ library' # library
      /\ pc \in {"idle", "preload", "process"}
  BY DEF Learn
<1>2. CASE pc = "idle"
  BY <1>1, <1>2 DEF Inv, NotBegun
<1>3. CASE pc # "idle"
  <2>1. JobTyped /\ Phase /\ Decided
    BY <1>3 DEF Inv
  <2>2. JobTyped' /\ (r # Nil => Referred(r)')
    BY <1>1, <2>1, JobGoesOn DEF Phase
  <2>3. pick # Nil => Picked(pick)'
    BY <1>1, <2>1, PickIsLearned DEF Phase
  <2>4. Phase'
    BY <1>1, <2>1, <2>2, <2>3 DEF Phase, Referring
  <2>5. Decided'
    BY <1>1, <2>1 DEF Decided
  <2> QED
    BY <1>1, <1>3, <2>2, <2>4, <2>5 DEF Inv
<1> QED
  BY <1>2, <1>3

LEMMA PreloadKeeps == Inv /\ Preload => Inv'
<1> SUFFICES ASSUME Inv, Preload PROVE Inv'
  OBVIOUS
<1>1. /\ pc = "preload" /\ r' = References /\ UNCHANGED <<library, job, cands, by, out>>
      /\ pc' \in {"process", "lookup", "looked"}
      /\ pick' = IF r'.verify THEN Verified(r'.refs, cands, Asked(Options(r')))
                 ELSE Best(ByTags(r'), cands, Options(r'))
  BY DEF Preload, Refer
<1>2. JobTyped /\ Phase /\ Decided
  BY <1>1 DEF Inv
<1>3. Referred(r')
  BY <1>1, <1>2, FileIsReferred
<1>4. JobTyped' /\ Referred(r)'
  BY <1>1, <1>2, <1>3, JobGoesOn
<1>5. pick' # Nil => Picked(pick')
  BY <1>1, <1>2, <1>3, PlainIsPicked, VerifiedIsPicked DEF Phase
<1>6. pick' # Nil => Picked(pick)'
  BY <1>1, <1>5, PickGoesOn
<1>7. Phase'
  BY <1>1, <1>2, <1>4, <1>6 DEF Phase, Referring
<1>8. Decided' /\ pc' # "idle"
  BY <1>1, <1>2 DEF Decided
<1> QED
  BY <1>4, <1>7, <1>8 DEF Inv

LEMMA RaisingKeeps == Inv /\ PreloadRaises => Inv'
<1> SUFFICES ASSUME Inv, PreloadRaises PROVE Inv'
  OBVIOUS
<1>1. /\ pc \in {"preload", "lookup", "lookupPath"} /\ UNCHANGED <<library, job, r, by, out>>
      /\ pc' = "process" /\ cands' = job.given /\ pick' = Nil
  BY DEF PreloadRaises
<1>2. JobTyped /\ Phase /\ Decided
  BY <1>1 DEF Inv
<1>3. JobTyped' /\ (r # Nil => Referred(r)')
  BY <1>1, <1>2, JobGoesOn DEF Phase
<1>4. cands' \in Seq(Metadata)
  BY <1>1, <1>2 DEF JobTyped
<1>5. Phase'
  BY <1>1, <1>3, <1>4 DEF Phase, Referring
<1>6. Decided' /\ pc' # "idle"
  BY <1>1, <1>2 DEF Decided
<1> QED
  BY <1>3, <1>5, <1>6 DEF Inv

(* Candidates from online join those at hand, and one is selected.          *)
LEMMA SelectedIsPicked ==
  ASSUME JobTyped, Referred(r), cands \in Seq(Metadata), NEW a \in Replies,
         Gathered(Online(a)), Selected(Online(a)) # Nil
  PROVE  /\ cands' \in Seq(Metadata) /\ Picked(Selected(Online(a)))
         /\ IF r.verify THEN Selected(Online(a)).kind \in {"contextual", "source", "inferred"}
            ELSE Selected(Online(a)).md = r.match
<1>1. Online(a) \in Seq(Metadata) /\ cands' \in Seq(Metadata)
  BY OnlineIsListed, GatheredIsListed
<1> DEFINE l == IF job.config.max THEN cands' ELSE Online(a)
<1>2. l \in Seq(Metadata)
  BY <1>1
<1>3. /\ r.verify => Selected(Online(a)) = VerifiedAtLast(r.refs, cands', Options(r))
      /\ ~r.verify => Selected(Online(a)) = Best(ByTags(r), l, Options(r))
  BY Zenon DEF Selected
<1> HIDE DEF l
<1>4. CASE r.verify
  BY <1>1, <1>3, <1>4, VerifiedIsPicked
<1>5. CASE ~r.verify
  <2> DEFINE p == Best(ByTags(r), l, Options(r))
  <2>1. p # Nil => Picked(p) /\ p.md = r.match
    BY <1>2, PlainIsPicked
  <2>2. Selected(Online(a)) = p
    BY <1>3, <1>5
  <2> HIDE DEF p
  <2> QED
    BY <1>1, <1>5, <2>1, <2>2
<1> QED
  BY <1>1, <1>4, <1>5

LEMMA LookupKeeps == Inv /\ Lookup => Inv'
<1> SUFFICES ASSUME Inv, Lookup PROVE Inv'
  OBVIOUS
<1>1. PICK a \in Replies : Gathered(Online(a)) /\ pick' = Selected(Online(a))
  BY DEF Lookup
<1>2. /\ pc = "lookup" /\ UNCHANGED <<library, job, r, by, out>> /\ pc' \in {"lookupPath", "looked"}
  BY DEF Lookup
<1>3. JobTyped /\ Phase /\ Decided /\ Referred(r) /\ cands \in Seq(Metadata)
  BY <1>2 DEF Inv, Phase, Referring
<1>4. cands' \in Seq(Metadata)
  BY <1>1, <1>3, OnlineIsListed, GatheredIsListed
<1>5. pick' # Nil => Picked(pick')
  BY <1>1, <1>3, SelectedIsPicked
<1>6. JobTyped' /\ Phase'
  BY <1>2, <1>3, <1>4, <1>5, PhaseGoesOn DEF Referring
<1>7. Decided' /\ pc' # "idle"
  BY <1>2, <1>3 DEF Decided
<1> QED
  BY <1>6, <1>7 DEF Inv

LEMMA LookupPathKeeps == Inv /\ LookupPath => Inv'
<1> SUFFICES ASSUME Inv, LookupPath PROVE Inv'
  OBVIOUS
<1>1. PICK a \in Replies :
        /\ Gathered(Search(r.fallback, r.fallback, a))
        /\ pick' = Best(ByPath(r), Search(r.fallback, r.fallback, a), Options(r))
  BY DEF LookupPath
<1>2. /\ pc = "lookupPath" /\ UNCHANGED <<library, job, r, by, out>> /\ pc' = "looked"
  BY DEF LookupPath
<1>3. JobTyped /\ Phase /\ Decided /\ Referred(r) /\ cands \in Seq(Metadata)
  BY <1>2 DEF Inv, Phase, Referring
<1>4. Search(r.fallback, r.fallback, a) \in Seq(Metadata)
  BY <1>3, OnlineIsListed
<1>5. cands' \in Seq(Metadata)
  BY <1>1, <1>3, <1>4, GatheredIsListed
<1>6. pick' # Nil => Picked(pick')
  BY <1>1, <1>3, <1>4, PlainIsPicked
<1>7. JobTyped' /\ Phase'
  BY <1>2, <1>3, <1>5, <1>6, PhaseGoesOn DEF Referring
<1>8. Decided' /\ pc' # "idle"
  BY <1>2, <1>3 DEF Decided
<1> QED
  BY <1>7, <1>8 DEF Inv

LEMMA LookedUpKeeps == Inv /\ LookedUp => Inv'
<1> SUFFICES ASSUME Inv, LookedUp PROVE Inv'
  OBVIOUS
<1>1. /\ pc = "looked" /\ UNCHANGED <<library, job, r, by, out>> /\ pc' = "process" /\ pick' = Nil
      /\ cands' = IF job.mode = "batch" THEN cands
                  ELSE IF pick = Nil THEN <<>> ELSE <<pick.pick>>
  BY DEF LookedUp
<1>2. JobTyped /\ Phase /\ Decided /\ Referred(r) /\ cands \in Seq(Metadata)
  BY <1>1 DEF Inv, Phase, Referring
<1>3. cands' \in Seq(Metadata)
  <2>1. pick # Nil => <<pick.pick>> \in Seq(Metadata)
    BY <1>2, ListOfOne DEF Phase, Picked
  <2> QED
    BY <1>1, <1>2, <2>1, ListOfNone, Zenon
<1>4. JobTyped' /\ Phase'
  BY <1>1, <1>2, <1>3, PhaseGoesOn DEF Referring
<1>5. Decided' /\ pc' # "idle"
  BY <1>1, <1>2 DEF Decided
<1> QED
  BY <1>4, <1>5 DEF Inv

LEMMA ProcessKeeps == Inv /\ Process => Inv'
<1> SUFFICES ASSUME Inv, Process PROVE Inv'
  OBVIOUS
<1>1. /\ pc = "process" /\ r' = References /\ UNCHANGED <<library, job, cands, by, out>>
      /\ pc' \in {"search", "decide"}
  BY DEF Process, Refer
<1>2. \/ pick' = Nil
      \/ ~r'.verify /\ pick' = Best(ByTags(r'), cands, Options(r'))
      \/ r'.verify /\ pick' = VerifiedAtLast(r'.refs, cands, Options(r'))
  BY DEF Process
<1>3. JobTyped /\ Phase /\ Decided /\ cands \in Seq(Metadata)
  BY <1>1 DEF Inv, Phase
<1>4. Referred(r')
  BY <1>1, <1>3, FileIsReferred
<1>5. JobTyped' /\ Referred(r)'
  BY <1>1, <1>3, <1>4, JobGoesOn
<1>6. pick' # Nil => /\ Picked(pick')
                     /\ IF r'.verify THEN pick'.kind \in {"contextual", "source", "inferred"}
                        ELSE pick'.md = r'.match
  BY <1>2, <1>3, <1>4, PlainIsPicked, VerifiedIsPicked
<1>7. pick' # Nil => Picked(pick)'
  BY <1>1, <1>6, PickGoesOn
<1>8. Phase'
  BY <1>1, <1>3, <1>5, <1>7 DEF Phase, Referring
<1>9. Decided' /\ pc' # "idle"
  BY <1>1, <1>3, <1>6 DEF Decided, Basis
<1> QED
  BY <1>5, <1>8, <1>9 DEF Inv

LEMMA SearchOnlineKeeps == Inv /\ SearchOnline => Inv'
<1> SUFFICES ASSUME Inv, SearchOnline PROVE Inv'
  OBVIOUS
<1>1. PICK a \in Replies : Gathered(Online(a)) /\ pick' = Selected(Online(a))
  BY DEF SearchOnline
<1>2. /\ pc = "search" /\ UNCHANGED <<library, job, r, by, out>>
      /\ pc' \in {"searchPath", "decide"} /\ (pc' = "searchPath" => ~r.verify)
  BY DEF SearchOnline
<1>3. JobTyped /\ Phase /\ Decided /\ Referred(r) /\ cands \in Seq(Metadata)
  BY <1>2 DEF Inv, Phase, Referring
<1>4. cands' \in Seq(Metadata)
  BY <1>1, <1>3, OnlineIsListed, GatheredIsListed
<1>5. pick' # Nil => /\ Picked(pick')
                     /\ IF r.verify THEN pick'.kind \in {"contextual", "source", "inferred"}
                        ELSE pick'.md = r.match
  BY <1>1, <1>3, SelectedIsPicked
<1>6. JobTyped' /\ Phase'
  BY <1>2, <1>3, <1>4, <1>5, PhaseGoesOn DEF Referring
<1>7. Decided' /\ pc' # "idle"
  BY <1>2, <1>3, <1>5 DEF Decided, Basis
<1> QED
  BY <1>6, <1>7 DEF Inv

LEMMA SearchPathKeeps == Inv /\ SearchPath => Inv'
<1> SUFFICES ASSUME Inv, SearchPath PROVE Inv'
  OBVIOUS
<1>1. PICK a \in Replies :
        /\ Gathered(Search(r.fallback, r.fallback, a))
        /\ pick' = Best(ByPath(r), Search(r.fallback, r.fallback, a), Options(r))
  BY DEF SearchPath
<1>2. /\ pc = "searchPath" /\ UNCHANGED <<library, job, r, out>> /\ pc' = "decide" /\ by' = "path"
  BY DEF SearchPath
<1>3. JobTyped /\ Phase /\ Decided /\ Referred(r) /\ cands \in Seq(Metadata)
  BY <1>2 DEF Inv, Phase, Referring
<1>4. Search(r.fallback, r.fallback, a) \in Seq(Metadata)
  BY <1>3, OnlineIsListed
<1>5. cands' \in Seq(Metadata)
  BY <1>1, <1>3, <1>4, GatheredIsListed
<1>6. pick' # Nil => Picked(pick') /\ pick'.md = r.fallback
  BY <1>1, <1>3, <1>4, PlainIsPicked
<1>7. JobTyped' /\ Phase'
  BY <1>2, <1>3, <1>5, <1>6, PhaseGoesOn DEF Referring
<1>8. Decided' /\ pc' # "idle"
  BY <1>2, <1>3, <1>6 DEF Decided, Basis
<1> QED
  BY <1>7, <1>8 DEF Inv

LEMMA DecideKeeps == Inv /\ Decide => Inv'
<1> SUFFICES ASSUME Inv, Decide PROVE Inv'
  OBVIOUS
<1>1. pc = "decide" /\ pc' = "record" /\ UNCHANGED <<library, job, r, cands, pick, by>>
  BY DEF Decide
<1>2. JobTyped /\ Phase /\ Decided /\ Referred(r)
  BY <1>1 DEF Inv, Phase, Referring
<1>3. cands' \in Seq(Metadata) /\ (pick' # Nil => Picked(pick'))
  BY <1>1, <1>2 DEF Phase
<1>4. JobTyped' /\ Phase'
  BY <1>1, <1>2, <1>3, PhaseGoesOn DEF Referring
<1>5. Decided' /\ pc' # "idle"
  BY <1>1 DEF Decided
<1> QED
  BY <1>4, <1>5 DEF Inv

LEMMA RecordKeeps == Inv /\ Record => Inv'
<1> SUFFICES ASSUME Inv, Record PROVE Inv'
  OBVIOUS
<1>1. /\ pc = "record" /\ pc' = "done" /\ UNCHANGED <<job, r, cands, pick, by, out>>
      /\ library \subseteq library'
  BY DEF Record
<1>2. JobTyped /\ Phase /\ Decided /\ Referred(r)
  BY <1>1 DEF Inv, Phase, Referring
<1>3. JobTyped' /\ Referred(r)'
  BY <1>1, <1>2, JobGoesOn
<1>4. pick # Nil => Picked(pick)'
  <2>1. CASE library' = library
    BY <1>1, <1>2, <2>1, PickGoesOn DEF Phase
  <2>2. CASE library' # library
    BY <1>1, <1>2, <2>2, PickIsLearned DEF Phase
  <2> QED
    BY <2>1, <2>2
<1>5. Phase'
  BY <1>1, <1>2, <1>3, <1>4 DEF Phase, Referring
<1>6. Decided' /\ pc' # "idle"
  BY <1>1 DEF Decided
<1> QED
  BY <1>3, <1>5, <1>6 DEF Inv

(* So the invariant holds.                                                  *)
LEMMA InvHolds ==
  SelectionSpec => []Inv
<1>1. SelectionInit => Inv
  BY DEF SelectionInit, Inv, NotBegun
<1>2. Inv /\ [SelectionNext]_selectionVars => Inv'
  <2> SUFFICES ASSUME Inv, [SelectionNext]_selectionVars PROVE Inv'
    OBVIOUS
  <2>1. CASE UNCHANGED selectionVars
    <3>1. UNCHANGED <<library, pc, job, r, cands, pick, by, out>>
      BY <2>1 DEF selectionVars
    <3>2. CASE pc = "idle"
      BY <3>1, <3>2 DEF Inv, NotBegun
    <3>3. CASE pc # "idle"
      <4>1. JobTyped /\ Phase /\ Decided
        BY <3>3 DEF Inv
      <4>2. JobTyped' /\ (r # Nil => Referred(r)') /\ (Referred(r) => Referred(r)')
        BY <3>1, <4>1, JobGoesOn DEF Phase
      <4>3. pick # Nil => Picked(pick)'
        BY <3>1, <4>1, PickGoesOn DEF Phase
      <4>4. Phase'
        BY <3>1, <4>1, <4>2, <4>3 DEF Phase
      <4>5. Decided'
        BY <3>1, <4>1 DEF Decided, Basis
      <4> QED
        BY <3>1, <3>3, <4>2, <4>4, <4>5 DEF Inv
    <3> QED
      BY <3>2, <3>3
  <2> QED
    BY <2>1, BeginKeeps, LearnKeeps, PreloadKeeps, RaisingKeeps, LookupKeeps, LookupPathKeeps,
       LookedUpKeeps, ProcessKeeps, SearchOnlineKeeps, SearchPathKeeps, DecideKeeps, RecordKeeps
       DEF SelectionNext
<1> QED
  BY <1>1, <1>2, PTL DEF SelectionSpec

-----------------------------------------------------------------------------
(* What a file has become *)

LEMMA CanonicalName ==
  ASSUME NEW a \in Word
  PROVE  /\ Canonical(a) \in Word /\ Alike(Canonical(a), a)
         /\ Text[a].value => Text[Canonical(a)].value /\ Canonical(a) # ""
<1> DEFINE b == Text[a].canon
<1>1. b \in Word /\ Text[b].canon = b /\ (Text[a].value => Text[b].value)
  BY TextsAreRead DEF Word
<1>2. ~Text[""].value
  BY TextsAreRead, Zenon
<1>3. \/ Canonical(a) = b /\ b \in library
      \/ Canonical(a) = a
  BY DEF Canonical
<1>4. Canonical(a) \in Word /\ Alike(Canonical(a), a)
  BY <1>1, <1>3 DEF Alike
<1>5. Text[a].value => Text[Canonical(a)].value
  BY <1>1, <1>3, Zenon
<1>6. Text[Canonical(a)].value => Canonical(a) # ""
  BY <1>2, Zenon
<1> QED
  BY <1>4, <1>5, <1>6, Zenon

(* What a result, failed or organised, says.                                *)
LEMMA FailedFields ==
  \A md, kind, ref :
    Failed(md, kind, ref).status = "failed" /\ Failed(md, kind, ref).pick = Nil
BY DEF Failed

LEMMA OrganisedFields ==
  \A md, kind, ref, p, writes :
    /\ Organised(md, kind, ref, p, writes).by = kind
    /\ Organised(md, kind, ref, p, writes).ref = ref
    /\ Organised(md, kind, ref, p, writes).pick = p
BY DEF Organised

LEMMA TagsWritten ==
  \A md, kind, ref, p :
    /\ Organised(md, kind, ref, p, TRUE).tags =
       Merge(job.file.tags, [md EXCEPT !.artist = Canonical(md.artist)])
    /\ Organised(md, kind, ref, p, FALSE).tags = job.file.tags
BY DEF Organised

(* What is written is the metadata with the artist's canonical name.        *)
LEMMA WrittenFields ==
  ASSUME NEW tags \in Metadata, NEW md \in Metadata
  PROVE  LET w == Merge(tags, [md EXCEPT !.artist = Canonical(md.artist)])
         IN /\ w.artist = Or(Canonical(md.artist), tags.artist)
            /\ w.album = Or(md.album, tags.album) /\ w.lyrics = Or(md.lyrics, tags.lyrics)
BY DEF Merge, Metadata

(* What the metadata have, the file has when they are written.              *)
LEMMA RequiredIsWritten ==
  ASSUME NEW tags \in Metadata, NEW md \in Metadata, NEW need \in SUBSET Fields,
         Missing(md, need) = {}
  PROVE  Missing(Merge(tags, [md EXCEPT !.artist = Canonical(md.artist)]), need) = {}
<1> DEFINE w == Merge(tags, [md EXCEPT !.artist = Canonical(md.artist)])
<1>1. \A f \in need : HasValue(md, f)
  BY DEF Missing
<1>2. /\ w.artist = Or(Canonical(md.artist), tags.artist)
      /\ w.album = Or(md.album, tags.album) /\ w.lyrics = Or(md.lyrics, tags.lyrics)
  BY WrittenFields
<1>3. md.artist \in Word
  BY FieldsOfMetadata
<1> HIDE DEF w
<1>4. HasValue(md, "artist") => HasValue(w, "artist")
  <2>1. HasValue(md, "artist") => Text[Canonical(md.artist)].value /\ Canonical(md.artist) # ""
    BY <1>3, CanonicalName, Zenon DEF HasValue
  <2> QED
    BY <1>2, <2>1, Zenon DEF HasValue, Or
<1>5. HasValue(md, "album") => HasValue(w, "album")
  BY <1>2, Zenon DEF HasValue, Or
<1>6. HasValue(md, "lyrics") => HasValue(w, "lyrics")
  BY <1>2, Zenon DEF HasValue, Or
<1>7. \A f \in need : f = "artist" \/ f = "album" \/ f = "lyrics"
  BY DEF Fields
<1>8. \A f \in need : HasValue(w, f)
  BY <1>1, <1>4, <1>5, <1>6, <1>7
<1> QED
  BY <1>8 DEF Missing, w

(* The cases of a decision.                                                 *)
LEMMA Decisions ==
  ASSUME Inv, Decide
  PROVE  /\ JobTyped /\ Phase /\ Decided /\ Referred(r) /\ UNCHANGED <<library, job, r, returned, found, cands>>
         /\ \/ job.mode = "forced" /\ out' = ForcedResult
            \/ \E md, kind, ref : out' = Failed(md, kind, ref)
            \/ job.mode # "forced" /\ r.verify /\ pick # Nil /\ VerifiedResult
            \/ /\ job.mode # "forced" /\ ~r.verify /\ r.missing # {}
               /\ out' = PlainResult(IF pick = Nil THEN r.md ELSE Fill(r.md, pick.pick, FALSE))
            \/ /\ job.mode # "forced" /\ ~r.verify /\ r.missing = {}
               /\ out' = Organised(r.md, "tags", r.match, Nil, FALSE)
<1>1. pc = "decide" /\ UNCHANGED <<library, job, r, returned, found, cands>>
  BY DEF Decide
<1>2. JobTyped /\ Phase /\ Decided /\ Referred(r)
  BY <1>1 DEF Inv, Phase, Referring
<1>3. CASE job.mode = "forced"
  BY <1>1, <1>2, <1>3 DEF Decide
<1>4. CASE job.mode # "forced" /\ r.verify /\ pick = Nil
  <2>1. out' = Failed(r.md, "verify", r.md)
    BY <1>4 DEF Decide
  <2> QED
    BY <1>1, <1>2, <2>1
<1>5. CASE job.mode # "forced" /\ r.verify /\ pick # Nil
  BY <1>1, <1>2, <1>5 DEF Decide
<1>6. CASE job.mode # "forced" /\ ~r.verify /\ r.missing # {}
  BY <1>1, <1>2, <1>6 DEF Decide
<1>7. CASE job.mode # "forced" /\ ~r.verify /\ r.missing = {}
  BY <1>1, <1>2, <1>7 DEF Decide
<1> QED
  BY <1>3, <1>4, <1>5, <1>6, <1>7

(* No other step makes or changes a result.                                 *)
LEMMA ResultsStay ==
  ASSUME Inv, [SelectionNext]_selectionVars, out' # Nil
  PROVE  \/ Decide
         \/ /\ UNCHANGED <<job, r, cands, pick, by, returned, found, out>>
            /\ library \subseteq library' /\ pc \in {"record", "done"} /\ JobTyped
<1>1. CASE Record
  <2>1. pc = "record" /\ UNCHANGED <<job, r, cands, pick, by, returned, found, out>> /\ library \subseteq library'
    BY <1>1 DEF Record
  <2> QED
    BY <2>1 DEF Inv
<1>2. CASE UNCHANGED selectionVars
  BY <1>2 DEF selectionVars, Inv, NotBegun, Phase, Decided
<1>3. CASE Begin \/ Learn
  BY <1>3 DEF Begin, Learn, Inv, NotBegun, Decided
<1>4. CASE Preload \/ PreloadRaises \/ Lookup \/ LookupPath \/ LookedUp
  BY <1>4 DEF Preload, PreloadRaises, Lookup, LookupPath, LookedUp, Inv, Decided
<1>5. CASE Process \/ SearchOnline \/ SearchPath
  BY <1>5 DEF Process, SearchOnline, SearchPath, Inv, Decided
<1> QED
  BY <1>1, <1>2, <1>3, <1>4, <1>5 DEF SelectionNext

\* The pick gives the base and another one, if any, the rest.
Verdict(base, md, best, keep) ==
  /\ base = IF pick.kind = "contextual" THEN r.md ELSE Fill(pick.md, pick.pick, FALSE)
  /\ best # Nil => Picked(best) /\ best.md = pick.md
  /\ md = IF best = Nil THEN base ELSE Fill(base, best.pick, keep)
  /\ out' = IF r.missing # {} /\ Missing(md, job.config.need) # {}
            THEN Failed(md, pick.kind, pick.md)
            ELSE Organised(md, pick.kind, pick.md, OrElse(best, pick).pick,
                           pick.kind = "inferred" \/ Gained(md))

(* The result of a verification has that form.                              *)
LEMMA VerifiedForms ==
  ASSUME JobTyped, Phase, Referred(r), pick # Nil, VerifiedResult
  PROVE  \E base, md \in Metadata : \E best : \E keep \in BOOLEAN : Verdict(base, md, best, keep)
<1> DEFINE o == [Options(r) EXCEPT !.trust = TRUE]
           b == Best(pick, cands, o)
           base == IF pick.kind = "contextual" THEN r.md ELSE Fill(pick.md, pick.pick, FALSE)
           best == IF r.missing = {} THEN Nil ELSE b
           keep == job.mode = "context"
           md == IF best = Nil THEN base ELSE Fill(base, best.pick, keep)
<1>1. Picked(pick) /\ cands \in Seq(Metadata)
  BY DEF Phase
<1>2. o \in Demands /\ o.version = job.config.version
  <2>1. Options(r) \in Demands /\ Options(r).version = job.config.version
    BY OptionsAreDemands
  <2> QED
    BY <2>1 DEF Demands
<1>3. b # Nil => Picked(b) /\ b.md = pick.md
  <2> SUFFICES ASSUME b # Nil PROVE Picked(b) /\ b.md = pick.md
    OBVIOUS
  <2> HIDE DEF o
  <2>1. Chosen(b, pick, cands, o)
    BY <1>1, <1>2, BestIsChosen
  <2>2. pick.md \in Metadata /\ (pick.kind = "source" => pick.md = job.file.tags)
    BY <1>1 DEF Picked
  <2> HIDE DEF b
  <2> QED
    BY <1>1, <1>2, <2>1, <2>2, ChosenIsPicked
<1>4. base \in Metadata
  <2>1. r.md \in Metadata
    BY DEF Referred
  <2>2. Fill(pick.md, pick.pick, FALSE) \in Metadata
    BY <1>1, MixedMetadata DEF Picked
  <2> QED
    BY <2>1, <2>2
<1>5. out' = IF r.missing # {} /\ Missing(md, job.config.need) # {}
             THEN Failed(md, pick.kind, pick.md)
             ELSE Organised(md, pick.kind, pick.md, OrElse(best, pick).pick,
                            pick.kind = "inferred" \/ Gained(md))
  <2>1. PICK x \in {base} : \E y \in {best} : \E z \in {IF y = Nil THEN x ELSE Fill(x, y.pick, keep)} :
          out' = IF r.missing # {} /\ Missing(z, job.config.need) # {}
                 THEN Failed(z, pick.kind, pick.md)
                 ELSE Organised(z, pick.kind, pick.md, OrElse(y, pick).pick,
                                pick.kind = "inferred" \/ Gained(z))
    BY Zenon DEF VerifiedResult
  <2> HIDE DEF base, best, keep, b
  <2>2. PICK z \in {IF best = Nil THEN base ELSE Fill(base, best.pick, keep)} :
          out' = IF r.missing # {} /\ Missing(z, job.config.need) # {}
                 THEN Failed(z, pick.kind, pick.md)
                 ELSE Organised(z, pick.kind, pick.md, OrElse(best, pick).pick,
                                pick.kind = "inferred" \/ Gained(z))
    <3>1. PICK y \in {best} : \E z \in {IF y = Nil THEN x ELSE Fill(x, y.pick, keep)} :
          out' = IF r.missing # {} /\ Missing(z, job.config.need) # {}
                 THEN Failed(z, pick.kind, pick.md)
                 ELSE Organised(z, pick.kind, pick.md, OrElse(y, pick).pick,
                                pick.kind = "inferred" \/ Gained(z))
      BY <2>1, Zenon
    <3>2. x = base /\ y = best
      OBVIOUS
    <3> QED
      BY <3>1, <3>2, Zenon
  <2>3. z = md
    BY DEF md
  <2> QED
    BY <2>2, <2>3, Zenon
<1> HIDE DEF b, base
<1>6. best # Nil => Picked(best) /\ best.md = pick.md
  BY <1>3
<1> HIDE DEF best
<1>7. md \in Metadata /\ keep \in BOOLEAN
  <2>1. keep \in BOOLEAN
    OBVIOUS
  <2> HIDE DEF keep
  <2>2. best # Nil => Fill(base, best.pick, keep) \in Metadata
    BY <1>4, <1>6, <2>1, MixedMetadata DEF Picked
  <2> QED
    BY <1>4, <2>1, <2>2
<1>8. md = IF best = Nil THEN base ELSE Fill(base, best.pick, keep)
  OBVIOUS
<1> HIDE DEF md, keep
<1>9. Verdict(base, md, best, keep)
  BY <1>5, <1>6, <1>8, Zenon DEF Verdict, base
<1> QED
  BY <1>4, <1>7, <1>9

(* An organised file has what is required if its metadata does.             *)
LEMMA OrganisedIsComplete ==
  ASSUME JobTyped, Referred(r), NEW md \in Metadata, Missing(md, job.config.need) = {},
         NEW kind, NEW ref, NEW p, NEW writes \in BOOLEAN, Gained(md) => writes
  PROVE  Missing(Organised(md, kind, ref, p, writes).tags, job.config.need) = {}
<1>1. job.file.tags \in Metadata /\ job.config.need \in SUBSET Fields
  BY FilesAreRead, ConfigsAreRead DEF JobTyped
<1>2. CASE writes = TRUE
  <2>1. Organised(md, kind, ref, p, TRUE).tags
        = Merge(job.file.tags, [md EXCEPT !.artist = Canonical(md.artist)])
    BY TagsWritten
  <2> QED
    BY <1>1, <1>2, <2>1, RequiredIsWritten
<1>3. CASE writes = FALSE
  <2>1. r.missing \subseteq Missing(md, r.missing)
    BY <1>3 DEF Gained
  <2>2. Missing(job.file.tags, job.config.need) \subseteq r.missing
    BY DEF Referred, Missing
  <2>3. Missing(job.file.tags, job.config.need) \subseteq Missing(md, job.config.need)
    BY <2>1, <2>2 DEF Missing
  <2>4. Organised(md, kind, ref, p, FALSE).tags = job.file.tags
    BY TagsWritten
  <2>5. Missing(job.file.tags, job.config.need) = {}
    BY <2>3
  <2> QED
    BY <1>3, <2>4, <2>5
<1> QED
  BY <1>2, <1>3

(* A decision organises a file that lacks a field only if it has all that   *)
(* are required then.                                                       *)
LEMMA DecideRequires ==
  ASSUME Inv, Decide
  PROVE  RequiredWhenMissing'
<1>1. JobTyped /\ Phase /\ Decided /\ Referred(r) /\ job' = job /\ r' = r
  BY Decisions
<1> SUFFICES ASSUME out'.status = "success", job.mode # "forced", r.missing # {}
             PROVE  Missing(out'.tags, job.config.need) = {}
  BY <1>1 DEF RequiredWhenMissing, Success, Ended
<1>2. \A md, kind, ref : out' # Failed(md, kind, ref)
  BY FailedFields
<1>3. CASE r.verify /\ pick # Nil /\ VerifiedResult
  <2>5. PICK base \in Metadata, md \in Metadata :
           \E best : \E keep \in BOOLEAN : Verdict(base, md, best, keep)
    BY <1>1, <1>3, VerifiedForms, Zenon
  <2>6. PICK best : \E keep \in BOOLEAN : Verdict(base, md, best, keep)
    BY <2>5, Zenon
  <2>7. PICK keep \in BOOLEAN : Verdict(base, md, best, keep)
    BY <2>6, Zenon
  <2>1. out' = IF r.missing # {} /\ Missing(md, job.config.need) # {}
               THEN Failed(md, pick.kind, pick.md)
               ELSE Organised(md, pick.kind, pick.md, OrElse(best, pick).pick,
                              pick.kind = "inferred" \/ Gained(md))
    BY <2>7, Zenon DEF Verdict
  <2>2. Missing(md, job.config.need) = {}
    BY <1>2, <2>1
  <2> DEFINE writes == pick.kind = "inferred" \/ Gained(md)
  <2>3. out' = Organised(md, pick.kind, pick.md, OrElse(best, pick).pick, writes)
    BY <2>1, <2>2
  <2>4. writes \in BOOLEAN /\ (Gained(md) => writes)
    BY DEF Gained
  <2> HIDE DEF writes
  <2> QED
    BY <1>1, <2>2, <2>3, <2>4, OrganisedIsComplete
<1>4. CASE out' = PlainResult(IF pick = Nil THEN r.md ELSE Fill(r.md, pick.pick, FALSE))
  <2> DEFINE md == IF pick = Nil THEN r.md ELSE Fill(r.md, pick.pick, FALSE)
  <2>1. md \in Metadata
    <3>1. r.md \in Metadata
      BY <1>1 DEF Referred
    <3>2. pick # Nil => Fill(r.md, pick.pick, FALSE) \in Metadata
      BY <1>1, <3>1, MixedMetadata DEF Phase, Picked
    <3> QED
      BY <3>1, <3>2
  <2> HIDE DEF md
  <2>2. out' = PlainResult(md)
    BY <1>4 DEF md
  <2> DEFINE p == IF pick = Nil THEN Nil ELSE pick.pick
  <2>3. Missing(md, job.config.need) = {} /\ out' = Organised(md, by, Basis, p, Gained(md))
    BY <1>2, <2>2 DEF PlainResult
  <2>4. Gained(md) \in BOOLEAN
    BY DEF Gained
  <2> HIDE DEF p
  <2> QED
    BY <1>1, <2>1, <2>3, <2>4, OrganisedIsComplete
<1> QED
  BY <1>2, <1>3, <1>4, Decisions

(* No file that lacks one of the wanted fields is organised without every   *)
(* required field (_process_file of core/scraping.py): neither by the       *)
(* verified nor by the plain branch, with or without a search, in any mode  *)
(* but the user's own choice.                                               *)
THEOREM RequiredHolds ==
  SelectionSpec => []RequiredWhenMissing
<1>1. SelectionInit => RequiredWhenMissing
  BY DEF SelectionInit, RequiredWhenMissing, Success, Ended
<1>2. Inv /\ RequiredWhenMissing /\ [SelectionNext]_selectionVars => RequiredWhenMissing'
  <2> SUFFICES ASSUME Inv, RequiredWhenMissing, [SelectionNext]_selectionVars, out' # Nil
               PROVE  RequiredWhenMissing'
    BY DEF RequiredWhenMissing, Success, Ended
  <2>1. CASE Decide
    BY <2>1, DecideRequires
  <2>2. CASE UNCHANGED <<job, r, out>>
    BY <2>2 DEF RequiredWhenMissing, Success, Ended
  <2> QED
    BY <2>1, <2>2, ResultsStay
<1>3. SelectionSpec => []Inv
  BY InvHolds
<1> QED
  BY <1>1, <1>2, <1>3, PTL DEF SelectionSpec

(* The first, if there is one, else the second.                             *)
LEMMA OneOrOther == \A v, w : OrElse(v, w) = IF v = Nil THEN w ELSE v
<1> TAKE v, w
<1>1. {IF x = Nil THEN w ELSE x : x \in {v}} = {IF v = Nil THEN w ELSE v}
  OBVIOUS
<1> QED
  BY <1>1, TheOne DEF OrElse

(* What a decision takes is of the version of what it was measured by.      *)
LEMMA DecideHoldsVersion ==
  ASSUME Inv, Decide
  PROVE  VersionHeld'
<1>1. /\ JobTyped /\ Phase /\ Decided /\ Referred(r) /\ job' = job /\ r' = r /\ library' = library
      /\ pc = "decide"
  BY Decisions DEF Decide
<1> SUFFICES ASSUME library = job.knew, job.config.version, out'.pick # Nil, out'.by # "forced"
             PROVE  Score(out'.ref, out'.pick, job.file).same
  <2>1. \A m, c, f : Score(m, c, f) = Score(m, c, f)'
    BY <1>1 DEF Score, SameCredits, ArtistMatch, ArtistScore, DuetScore, Alike
  <2> QED
    BY <1>1, <2>1 DEF VersionHeld, Ended
<1>2. \A p : Picked(p) => Score(p.md, p.pick, job.file).same
  BY DEF Picked
<1>3. \A md, kind, ref : out' # Failed(md, kind, ref)
  BY FailedFields
<1>4. out' # ForcedResult
  <2>1. \A md : Forced(md).by = "forced"
    BY DEF Forced, Failed, Organised
  <2> QED
    BY <2>1 DEF ForcedResult
<1>5. CASE pick # Nil /\ VerifiedResult
  <2>1. PICK base \in Metadata, md \in Metadata :
          \E best : \E keep \in BOOLEAN : Verdict(base, md, best, keep)
    BY <1>1, <1>5, VerifiedForms, Zenon
  <2>2. PICK best : \E keep \in BOOLEAN : Verdict(base, md, best, keep)
    BY <2>1, Zenon
  <2>3. PICK keep \in BOOLEAN : Verdict(base, md, best, keep)
    BY <2>2, Zenon
  <2>4. /\ best # Nil => Picked(best) /\ best.md = pick.md
        /\ out' = IF r.missing # {} /\ Missing(md, job.config.need) # {}
                  THEN Failed(md, pick.kind, pick.md)
                  ELSE Organised(md, pick.kind, pick.md, OrElse(best, pick).pick,
                                 pick.kind = "inferred" \/ Gained(md))
    BY <2>3, Zenon DEF Verdict
  <2>5. out'.ref = pick.md /\ out'.pick = OrElse(best, pick).pick
    BY <1>3, <2>4, OrganisedFields
  <2>6. Picked(pick)
    BY <1>1, <1>5 DEF Phase
  <2> QED
    BY <1>2, <2>4, <2>5, <2>6, OneOrOther
<1>6. CASE /\ job.mode # "forced" /\ ~r.verify
           /\ out' = PlainResult(IF pick = Nil THEN r.md ELSE Fill(r.md, pick.pick, FALSE))
  <2> DEFINE md == IF pick = Nil THEN r.md ELSE Fill(r.md, pick.pick, FALSE)
             p == IF pick = Nil THEN Nil ELSE pick.pick
  <2>1. out' = Organised(md, by, Basis, p, Gained(md))
    BY <1>3, <1>6 DEF PlainResult
  <2> HIDE DEF md
  <2>2. out'.ref = Basis /\ out'.pick = p
    BY <2>1, OrganisedFields
  <2>3. pick # Nil /\ out'.pick = pick.pick
    BY <2>2
  <2>4. Picked(pick) /\ pick.md = Basis
    BY <1>1, <1>6, <2>3 DEF Phase, Decided
  <2> QED
    BY <1>2, <2>2, <2>3, <2>4
<1>7. CASE out' = Organised(r.md, "tags", r.match, Nil, FALSE)
  BY <1>7 DEF Organised
<1> QED
  BY <1>3, <1>4, <1>5, <1>6, <1>7, Decisions

(* With version control on, the candidate a file is organised by is of the  *)
(* version and by the people of the reference it was selected for           *)
(* (_rank_metadata_candidates): neither the second try without required     *)
(* fields, in _process_file, nor a candidate that an earlier look-up handed *)
(* over gets round it.                                                      *)
THEOREM VersionHolds ==
  SelectionSpec => []VersionHeld
<1>1. SelectionInit => VersionHeld
  BY DEF SelectionInit, VersionHeld, Ended
<1>2. Inv /\ VersionHeld /\ [SelectionNext]_selectionVars => VersionHeld'
  <2> SUFFICES ASSUME Inv, VersionHeld, [SelectionNext]_selectionVars, out' # Nil
               PROVE  VersionHeld'
    BY DEF VersionHeld, Ended
  <2>1. CASE Decide
    BY <2>1, DecideHoldsVersion
  <2>2. CASE UNCHANGED <<job, out>> /\ library \subseteq library' /\ JobTyped
    <3>1. CASE library' = library
      <4>1. \A m, c, f : Score(m, c, f) = Score(m, c, f)'
        BY <3>1 DEF Score, SameCredits, ArtistMatch, ArtistScore, DuetScore, Alike
      <4> QED
        BY <2>2, <3>1, <4>1 DEF VersionHeld, Ended
    <3>2. CASE library' # library
      BY <2>2, <3>2 DEF VersionHeld, JobTyped
    <3> QED
      BY <3>1, <3>2
  <2> QED
    BY <2>1, <2>2, ResultsStay
<1>3. SelectionSpec => []Inv
  BY InvHolds
<1> QED
  BY <1>1, <1>2, <1>3, PTL DEF SelectionSpec

(* What a candidate fills in leaves what is there.                          *)
LEMMA FillKeeps ==
  ASSUME NEW md \in Metadata, NEW new, NEW keep \in BOOLEAN, NEW f \in Fields, md[f] # ""
  PROVE  Fill(md, new, keep)[f] = md[f]
<1>1. f \in DOMAIN md
  BY FieldsOfMetadata DEF Fields
<1>2. Fill(md, new, keep)[f] = IF keep /\ f \in {"artist", "album"} THEN md[f] ELSE Or(md[f], new[f])
  BY <1>1 DEF Fill
<1> QED
  BY <1>2, Zenon DEF Or

(* A value that is kept is a text if it was one.                            *)
LEMMA KeptIsText ==
  ASSUME NEW md, NEW f, HasValue(job.file.tags, f), Preserved(md, f)
  PROVE  md[f] # ""
BY Zenon DEF HasValue, Preserved

\* What is left of a file's own value in a result.
Survives(o, f) ==
  \/ o.tags[f] = job.file.tags[f]
  \/ f = "artist" /\ Alike(o.tags[f], job.file.tags[f])
  \/ f = "album" /\ ~HasValue(job.file.tags, "artist") /\ o.tags[f] = job.file.album

(* An organised file keeps what its metadata keep.                          *)
LEMMA OrganisedKeeps ==
  ASSUME JobTyped, NEW md \in Metadata, NEW f \in Fields,
         HasValue(job.file.tags, f), Preserved(md, f), NEW kind, NEW ref, NEW p, NEW writes \in BOOLEAN
  PROVE  Survives(Organised(md, kind, ref, p, writes), f)
<1> DEFINE tags == job.file.tags
           w == Merge(tags, [md EXCEPT !.artist = Canonical(md.artist)])
<1>1. tags \in Metadata
  BY FilesAreRead DEF JobTyped
<1>2. tags.artist \in Word
  BY <1>1, FieldsOfMetadata
<1>3. /\ w.artist = Or(Canonical(md.artist), tags.artist)
      /\ w.album = Or(md.album, tags.album) /\ w.lyrics = Or(md.lyrics, tags.lyrics)
  BY <1>1, WrittenFields
<1>4. \/ w[f] = tags[f]
      \/ f = "artist" /\ Alike(w[f], tags[f])
      \/ f = "album" /\ ~HasValue(tags, "artist") /\ w[f] = job.file.album
  <2> HIDE DEF w
  <2>1. CASE f = "artist"
    <3>1. md.artist = tags.artist
      BY <2>1, Zenon DEF Preserved
    <3>2. Alike(Canonical(tags.artist), tags.artist)
      BY <1>2, CanonicalName
    <3>3. w.artist = Canonical(tags.artist) \/ w.artist = tags.artist
      BY <1>3, <3>1, Zenon DEF Or
    <3> QED
      BY <2>1, <3>2, <3>3, Zenon
  <2>2. CASE f = "album"
    <3>1. w.album = md.album \/ w.album = tags.album
      BY <1>3, Zenon DEF Or
    <3> QED
      BY <2>2, <3>1, Zenon DEF Preserved
  <2>3. CASE f = "lyrics"
    <3>1. md.lyrics = tags.lyrics
      BY <2>3, Zenon DEF Preserved
    <3>2. w.lyrics = tags.lyrics
      BY <1>3, <3>1, Zenon DEF Or
    <3> QED
      BY <2>3, <3>2, Zenon
  <2> QED
    BY <2>1, <2>2, <2>3 DEF Fields
<1>5. CASE writes = TRUE
  <2>1. Organised(md, kind, ref, p, TRUE).tags = w
    BY TagsWritten
  <2> HIDE DEF w
  <2> QED
    BY <1>4, <1>5, <2>1 DEF Survives
<1>6. CASE writes = FALSE
  <2>1. Organised(md, kind, ref, p, FALSE).tags = tags
    BY TagsWritten
  <2> QED
    BY <1>6, <2>1 DEF Survives
<1> QED
  BY <1>5, <1>6

(* A decision keeps them.                                                   *)
LEMMA DecideKeepsTags ==
  ASSUME Inv, Decide, out'.status = "success", out'.by \in {"tags", "path", "source"},
         NEW f \in Fields, HasValue(job.file.tags, f)
  PROVE  Survives(out', f)
<1>1. /\ JobTyped /\ Phase /\ Decided /\ Referred(r) /\ pc = "decide"
      /\ job.file.tags \in Metadata /\ r.md \in Metadata
  BY Decisions, FilesAreRead DEF Decide, JobTyped, Referred
<1>2. \A md, kind, ref : out' # Failed(md, kind, ref)
  BY FailedFields
<1>3. out' # ForcedResult
  <2>1. \A md : Forced(md).by = "forced"
    BY DEF Forced, Failed, Organised
  <2> QED
    BY <2>1 DEF ForcedResult
<1>4. CASE job.mode # "forced" /\ r.verify /\ pick # Nil /\ VerifiedResult
  <2>1. PICK base \in Metadata, md \in Metadata :
          \E best : \E keep \in BOOLEAN : Verdict(base, md, best, keep)
    BY <1>1, <1>4, VerifiedForms, Zenon
  <2>2. PICK best : \E keep \in BOOLEAN : Verdict(base, md, best, keep)
    BY <2>1, Zenon
  <2>3. PICK keep \in BOOLEAN : Verdict(base, md, best, keep)
    BY <2>2, Zenon
  <2>4. /\ base = IF pick.kind = "contextual" THEN r.md ELSE Fill(pick.md, pick.pick, FALSE)
        /\ md = IF best = Nil THEN base ELSE Fill(base, best.pick, keep)
        /\ out' = IF r.missing # {} /\ Missing(md, job.config.need) # {}
                  THEN Failed(md, pick.kind, pick.md)
                  ELSE Organised(md, pick.kind, pick.md, OrElse(best, pick).pick,
                                 pick.kind = "inferred" \/ Gained(md))
    BY <2>3, Zenon DEF Verdict
  <2> DEFINE writes == pick.kind = "inferred" \/ Gained(md)
             p == OrElse(best, pick).pick
  <2>5. out' = Organised(md, pick.kind, pick.md, p, writes) /\ writes \in BOOLEAN
    BY <1>2, <2>4 DEF Gained
  <2> HIDE DEF writes, p
  <2>6. pick.kind = "source"
    <3>1. out'.by = pick.kind
      BY <2>5, OrganisedFields
    <3>2. pick.kind \in {"contextual", "source", "inferred"}
      BY <1>1, <1>4 DEF Decided
    <3> QED
      BY <3>1, <3>2
  <2>7. pick.md = job.file.tags
    BY <1>1, <1>4, <2>6 DEF Phase, Picked
  <2>8. job.file.tags[f] # ""
    BY Zenon DEF HasValue
  <2>9. base[f] = job.file.tags[f]
    <3>1. base = Fill(job.file.tags, pick.pick, FALSE)
      BY <2>4, <2>6, <2>7
    <3> DEFINE t == job.file.tags
               c == pick.pick
    <3>2. t \in Metadata /\ t[f] # "" /\ FALSE \in BOOLEAN
      BY <1>1, <2>8
    <3> HIDE DEF t, c
    <3>3. Fill(t, c, FALSE)[f] = t[f]
      BY <3>2, FillKeeps
    <3> QED
      BY <3>1, <3>3 DEF t, c
  <2>10. md[f] = job.file.tags[f]
    <3>1. Fill(base, best.pick, keep)[f] = base[f]
      BY <2>8, <2>9, FillKeeps
    <3> QED
      BY <2>4, <2>9, <3>1
  <2>11. Preserved(md, f)
    BY <2>10 DEF Preserved
  <2> QED
    BY <1>1, <2>5, <2>11, OrganisedKeeps
<1>5. CASE ~r.verify
  <2>1. Preserved(r.md, f)
    BY <1>1, <1>5 DEF Referred
  <2>2. CASE out' = PlainResult(IF pick = Nil THEN r.md ELSE Fill(r.md, pick.pick, FALSE))
    <3> DEFINE md == IF pick = Nil THEN r.md ELSE Fill(r.md, pick.pick, FALSE)
               p == IF pick = Nil THEN Nil ELSE pick.pick
    <3>1. md \in Metadata
      <4>1. pick # Nil => Fill(r.md, pick.pick, FALSE) \in Metadata
        BY <1>1, MixedMetadata DEF Phase, Picked
      <4> QED
        BY <1>1, <4>1
    <3>2. Preserved(md, f)
      <4>1. r.md[f] # ""
        BY <2>1, KeptIsText
      <4>2. Fill(r.md, pick.pick, FALSE)[f] = r.md[f]
        BY <1>1, <4>1, FillKeeps
      <4>3. md[f] = r.md[f]
        BY <4>2
      <4> HIDE DEF md
      <4> QED
        BY <2>1, <4>3, Zenon DEF Preserved
    <3> HIDE DEF md
    <3>3. out' = PlainResult(md)
      BY <2>2 DEF md
    <3>4. out' = Organised(md, by, Basis, p, Gained(md)) /\ Gained(md) \in BOOLEAN
      BY <1>2, <3>3 DEF PlainResult, Gained
    <3> HIDE DEF p
    <3> QED
      BY <1>1, <3>1, <3>2, <3>4, OrganisedKeeps
  <2>3. CASE out' = Organised(r.md, "tags", r.match, Nil, FALSE)
    <3>1. FALSE \in BOOLEAN
      OBVIOUS
    <3> QED
      BY <1>1, <2>1, <2>3, <3>1, OrganisedKeeps
  <2> QED
    BY <1>2, <1>3, <1>5, <2>2, <2>3, Decisions
<1> QED
  BY <1>2, <1>3, <1>4, <1>5, Decisions

(* A valid artist, album or lyrics of the file's own tags survives its      *)
(* organisation unless the path's reference was verified, up to the         *)
(* artist's canonical name and, in a file without artist, the album of its  *)
(* directory (_metadata_for_matching, _merge_missing_metadata).             *)
THEOREM TagsAreKept ==
  SelectionSpec => []TagsKept
<1>1. SelectionInit => TagsKept
  BY DEF SelectionInit, TagsKept, Success, Ended
<1>2. Inv /\ TagsKept /\ [SelectionNext]_selectionVars => TagsKept'
  <2> SUFFICES ASSUME Inv, TagsKept, [SelectionNext]_selectionVars, out' # Nil, out'.status = "success",
                      out'.by \in {"tags", "path", "source"}, NEW f \in Fields,
                      HasValue(job'.file.tags, f)
               PROVE  \/ out'.tags[f] = job'.file.tags[f]
                      \/ f = "artist" /\ Alike(out.tags[f], job.file.tags[f])'
                      \/ AlbumOfDirectory(f)'
    BY DEF TagsKept, Success, Ended
  <2>1. CASE Decide
    <3>1. job' = job /\ library' = library
      BY <2>1, Decisions
    <3>2. Survives(out', f)
      BY <2>1, <3>1, DecideKeepsTags
    <3> QED
      BY <3>1, <3>2 DEF Survives, AlbumOfDirectory, Alike
  <2>2. CASE UNCHANGED <<job, out>> /\ library \subseteq library'
    <3>1. \/ out.tags[f] = job.file.tags[f]
          \/ f = "artist" /\ Alike(out.tags[f], job.file.tags[f])
          \/ AlbumOfDirectory(f)
      BY <2>2 DEF TagsKept, Success, Ended
    <3> QED
      BY <2>2, <3>1 DEF AlbumOfDirectory, Alike
  <2> QED
    BY <2>1, <2>2, ResultsStay
<1>3. SelectionSpec => []Inv
  BY InvHolds
<1> QED
  BY <1>1, <1>2, <1>3, PTL DEF SelectionSpec

-----------------------------------------------------------------------------
(* The candidate that fills the most *)

\* By the tags, while the library is as it was when the run began.
Fits(c)  == Eligible(Measured(ByTags(References), c), Options(References))
Worth(c) == Gain(c, Options(References))

\* Candidates that share their key with no other that was seen.
Alone == {c \in returned : \A d \in returned : CandidateKey(d) = CandidateKey(c) => d = c}

Topmost(p) == \A c \in Alone : Fits(c) => Worth(c) <= Worth(p.pick)

(* Tuples of numbers are lists of them.                                     *)
LEMMA PlacesAreList == \A n \in Nat : Places(n) \subseteq Seq(Int)
BY DEF Places

(* The best of a list by the tags fills as many fields as any that fits;    *)
(* there is one unless none fits.                                           *)
LEMMA BestByTags ==
  ASSUME JobTyped, job.config.max, NEW cs \in Seq(Metadata), NEW p,
         p = Best(ByTags(References), cs, Options(References))
  PROVE  /\ p = Nil => \A c \in ToSet(cs) : ~Fits(c)
         /\ p # Nil => /\ p.pick \in ToSet(cs) /\ p.kind = "tags"
                       /\ \A c \in ToSet(cs) : Fits(c) => Worth(c) <= Worth(p.pick)
<1> DEFINE o == Options(References)
           ref == ByTags(References)
           I == {i \in DOMAIN cs : Eligible(Measured(ref, cs[i]), o)}
           at(i) == Placed(ref, cs, o, i)
<1>1. o \in Demands /\ o.max
  <2>1. o.max
    BY DEF Options
  <2> QED
    BY <2>1, FileIsReferred, OptionsAreDemands
<1>2. ref.kind = "tags" /\ ref.md \in Metadata
  BY FileIsReferred DEF ByTags, Referred
<1>3. \A i \in DOMAIN cs : Fits(cs[i]) <=> i \in I
  BY DEF Fits
<1>4. \A i : Worth(cs[i]) = Gain(cs[i], o)
  BY DEF Worth
<1> HIDE DEF o, ref
<1>5. /\ I = {} => p = Nil
      /\ I # {} => \E i \in I : p = at(i) /\ \A j \in I \ {i} : Above(at(i).key, at(j).key)
  BY <1>1, BestOfList DEF o, ref
<1>6. \A i : /\ at(i).kind = ref.kind /\ at(i).md = ref.md /\ at(i).pick = cs[i]
             /\ at(i).score = Score(ref.md, cs[i], job.file)
             /\ at(i).key = Rank(Score(ref.md, cs[i], job.file), Gain(cs[i], o), i, o)
  BY DEF Placed, Ranked, Measured
<1>7. \A i \in DOMAIN cs : at(i).key \in Places(7) /\ at(i).key[1] = Gain(cs[i], o)
  <2> TAKE i \in DOMAIN cs
  <2>1. Score(ref.md, cs[i], job.file) \in Scores /\ Gain(cs[i], o) \in Int /\ i \in Int
    BY <1>1, ScoreIsTyped, GainIsNumber, PlacesOfList
  <2>2. at(i).key \in Places(7)
    BY <1>1, <1>6, <2>1, KeysArePlaces
  <2>3. at(i).key[1] = Gain(cs[i], o)
    BY <1>1, <1>6 DEF Rank
  <2> QED
    BY <2>2, <2>3
<1>8. \A i \in DOMAIN cs : at(i) \in Picks
  <2> TAKE i \in DOMAIN cs
  <2>1. cs[i] \in Metadata
    BY ElementsOfList, Zenon
  <2>2. at(i).key \in Seq(Int)
    <3>1. 7 \in Nat /\ at(i).key \in Places(7)
      BY <1>7
    <3> QED
      BY <3>1, PlacesAreList
  <2>3. Score(ref.md, cs[i], job.file) \in [title : Int, artist : Int, album : Int, extra : Int, same : BOOLEAN]
    BY ScoreIsTyped, Zenon DEF Scores
  <2>4. at(i) = [kind |-> "tags", md |-> ref.md, pick |-> cs[i],
                 score |-> Score(ref.md, cs[i], job.file), key |-> at(i).key]
    BY <1>2, <1>6 DEF Placed, Ranked
  <2> HIDE DEF at
  <2> QED
    BY <1>2, <2>1, <2>2, <2>3, <2>4 DEF Picks
<1>9. Nil \notin Picks
  BY InputsAreMetadata, Zenon
<1> HIDE DEF at, I
<1>10. I \subseteq DOMAIN cs
  BY DEF I
<1>11. p = Nil => I = {}
  BY <1>5, <1>8, <1>9, <1>10
<1>12. \A c \in ToSet(cs) : \E i \in DOMAIN cs : c = cs[i]
  BY DEF ToSet
<1>13. p = Nil => \A c \in ToSet(cs) : ~Fits(c)
  BY <1>3, <1>11, <1>12
<1>14. ASSUME p # Nil
       PROVE  /\ p.pick \in ToSet(cs) /\ p.kind = "tags"
              /\ \A c \in ToSet(cs) : Fits(c) => Worth(c) <= Worth(p.pick)
  <2>1. PICK i \in I : p = at(i) /\ \A j \in I \ {i} : Above(at(i).key, at(j).key)
    BY <1>5, <1>14
  <2>2. p.pick = cs[i] /\ p.kind = "tags" /\ p.pick \in ToSet(cs)
    BY <1>2, <1>6, <1>10, <2>1 DEF ToSet
  <2>3. \A j \in DOMAIN cs : Gain(cs[j], o) \in Int
    BY <1>1, GainIsNumber
  <2>4. ASSUME NEW j \in I
        PROVE  Gain(cs[j], o) <= Gain(cs[i], o)
    <3>1. CASE j = i
      BY <1>10, <2>3, <3>1
    <3>2. CASE j # i
      <4>1. Above(at(i).key, at(j).key)
        BY <2>1, <3>2
      <4>2. at(i).key[1] >= at(j).key[1]
        <5>1. PICK h \in 1..7 : at(i).key[h] > at(j).key[h] /\ \A k \in 1..(h - 1) : at(i).key[k] = at(j).key[k]
          BY <1>7, <1>10, <4>1 DEF Above, Places
        <5>2. at(i).key[1] \in Int /\ at(j).key[1] \in Int
          BY <1>7, <1>10, <2>3
        <5> QED
          BY <5>1, <5>2
      <4> QED
        BY <1>7, <1>10, <2>3, <4>2
    <3> QED
      BY <3>1, <3>2
  <2> QED
    BY <1>3, <1>4, <1>12, <2>2, <2>4
<1> QED
  BY <1>13, <1>14

\* While the library is as it was, and as many fields as can be are wanted.
Unchanging == library = job.knew /\ job.config.max

LookingUp == {"preload", "lookup", "lookupPath", "looked"}

\* Every candidate that was seen and fits is at hand, or fills no more.
Most ==
  /\ pc \in Referring => r = References
  /\ pc \in LookingUp => job.mode \in {"batch", "manual"}
  /\ ToSet(cands) \subseteq returned /\ ToSet(job.given) \subseteq returned
  /\ pick # Nil => pick.pick \in returned
  /\ pc \in {"preload", "lookup"} => cands = job.given
  /\ job.mode # "manual" \/ pc \in LookingUp => \A c \in Alone : Fits(c) => c \in ToSet(cands)
  /\ pc = "lookupPath" => \A c \in Alone : ~Fits(c)
  /\ pc = "looked" /\ job.mode = "manual" /\ pick # Nil =>
       r.verify \/ pick.kind = "path" \/ Topmost(pick)
  /\ job.mode = "manual" /\ pc = "process" =>
       /\ done
       /\ \/ cands = <<>> \/ References.verify \/ (found # Nil /\ found.kind = "path")
          \/ \E p : cands = <<p.pick>> /\ Topmost(p)
  /\ job.mode = "manual" => pc \notin {"search", "searchPath"}
  /\ pc = "decide" /\ job.mode # "forced" /\ ~r.verify /\ pick # Nil /\ by = "tags" =>
       HandedByPath \/ Topmost(pick)

MostInv == pc \notin {"idle", "record", "done"} /\ Unchanging => Most

(* What fits is told by the job and the library.                            *)
LEMMA FitGoesOn ==
  ASSUME UNCHANGED <<library, job>>
  PROVE  /\ References' = References
         /\ \A c : (Fits(c)' <=> Fits(c)) /\ Worth(c)' = Worth(c)
<1>1. \A m, c, f : Score(m, c, f)' = Score(m, c, f)
  BY DEF Score, SameCredits, ArtistMatch, ArtistScore, DuetScore, Alike
<1>2. \A f : Turned(f)' = Turned(f)
  BY DEF Turned, Knows
<1>3. \A t, d : Housed(t, d)' = Housed(t, d)
  BY DEF Housed, Knows
<1>4. \A p, m : Reference(p, m)' = Reference(p, m)
  BY Zenon DEF Reference
<1>5. References' = References
  BY <1>2, <1>3, <1>4, Zenon DEF References
<1>6. \A x : Options(x)' = Options(x)
  BY Zenon DEF Options
<1>7. \A x, c : Measured(x, c)' = Measured(x, c)
  BY <1>1, Zenon DEF Measured
<1> QED
  BY <1>5, <1>6, <1>7, Zenon DEF Fits, Worth

(* What is gathered was at hand or is new.                                  *)
LEMMA GatherIsOfBoth ==
  ASSUME NEW T, NEW old \in Seq(T), NEW new \in Seq(T)
  PROVE  ToSet(Gather(old, new)) \subseteq ToSet(old) \cup ToSet(new)
<1> DEFINE U == ToSet(old) \cup ToSet(new)
<1>1. old \in Seq(U) /\ new \in Seq(U)
  BY DEF ToSet
<1> HIDE DEF U
<1>2. Gather(old, new) \in Seq(U)
  BY <1>1, GatherKeepsKeys
<1> QED
  BY <1>2 DEF ToSet, U

(* What comes from online is among the candidates, or has one with its key  *)
(* among them.                                                              *)
LEMMA GatheredAlone ==
  ASSUME cands \in Seq(Metadata), NEW new \in Seq(Metadata), Gathered(new),
         ToSet(cands) \subseteq returned
  PROVE  /\ ToSet(cands') \subseteq returned' /\ returned \subseteq returned' /\ ToSet(new) \subseteq returned'
         /\ Alone' \cap (ToSet(cands) \cup ToSet(new)) \subseteq ToSet(cands')
         /\ Alone' \subseteq Alone \cup ToSet(new)
<1>1. cands' = Gather(cands, new) /\ returned' = returned \cup ToSet(new)
  BY DEF Gathered
<1>2. ToSet(cands') \subseteq ToSet(cands) \cup ToSet(new)
  BY <1>1, GatherIsOfBoth
<1>3. \A c \in ToSet(cands) \cup ToSet(new) :
        \E d \in ToSet(cands') :
          CandidateKey(d) = CandidateKey(c) /\ d \in ToSet(cands) \cup ToSet(new)
  BY <1>1, GatherKeepsKeys
<1>4. Alone' = {c \in returned' : \A d \in returned' : CandidateKey(d) = CandidateKey(c) => d = c}
  BY DEF Alone
<1> QED
  BY <1>1, <1>2, <1>3, <1>4 DEF Alone

(* A run begins with all it has seen at hand.                               *)
LEMMA BeginKeepsMost == Inv /\ Begin => MostInv'
<1> SUFFICES ASSUME Inv, Begin PROVE MostInv'
  OBVIOUS
<1>1. PICK f \in Files, c \in Configs, m \in Modes, g \in Given :
       /\ m \in {"context", "forced"} => g # <<>>
       /\ job' = [file |-> f, config |-> c, mode |-> m,
                  given |-> IF m = "batch" THEN g ELSE <<>>,
                  knew |-> library,
                  with |-> IF m \in {"context", "forced"} THEN [Head(g) EXCEPT !.lyrics = ""]
                           ELSE Nil]
       /\ cands' = job'.given /\ returned' = ToSet(cands')
       /\ pc' = IF m = "manual" \/ (m = "batch" /\ c.want \cup c.need # {})
                THEN "preload" ELSE "process"
  BY Zenon DEF Begin
<1>2. job'.mode = m /\ cands' = job'.given /\ returned' = ToSet(cands') /\ m \in Modes
  BY <1>1
<1>3. pick = Nil /\ pick' = pick
  BY DEF Inv, NotBegun, Begin
<1>4. pc' \in {"preload", "process"}
  BY <1>1
<1>5. pc' = "preload" => m \in {"batch", "manual"}
  BY <1>1
<1>6. m = "manual" => pc' = "preload"
  BY <1>1
<1>7. Alone' \subseteq ToSet(cands')
  BY <1>2 DEF Alone
<1> QED
  BY <1>2, <1>3, <1>4, <1>5, <1>6, <1>7 DEF MostInv, Most, Referring, LookingUp

(* The library is as it was only if it was so before.                       *)
LEMMA StillUnchanging ==
  ASSUME JobTyped, UNCHANGED job, library \subseteq library', Unchanging'
  PROVE  Unchanging /\ library' = library
BY DEF JobTyped, Unchanging

(* What is topmost remains so while nothing is learned or seen.             *)
LEMMA TopmostGoesOn ==
  ASSUME UNCHANGED <<library, job, returned>>
  PROVE  /\ Alone' = Alone /\ References' = References
         /\ \A c : (Fits(c)' <=> Fits(c)) /\ Worth(c)' = Worth(c)
         /\ \A p : Topmost(p)' <=> Topmost(p)
<1>1. Alone' = Alone
  BY DEF Alone
<1>2. /\ References' = References
      /\ \A c : (Fits(c)' <=> Fits(c)) /\ Worth(c)' = Worth(c)
  BY FitGoesOn
<1> QED
  BY <1>1, <1>2 DEF Topmost

(* A run during which the library learns is not compared.                   *)
LEMMA LearnKeepsMost == Inv /\ Learn => MostInv'
<1> SUFFICES ASSUME Inv, Learn PROVE MostInv'
  OBVIOUS
<1>1. library \subseteq library' /\ library' # library /\ UNCHANGED <<job, pc>>
  BY DEF Learn
<1> QED
  BY <1>1, StillUnchanging DEF MostInv, Inv

(* What a selection by the tags gives is topmost of what is at hand.        *)
LEMMA BestIsTopmost ==
  ASSUME JobTyped, job.config.max, NEW cs \in Seq(Metadata), NEW p,
         p = Best(ByTags(References), cs, Options(References)),
         \A c \in Alone : Fits(c) => c \in ToSet(cs)
  PROVE  /\ p = Nil => \A c \in Alone : ~Fits(c)
         /\ p # Nil => p.pick \in ToSet(cs) /\ Topmost(p)
BY BestByTags DEF Topmost

(* A look-up from what is at hand selects the topmost.                      *)
LEMMA PreloadKeepsMost == Inv /\ MostInv /\ Preload => MostInv'
<1> SUFFICES ASSUME Inv, MostInv, Preload, Unchanging' PROVE Most'
  BY DEF MostInv
<1>1. /\ pc = "preload" /\ r' = References /\ UNCHANGED <<library, job, cands, by, returned, found>>
      /\ pc' \in {"process", "lookup", "looked"}
      /\ pick' = IF r'.verify THEN Verified(r'.refs, cands, Asked(Options(r')))
                 ELSE Best(ByTags(r'), cands, Options(r'))
      /\ pc' = "process" => ~r'.verify /\ r'.missing = {} /\ done' = (job.mode = "manual")
  BY DEF Preload, Refer
<1>2. JobTyped /\ Phase /\ Unchanging /\ Most /\ cands \in Seq(Metadata)
  BY <1>1, StillUnchanging DEF Inv, MostInv, Phase
<1>3. Referred(r') /\ r'.refs \in Seq(Referents)
  BY <1>1, <1>2, FileIsReferred DEF Referred
<1>4. pick' # Nil => pick'.pick \in ToSet(cands)
  <2>1. CASE r'.verify
    <3>1. Asked(Options(r')) \in Demands
      BY <1>2, <1>3, OptionsAreDemands DEF Demands, Asked
    <3>2. pick' # Nil => \E i \in DOMAIN r'.refs : Chosen(pick', r'.refs[i], cands, Asked(Options(r')))
      BY <1>1, <1>2, <1>3, <2>1, <3>1, VerifiedIsChosen
    <3> QED
      BY <3>2 DEF Chosen, ToSet
  <2>2. CASE ~r'.verify
    BY <1>1, <1>2, <2>2, BestByTags DEF Unchanging
  <2> QED
    BY <2>1, <2>2
<1>5. \A c \in Alone : Fits(c) => c \in ToSet(cands)
  BY <1>1, <1>2 DEF Most, LookingUp
<1>6. pick' # Nil => r'.verify \/ Topmost(pick')
  BY <1>1, <1>2, <1>5, BestIsTopmost DEF Unchanging
<1>7. /\ Alone' = Alone /\ References' = References
      /\ \A c : (Fits(c)' <=> Fits(c))
      /\ \A p : Topmost(p)' <=> Topmost(p)
  BY <1>1, TopmostGoesOn
<1>8. pick' # Nil => r'.verify \/ Topmost(pick)'
  BY <1>6, <1>7
<1>9. /\ job.mode \in {"batch", "manual"} /\ ToSet(cands) \subseteq returned /\ ToSet(job.given) \subseteq returned
      /\ cands = job.given
  BY <1>1, <1>2 DEF Most, LookingUp
<1>10. job.mode = "manual" => cands = <<>>
  BY <1>2, <1>9 DEF JobTyped
<1> QED
  BY <1>1, <1>4, <1>5, <1>7, <1>8, <1>9, <1>10 DEF Most, Referring, LookingUp

(* A look-up that raised leaves what was given.                             *)
LEMMA RaisingKeepsMost == Inv /\ MostInv /\ PreloadRaises => MostInv'
<1> SUFFICES ASSUME Inv, MostInv, PreloadRaises, Unchanging' PROVE Most'
  BY DEF MostInv
<1>1. /\ pc \in {"preload", "lookup", "lookupPath"} /\ job.mode = "batch"
      /\ UNCHANGED <<library, job, r, by, returned, found>>
      /\ pc' = "process" /\ cands' = job.given /\ pick' = Nil
  BY DEF PreloadRaises
<1>2. JobTyped /\ Unchanging /\ Most
  BY <1>1, StillUnchanging DEF Inv, MostInv
<1>3. /\ Alone' = Alone /\ \A c : (Fits(c)' <=> Fits(c))
  BY <1>1, TopmostGoesOn
<1>4. \A c \in Alone : Fits(c) => c \in ToSet(job.given)
  BY <1>1, <1>2 DEF Most, LookingUp
<1>5. ToSet(job.given) \subseteq returned
  BY <1>2 DEF Most
<1> QED
  BY <1>1, <1>3, <1>4, <1>5 DEF Most, Referring, LookingUp

(* What fits stays at hand while candidates are gathered.                   *)
LEMMA GatheredMost ==
  ASSUME cands \in Seq(Metadata), NEW new \in Seq(Metadata), Gathered(new),
         UNCHANGED <<library, job>>, ToSet(cands) \subseteq returned,
         \A c \in Alone : Fits(c) => c \in ToSet(cands)
  PROVE  /\ ToSet(cands') \subseteq returned' /\ returned \subseteq returned' /\ ToSet(new) \subseteq returned'
         /\ \A c \in Alone' : Fits(c) => c \in ToSet(cands')
BY GatheredAlone

\* Topmost of what has been seen by the end of a step.
TopmostNext(p) == \A c \in Alone' : Fits(c) => Worth(c) <= Worth(p.pick)

(* Topmost of what has been seen by the end of a step is topmost then.      *)
LEMMA TopmostIsNext ==
  ASSUME UNCHANGED <<library, job>>
  PROVE  \A p : TopmostNext(p') => Topmost(p)'
<1>1. \A c : (Fits(c)' <=> Fits(c)) /\ Worth(c)' = Worth(c)
  BY FitGoesOn
<1> QED
  BY <1>1 DEF TopmostNext, Topmost

(* A search for the tags joins what is at hand and selects the topmost.     *)
LEMMA SearchedMost ==
  ASSUME JobTyped, Referred(r), r = References, Unchanging, cands \in Seq(Metadata),
         NEW a \in Replies, Gathered(Online(a)), pick' = Selected(Online(a)),
         UNCHANGED <<library, job>>, ToSet(cands) \subseteq returned,
         \A c \in Alone : Fits(c) => c \in ToSet(cands)
  PROVE  /\ ToSet(cands') \subseteq returned' /\ returned \subseteq returned'
         /\ \A c \in Alone' : Fits(c) => c \in ToSet(cands')
         /\ pick' # Nil => pick'.pick \in returned' /\ (r.verify \/ TopmostNext(pick'))
         /\ pick' = Nil => r.verify \/ \A c \in Alone' : ~Fits(c)
<1>1. Online(a) \in Seq(Metadata) /\ cands' \in Seq(Metadata)
  BY OnlineIsListed, GatheredIsListed
<1>2. /\ ToSet(cands') \subseteq returned' /\ returned \subseteq returned'
      /\ \A c \in Alone' : Fits(c) => c \in ToSet(cands')
  BY <1>1, GatheredMost
<1>3. CASE r.verify
  <2>1. pick' = VerifiedAtLast(r.refs, cands', Options(r))
    BY <1>3 DEF Selected
  <2>2. Options(r) \in Demands /\ r.refs \in Seq(Referents)
    BY OptionsAreDemands DEF Referred
  <2>3. pick' # Nil => \E i \in DOMAIN r.refs : Chosen(pick', r.refs[i], cands', Options(r))
    BY <1>1, <2>1, <2>2, AtLastIsChosen
  <2>4. pick' # Nil => pick'.pick \in ToSet(cands')
    BY <2>3 DEF Chosen, ToSet
  <2> QED
    BY <1>2, <1>3, <2>4
<1>4. CASE ~r.verify
  <2>1. pick' = Best(ByTags(References), cands', Options(References))
    BY <1>4 DEF Selected, Unchanging
  <2> DEFINE p == pick'
             cs == cands'
  <2>2. p = Best(ByTags(References), cs, Options(References)) /\ cs \in Seq(Metadata)
    BY <1>1, <2>1
  <2>3. \A c \in Alone' : Fits(c) => c \in ToSet(cs)
    BY <1>2
  <2>4. /\ ToSet(cs) \subseteq returned'
    BY <1>2
  <2> HIDE DEF p, cs
  <2>5. /\ p = Nil => \A c \in ToSet(cs) : ~Fits(c)
        /\ p # Nil => /\ p.pick \in ToSet(cs)
                      /\ \A c \in ToSet(cs) : Fits(c) => Worth(c) <= Worth(p.pick)
    BY <2>2, BestByTags DEF Unchanging
  <2>6. /\ p = Nil => \A c \in Alone' : ~Fits(c)
        /\ p # Nil => p.pick \in returned' /\ TopmostNext(p)
    BY <2>3, <2>4, <2>5 DEF TopmostNext
  <2> QED
    BY <1>2, <2>6 DEF p
<1> QED
  BY <1>3, <1>4

(* A search for the path joins what is at hand as well.                     *)
LEMMA SearchedPathMost ==
  ASSUME JobTyped, Referred(r), cands \in Seq(Metadata),
         NEW a \in Replies, Gathered(Search(r.fallback, r.fallback, a)),
         pick' = Best(ByPath(r), Search(r.fallback, r.fallback, a), Options(r)),
         UNCHANGED <<library, job>>, ToSet(cands) \subseteq returned,
         \A c \in Alone : Fits(c) => c \in ToSet(cands)
  PROVE  /\ ToSet(cands') \subseteq returned' /\ returned \subseteq returned'
         /\ \A c \in Alone' : Fits(c) => c \in ToSet(cands')
         /\ pick' # Nil => pick'.pick \in returned' /\ pick'.kind = "path"
<1> DEFINE new == Search(r.fallback, r.fallback, a)
<1>1. new \in Seq(Metadata)
  BY OnlineIsListed
<1>2. Options(r) \in Demands
  BY OptionsAreDemands
<1>3. ByPath(r).kind = "path"
  BY DEF ByPath
<1>4. Gathered(new) /\ pick' = Best(ByPath(r), new, Options(r))
  OBVIOUS
<1> HIDE DEF new
<1>5. /\ ToSet(cands') \subseteq returned' /\ returned \subseteq returned' /\ ToSet(new) \subseteq returned'
      /\ \A c \in Alone' : Fits(c) => c \in ToSet(cands')
  BY <1>1, <1>4, GatheredMost
<1>6. pick' # Nil => Chosen(pick', ByPath(r), new, Options(r))
  BY <1>1, <1>2, <1>4, BestIsChosen
<1>7. pick' # Nil => pick'.pick \in ToSet(new) /\ pick'.kind = "path"
  BY <1>3, <1>6 DEF Chosen, ToSet
<1> QED
  BY <1>5, <1>7

(* The look-up online: by the tags, then by the path, then what is handed   *)
(* over.                                                                    *)
LEMMA LookupKeepsMost == Inv /\ MostInv /\ Lookup => MostInv'
<1> SUFFICES ASSUME Inv, MostInv, Lookup, Unchanging' PROVE Most'
  BY DEF MostInv
<1>1. /\ pc = "lookup" /\ UNCHANGED <<library, job, r, done, by, found>>
      /\ pc' \in {"lookupPath", "looked"}
      /\ pc' = "lookupPath" => ~r.verify /\ pick' = Nil
  BY DEF Lookup
<1>2. PICK a \in Replies : Gathered(Online(a)) /\ pick' = Selected(Online(a))
  BY DEF Lookup
<1>3. JobTyped /\ Unchanging /\ Most /\ cands \in Seq(Metadata) /\ Referred(r)
  BY <1>1, StillUnchanging DEF Inv, MostInv, Phase, Referring
<1>4. /\ job.mode \in {"batch", "manual"} /\ ToSet(cands) \subseteq returned
      /\ ToSet(job.given) \subseteq returned /\ r = References
      /\ \A c \in Alone : Fits(c) => c \in ToSet(cands)
  BY <1>1, <1>3 DEF Most, LookingUp, Referring
<1>5. /\ ToSet(cands') \subseteq returned' /\ returned \subseteq returned'
      /\ \A c \in Alone' : Fits(c) => c \in ToSet(cands')
      /\ pick' # Nil => pick'.pick \in returned' /\ (r.verify \/ TopmostNext(pick'))
      /\ pick' = Nil => r.verify \/ \A c \in Alone' : ~Fits(c)
  BY <1>1, <1>2, <1>3, <1>4, SearchedMost
<1>6. /\ References' = References
      /\ \A c : (Fits(c)' <=> Fits(c))
  BY <1>1, FitGoesOn
<1>7. pick' # Nil => r.verify \/ Topmost(pick)'
  BY <1>1, <1>5, TopmostIsNext
<1> QED
  BY <1>1, <1>4, <1>5, <1>6, <1>7 DEF Most, Referring, LookingUp

LEMMA LookupPathKeepsMost == Inv /\ MostInv /\ LookupPath => MostInv'
<1> SUFFICES ASSUME Inv, MostInv, LookupPath, Unchanging' PROVE Most'
  BY DEF MostInv
<1>1. pc = "lookupPath" /\ UNCHANGED <<library, job, r, done, by, found>> /\ pc' = "looked"
  BY DEF LookupPath
<1>2. PICK a \in Replies :
        /\ Gathered(Search(r.fallback, r.fallback, a))
        /\ pick' = Best(ByPath(r), Search(r.fallback, r.fallback, a), Options(r))
  BY DEF LookupPath
<1>3. JobTyped /\ Unchanging /\ Most /\ cands \in Seq(Metadata) /\ Referred(r)
  BY <1>1, StillUnchanging DEF Inv, MostInv, Phase, Referring
<1>4. /\ job.mode \in {"batch", "manual"} /\ ToSet(cands) \subseteq returned
      /\ ToSet(job.given) \subseteq returned /\ r = References
      /\ \A c \in Alone : Fits(c) => c \in ToSet(cands)
  BY <1>1, <1>3 DEF Most, LookingUp, Referring
<1>5. /\ ToSet(cands') \subseteq returned' /\ returned \subseteq returned'
      /\ \A c \in Alone' : Fits(c) => c \in ToSet(cands')
      /\ pick' # Nil => pick'.pick \in returned' /\ pick'.kind = "path"
  BY <1>1, <1>2, <1>3, <1>4, SearchedPathMost
<1>6. /\ References' = References
      /\ \A c : (Fits(c)' <=> Fits(c))
  BY <1>1, FitGoesOn
<1> QED
  BY <1>1, <1>4, <1>5, <1>6 DEF Most, Referring, LookingUp

LEMMA LookedUpKeepsMost == Inv /\ MostInv /\ LookedUp => MostInv'
<1> SUFFICES ASSUME Inv, MostInv, LookedUp, Unchanging' PROVE Most'
  BY DEF MostInv
<1>1. /\ pc = "looked" /\ pc' = "process" /\ done' = TRUE /\ found' = pick /\ pick' = Nil
      /\ cands' = IF job.mode = "batch" THEN cands
                  ELSE IF pick = Nil THEN <<>> ELSE <<pick.pick>>
      /\ UNCHANGED <<library, job, r, by, returned>>
  BY DEF LookedUp
<1>2. JobTyped /\ Unchanging /\ Most
  BY <1>1, StillUnchanging DEF Inv, MostInv
<1>3. /\ job.mode \in {"batch", "manual"} /\ ToSet(cands) \subseteq returned
      /\ ToSet(job.given) \subseteq returned /\ r = References
      /\ \A c \in Alone : Fits(c) => c \in ToSet(cands)
      /\ pick # Nil => pick.pick \in returned
      /\ job.mode = "manual" /\ pick # Nil => r.verify \/ pick.kind = "path" \/ Topmost(pick)
  BY <1>1, <1>2 DEF Most, LookingUp, Referring
<1>4. ToSet(cands') \subseteq returned
  <2>1. ToSet(<<>>) = {} /\ ToSet(<<pick.pick>>) = {pick.pick}
    BY DEF ToSet
  <2> QED
    BY <1>1, <1>3, <2>1
<1>5. /\ Alone' = Alone /\ References' = References
      /\ \A c : (Fits(c)' <=> Fits(c))
      /\ \A p : Topmost(p)' <=> Topmost(p)
  BY <1>1, TopmostGoesOn
<1>6. job.mode = "manual" =>
        \/ cands' = <<>> \/ References'.verify \/ (found' # Nil /\ found'.kind = "path")
        \/ \E p : cands' = <<p.pick>> /\ Topmost(p)'
  BY <1>1, <1>3, <1>5
<1>7. job.mode = "batch" => \A c \in Alone' : Fits(c)' => c \in ToSet(cands')
  BY <1>1, <1>3, <1>5
<1> QED
  BY <1>1, <1>3, <1>4, <1>6, <1>7 DEF Most, Referring, LookingUp

(* What was handed over for the file is not searched for once more.         *)
LEMMA ProcessKeepsMost == Inv /\ MostInv /\ Process => MostInv'
<1> SUFFICES ASSUME Inv, MostInv, Process, Unchanging' PROVE Most'
  BY DEF MostInv
<1>1. /\ pc = "process" /\ r' = References /\ UNCHANGED <<library, job, done, cands, by, returned, found>>
      /\ pc' \in {"search", "decide"} /\ (done => pc' = "decide")
      /\ \/ pick' = Nil
         \/ ~r'.verify /\ pick' = Best(ByTags(r'), cands, Options(r'))
         \/ r'.verify /\ pick' = VerifiedAtLast(r'.refs, cands, Options(r'))
  BY DEF Process, Refer
<1>2. JobTyped /\ Unchanging /\ Most /\ cands \in Seq(Metadata)
  BY <1>1, StillUnchanging DEF Inv, MostInv, Phase
<1>3. Referred(r') /\ r'.refs \in Seq(Referents)
  BY <1>1, <1>2, FileIsReferred DEF Referred
<1>4. /\ ToSet(cands) \subseteq returned /\ ToSet(job.given) \subseteq returned
      /\ job.mode # "manual" => \A c \in Alone : Fits(c) => c \in ToSet(cands)
      /\ job.mode = "manual" =>
           /\ done
           /\ \/ cands = <<>> \/ References.verify \/ (found # Nil /\ found.kind = "path")
              \/ \E p : cands = <<p.pick>> /\ Topmost(p)
  BY <1>1, <1>2 DEF Most
<1>5. ASSUME r'.verify, pick' # Nil
      PROVE  pick'.pick \in ToSet(cands)
  <2>1. Options(r') \in Demands /\ pick' = VerifiedAtLast(r'.refs, cands, Options(r'))
    BY <1>1, <1>2, <1>3, <1>5, OptionsAreDemands
  <2>2. \E i \in DOMAIN r'.refs : Chosen(pick', r'.refs[i], cands, Options(r'))
    BY <1>2, <1>3, <1>5, <2>1, AtLastIsChosen
  <2> QED
    BY <2>2 DEF Chosen, ToSet
<1>6. ASSUME ~r'.verify, pick' # Nil
      PROVE  /\ pick'.pick \in ToSet(cands)
             /\ HandedByPath \/ Topmost(pick')
  <2>1. pick' = Best(ByTags(References), cands, Options(References))
    BY <1>1, <1>6
  <2>2. pick'.pick \in ToSet(cands)
    BY <1>2, <1>6, <2>1, BestByTags DEF Unchanging
  <2>3. CASE job.mode # "manual"
    BY <1>2, <1>4, <1>6, <2>1, <2>3, BestIsTopmost DEF Unchanging
  <2>4. CASE job.mode = "manual"
    <3>1. CASE cands = <<>>
      <4>1. ToSet(cands) = {}
        BY <3>1 DEF ToSet
      <4> QED
        BY <2>2, <4>1
    <3>2. CASE found # Nil /\ found.kind = "path"
      BY <2>2, <2>4, <3>2 DEF HandedByPath
    <3>3. CASE \E p : cands = <<p.pick>> /\ Topmost(p)
      <4>1. PICK p : cands = <<p.pick>> /\ Topmost(p)
        BY <3>3
      <4>2. ToSet(cands) = {p.pick}
        BY <4>1 DEF ToSet
      <4>3. pick'.pick = p.pick
        BY <2>2, <4>2
      <4> QED
        BY <2>2, <4>1, <4>3 DEF Topmost
    <3> QED
      BY <1>1, <1>4, <1>6, <2>4, <3>1, <3>2, <3>3
  <2> QED
    BY <2>2, <2>3, <2>4
<1>7. /\ Alone' = Alone /\ References' = References
      /\ \A c : (Fits(c)' <=> Fits(c))
      /\ \A p : Topmost(p)' <=> Topmost(p)
  BY <1>1, TopmostGoesOn
<1>8. pick' # Nil => pick'.pick \in returned
  BY <1>4, <1>5, <1>6
<1>9. pick' # Nil /\ ~r'.verify => HandedByPath' \/ Topmost(pick)'
  BY <1>1, <1>6, <1>7 DEF HandedByPath
<1> QED
  BY <1>1, <1>4, <1>7, <1>8, <1>9 DEF Most, Referring, LookingUp

(* A search of the second phase joins all that fits, by the tags or the     *)
(* path.                                                                    *)
LEMMA SearchOnlineKeepsMost == Inv /\ MostInv /\ SearchOnline => MostInv'
<1> SUFFICES ASSUME Inv, MostInv, SearchOnline, Unchanging' PROVE Most'
  BY DEF MostInv
<1>1. /\ pc = "search" /\ UNCHANGED <<library, job, r, done, by, found>>
      /\ pc' \in {"searchPath", "decide"}
  BY DEF SearchOnline
<1>2. PICK a \in Replies : Gathered(Online(a)) /\ pick' = Selected(Online(a))
  BY DEF SearchOnline
<1>3. JobTyped /\ Unchanging /\ Most /\ cands \in Seq(Metadata) /\ Referred(r)
  BY <1>1, StillUnchanging DEF Inv, MostInv, Phase, Referring
<1>4. /\ job.mode # "manual" /\ ToSet(cands) \subseteq returned
      /\ ToSet(job.given) \subseteq returned /\ r = References
      /\ \A c \in Alone : Fits(c) => c \in ToSet(cands)
  BY <1>1, <1>3 DEF Most, Referring
<1>5. /\ ToSet(cands') \subseteq returned' /\ returned \subseteq returned'
      /\ \A c \in Alone' : Fits(c) => c \in ToSet(cands')
      /\ pick' # Nil => pick'.pick \in returned' /\ (r.verify \/ TopmostNext(pick'))
  BY <1>1, <1>2, <1>3, <1>4, SearchedMost
<1>6. /\ References' = References
      /\ \A c : (Fits(c)' <=> Fits(c))
  BY <1>1, FitGoesOn
<1>7. pick' # Nil => r.verify \/ Topmost(pick)'
  BY <1>1, <1>5, TopmostIsNext
<1> QED
  BY <1>1, <1>4, <1>5, <1>6, <1>7 DEF Most, Referring, LookingUp

LEMMA SearchPathKeepsMost == Inv /\ MostInv /\ SearchPath => MostInv'
<1> SUFFICES ASSUME Inv, MostInv, SearchPath, Unchanging' PROVE Most'
  BY DEF MostInv
<1>1. /\ pc = "searchPath" /\ UNCHANGED <<library, job, r, done, found>>
      /\ pc' = "decide" /\ by' = "path"
  BY DEF SearchPath
<1>2. PICK a \in Replies :
        /\ Gathered(Search(r.fallback, r.fallback, a))
        /\ pick' = Best(ByPath(r), Search(r.fallback, r.fallback, a), Options(r))
  BY DEF SearchPath
<1>3. JobTyped /\ Unchanging /\ Most /\ cands \in Seq(Metadata) /\ Referred(r)
  BY <1>1, StillUnchanging DEF Inv, MostInv, Phase, Referring
<1>4. /\ job.mode # "manual" /\ ToSet(cands) \subseteq returned
      /\ ToSet(job.given) \subseteq returned /\ r = References
      /\ \A c \in Alone : Fits(c) => c \in ToSet(cands)
  BY <1>1, <1>3 DEF Most, Referring
<1>5. /\ ToSet(cands') \subseteq returned' /\ returned \subseteq returned'
      /\ \A c \in Alone' : Fits(c) => c \in ToSet(cands')
      /\ pick' # Nil => pick'.pick \in returned' /\ pick'.kind = "path"
  BY <1>1, <1>2, <1>3, <1>4, SearchedPathMost
<1>6. /\ References' = References
      /\ \A c : (Fits(c)' <=> Fits(c))
  BY <1>1, FitGoesOn
<1> QED
  BY <1>1, <1>4, <1>5, <1>6 DEF Most, Referring, LookingUp

(* So this holds too.                                                       *)
LEMMA MostHolds ==
  SelectionSpec => []MostInv
<1>1. SelectionInit => MostInv
  BY DEF SelectionInit, MostInv
<1>2. Inv /\ MostInv /\ [SelectionNext]_selectionVars => MostInv'
  <2> SUFFICES ASSUME Inv, MostInv, [SelectionNext]_selectionVars PROVE MostInv'
    OBVIOUS
  <2>1. CASE Begin \/ Learn
    BY <2>1, BeginKeepsMost, LearnKeepsMost
  <2>2. CASE Preload \/ PreloadRaises \/ Lookup \/ LookupPath \/ LookedUp
    BY <2>2, PreloadKeepsMost, RaisingKeepsMost, LookupKeepsMost, LookupPathKeepsMost, LookedUpKeepsMost
  <2>3. CASE Process \/ SearchOnline \/ SearchPath
    BY <2>3, ProcessKeepsMost, SearchOnlineKeepsMost, SearchPathKeepsMost
  <2>4. CASE Decide \/ Record
    BY <2>4 DEF Decide, Record, MostInv
  <2>5. CASE UNCHANGED selectionVars
    <3>1. /\ UNCHANGED <<library, job, pc, r, done, cands, pick, by, returned, found>>
          /\ References' = References /\ Alone' = Alone
          /\ \A c : (Fits(c)' <=> Fits(c))
          /\ \A p : Topmost(p)' <=> Topmost(p)
      BY <2>5, TopmostGoesOn DEF selectionVars
    <3> QED
      BY <3>1 DEF MostInv, Most, Unchanging, HandedByPath
  <2> QED
    BY <2>1, <2>2, <2>3, <2>4, <2>5 DEF SelectionNext
<1>3. SelectionSpec => []Inv
  BY InvHolds
<1> QED
  BY <1>1, <1>2, <1>3, PTL DEF SelectionSpec

(* A result by the tags is measured as the candidates are.                  *)
LEMMA ResultIsMeasured ==
  ASSUME UNCHANGED <<library, job, returned>>, r' = References,
         out'.by = "tags", out'.ref = References.match
  PROVE  \A c : (Fits(c) => Worth(c) <= Worth(out'.pick)) => NoBetter(c)'
<1>1. /\ References' = References
      /\ \A c : (Fits(c)' <=> Fits(c)) /\ Worth(c)' = Worth(c)
  BY FitGoesOn
<1> DEFINE p == out'.pick
<1>2. Options(r)' = Options(References)
  BY DEF Options
<1>3. \A c : Measured([kind |-> out.by, md |-> out.ref], c)' = Measured(ByTags(References), c)
  <2>1. \A m, c, f : Score(m, c, f)' = Score(m, c, f)
    BY DEF Score, SameCredits, ArtistMatch, ArtistScore, DuetScore, Alike
  <2>2. \A m : m = ByTags(References) =>
          m.kind = "tags" /\ m.md = References.match /\ m = [kind |-> out'.by, md |-> out'.ref]
    BY DEF ByTags
  <2> QED
    BY <2>1, <2>2 DEF Measured
<1> TAKE c
<1>4. (Eligible(Measured([kind |-> out.by, md |-> out.ref], c), Options(r)))' <=> Fits(c)
  BY <1>2, <1>3 DEF Fits
<1>5. (Gain(c, Options(r)))' = Worth(c) /\ (Gain(out.pick, Options(r)))' = Worth(p)
  BY <1>2 DEF Worth
<1> QED
  BY <1>4, <1>5 DEF NoBetter

(* The result by the tags is that of the topmost candidate.                 *)
LEMMA DecideGains ==
  ASSUME Inv, MostInv, Decide
  PROVE  GainMost'
<1>1. /\ JobTyped /\ Phase /\ Decided /\ UNCHANGED <<library, job, r, returned, found>> /\ pc = "decide"
  BY Decisions DEF Decide
<1> SUFFICES ASSUME Unchanging, out'.pick # Nil, out'.by = "tags", ~HandedByPath,
                    NEW c \in Alone
             PROVE  NoBetter(c)'
  <2>1. MostByTags' =>
        Unchanging /\ out'.pick # Nil /\ out'.by = "tags" /\ ~HandedByPath
    BY <1>1 DEF MostByTags, Unchanging, HandedByPath
  <2>2. \A c \in returned' : (\A d \in returned' : CandidateKey(d) = CandidateKey(c) => d = c) => c \in Alone
    BY <1>1 DEF Alone
  <2> QED
    BY <2>1, <2>2 DEF GainMost
<1>2. Most /\ r = References
  BY <1>1 DEF MostInv, Most, Referring
<1>3. /\ job.mode # "forced" /\ ~r.verify /\ r.missing # {}
      /\ out' = PlainResult(IF pick = Nil THEN r.md ELSE Fill(r.md, pick.pick, FALSE))
  <2>1. \A md, kind, ref : out' # Failed(md, kind, ref)
    BY FailedFields
  <2>2. out' # ForcedResult
    <3>1. \A md : Forced(md).by = "forced"
      BY DEF Forced, Failed, Organised
    <3> QED
      BY <3>1 DEF ForcedResult
  <2>3. ~(job.mode # "forced" /\ r.verify /\ pick # Nil /\ VerifiedResult)
    <3> SUFFICES ASSUME job.mode # "forced", r.verify, pick # Nil, VerifiedResult PROVE FALSE
      OBVIOUS
    <3>1. out'.by = pick.kind
      BY <2>1, OrganisedFields DEF VerifiedResult
    <3> QED
      BY <1>1, <3>1 DEF Decided
  <2>4. \A md, ref : out' # Organised(md, "tags", ref, Nil, FALSE)
    <3>1. \A md, ref : Organised(md, "tags", ref, Nil, FALSE).pick = Nil
      BY DEF Organised
    <3> QED
      BY <3>1
  <2> QED
    BY <2>1, <2>2, <2>3, <2>4, Decisions
<1> DEFINE md == IF pick = Nil THEN r.md ELSE Fill(r.md, pick.pick, FALSE)
           p == IF pick = Nil THEN Nil ELSE pick.pick
<1>4. out' = Organised(md, by, Basis, p, Gained(md))
  BY <1>3, FailedFields DEF PlainResult
<1> HIDE DEF md
<1>5. out'.by = by /\ out'.ref = Basis /\ out'.pick = p
  BY <1>4, OrganisedFields
<1>6. by = "tags" /\ pick # Nil /\ out'.pick = pick.pick /\ out'.ref = r.match
  BY <1>5 DEF Basis
<1>7. Topmost(pick)
  BY <1>1, <1>2, <1>3, <1>6 DEF Most
<1>8. Fits(c) => Worth(c) <= Worth(out'.pick)
  BY <1>6, <1>7 DEF Topmost
<1> QED
  BY <1>1, <1>2, <1>6, <1>8, ResultIsMeasured

(* With "maximum attempt" the candidate taken by the tags fills as many     *)
(* missing fields as any acceptable one that any source returned in either  *)
(* phase, duplicates apart and while the library stays as it was            *)
(* (_rank_metadata_candidates, _merge_metadata_candidates): no candidate    *)
(* that fits gets lost between the look-up, the task that organises the     *)
(* file and its own search.                                                 *)
THEOREM GainsMost ==
  SelectionSpec => []GainMost
<1>1. SelectionInit => GainMost
  BY DEF SelectionInit, GainMost, MostByTags, Ended
<1>2. Inv /\ MostInv /\ GainMost /\ [SelectionNext]_selectionVars => GainMost'
  <2> SUFFICES ASSUME Inv, MostInv, GainMost, [SelectionNext]_selectionVars, out' # Nil
               PROVE  GainMost'
    BY DEF GainMost, MostByTags, Ended
  <2>1. CASE Decide
    BY <2>1, DecideGains
  <2>2. CASE UNCHANGED <<job, r, returned, found, out>> /\ library \subseteq library' /\ JobTyped
    <3> SUFFICES ASSUME MostByTags' PROVE GainMost'
      BY DEF GainMost
    <3>1. library' = library /\ MostByTags
      BY <2>2 DEF MostByTags, Ended, HandedByPath, JobTyped
    <3>2. \A c : NoBetter(c)' <=> NoBetter(c)
      <4>1. \A m, x, f : Score(m, x, f)' = Score(m, x, f)
        BY <3>1 DEF Score, SameCredits, ArtistMatch, ArtistScore, DuetScore, Alike
      <4>2. Options(r)' = Options(r) /\ \A m, x : Measured(m, x)' = Measured(m, x)
        BY <2>2, <4>1, Zenon DEF Options, Measured
      <4> QED
        BY <2>2, <4>1, <4>2 DEF NoBetter
    <3> QED
      BY <2>2, <3>1, <3>2 DEF GainMost
  <2> QED
    BY <2>1, <2>2, ResultsStay
<1>3. SelectionSpec => []Inv
  BY InvHolds
<1>4. SelectionSpec => []MostInv
  BY MostHolds
<1> QED
  BY <1>1, <1>2, <1>3, <1>4, PTL DEF SelectionSpec
=============================================================================
