-------------------------------- MODULE Organize --------------------------------
(***************************************************************************)
(* Organising music files (core/scraping.py, and its callers and the media *)
(* records in infra/api/app.py): a job takes one file after another,       *)
(* settles its metadata, transfers it into the library, writes its tags,   *)
(* moves it to the place its metadata gives it, and records the result.    *)
(* Users organise files again, which first deletes what the last time gave *)
(* (_prepare_media_record_reorganize), and delete records. A step is the   *)
(* work between two awaits that other jobs can see; a file operation in a  *)
(* worker thread is one step, except that the choice of the final name and *)
(* the move to it are two.                                                 *)
(***************************************************************************)
EXTENDS Naturals, FiniteSets, Sequences

CONSTANTS
  Source,      \* the source files
  Jobs,        \* how many tasks and requests organise them at a time
  Place,       \* final paths, without the number that makes one unique
  Places,      \* the final paths that the metadata of a source can give it
  Song,        \* artist and base title of a source
  Version,     \* version and collaborators of a source
  Album,       \* the album whose lease is needed to write its tags
  Size,        \* its size
  Field,       \* the metadata that settings can ask for
  Scope,       \* the settings to choose from, how many organisations and
               \* deletions there are with them, of which sources an earlier
               \* organisation failed, and what else can fail
  Finding,     \* what a file, its path and the metadata sources can say
  Numbers,     \* bound on the numbers that make a path unique
  None

(* "link": a hard link is impossible; "copy", "move": no space; "tag": the *)
(* tags cannot be written; "lease": the album's identity cannot be found;  *)
(* "record": the result cannot be stored; "crash": the process ends.       *)
ASSUME OrganizeAssumption ==
  /\ Places \in [Source -> SUBSET Place] /\ \A s \in Source : Places[s] # {}
  /\ Size \in [Source -> Nat]
  /\ Jobs \in Nat \ {0}
  /\ \A c \in Scope : c.cfg \in
                     [mode : {"source", "mapped", "copy"}, placed : BOOLEAN,
                       vc : BOOLEAN, dup : {"ignore", "keep_largest", "overwrite"},
                       trigger : SUBSET Field, required : SUBSET Field, max : BOOLEAN]
  (* What is found is a set of at most one candidate, the fields it fills.  *)
  /\ Finding \subseteq [has : SUBSET Field, forced : BOOLEAN, offer : SUBSET Field,
                        verify : BOOLEAN, as : {"none", "source", "inferred", "context"},
                        looked : BOOLEAN, cached : SUBSET SUBSET Field,
                        online : SUBSET SUBSET Field, fallback : SUBSET SUBSET Field,
                        conflict : BOOLEAN, artist : BOOLEAN]
  /\ Numbers \in Nat \ {0} /\ None \notin Nat
  /\ \A c \in Scope : c.starts \in Nat /\ c.failed \in Seq(Source) /\ c.faults \subseteq
                     {"link", "copy", "move", "tag", "lease", "record", "crash"}

VARIABLES
  cfg,        \* ScrapingConfig
  fs,         \* the files
  rows,       \* media_files
  job,        \* the jobs
  keyed,      \* the resource key file:<source>
  lease,      \* the resource key album:<album>
  starts,     \* what is left of the organisations and deletions
  faults

vars == <<cfg, fs, rows, job, keyed, lease, starts, faults>>

Src(s) == <<"source", s, 1>>
Name == ({"source"} \X Source \X {1}) \cup ({"mapped"} \X Source \X (1..Numbers))
          \cup ({"final"} \X Place \X (1..Numbers))
(* A file is the source's own data (a hard link shares it) or a copy; the  *)
(* last field tells whether it was put in place under its album's lease.   *)
File == [of : Source, seed : BOOLEAN, tagged : BOOLEAN, leased : BOOLEAN]
ASSUME NoneAssumption == None \notin File \cup Name
Seed(s) == [of |-> s, seed |-> TRUE, tagged |-> FALSE, leased |-> FALSE]
Row == [source : Source, status : {"success", "skipped", "failed"},
        path : Name \cup {None}, mention : Name \cup {None}]
Job == 1..Jobs
Id == 1..2 * Cardinality(Source)
NoJob == [pc |-> "idle", kind |-> "auto", files |-> {}, todo |-> {}, avoid |-> {},
          known |-> {}, cur |-> None, place |-> None, writes |-> FALSE, over |-> FALSE,
          leased |-> FALSE, work |-> None, made |-> "nothing", aim |-> None,
          verdict |-> "failed", path |-> None, mention |-> None]
PC == {"idle", "prepare", "queued", "next", "lease", "transfer", "tag", "aim", "move", "report"}
Run == [pc : PC, kind : {"auto", "redo"}, files : SUBSET Source, todo : SUBSET Source,
        avoid : SUBSET Name, known : SUBSET [of : Source, path : Name],
        cur : Source \cup {None}, place : Place \cup {None}, writes : BOOLEAN,
        over : BOOLEAN, leased : BOOLEAN, work : Name \cup {None},
        made : {"nothing", "already", "over", "new"}, aim : Name \cup {None},
        verdict : {"success", "skipped", "failed"}, path : Name \cup {None},
        mention : Name \cup {None}]

TypeOK ==
  /\ \E c \in Scope : cfg = c.cfg /\ faults = c.faults /\ starts \in 0..c.starts
  /\ fs \in [Name -> File \cup {None}]
  /\ rows \in [Id -> Row \cup {None}]
  /\ job \in [Job -> Run]
  /\ keyed \in [Source -> Job \cup {None}]
  /\ lease \in [{Album[s] : s \in Source} -> Job \cup {None}]

Init ==
  /\ \E c \in Scope :
       /\ cfg = c.cfg /\ faults = c.faults /\ starts = c.starts
       /\ rows = [i \in Id |-> IF i \in DOMAIN c.failed
                                THEN [source |-> c.failed[i], status |-> "failed",
                                      path |-> None, mention |-> None]
                                ELSE None]
  /\ fs = [n \in Name |-> IF n[1] = "source" THEN Seed(n[2]) ELSE None]
  /\ job = [j \in Job |-> NoJob]
  /\ keyed = [s \in Source |-> None]
  /\ lease = [a \in {Album[s] : s \in Source} |-> None]

-----------------------------------------------------------------------------
(* Files and names *)

SameFile(m, n) ==
  fs[m] # None /\ fs[n] # None
  /\ (m = n \/ (fs[m].seed /\ fs[n].seed /\ fs[m].of = fs[n].of))

(* The first free one of a path and the same path with (2), (3), ...; the  *)
(* bound Numbers holds up who finds none.                                  *)
Room(dir, base) == \E k \in 1..Numbers : fs[<<dir, base, k>>] = None
Unique(dir, base) ==
  LET free == {k \in 1..Numbers : fs[<<dir, base, k>>] = None}
  IN <<dir, base, CHOOSE k \in free : \A l \in free : k <= l>>

(* Writing tags changes a file under all its names. *)
Written(n) == [m \in Name |-> IF m = n \/ SameFile(m, n) THEN [fs[m] EXCEPT !.tagged = TRUE]
                              ELSE fs[m]]

(* _path_matches_any_key, _delete_file_path *)
Without(f, names) == [n \in Name |-> IF n \in names THEN None ELSE f[n]]

Mapped == cfg.mode # "source"
Library == {n \in Name : fs[n] # None /\ (Mapped => n[1] # "source")}

-----------------------------------------------------------------------------
(* The metadata of a file *)

Missing(x) == (cfg.trigger \cup cfg.required) \ x.has

(* The candidate looked up: one that was known before, one from the        *)
(* metadata sources when that gives none or, with max_scrape_attempt, not  *)
(* all that is missing, one found with what the path says.                 *)
LookedUp(x) ==
  LET wanting == x.cached = {} \/ (cfg.max /\ ~ Missing(x) \subseteq UNION x.cached)
      found == IF ~ x.looked /\ wanting THEN x.online ELSE x.cached
  IN IF found = {} /\ ~ x.looked THEN x.fallback ELSE found

Settled(ok, writes) == [ok |-> ok, writes |-> writes]
Forced(x) == Settled(cfg.required \subseteq x.has \cup x.offer, TRUE)

(* A reference that the path gives replaces what the file itself says, its *)
(* lyrics and its cover included.                                          *)
Verified(x) ==
  LET have == (IF x.as = "inferred" THEN {} ELSE x.has) \cup UNION (x.cached \cup x.online)
      needs == Missing(x) # {}
  IN Settled(x.as # "none" /\ (needs => cfg.required \subseteq have),
             x.as = "inferred" \/ (Missing(x) \cap have # {}))

Scraped(x) ==
  LET found == LookedUp(x)
      have == x.has \cup UNION found
  IN Settled(cfg.required \subseteq have /\ (found = {} => ~ (cfg.vc /\ x.conflict)),
             Missing(x) \cap have # {})

Metadata(x) ==
  IF x.forced THEN Forced(x)
  ELSE IF x.verify THEN Verified(x)
  ELSE IF Missing(x) # {} THEN Scraped(x)
  ELSE Settled(TRUE, FALSE)

(* What the canonical name of the artist's directory needs. *)
Classified(x, settled) == settled.ok /\ (cfg.placed => x.artist)

-----------------------------------------------------------------------------
(* Requests and tasks *)

Set(j, r) == job' = [job EXCEPT ![j] = r]
Count == starts > 0 /\ starts' = starts - 1
(* Jobs are alike, so an idle one with the least number is taken.          *)
Idle(j) == \A k \in 1..j : job[k].pc = "idle" <=> k = j

(* One file, for a download item or a file that the directory monitor saw. *)
Submit(j, s) ==
  /\ Idle(j) /\ Count
  /\ Set(j, [NoJob EXCEPT !.pc = "queued", !.files = {s}, !.todo = {s}])
  /\ UNCHANGED <<cfg, fs, rows, keyed, lease, faults>>

(* Files to be organised again, once what they gave before is removed. *)
Redo(j, files) ==
  /\ Idle(j) /\ Count
  /\ files # {} /\ \A s \in files : fs[Src(s)] # None
  /\ Set(j, [NoJob EXCEPT !.pc = "prepare", !.kind = "redo", !.files = files, !.todo = files])
  /\ UNCHANGED <<cfg, fs, rows, keyed, lease, faults>>

RowsOf(s) == {i \in Id : rows[i] # None /\ rows[i].source = s}

(* What a record says was put into the library, and what of it is deleted: *)
(* the file of a success, unless it is the source file itself; for another *)
(* result the file that its message says was there already.                *)
Result(r) == {IF r.path # None THEN r.path ELSE r.mention} \ {None}
Deleted(r) ==
  IF r.path # None
  THEN {n \in {r.path} : r.status = "success" /\ ~ SameFile(n, Src(r.source))}
  ELSE {r.mention} \ {None}
Prepare(j, s) ==
  LET old == {rows[i] : i \in RowsOf(s)}
      names == UNION {Result(r) : r \in old}
  IN /\ job[j].pc = "prepare" /\ s \in job[j].todo
     /\ fs' = Without(fs, UNION {Deleted(r) : r \in old})
     /\ rows' = [i \in Id |-> IF i \in RowsOf(s) THEN None ELSE rows[i]]
     /\ Set(j, [job[j] EXCEPT !.todo = @ \ {s}, !.avoid = @ \cup names])
     /\ UNCHANGED <<cfg, keyed, lease, starts, faults>>

Enqueue(j) ==
  /\ job[j].pc = "prepare" /\ job[j].todo = {}
  /\ Set(j, [job[j] EXCEPT !.pc = "queued", !.todo = job[j].files])
  /\ UNCHANGED <<cfg, fs, rows, keyed, lease, starts, faults>>

(* The successes of the past and the songs of the library, so far as the   *)
(* media server has seen them, but not those that the preparation deleted. *)
Past == {rows[i] : i \in {k \in Id : /\ rows[k] # None /\ rows[k].status = "success"
                                     /\ fs[rows[k].path] # None}}
Snapshot(seen, avoid) ==
  {x \in {[of |-> r.source, path |-> r.path] : r \in Past}
           \cup {[of |-> fs[n].of, path |-> n] : n \in seen} : x.path \notin avoid}

(* A task for one file holds the key of the file while it runs; a batch    *)
(* has a key of its own and takes those of its files one after another.    *)
Claim(j) ==
  LET there == {s \in job[j].files : fs[Src(s)] # None}
  IN /\ job[j].pc = "queued"
     /\ \/ /\ job[j].kind = "auto"
           /\ \A s \in there : keyed[s] = None
           /\ keyed' = [s \in Source |-> IF s \in there THEN j ELSE keyed[s]]
        \/ /\ job[j].kind = "redo"
           /\ \A k \in Job : job[k].kind = "redo" /\ job[k].files = job[j].files
                               => job[k].pc \in {"idle", "prepare", "queued"}
           /\ UNCHANGED keyed
     /\ \E seen \in {{}, Library} :
          Set(j, IF there = {} THEN NoJob
                 ELSE [job[j] EXCEPT !.pc = "next", !.todo = there, !.avoid = {},
                                     !.known = Snapshot(seen, job[j].avoid)])
     /\ UNCHANGED <<cfg, fs, rows, lease, starts, faults>>

-----------------------------------------------------------------------------
(* The organisation of a file *)

(* The file has its result. A batch gives up the key of the file before    *)
(* the result is recorded; the lease of the album is kept until after it.  *)
Outcome(r, verdict, path, mention) ==
  [NoJob EXCEPT !.pc = "report", !.kind = r.kind, !.files = r.files, !.todo = r.todo,
                !.known = r.known, !.cur = r.cur, !.verdict = verdict, !.path = path,
                !.mention = mention]
Ended(j, r, verdict, path, mention) ==
  /\ Set(j, Outcome(r, verdict, path, mention))
  /\ keyed' = IF r.kind = "redo" THEN [keyed EXCEPT ![r.cur] = None] ELSE keyed
Fails(j, r) == Ended(j, r, "failed", None, None)
Goes(j, pc, r) == Set(j, [r EXCEPT !.pc = pc]) /\ UNCHANGED keyed

Begin(j, s) ==
  /\ job[j].pc = "next" /\ s \in job[j].todo
  /\ job[j].kind = "redo" => keyed[s] = None
  /\ \E x \in Finding :
       LET settled == Metadata(x)
           r == [job[j] EXCEPT !.cur = s, !.writes = settled.writes]
       IN /\ x.forced => job[j].kind = "redo"
          /\ \/ /\ fs[Src(s)] # None /\ Classified(x, settled)
                /\ \E p \in Places[s] :
                     Set(j, [r EXCEPT !.place = IF cfg.placed THEN p ELSE None,
                                      !.pc = IF r.writes THEN "lease" ELSE "transfer"])
                /\ keyed' = [keyed EXCEPT ![s] = j]
             \/ ~ (fs[Src(s)] # None /\ Classified(x, settled)) /\ Fails(j, r)
  /\ UNCHANGED <<cfg, fs, rows, lease, starts, faults>>

Lease(j) ==
  /\ job[j].pc = "lease" /\ lease[Album[job[j].cur]] = None
  /\ \/ /\ lease' = [lease EXCEPT ![Album[job[j].cur]] = j]
        /\ Goes(j, "transfer", [job[j] EXCEPT !.leased = TRUE])
     \/ "lease" \in faults /\ Fails(j, job[j]) /\ UNCHANGED lease
  /\ UNCHANGED <<cfg, fs, rows, starts, faults>>

(* _find_duplicate_media among the songs known when the job began *)
Duplicates(j) ==
  {x \in job[j].known : Song[x.of] = Song[job[j].cur]
                        /\ (cfg.vc => Version[x.of] = Version[job[j].cur])}
Skips(j, x) ==
  cfg.dup = "ignore" \/ (cfg.dup = "keep_largest" /\ Size[job[j].cur] <= Size[x.of])

Skip(j) ==
  /\ job[j].pc = "transfer" /\ fs[Src(job[j].cur)] # None
  /\ \E x \in Duplicates(j) :
       Skips(j, x) /\ Ended(j, job[j], "skipped", None, IF fs[x.path] # None THEN x.path ELSE None)
  /\ UNCHANGED <<cfg, fs, rows, lease, starts, faults>>

(* Its size cannot be read. *)
Vanished(j) ==
  /\ job[j].pc = "transfer" /\ fs[Src(job[j].cur)] = None
  /\ Fails(j, job[j])
  /\ UNCHANGED <<cfg, fs, rows, lease, starts, faults>>

\* Slip: a hard link also when tags are to be written.
LinkedAlways(j) == cfg.mode = "mapped"
LinkedFor(j) == cfg.mode = "mapped" /\ ~ job[j].writes

(* _copy_to_mapping: the path below the mapped directory is that below the *)
(* source directory. What stood there is removed first.                    *)
Transfer(j) ==
  LET s == job[j].cur
      target == IF cfg.placed THEN Unique("mapped", s) ELSE <<"mapped", s, 1>>
      with(work, made) ==
        [job[j] EXCEPT !.over = Duplicates(j) # {}, !.work = work, !.made = made]
      r == with(target, IF fs[target] # None THEN "over" ELSE "new")
      filed(seed) == fs' = [fs EXCEPT ![target] = [fs[Src(s)] EXCEPT !.seed = seed]]
  IN /\ job[j].pc = "transfer"
     /\ fs[Src(s)] # None
     /\ Duplicates(j) # {} => \E x \in Duplicates(j) : ~ Skips(j, x)
     /\ Mapped /\ cfg.placed => Room("mapped", s)
     /\ \/ /\ ~ Mapped
           /\ Goes(j, "tag", with(Src(s), "nothing")) /\ UNCHANGED fs
        \/ /\ Mapped /\ LinkedFor(j) /\ SameFile(Src(s), target)
           /\ Goes(j, "tag", with(target, "already")) /\ UNCHANGED fs
        \/ /\ Mapped /\ ~ (LinkedFor(j) /\ SameFile(Src(s), target))
           /\ \/ LinkedFor(j) /\ filed(TRUE) /\ Goes(j, "tag", r)
              \/ (LinkedFor(j) => "link" \in faults) /\ filed(FALSE) /\ Goes(j, "tag", r)
              \/ "copy" \in faults /\ Fails(j, job[j]) /\ fs' = Without(fs, {target})
     /\ UNCHANGED <<cfg, rows, lease, starts, faults>>

\* Slip: whatever is at the path the file was transferred to.
RolledBackAny(r) == IF r.made # "nothing" THEN {r.work} ELSE {}
(* _rollback_created_working_file: not a file that replaced another one.   *)
RolledBack(r) == IF r.made = "new" THEN {r.work} ELSE {}
(* Writes the tags; a required cover that is not there afterwards counts   *)
(* as a failure, as an exception of the writer does.                       *)
Tag(j) ==
  /\ job[j].pc = "tag"
  /\ \/ ~ job[j].writes /\ Goes(j, "aim", job[j]) /\ UNCHANGED fs
     \/ job[j].writes /\ fs[job[j].work] # None /\ Goes(j, "aim", job[j])
          /\ fs' = Written(job[j].work)
     \/ /\ job[j].writes /\ ("tag" \in faults \/ fs[job[j].work] = None)
        /\ Fails(j, job[j]) /\ fs' = Without(fs, RolledBack(job[j]))
     \/ /\ job[j].writes /\ "cover" \in cfg.required /\ fs[job[j].work] # None
        /\ Fails(j, job[j])
        /\ fs' = [n \in Name |-> IF n \in RolledBack(job[j]) THEN None ELSE Written(job[j].work)[n]]
  /\ UNCHANGED <<cfg, rows, lease, starts, faults>>

Overwrites(j) == ~ cfg.vc \/ job[j].over

(* Slip: the lease of the album is given up before the file is in place.   *)
AimUnleased(j) ==
  LET r == job[j]
      target == IF ~ cfg.placed THEN r.work
                ELSE IF Overwrites(j) THEN <<"final", r.place, 1>> ELSE Unique("final", r.place)
  IN /\ r.pc = "aim"
     /\ cfg.placed /\ ~ Overwrites(j) => Room("final", r.place)
     /\ IF target = r.work \/ SameFile(r.work, target)
        THEN Ended(j, r, "success", r.work, None)
        ELSE Goes(j, "move", [r EXCEPT !.aim = target])
     /\ lease' = [a \in DOMAIN lease |-> IF lease[a] = j THEN None ELSE lease[a]]
     /\ UNCHANGED <<cfg, fs, rows, starts, faults>>

(* _classify_or_rename: the final name, and nothing to do when that is the *)
(* same file already.                                                      *)
Aim(j) ==
  LET r == job[j]
      target == IF ~ cfg.placed THEN r.work
                ELSE IF Overwrites(j) THEN <<"final", r.place, 1>> ELSE Unique("final", r.place)
  IN /\ r.pc = "aim"
     /\ cfg.placed /\ ~ Overwrites(j) => Room("final", r.place)
     /\ IF target = r.work \/ SameFile(r.work, target)
        THEN Ended(j, r, "success", r.work, None)
        ELSE Goes(j, "move", [r EXCEPT !.aim = target])
     /\ UNCHANGED <<cfg, fs, rows, lease, starts, faults>>

(* The move replaces a file at the final name whether it was expected or   *)
(* not, but removes an expected one before.                                *)
Move(j) ==
  LET r == job[j]
      gone == IF Overwrites(j) THEN {r.aim} ELSE {}
  IN /\ r.pc = "move"
     /\ \/ /\ fs[r.work] # None
           /\ fs' = [fs EXCEPT ![r.aim] = [fs[r.work] EXCEPT !.leased = r.leased],
                               ![r.work] = None]
           /\ Ended(j, r, "success", r.aim, None)
        \/ /\ fs[r.work] = None \/ "move" \in faults
           /\ fs' = Without(fs, gone \cup RolledBack(r))
           /\ Fails(j, r)
     /\ UNCHANGED <<cfg, rows, lease, starts, faults>>

(* record_scraping_result: the row of the path, else a row of the source,  *)
(* else a new one.                                                         *)
Slot(r) ==
  LET least(I) == CHOOSE i \in I : \A k \in I : i <= k
      at == {i \in Id : rows[i] # None /\ r.path # None /\ rows[i].path = r.path}
  IN IF at # {} THEN least(at)
     ELSE IF RowsOf(r.cur) # {} THEN least(RowsOf(r.cur))
     ELSE least({i \in Id : rows[i] = None})

Freed(j, f) == [x \in DOMAIN f |-> IF f[x] = j THEN None ELSE f[x]]
(* Slip: only a success gives the lease back. *)
ReleasedOnSuccess(j, last) ==
  /\ lease' = IF job[j].verdict = "success" THEN Freed(j, lease) ELSE lease
  /\ keyed' = IF last THEN Freed(j, keyed) ELSE keyed
(* The leases of the file, and with the last file the key of the task.     *)
Released(j, last) ==
  /\ lease' = Freed(j, lease)
  /\ keyed' = IF last THEN Freed(j, keyed) ELSE keyed
Report(j) ==
  LET r == job[j]
      left == r.todo \ {r.cur}
  IN /\ r.pc = "report"
     /\ \/ /\ rows' = [rows EXCEPT ![Slot(r)] = [source |-> r.cur, status |-> r.verdict,
                                                 path |-> r.path, mention |-> r.mention]]
           /\ Released(j, left = {})
           /\ Set(j, IF left = {} THEN NoJob
                     ELSE [NoJob EXCEPT !.pc = "next", !.kind = r.kind, !.files = r.files,
                                        !.todo = left, !.known = r.known])
        \/ /\ "record" \in faults
           /\ Released(j, TRUE) /\ Set(j, NoJob) /\ UNCHANGED rows
     /\ UNCHANGED <<cfg, fs, starts, faults>>

-----------------------------------------------------------------------------
(* Users, the media server, the process *)

(* _delete_media_record: the record, with what it put into the library, or *)
(* with the source as well.                                                *)
DeleteRecord(i, mode) ==
  LET result == IF rows[i].status = "success" /\ mode # "record_only"
                THEN {rows[i].path} \ {None} ELSE {}
  IN /\ rows[i] # None /\ Count
     /\ fs' = Without(fs, result \cup IF mode = "all" THEN {Src(rows[i].source)} ELSE {})
     /\ rows' = [rows EXCEPT ![i] = None]
     /\ UNCHANGED <<cfg, job, keyed, lease, faults>>

Crash ==
  /\ "crash" \in faults /\ Count
  /\ job' = [j \in Job |-> NoJob]
  /\ keyed' = [s \in Source |-> None]
  /\ lease' = [a \in DOMAIN lease |-> None]
  /\ UNCHANGED <<cfg, fs, rows, faults>>

Organizes(j) ==
  \/ Claim(j) \/ (\E s \in Source : Begin(j, s)) \/ Lease(j) \/ Skip(j) \/ Vanished(j)
  \/ Transfer(j) \/ Tag(j) \/ Aim(j) \/ Move(j) \/ Report(j)
Works(j) == (\E s \in Source : Prepare(j, s)) \/ Enqueue(j) \/ Organizes(j)

Next ==
  \/ \E j \in Job : Works(j)
  \/ \E j \in Job, s \in Source : Submit(j, s)
  \/ \E j \in Job, files \in SUBSET Source : Redo(j, files)
  \/ \E i \in Id, mode \in {"record_only", "media_file", "all"} : DeleteRecord(i, mode)
  \/ Crash

(* Requests and tasks run; nothing makes anyone submit or delete.        *)
Fairness == \A j \in Job : WF_vars(Works(j))
Spec == Init /\ [][Next]_vars /\ Fairness

-----------------------------------------------------------------------------
(* Properties *)

(* Where files are mapped or copied into the library the sources are what  *)
(* a torrent seeds: organising, organising again and rolling back leave    *)
(* them, and their tags, alone; only the deletion of a record together     *)
(* with its source takes one away.                                         *)
SourcesKept ==
  [][Mapped => \A s \in Source :
       \/ fs'[Src(s)] = fs[Src(s)]
       \/ \E i \in Id : DeleteRecord(i, "all") /\ rows[i].source = s]_vars

(* What an organisation of a file can take away again, or loses when it    *)
(* replaces it and fails: a file that it put in place itself, and the one  *)
(* at the path it is just writing to, if it is to replace that.            *)
Made(j) == IF job[j].made = "new" THEN {job[j].work} ELSE {}
Replaced(j) ==
  {n \in Name : \/ job[j].pc = "transfer" /\ ~ cfg.placed /\ n = <<"mapped", job[j].cur, 1>>
                \/ job[j].pc = "move" /\ Overwrites(j) /\ n = job[j].aim}

(* The file that a success was recorded for stays in the library, or is    *)
(* replaced, whatever becomes of another organisation of the same or of    *)
(* another source: one that fails removes only what it made, and the file  *)
(* whose place its own was about to take.                                  *)
ResultsKept ==
  [][\A j \in Job : job[j].pc \notin {"idle", "prepare"} /\ job'[j] # job[j] => \A i \in Id :
       rows[i] # None /\ rows[i].status = "success" /\ fs[rows[i].path] # None
         => fs'[rows[i].path] # None \/ rows[i].path \in Made(j) \cup Replaced(j)]_vars

(* With version control, an organisation that holds its album's lease      *)
(* finds the name it chose for its file still free, unless it replaces a   *)
(* duplicate or a file came that was organised without the lease.          *)
VersionsKept ==
  \A j \in Job :
    job[j].pc = "move" /\ job[j].leased /\ ~ Overwrites(j) /\ fs[job[j].aim] # None
      => ~ fs[job[j].aim].leased

(* Every request and every task ends: no one waits for ever for the key of *)
(* a file or the lease of an album.                                        *)
JobsEnd == \A j \in Job : job[j].pc # "idle" ~> job[j].pc = "idle"

=============================================================================
