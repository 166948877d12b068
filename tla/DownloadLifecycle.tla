--------------------------- MODULE DownloadLifecycle ---------------------------
(***************************************************************************)
(* The life of one download: its record (torrent_records), the audio files *)
(* of its torrent (torrent_record_items) and the system tasks that scrape, *)
(* organise and announce them. The coroutines are the request that submits *)
(* it, the poll of infra/api/app.py, and the executors of its tasks. The   *)
(* tasks follow the contract that TaskQueue implements: one runner at a    *)
(* time per resource key, an idempotency key for good. A task's claim and  *)
(* its first reading of the database are one step.                         *)
(***************************************************************************)
EXTENDS Naturals, FiniteSets

CONSTANTS
  Item,        \* the items of the torrent; each has its file
  Other,       \* a source file that matches no item
  Attempts,    \* max_attempts of every task
  MaxMishaps,  \* bound on restarts, exceptions and requests of the user
  Env          \* what may happen besides in a behaviour: subsets of Awkward

(* "crash": the service restarts.                                          *)
(* "unresolved": an artist's directory cannot be determined; the task that *)
(*   organises the file is retried 60 s later.                             *)
(* "error": a call of an executor raises.                                  *)
(* "slow": an item's task settles while a coroutine holds an older copy of *)
(*   the item.                                                             *)
(* "user": the user interrupts tasks and deletes the download.             *)
(* "mixed": the download has the file Other as well.                       *)
Awkward == {"crash", "unresolved", "error", "slow", "user", "mixed"}

ASSUME LifecycleAssumption ==
  /\ Other \notin Item
  /\ Attempts \in Nat \ {0}
  /\ MaxMishaps \in Nat
  /\ Env \subseteq SUBSET Awkward

VARIABLES
  \* the database
  rec,       \* status of the record; "absent" if there is none
  item,      \* status of each item
  row,       \* status of the task of each idempotency key
  attempts,  \* attempts of each task that has not ended
  chained,   \* scraping tasks with organize_after_scrape
  scraped,   \* scraping_completed in the record's payload
  \* the coroutines
  submit,    \* step of the request
  poll,      \* step of the poll
  listed, todo, pending,  \* its copy of the items; those it still handles; one was not terminal
  at,        \* step of each running task
  syncing,   \* tasks the interrupt endpoint has still to report
  \* the environment and the history
  env,       \* what may happen besides
  mishaps, library, scanned, notified,
  redone     \* files whose organisation was cut off, or done again after it had ended

tasks == <<row, attempts, chained, at>>
polling == <<poll, listed, todo, pending>>
outside == <<submit, polling, syncing, env>>
history == <<mishaps, library, scanned, notified, redone>>
vars == <<rec, item, scraped, tasks, outside, history>>

Refresh == <<"refresh">>
Finalize == <<"finalize">>
ItemRow == {"scrape", "organize"} \X Item \X BOOLEAN  \* TRUE: the ":recover:" key
Row == ItemRow \cup {Refresh, Finalize}

Incomplete == {"pending", "searching"}
Terminal == {"organized", "organize_failed", "organize_skipped"}
ItemStatus == Incomplete \cup Terminal \cup {"absent", "found", "organizing", "interrupted"}
Unfinished == {"queued", "submitted", "downloading", "completed", "refreshing"}
Announcing == {"refreshed", "refresh_skipped"}
Ended == Announcing \cup {"failed", "deleted", "not_found", "interrupted"}
Queued == {"wait", "running"}
Outcome == Terminal \cup {"unresolved"}

(* The types of the variables; and a task that waits has an attempt left, *)
(* without which try_claim_system_task would end it unseen by this module. *)
TypeOK ==
  /\ rec \in {"absent"} \cup Unfinished \cup Ended
  /\ item \in [Item -> ItemStatus]
  /\ row \in [Row -> Queued \cup {"absent", "done", "failed", "interrupted"}]
  /\ attempts \in [Row -> 0..Attempts]
  /\ \A r \in Row : row[r] = "wait" => attempts[r] < Attempts
  /\ chained \subseteq ItemRow
  /\ scraped \in BOOLEAN
  /\ submit \in {"none", "adding", "recording", "enqueuing", "over"}
  /\ poll \in {"idle", "named", "status", "mark", "files", "items"}
  /\ listed \in [Item -> ItemStatus] /\ todo \subseteq Item /\ pending \in BOOLEAN
  /\ at \in [Row -> {"none", "search", "choose", "transfer", "finalize", "await", "awaitMark",
                     "transferred", "nothing", "close", "scan", "write", "settle"} \cup Outcome]
  /\ syncing \subseteq Row
  /\ env \in Env
  /\ mishaps \in 0..MaxMishaps
  /\ library \subseteq Item \cup {Other}
  /\ scanned \subseteq library
  /\ notified \in Nat
  /\ redone \subseteq Item \cup {Other}

NoItems == [i \in Item |-> "absent"]

Init ==
  /\ rec = "absent" /\ item = NoItems /\ scraped = FALSE
  /\ row = [r \in Row |-> "absent"] /\ attempts = [r \in Row |-> 0]
  /\ chained = {} /\ at = [r \in Row |-> "none"]
  /\ poll = "idle" /\ listed = NoItems /\ todo = {} /\ pending = FALSE
  /\ submit = "none" /\ syncing = {} /\ env \in Env
  /\ mishaps = 0 /\ library = {} /\ scanned = {} /\ notified = 0 /\ redone = {}

Mixed == "mixed" \in env
Tracked == {i \in Item : item[i] # "absent"}
Files == IF Mixed THEN Item \cup {Other} ELSE Item

-----------------------------------------------------------------------------
(* Rows *)

(* An update of a row that has gone changes nothing. *)
SetRec(status) == rec' = IF rec = "absent" THEN rec ELSE status
SetItem(i, status) == item' = IF item[i] = "absent" THEN item ELSE [item EXCEPT ![i] = status]

(* create_system_task: a key that exists, whatever became of its task,     *)
(* makes no new one.                                                       *)
Created(rows) == [r \in Row |-> IF r \in rows /\ row[r] = "absent" THEN "wait" ELSE row[r]]
Create(rows) == row' = Created(rows) /\ UNCHANGED attempts

(* The rows that _enqueue_download_item_scrape creates or upgrades. It     *)
(* reads the item itself.                                                  *)
ScrapeRows(i) ==
  LET ended == row[<<"scrape", i, FALSE>>] \notin Queued \cup {"absent"} IN
  IF item[i] = "absent" \/ (ended /\ item[i] \notin Incomplete)
  THEN {} ELSE {<<"scrape", i, ended>>}

IncompleteRows == UNION {ScrapeRows(i) : i \in {j \in Item : item[j] \in Incomplete}}

(* _upgrade_waiting_system_task, for the payload's organize_after_scrape.  *)
(* A new task or one that waits has it from the latest caller.             *)
Chain(rows, organize) ==
  LET open == {r \in rows : row[r] \in {"absent", "wait"}} IN
  chained' = IF organize THEN chained \cup open ELSE chained \ open

EnqueueScrape(rows, organize) == Create(rows) /\ Chain(rows, organize)

(* _download_item_organize_task_if_needed: the keys a task is created for, *)
(* given the status that the caller's copy of the item has.                *)
Organize(i, status) ==
  LET first == row[<<"organize", i, FALSE>>]
      again == row[<<"organize", i, TRUE>>] IN
  IF first = "absent" THEN {<<"organize", i, FALSE>>}
  ELSE IF \/ first \in Queued \/ again \in Queued
          \/ first = "done" /\ status \in Terminal
  THEN {} ELSE {<<"organize", i, TRUE>>}

\* Slip: an item that failed keeps the download open.
AllOrganized == Tracked # {} /\ \A i \in Tracked : item[i] \in {"organized", "organize_skipped"}

AllTerminal == Tracked # {} /\ \A i \in Tracked : item[i] \in Terminal

\* Slip: a download that is done already is not told from an open one.
Gone == rec = "absent"

Done == rec \in {"absent"} \cup Announcing

(* _finalize_download_refresh_if_ready *)
FinalizeIfReady == Create(IF ~Done /\ AllTerminal THEN {Finalize} ELSE {})

-----------------------------------------------------------------------------
(* _submit_download_request *)

BeginSubmit ==
  /\ submit = "none" /\ submit' = "adding"
  /\ rec' = "queued"
  /\ UNCHANGED <<item, scraped, tasks, polling, syncing, env, history>>

(* The downloader refuses, or has the torrent of another record already    *)
(* (claim_download_task_hash deletes this one).                            *)
Refused ==
  /\ submit = "adding" /\ submit' = "over"
  /\ SetRec("failed") \/ rec' = "absent"
  /\ UNCHANGED <<item, scraped, tasks, polling, syncing, env, history>>

Submitted ==
  /\ submit = "adding" /\ submit' = IF rec = "absent" THEN "over" ELSE "recording"
  /\ SetRec("submitted")
  /\ UNCHANGED <<item, scraped, tasks, polling, syncing, env, history>>

(* The items are recorded if the torrent file is at hand and can be        *)
(* parsed, and their scraping is enqueued.                                 *)
Recorded ==
  /\ submit = "recording"
  /\ \/ submit' = "over" /\ UNCHANGED item
     \/ /\ rec # "absent" /\ submit' = "enqueuing"
        /\ item' = [i \in Item |-> "pending"]
  /\ UNCHANGED <<rec, scraped, tasks, polling, syncing, env, history>>

ScrapeRecorded ==
  /\ submit = "enqueuing" /\ submit' = "over"
  /\ EnqueueScrape(IncompleteRows, FALSE)
  /\ UNCHANGED <<rec, item, scraped, at, polling, syncing, env, history>>

-----------------------------------------------------------------------------
(* _poll_download_tasks_once *)

(* A record that is queued has no hash yet. *)
BeginPoll ==
  /\ poll = "idle" /\ rec \in Unfinished
  /\ poll' = CASE rec = "queued" -> "named"
               [] rec \in {"submitted", "downloading"} -> "status"
               [] rec = "completed" -> "mark"
               [] rec = "refreshing" -> "files"
  /\ UNCHANGED <<rec, item, scraped, tasks, submit, listed, todo, pending, syncing, env, history>>

EndPoll == poll' = "idle" /\ listed' = NoItems /\ todo' = {} /\ pending' = FALSE

(* The downloader answers, or is away. Without a hash it is asked for a    *)
(* name among the torrents it is downloading. A download takes longer than *)
(* the request that submits it.                                            *)
Status ==
  /\ poll \in {"named", "status"}
  /\ \/ UNCHANGED rec \/ SetRec("downloading")
     \/ poll = "status" /\ submit = "over" /\ SetRec("completed")
     \/ poll = "status" /\ SetRec("deleted")
  /\ EndPoll
  /\ UNCHANGED <<item, scraped, tasks, submit, syncing, env, history>>

(* _schedule_download_refresh_library *)
MarkRefreshing ==
  /\ poll = "mark" /\ poll' = "files"
  /\ SetRec("refreshing")
  /\ UNCHANGED <<item, scraped, tasks, submit, listed, todo, pending, syncing, env, history>>

(* The downloader is away, or the files are not where it says. *)
NoSourceFiles ==
  /\ poll = "files"
  /\ UNCHANGED rec \/ SetRec("not_found")
  /\ EndPoll
  /\ UNCHANGED <<item, scraped, tasks, submit, syncing, env, history>>

SourceFiles ==
  /\ poll = "files" /\ poll' = "items"
  /\ listed' = item /\ todo' = Tracked /\ UNCHANGED pending
  /\ UNCHANGED <<rec, item, scraped, tasks, submit, syncing, env, history>>

(* _schedule_download_item_processing_for_files, one item. *)
ScheduleItem(i) ==
  /\ poll = "items" /\ i \in todo /\ todo' = todo \ {i}
  /\ \E status \in {item[i]} \cup (IF "slow" \in env THEN {listed[i]} ELSE {}) :
       \/ /\ status \in Terminal
          /\ UNCHANGED <<row, attempts, chained, pending>>
       \/ /\ status \in {"organizing", "found"}
          /\ pending' = TRUE
          /\ Create(Organize(i, status)) /\ UNCHANGED chained
       \/ /\ status \in Incomplete \cup {"interrupted", "absent"}
          /\ pending' = TRUE
          /\ EnqueueScrape(ScrapeRows(i), TRUE)
  /\ UNCHANGED <<rec, item, scraped, at, submit, poll, listed, syncing, env, history>>

(* Every file has its item, and all are done; or there are other files.    *)
EndSchedule ==
  /\ poll = "items" /\ todo = {}
  /\ LET complete == ~Mixed /\ \A i \in Item : listed[i] # "absent" IN
     \/ pending /\ UNCHANGED <<rec, row, attempts>>
     \/ ~pending /\ complete /\ FinalizeIfReady /\ UNCHANGED rec
     \/ /\ ~pending /\ ~complete
        /\ Create({Refresh})
        /\ IF row[Refresh] = "failed" THEN SetRec("failed") ELSE UNCHANGED rec
  /\ EndPoll
  /\ UNCHANGED <<item, scraped, chained, at, submit, syncing, env, history>>

-----------------------------------------------------------------------------
(* The task queue, as far as its tasks can tell *)

SameKey(r, s) == {r, s} \subseteq ItemRow /\ r[1] = s[1] /\ r[2] = s[2]

(* A task is claimed; its executor goes to its first step. *)
Claim(r, step) ==
  /\ row[r] = "wait" /\ attempts[r] < Attempts
  /\ \A s \in Row : SameKey(r, s) => row[s] # "running"
  /\ row' = [row EXCEPT ![r] = "running"]
  /\ attempts' = [attempts EXCEPT ![r] = @ + 1]
  /\ at' = [at EXCEPT ![r] = step]
  /\ UNCHANGED <<chained, scraped, outside>>

At(r, step) == row[r] = "running" /\ at[r] = step

Goto(r, step) ==
  /\ at' = [at EXCEPT ![r] = step]
  /\ UNCHANGED <<chained, outside>>

Leave(r, status) ==
  /\ attempts' = [attempts EXCEPT ![r] = IF status = "wait" THEN @ ELSE 0]
  /\ Goto(r, "none")
End(r, status) == row' = [row EXCEPT ![r] = status] /\ Leave(r, status)

GiveUp(r) == End(r, IF attempts[r] < Attempts THEN "wait" ELSE "failed")

Settle(r) ==
  /\ At(r, "settle")
  /\ End(r, "done")
  /\ UNCHANGED <<rec, item, scraped, history>>

(* The files that were put into the library by a task whose outcome is not *)
(* recorded. The task for a whole torrent is repeated whatever became of   *)
(* the record.                                                             *)
Unsettled(r) ==
  CASE r \in ItemRow -> IF at[r] \in Outcome THEN {r[2]} ELSE {}
    [] r = Refresh -> IF ~scraped /\ at[r] \in {"transferred", "scan", "settle"} THEN Files ELSE {}
    [] r = Finalize -> {}

Mishap(kind, rows) ==
  /\ kind \in env /\ mishaps < MaxMishaps /\ mishaps' = mishaps + 1
  /\ redone' = redone \cup UNION {Unsettled(r) : r \in rows}
  /\ UNCHANGED <<library, scanned, notified>>

Raise(r) ==
  /\ row[r] = "running"
  /\ Mishap("error", {r})
  /\ GiveUp(r)
  /\ UNCHANGED <<rec, item, scraped>>

(* A restart enqueues the scraping that is left, and then puts the tasks   *)
(* that were running back and gives the attempt back.                      *)
Crash ==
  LET running == {r \in Row : row[r] = "running"}
      left == IF rec \in Unfinished THEN IncompleteRows ELSE {}
  IN
  /\ Mishap("crash", running)
  /\ submit' = IF submit = "none" THEN "none" ELSE "over"
  /\ EndPoll /\ syncing' = {}
  /\ row' = [r \in Row |-> IF r \in running THEN "wait" ELSE Created(left)[r]]
  /\ Chain(left, FALSE)
  /\ attempts' = [r \in Row |-> IF r \in running THEN attempts[r] - 1 ELSE attempts[r]]
  /\ at' = [r \in Row |-> "none"]
  /\ UNCHANGED <<rec, item, scraped, env>>

-----------------------------------------------------------------------------
(* DownloadItemScrapeExecutor *)

BeginScrape(i, r) ==
  /\ Claim(r, IF item[i] \in Incomplete THEN "search" ELSE "choose")
  /\ IF item[i] \in Incomplete THEN SetItem(i, "searching") ELSE UNCHANGED item
  /\ UNCHANGED <<rec, history>>

(* "found" stands for metadata_found, metadata_not_found and failed. *)
Search(i, r) ==
  /\ At(r, "search")
  /\ SetItem(i, "found") /\ Goto(r, "choose")
  /\ UNCHANGED <<rec, scraped, row, attempts, history>>

(* The task ends and the next one is inserted, in one transaction. A key   *)
(* that exists, now or since the executor looked, undoes both.             *)
Choose(i, r) ==
  /\ At(r, "choose")
  /\ LET chains == r \in chained /\ item[i] # "absent"
         next == IF chains THEN Organize(i, item[i]) ELSE {}
         raced == /\ "slow" \in env /\ chains
                  /\ \E again \in BOOLEAN : row[<<"organize", i, again>>] = "wait"
     IN
     \/ /\ \A n \in next : row[n] = "absent"
        /\ row' = [Created(next) EXCEPT ![r] = "done"] /\ Leave(r, "done")
     \/ /\ raced \/ \E n \in next : row[n] # "absent"
        /\ GiveUp(r)
  /\ UNCHANGED <<rec, item, scraped, history>>

-----------------------------------------------------------------------------
(* FileOrganizeExecutor *)

BeginOrganize(i, r) ==
  /\ Claim(r, IF item[i] = "absent" THEN "finalize" ELSE "transfer")
  /\ SetItem(i, "organizing")
  /\ redone' = IF item[i] \in Terminal \cup {"interrupted"} THEN redone \cup {i} ELSE redone
  /\ UNCHANGED <<rec, mishaps, library, scanned, notified>>

Transfer(i, r) ==
  /\ At(r, "transfer")
  /\ \E outcome \in Outcome :
       /\ outcome = "unresolved" => "unresolved" \in env
       /\ Goto(r, outcome)
       /\ library' = IF outcome = "organized" THEN library \cup {i} ELSE library
  /\ UNCHANGED <<rec, item, scraped, row, attempts, mishaps, scanned, notified, redone>>

(* The outcome is recorded; an artist without a directory raises after it. *)
Record(i, r) ==
  /\ row[r] = "running" /\ at[r] \in Outcome
  /\ IF at[r] = "unresolved"
     THEN SetItem(i, "organize_failed") /\ GiveUp(r)
     ELSE SetItem(i, at[r]) /\ Goto(r, "finalize") /\ UNCHANGED <<row, attempts>>
  /\ UNCHANGED <<rec, scraped, history>>

Conclude(r) ==
  /\ At(r, "finalize")
  /\ FinalizeIfReady /\ Goto(r, "settle")
  /\ UNCHANGED <<rec, item, scraped, history>>

-----------------------------------------------------------------------------
(* DownloadRefreshLibraryExecutor *)

BeginRefresh ==
  /\ Claim(Refresh, CASE rec = "absent" -> "settle"
                      [] rec = "refreshing" -> "await"
                      [] OTHER -> "awaitMark")
  /\ UNCHANGED <<rec, item, history>>

Awaiting == At(Refresh, "await") \/ At(Refresh, "awaitMark")

(* _wait_for_download_item_scrapes *)
Await(i) ==
  /\ Awaiting /\ item[i] \in Incomplete
  /\ EnqueueScrape(ScrapeRows(i), FALSE)
  /\ UNCHANGED <<rec, item, scraped, at, outside, history>>

Awaited ==
  /\ Awaiting /\ \A i \in Item : item[i] \notin Incomplete
  /\ IF at[Refresh] = "awaitMark" THEN SetRec("refreshing") ELSE UNCHANGED rec
  /\ Goto(Refresh, "transfer")
  /\ UNCHANGED <<item, scraped, row, attempts, history>>

\* Slip: what was processed before needs no scan either.
CloseUnprocessed(files) ==
  /\ scraped => files = {}
  /\ Goto(Refresh, IF scraped THEN "close" ELSE "scan")

(* Scraping is disabled, was completed before, or raises half-way. *)
Unprocessed(files) ==
  /\ scraped => files = {}
  /\ Goto(Refresh, "scan")

(* _scrape_download_for_task: the source is missing; the files are         *)
(* processed; or not, or not all of them.                                  *)
TransferAll ==
  /\ At(Refresh, "transfer")
  /\ \/ /\ ~scraped /\ SetRec("not_found") /\ Goto(Refresh, "settle")
        /\ UNCHANGED library
     \/ \E files \in SUBSET Files :
          /\ \/ ~scraped /\ Goto(Refresh, IF files = {} THEN "nothing" ELSE "transferred")
             \/ Unprocessed(files)
          /\ library' = library \cup files
          /\ UNCHANGED rec
  /\ UNCHANGED <<item, scraped, row, attempts, mishaps, scanned, notified, redone>>

MarkScraped ==
  /\ At(Refresh, "transferred") \/ At(Refresh, "nothing")
  /\ scraped' = (scraped \/ rec # "absent")
  /\ Goto(Refresh, IF at[Refresh] = "nothing" THEN "close" ELSE "scan")
  /\ UNCHANGED <<rec, item, row, attempts, history>>

-----------------------------------------------------------------------------
(* DownloadFinalizeLibraryExecutor *)

Organized == \E i \in Tracked : item[i] = "organized"

BeginFinalize ==
  /\ Claim(Finalize, IF Done \/ ~AllTerminal THEN "settle"
                     ELSE IF Organized THEN "scan" ELSE "close")
  /\ UNCHANGED <<rec, item, history>>

(* Both executors end alike: the record's status is set, and the user is   *)
(* notified, ...                                                           *)
Announce(r, status) ==
  /\ SetRec(status) /\ notified' = notified + 1
  /\ Goto(r, "settle")
  /\ UNCHANGED <<item, scraped, row, attempts, mishaps, library, scanned, redone>>

(* ... as nothing was transferred, ... *)
Close(r) == At(r, "close") /\ Announce(r, "refreshed")

(* ... as the media server is disabled, or when it has begun to scan the   *)
(* library. There may be none, or it refuses.                              *)
Scan(r) ==
  /\ At(r, "scan")
  /\ \/ Announce(r, "refresh_skipped")
     \/ /\ SetRec("failed") /\ Goto(r, "settle")
        /\ UNCHANGED <<item, scraped, row, attempts, history>>
     \/ /\ scanned' = library /\ Goto(r, "write")
        /\ UNCHANGED <<rec, item, scraped, row, attempts, mishaps, library, notified, redone>>

Write(r) == At(r, "write") /\ Announce(r, "refreshed")

-----------------------------------------------------------------------------
(* The user *)

Interrupt(r) ==
  /\ row[r] \in Queued
  /\ Mishap("user", {r})
  /\ row' = [row EXCEPT ![r] = "interrupted"]
  /\ attempts' = [attempts EXCEPT ![r] = 0]
  /\ at' = [at EXCEPT ![r] = "none"]
  /\ syncing' = syncing \cup {r}
  /\ UNCHANGED <<rec, item, scraped, chained, submit, polling, env>>

(* _sync_interrupted_system_task. It does nothing for Finalize. *)
Sync(r) ==
  /\ r \in syncing /\ syncing' = syncing \ {r}
  /\ IF r \in ItemRow THEN SetItem(r[2], "interrupted") ELSE UNCHANGED item
  /\ IF r # Finalize THEN SetRec("interrupted") ELSE UNCHANGED rec
  /\ UNCHANGED <<scraped, tasks, submit, polling, env, history>>

Delete ==
  /\ rec # "absent"
  /\ Mishap("user", {})
  /\ rec' = "absent" /\ item' = NoItems
  /\ UNCHANGED <<scraped, tasks, outside>>

-----------------------------------------------------------------------------
(* Specification *)

Submit == BeginSubmit \/ Refused \/ Submitted \/ Recorded \/ ScrapeRecorded

Poll ==
  \/ BeginPoll \/ Status \/ MarkRefreshing \/ NoSourceFiles \/ SourceFiles
  \/ EndSchedule \/ \E i \in Item : ScheduleItem(i)

(* The next step of the task of a row. *)
Run(r) ==
  \/ \E i \in Item, again \in BOOLEAN :
       \/ r = <<"scrape", i, again>> /\ (BeginScrape(i, r) \/ Search(i, r) \/ Choose(i, r))
       \/ r = <<"organize", i, again>> /\ (BeginOrganize(i, r) \/ Transfer(i, r) \/ Record(i, r) \/ Conclude(r))
  \/ r = Refresh /\ (BeginRefresh \/ (\E i \in Item : Await(i)) \/ Awaited \/ TransferAll \/ MarkScraped)
  \/ r = Finalize /\ BeginFinalize
  \/ Close(r) \/ Scan(r) \/ Write(r) \/ Settle(r)

Next ==
  \/ Submit \/ Poll \/ Crash \/ Delete
  \/ \E r \in Row : Run(r) \/ Raise(r) \/ Interrupt(r) \/ Sync(r)

Spec == Init /\ [][Next]_vars

(* The poll repeats every few seconds, the queue runs every task it can,   *)
(* its coroutines return, and the downloader answers some of the polls.    *)
Fairness ==
  /\ WF_vars(Poll) /\ SF_vars(SourceFiles)
  /\ \A r \in Row : WF_vars(Run(r)) /\ WF_vars(Sync(r))

FairSpec == Spec /\ Fairness

-----------------------------------------------------------------------------
(* Properties *)

(* When a download's tasks have ended it as refreshed, the media server    *)
(* has scanned the library after every file that was put there for it; the *)
(* known exceptions are the files in redone, and downloads with files that *)
(* match no item, which two tasks end independently.                       *)
Announced == rec = "refreshed" /\ ~Mixed => library \subseteq scanned \cup redone

(* The end of a download that is recorded as refreshed or skipped is not   *)
(* notified again, whatever is repeated after a restart.                   *)
NotifiedOnce == [][~Mixed /\ notified' # notified => rec \notin Announcing]_vars

(* A download whose files are being processed ends, unless one of its      *)
(* tasks failed or was interrupted, or its only finalisation was used up.  *)
DownloadEnds ==
  rec = "refreshing" ~> \/ rec # "refreshing"
                        \/ row[Finalize] = "done"
                        \/ \E r \in Row : row[r] \in {"failed", "interrupted"}
=============================================================================
