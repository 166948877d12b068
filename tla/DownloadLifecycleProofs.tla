------------------------ MODULE DownloadLifecycleProofs ------------------------
(***************************************************************************)
(* Invariants of DownloadLifecycle for any items, attempts and mishaps.    *)
(* After the types come lemmas that say which steps change what: the step  *)
(* of a task, an item, the rows, the coroutines, the record, the library.  *)
(* The inductive invariants then build on one another: a download is ended *)
(* in one way (WayInv), how far an item has got (ItemsInv), what is over   *)
(* when the download is finalised (FinalInv), and what the media server    *)
(* has heard of when its end is announced (EndInv).                        *)
(***************************************************************************)
EXTENDS DownloadLifecycle, TLAPS

(* The steps that the executor of a row has.                               *)
Steps(r) ==
  {"none"} \cup
  CASE r = Refresh -> {"await", "awaitMark", "transfer", "transferred", "nothing",
                       "close", "scan", "write", "settle"}
    [] r = Finalize -> {"close", "scan", "write", "settle"}
    [] r \in ItemRow ->
         IF r[1] = "scrape" THEN {"search", "choose"}
         ELSE {"transfer", "finalize", "settle"} \cup Outcome

(* A task that runs is at a step of its executor, in an attempt of its own, *)
(* and it is the only one of its resource key.                             *)
Executing ==
  /\ \A r \in Row : at[r] \in Steps(r)
  /\ \A r \in Row : row[r] = "running" <=> at[r] # "none"
  /\ \A r \in Row : row[r] = "running" => attempts[r] > 0
  /\ \A r \in Row : row[r] = "absent" => attempts[r] = 0
  /\ \A r, s \in Row : SameKey(r, s) /\ row[r] = "running" /\ row[s] = "running" => r = s

TypeInv == TypeOK /\ Executing

-----------------------------------------------------------------------------
(* The rows of the items are not those of the torrent. *)
LEMMA Rows ==
  /\ Refresh \in Row /\ Finalize \in Row /\ Refresh # Finalize
  /\ Refresh \notin ItemRow /\ Finalize \notin ItemRow
  /\ \A i \in Item, again \in BOOLEAN :
       /\ <<"scrape", i, again>> \in ItemRow /\ <<"organize", i, again>> \in ItemRow
       /\ <<"scrape", i, again>> \in Row /\ <<"organize", i, again>> \in Row
<1>1. Refresh # Finalize
  BY DEF Refresh, Finalize
<1>2. \A r \in ItemRow : r[1] # "refresh" /\ r[1] # "finalize"
  BY DEF ItemRow
<1>3. Refresh \notin ItemRow /\ Finalize \notin ItemRow
  BY <1>2 DEF Refresh, Finalize
<1> QED
  BY <1>1, <1>3 DEF Row, ItemRow

LEMMA ItemRows ==
  ASSUME NEW r \in ItemRow
  PROVE  /\ r \in Row /\ r # Refresh /\ r # Finalize
         /\ r[2] \in Item
         /\ Steps(r) = {"none"} \cup IF r[1] = "scrape" THEN {"search", "choose"}
                                     ELSE {"transfer", "finalize", "settle"} \cup Outcome
<1>1. r \in Row /\ r # Refresh /\ r # Finalize
  BY Rows DEF Row
<1>2. r[2] \in Item
  BY DEF ItemRow
<1> QED
  BY <1>1, <1>2 DEF Steps

LEMMA TorrentRows ==
  /\ Steps(Refresh) = {"none", "await", "awaitMark", "transfer", "transferred", "nothing",
                       "close", "scan", "write", "settle"}
  /\ Steps(Finalize) = {"none", "close", "scan", "write", "settle"}
BY Rows DEF Steps

Step == {"none", "search", "choose", "transfer", "finalize", "await", "awaitMark",
         "transferred", "nothing", "close", "scan", "write", "settle"} \cup Outcome
RowStatus == Queued \cup {"absent", "done", "failed", "interrupted"}

(* What TypeInv says of the tasks.                                         *)
TasksInv ==
  /\ row \in [Row -> RowStatus]
  /\ attempts \in [Row -> 0..Attempts]
  /\ \A r \in Row : row[r] = "wait" => attempts[r] < Attempts
  /\ at \in [Row -> Step]
  /\ Executing

(* The steps of a task: it is claimed, goes to a further step, or leaves.  *)
LEMMA ClaimKeeps ==
  ASSUME TasksInv, NEW r \in Row, NEW step \in Step \ {"none"}, step \in Steps(r), Claim(r, step)
  PROVE  TasksInv'
<1> USE LifecycleAssumption
<1>1. row' \in [Row -> RowStatus] /\ at' \in [Row -> Step]
  BY DEF TasksInv, Claim, RowStatus, Queued
<1>2. attempts' \in [Row -> 0..Attempts]
  BY DEF TasksInv, Claim
<1>3. \A s \in Row : row'[s] = "wait" => attempts'[s] < Attempts
  BY DEF TasksInv, Claim
<1>4. Executing'
  <2>1. \A s \in Row : at'[s] \in Steps(s)
    BY DEF TasksInv, Claim, Executing
  <2>2. \A s \in Row : row'[s] = "running" <=> at'[s] # "none"
    BY DEF TasksInv, Claim, Executing
  <2>3. \A s \in Row : row'[s] = "running" => attempts'[s] > 0
    BY DEF TasksInv, Claim, Executing
  <2>5. \A s \in Row : row'[s] = "absent" => attempts'[s] = 0
    BY DEF TasksInv, Claim, Executing
  <2>4. \A s, u \in Row : SameKey(s, u) /\ row'[s] = "running" /\ row'[u] = "running" => s = u
    BY DEF TasksInv, Claim, Executing, SameKey
  <2> QED
    BY <2>1, <2>2, <2>3, <2>4, <2>5 DEF Executing, SameKey
<1> QED
  BY <1>1, <1>2, <1>3, <1>4 DEF TasksInv

(* An update of the rows that creates tasks, and leaves the tasks that run. *)
Grown ==
  /\ row' \in [Row -> RowStatus]
  /\ \A s \in Row : row'[s] = row[s] \/ (row[s] = "absent" /\ row'[s] = "wait")

LEMMA GrownKeeps ==
  ASSUME TasksInv, Grown, UNCHANGED <<attempts, at>>
  PROVE  TasksInv'
<1> USE LifecycleAssumption DEF Grown
<1>1. \A s \in Row : row'[s] = "running" <=> row[s] = "running"
  OBVIOUS
<1>2. Executing'
  BY <1>1 DEF TasksInv, Executing, SameKey
<1>3. \A s \in Row : row'[s] = "wait" => attempts'[s] < Attempts
  BY DEF TasksInv, Executing
<1> QED
  BY <1>2, <1>3 DEF TasksInv

LEMMA GotoKeeps ==
  ASSUME TasksInv, NEW r \in Row, row[r] = "running", Grown, UNCHANGED attempts,
         NEW step \in Step \ {"none"}, step \in Steps(r), at' = [at EXCEPT ![r] = step]
  PROVE  TasksInv'
<1> USE LifecycleAssumption DEF Grown
<1>1. at' \in [Row -> Step]
  BY DEF TasksInv
<1>2. \A s \in Row : row'[s] = "running" <=> row[s] = "running"
  OBVIOUS
<1>3. Executing'
  <2>1. \A s \in Row : at'[s] \in Steps(s)
    BY DEF TasksInv, Executing
  <2>2. \A s \in Row : row'[s] = "running" <=> at'[s] # "none"
    BY <1>2 DEF TasksInv, Executing
  <2> QED
    BY <1>2, <2>1, <2>2 DEF TasksInv, Executing, SameKey
<1>4. \A s \in Row : row'[s] = "wait" => attempts'[s] < Attempts
  BY DEF TasksInv, Executing
<1> QED
  BY <1>1, <1>3, <1>4 DEF TasksInv

LEMMA CreatedGrows ==
  ASSUME TasksInv, NEW rows
  PROVE  /\ Created(rows) \in [Row -> RowStatus]
         /\ \A s \in Row : \/ Created(rows)[s] = row[s]
                           \/ row[s] = "absent" /\ s \in rows /\ Created(rows)[s] = "wait"
BY DEF TasksInv, Created, RowStatus, Queued

LEMMA LeaveKeeps ==
  ASSUME TasksInv, NEW r \in Row, row[r] = "running",
         NEW status \in {"wait", "done", "failed", "interrupted"},
         status = "wait" => attempts[r] < Attempts,
         row' \in [Row -> RowStatus], row'[r] = status,
         \A s \in Row \ {r} : row'[s] = row[s] \/ (row[s] = "absent" /\ row'[s] = "wait"),
         Leave(r, status)
  PROVE  TasksInv'
<1> USE LifecycleAssumption DEF Leave, Goto
<1>1. at' \in [Row -> Step] /\ attempts' \in [Row -> 0..Attempts]
  BY DEF TasksInv, Step
<1>2. \A s \in Row : row'[s] = "running" => s # r /\ row[s] = "running"
  OBVIOUS
<1>3. \A s \in Row \ {r} : at'[s] = at[s] /\ attempts'[s] = attempts[s]
  BY DEF TasksInv
<1>4. at'[r] = "none" /\ attempts'[r] = IF status = "wait" THEN attempts[r] ELSE 0
  BY DEF TasksInv
<1>5. Executing'
  <2>1. \A s \in Row : at'[s] \in Steps(s)
    BY <1>3, <1>4 DEF TasksInv, Executing, Steps
  <2>2. \A s \in Row : row'[s] = "running" <=> at'[s] # "none"
    BY <1>2, <1>3, <1>4 DEF TasksInv, Executing
  <2>3. \A s \in Row : row'[s] = "running" => attempts'[s] > 0
    BY <1>2, <1>3 DEF TasksInv, Executing
  <2>4. \A s \in Row : row'[s] = "absent" => attempts'[s] = 0
    BY <1>3 DEF TasksInv, Executing
  <2>5. \A s, u \in Row : SameKey(s, u) /\ row'[s] = "running" /\ row'[u] = "running" => s = u
    BY <1>2 DEF TasksInv, Executing
  <2> QED
    BY <2>1, <2>2, <2>3, <2>4, <2>5 DEF Executing, SameKey
<1>6. \A s \in Row : row'[s] = "wait" => attempts'[s] < Attempts
  BY <1>3, <1>4 DEF TasksInv, Executing
<1> QED
  BY <1>1, <1>5, <1>6 DEF TasksInv

LEMMA EndKeeps ==
  ASSUME TasksInv, NEW r \in Row, row[r] = "running", End(r, "done") \/ GiveUp(r)
  PROVE  TasksInv'
<1>1. PICK status \in {"wait", "done", "failed"} :
        End(r, status) /\ (status = "wait" => attempts[r] < Attempts)
  BY DEF GiveUp
<1>2. /\ row' \in [Row -> RowStatus] /\ row'[r] = status
      /\ \A s \in Row \ {r} : row'[s] = row[s]
      /\ Leave(r, status)
  BY <1>1 DEF End, TasksInv, RowStatus, Queued
<1> QED
  BY <1>1, <1>2, LeaveKeeps

LEMMA TasksKept ==
  ASSUME TypeInv, [Next]_vars
  PROVE  TasksInv'
<1> USE LifecycleAssumption, Rows, ItemRows, TorrentRows
<1>a. TasksInv
  BY DEF TypeInv, TypeOK, TasksInv, RowStatus, Step
<1>b. ASSUME UNCHANGED tasks PROVE TasksInv'
  BY <1>a, <1>b DEF tasks, TasksInv, Executing, SameKey
<1>c. ASSUME NEW rows, Create(rows), UNCHANGED at PROVE TasksInv'
  BY <1>a, <1>c, CreatedGrows, GrownKeeps DEF Create, Grown
<1>d. ASSUME NEW r \in Row, row[r] = "running", NEW step \in Step \ {"none"}, step \in Steps(r),
             Goto(r, step), UNCHANGED <<row, attempts>>
      PROVE  TasksInv'
  <2>1. Grown
    BY <1>a, <1>d DEF Grown, TasksInv
  <2> QED
    BY <1>a, <1>d, <2>1, GotoKeeps DEF Goto
<1> HIDE Rows, ItemRows, TorrentRows
<1>1. CASE BeginSubmit \/ Refused \/ Submitted \/ Recorded
  BY <1>1, <1>b DEF BeginSubmit, Refused, Submitted, Recorded
<1>2. CASE ScrapeRecorded
  BY <1>2, <1>c DEF ScrapeRecorded, EnqueueScrape
<1>3. CASE BeginPoll \/ Status \/ MarkRefreshing \/ NoSourceFiles \/ SourceFiles
  BY <1>3, <1>b DEF BeginPoll, Status, MarkRefreshing, NoSourceFiles, SourceFiles
<1>4. CASE EndSchedule
  <2>1. UNCHANGED <<row, attempts>> \/ (\E rows : Create(rows))
    BY <1>4 DEF EndSchedule, FinalizeIfReady
  <2>2. UNCHANGED <<at, chained>>
    BY <1>4 DEF EndSchedule
  <2> QED
    BY <2>1, <2>2, <1>b, <1>c DEF tasks
<1>5. ASSUME NEW i \in Item, ScheduleItem(i) PROVE TasksInv'
  <2>1. UNCHANGED <<row, attempts, chained>> \/ (\E rows : Create(rows))
    BY <1>5 DEF ScheduleItem, EnqueueScrape
  <2>2. UNCHANGED at
    BY <1>5 DEF ScheduleItem
  <2> QED
    BY <2>1, <2>2, <1>b, <1>c DEF tasks
<1>6. CASE Crash
  <2> DEFINE rows == IF rec \in Unfinished THEN IncompleteRows ELSE {}
  <2> HIDE DEF rows
  <2>1. /\ row' = [r \in Row |-> IF row[r] = "running" THEN "wait" ELSE Created(rows)[r]]
        /\ attempts' = [r \in Row |-> IF row[r] = "running" THEN attempts[r] - 1 ELSE attempts[r]]
        /\ at' = [r \in Row |-> "none"]
    BY <1>6 DEF Crash, rows
  <2>2. \A r \in Row : /\ row'[r] \in RowStatus /\ row'[r] # "running"
                       /\ row'[r] = "absent" => row[r] = "absent"
                       /\ row'[r] = "wait" => row[r] \in {"running", "wait", "absent"}
    BY <2>1, <1>a, CreatedGrows DEF TasksInv, RowStatus, Queued
  <2>3. \A r \in Row : attempts[r] \in 0..Attempts /\ (row[r] = "running" => attempts[r] > 0)
                       /\ (row[r] = "wait" => attempts[r] < Attempts)
                       /\ (row[r] = "absent" => attempts[r] = 0)
    BY <1>a DEF TasksInv, Executing
  <2>4. attempts' \in [Row -> 0..Attempts] /\ \A r \in Row : row'[r] = "wait" => attempts'[r] < Attempts
    BY <2>1, <2>2, <2>3
  <2>5. Executing'
    BY <2>1, <2>2, <2>3 DEF Executing, Steps
  <2> QED
    BY <2>1, <2>2, <2>4, <2>5 DEF TasksInv, Step
<1>7. CASE Delete
  BY <1>7, <1>b DEF Delete
<1>8. ASSUME NEW i \in Item, NEW again \in BOOLEAN, NEW r \in Row, r = <<"scrape", i, again>>,
             BeginScrape(i, r) \/ Search(i, r) \/ Choose(i, r)
      PROVE  TasksInv'
  <2>1. Steps(r) = {"none", "search", "choose"}
    BY <1>8, Rows, ItemRows
  <2>2. CASE BeginScrape(i, r)
    BY <2>1, <2>2, <1>8, <1>a, ClaimKeeps DEF BeginScrape, Step
  <2>3. CASE Search(i, r)
    BY <2>1, <2>3, <1>8, <1>d DEF Search, Step, At
  <2>4. CASE Choose(i, r)
    <3>1. row[r] = "running"
      BY <2>4 DEF Choose, At
    <3>2. \/ GiveUp(r)
          \/ \E next : row' = [Created(next) EXCEPT ![r] = "done"] /\ Leave(r, "done")
      BY <2>4 DEF Choose
    <3>3. ASSUME NEW next, row' = [Created(next) EXCEPT ![r] = "done"] /\ Leave(r, "done")
          PROVE  TasksInv'
      <4>1. /\ row' \in [Row -> RowStatus] /\ row'[r] = "done"
            /\ \A s \in Row \ {r} : row'[s] = row[s] \/ (row[s] = "absent" /\ row'[s] = "wait")
        BY <3>3, <1>a, CreatedGrows DEF RowStatus
      <4> QED
        BY <3>1, <3>3, <4>1, <1>a, LeaveKeeps
    <3> QED
      BY <3>1, <3>2, <3>3, <1>a, EndKeeps
  <2> QED
    BY <1>8, <2>2, <2>3, <2>4
<1>9. ASSUME NEW i \in Item, NEW again \in BOOLEAN, NEW r \in Row, r = <<"organize", i, again>>,
             BeginOrganize(i, r) \/ Transfer(i, r) \/ Record(i, r) \/ Conclude(r)
      PROVE  TasksInv'
  <2>1. Steps(r) = {"none", "transfer", "finalize", "settle"} \cup Outcome
    BY <1>9, Rows, ItemRows
  <2>2. CASE BeginOrganize(i, r)
    BY <2>1, <2>2, <1>9, <1>a, ClaimKeeps DEF BeginOrganize, Step
  <2>3. CASE Transfer(i, r)
    <3>1. PICK outcome \in Outcome : Goto(r, outcome) /\ UNCHANGED <<row, attempts>> /\ row[r] = "running"
      BY <2>3 DEF Transfer, At
    <3>2. outcome \in Step \ {"none"} /\ outcome \in Steps(r)
      BY <2>1 DEF Step, Outcome, Terminal
    <3> QED
      BY <3>1, <3>2, <1>d
  <2>4. CASE Record(i, r)
    <3>1. row[r] = "running" /\ (GiveUp(r) \/ (Goto(r, "finalize") /\ UNCHANGED <<row, attempts>>))
      BY <2>4, Zenon DEF Record
    <3> QED
      BY <2>1, <3>1, <1>d, <1>a, EndKeeps DEF Step
  <2>5. CASE Conclude(r)
    <3>1. \E rows : Create(rows)
      BY <2>5 DEF Conclude, FinalizeIfReady
    <3>2. Grown /\ UNCHANGED attempts
      BY <3>1, <1>a, CreatedGrows DEF Create, Grown
    <3>3. row[r] = "running" /\ at' = [at EXCEPT ![r] = "settle"]
      BY <2>5 DEF Conclude, At, Goto
    <3> QED
      BY <2>1, <3>2, <3>3, <1>a, GotoKeeps DEF Step
  <2> QED
    BY <1>9, <2>2, <2>3, <2>4, <2>5
<1>10. CASE BeginRefresh
  <2>1. PICK step \in {"settle", "await", "awaitMark"} : Claim(Refresh, step)
    BY <1>10 DEF BeginRefresh
  <2> QED
    BY <2>1, <1>a, ClaimKeeps, Rows, TorrentRows DEF Step
<1>11. ASSUME NEW i \in Item, Await(i) PROVE TasksInv'
  BY <1>11, <1>c DEF Await, EnqueueScrape
<1>12. CASE Awaited \/ TransferAll \/ MarkScraped
  <2>1. \E step \in {"transfer", "settle", "nothing", "transferred", "scan", "close"} : Goto(Refresh, step)
    BY <1>12 DEF Awaited, TransferAll, MarkScraped, Unprocessed
  <2>2. row[Refresh] = "running" /\ UNCHANGED <<row, attempts>>
    BY <1>12 DEF Awaited, Awaiting, TransferAll, MarkScraped, At
  <2> QED
    BY <2>1, <2>2, <1>d, Rows, TorrentRows DEF Step
<1>13. CASE BeginFinalize
  <2>1. PICK step \in {"settle", "scan", "close"} : Claim(Finalize, step)
    BY <1>13 DEF BeginFinalize
  <2> QED
    BY <2>1, <1>a, ClaimKeeps, Rows, TorrentRows DEF Step
<1>14. ASSUME NEW r \in Row, Close(r) \/ Scan(r) \/ Write(r) PROVE TasksInv'
  <2>1. \E step \in {"settle", "write"} : Goto(r, step)
    BY <1>14 DEF Close, Scan, Write, Announce
  <2>2. row[r] = "running" /\ UNCHANGED <<row, attempts>> /\ at[r] \in {"close", "scan", "write"}
    BY <1>14 DEF Close, Scan, Write, Announce, At
  <2>3. r \in {Refresh, Finalize}
    <3>1. at[r] \in Steps(r)
      BY <1>a DEF TasksInv, Executing
    <3> QED
      BY <2>2, <3>1, ItemRows DEF Row, Outcome, Terminal
  <2> QED
    BY <2>1, <2>2, <2>3, <1>d, Rows, TorrentRows DEF Step
<1>15. ASSUME NEW r \in Row, Settle(r) \/ Raise(r) PROVE TasksInv'
  BY <1>15, <1>a, EndKeeps DEF Settle, Raise, At
<1>16. ASSUME NEW r \in Row, Interrupt(r) PROVE TasksInv'
  <2>1. /\ row' = [row EXCEPT ![r] = "interrupted"] /\ attempts' = [attempts EXCEPT ![r] = 0]
        /\ at' = [at EXCEPT ![r] = "none"]
    BY <1>16 DEF Interrupt
  <2>2. Executing'
    BY <2>1, <1>a DEF TasksInv, Executing, SameKey, Steps
  <2> QED
    BY <2>1, <2>2, <1>a DEF TasksInv, RowStatus, Step
<1>17. ASSUME NEW r \in Row, Sync(r) PROVE TasksInv'
  BY <1>17, <1>b DEF Sync
<1>18. CASE UNCHANGED vars
  BY <1>18, <1>b DEF vars
<1> HIDE LifecycleAssumption DEF TypeInv, TasksInv
<1> QED
  BY <1>1, <1>2, <1>3, <1>4, <1>5, <1>6, <1>7, <1>8, <1>9, <1>10, <1>11, <1>12, <1>13, <1>14,
     <1>15, <1>16, <1>17, <1>18
  DEF Next, Submit, Poll, Run

(* What TypeInv says of the other variables.                               *)
RecordTypes ==
  /\ rec \in {"absent"} \cup Unfinished \cup Ended
  /\ item \in [Item -> ItemStatus]
  /\ scraped \in BOOLEAN
  /\ submit \in {"none", "adding", "recording", "enqueuing", "over"}
  /\ poll \in {"idle", "named", "status", "mark", "files", "items"}
  /\ listed \in [Item -> ItemStatus] /\ todo \subseteq Item /\ pending \in BOOLEAN
  /\ syncing \subseteq Row /\ env \in Env
  /\ mishaps \in 0..MaxMishaps
  /\ library \subseteq Item \cup {Other} /\ scanned \subseteq library
  /\ notified \in Nat
  /\ redone \subseteq Item \cup {Other}

LEMMA SetItemTypes ==
  ASSUME item \in [Item -> ItemStatus], NEW i \in Item, NEW status \in ItemStatus, SetItem(i, status)
  PROVE  item' \in [Item -> ItemStatus]
BY DEF SetItem

LEMMA SetRecTypes ==
  ASSUME NEW status \in Unfinished \cup Ended, SetRec(status),
         rec \in {"absent"} \cup Unfinished \cup Ended
  PROVE  rec' \in {"absent"} \cup Unfinished \cup Ended
BY DEF SetRec

LEMMA UnsettledFiles ==
  ASSUME NEW r \in Row
  PROVE  Unsettled(r) \subseteq Item \cup {Other}
<1>1. r \in ItemRow => r[2] \in Item
  BY ItemRows
<1> QED
  BY <1>1 DEF Unsettled, Files, Row

LEMMA MishapTypes ==
  ASSUME RecordTypes, NEW kind, NEW rows \in SUBSET Row, Mishap(kind, rows)
  PROVE  /\ mishaps' \in 0..MaxMishaps /\ redone' \subseteq Item \cup {Other}
         /\ redone \subseteq redone' /\ UNCHANGED <<library, scanned, notified>>
         /\ kind \in env
<1>1. mishaps' \in 0..MaxMishaps
  BY LifecycleAssumption DEF Mishap, RecordTypes
<1>2. redone' \subseteq Item \cup {Other} /\ redone \subseteq redone'
  BY UnsettledFiles DEF Mishap, RecordTypes
<1> QED
  BY <1>1, <1>2 DEF Mishap

LEMMA ChainTypes ==
  ASSUME chained \subseteq ItemRow, NEW rows \in SUBSET ItemRow, NEW organize \in BOOLEAN,
         Chain(rows, organize)
  PROVE  chained' \subseteq ItemRow
BY DEF Chain

LEMMA ScrapeRowsType ==
  /\ \A i \in Item : ScrapeRows(i) \subseteq {<<"scrape", i, FALSE>>, <<"scrape", i, TRUE>>}
  /\ \A i \in Item : ScrapeRows(i) \subseteq ItemRow
  /\ IncompleteRows \subseteq ItemRow
<1>1. ASSUME NEW i \in Item PROVE ScrapeRows(i) \subseteq {<<"scrape", i, FALSE>>, <<"scrape", i, TRUE>>}
  BY DEF ScrapeRows
<1>2. \A i \in Item : ScrapeRows(i) \subseteq ItemRow
  BY <1>1, Rows
<1> QED
  BY <1>1, <1>2 DEF IncompleteRows

LEMMA OtherTypes ==
  ASSUME TypeInv, [Next]_vars
  PROVE  RecordTypes' /\ chained' \subseteq ItemRow
<1> USE LifecycleAssumption
    DEF Terminal, Incomplete, Announcing, ItemStatus, Unfinished, Ended,
        history, outside, tasks, polling
<1>a. RecordTypes /\ chained \subseteq ItemRow
  BY DEF TypeInv, TypeOK, RecordTypes
<1>b. \A i \in Item : item[i] \in ItemStatus
  BY <1>a DEF RecordTypes
<1> DEFINE Done1 == RecordTypes' /\ chained' \subseteq ItemRow
<1>1. CASE BeginSubmit \/ Refused \/ Submitted
  BY <1>1, <1>a DEF BeginSubmit, Refused, Submitted, SetRec, RecordTypes
<1>2. CASE Recorded
  BY <1>2, <1>a DEF Recorded, RecordTypes
<1>3. CASE ScrapeRecorded
  BY <1>3, <1>a, ScrapeRowsType, ChainTypes DEF ScrapeRecorded, EnqueueScrape, RecordTypes
<1>4. CASE BeginPoll
  BY <1>4, <1>a DEF BeginPoll, RecordTypes
<1>5. CASE Status \/ MarkRefreshing \/ NoSourceFiles
  BY <1>5, <1>a, ZenonT(60) DEF Status, MarkRefreshing, NoSourceFiles, SetRec, RecordTypes, EndPoll, NoItems
<1>6. CASE SourceFiles
  BY <1>6, <1>a DEF SourceFiles, RecordTypes, Tracked
<1>7. CASE EndSchedule
  BY <1>7, <1>a DEF EndSchedule, SetRec, RecordTypes, EndPoll, NoItems
<1>8. ASSUME NEW i \in Item, ScheduleItem(i) PROVE Done1
  <2>1. chained' \subseteq ItemRow
    <3>1. \/ chained' = chained
          \/ Chain(ScrapeRows(i), TRUE)
      BY <1>8 DEF ScheduleItem, EnqueueScrape
    <3> QED
      BY <3>1, <1>a, ScrapeRowsType, ChainTypes
  <2>2. /\ pending' \in BOOLEAN /\ todo' \subseteq todo
        /\ UNCHANGED <<rec, item, scraped, submit, poll, listed, syncing, env, history>>
    BY <1>8, <1>a DEF ScheduleItem, RecordTypes
  <2> QED
    BY <2>1, <2>2, <1>a DEF RecordTypes
<1>9. CASE Crash
  <2>1. chained' \subseteq ItemRow
    <3>1. \E left \in SUBSET ItemRow : Chain(left, FALSE)
      BY <1>9, ScrapeRowsType DEF Crash
    <3> QED
      BY <3>1, <1>a, ChainTypes
  <2>2. \E rows \in SUBSET Row : Mishap("crash", rows)
    BY <1>9 DEF Crash
  <2>3. /\ submit' \in {"none", "over"} /\ EndPoll /\ syncing' = {}
        /\ UNCHANGED <<rec, item, scraped, env>>
    BY <1>9 DEF Crash
  <2> HIDE DEF Mishap
  <2>4. listed' \in [Item -> ItemStatus]
    BY <2>3 DEF EndPoll, NoItems
  <2> QED
    BY <2>1, <2>2, <2>3, <2>4, <1>a, MishapTypes DEF RecordTypes, EndPoll
<1>10. CASE Delete
  <2>1. Mishap("user", {})
    BY <1>10 DEF Delete
  <2>2. /\ mishaps' \in 0..MaxMishaps /\ redone' \subseteq Item \cup {Other}
        /\ UNCHANGED <<library, scanned, notified>>
    BY <2>1, <1>a, MishapTypes
  <2> QED
    BY <2>2, <1>10, <1>a DEF Delete, RecordTypes, NoItems
<1>11. ASSUME NEW i \in Item, NEW r \in Row, BeginScrape(i, r) \/ Search(i, r) \/ Choose(i, r)
       PROVE  Done1
  <2>1. \/ item' = item
        \/ \E status \in {"searching", "found"} : SetItem(i, status)
    BY <1>11 DEF BeginScrape, Search, Choose
  <2>2. item' \in [Item -> ItemStatus]
    BY <2>1, <1>a, SetItemTypes DEF RecordTypes
  <2>3. UNCHANGED <<rec, chained, scraped, outside, history>>
    BY <1>11 DEF BeginScrape, Search, Choose, Claim, Goto, GiveUp, End, Leave
  <2> QED
    BY <2>2, <2>3, <1>a DEF RecordTypes
<1>12. ASSUME NEW i \in Item, NEW r \in Row, BeginOrganize(i, r) PROVE Done1
  <2>1. item' \in [Item -> ItemStatus]
    BY <1>12, <1>a, SetItemTypes DEF BeginOrganize, RecordTypes
  <2> QED
    BY <2>1, <1>12, <1>a DEF BeginOrganize, Claim, RecordTypes
<1>13. ASSUME NEW i \in Item, NEW r \in Row, Transfer(i, r) PROVE Done1
  BY <1>13, <1>a DEF Transfer, Goto, RecordTypes
<1>14. ASSUME NEW i \in Item, NEW r \in Row, Record(i, r) PROVE Done1
  <2>1. \E status \in Terminal : SetItem(i, status)
    BY <1>14 DEF Record, Outcome
  <2>2. item' \in [Item -> ItemStatus]
    BY <2>1, <1>a, SetItemTypes DEF RecordTypes
  <2>3. UNCHANGED <<chained, outside>>
    BY <1>14 DEF Record, GiveUp, End, Leave, Goto
  <2>4. UNCHANGED <<rec, scraped, history>>
    BY <1>14 DEF Record
  <2> QED
    BY <2>2, <2>3, <2>4, <1>a DEF RecordTypes
<1>15. ASSUME NEW r \in Row, Conclude(r) \/ Settle(r) PROVE Done1
  BY <1>15, <1>a DEF Conclude, Settle, Goto, End, Leave, RecordTypes
<1>16. CASE BeginRefresh \/ BeginFinalize
  BY <1>16, <1>a DEF BeginRefresh, BeginFinalize, Claim, RecordTypes
<1>17. ASSUME NEW i \in Item, Await(i) PROVE Done1
  <2>1. Chain(ScrapeRows(i), FALSE) /\ UNCHANGED <<rec, item, scraped, outside, history>>
    BY <1>17 DEF Await, EnqueueScrape
  <2>2. chained' \subseteq ItemRow
    BY <2>1, <1>a, ScrapeRowsType, ChainTypes
  <2> QED
    BY <2>1, <2>2, <1>a DEF RecordTypes
<1>18. CASE Awaited \/ MarkScraped
  <2>1. scraped' \in BOOLEAN
    BY <1>18, <1>a DEF Awaited, MarkScraped, RecordTypes
  <2>2. rec' = rec \/ SetRec("refreshing")
    BY <1>18 DEF Awaited, MarkScraped
  <2>3. UNCHANGED <<item, chained, outside, history>>
    BY <1>18 DEF Awaited, MarkScraped, Goto
  <2> QED
    BY <2>1, <2>2, <2>3, <1>a DEF SetRec, RecordTypes
<1>19. CASE TransferAll
  <2>1. /\ library \subseteq library' /\ library' \subseteq library \cup Files
        /\ UNCHANGED <<item, scraped, mishaps, scanned, notified, redone, chained, outside>>
        /\ rec' = rec \/ SetRec("not_found")
    BY <1>19 DEF TransferAll, Unprocessed, Goto
  <2> QED
    BY <2>1, <1>a DEF RecordTypes, SetRec, Files
<1>20. ASSUME NEW r \in Row, Close(r) \/ Scan(r) \/ Write(r) PROVE Done1
  <2>1. \/ UNCHANGED rec
        \/ \E status \in {"refreshed", "refresh_skipped", "failed"} : SetRec(status)
    BY <1>20 DEF Close, Scan, Write, Announce
  <2>2. /\ UNCHANGED <<item, scraped, mishaps, library, redone, chained, outside>>
        /\ notified' \in {notified, notified + 1}
        /\ scanned' \in {scanned, library}
    BY <1>20 DEF Close, Scan, Write, Announce, Goto
  <2> QED
    BY <2>1, <2>2, <1>a DEF RecordTypes, SetRec
<1>21. ASSUME NEW r \in Row, Raise(r) PROVE Done1
  <2>1. Mishap("error", {r})
    BY <1>21 DEF Raise
  <2>2. UNCHANGED <<rec, item, scraped, chained, outside>>
    BY <1>21 DEF Raise, GiveUp, End, Leave, Goto
  <2> QED
    BY <2>1, <2>2, <1>a, MishapTypes DEF RecordTypes
<1>22. ASSUME NEW r \in Row, Interrupt(r) PROVE Done1
  <2>1. Mishap("user", {r})
    BY <1>22 DEF Interrupt
  <2>2. syncing' = syncing \cup {r} /\ UNCHANGED <<rec, item, scraped, chained, submit, polling, env>>
    BY <1>22 DEF Interrupt
  <2> QED
    BY <2>1, <2>2, <1>a, MishapTypes DEF RecordTypes
<1>23. ASSUME NEW r \in Row, Sync(r) PROVE Done1
  <2>1. item' \in [Item -> ItemStatus]
    <3>1. item' = item \/ (r[2] \in Item /\ SetItem(r[2], "interrupted"))
      BY <1>23, ItemRows DEF Sync
    <3> QED
      BY <3>1, <1>a, SetItemTypes DEF RecordTypes
  <2>2. rec' = rec \/ SetRec("interrupted")
    BY <1>23 DEF Sync
  <2>3. syncing' \subseteq syncing /\ UNCHANGED <<scraped, tasks, submit, polling, env, history>>
    BY <1>23 DEF Sync
  <2> QED
    BY <2>1, <2>2, <2>3, <1>a DEF RecordTypes, SetRec
<1>24. CASE UNCHANGED vars
  BY <1>24, <1>a DEF vars, RecordTypes
<1> HIDE LifecycleAssumption
    DEF Terminal, Incomplete, Announcing, ItemStatus, Unfinished, Ended,
        history, outside, tasks, polling
<1>25. Done1
  BY <1>1, <1>2, <1>3, <1>4, <1>5, <1>6, <1>7, <1>8, <1>9, <1>10, <1>11, <1>12, <1>13, <1>14,
     <1>15, <1>16, <1>17, <1>18, <1>19, <1>20, <1>21, <1>22, <1>23, <1>24, Rows
  DEF Next, Submit, Poll, Run
<1> QED
  BY <1>25 DEF Done1

LEMMA TypeInit == Init => TypeInv
<1> SUFFICES ASSUME Init PROVE TypeInv
  OBVIOUS
<1> USE LifecycleAssumption DEF Init
<1>1. TypeOK
  <2>1. item \in [Item -> ItemStatus] /\ listed \in [Item -> ItemStatus]
    BY DEF NoItems, ItemStatus
  <2>2. /\ row \in [Row -> RowStatus] /\ at \in [Row -> Step]
        /\ attempts \in [Row -> 0..Attempts]
        /\ \A r \in Row : row[r] = "wait" => attempts[r] < Attempts
    BY DEF RowStatus, Step
  <2>3. scraped \in BOOLEAN /\ pending \in BOOLEAN
    BY Zenon
  <2>4. chained \subseteq ItemRow /\ todo \subseteq Item /\ syncing \subseteq Row
        /\ library \subseteq Item \cup {Other} /\ scanned \subseteq library
        /\ redone \subseteq Item \cup {Other}
    OBVIOUS
  <2>5. mishaps \in 0..MaxMishaps /\ notified \in Nat
    OBVIOUS
  <2>6. env \in Env /\ rec = "absent" /\ submit = "none" /\ poll = "idle"
    OBVIOUS
  <2> HIDE DEF Init
  <2> QED
    BY <2>1, <2>2, <2>3, <2>4, <2>5, <2>6 DEF TypeOK, RowStatus, Step
<1>2. Executing
  BY DEF Executing, Steps
<1> QED
  BY <1>1, <1>2 DEF TypeInv

LEMMA TypeNext ==
  ASSUME TypeInv, [Next]_vars
  PROVE  TypeInv'
BY TasksKept, OtherTypes DEF TasksInv, RecordTypes, TypeInv, TypeOK, RowStatus, Step

(* Every variable keeps its type, and a task that waits has an attempt     *)
(* left; a task is at a step of its own executor exactly while it runs, in *)
(* an attempt of its own, and alone with its resource key.                 *)
THEOREM TypeCorrect == Spec => []TypeInv
<1>1. TypeInv /\ [Next]_vars => TypeInv'
  BY TypeNext
<1> QED
  BY <1>1, TypeInit, PTL DEF Spec

-----------------------------------------------------------------------------
(* What the steps change *)

ScrapeOf(i) == {r \in ItemRow : r[1] = "scrape" /\ r[2] = i}
OrganizeOf(i) == {r \in ItemRow : r[1] = "organize" /\ r[2] = i}

LEMMA Keys ==
  /\ \A r \in ItemRow : \E i \in Item : r \in ScrapeOf(i) \/ r \in OrganizeOf(i)
  /\ \A i, j \in Item : ScrapeOf(i) \cap OrganizeOf(j) = {}
  /\ \A i, j \in Item, r \in ItemRow :
       \/ r \in ScrapeOf(i) /\ r \in ScrapeOf(j)
       \/ r \in OrganizeOf(i) /\ r \in OrganizeOf(j)
       => i = j
  /\ \A i \in Item : \A r, s \in ScrapeOf(i) : SameKey(r, s)
  /\ \A i \in Item : \A r, s \in OrganizeOf(i) : SameKey(r, s)
  /\ \A i \in Item, again \in BOOLEAN : /\ <<"scrape", i, again>> \in ScrapeOf(i)
                                       /\ <<"organize", i, again>> \in OrganizeOf(i)
<1>1. \A r \in ItemRow : r[1] \in {"scrape", "organize"} /\ r[2] \in Item
  BY DEF ItemRow
<1>2. \A i \in Item, again \in BOOLEAN : /\ <<"scrape", i, again>> \in ScrapeOf(i)
                                       /\ <<"organize", i, again>> \in OrganizeOf(i)
  BY Rows DEF ScrapeOf, OrganizeOf
<1> QED
  BY <1>1, <1>2 DEF ScrapeOf, OrganizeOf, SameKey

(* The actions, with the rows that each of them is about.                  *)
Submitting == BeginSubmit \/ Refused \/ Submitted \/ Recorded \/ ScrapeRecorded
Polling == BeginPoll \/ Status \/ MarkRefreshing \/ NoSourceFiles \/ SourceFiles \/ EndSchedule
Scraping(i, r) == BeginScrape(i, r) \/ Search(i, r) \/ Choose(i, r)
Organizing(i, r) == BeginOrganize(i, r) \/ Transfer(i, r) \/ Record(i, r) \/ Conclude(r)
Refreshing == BeginRefresh \/ (\E i \in Item : Await(i)) \/ Awaited \/ TransferAll \/ MarkScraped
Ending(r) == Close(r) \/ Scan(r) \/ Write(r)
Managing(r) == Settle(r) \/ Raise(r) \/ Interrupt(r) \/ Sync(r)

LEMMA Actions ==
  ASSUME TypeInv, [Next]_vars
  PROVE  \/ Submitting \/ Polling \/ Crash \/ Delete \/ UNCHANGED vars
         \/ \E i \in Item : ScheduleItem(i)
         \/ \E i \in Item : \E r \in ScrapeOf(i) : Scraping(i, r)
         \/ \E i \in Item : \E r \in OrganizeOf(i) : Organizing(i, r)
         \/ Refreshing \/ BeginFinalize
         \/ \E r \in {Refresh, Finalize} : Ending(r)
         \/ \E r \in Row : Managing(r)
<1>1. ASSUME NEW r \in Row, Ending(r) PROVE r \in {Refresh, Finalize}
  <2>1. at[r] \in {"close", "scan", "write"} /\ at[r] \in Steps(r)
    BY <1>1 DEF Ending, Close, Scan, Write, At, TypeInv, Executing
  <2> QED
    BY <2>1, ItemRows DEF Row, Outcome, Terminal
<1>2. ASSUME NEW r \in Row, Run(r)
      PROVE  \/ \E i \in Item : \E s \in ScrapeOf(i) : Scraping(i, s)
             \/ \E i \in Item : \E s \in OrganizeOf(i) : Organizing(i, s)
             \/ Refreshing \/ BeginFinalize \/ Ending(r) \/ Settle(r)
  <2>1. ASSUME NEW i \in Item, NEW again \in BOOLEAN, r = <<"scrape", i, again>>, Scraping(i, r)
        PROVE  \E s \in ScrapeOf(i) : Scraping(i, s)
    BY <2>1, Keys, Zenon
  <2>2. ASSUME NEW i \in Item, NEW again \in BOOLEAN, r = <<"organize", i, again>>, Organizing(i, r)
        PROVE  \E s \in OrganizeOf(i) : Organizing(i, s)
    BY <2>2, Keys, Zenon
  <2> QED
    BY <1>2, <2>1, <2>2, Zenon DEF Run, Scraping, Organizing, Refreshing, Ending
<1> QED
  BY <1>1, <1>2, Zenon DEF Next, Submit, Poll, Submitting, Polling, Managing

(* The end of a task leaves it at no step.                                 *)
LEMMA Leaving ==
  ASSUME TypeInv, NEW r \in Row, NEW status, Leave(r, status) \/ End(r, status) \/ GiveUp(r)
  PROVE  /\ \A s \in Row : at'[s] = IF s = r THEN "none" ELSE at[s]
         /\ UNCHANGED <<chained, outside>>
BY DEF GiveUp, End, Leave, Goto, TypeInv, TypeOK

LEMMA Claiming ==
  ASSUME TypeInv, NEW r \in Row, NEW step, Claim(r, step)
  PROVE  /\ row[r] = "wait" /\ at[r] = "none" /\ row'[r] = "running" /\ at'[r] = step
         /\ \A s \in Row : s # r => row'[s] = row[s] /\ at'[s] = at[s]
         /\ \A s \in Row : SameKey(r, s) => row[s] # "running" /\ at[s] = "none"
         /\ UNCHANGED <<chained, scraped, outside>>
BY DEF Claim, TypeInv, TypeOK, Executing

LEMMA Going ==
  ASSUME TypeInv, NEW r \in Row, NEW step, Goto(r, step)
  PROVE  /\ at'[r] = step
         /\ \A s \in Row : s # r => at'[s] = at[s]
         /\ UNCHANGED <<chained, outside>>
BY DEF Goto, TypeInv, TypeOK

(* The task of a row moves on, or it stays where it is or ends.            *)
LEMMA AtSteps ==
  ASSUME TypeInv, [Next]_vars, NEW r \in Row
  PROVE  \/ at'[r] = at[r] \/ at'[r] = "none"
         \/ \E i \in Item : r \in ScrapeOf(i) /\ (BeginScrape(i, r) \/ Search(i, r))
         \/ \E i \in Item : r \in OrganizeOf(i) /\ Organizing(i, r)
         \/ r = Refresh /\ (BeginRefresh \/ Awaited \/ TransferAll \/ MarkScraped)
         \/ r = Finalize /\ BeginFinalize
         \/ r \in {Refresh, Finalize} /\ Ending(r)
<1> DEFINE Same == at'[r] = at[r] \/ at'[r] = "none"
<1>1. CASE Submitting \/ Polling \/ Crash \/ Delete \/ UNCHANGED vars \/ \E i \in Item : ScheduleItem(i)
  BY <1>1 DEF Submitting, BeginSubmit, Refused, Submitted, Recorded, ScrapeRecorded, Polling, BeginPoll,
     Status, MarkRefreshing, NoSourceFiles, SourceFiles, EndSchedule, Crash, Delete, ScheduleItem, vars, tasks
<1>2. ASSUME NEW i \in Item, NEW s \in ScrapeOf(i), Scraping(i, s), r # s PROVE Same
  <2>1. s \in Row
    BY DEF ScrapeOf, Row
  <2> QED
    BY <1>2, <2>1, Claiming, Going, Leaving DEF Scraping, BeginScrape, Search, Choose
<1>3. ASSUME NEW i \in Item, r \in ScrapeOf(i), Choose(i, r) PROVE Same
  BY <1>3, Leaving DEF Choose
<1>4. ASSUME NEW i \in Item, NEW s \in OrganizeOf(i), Organizing(i, s), r # s PROVE Same
  <2>1. s \in Row
    BY DEF OrganizeOf, Row
  <2>2. CASE BeginOrganize(i, s)
    BY <1>4, <2>1, <2>2, Claiming DEF BeginOrganize
  <2>3. CASE Transfer(i, s) \/ Conclude(s)
    BY <1>4, <2>1, <2>3, Going DEF Transfer, Conclude
  <2>4. CASE Record(i, s)
    BY <1>4, <2>1, <2>4, Going, Leaving DEF Record
  <2> QED
    BY <1>4, <2>2, <2>3, <2>4 DEF Organizing
<1>5. ASSUME Refreshing, r # Refresh PROVE Same
  BY <1>5, Rows, Claiming, Going DEF Refreshing, BeginRefresh, Await, Awaited, TransferAll, Unprocessed, MarkScraped
<1>6. ASSUME NEW i \in Item, Await(i) PROVE Same
  BY <1>6 DEF Await
<1>7. ASSUME BeginFinalize, r # Finalize PROVE Same
  BY <1>7, Rows, Claiming DEF BeginFinalize
<1>8. ASSUME NEW s \in {Refresh, Finalize}, Ending(s), r # s PROVE Same
  BY <1>8, Rows, Going DEF Ending, Close, Scan, Write, Announce
<1>9. ASSUME NEW s \in Row, Managing(s) PROVE Same
  <2>1. CASE Settle(s) \/ Raise(s)
    BY <2>1, Leaving DEF Settle, Raise
  <2>2. CASE Interrupt(s) \/ Sync(s)
    BY <2>2 DEF Interrupt, Sync, tasks, TypeInv, TypeOK
  <2> QED
    BY <1>9, <2>1, <2>2 DEF Managing
<1> QED
  BY <1>1, <1>2, <1>3, <1>4, <1>5, <1>6, <1>7, <1>8, <1>9, Actions DEF Scraping, Refreshing

(* What becomes of an item.                                                *)
LEMMA ItemSteps ==
  ASSUME TypeInv, [Next]_vars, NEW i \in Item
  PROVE  \/ item'[i] = item[i]
         \/ Recorded /\ item'[i] = "pending"
         \/ Delete /\ item'[i] = "absent"
         \/ item[i] # "absent" /\ \E r \in ScrapeOf(i) :
              \/ BeginScrape(i, r) /\ item[i] \in Incomplete /\ item'[i] = "searching"
              \/ Search(i, r) /\ item'[i] = "found"
         \/ item[i] # "absent" /\ \E r \in OrganizeOf(i) :
              \/ BeginOrganize(i, r) /\ item'[i] = "organizing"
              \/ /\ Record(i, r)
                 /\ item'[i] = IF at[r] = "unresolved" THEN "organize_failed" ELSE at[r]
         \/ /\ item[i] # "absent" /\ item'[i] = "interrupted"
            /\ \E r \in Row : Sync(r)
<1>a. ASSUME NEW j \in Item, NEW status, SetItem(j, status)
      PROVE  item'[i] = IF j # i \/ item[i] = "absent" THEN item[i] ELSE status
  BY <1>a DEF SetItem, TypeInv, TypeOK
<1>1. CASE Submitting
  BY <1>1 DEF Submitting, BeginSubmit, Refused, Submitted, Recorded, ScrapeRecorded
<1>2. CASE Polling \/ Crash \/ Delete \/ UNCHANGED vars \/ \E j \in Item : ScheduleItem(j)
  BY <1>2 DEF Polling, BeginPoll, Status, MarkRefreshing, NoSourceFiles, SourceFiles, EndSchedule,
     Crash, Delete, ScheduleItem, vars, NoItems
<1>3. ASSUME NEW j \in Item, NEW r \in ScrapeOf(j), Scraping(j, r)
      PROVE  \/ item'[i] = item[i]
             \/ i = j /\ item[i] # "absent" /\ BeginScrape(i, r) /\ item[i] \in Incomplete
                /\ item'[i] = "searching"
             \/ i = j /\ item[i] # "absent" /\ Search(i, r) /\ item'[i] = "found"
  BY <1>3, <1>a DEF Scraping, BeginScrape, Search, Choose
<1>4. ASSUME NEW j \in Item, NEW r \in OrganizeOf(j), Organizing(j, r)
      PROVE  \/ item'[i] = item[i]
             \/ i = j /\ item[i] # "absent" /\ BeginOrganize(i, r) /\ item'[i] = "organizing"
             \/ /\ i = j /\ item[i] # "absent" /\ Record(i, r)
                /\ item'[i] = IF at[r] = "unresolved" THEN "organize_failed" ELSE at[r]
  <2>1. CASE Transfer(j, r) \/ Conclude(r)
    BY <2>1 DEF Transfer, Conclude
  <2>2. CASE BeginOrganize(j, r)
    BY <2>2, <1>a DEF BeginOrganize
  <2>3. CASE Record(j, r)
    <3>1. SetItem(j, IF at[r] = "unresolved" THEN "organize_failed" ELSE at[r])
      BY <2>3 DEF Record
    <3> QED
      BY <2>3, <3>1, <1>a
  <2> QED
    BY <1>4, <2>1, <2>2, <2>3 DEF Organizing
<1>5. CASE Refreshing \/ BeginFinalize \/ \E r \in {Refresh, Finalize} : Ending(r)
  BY <1>5 DEF Refreshing, BeginRefresh, Await, Awaited, TransferAll, MarkScraped, BeginFinalize,
     Ending, Close, Scan, Write, Announce
<1>6. ASSUME NEW r \in Row, Settle(r) \/ Raise(r) \/ Interrupt(r) PROVE item'[i] = item[i]
  BY <1>6 DEF Settle, Raise, Interrupt
<1>7. ASSUME NEW r \in Row, Sync(r)
      PROVE item'[i] = item[i] \/ (item[i] # "absent" /\ item'[i] = "interrupted")
  <2>1. item' = item \/ (r[2] \in Item /\ SetItem(r[2], "interrupted"))
    BY <1>7, ItemRows DEF Sync
  <2> QED
    BY <2>1, <1>a
<1> QED
  BY <1>1, <1>2, <1>3, <1>4, <1>5, <1>6, <1>7, Actions, Zenon DEF Managing

(* The only way to items is to have their download, as its request records *)
(* them; they only go with the download.                                   *)
LEMMA Presence ==
  ASSUME TypeInv, [Next]_vars, NEW i \in Item
  PROVE  \/ item'[i] = "absent" <=> item[i] = "absent"
         \/ Recorded
         \/ Delete
<1>1. ASSUME NEW r \in OrganizeOf(i), Record(i, r) PROVE at[r] # "absent"
  BY <1>1 DEF Record, Outcome, Terminal
<1> QED
  BY <1>1, ItemSteps

(* Which tasks are created, and when.  No row goes, and a task that has    *)
(* ended is not run again.                                                 *)
LEMMA RowSteps ==
  ASSUME TypeInv, [Next]_vars, NEW r \in Row
  PROVE  /\ row[r] # "absent" => row'[r] # "absent"
         /\ row[r] \notin Queued \cup {"absent"} => row'[r] = row[r]
         /\ row[r] = "absent" /\ row'[r] # "absent" =>
              \/ \E i \in Item : r \in ScrapeOf(i) /\ item[i] # "absent"
              \/ \E i \in Item : /\ r \in OrganizeOf(i)
                               /\ \/ /\ ScheduleItem(i)
                                     /\ {item[i], listed[i]} \cap {"found", "organizing"} # {}
                                  \/ item[i] # "absent" /\ \E s \in ScrapeOf(i) : Choose(i, s)
              \/ r = Refresh /\ EndSchedule /\ ~(~Mixed /\ \A i \in Item : listed[i] # "absent")
              \/ r = Finalize /\ ~Done /\ AllTerminal
<1> DEFINE ForItem == \E i \in Item : r \in ScrapeOf(i) /\ item[i] # "absent"
           Kept == row'[r] = row[r] \/ (row[r] \in Queued /\ row'[r] # "absent")
           New(C) == Kept \/ (row[r] = "absent" /\ C)
<1>a. ASSUME NEW rows, Create(rows) \/ row' = Created(rows)
      PROVE  Kept \/ (row[r] = "absent" /\ r \in rows)
  BY <1>a DEF Create, Created
<1>b. ASSUME NEW s \in Row, row[s] \in Queued, NEW status, status # "absent",
             row' = [row EXCEPT ![s] = status]
      PROVE  Kept
  BY <1>b DEF TypeInv, TypeOK
<1>c. ASSUME NEW s \in Row, row[s] = "running", End(s, "done") \/ GiveUp(s) PROVE Kept
  BY <1>b, <1>c DEF End, GiveUp, Queued
<1>d. ASSUME NEW s \in Row, NEW step, Claim(s, step) PROVE Kept
  BY <1>b, <1>d DEF Claim, Queued
<1>e. ASSUME NEW i \in Item, r \in ScrapeRows(i) PROVE ForItem
  <2>1. r \in ScrapeOf(i)
    <3>1. ScrapeRows(i) \subseteq {<<"scrape", i, FALSE>>, <<"scrape", i, TRUE>>}
      BY ScrapeRowsType
    <3>2. <<"scrape", i, FALSE>> \in ScrapeOf(i) /\ <<"scrape", i, TRUE>> \in ScrapeOf(i)
      BY Keys
    <3> QED
      BY <1>e, <3>1, <3>2
  <2>2. item[i] # "absent"
    BY <1>e DEF ScrapeRows
  <2> QED
    BY <2>1, <2>2
<1>f. r \in IncompleteRows => ForItem
  BY <1>e DEF IncompleteRows
<1>g. ASSUME NEW i \in Item, NEW status, r \in Organize(i, status) PROVE r \in OrganizeOf(i)
  <2>1. Organize(i, status) \subseteq {<<"organize", i, FALSE>>, <<"organize", i, TRUE>>}
    BY DEF Organize
  <2>2. <<"organize", i, FALSE>> \in OrganizeOf(i) /\ <<"organize", i, TRUE>> \in OrganizeOf(i)
    BY Keys
  <2> QED
    BY <1>g, <2>1, <2>2
<1>1. CASE BeginSubmit \/ Refused \/ Submitted \/ Recorded
  BY <1>1 DEF BeginSubmit, Refused, Submitted, Recorded, tasks
<1>2. ASSUME ScrapeRecorded PROVE New(ForItem)
  BY <1>2, <1>a, <1>f DEF ScrapeRecorded, EnqueueScrape
<1>3. CASE BeginPoll \/ Status \/ MarkRefreshing \/ NoSourceFiles \/ SourceFiles \/ Delete \/ UNCHANGED vars
  BY <1>3 DEF BeginPoll, Status, MarkRefreshing, NoSourceFiles, SourceFiles, Delete, vars, tasks
<1>4. ASSUME EndSchedule
      PROVE \/ Kept
            \/ /\ row[r] = "absent" /\ r = Refresh
               /\ ~(~Mixed /\ \A i \in Item : listed[i] # "absent")
            \/ row[r] = "absent" /\ r = Finalize /\ ~Done /\ AllTerminal
  <2>1. \/ UNCHANGED row
        \/ FinalizeIfReady
        \/ ~(~Mixed /\ \A i \in Item : listed[i] # "absent") /\ Create({Refresh})
    BY <1>4, Zenon DEF EndSchedule
  <2> QED
    BY <2>1, <1>a DEF FinalizeIfReady
<1>5. ASSUME NEW i \in Item, ScheduleItem(i)
      PROVE  \/ New(ForItem)
             \/ /\ row[r] = "absent" /\ r \in OrganizeOf(i)
                /\ {item[i], listed[i]} \cap {"found", "organizing"} # {}
  <2>1. \/ UNCHANGED row
        \/ Create(ScrapeRows(i))
        \/ \E status \in {item[i], listed[i]} : status \in {"found", "organizing"} /\ Create(Organize(i, status))
    BY <1>5 DEF ScheduleItem, EnqueueScrape
  <2>2. CASE Create(ScrapeRows(i))
    BY <2>2, <1>a, <1>e
  <2>3. ASSUME NEW status \in {item[i], listed[i]}, status \in {"found", "organizing"}, Create(Organize(i, status))
        PROVE  Kept \/ (row[r] = "absent" /\ r \in OrganizeOf(i))
    BY <2>3, <1>a, <1>g
  <2> QED
    BY <2>1, <2>2, <2>3
<1>6. ASSUME Crash PROVE New(ForItem)
  <2>1. PICK left \in {IncompleteRows, {}} :
          row' = [s \in Row |-> IF row[s] = "running" THEN "wait" ELSE Created(left)[s]]
    BY <1>6 DEF Crash
  <2>2. Created(left)[r] = row[r] \/ (row[r] = "absent" /\ r \in left)
    BY DEF Created
  <2>3. row'[r] = IF row[r] = "running" THEN "wait" ELSE Created(left)[r]
    BY <2>1
  <2> QED
    BY <2>1, <2>2, <2>3, <1>f DEF Queued
<1>7. ASSUME NEW i \in Item, NEW s \in ScrapeOf(i), Scraping(i, s)
      PROVE  Kept \/ (row[r] = "absent" /\ r \in OrganizeOf(i) /\ item[i] # "absent" /\ Choose(i, s))
  <2>1. s \in Row
    BY DEF ScrapeOf, Row
  <2>2. CASE BeginScrape(i, s) \/ Search(i, s)
    BY <2>1, <2>2, <1>d DEF BeginScrape, Search
  <2>3. CASE Choose(i, s)
    <3>1. row[s] = "running" /\ row[s] \in Queued
      BY <2>3 DEF Choose, At, Queued
    <3>2. \/ GiveUp(s)
          \/ \E next : /\ next = {} \/ (item[i] # "absent" /\ next = Organize(i, item[i]))
                       /\ row' = [Created(next) EXCEPT ![s] = "done"]
      BY <2>3 DEF Choose
    <3>3. ASSUME NEW next, next = {} \/ (item[i] # "absent" /\ next = Organize(i, item[i])),
                 row' = [Created(next) EXCEPT ![s] = "done"]
          PROVE  Kept \/ (row[r] = "absent" /\ r \in OrganizeOf(i) /\ item[i] # "absent")
      <4>1. row'[r] = IF r = s THEN "done" ELSE Created(next)[r]
        BY <3>3 DEF Created
      <4>2. Created(next)[r] = row[r] \/ (row[r] = "absent" /\ r \in next)
        BY DEF Created
      <4> QED
        BY <3>1, <3>3, <4>1, <4>2, <1>g
    <3> QED
      BY <2>1, <2>3, <3>1, <3>2, <3>3, <1>c
  <2> QED
    BY <1>7, <2>2, <2>3 DEF Scraping
<1>8. ASSUME NEW i \in Item, NEW s \in OrganizeOf(i), Organizing(i, s)
      PROVE  Kept \/ (row[r] = "absent" /\ r = Finalize /\ ~Done /\ AllTerminal)
  <2>1. s \in Row
    BY DEF OrganizeOf, Row
  <2>2. CASE BeginOrganize(i, s) \/ Transfer(i, s)
    BY <2>1, <2>2, <1>d DEF BeginOrganize, Transfer
  <2>3. CASE Record(i, s)
    <3>1. row[s] = "running" /\ (GiveUp(s) \/ UNCHANGED row)
      BY <2>3, Zenon DEF Record
    <3> QED
      BY <2>1, <3>1, <1>c
  <2>4. CASE Conclude(s)
    BY <2>4, <1>a DEF Conclude, FinalizeIfReady
  <2> QED
    BY <1>8, <2>2, <2>3, <2>4 DEF Organizing
<1>9. ASSUME Refreshing PROVE New(ForItem)
  <2>1. CASE BeginRefresh \/ Awaited \/ TransferAll \/ MarkScraped
    BY <2>1, <1>d, Rows DEF BeginRefresh, Awaited, TransferAll, MarkScraped
  <2>2. ASSUME NEW i \in Item, Await(i) PROVE New(ForItem)
    BY <2>2, <1>a, <1>e DEF Await, EnqueueScrape
  <2> QED
    BY <1>9, <2>1, <2>2 DEF Refreshing
<1>10. ASSUME BeginFinalize \/ (\E s \in {Refresh, Finalize} : Ending(s)) PROVE Kept
  BY <1>10, <1>d, Rows DEF BeginFinalize, Ending, Close, Scan, Write, Announce
<1>11. ASSUME NEW s \in Row, Managing(s) PROVE Kept
  <2>1. CASE Settle(s) \/ Raise(s)
    BY <2>1, <1>c DEF Settle, Raise, At
  <2>2. CASE Interrupt(s) \/ Sync(s)
    BY <2>2, <1>b DEF Interrupt, Sync, tasks
  <2> QED
    BY <1>11, <2>1, <2>2 DEF Managing
<1> QED
  BY <1>1, <1>2, <1>3, <1>4, <1>5, <1>6, <1>7, <1>8, <1>9, <1>10, <1>11, Actions
  DEF Submitting, Polling, Queued

(* The coroutines of the request and of the poll.                          *)
LEMMA CoroutineSteps ==
  ASSUME TypeInv, [Next]_vars
  PROVE  /\ env' = env
         /\ \/ submit' = submit
            \/ Submitting
            \/ submit # "none" /\ submit' = "over"
         /\ \/ UNCHANGED <<poll, listed>> /\ todo' \subseteq todo
            \/ BeginPoll /\ UNCHANGED <<listed, todo>>
            \/ MarkRefreshing /\ UNCHANGED <<listed, todo>>
            \/ SourceFiles
            \/ EndPoll
<1> USE DEF outside, polling
<1>1. CASE Submitting
  BY <1>1 DEF Submitting, BeginSubmit, Refused, Submitted, Recorded, ScrapeRecorded
<1>2. CASE Polling
  BY <1>2 DEF Polling, BeginPoll, Status, MarkRefreshing, NoSourceFiles, SourceFiles, EndSchedule
<1>3. CASE Crash
  BY <1>3 DEF Crash
<1>4. CASE Delete \/ UNCHANGED vars \/ \E i \in Item : ScheduleItem(i)
  BY <1>4 DEF Delete, ScheduleItem, vars
<1>5. ASSUME UNCHANGED outside
      PROVE  env' = env /\ submit' = submit /\ UNCHANGED <<poll, listed>> /\ todo' \subseteq todo
  BY <1>5
<1>6. ASSUME NEW i \in Item, NEW r \in ScrapeOf(i), Scraping(i, r) PROVE UNCHANGED outside
  BY <1>6 DEF Scraping, BeginScrape, Search, Choose, Claim, GiveUp, End, Leave, Goto
<1>7. ASSUME NEW i \in Item, NEW r \in OrganizeOf(i), Organizing(i, r) PROVE UNCHANGED outside
  <2>1. CASE Record(i, r)
    <3>1. GiveUp(r) \/ Goto(r, "finalize")
      BY <2>1 DEF Record
    <3> QED
      BY <3>1 DEF GiveUp, End, Leave, Goto
  <2>2. CASE BeginOrganize(i, r) \/ Transfer(i, r) \/ Conclude(r)
    BY <2>2 DEF BeginOrganize, Transfer, Conclude, Claim, Goto
  <2> QED
    BY <1>7, <2>1, <2>2 DEF Organizing
<1>8. ASSUME Refreshing PROVE UNCHANGED outside
  BY <1>8 DEF Refreshing, BeginRefresh, Await, Awaited, TransferAll, Unprocessed, MarkScraped, Claim, Goto
<1>9. ASSUME BeginFinalize \/ \E r \in {Refresh, Finalize} : Ending(r) PROVE UNCHANGED outside
  BY <1>9 DEF BeginFinalize, Claim, Ending, Close, Scan, Write, Announce, Goto
<1>10. ASSUME NEW r \in Row, Settle(r) \/ Raise(r) PROVE UNCHANGED outside
  BY <1>10 DEF Settle, Raise, GiveUp, End, Leave, Goto
<1>11. ASSUME NEW r \in Row, Interrupt(r) \/ Sync(r)
       PROVE  env' = env /\ submit' = submit /\ UNCHANGED <<poll, listed>> /\ todo' \subseteq todo
  BY <1>11 DEF Interrupt, Sync
<1> HIDE DEF outside, polling
<1> QED
  BY <1>1, <1>2, <1>3, <1>4, <1>5, <1>6, <1>7, <1>8, <1>9, <1>10, <1>11, Actions DEF Managing

(* The statuses of the record.  One that has gone does not come back.      *)
LEMMA RecordSteps ==
  ASSUME TypeInv, [Next]_vars
  PROVE  \/ rec' = rec
         \/ BeginSubmit
         \/ /\ rec # "absent" /\ rec' \notin Announcing
            /\ rec' \in {"completed", "refreshing"} =>
                 submit = "over" \/ poll = "mark" \/ row[Refresh] = "running"
         \/ /\ rec # "absent"
            /\ \E r \in {Refresh, Finalize} : Ending(r)
<1> USE DEF SetRec, Announcing
<1>1. CASE Submitting
  BY <1>1 DEF Submitting, BeginSubmit, Refused, Submitted, Recorded, ScrapeRecorded
<1>2. CASE Polling
  BY <1>2 DEF Polling, BeginPoll, Status, MarkRefreshing, NoSourceFiles, SourceFiles, EndSchedule
<1>3. CASE Crash \/ Delete \/ UNCHANGED vars \/ \E i \in Item : ScheduleItem(i)
  BY <1>3 DEF Crash, Delete, ScheduleItem, vars
<1>4. ASSUME NEW i \in Item, NEW r \in ScrapeOf(i), Scraping(i, r) PROVE rec' = rec
  BY <1>4 DEF Scraping, BeginScrape, Search, Choose
<1>5. ASSUME NEW i \in Item, NEW r \in OrganizeOf(i), Organizing(i, r) PROVE rec' = rec
  BY <1>5 DEF Organizing, BeginOrganize, Transfer, Record, Conclude
<1>6. CASE Refreshing \/ BeginFinalize
  BY <1>6 DEF Refreshing, BeginRefresh, Await, Awaited, Awaiting, At, TransferAll, MarkScraped, BeginFinalize
<1>7. ASSUME NEW r \in {Refresh, Finalize}, Ending(r) PROVE rec' = rec \/ rec # "absent"
  BY <1>7 DEF Ending, Close, Scan, Write, Announce
<1>8. ASSUME NEW r \in Row, Managing(r)
      PROVE  rec' = rec \/ (rec # "absent" /\ rec' = "interrupted")
  BY <1>8 DEF Managing, Settle, Raise, Interrupt, Sync
<1> QED
  BY <1>1, <1>2, <1>3, <1>4, <1>5, <1>6, <1>7, <1>8, Actions

(* The audio files, and what is known of the library.                      *)
LEMMA LibrarySteps ==
  ASSUME TypeInv, [Next]_vars
  PROVE  /\ redone \subseteq redone'
         /\ \/ scanned' = scanned
            \/ /\ scanned' = library /\ UNCHANGED <<rec, library, redone>>
               /\ \E r \in {Refresh, Finalize} : Scan(r)
         /\ \/ library' = library
            \/ \E i \in Item : \E r \in OrganizeOf(i) : Transfer(i, r) /\ library' = library \cup {i}
            \/ TransferAll
         /\ scraped' = scraped \/ MarkScraped
<1> USE DEF history
<1>1. CASE Submitting \/ Polling \/ Delete \/ UNCHANGED vars \/ \E i \in Item : ScheduleItem(i)
  BY <1>1 DEF Submitting, BeginSubmit, Refused, Submitted, Recorded, ScrapeRecorded, Polling, BeginPoll,
     Status, MarkRefreshing, NoSourceFiles, SourceFiles, EndSchedule, Delete, Mishap, ScheduleItem, vars
<1>2. CASE Crash
  BY <1>2 DEF Crash, Mishap
<1>3. ASSUME NEW i \in Item, NEW r \in ScrapeOf(i), Scraping(i, r)
      PROVE  UNCHANGED <<history, scraped>>
  BY <1>3 DEF Scraping, BeginScrape, Claim, Search, Choose
<1>4. ASSUME NEW i \in Item, NEW r \in OrganizeOf(i), Organizing(i, r)
      PROVE  /\ redone \subseteq redone' /\ UNCHANGED <<scanned, scraped>>
             /\ library' = library \/ (Transfer(i, r) /\ library' = library \cup {i})
  BY <1>4 DEF Organizing, BeginOrganize, Claim, Transfer, Record, Conclude
<1>5. CASE Refreshing \/ BeginFinalize
  BY <1>5 DEF Refreshing, BeginRefresh, Await, Awaited, TransferAll, MarkScraped, BeginFinalize, Claim
<1>6. CASE \E r \in {Refresh, Finalize} : Ending(r)
  BY <1>6 DEF Ending, Close, Scan, Write, Announce
<1>7. ASSUME NEW r \in Row, Managing(r)
      PROVE  redone \subseteq redone' /\ UNCHANGED <<scanned, library, scraped>>
  BY <1>7 DEF Managing, Settle, Raise, Interrupt, Sync, Mishap
<1> QED
  BY <1>1, <1>2, <1>3, <1>4, <1>5, <1>6, <1>7, Actions

-----------------------------------------------------------------------------
(* One way to end a download *)

(* The download has not been deleted.                                      *)
Live == rec # "absent" \/ submit = "none"

(* Until the request has recorded the items, nothing happens to the        *)
(* download: there is no task, and the poll does not get to its files.     *)
Early ==
  /\ submit = "none" => rec = "absent"
  /\ submit \in {"none", "adding", "recording"} =>
       /\ rec \notin {"completed", "refreshing"} \cup Announcing
       /\ poll \in {"idle", "named", "status"}
       /\ item = NoItems /\ listed = NoItems /\ todo = {}
       /\ \A r \in Row : row[r] = "absent"
       /\ library = {}

(* A download whose files are all items is processed item by item, and     *)
(* only Finalize ends it; without items it is processed as a whole, and    *)
(* only Refresh does.                                                      *)
ItemByItem ==
  /\ \A i \in Item : item[i] # "absent"
  /\ row[Refresh] = "absent"
  /\ poll = "items" => \A i \in Item : listed[i] # "absent"

AsAWhole ==
  /\ \A i \in Item : item[i] = "absent" /\ listed[i] = "absent"
  /\ todo = {}
  /\ \A r \in Row \ {Refresh} : row[r] = "absent"

OneWay == Live /\ ~Mixed => ItemByItem \/ AsAWhole

(* Whoever will end the download finds it open.                            *)
Open ==
  Live /\ ~Mixed =>
    /\ at[Refresh] \in Steps(Refresh) \ {"none", "awaitMark", "settle"} => rec \notin Announcing
    /\ at[Finalize] \in {"close", "scan", "write"} => rec \notin Announcing

WayInv == TypeInv /\ Early /\ OneWay /\ Open

-----------------------------------------------------------------------------
LEMMA Alive ==
  ASSUME TypeInv, Early, [Next]_vars, Live'
  PROVE  Live
BY CoroutineSteps, RecordSteps
   DEF Live, Submitting, BeginSubmit, Refused, Submitted, Recorded, ScrapeRecorded

(* Nothing of a download runs in its early days.                           *)
LEMMA Idle ==
  ASSUME TypeInv, Early, submit \in {"none", "adding", "recording"}, NEW r \in Row
  PROVE  row[r] = "absent" /\ at[r] = "none"
BY DEF Early, TypeInv, Executing

LEMMA EarlyKept ==
  ASSUME TypeInv, Early, [Next]_vars
  PROVE  Early'
<1> DEFINE Soon == submit \in {"none", "adding", "recording"}
<1>1. (submit = "none" => rec = "absent")'
  BY CoroutineSteps, RecordSteps DEF Early, Submitting, BeginSubmit, Refused, Submitted, Recorded, ScrapeRecorded
<1>2. Soon' => Soon /\ ~Recorded
  BY CoroutineSteps DEF Submitting, BeginSubmit, Refused, Submitted, Recorded, ScrapeRecorded
<1> SUFFICES ASSUME Soon, Soon', ~Recorded
             PROVE  /\ rec' \notin {"completed", "refreshing"} \cup Announcing
                    /\ poll' \in {"idle", "named", "status"}
                    /\ item' = NoItems /\ listed' = NoItems /\ todo' = {}
                    /\ \A r \in Row : row'[r] = "absent"
                    /\ library' = {}
  BY <1>1, <1>2 DEF Early, NoItems
<1>3. \A r \in Row : row[r] = "absent" /\ at[r] = "none"
  BY Idle
<1>4. ~ \E r \in {Refresh, Finalize} : Ending(r)
  BY <1>3, Rows DEF Ending, Close, Scan, Write, At
<1>5. rec' \notin {"completed", "refreshing"} \cup Announcing
  BY <1>3, <1>4, RecordSteps, Rows DEF Early, BeginSubmit, Announcing
<1>6. poll' \in {"idle", "named", "status"} /\ listed' = NoItems /\ todo' = {}
  BY CoroutineSteps DEF Early, BeginPoll, Unfinished, MarkRefreshing, SourceFiles, EndPoll
<1>7. item' = NoItems
  <2>1. \A i \in Item : item'[i] = "absent"
    BY Presence DEF Delete, NoItems, Early
  <2> QED
    BY <2>1, TypeNext DEF TypeInv, TypeOK, NoItems
<1>8. ASSUME NEW r \in Row PROVE row'[r] = "absent"
  <2>1. \A i \in Item : item[i] = "absent" /\ i \notin todo
    BY DEF Early, NoItems
  <2>2. ~AllTerminal /\ ~EndSchedule /\ \A i \in Item : ~ScheduleItem(i)
    BY <2>1 DEF AllTerminal, Tracked, EndSchedule, ScheduleItem, Early
  <2> QED
    BY <1>3, <2>1, <2>2, RowSteps
<1>9. library' = {}
  <2>1. ~TransferAll /\ \A i \in Item : \A r \in OrganizeOf(i) : ~Transfer(i, r)
    BY <1>3, Rows DEF TransferAll, Transfer, At, OrganizeOf, Row
  <2> QED
    BY <2>1, LibrarySteps DEF Early
<1> QED
  BY <1>5, <1>6, <1>7, <1>8, <1>9

(* The two ways do not lead to one another; but the items may be recorded. *)
LEMMA WholeKept ==
  ASSUME WayInv, [Next]_vars, Live', ~Mixed'
  PROVE  /\ Live /\ ~Mixed /\ ~Delete
         /\ AsAWhole' => AsAWhole
         /\ AsAWhole /\ ~Recorded => AsAWhole'
<1>1. TypeInv /\ Early /\ Live /\ ~Mixed
  BY Alive, CoroutineSteps DEF WayInv, Mixed
<1>2. ~Delete
  <2>1. Delete => rec' = "absent" /\ submit' = submit /\ submit # "none"
    BY <1>1 DEF Delete, outside, Early
  <2> QED
    BY <2>1 DEF Live
<1>3. ASSUME AsAWhole' PROVE AsAWhole
  <2>1. ASSUME ItemByItem PROVE AsAWhole
    <3>1. Item = {}
      <4>1. \A i \in Item : item'[i] # "absent"
        BY <1>1, <1>2, <2>1, Presence DEF ItemByItem, Recorded, NoItems, Early
      <4> QED
        BY <1>3, <4>1 DEF AsAWhole
    <3>2. \A r \in Row \ {Refresh} : row[r] = "absent"
      BY <1>1, <1>3, RowSteps DEF AsAWhole
    <3> QED
      BY <1>1, <3>1, <3>2 DEF AsAWhole, TypeInv, TypeOK
  <2> QED
    BY <1>1, <2>1 DEF WayInv, OneWay
<1>4. ASSUME AsAWhole, ~Recorded PROVE AsAWhole'
  <2>1. \A i \in Item : item'[i] = "absent"
    BY <1>1, <1>2, <1>4, Presence DEF AsAWhole
  <2>2. todo' = {} /\ \A i \in Item : listed'[i] = "absent"
    BY <1>1, <1>4, CoroutineSteps DEF AsAWhole, BeginPoll, MarkRefreshing, SourceFiles, EndPoll, NoItems, Tracked
  <2>3. ASSUME NEW r \in Row \ {Refresh} PROVE row'[r] = "absent"
    <3>1. ~AllTerminal /\ \A i \in Item : ~ScheduleItem(i)
      BY <1>4 DEF AsAWhole, AllTerminal, Tracked, ScheduleItem
    <3> QED
      BY <1>1, <1>4, <3>1, RowSteps DEF AsAWhole
  <2> QED
    BY <2>1, <2>2, <2>3 DEF AsAWhole
<1> QED
  BY <1>1, <1>2, <1>3, <1>4

LEMMA OneWayKept ==
  ASSUME WayInv, [Next]_vars
  PROVE  OneWay'
<1> SUFFICES ASSUME Live', ~Mixed' PROVE ItemByItem' \/ AsAWhole'
  BY DEF OneWay
<1>1. TypeInv /\ Early /\ Live /\ ~Mixed
  BY Alive, CoroutineSteps DEF WayInv, Mixed
<1>2. ~Delete
  <2>1. Delete => rec' = "absent" /\ submit' = submit /\ submit # "none"
    BY <1>1 DEF Delete, outside, Early
  <2> QED
    BY <2>1 DEF Live
<1>3. CASE Recorded
  <2>1. \A r \in Row : row[r] = "absent" /\ row' = row /\ UNCHANGED polling
    BY <1>1, <1>3, Idle DEF Recorded, tasks
  <2>2. poll' # "items" /\ listed' = NoItems /\ todo' = {}
    BY <1>1, <1>3, <2>1 DEF Early, Recorded, polling
  <2>3. item' = item \/ item' = [i \in Item |-> "pending"]
    BY <1>3 DEF Recorded
  <2>4. item = NoItems
    BY <1>1, <1>3 DEF Early, Recorded
  <2> QED
    BY <2>1, <2>2, <2>3, <2>4, Rows DEF ItemByItem, AsAWhole, NoItems
<1>5. CASE ItemByItem /\ ~Recorded
  <2>1. \A i \in Item : item'[i] # "absent"
    BY <1>5, <1>2, Presence, <1>1 DEF ItemByItem
  <2>2. row'[Refresh] = "absent"
    <3>1. EndSchedule => \A i \in Item : listed[i] # "absent"
      BY <1>5 DEF EndSchedule, ItemByItem
    <3>2. \A i \in Item : Refresh \notin ScrapeOf(i) /\ Refresh \notin OrganizeOf(i)
      BY Rows DEF ScrapeOf, OrganizeOf
    <3> QED
      BY <1>1, <1>5, <3>1, <3>2, RowSteps, Rows DEF ItemByItem
  <2>3. poll' = "items" => \A i \in Item : listed'[i] # "absent"
    BY <1>1, <1>5, CoroutineSteps DEF ItemByItem, BeginPoll, Unfinished, MarkRefreshing, SourceFiles, EndPoll
  <2> QED
    BY <2>1, <2>2, <2>3 DEF ItemByItem
<1>6. CASE AsAWhole /\ ~Recorded
  BY <1>6, WholeKept
<1> QED
  BY <1>1, <1>3, <1>5, <1>6 DEF WayInv, OneWay

(* Two tasks never end a download that is processed one way.               *)
LEMMA Alone ==
  ASSUME WayInv, Live, ~Mixed
  PROVE  at[Refresh] = "none" \/ at[Finalize] = "none"
BY Rows DEF WayInv, OneWay, ItemByItem, AsAWhole, TypeInv, Executing

LEMMA OpenKept ==
  ASSUME WayInv, [Next]_vars
  PROVE  Open'
<1> SUFFICES ASSUME Live', ~Mixed'
             PROVE  /\ at'[Refresh] \in Steps(Refresh) \ {"none", "awaitMark", "settle"} => rec' \notin Announcing
                    /\ at'[Finalize] \in {"close", "scan", "write"} => rec' \notin Announcing
  BY DEF Open, Steps, Outcome, Terminal
<1>1. TypeInv /\ Early /\ Live /\ ~Mixed
  BY Alive, CoroutineSteps DEF WayInv, Mixed
<1>2. rec \notin Announcing => \/ rec' \notin Announcing
                               \/ \E r \in {Refresh, Finalize} : Ending(r)
  BY <1>1, RecordSteps DEF BeginSubmit, Announcing
<1>3. ASSUME NEW r \in {Refresh, Finalize}, Ending(r)
      PROVE  at'[r] = "settle" \/ UNCHANGED rec
  BY <1>1, <1>3, Rows, Going DEF Ending, Close, Scan, Write, Announce
<1>4. ASSUME NEW r \in {Refresh, Finalize}, Ending(r), NEW s \in {Refresh, Finalize} \ {r}
      PROVE  at'[s] = "none"
  <2>1. at[r] # "none"
    BY <1>4 DEF Ending, Close, Scan, Write, At
  <2>2. at[s] = "none"
    BY <1>1, <2>1, <1>4, Alone
  <2> QED
    BY <1>1, <1>4, <2>2, Rows, Going DEF Ending, Close, Scan, Write, Announce
<1>5. ASSUME at'[Refresh] \in Steps(Refresh) \ {"none", "awaitMark", "settle"} PROVE rec' \notin Announcing
  <2>1. CASE at'[Refresh] = at[Refresh]
    <3>1. rec \notin Announcing
      BY <1>1, <1>5, <2>1 DEF WayInv, Open
    <3> QED
      BY <1>2, <1>3, <1>4, <1>5, <2>1, <3>1
  <2>2. CASE BeginRefresh
    BY <1>1, <1>5, <2>2, Claiming, Rows DEF BeginRefresh, Announcing
  <2>3. CASE Awaited
    <3>1. at[Refresh] \in {"await", "awaitMark"}
      BY <2>3 DEF Awaited, Awaiting, At
    <3>2. CASE at[Refresh] = "await"
      BY <1>1, <2>3, <3>2, TorrentRows DEF WayInv, Open, Awaited
    <3>3. CASE at[Refresh] = "awaitMark"
      BY <2>3, <3>3 DEF Awaited, SetRec, Announcing
    <3> QED
      BY <3>1, <3>2, <3>3
  <2>4. CASE TransferAll \/ MarkScraped
    <3>1. at[Refresh] \in {"transfer", "transferred", "nothing"}
      BY <2>4 DEF TransferAll, MarkScraped, At
    <3> QED
      BY <1>1, <2>4, <3>1, TorrentRows DEF WayInv, Open, TransferAll, MarkScraped, SetRec, Announcing
  <2>5. CASE Ending(Refresh)
    <3>1. at[Refresh] \in {"close", "scan", "write"}
      BY <2>5 DEF Ending, Close, Scan, Write, At
    <3> QED
      BY <1>1, <1>3, <1>5, <2>5, <3>1, TorrentRows DEF WayInv, Open
  <2> QED
    BY <1>1, <1>5, <2>1, <2>2, <2>3, <2>4, <2>5, AtSteps, Rows DEF ScrapeOf, OrganizeOf
<1>6. ASSUME at'[Finalize] \in {"close", "scan", "write"} PROVE rec' \notin Announcing
  <2>1. CASE at'[Finalize] = at[Finalize]
    <3>1. rec \notin Announcing
      BY <1>1, <1>6, <2>1 DEF WayInv, Open
    <3> QED
      BY <1>2, <1>3, <1>4, <1>6, <2>1, <3>1
  <2>2. CASE BeginFinalize
    BY <1>1, <1>6, <2>2, Claiming, Rows DEF BeginFinalize, Done
  <2>3. CASE Ending(Finalize)
    <3>1. at[Finalize] \in {"close", "scan", "write"}
      BY <2>3 DEF Ending, Close, Scan, Write, At
    <3> QED
      BY <1>1, <1>3, <1>6, <2>3, <3>1 DEF WayInv, Open
  <2> QED
    BY <1>1, <1>6, <2>1, <2>2, <2>3, AtSteps, Rows DEF ScrapeOf, OrganizeOf
<1> QED
  BY <1>5, <1>6

LEMMA WayInit == Init => WayInv
<1> SUFFICES ASSUME Init PROVE WayInv
  OBVIOUS
<1>1. Early
  BY DEF Init, Early, Announcing
<1>2. OneWay
  BY Rows DEF Init, OneWay, AsAWhole, NoItems
<1>3. Open
  BY Rows DEF Init, Open
<1> QED
  BY <1>1, <1>2, <1>3, TypeInit DEF WayInv

LEMMA WayNext ==
  ASSUME WayInv, [Next]_vars
  PROVE  WayInv'
BY TypeNext, EarlyKept, OneWayKept, OpenKept DEF WayInv

LEMMA OnceStep ==
  ASSUME WayInv, [Next]_vars, ~Mixed, notified' # notified
  PROVE  rec \notin Announcing
<1> USE DEF history
<1>1. TypeInv
  BY DEF WayInv
<1>2. notified' = notified \/ \E r \in {Refresh, Finalize} : Ending(r)
  <2>1. CASE Submitting \/ Polling \/ Crash \/ Delete \/ UNCHANGED vars \/ \E i \in Item : ScheduleItem(i)
    BY <2>1 DEF Submitting, BeginSubmit, Refused, Submitted, Recorded, ScrapeRecorded, Polling, BeginPoll,
       Status, MarkRefreshing, NoSourceFiles, SourceFiles, EndSchedule, Crash, Delete, Mishap, ScheduleItem, vars
  <2>2. ASSUME NEW i \in Item, NEW r, Scraping(i, r) \/ Organizing(i, r) PROVE notified' = notified
    BY <2>2 DEF Scraping, BeginScrape, Search, Choose, Organizing, BeginOrganize, Transfer, Record, Conclude
  <2>3. CASE Refreshing \/ BeginFinalize
    BY <2>3 DEF Refreshing, BeginRefresh, Await, Awaited, TransferAll, MarkScraped, BeginFinalize
  <2>4. ASSUME NEW r \in Row, Managing(r) PROVE notified' = notified
    BY <2>4 DEF Managing, Settle, Raise, Interrupt, Sync, Mishap
  <2> QED
    BY <1>1, <2>1, <2>2, <2>3, <2>4, Actions
<1>3. PICK r \in {Refresh, Finalize} : at[r] \in {"close", "scan", "write"}
  BY <1>2 DEF Ending, Close, Scan, Write, At
<1>4. rec = "absent" => rec \notin Announcing
  BY DEF Announcing
<1> QED
  BY <1>3, <1>4, TorrentRows DEF WayInv, Open, Live

(* The tasks of a download that may end it twice - after a restart, an     *)
(* exception, or a request of the user - announce its end once: whoever is *)
(* about to announce it finds that it has not been, for any number of      *)
(* items, attempts and mishaps of all kinds but "mixed".                   *)
THEOREM EndIsNotifiedOnce == Spec => NotifiedOnce
<1>1. WayInv /\ [Next]_vars => WayInv'
  BY WayNext
<1>2. WayInv /\ [Next]_vars => [~Mixed /\ notified' # notified => rec \notin Announcing]_vars
  BY OnceStep
<1> QED
  BY <1>1, <1>2, WayInit, PTL DEF Spec, NotifiedOnce

-----------------------------------------------------------------------------
(* How far an item has got *)

Found == {"found", "organizing"} \cup Terminal

(* The scraping of an item is over, to all that can still be known of it.  *)
Past(i) ==
  \/ item[i] \in Found \/ listed[i] \in Found
  \/ \E r \in OrganizeOf(i) : row[r] # "absent"
  \/ \E r \in ScrapeOf(i) : at[r] = "choose"

Passed ==
  \A i \in Item : Past(i) => item[i] \notin Incomplete /\ \A r \in ScrapeOf(i) : at[r] # "search"

Organizable(i) == \E r \in OrganizeOf(i) : row[r] # "absent"
Busy(i) == \E r \in OrganizeOf(i) : at[r] \in {"transfer"} \cup Outcome

(* The file of an item is put into the library by a task for it, and the   *)
(* item says so as long as it takes.                                       *)
Made == \A i \in Item : item[i] \in Terminal \cup {"organizing"} => Organizable(i)
Working == \A i \in Item : Busy(i) => item[i] \in {"organizing", "interrupted", "absent"}

ItemsInv == WayInv /\ Passed /\ Made /\ Working /\ library \subseteq Files

LEMMA OrganizeRows ==
  ASSUME TypeInv, NEW i \in Item
  PROVE  /\ ScrapeOf(i) \subseteq Row /\ OrganizeOf(i) \subseteq Row
         /\ Busy(i) => Organizable(i)
         /\ \A r, s \in OrganizeOf(i) : at[r] # "none" /\ at[s] # "none" => r = s
         /\ \A r, s \in ScrapeOf(i) : at[r] # "none" /\ at[s] # "none" => r = s
<1>1. ScrapeOf(i) \subseteq Row /\ OrganizeOf(i) \subseteq Row
  BY DEF ScrapeOf, OrganizeOf, Row
<1>2. \A r \in OrganizeOf(i) : at[r] # "none" => row[r] = "running"
  BY <1>1 DEF TypeInv, Executing
<1>3. \A r \in ScrapeOf(i) : at[r] # "none" => row[r] = "running"
  BY <1>1 DEF TypeInv, Executing
<1>4. Busy(i) => Organizable(i)
  BY <1>2 DEF Busy, Organizable, Outcome, Terminal
<1> QED
  BY <1>1, <1>2, <1>3, <1>4, Keys DEF TypeInv, Executing

LEMMA EarlyItem ==
  ASSUME WayInv, submit \in {"none", "adding", "recording"}, NEW i \in Item
  PROVE  item[i] = "absent" /\ ~Past(i) /\ ~Busy(i)
<1>1. \A r \in Row : row[r] = "absent" /\ at[r] = "none"
  BY Idle DEF WayInv
<1>2. item[i] = "absent" /\ listed[i] = "absent"
  BY DEF WayInv, Early, NoItems
<1> QED
  BY <1>1, <1>2, OrganizeRows DEF Past, Busy, Found, Terminal, Outcome, WayInv

LEMMA PassedKept ==
  ASSUME WayInv, Passed, [Next]_vars
  PROVE  Passed'
<1>a. TypeInv
  BY DEF WayInv
<1> SUFFICES ASSUME NEW i \in Item, Past(i)'
             PROVE  item'[i] \notin Incomplete /\ \A r \in ScrapeOf(i) : at'[r] # "search"
  BY DEF Passed, ScrapeOf
<1>b. ScrapeOf(i) \subseteq Row /\ OrganizeOf(i) \subseteq Row
  BY <1>a, OrganizeRows
<1>1. CASE Past(i)
  <2>1. item[i] \notin Incomplete /\ \A r \in ScrapeOf(i) : at[r] # "search"
    BY <1>1 DEF Passed
  <2>2. ~Recorded
    BY <1>1, EarlyItem DEF Recorded
  <2>3. item'[i] \notin Incomplete
    <3>1. \A r \in OrganizeOf(i) : Record(i, r) => at[r] \notin Incomplete
      BY DEF Record, Outcome, Terminal, Incomplete
    <3> QED
      BY <2>1, <2>2, <3>1, <1>a, ItemSteps DEF Incomplete
  <2>4. ASSUME NEW r \in ScrapeOf(i) PROVE at'[r] # "search"
    <3>1. \A j \in Item : r \in ScrapeOf(j) => j = i
      BY Keys DEF ScrapeOf
    <3>2. BeginScrape(i, r) => at'[r] = "choose"
      BY <2>1, <1>a, <1>b, Claiming DEF BeginScrape
    <3>3. ~Search(i, r)
      BY <2>1 DEF Search, At
    <3>4. r # Refresh /\ r # Finalize /\ \A j \in Item : r \notin OrganizeOf(j)
      BY Rows, Keys DEF ScrapeOf
    <3> QED
      BY <2>1, <3>1, <3>2, <3>3, <3>4, <1>a, <1>b, AtSteps
  <2> QED
    BY <2>3, <2>4
<1>2. ASSUME NEW r \in ScrapeOf(i), Search(i, r)
      PROVE  item'[i] \notin Incomplete /\ \A s \in ScrapeOf(i) : at'[s] # "search"
  <2>1. at[r] = "search" /\ Goto(r, "choose") /\ SetItem(i, "found")
    BY <1>2 DEF Search, At
  <2>2. \A s \in ScrapeOf(i) \ {r} : at[s] = "none"
    BY <1>a, <2>1, OrganizeRows
  <2>3. \A s \in ScrapeOf(i) : at'[s] # "search"
    BY <1>a, <1>b, <2>1, <2>2, Going
  <2>4. item'[i] \in {"absent", "found"}
    BY <2>1, <1>a DEF SetItem, TypeInv, TypeOK
  <2> QED
    BY <2>3, <2>4 DEF Incomplete
<1>3. ASSUME NEW r \in ScrapeOf(i), BeginScrape(i, r), item[i] \notin Incomplete
      PROVE  item'[i] \notin Incomplete /\ \A s \in ScrapeOf(i) : at'[s] # "search"
  <2>1. Claim(r, "choose") /\ item' = item
    BY <1>3 DEF BeginScrape
  <2>2. \A s \in ScrapeOf(i) : SameKey(r, s)
    BY Keys
  <2>3. \A s \in ScrapeOf(i) : at'[s] # "search"
    BY <1>a, <1>b, <2>1, <2>2, Claiming
  <2> QED
    BY <1>3, <2>1, <2>3
<1>4. CASE ~Past(i)
  <2>1. item'[i] \in Found => \E r \in ScrapeOf(i) : Search(i, r)
    <3>1. \A r \in OrganizeOf(i) : ~BeginOrganize(i, r) /\ ~Record(i, r)
      BY <1>4, <1>a, <1>b, Claiming DEF Past, BeginOrganize, Record
    <3> QED
      BY <1>4, <3>1, <1>a, ItemSteps DEF Past, Found, Terminal
  <2>2. listed'[i] \notin Found
    <3>1. CASE SourceFiles
      BY <1>4, <3>1 DEF SourceFiles, Past
    <3>2. CASE listed' = NoItems
      BY <3>2 DEF NoItems, Found, Terminal
    <3>3. CASE listed' = listed
      BY <1>4, <3>3 DEF Past
    <3> QED
      BY <3>1, <3>2, <3>3, <1>a, CoroutineSteps DEF EndPoll
  <2>3. ASSUME NEW r \in OrganizeOf(i) PROVE row'[r] = "absent"
    <3>1. row[r] = "absent" /\ item[i] \notin Found /\ listed[i] \notin Found
      BY <1>4 DEF Past
    <3>2. \A s \in ScrapeOf(i) : ~Choose(i, s)
      BY <1>4 DEF Past, Choose, At
    <3>3. \A j \in Item : r \notin ScrapeOf(j) /\ (r \in OrganizeOf(j) => j = i)
      BY Keys DEF OrganizeOf
    <3>4. r # Refresh /\ r # Finalize
      BY Rows DEF OrganizeOf
    <3> QED
      BY <3>1, <3>2, <3>3, <3>4, <1>a, <1>b, RowSteps DEF Found
  <2>4. ASSUME NEW r \in ScrapeOf(i), at'[r] = "choose"
        PROVE  Search(i, r) \/ (BeginScrape(i, r) /\ item[i] \notin Incomplete)
    <3>1. \A j \in Item : r \notin OrganizeOf(j) /\ (r \in ScrapeOf(j) => j = i)
      BY Keys DEF ScrapeOf
    <3>2. r # Refresh /\ r # Finalize
      BY Rows DEF ScrapeOf
    <3>3. at[r] # "choose"
      BY <1>4 DEF Past
    <3>4. BeginScrape(i, r) /\ item[i] \in Incomplete => at'[r] = "search"
      BY <1>a, <1>b, Claiming DEF BeginScrape
    <3> QED
      BY <2>4, <3>1, <3>2, <3>3, <3>4, <1>a, <1>b, AtSteps
  <2>5. \/ \E r \in ScrapeOf(i) : Search(i, r)
        \/ \E r \in ScrapeOf(i) : BeginScrape(i, r) /\ item[i] \notin Incomplete
    <3>1. \/ item'[i] \in Found \/ listed'[i] \in Found
          \/ \E r \in OrganizeOf(i) : row'[r] # "absent"
          \/ \E r \in ScrapeOf(i) : at'[r] = "choose"
      BY DEF Past, OrganizeOf, ScrapeOf, Found, Terminal
    <3> QED
      BY <2>1, <2>2, <2>3, <2>4, <3>1
  <2> QED
    BY <2>5, <1>2, <1>3
<1> QED
  BY <1>1, <1>4

LEMMA MadeKept ==
  ASSUME WayInv, Made, [Next]_vars
  PROVE  Made'
<1> SUFFICES ASSUME NEW i \in Item, item'[i] \in Terminal \cup {"organizing"}
             PROVE  \E r \in OrganizeOf(i) : row'[r] # "absent"
  BY DEF Made, Organizable, OrganizeOf, Terminal
<1>1. TypeInv /\ OrganizeOf(i) \subseteq Row
  BY OrganizeRows DEF WayInv
<1>2. ASSUME NEW r \in OrganizeOf(i), BeginOrganize(i, r) \/ Record(i, r) PROVE row[r] # "absent"
  BY <1>1, <1>2, Claiming DEF BeginOrganize, Record
<1>3. \E r \in OrganizeOf(i) : row[r] # "absent"
  BY <1>1, <1>2, ItemSteps DEF Made, Organizable, Terminal
<1> QED
  BY <1>1, <1>3, RowSteps

LEMMA WorkingKept ==
  ASSUME ItemsInv, [Next]_vars
  PROVE  Working'
<1> SUFFICES ASSUME NEW i \in Item, NEW r \in OrganizeOf(i), at'[r] \in {"transfer"} \cup Outcome
             PROVE  item'[i] \in {"organizing", "interrupted", "absent"}
  BY DEF Working, Busy, OrganizeOf, Outcome, Terminal
<1>1. TypeInv /\ r \in Row
  BY OrganizeRows DEF ItemsInv, WayInv
<1>2. /\ \A j \in Item : r \notin ScrapeOf(j) /\ (r \in OrganizeOf(j) => j = i)
      /\ r # Refresh /\ r # Finalize
  BY Rows, Keys DEF OrganizeOf
<1>3. CASE BeginOrganize(i, r)
  <2>1. item'[i] \in {"organizing", "absent"}
    BY <1>1, <1>3 DEF BeginOrganize, SetItem, TypeInv, TypeOK
  <2> QED
    BY <2>1
<1>4. ASSUME at[r] \in {"transfer"} \cup Outcome, ~Record(i, r)
      PROVE  item'[i] \in {"organizing", "interrupted", "absent"}
  <2>1. Busy(i)
    BY <1>4 DEF Busy
  <2>2. item[i] \in {"organizing", "interrupted", "absent"} /\ Past(i)
    BY <1>1, <2>1, OrganizeRows DEF ItemsInv, Working, Past, Organizable
  <2>3. ~Recorded
    BY <2>1, EarlyItem DEF Recorded, ItemsInv
  <2>4. \A s \in ScrapeOf(i) : ~BeginScrape(i, s) \/ item[i] \notin Incomplete
    BY <2>2 DEF Incomplete
  <2>5. \A s \in ScrapeOf(i) : ~Search(i, s)
    BY <2>2 DEF ItemsInv, Passed, Search, At
  <2>6. ASSUME NEW s \in OrganizeOf(i) PROVE ~Record(i, s)
    <3>1. Record(i, s) => at[s] # "none" /\ at[r] # "none"
      BY <1>4 DEF Record, Outcome, Terminal
    <3> QED
      BY <1>1, <1>4, <3>1, OrganizeRows
  <2> QED
    BY <1>1, <2>2, <2>3, <2>4, <2>5, <2>6, ItemSteps
<1>5. ~Conclude(r) /\ (Transfer(i, r) => at[r] = "transfer")
  <2>1. Conclude(r) => at'[r] = "settle"
    BY <1>1, Going DEF Conclude
  <2> QED
    BY <2>1 DEF Transfer, At, Outcome, Terminal
<1>6. ASSUME Record(i, r) PROVE FALSE
  <2>1. at'[r] \in {"none", "finalize"}
    BY <1>1, <1>6, Going, Leaving DEF Record
  <2> QED
    BY <2>1 DEF Outcome, Terminal
<1>7. Transfer(i, r) => ~Record(i, r)
  BY <1>6
<1> QED
  <2>1. at'[r] # "none"
    BY DEF Outcome, Terminal
  <2> QED
    BY <1>1, <1>2, <1>3, <1>4, <1>5, <1>6, <2>1, AtSteps DEF Organizing

LEMMA ItemsInit == Init => ItemsInv
<1> SUFFICES ASSUME Init PROVE ItemsInv
  OBVIOUS
<1>1. \A r \in Row : row[r] = "absent" /\ at[r] = "none"
  BY DEF Init
<1>2. WayInv
  BY WayInit
<1>3. \A i \in Item : item[i] = "absent" /\ ~Past(i) /\ ~Busy(i)
  BY <1>2, EarlyItem DEF Init
<1>4. library \subseteq Files
  BY DEF Init
<1> QED
  BY <1>2, <1>3, <1>4 DEF ItemsInv, Passed, Made, Working, Terminal

LEMMA ItemsNext ==
  ASSUME ItemsInv, [Next]_vars
  PROVE  ItemsInv'
<1>1. WayInv' /\ Passed' /\ Made' /\ Working'
  BY WayNext, PassedKept, MadeKept, WorkingKept DEF ItemsInv
<1>2. Files' = Files
  BY CoroutineSteps DEF ItemsInv, WayInv, Files, Mixed
<1>3. library' \subseteq library \cup Files
  <2>1. TransferAll => library' \subseteq library \cup Files
    BY DEF TransferAll
  <2> QED
    BY <2>1, LibrarySteps DEF ItemsInv, WayInv, Files
<1> QED
  BY <1>1, <1>2, <1>3 DEF ItemsInv

-----------------------------------------------------------------------------
(* The finalisation *)

(* The file of an item is in the library, or never will be: only a task    *)
(* that organises it once more puts it there again.                        *)
Over(i) ==
  item[i] \in Terminal \cup {"interrupted"} /\ Organizable(i) /\ ~Busy(i)

(* As a download is to be finalised, its items are over.                   *)
Finalising ==
  Live /\ ~Mixed /\ row[Finalize] # "absent" => \A i \in Item : i \in redone \/ Over(i)

LEMMA OverKept ==
  ASSUME ItemsInv, [Next]_vars, NEW i \in Item, Over(i), ~Delete
  PROVE  i \in redone' \/ Over(i)'
<1>1. TypeInv /\ OrganizeOf(i) \subseteq Row
  BY OrganizeRows DEF ItemsInv, WayInv
<1> SUFFICES ASSUME i \notin redone' PROVE Over(i)'
  OBVIOUS
<1>2. Organizable(i)'
  <2>1. \E r \in OrganizeOf(i) : row'[r] # "absent"
    BY <1>1, RowSteps DEF Over, Organizable
  <2> QED
    BY <2>1 DEF Organizable, OrganizeOf
<1>3. Past(i)
  BY DEF Over, Organizable, Past
<1>4. \A r \in OrganizeOf(i) : ~BeginOrganize(i, r) /\ at[r] \notin {"transfer"} \cup Outcome
  BY DEF Over, Busy, BeginOrganize
<1>5. item'[i] \in Terminal \cup {"interrupted"}
  <2>1. ~Recorded
    BY <1>3, EarlyItem DEF Recorded, ItemsInv
  <2>2. \A r \in ScrapeOf(i) : ~Search(i, r)
    BY <1>3 DEF ItemsInv, Passed, Search, At
  <2>3. item[i] \notin Incomplete
    BY <1>3 DEF ItemsInv, Passed
  <2>4. \A r \in OrganizeOf(i) : ~Record(i, r)
    BY <1>4 DEF Record
  <2> QED
    BY <1>1, <1>4, <2>1, <2>2, <2>3, <2>4, ItemSteps DEF Over
<1>6. ~Busy(i)'
  <2>1. ASSUME NEW r \in OrganizeOf(i) PROVE at'[r] \notin {"transfer"} \cup Outcome
    <3>1. /\ \A j \in Item : r \notin ScrapeOf(j) /\ (r \in OrganizeOf(j) => j = i)
          /\ r # Refresh /\ r # Finalize
      BY Rows, Keys DEF OrganizeOf
    <3>2. ~Transfer(i, r) /\ ~Record(i, r)
      BY <1>4 DEF Transfer, Record, At
    <3>3. Conclude(r) => at'[r] = "settle"
      BY <1>1, Going DEF Conclude
    <3> QED
      BY <1>1, <1>4, <3>1, <3>2, <3>3, AtSteps DEF Organizing, Outcome, Terminal
  <2> QED
    BY <2>1 DEF Busy, OrganizeOf, Outcome, Terminal
<1> QED
  BY <1>2, <1>5, <1>6 DEF Over, Terminal

LEMMA FinalisingKept ==
  ASSUME ItemsInv, Finalising, [Next]_vars
  PROVE  Finalising'
<1> SUFFICES ASSUME Live', ~Mixed', row'[Finalize] # "absent", NEW i \in Item
             PROVE  i \in redone' \/ Over(i)'
  BY DEF Finalising
<1>1. TypeInv /\ Live /\ ~Mixed /\ redone \subseteq redone'
  BY Alive, CoroutineSteps, LibrarySteps DEF ItemsInv, WayInv, Mixed
<1>2. ~Delete
  <2>1. Delete => rec' = "absent" /\ submit' = submit /\ submit # "none"
    BY DEF Delete, outside, ItemsInv, WayInv, Early
  <2> QED
    BY <2>1 DEF Live
<1>3. CASE row[Finalize] # "absent"
  BY <1>1, <1>2, <1>3, OverKept DEF Finalising
<1>4. CASE row[Finalize] = "absent"
  <2>1. AllTerminal
    BY <1>1, <1>4, RowSteps, Rows DEF ScrapeOf, OrganizeOf
  <2>2. item[i] \in Terminal
    BY <1>1, <2>1 DEF AllTerminal, Tracked, ItemsInv, WayInv, OneWay, ItemByItem, AsAWhole
  <2>3. Over(i)
    BY <2>2 DEF Over, ItemsInv, Made, Working, Terminal
  <2> QED
    BY <1>2, <2>3, OverKept
<1> QED
  BY <1>3, <1>4

-----------------------------------------------------------------------------
(* The library *)

(* What is put into the library and not recorded is accounted for when its *)
(* task is cut off.                                                        *)
LEMMA CutOff ==
  ASSUME TypeInv, [Next]_vars, NEW r \in Row, at[r] # "none", at'[r] = "none"
  PROVE  \/ r \in ItemRow /\ at[r] \notin Outcome
         \/ \E i \in Item : r \in OrganizeOf(i) /\ Record(i, r)
         \/ at[r] = "settle" /\ row'[r] = "done"
         \/ Unsettled(r) \subseteq redone'
<1>a. row[r] = "running" /\ r \in DOMAIN row
  BY DEF TypeInv, TypeOK, Executing
<1>1. CASE Submitting \/ Polling \/ Delete \/ UNCHANGED vars \/ \E i \in Item : ScheduleItem(i)
  BY <1>1 DEF Submitting, BeginSubmit, Refused, Submitted, Recorded, ScrapeRecorded, Polling, BeginPoll,
     Status, MarkRefreshing, NoSourceFiles, SourceFiles, EndSchedule, Delete, ScheduleItem, vars, tasks
<1>2. ASSUME NEW kind, NEW rows, r \in rows, Mishap(kind, rows)
      PROVE  Unsettled(r) \subseteq redone'
  BY <1>2 DEF Mishap
<1>3. CASE Crash
  BY <1>3, <1>2, <1>a DEF Crash
<1>4. ASSUME NEW i \in Item, NEW s \in ScrapeOf(i), Scraping(i, s)
      PROVE  r \in ItemRow /\ at[r] \notin Outcome
  <2>1. s \in Row /\ s \in ItemRow /\ Steps(s) \cap Outcome = {}
    BY ItemRows DEF ScrapeOf, Outcome, Terminal
  <2>2. at'[r] = at[r] \/ r = s
    BY <1>4, <2>1, Claiming, Going, Leaving DEF Scraping, BeginScrape, Search, Choose
  <2> QED
    BY <2>1, <2>2 DEF TypeInv, Executing
<1>5. ASSUME NEW i \in Item, NEW s \in OrganizeOf(i), Organizing(i, s)
      PROVE  r \in OrganizeOf(i) /\ Record(i, r)
  <2>1. s \in Row
    BY DEF OrganizeOf, Row
  <2>2. CASE BeginOrganize(i, s)
    <3>1. PICK step \in {"finalize", "transfer"} : Claim(s, step)
      BY <2>2 DEF BeginOrganize
    <3> QED
      BY <2>1, <3>1, Claiming
  <2>3. CASE Transfer(i, s) \/ Conclude(s)
    BY <2>1, <2>3, Going DEF Transfer, Conclude, Outcome, Terminal
  <2>4. CASE Record(i, s)
    BY <2>1, <2>4, Going, Leaving DEF Record
  <2> QED
    BY <1>5, <2>2, <2>3, <2>4 DEF Organizing
<1>6. ASSUME Refreshing \/ BeginFinalize PROVE FALSE
  <2>1. CASE BeginRefresh
    <3>1. PICK step \in {"settle", "await", "awaitMark"} : Claim(Refresh, step)
      BY <2>1 DEF BeginRefresh
    <3> QED
      BY <3>1, Rows, Claiming
  <2>2. CASE BeginFinalize
    <3>1. PICK step \in {"settle", "scan", "close"} : Claim(Finalize, step)
      BY <2>2 DEF BeginFinalize
    <3> QED
      BY <3>1, Rows, Claiming
  <2>3. CASE \E i \in Item : Await(i)
    BY <2>3 DEF Await
  <2>4. CASE Awaited \/ TransferAll \/ MarkScraped
    BY <2>4, Rows, Going DEF Awaited, TransferAll, Unprocessed, MarkScraped
  <2> QED
    BY <1>6, <2>1, <2>2, <2>3, <2>4 DEF Refreshing
<1>7. ASSUME NEW s \in {Refresh, Finalize}, Ending(s) PROVE FALSE
  BY <1>7, Rows, Going DEF Ending, Close, Scan, Write, Announce
<1>8. ASSUME NEW s \in Row, Managing(s) PROVE (at[r] = "settle" /\ row'[r] = "done") \/ Unsettled(r) \subseteq redone'
  <2>1. CASE Settle(s)
    BY <2>1, <1>a, Leaving DEF Settle, End, At
  <2>2. CASE Raise(s)
    BY <2>2, <1>2, Leaving DEF Raise
  <2>3. CASE Interrupt(s)
    BY <2>3, <1>2 DEF Interrupt, TypeInv, TypeOK
  <2>4. CASE Sync(s)
    BY <2>4 DEF Sync, tasks
  <2> QED
    BY <1>8, <2>1, <2>2, <2>3, <2>4 DEF Managing
<1> QED
  BY <1>1, <1>3, <1>4, <1>5, <1>6, <1>7, <1>8, Actions

Heard == library \subseteq scanned \cup redone

Recording(i) == \E r \in OrganizeOf(i) : at[r] = "organized"

(* A file that was put into the library and not scanned since is one whose *)
(* item says so, or is about to.                                           *)
Placed ==
  Live /\ ~Mixed /\ ItemByItem =>
    \A i \in library \ (scanned \cup redone) :
      /\ Organizable(i)
      /\ Recording(i) \/ (item[i] \in {"organized", "interrupted"} /\ ~Busy(i))

FinalInv == ItemsInv /\ Finalising /\ Placed

LEMMA PlacedKept ==
  ASSUME ItemsInv, Placed, [Next]_vars
  PROVE  Placed'
<1>1. TypeInv /\ (Live' => Live) /\ Mixed' = Mixed /\ redone \subseteq redone'
  BY Alive, CoroutineSteps, LibrarySteps DEF ItemsInv, WayInv, Mixed
<1> SUFFICES ASSUME Live', ~Mixed', ItemByItem', NEW i \in library', i \notin scanned', i \notin redone'
             PROVE  /\ Organizable(i)'
                    /\ Recording(i)' \/ (item'[i] \in {"organized", "interrupted"} /\ ~Busy(i)')
  BY DEF Placed
<1>2. ~Recorded
  <2>1. Recorded => library' = {}
    BY LibrarySteps, <1>1 DEF Recorded, history, ItemsInv, WayInv, Early
  <2> QED
    BY <2>1
<1>3. ~Delete
  <2>1. Delete => rec' = "absent" /\ submit' = submit /\ submit # "none"
    BY DEF Delete, outside, ItemsInv, WayInv, Early
  <2> QED
    BY <2>1 DEF Live
<1>4. i \in Item
  <2>1. library' \subseteq Files'
    BY ItemsNext DEF ItemsInv
  <2> QED
    BY <2>1 DEF Files
<1>5. ItemByItem
  <2>1. item[i] # "absent"
    BY <1>1, <1>2, <1>3, <1>4, Presence DEF ItemByItem
  <2> QED
    BY <1>1, <1>4, <2>1 DEF ItemsInv, WayInv, OneWay, AsAWhole
<1>6. i \notin redone /\ OrganizeOf(i) \subseteq Row /\ item[i] # "absent"
  BY <1>1, <1>4, <1>5, OrganizeRows DEF ItemByItem
<1>7. ASSUME NEW r \in OrganizeOf(i), Transfer(i, r), library' = library \cup {i}
      PROVE  \/ i \in library
             \/ Organizable(i)' /\ Recording(i)'
  <2>1. i \in library \/ (row'[r] = "running" /\ at'[r] = "organized")
    BY <1>1, <1>6, <1>7, Going DEF Transfer, At
  <2> QED
    BY <2>1 DEF Organizable, Recording, OrganizeOf
<1>8. CASE i \in library
  <2>1. i \notin scanned
    BY <1>8, LibrarySteps, <1>1
  <2>2. /\ Organizable(i)
        /\ Recording(i) \/ (item[i] \in {"organized", "interrupted"} /\ ~Busy(i))
    BY <1>1, <1>5, <1>6, <1>8, <2>1 DEF Placed
  <2>3. CASE item[i] \in {"organized", "interrupted"} /\ ~Busy(i)
    <3>1. Over(i)
      BY <2>2, <2>3 DEF Over, Terminal
    <3>2. Over(i)'
      BY <1>3, <1>4, <3>1, OverKept
    <3>3. item'[i] \in {"organized", "interrupted"}
      <4>1. Past(i)
        BY <2>2 DEF Organizable, Past
      <4>2. item'[i] = item[i] \/ item'[i] = "interrupted"
        <5>1. \A r \in OrganizeOf(i) : ~Record(i, r)
          BY <2>3 DEF Busy, Record
        <5>2. \A r \in OrganizeOf(i) : ~BeginOrganize(i, r)
          BY <2>3 DEF BeginOrganize, Terminal
        <5>3. \A r \in ScrapeOf(i) : ~Search(i, r)
          BY <1>4, <4>1 DEF ItemsInv, Passed, Search, At
        <5>4. item[i] \notin Incomplete
          BY <2>3 DEF Incomplete
        <5> QED
          BY <1>1, <1>2, <1>3, <1>4, <5>1, <5>2, <5>3, <5>4, ItemSteps
      <4> QED
        BY <2>3, <4>2
    <3> QED
      BY <3>2, <3>3 DEF Over
  <2>4. CASE Recording(i)
    <3>1. PICK r \in OrganizeOf(i) : at[r] = "organized"
      BY <2>4 DEF Recording
    <3>2. Organizable(i)'
      <4>1. row'[r] # "absent"
        <5>1. row[r] = "running"
          BY <1>1, <1>6, <3>1 DEF TypeInv, Executing
        <5> QED
          BY <1>1, <1>6, <5>1, RowSteps
      <4> QED
        BY <4>1 DEF Organizable, OrganizeOf
    <3>3. \A s \in OrganizeOf(i) \ {r} : at[s] = "none"
      BY <1>1, <1>4, <3>1, OrganizeRows
    <3>4. CASE Record(i, r)
      <4>1. SetItem(i, "organized") /\ Goto(r, "finalize")
        BY <3>1, <3>4 DEF Record
      <4>2. item'[i] = "organized"
        BY <1>1, <1>4, <1>6, <4>1 DEF SetItem, TypeInv, TypeOK
      <4>3. \A s \in OrganizeOf(i) : at'[s] \in {"none", "finalize"}
        BY <1>1, <1>6, <3>3, <4>1, Going
      <4> QED
        BY <3>2, <4>2, <4>3 DEF Busy, OrganizeOf, Outcome, Terminal
    <3>5. CASE ~Record(i, r)
      <4>1. /\ \A j \in Item : r \notin ScrapeOf(j) /\ (r \in OrganizeOf(j) => j = i)
            /\ r \in ItemRow /\ r[2] = i /\ r # Refresh /\ r # Finalize
        <5>1. r \in ItemRow /\ r[2] = i
          BY DEF OrganizeOf
        <5>2. \A j \in Item : r \notin ScrapeOf(j) /\ (r \in OrganizeOf(j) => j = i)
          BY <1>4, <5>1, Keys
        <5> QED
          BY <5>1, <5>2, Rows
      <4>2. ~BeginOrganize(i, r) /\ ~Transfer(i, r) /\ ~Conclude(r)
        BY <1>1, <1>6, <3>1, Claiming DEF BeginOrganize, Transfer, Conclude, At
      <4>3. at'[r] = at[r] \/ at'[r] = "none"
        BY <1>1, <1>6, <3>5, <4>1, <4>2, AtSteps DEF Organizing
      <4>4. at'[r] # "none"
        <5>1. Unsettled(r) = {i}
          BY <3>1, <4>1 DEF Unsettled, Outcome, Terminal
        <5> QED
          BY <1>1, <1>6, <3>1, <3>5, <4>1, <5>1, CutOff DEF Outcome, Terminal
      <4> QED
        BY <3>1, <3>2, <4>3, <4>4 DEF Recording, OrganizeOf
    <3> QED
      BY <3>4, <3>5
  <2> QED
    BY <2>2, <2>3, <2>4
<1>9. ~TransferAll
  BY <1>1, <1>5, Rows DEF TransferAll, At, ItemByItem
<1> QED
  <2>1. CASE i \notin library
    <3>1. PICK j \in Item : \E r \in OrganizeOf(j) : Transfer(j, r) /\ library' = library \cup {j}
      BY <1>1, <1>9, <2>1, LibrarySteps
    <3>2. i = j
      BY <2>1, <3>1
    <3> QED
      BY <1>7, <2>1, <3>1, <3>2, Zenon
  <2> QED
    BY <1>8, <2>1

(* What is announced as refreshed has been heard of by the media server;   *)
(* and as long as the task of a whole torrent can still find that there is *)
(* nothing to do, nothing is.                                              *)
Announceable ==
  Live /\ ~Mixed =>
    /\ rec = "refreshed" => Heard /\ (row[Finalize] # "absent" \/ AsAWhole)
    /\ \A r \in {Refresh, Finalize} : at[r] \in {"close", "write", "nothing"} => Heard
    /\ /\ AsAWhole /\ ~scraped /\ row[Refresh] \in Queued \cup {"absent"}
       /\ at[Refresh] \in {"none", "await", "awaitMark", "transfer"}
       => Heard

EndInv == FinalInv /\ Announceable

(* The library does not grow unheard of.                                   *)
LEMMA HeardKept ==
  ASSUME FinalInv, [Next]_vars, Live', ~Mixed', Heard, ~TransferAll,
         row[Finalize] # "absent" \/ AsAWhole
  PROVE  Heard'
<1>1. TypeInv /\ Live /\ ~Mixed /\ WayInv /\ ItemsInv
  BY WholeKept DEF FinalInv, ItemsInv, WayInv
<1>2. ASSUME NEW i \in Item, NEW r \in OrganizeOf(i), Transfer(i, r), library' = library \cup {i}
      PROVE  Heard'
  <2>1. Busy(i) /\ r \in Row /\ row[r] # "absent" /\ r # Refresh
    BY <1>1, <1>2, OrganizeRows, Rows DEF Transfer, At, Busy, OrganizeOf
  <2>2. row[Finalize] # "absent"
    BY <2>1 DEF AsAWhole
  <2>3. i \in redone
    BY <1>1, <2>1, <2>2 DEF FinalInv, Finalising, Over
  <2> QED
    BY <1>2, <2>3 DEF Heard, Transfer
<1>3. CASE library' = library
  BY <1>1, <1>3, LibrarySteps DEF Heard
<1> QED
  BY <1>1, <1>2, <1>3, LibrarySteps, Zenon

LEMMA AnnounceableKept ==
  ASSUME EndInv, [Next]_vars
  PROVE  Announceable'
<1> DEFINE Idling == {"none", "await", "awaitMark", "transfer"}
<1> SUFFICES ASSUME Live', ~Mixed'
             PROVE  /\ rec' = "refreshed" => Heard' /\ (row'[Finalize] # "absent" \/ AsAWhole')
                    /\ \A r \in {Refresh, Finalize} : at'[r] \in {"close", "write", "nothing"} => Heard'
                    /\ /\ AsAWhole' /\ ~scraped' /\ row'[Refresh] \in Queued \cup {"absent"}
                       /\ at'[Refresh] \in Idling
                       => Heard'
  BY DEF Announceable, Refresh, Finalize, Queued
<1>a. FinalInv /\ ItemsInv /\ WayInv /\ TypeInv /\ Early
  BY DEF EndInv, FinalInv, ItemsInv, WayInv
<1>b. Live /\ ~Mixed /\ ~Delete
  BY <1>a, WholeKept
<1>c. /\ rec = "refreshed" => Heard /\ (row[Finalize] # "absent" \/ AsAWhole)
      /\ \A r \in {Refresh, Finalize} : at[r] \in {"close", "write", "nothing"} => Heard
      /\ /\ AsAWhole /\ ~scraped /\ row[Refresh] \in Queued \cup {"absent"}
         /\ at[Refresh] \in Idling
         => Heard
  BY <1>b DEF EndInv, Announceable
<1>d. \A r \in {Refresh, Finalize} : at[r] # "none" => row[r] = "running"
  BY <1>a, Rows DEF TypeInv, Executing
<1>e. row[Refresh] # "absent" => AsAWhole
  BY <1>a, <1>b DEF WayInv, OneWay, ItemByItem
<1>f. ASSUME TransferAll
      PROVE  at[Refresh] = "transfer" /\ at'[Refresh] \in {"settle", "nothing", "transferred", "scan"}
  BY <1>a, <1>f, Going, Rows DEF TransferAll, Unprocessed, At
<1>g. TransferAll => rec \notin Announcing
  BY <1>a, <1>b, <1>f, TorrentRows DEF WayInv, Open
<1>h. ASSUME Heard, UNCHANGED <<library, scanned, redone>> PROVE Heard'
  BY <1>h DEF Heard
<1>1. ASSUME rec' = "refreshed" PROVE Heard' /\ (row'[Finalize] # "absent" \/ AsAWhole')
  <2>1. CASE rec = "refreshed"
    <3>1. ~TransferAll /\ ~Recorded
      BY <1>a, <1>g, <2>1 DEF Recorded, Early, Announcing
    <3>2. Heard'
      BY <1>a, <1>c, <2>1, <3>1, HeardKept
    <3>3. row'[Finalize] # "absent" \/ AsAWhole'
      BY <1>a, <1>c, <2>1, <3>1, WholeKept, RowSteps, Rows
    <3> QED
      BY <3>2, <3>3
  <2>2. CASE rec # "refreshed"
    <3>1. PICK r \in {Refresh, Finalize} : Ending(r)
      BY <1>1, <1>a, <2>2, RecordSteps DEF BeginSubmit, Announcing
    <3>2. Close(r) \/ Write(r)
      BY <1>1, <2>2, <3>1 DEF Ending, Scan, Announce, SetRec
    <3>3. at[r] \in {"close", "write"} /\ UNCHANGED <<library, scanned, redone, row, submit, item>>
      BY <3>2 DEF Close, Write, Announce, At, Goto, outside
    <3>4. Heard'
      BY <1>c, <1>h, <3>3
    <3>5. ~Recorded
      BY <1>1, <2>2 DEF Recorded
    <3>6. row'[Finalize] # "absent" \/ AsAWhole'
      BY <1>a, <1>d, <1>e, <3>1, <3>3, <3>5, WholeKept
    <3> QED
      BY <3>4, <3>6
  <2> QED
    BY <2>1, <2>2
<1>2. ASSUME NEW r \in {Refresh, Finalize}, at'[r] \in {"close", "write", "nothing"} PROVE Heard'
  <2>1. CASE at[r] \in {"close", "write", "nothing"}
    <3>1. ~TransferAll
      BY <1>a, <1>b, <1>f, <2>1, Alone
    <3>2. row[Finalize] # "absent" \/ AsAWhole
      BY <1>d, <1>e, <2>1
    <3> QED
      BY <1>a, <1>c, <2>1, <3>1, <3>2, HeardKept
  <2>2. CASE r = Refresh /\ TransferAll
    <3>1. at'[Refresh] = "nothing" => ~scraped /\ library' = library
      BY <1>a, <2>2, Going, Rows DEF TransferAll, Unprocessed
    <3>2. at'[Refresh] = "nothing"
      BY <1>2, <1>f, <2>2
    <3>3. Heard
      BY <1>c, <1>d, <1>e, <1>f, <2>2, <3>1, <3>2 DEF Queued
    <3> QED
      BY <1>h, <2>2, <3>1, <3>2, <3>3 DEF TransferAll
  <2>3. CASE r = Refresh /\ MarkScraped
    <3>1. at[Refresh] = "nothing"
      BY <1>2, <1>a, <2>3, Going, Rows DEF MarkScraped, At
    <3> QED
      BY <2>1, <2>3, <3>1
  <2>4. CASE r = Finalize /\ BeginFinalize
    <3>1. ~Organized /\ AllTerminal
      BY <1>2, <1>a, <2>4, Claiming, Rows DEF BeginFinalize
    <3>2. row[Finalize] = "wait"
      BY <2>4 DEF BeginFinalize, Claim
    <3>3. ItemByItem
      BY <1>a, <1>b, <3>2, Rows DEF WayInv, OneWay, AsAWhole
    <3>4. ASSUME NEW i \in library, i \notin scanned, i \notin redone PROVE FALSE
      <4>1. i \in Item
        BY <1>a, <1>b DEF ItemsInv, Files
      <4>2. ~Busy(i) /\ item[i] # "organized" /\ item[i] # "interrupted"
        BY <1>a, <1>b, <3>1, <3>2, <3>3, <3>4, <4>1
        DEF FinalInv, Finalising, Over, Organized, Tracked, AllTerminal, Terminal, ItemByItem
      <4>3. ~Recording(i)
        BY <4>2 DEF Recording, Busy, Outcome, Terminal
      <4> QED
        BY <1>a, <1>b, <3>3, <3>4, <4>2, <4>3 DEF FinalInv, Placed
    <3>5. Heard /\ UNCHANGED <<library, scanned, redone>>
      BY <2>4, <3>4 DEF Heard, BeginFinalize, history
    <3> QED
      BY <1>h, <3>5
  <2>5. CASE Ending(r) /\ at[r] \notin {"close", "write", "nothing"}
    <3>1. Scan(r)
      BY <2>5 DEF Ending, Close, Write, At
    <3>2. scanned' = library /\ library' = library
      BY <1>2, <1>a, <3>1, Going, Rows DEF Scan, Announce
    <3> QED
      BY <3>2 DEF Heard
  <2>6. r = Refresh => ~BeginRefresh /\ ~Awaited
    <3>1. ASSUME BeginRefresh PROVE at'[Refresh] \in {"settle", "await", "awaitMark"}
      <4>1. PICK step \in {"settle", "await", "awaitMark"} : Claim(Refresh, step)
        BY <3>1 DEF BeginRefresh
      <4> QED
        BY <1>a, <4>1, Claiming, Rows
    <3>2. Awaited => at'[Refresh] = "transfer"
      BY <1>a, Going, Rows DEF Awaited
    <3> QED
      BY <1>2, <3>1, <3>2
  <2>7. at'[r] # "none" /\ \A i \in Item : r \notin ScrapeOf(i) /\ r \notin OrganizeOf(i)
    BY <1>2, Rows DEF ScrapeOf, OrganizeOf
  <2>8. r \in Row
    BY Rows
  <2> QED
    BY <1>2, <1>a, <2>1, <2>2, <2>3, <2>4, <2>5, <2>6, <2>7, <2>8, AtSteps
<1>3. ASSUME AsAWhole', ~scraped', row'[Refresh] \in Queued \cup {"absent"}, at'[Refresh] \in Idling
      PROVE  Heard'
  <2>1. AsAWhole
    BY <1>3, <1>a, WholeKept
  <2>2. ~scraped
    BY <1>3, <1>a, LibrarySteps DEF MarkScraped
  <2>3. row[Refresh] \in Queued \cup {"absent"}
    BY <1>3, <1>a, RowSteps, Rows
  <2>4. ~TransferAll
    BY <1>3, <1>f
  <2>5. CASE Heard
    BY <1>a, <2>1, <2>4, <2>5, HeardKept
  <2>6. CASE at[Refresh] \in Idling \cup {"close", "write", "nothing"}
    BY <1>c, <2>1, <2>2, <2>3, <2>5, <2>6
  <2>7. CASE at[Refresh] \in {"transferred", "scan", "settle"}
    <3>1. ~BeginRefresh /\ ~Awaited
      BY <1>a, <2>7, Claiming, Rows DEF BeginRefresh, Awaited, Awaiting, At
    <3>2. MarkScraped \/ Ending(Refresh) => at'[Refresh] \in {"close", "scan", "write", "settle"}
      BY <1>a, Going, Rows DEF MarkScraped, Ending, Close, Scan, Write, Announce
    <3>3. at'[Refresh] = "none"
      BY <1>3, <1>a, <2>4, <2>7, <3>1, <3>2, AtSteps, Rows DEF ScrapeOf, OrganizeOf
    <3>4. \A i \in Item : Refresh \notin OrganizeOf(i)
      BY Rows DEF OrganizeOf
    <3>5. Unsettled(Refresh) \subseteq redone'
      BY <1>3, <1>a, <2>7, <3>3, <3>4, CutOff, Rows DEF Queued
    <3>6. Unsettled(Refresh) = Files
      BY <2>2, <2>7, Rows DEF Unsettled
    <3>7. library' \subseteq Files
      BY <1>a, <1>b, ItemsNext DEF ItemsInv, Files
    <3> QED
      BY <3>5, <3>6, <3>7 DEF Heard
  <2>8. at[Refresh] \in Steps(Refresh)
    BY <1>a, Rows DEF TypeInv, Executing
  <2> QED
    BY <2>6, <2>7, <2>8, TorrentRows
<1> QED
  BY <1>1, <1>2, <1>3

LEMMA EndInit == Init => EndInv
<1> SUFFICES ASSUME Init PROVE EndInv
  OBVIOUS
<1>1. ItemsInv
  BY ItemsInit
<1>2. library = {} /\ rec = "absent" /\ row[Finalize] = "absent"
  BY Rows DEF Init
<1> QED
  BY <1>1, <1>2 DEF EndInv, FinalInv, Finalising, Placed, Announceable, Heard

LEMMA EndNext ==
  ASSUME EndInv, [Next]_vars
  PROVE  EndInv'
<1>1. FinalInv'
  BY ItemsNext, FinalisingKept, PlacedKept DEF EndInv, FinalInv
<1>2. Announceable'
  BY AnnounceableKept
<1> QED
  BY <1>1, <1>2 DEF EndInv

(* When a download is recorded as refreshed, the media server has scanned  *)
(* the library after every file that was put there for it, for any number  *)
(* of items, attempts and mishaps of all kinds but "mixed", and but for    *)
(* the files whose organisation was cut off or done again (redone).        *)
THEOREM RefreshedIsScanned == Spec => []Announced
<1>1. EndInv /\ [Next]_vars => EndInv'
  BY EndNext
<1>2. EndInv => Announced
  BY DEF EndInv, Announceable, Announced, Heard, Live
<1> QED
  BY <1>1, <1>2, EndInit, PTL DEF Spec
=============================================================================
