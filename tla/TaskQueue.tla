------------------------------ MODULE TaskQueue ------------------------------
(***************************************************************************)
(* The persistent task queue: the rows of system_tasks and                 *)
(* system_task_resource_leases (infra/db/repositories.py) and the          *)
(* in-process TaskManager (core/task_queue.py) that claims, runs, renews,  *)
(* settles and recovers them.                                              *)
(*                                                                         *)
(* Every repository call is one database transaction and one action here;  *)
(* whatever the code awaits between two calls is an interleaving point.    *)
(* A wall-clock deadline is a set: `due' are the rows whose available_at   *)
(* has passed, `lapsed' the rows and `stale' the leases whose lease_until  *)
(* has passed.                                                             *)
(***************************************************************************)
EXTENDS Integers, FiniteSets

CONSTANTS
  Task,           \* the task rows that may ever be created
  Key,            \* primary keys of the lease table (a pool has one per slot)
  NoKey,          \* "no inheritable key"
  Needs,          \* resource_keys: each request is the set of lease keys that serve it
  Inheritable,    \* inheritable_key of each task, or NoKey
  Successors,     \* the next_tasks the executor of a task returns
  MaxAttempts,    \* max_attempts of each task
  AttemptLimit,   \* bound of MaxAttempts
  Enqueued,       \* tasks that some caller enqueues
  Exclusive,      \* tasks started by run_exclusive
  Scrape,         \* tasks whose type is in SCRAPE_WORKER_TASK_TYPES
  Interruptible,  \* tasks a user may interrupt, waiting or running for too long
  MaxConcurrent, MaxScrape,
  Env,            \* which of the awkward timings below can happen
  MaxRestarts     \* bound on the stops and crashes of one behaviour

(***************************************************************************)
(* "stall":  the process is suspended or blocked for longer than a lease   *)
(*           (300 s) while it is executing a task;                         *)
(* "early":  a run_exclusive call reaches the database between start() and *)
(*           the recovery transaction with which _run begins;              *)
(* "late":   interrupt_waiting_system_tasks writes the row it has read     *)
(*           after another session has changed it.                         *)
(***************************************************************************)
Timings == {"stall", "early", "late"}

ASSUME ConstantsAssumption ==
  /\ IsFiniteSet(Task)
  /\ NoKey \notin Key
  /\ Needs \in [Task -> SUBSET (SUBSET Key)]
  /\ Inheritable \in [Task -> Key \cup {NoKey}]
  /\ Successors \in [Task -> SUBSET Task]
  /\ AttemptLimit \in Nat \ {0}
  /\ MaxAttempts \in [Task -> 1..AttemptLimit]
  /\ Enqueued \subseteq Task
  /\ Exclusive \subseteq Task
  /\ Scrape \subseteq Task
  /\ Interruptible \subseteq Task
  /\ MaxConcurrent \in Nat \ {0}
  /\ MaxScrape \in Nat \ {0}
  /\ MaxRestarts \in Nat
  /\ Env \subseteq Timings

(* What the callers of the queue guarantee: an executor returns at most    *)
(* one next task, to be executed by the scheduler and of a later kind (a   *)
(* directory capture, then a scrape, then an organisation); run_exclusive  *)
(* is called with one attempt, no next task and no inheritable key.        *)
ASSUME CallersAssumption ==
  /\ \A t \in Task : \A u, v \in Successors[t] : u = v /\ u \notin Exclusive \cup {t}
  /\ \E kind \in [Task -> 0..2] : \A t \in Task : \A u \in Successors[t] : kind[t] < kind[u]
  /\ \A t \in Exclusive :
       /\ t \notin Enqueued
       /\ MaxAttempts[t] = 1
       /\ Successors[t] = {}
       /\ Inheritable[t] = NoKey

VARIABLES
  \* the database
  status, attempts, chain, due, lapsed, lease, stale,
  \* the TaskManager
  mgr,       \* "down", "starting" (recovery pending), "up" or "stopping"
  scanning,  \* run_once holds _admission_lock
  scrapes,   \* running_scrape_tasks, counted when the scan began
  pc,        \* what the coroutine that runs an attempt is doing
  held,      \* claimed_keys of an attempt
  forced,    \* _force_interrupted_task_ids
  \* POST /api/system-tasks/interrupt
  reading,   \* rows read as WAIT by interrupt_waiting, not written yet
  relist,    \* rows to be listed again after force_interrupt
  restarts

db   == <<status, attempts, chain, due, lapsed, lease, stale>>
mem  == <<mgr, scanning, scrapes, pc, held, forced>>
http == <<reading, relist>>
vars == <<db, mem, http, restarts>>

Status == {"absent", "WAIT", "RUNNING", "SUCCEEDED", "FAILED", "INTERRUPTED"}
Terminal == {"SUCCEEDED", "FAILED", "INTERRUPTED"}
Run == Task \X (1..AttemptLimit)
PC == {"none", "business", "cancelled", "completing", "failing", "interrupting"}

Free == [kind |-> "free"]
TaskHolder(r) == [kind |-> "task", run |-> r]
ChainHolder(c) == [kind |-> "chain", chain |-> c]
Holder == {Free} \cup {TaskHolder(r) : r \in Run} \cup {ChainHolder(c) : c \in Task}

TypeOK ==
  /\ status \in [Task -> Status]
  /\ attempts \in [Task -> 0..AttemptLimit]
  /\ chain \in [Task -> Task]
  /\ due \subseteq Task
  /\ lapsed \subseteq Task
  /\ lease \in [Key -> Holder]
  /\ stale \subseteq Key
  /\ mgr \in {"down", "starting", "up", "stopping"}
  /\ scanning \in BOOLEAN
  /\ scrapes \in Nat
  /\ pc \in [Run -> PC]
  /\ held \in [Run -> SUBSET Key]
  /\ forced \subseteq Task
  /\ reading \subseteq Task
  /\ relist \subseteq Task
  /\ restarts \in 0..MaxRestarts

Init ==
  /\ status = [t \in Task |-> "absent"]
  /\ attempts = [t \in Task |-> 0]
  /\ chain = [t \in Task |-> t]
  /\ due = {} /\ lapsed = {}
  /\ lease = [k \in Key |-> Free] /\ stale = {}
  /\ mgr = "down"
  /\ scanning = FALSE /\ scrapes = 0
  /\ pc = [r \in Run |-> "none"]
  /\ held = [r \in Run |-> {}]
  /\ forced = {} /\ reading = {} /\ relist = {}
  /\ restarts = 0

-----------------------------------------------------------------------------
(* Leases *)

(* The compare-and-set every settling call makes: the row is RUNNING and   *)
(* still at the attempt this coroutine was started for.                    *)
Owned(r) == status[r[1]] = "RUNNING" /\ attempts[r[1]] = r[2]

\* Slip: a lease blocks its key even after its lease_until.
TakenWhenExpired(k) == lease[k] # Free

Taken(k) == lease[k] # Free /\ k \notin stale

TaskLeases(r) == {k \in Key : lease[k] = TaskHolder(r)}
RowLeases(t) == {k \in Key : \E a \in 1..AttemptLimit : lease[k] = TaskHolder(<<t, a>>)}
ChainLeases(c) == {k \in Key : lease[k] = ChainHolder(c)}

ChainActive(t) ==
  \E u \in Task \ {t} : chain[u] = chain[t] /\ status[u] \in {"WAIT", "RUNNING"}

(* A chain's leases go when the last of its tasks does. *)
LastChainLeases(t) == IF ChainActive(t) THEN {} ELSE ChainLeases(chain[t])

\* Slip: only the chain's own leases are deleted.
ChainLeasesOnly(t) == ChainLeases(chain[t])

(* interrupt_running_system_tasks deletes by task_id or chain_id: every    *)
(* lease of every member of the chain.                                     *)
WholeChainLeases(t) ==
  {k \in Key : \/ \E r \in Run : lease[k] = TaskHolder(r) /\ chain[r[1]] = chain[t]
               \/ lease[k] = ChainHolder(chain[t])}

Delete(ks) ==
  /\ lease' = [k \in Key |-> IF k \in ks THEN Free ELSE lease[k]]
  /\ stale' = stale \ ks

(* The keys an attempt may take for its requests: one unclaimed lease key  *)
(* for each request, no key twice.                                         *)
Choices(t) ==
  {f \in [Needs[t] -> {k \in Key : ~Taken(k)}] :
     \A n \in Needs[t] : f[n] \in n /\ \A m \in Needs[t] \ {n} : f[m] # f[n]}

\* Slip: the inheritable key is taken from whoever holds it.
ChainKeyAlwaysOpen(t) == TRUE

(* An enqueued task passes when its own chain already holds the key; an    *)
(* exclusive one has no inheritable key.                                   *)
ChainKeyOpen(t) ==
  LET k == Inheritable[t] IN
  k # NoKey => (Taken(k) => lease[k] = ChainHolder(chain[t]))

Claimed(t, f) == {f[n] : n \in Needs[t]} \ {Inheritable[t]}

(* The leases after attempt r of a task has claimed the keys ks. *)
Grant(r, ks) ==
  LET t == r[1] IN
  /\ lease' = [k \in Key |-> IF k \in ks THEN TaskHolder(r)
                             ELSE IF k = Inheritable[t] THEN ChainHolder(chain[t])
                             ELSE lease[k]]
  /\ stale' = stale \ (ks \cup {Inheritable[t]})

-----------------------------------------------------------------------------
(* The registry of running tasks *)

Registered(t) == \E a \in 1..AttemptLimit : pc[<<t, a>>] # "none"
Executing(r) == pc[r] \in {"business", "cancelled"}
Active(S) == {r \in Run : r[1] \in S /\ pc[r] # "none"}

RunningScrapes == Cardinality({t \in Scrape : Registered(t)})
FreeSlot == Cardinality(Active(Task \ Exclusive)) < MaxConcurrent

Launch(r, ks) ==
  /\ pc' = [pc EXCEPT ![r] = "business"]
  /\ held' = [held EXCEPT ![r] = ks]

Leave(r) ==
  /\ pc' = [pc EXCEPT ![r] = "none"]
  /\ held' = [held EXCEPT ![r] = {}]

(* run_exclusive drops the mark in its finally block whatever happened;    *)
(* _execute_claimed drops it only where it has acted on it.                *)
Unmark(r, acted) ==
  forced' = IF acted \/ r[1] \in Exclusive THEN forced \ {r[1]} ELSE forced

-----------------------------------------------------------------------------
(* TaskManager.enqueue *)

(* create_system_task: an idempotency key that exists, whatever its        *)
(* status, creates nothing. The new row opens a chain of its own (a fresh  *)
(* uuid), named here after the row.                                        *)
Enqueue(t) ==
  /\ mgr # "down"
  /\ t \in Enqueued /\ status[t] = "absent"
  /\ status' = [status EXCEPT ![t] = "WAIT"]
  /\ \E ready \in BOOLEAN : due' = IF ready THEN due \cup {t} ELSE due
  /\ UNCHANGED <<attempts, chain, lapsed, lease, stale, mem, http, restarts>>

(* available_at passes. *)
BecomeDue(t) ==
  /\ status[t] = "WAIT" /\ t \notin due
  /\ due' = due \cup {t}
  /\ UNCHANGED <<status, attempts, chain, lapsed, lease, stale, mem, http, restarts>>

-----------------------------------------------------------------------------
(* The scheduler: _run, run_once and try_claim_system_task *)

BeginScan ==
  /\ mgr = "up" /\ ~scanning /\ FreeSlot
  /\ scanning' = TRUE
  /\ scrapes' = RunningScrapes
  /\ UNCHANGED <<db, mgr, pc, held, forced, http, restarts>>

EndScan ==
  /\ scanning
  /\ scanning' = FALSE
  /\ scrapes' = 0
  /\ UNCHANGED <<db, mgr, pc, held, forced, http, restarts>>

Offered(t) ==
  /\ scanning /\ FreeSlot
  /\ t \in Scrape => scrapes < MaxScrape
  /\ status[t] = "WAIT" /\ t \in due
  /\ t \notin relist

AttemptsLeft(t) == attempts[t] < MaxAttempts[t]

(* The claiming transaction: all keys and the row, or nothing. *)
ClaimRow(t, ks) ==
  /\ status' = [status EXCEPT ![t] = "RUNNING"]
  /\ attempts' = [attempts EXCEPT ![t] = @ + 1]
  /\ lapsed' = lapsed \ {t}
  /\ Grant(<<t, attempts[t] + 1>>, ks)
  /\ UNCHANGED <<chain, due>>

Claim(t) ==
  /\ Offered(t)
  /\ AttemptsLeft(t)
  /\ ChainKeyOpen(t)
  /\ \E f \in Choices(t) :
       /\ ClaimRow(t, Claimed(t, f))
       /\ Launch(<<t, attempts[t] + 1>>, Claimed(t, f))
  /\ scrapes' = IF t \in Scrape THEN scrapes + 1 ELSE scrapes
  /\ UNCHANGED <<mgr, scanning, forced, http, restarts>>

(* A row with no attempt left is failed by the claim itself. *)
ClaimExhausted(t) ==
  /\ Offered(t)
  /\ ~AttemptsLeft(t)
  /\ status' = [status EXCEPT ![t] = "FAILED"]
  /\ UNCHANGED <<attempts, chain, due, lapsed, lease, stale, mem, http, restarts>>

\* Slips: recovery takes running tasks too, or none.
AnyOwner(t) == TRUE
NoOwner(t) == FALSE

(* The rows recovery leaves alone: excluded_task_ids.                      *)
OwnerGone(t) == ~Registered(t)

(* recover_stale_system_tasks between two scans: an expired row whose      *)
(* runner is not in this process. One transaction handles all such rows;   *)
(* they are taken one at a time here.                                      *)
RecoverExpired(t) ==
  LET exclusive == t \in Exclusive
      exhausted == ~exclusive /\ ~AttemptsLeft(t)
  IN
  /\ mgr = "up" /\ ~scanning
  /\ status[t] = "RUNNING" /\ t \in lapsed
  /\ OwnerGone(t)
  /\ status' = [status EXCEPT ![t] =
                  IF exclusive THEN "INTERRUPTED"
                  ELSE IF exhausted THEN "FAILED" ELSE "WAIT"]
  /\ attempts' = [attempts EXCEPT ![t] = IF exclusive THEN @ - 1 ELSE @]
  /\ lapsed' = lapsed \ {t}
  /\ Delete(TaskLeases(<<t, attempts[t]>>) \cup
            IF exhausted \/ exclusive THEN LastChainLeases(t) ELSE {})
  /\ UNCHANGED <<chain, due, mem, http, restarts>>

-----------------------------------------------------------------------------
(* TaskManager.run_exclusive up to the start of its runner *)

(* try_start_system_task: the row is created RUNNING with all its keys, or *)
(* not at all; its chain is a fresh one.                                   *)
StartRow(t, ks) ==
  /\ status' = [status EXCEPT ![t] = "RUNNING"]
  /\ attempts' = [attempts EXCEPT ![t] = 1]
  /\ due' = due \cup {t}
  /\ Grant(<<t, 1>>, ks)
  /\ UNCHANGED <<chain, lapsed>>

\* Slip: the capacity check runs outside the admission lock.
TryStartUnlocked(t) ==
  /\ mgr = "up" \/ (mgr = "starting" /\ "early" \in Env)
  /\ t \in Exclusive /\ status[t] = "absent"
  /\ t \in Scrape => RunningScrapes < MaxScrape
  /\ \E f \in Choices(t) :
       /\ StartRow(t, Claimed(t, f))
       /\ Launch(<<t, 1>>, Claimed(t, f))
  /\ UNCHANGED <<mgr, scanning, scrapes, forced, http, restarts>>

TryStart(t) ==
  /\ mgr = "up" \/ (mgr = "starting" /\ "early" \in Env)
  /\ t \in Exclusive /\ status[t] = "absent"
  /\ ~scanning
  /\ t \in Scrape => RunningScrapes < MaxScrape
  /\ \E f \in Choices(t) :
       /\ StartRow(t, Claimed(t, f))
       /\ Launch(<<t, 1>>, Claimed(t, f))
  /\ UNCHANGED <<mgr, scanning, scrapes, forced, http, restarts>>

-----------------------------------------------------------------------------
(* _run_with_lease: the business coroutine against the lease refresher *)

(* The business coroutine returns; a marked task is interrupted instead of *)
(* completed.                                                              *)
BusinessReturns(r) ==
  /\ pc[r] = "business"
  /\ pc' = [pc EXCEPT ![r] = IF r[1] \in forced THEN "interrupting" ELSE "completing"]
  /\ UNCHANGED <<db, mgr, scanning, scrapes, held, forced, http, restarts>>

(* It raises, or the task type has no executor. *)
BusinessRaises(r) ==
  /\ pc[r] = "business"
  /\ pc' = [pc EXCEPT ![r] = IF r[1] \in forced /\ r[1] \notin Exclusive
                             THEN "interrupting" ELSE "failing"]
  /\ UNCHANGED <<db, mgr, scanning, scrapes, held, forced, http, restarts>>

(* It raises CancelledError of its own, or stop() cancels its runner. *)
BusinessCancelled(r) ==
  /\ pc[r] = "business"
  /\ pc' = [pc EXCEPT ![r] = "cancelled"]
  /\ UNCHANGED <<db, mgr, scanning, scrapes, held, forced, http, restarts>>

(* _refresh_task_lease: the row and the leases that still exist get a new  *)
(* lease_until. Nothing checks that the keys of the attempt are among them.*)
Refresh(r) ==
  /\ pc[r] = "business"
  /\ mgr # "stopping"
  /\ Owned(r)
  /\ lapsed' = lapsed \ {r[1]}
  /\ stale' = stale \ (TaskLeases(r) \cup ChainLeases(chain[r[1]]))
  /\ UNCHANGED <<status, attempts, chain, due, lease, mem, http, restarts>>

(* TaskLeaseLostError cancels the business coroutine. *)
LeaseLost(r) ==
  /\ pc[r] = "business"
  /\ mgr # "stopping"
  /\ ~Owned(r)
  /\ pc' = [pc EXCEPT ![r] = IF r[1] \in forced /\ r[1] \notin Exclusive
                             THEN "interrupting" ELSE "failing"]
  /\ UNCHANGED <<db, mgr, scanning, scrapes, held, forced, http, restarts>>

-----------------------------------------------------------------------------
(* Settling an attempt *)

(* complete_system_task, when a row with a next task's idempotency key     *)
(* exists already: the insert violates the unique constraint, the          *)
(* transaction rolls back and the runner dies with IntegrityError.         *)
Collides(t) == \E u \in Successors[t] : status[u] # "absent"

\* Slip: the next task opens a chain of its own.
CompleteWithoutChain(t) ==
  /\ status' = [u \in Task |-> IF u = t THEN "SUCCEEDED"
                               ELSE IF u \in Successors[t] THEN "WAIT" ELSE status[u]]
  /\ due' = due \cup Successors[t]
  /\ lapsed' = lapsed \ {t}
  /\ Delete(TaskLeases(<<t, attempts[t]>>) \cup
            IF Successors[t] = {} THEN LastChainLeases(t) ELSE {})
  /\ UNCHANGED <<attempts, chain>>

\* Slip: the chain's key is released although the chain goes on.
CompleteDroppingChainKey(t) ==
  /\ status' = [u \in Task |-> IF u = t THEN "SUCCEEDED"
                               ELSE IF u \in Successors[t] THEN "WAIT" ELSE status[u]]
  /\ chain' = [u \in Task |-> IF u \in Successors[t] THEN chain[t] ELSE chain[u]]
  /\ due' = due \cup Successors[t]
  /\ lapsed' = lapsed \ {t}
  /\ Delete(TaskLeases(<<t, attempts[t]>>) \cup LastChainLeases(t))
  /\ UNCHANGED attempts

CompleteRow(t) ==
  /\ status' = [u \in Task |-> IF u = t THEN "SUCCEEDED"
                               ELSE IF u \in Successors[t] THEN "WAIT" ELSE status[u]]
  /\ chain' = [u \in Task |-> IF u \in Successors[t] THEN chain[t] ELSE chain[u]]
  /\ due' = due \cup Successors[t]
  /\ lapsed' = lapsed \ {t}
  /\ Delete(TaskLeases(<<t, attempts[t]>>) \cup
            IF Successors[t] = {} THEN LastChainLeases(t) ELSE {})
  /\ UNCHANGED attempts

Complete(r) ==
  /\ pc[r] = "completing"
  /\ IF Owned(r) /\ ~Collides(r[1]) THEN CompleteRow(r[1]) ELSE UNCHANGED db
  /\ Leave(r) /\ Unmark(r, FALSE)
  /\ UNCHANGED <<mgr, scanning, scrapes, http, restarts>>

(* fail_system_task: retry after a delay, or FAILED. *)
FailRow(t) ==
  LET retry == AttemptsLeft(t) IN
  /\ status' = [status EXCEPT ![t] = IF retry THEN "WAIT" ELSE "FAILED"]
  /\ due' = IF retry THEN due \ {t} ELSE due
  /\ lapsed' = lapsed \ {t}
  /\ Delete(TaskLeases(<<t, attempts[t]>>) \cup
            IF retry THEN {} ELSE LastChainLeases(t))
  /\ UNCHANGED <<attempts, chain>>

Fail(r) ==
  /\ pc[r] = "failing"
  /\ IF Owned(r) THEN FailRow(r[1]) ELSE UNCHANGED db
  /\ Leave(r) /\ Unmark(r, FALSE)
  /\ UNCHANGED <<mgr, scanning, scrapes, http, restarts>>

(* requeue_system_task: back to WAIT at once, with the attempt given back  *)
(* when the manager is stopping.                                           *)
RequeueRow(t, restore) ==
  /\ status' = [status EXCEPT ![t] = "WAIT"]
  /\ attempts' = [attempts EXCEPT ![t] = IF restore THEN @ - 1 ELSE @]
  /\ due' = due \cup {t}
  /\ lapsed' = lapsed \ {t}
  /\ Delete(TaskLeases(<<t, attempts[t]>>))
  /\ UNCHANGED chain

\* Slip: the row's status is not checked.
InterruptAnyRow(t, restore) ==
  /\ status' = [status EXCEPT ![t] = "INTERRUPTED"]
  /\ lapsed' = lapsed \ {t}
  /\ Delete(WholeChainLeases(t))
  /\ UNCHANGED <<attempts, chain, due>>

(* interrupt_running_system_tasks: any RUNNING row, whatever its attempt. *)
InterruptRow(t, restore) ==
  IF status[t] = "RUNNING"
  THEN /\ status' = [status EXCEPT ![t] = "INTERRUPTED"]
       /\ attempts' = [attempts EXCEPT ![t] = IF restore /\ @ > 0 THEN @ - 1 ELSE @]
       /\ lapsed' = lapsed \ {t}
       /\ Delete(WholeChainLeases(t))
       /\ UNCHANGED <<chain, due>>
  ELSE UNCHANGED db

Interrupt(r) ==
  /\ pc[r] = "interrupting"
  /\ InterruptRow(r[1], FALSE)
  /\ Leave(r) /\ Unmark(r, TRUE)
  /\ UNCHANGED <<mgr, scanning, scrapes, http, restarts>>

(* The CancelledError handlers of _execute_claimed and run_exclusive. *)
SettleCancelled(r) ==
  LET t == r[1]
      stopping == mgr = "stopping"
  IN
  /\ pc[r] = "cancelled"
  /\ IF t \in forced THEN InterruptRow(t, FALSE)
     ELSE IF t \in Exclusive /\ stopping THEN InterruptRow(t, TRUE)
     ELSE IF ~Owned(r) THEN UNCHANGED db
     ELSE IF t \in Exclusive THEN FailRow(t)
     ELSE RequeueRow(t, stopping)
  /\ Leave(r) /\ Unmark(r, t \in forced)
  /\ UNCHANGED <<mgr, scanning, scrapes, http, restarts>>

\* Slip: the next tasks are committed on their own, before the row.
LoseAfterNextTasks(r) ==
  /\ pc[r] \in {"completing", "failing", "interrupting", "cancelled"}
  /\ IF pc[r] = "completing" /\ Owned(r) /\ ~Collides(r[1])
     THEN /\ status' = [u \in Task |-> IF u \in Successors[r[1]] THEN "WAIT" ELSE status[u]]
          /\ chain' = [u \in Task |-> IF u \in Successors[r[1]] THEN chain[r[1]] ELSE chain[u]]
          /\ UNCHANGED <<attempts, due, lapsed, lease, stale>>
     ELSE UNCHANGED db
  /\ Leave(r) /\ Unmark(r, FALSE)
  /\ UNCHANGED <<mgr, scanning, scrapes, http, restarts>>

(* The settling transaction never commits: the database raises, or a       *)
(* cancellation lands on an unshielded write. The row stays RUNNING with   *)
(* no runner and the mark, if any, stays in the set of an enqueued task.   *)
LoseSettlement(r) ==
  /\ pc[r] \in {"completing", "failing", "interrupting", "cancelled"}
  /\ Leave(r) /\ Unmark(r, FALSE)
  /\ UNCHANGED <<db, mgr, scanning, scrapes, http, restarts>>

-----------------------------------------------------------------------------
(* POST /api/system-tasks/interrupt *)

(* The rows still waiting: read, then written without a status check. *)
ReadWaiting(t) ==
  /\ mgr # "down"
  /\ t \in Interruptible \ reading /\ status[t] = "WAIT"
  /\ reading' = reading \cup {t}
  /\ UNCHANGED <<db, mem, relist, restarts>>

WriteWaiting(t) ==
  /\ t \in reading
  /\ reading' = reading \ {t}
  /\ IF status[t] = "WAIT" \/ "late" \in Env
     THEN /\ status' = [status EXCEPT ![t] = "INTERRUPTED"]
          /\ lapsed' = lapsed \ {t}
          /\ Delete(RowLeases(t) \cup LastChainLeases(t))
          /\ UNCHANGED <<attempts, chain, due>>
     ELSE UNCHANGED db
  /\ UNCHANGED <<mem, relist, restarts>>

(* force_interrupt_system_tasks: mark and cancel the runner, if there is   *)
(* one. A runner that is already writing dies there (LoseSettlement) or    *)
(* has written.                                                            *)
ForceInterrupt(t) ==
  /\ mgr # "down"
  /\ t \in Interruptible \ relist
  /\ status[t] = "RUNNING"
  /\ relist' = relist \cup {t}
  /\ forced' = IF Registered(t) THEN forced \cup {t} ELSE forced
  /\ pc' = [r \in Run |-> IF r[1] = t /\ pc[r] = "business" THEN "cancelled" ELSE pc[r]]
  /\ UNCHANGED <<db, mgr, scanning, scrapes, held, reading, restarts>>

(* Once the cancelled runner is gone the handler lists the row again and   *)
(* interrupts it in the database if it is still RUNNING.                   *)
InterruptLeftover(t) ==
  /\ t \in relist /\ ~Registered(t)
  /\ relist' = relist \ {t}
  /\ InterruptRow(t, FALSE)
  /\ UNCHANGED <<mem, reading, restarts>>

-----------------------------------------------------------------------------
(* Start, stop and crash *)

Start ==
  /\ mgr = "down" \/ (mgr = "stopping" /\ Active(Task) = {})
  /\ mgr' = "starting"
  /\ UNCHANGED <<db, scanning, scrapes, pc, held, forced, http, restarts>>

(* recover_stale_system_tasks(recover_all_running=True), one transaction. *)
RecoverAll ==
  /\ mgr = "starting"
  /\ mgr' = "up"
  /\ status' = [t \in Task |->
       IF status[t] # "RUNNING" THEN status[t]
       ELSE IF t \in Exclusive THEN "INTERRUPTED" ELSE "WAIT"]
  /\ attempts' = [t \in Task |->
       IF status[t] = "RUNNING" /\ attempts[t] > 0 THEN attempts[t] - 1 ELSE attempts[t]]
  /\ lapsed' = {}
  /\ Delete(Key)
  /\ UNCHANGED <<chain, due, scanning, scrapes, pc, held, forced, http, restarts>>

(* stop() cancels the scheduler, perhaps while its claim is committing, in *)
(* which case the row is RUNNING and nobody runs it.                       *)
Stop ==
  /\ mgr \in {"starting", "up"}
  /\ restarts < MaxRestarts
  /\ restarts' = restarts + 1
  /\ mgr' = "stopping"
  /\ scanning' = FALSE /\ scrapes' = 0
  /\ \/ UNCHANGED db
     \/ \E t \in Task :
          /\ Offered(t) /\ AttemptsLeft(t) /\ ChainKeyOpen(t)
          /\ \E f \in Choices(t) : ClaimRow(t, Claimed(t, f))
  /\ UNCHANGED <<pc, held, forced, http>>

(* The process dies: only the database survives. *)
Crash ==
  /\ mgr # "down"
  /\ restarts < MaxRestarts
  /\ restarts' = restarts + 1
  /\ mgr' = "down"
  /\ scanning' = FALSE /\ scrapes' = 0
  /\ pc' = [r \in Run |-> "none"]
  /\ held' = [r \in Run |-> {}]
  /\ forced' = {} /\ reading' = {} /\ relist' = {}
  /\ UNCHANGED db

-----------------------------------------------------------------------------
(* Time *)

(* A row's lease_until passes, and with it those of the keys of the same   *)
(* attempt, which every claim and refresh sets to the same instant. A      *)
(* runner renews every 100 s, so this needs a dead runner or a stall.      *)
LapseRow(t) ==
  /\ status[t] = "RUNNING" /\ t \notin lapsed
  /\ "stall" \in Env \/ ~Registered(t)
  /\ lapsed' = lapsed \cup {t}
  /\ stale' = stale \cup TaskLeases(<<t, attempts[t]>>)
  /\ UNCHANGED <<status, attempts, chain, due, lease, mem, http, restarts>>

(* Any running member renews its chain's leases. *)
LapseChain(k) ==
  /\ k \notin stale
  /\ \E c \in Task :
       /\ lease[k] = ChainHolder(c)
       /\ "stall" \in Env \/ \A t \in Task : chain[t] = c => ~Registered(t)
  /\ stale' = stale \cup {k}
  /\ UNCHANGED <<status, attempts, chain, due, lapsed, lease, mem, http, restarts>>

-----------------------------------------------------------------------------
Settle(r) ==
  \/ Complete(r) \/ Fail(r) \/ Interrupt(r) \/ SettleCancelled(r) \/ LoseSettlement(r)

Next ==
  \/ \E t \in Task :
       \/ Enqueue(t) \/ BecomeDue(t)
       \/ Claim(t) \/ ClaimExhausted(t) \/ RecoverExpired(t)
       \/ TryStart(t)
       \/ ReadWaiting(t) \/ WriteWaiting(t)
       \/ ForceInterrupt(t) \/ InterruptLeftover(t)
       \/ LapseRow(t)
  \/ \E r \in Run :
       \/ BusinessReturns(r) \/ BusinessRaises(r) \/ BusinessCancelled(r)
       \/ Refresh(r) \/ LeaseLost(r)
       \/ Settle(r)
  \/ \E k \in Key : LapseChain(k)
  \/ BeginScan \/ EndScan
  \/ Start \/ RecoverAll \/ Stop \/ Crash

Spec == Init /\ [][Next]_vars

(* The process is restarted when it stops; its loop, its coroutines and    *)
(* the clock proceed; business code returns, raises or is cancelled; a     *)
(* transaction that is started ends. A scan tries every ready row, so a    *)
(* row that is claimable in scan after scan is claimed (strong fairness);  *)
(* recovery runs between scans, hence strong fairness again.               *)
Fairness ==
  /\ WF_vars(Start) /\ WF_vars(RecoverAll)
  /\ WF_vars(BeginScan) /\ WF_vars(EndScan)
  /\ \A t \in Task :
       /\ WF_vars(BecomeDue(t)) /\ WF_vars(LapseRow(t))
       /\ SF_vars(Claim(t)) /\ SF_vars(ClaimExhausted(t))
       /\ SF_vars(RecoverExpired(t))
       /\ WF_vars(WriteWaiting(t)) /\ WF_vars(InterruptLeftover(t))
  /\ \A r \in Run :
       /\ WF_vars(BusinessReturns(r) \/ BusinessRaises(r)
                    \/ BusinessCancelled(r) \/ LeaseLost(r))
       /\ WF_vars(Settle(r))
  /\ \A k \in Key : WF_vars(LapseChain(k))

FairSpec == Spec /\ Fairness

-----------------------------------------------------------------------------
(* Safety *)

(* A lease held by an attempt belongs to a row that is RUNNING that very   *)
(* attempt: no settlement, retry, interruption or recovery leaves a key    *)
(* behind, whatever the timing.                                            *)
LeaseOwned ==
  \A k \in Key, r \in Run : lease[k] = TaskHolder(r) => Owned(r)

(* At most one coroutine runs a task, and none runs one that waits to be   *)
(* claimed: expiry recovery never re-queues a task this process still runs.*)
OneRunner ==
  \A r \in Run : pc[r] # "none" =>
    /\ status[r[1]] # "WAIT"
    /\ status[r[1]] = "RUNNING" => attempts[r[1]] = r[2]
    /\ \A a \in 1..AttemptLimit : pc[<<r[1], a>>] # "none" => a = r[2]

(* Two attempts in progress never use one key, as a resource of the task   *)
(* or as the inheritable key of its chain.                                 *)
Uses(r) == held[r] \cup ({Inheritable[r[1]]} \ {NoKey})
Exclusion ==
  \A r, s \in Run : Executing(r) /\ Executing(s) /\ r # s => Uses(r) \cap Uses(s) = {}

(* A chain has at most one task waiting or running: what makes it safe to  *)
(* delete the leases of the whole chain when one of its tasks is           *)
(* interrupted.                                                            *)
LinearChains ==
  \A t, u \in Task :
    {status[t], status[u]} \subseteq {"WAIT", "RUNNING"} /\ chain[t] = chain[u] => t = u

(* The scheduler's capacity, and the scrape capacity it shares with        *)
(* run_exclusive through the admission lock.                               *)
Capacity ==
  /\ Cardinality(Active(Task \ Exclusive)) <= MaxConcurrent
  /\ RunningScrapes <= MaxScrape

(* The next task joins its parent's chain exactly when the parent has      *)
(* succeeded: it is neither lost nor created by an attempt that lost its   *)
(* row, also when another caller enqueues the same idempotency key.        *)
Handover ==
  \A t \in Task : \A u \in Successors[t] :
    status[t] = "SUCCEEDED" <=> status[u] # "absent" /\ chain[u] = chain[t]

(* A finished row never changes again: no late answer, refresh, recovery   *)
(* or interruption revives it or rewrites its outcome.                     *)
Finality ==
  [][\A t \in Task : status[t] \in Terminal => status'[t] = status[t]]_vars

(* A chain keeps its inheritable key from task to task: only the lease's   *)
(* expiry, the end of the chain or a restart takes it away.                *)
ChainKeyKept ==
  [][\A k \in Key, c \in Task :
       /\ lease[k] = ChainHolder(c) /\ k \notin stale
       /\ \E t \in Task : chain'[t] = c /\ status'[t] \in {"WAIT", "RUNNING"}
       /\ mgr # "starting"
       => lease'[k] = ChainHolder(c)]_vars

-----------------------------------------------------------------------------
(* Liveness *)

(* Every task that waits is eventually finished, through failures,         *)
(* interruptions, lost settlements and restarts.                           *)
EveryTaskFinishes ==
  \A t \in Task \ Exclusive : status[t] = "WAIT" ~> status[t] \in Terminal

(* No key stays taken for ever, not even one whose holder was lost.        *)
KeysReturn == \A k \in Key : []<>(~Taken(k))
=============================================================================
