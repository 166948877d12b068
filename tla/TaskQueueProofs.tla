--------------------------- MODULE TaskQueueProofs ---------------------------
(* Theorems about TaskQueue, for every set of tasks, keys and attempts:    *)
(* types, leases and runners; mutual exclusion, up to the refinement of    *)
(* ResourceMutex; and what becomes of the rows, the chains and the slots.  *)
EXTENDS TaskQueueMutex, FiniteSetTheorems, TLAPS

(* Recovery decrements the attempts of a RUNNING row, so that TypeOK is    *)
(* inductive only together with this.                                      *)
StartedRows == \A t \in Task : status[t] = "RUNNING" => attempts[t] >= 1

TypeInv == TypeOK /\ StartedRows

-----------------------------------------------------------------------------
(* Facts about the helpers *)

(* The numeric constants.                                                  *)
LEMMA Bounds ==
  /\ AttemptLimit \in Nat /\ AttemptLimit >= 1
  /\ MaxRestarts \in Nat
  /\ MaxAttempts \in [Task -> 1..AttemptLimit]
BY ConstantsAssumption

(* Deleting leases keeps the lease table well formed.                      *)
LEMMA DeleteType ==
  ASSUME TypeOK, NEW ks, Delete(ks)
  PROVE  lease' \in [Key -> Holder] /\ stale' \subseteq Key
BY DEF TypeOK, Delete, Holder

(* The next attempt of a task with attempts left is an attempt.            *)
LEMMA NextAttempt ==
  ASSUME TypeOK, NEW t \in Task, AttemptsLeft(t)
  PROVE  /\ attempts[t] + 1 \in 1..AttemptLimit
         /\ <<t, attempts[t] + 1>> \in Run
BY ConstantsAssumption DEF TypeOK, AttemptsLeft, Run

(* So does granting keys to an attempt.                                    *)
LEMMA GrantType ==
  ASSUME TypeOK, NEW r \in Run, NEW ks \in SUBSET Key, Grant(r, ks)
  PROVE  lease' \in [Key -> Holder] /\ stale' \subseteq Key
<1>1. r[1] \in Task
  BY DEF Run
<1>2. ChainHolder(chain[r[1]]) \in Holder /\ TaskHolder(r) \in Holder
  BY <1>1 DEF TypeOK, Holder
<1> QED
  BY <1>2 DEF TypeOK, Grant

(* A scan counts the scrapes of a finite set of tasks.                     *)
LEMMA CountType == RunningScrapes \in Nat
<1>1. IsFiniteSet({t \in Scrape : Registered(t)})
  BY ConstantsAssumption, FS_Subset
<1> QED
  BY <1>1, FS_CardinalityType DEF RunningScrapes

(* The keys chosen for a task are keys.                                    *)
LEMMA ClaimedType ==
  ASSUME NEW t \in Task, NEW f \in Choices(t)
  PROVE  Claimed(t, f) \in SUBSET Key
BY DEF Choices, Claimed

(* Launching or leaving an attempt keeps the registry well formed.         *)
LEMMA RegistryType ==
  ASSUME TypeOK, NEW r \in Run,
         Leave(r) \/ \E ks \in SUBSET Key : Launch(r, ks)
  PROVE  pc' \in [Run -> PC] /\ held' \in [Run -> SUBSET Key]
BY DEF TypeOK, Leave, Launch, PC

(* Dropping a mark keeps the marks a set of tasks.                         *)
LEMMA UnmarkType ==
  ASSUME TypeOK, NEW r \in Run, NEW acted \in BOOLEAN, Unmark(r, acted)
  PROVE  forced' \subseteq Task
BY DEF TypeOK, Unmark

(* An attempt is a task with a number.                                     *)
LEMMA Pairs ==
  /\ \A r \in Run : r = <<r[1], r[2]>> /\ r[1] \in Task /\ r[2] \in 1..AttemptLimit
  /\ \A t \in Task, n \in 1..AttemptLimit : <<t, n>> \in Run
BY DEF Run

(* No two holders are the same.                                            *)
LEMMA Holders ==
  /\ \A r, s \in Run : TaskHolder(r) = TaskHolder(s) => r = s
  /\ \A c, d \in Task : ChainHolder(c) = ChainHolder(d) => c = d
  /\ \A r \in Run, c \in Task : TaskHolder(r) # ChainHolder(c)
  /\ \A r \in Run : TaskHolder(r) # Free
  /\ \A c \in Task : ChainHolder(c) # Free
BY DEF TaskHolder, ChainHolder, Free

-----------------------------------------------------------------------------
(* Type correctness *)

LEMMA TypeInit == Init => TypeInv
<1> SUFFICES ASSUME Init PROVE TypeInv
  OBVIOUS
<1>1. scanning \in BOOLEAN
  BY DEF Init
<1> QED
  BY <1>1, Bounds DEF Init, TypeInv, TypeOK, StartedRows, Status, PC, Holder, Run

LEMMA TypeStep == TypeInv /\ [Next]_vars => TypeInv'
<1> SUFFICES ASSUME TypeInv, [Next]_vars PROVE TypeInv'
  OBVIOUS
<1> USE DEF TypeInv
<1>1. ASSUME NEW t \in Task, Enqueue(t) PROVE TypeInv'
  BY <1>1 DEF Enqueue, TypeOK, StartedRows, mem, http, Status
<1>2. ASSUME NEW t \in Task, BecomeDue(t) PROVE TypeInv'
  BY <1>2 DEF BecomeDue, TypeOK, StartedRows, mem, http
<1>3. ASSUME NEW t \in Task, Claim(t) PROVE TypeInv'
  <2> DEFINE r == <<t, attempts[t] + 1>>
  <2>1. PICK f \in Choices(t) : ClaimRow(t, Claimed(t, f)) /\ Launch(r, Claimed(t, f))
    BY <1>3 DEF Claim
  <2>2. r \in Run /\ attempts[t] + 1 \in 1..AttemptLimit
    BY <1>3, NextAttempt DEF Claim
  <2>3. Claimed(t, f) \in SUBSET Key
    BY ClaimedType
  <2>4. lease' \in [Key -> Holder] /\ stale' \subseteq Key
    BY <2>1, <2>2, <2>3, GrantType DEF ClaimRow
  <2>5. pc' \in [Run -> PC] /\ held' \in [Run -> SUBSET Key]
    BY <2>1, <2>2, <2>3, RegistryType
  <2> QED
    BY <1>3, <2>1, <2>2, <2>4, <2>5
    DEF Claim, ClaimRow, TypeOK, StartedRows, http, Status
<1>4. ASSUME NEW t \in Task, ClaimExhausted(t) PROVE TypeInv'
  BY <1>4 DEF ClaimExhausted, TypeOK, StartedRows, mem, http, Status
<1>5. ASSUME NEW t \in Task, RecoverExpired(t) PROVE TypeInv'
  <2>1. lease' \in [Key -> Holder] /\ stale' \subseteq Key
    BY <1>5, DeleteType DEF RecoverExpired
  <2>2. attempts[t] >= 1
    BY <1>5 DEF RecoverExpired, StartedRows
  <2> QED
    BY <1>5, <2>1, <2>2, Bounds DEF RecoverExpired, TypeOK, StartedRows, mem, http, Status
<1>6. ASSUME NEW t \in Task, TryStart(t) PROVE TypeInv'
  <2> DEFINE r == <<t, 1>>
  <2>1. PICK f \in Choices(t) : Grant(r, Claimed(t, f)) /\ Launch(r, Claimed(t, f))
    BY <1>6 DEF TryStart, StartRow
  <2>2. r \in Run /\ 1 \in 1..AttemptLimit
    BY ConstantsAssumption DEF Run
  <2>3. Claimed(t, f) \in SUBSET Key
    BY ClaimedType
  <2>4. lease' \in [Key -> Holder] /\ stale' \subseteq Key
    BY <2>1, <2>2, <2>3, GrantType
  <2>5. pc' \in [Run -> PC] /\ held' \in [Run -> SUBSET Key]
    BY <2>1, <2>2, <2>3, RegistryType
  <2> QED
    BY <1>6, <2>2, <2>4, <2>5 DEF TryStart, StartRow, TypeOK, StartedRows, http, Status
<1>7. ASSUME NEW t \in Task, ReadWaiting(t) PROVE TypeInv'
  BY <1>7 DEF ReadWaiting, TypeOK, StartedRows, db, mem
<1>8. ASSUME NEW t \in Task, WriteWaiting(t) PROVE TypeInv'
  <2>1. CASE UNCHANGED db
    BY <1>8, <2>1 DEF WriteWaiting, TypeOK, StartedRows, db, mem
  <2>2. CASE ~UNCHANGED db
    <3>1. lease' \in [Key -> Holder] /\ stale' \subseteq Key
      BY <1>8, <2>2, DeleteType DEF WriteWaiting
    <3> QED
      BY <1>8, <2>2, <3>1 DEF WriteWaiting, TypeOK, StartedRows, mem, Status
  <2> QED
    BY <2>1, <2>2
<1>9. ASSUME NEW t \in Task, ForceInterrupt(t) PROVE TypeInv'
  BY <1>9 DEF ForceInterrupt, TypeOK, StartedRows, db, PC
<1>10. ASSUME NEW t \in Task, InterruptRow(t, FALSE) \/ InterruptRow(t, TRUE)
       PROVE  /\ status' \in [Task -> Status] /\ attempts' \in [Task -> 0..AttemptLimit]
              /\ chain' \in [Task -> Task] /\ due' \subseteq Task /\ lapsed' \subseteq Task
              /\ lease' \in [Key -> Holder] /\ stale' \subseteq Key
              /\ StartedRows'
  <2>1. CASE UNCHANGED db
    BY <2>1 DEF TypeOK, StartedRows, db
  <2>2. CASE ~UNCHANGED db
    <3>1. lease' \in [Key -> Holder] /\ stale' \subseteq Key
      BY <1>10, <2>2, DeleteType DEF InterruptRow
    <3> QED
      BY <1>10, <2>2, <3>1, Bounds DEF InterruptRow, TypeOK, StartedRows, Status
  <2> QED
    BY <2>1, <2>2
<1>11. ASSUME NEW t \in Task, InterruptLeftover(t) PROVE TypeInv'
  BY <1>10, <1>11 DEF InterruptLeftover, TypeOK, mem
<1>12. ASSUME NEW t \in Task, LapseRow(t) PROVE TypeInv'
  BY <1>12 DEF LapseRow, TaskLeases, TypeOK, StartedRows, mem, http
<1>13. ASSUME NEW r \in Run,
              BusinessReturns(r) \/ BusinessRaises(r) \/ BusinessCancelled(r) \/ LeaseLost(r)
       PROVE TypeInv'
  BY <1>13 DEF BusinessReturns, BusinessRaises, BusinessCancelled, LeaseLost,
               TypeOK, StartedRows, db, http, PC
<1>14. ASSUME NEW r \in Run, Refresh(r) PROVE TypeInv'
  BY <1>14 DEF Refresh, TypeOK, StartedRows, mem, http
<1>15. ASSUME NEW r \in Run, Complete(r) PROVE TypeInv'
  <2>1. pc' \in [Run -> PC] /\ held' \in [Run -> SUBSET Key] /\ forced' \subseteq Task
    BY <1>15, RegistryType, UnmarkType DEF Complete
  <2>2. CASE UNCHANGED db
    BY <1>15, <2>1, <2>2 DEF Complete, TypeOK, StartedRows, db, http
  <2>3. CASE ~UNCHANGED db
    <3>1. CompleteRow(r[1]) /\ r[1] \in Task
      BY <1>15, <2>3 DEF Complete, Run
    <3>2. lease' \in [Key -> Holder] /\ stale' \subseteq Key
      BY <3>1, DeleteType DEF CompleteRow
    <3> QED
      BY <1>15, <2>1, <3>1, <3>2, ConstantsAssumption
      DEF Complete, CompleteRow, TypeOK, StartedRows, http, Status
  <2> QED
    BY <2>2, <2>3
<1>16. ASSUME NEW t \in Task, FailRow(t)
       PROVE  /\ status' \in [Task -> Status] /\ attempts' \in [Task -> 0..AttemptLimit]
              /\ chain' \in [Task -> Task] /\ due' \subseteq Task /\ lapsed' \subseteq Task
              /\ lease' \in [Key -> Holder] /\ stale' \subseteq Key
              /\ StartedRows'
  <2>1. lease' \in [Key -> Holder] /\ stale' \subseteq Key
    BY <1>16, DeleteType DEF FailRow
  <2> QED
    BY <1>16, <2>1 DEF FailRow, TypeOK, StartedRows, Status
<1>17. ASSUME NEW r \in Run, Fail(r) PROVE TypeInv'
  <2>1. pc' \in [Run -> PC] /\ held' \in [Run -> SUBSET Key] /\ forced' \subseteq Task
    BY <1>17, RegistryType, UnmarkType DEF Fail
  <2>2. CASE UNCHANGED db
    BY <1>17, <2>1, <2>2 DEF Fail, TypeOK, StartedRows, db, http
  <2>3. CASE FailRow(r[1])
    BY <1>16, <1>17, <2>1, <2>3 DEF Fail, TypeOK, http, Run
  <2> QED
    BY <1>17, <2>2, <2>3 DEF Fail
<1>18. ASSUME NEW r \in Run, Interrupt(r) PROVE TypeInv'
  <2>1. pc' \in [Run -> PC] /\ held' \in [Run -> SUBSET Key] /\ forced' \subseteq Task
    BY <1>18, RegistryType, UnmarkType DEF Interrupt
  <2>2. r[1] \in Task
    BY DEF Run
  <2> QED
    BY <1>10, <1>18, <2>1, <2>2 DEF Interrupt, TypeOK, http
<1>19. ASSUME NEW t \in Task, attempts[t] >= 1,
              RequeueRow(t, TRUE) \/ RequeueRow(t, FALSE)
       PROVE  /\ status' \in [Task -> Status] /\ attempts' \in [Task -> 0..AttemptLimit]
              /\ chain' \in [Task -> Task] /\ due' \subseteq Task /\ lapsed' \subseteq Task
              /\ lease' \in [Key -> Holder] /\ stale' \subseteq Key
              /\ StartedRows'
  <2>1. lease' \in [Key -> Holder] /\ stale' \subseteq Key
    BY <1>19, DeleteType DEF RequeueRow
  <2> QED
    BY <1>19, <2>1, Bounds DEF RequeueRow, TypeOK, StartedRows, Status
<1>20. ASSUME NEW r \in Run, SettleCancelled(r) PROVE TypeInv'
  <2>1. pc' \in [Run -> PC] /\ held' \in [Run -> SUBSET Key] /\ forced' \subseteq Task
    <3>1. pc' \in [Run -> PC] /\ held' \in [Run -> SUBSET Key]
      BY <1>20, RegistryType DEF SettleCancelled
    <3>2. forced' \subseteq Task
      BY <1>20 DEF SettleCancelled, Unmark, TypeOK
    <3> QED
      BY <3>1, <3>2
  <2>2. r[1] \in Task
    BY DEF Run
  <2>3. CASE UNCHANGED db
    BY <1>20, <2>1, <2>3 DEF SettleCancelled, TypeOK, StartedRows, db, http
  <2>4. CASE InterruptRow(r[1], FALSE) \/ InterruptRow(r[1], TRUE)
    BY <1>10, <1>20, <2>1, <2>2, <2>4 DEF SettleCancelled, TypeOK, http
  <2>5. CASE FailRow(r[1])
    BY <1>16, <1>20, <2>1, <2>2, <2>5 DEF SettleCancelled, TypeOK, http
  <2>6. CASE Owned(r) /\ (RequeueRow(r[1], TRUE) \/ RequeueRow(r[1], FALSE))
    <3>1. attempts[r[1]] >= 1
      BY <2>2, <2>6 DEF Owned, StartedRows
    <3> QED
      BY <1>19, <1>20, <2>1, <2>2, <2>6, <3>1 DEF SettleCancelled, TypeOK, http
  <2> QED
    BY <1>20, <2>3, <2>4, <2>5, <2>6 DEF SettleCancelled
<1>21. ASSUME NEW r \in Run, LoseSettlement(r) PROVE TypeInv'
  <2>1. pc' \in [Run -> PC] /\ held' \in [Run -> SUBSET Key] /\ forced' \subseteq Task
    BY <1>21, RegistryType, UnmarkType DEF LoseSettlement
  <2> QED
    BY <1>21, <2>1 DEF LoseSettlement, TypeOK, StartedRows, db, http
<1>22. ASSUME NEW k \in Key, LapseChain(k) PROVE TypeInv'
  BY <1>22 DEF LapseChain, TypeOK, StartedRows, mem, http
<1>23. CASE BeginScan \/ EndScan
  <2>1. scrapes' \in Nat
    BY <1>23, CountType DEF BeginScan, EndScan
  <2> QED
    BY <1>23, <2>1 DEF BeginScan, EndScan, TypeOK, StartedRows, db, http
<1>24. CASE Start
  BY <1>24 DEF Start, TypeOK, StartedRows, db, http
<1>25. CASE RecoverAll
  <2>1. lease' \in [Key -> Holder] /\ stale' \subseteq Key
    BY <1>25, DeleteType DEF RecoverAll
  <2> QED
    BY <1>25, <2>1, Bounds DEF RecoverAll, TypeOK, StartedRows, http, Status
<1>26. CASE Stop
  <2>0. scanning' \in BOOLEAN
    BY <1>26 DEF Stop
  <2>1. CASE UNCHANGED db
    BY <1>26, <2>0, <2>1, Bounds DEF Stop, TypeOK, StartedRows, db, http
  <2>2. ASSUME NEW t \in Task, AttemptsLeft(t), NEW f \in Choices(t),
               ClaimRow(t, Claimed(t, f))
        PROVE TypeInv'
    <3>1. /\ attempts[t] + 1 \in 1..AttemptLimit /\ <<t, attempts[t] + 1>> \in Run
          /\ Claimed(t, f) \in SUBSET Key
      BY <2>2, NextAttempt, ClaimedType
    <3>2. lease' \in [Key -> Holder] /\ stale' \subseteq Key
      BY <2>2, <3>1, GrantType DEF ClaimRow
    <3> QED
      BY <1>26, <2>0, <2>2, <3>1, <3>2, Bounds
      DEF Stop, ClaimRow, TypeOK, StartedRows, http, Status
  <2> QED
    BY <1>26, <2>1, <2>2 DEF Stop
<1>27. CASE Crash
  <2>1. scanning' \in BOOLEAN
    BY <1>27 DEF Crash
  <2> QED
    BY <1>27, <2>1, Bounds DEF Crash, TypeOK, StartedRows, db, PC
<1>28. CASE UNCHANGED vars
  BY <1>28 DEF vars, db, mem, http, TypeOK, StartedRows
<1> QED
  BY <1>1, <1>2, <1>3, <1>4, <1>5, <1>6, <1>7, <1>8, <1>9, <1>11, <1>12, <1>13, <1>14,
     <1>15, <1>17, <1>18, <1>20, <1>21, <1>22, <1>23, <1>24, <1>25, <1>26, <1>27, <1>28
  DEF Next, Settle

(* Every variable keeps its type; in particular attempts stay within the   *)
(* limits the callers set.                                                 *)
THEOREM TypeCorrect == Spec => []TypeOK
<1>1. Spec => []TypeInv
  BY TypeInit, TypeStep, PTL DEF Spec
<1> QED
  BY <1>1, PTL DEF TypeInv

-----------------------------------------------------------------------------
(* No lease is left behind *)

(* A step that touches neither the leases nor a RUNNING row.               *)
LEMMA LeasesKept ==
  ASSUME LeaseOwned, lease' = lease,
         \A t \in Task : status[t] = "RUNNING" =>
            status'[t] = "RUNNING" /\ attempts'[t] = attempts[t]
  PROVE  LeaseOwned'
BY Pairs DEF LeaseOwned, Owned

(* A step that ends the attempt in progress of one row, if there is one,   *)
(* and deletes at least its leases.                                        *)
LEMMA LeasesDropped ==
  ASSUME TypeOK, LeaseOwned, NEW t \in Task, NEW ks, Delete(ks),
         status[t] = "RUNNING" => TaskLeases(<<t, attempts[t]>>) \subseteq ks,
         \A u \in Task \ {t} : status[u] = "RUNNING" =>
            status'[u] = "RUNNING" /\ attempts'[u] = attempts[u]
  PROVE  LeaseOwned'
<1> SUFFICES ASSUME NEW k \in Key, NEW r \in Run, lease'[k] = TaskHolder(r)
             PROVE  status'[r[1]] = "RUNNING" /\ attempts'[r[1]] = r[2]
  BY DEF LeaseOwned, Owned
<1>1. lease[k] = TaskHolder(r) /\ k \notin ks
  BY Holders DEF Delete, TypeOK
<1>2. status[r[1]] = "RUNNING" /\ attempts[r[1]] = r[2]
  BY <1>1 DEF LeaseOwned, Owned
<1>3. r[1] # t
  BY <1>1, <1>2, Pairs DEF TaskLeases
<1> QED
  BY <1>2, <1>3, Pairs

(* A step that starts an attempt of a row that was not RUNNING.            *)
LEMMA LeasesGranted ==
  ASSUME TypeOK, LeaseOwned, NEW r \in Run, NEW ks, Grant(r, ks),
         status[r[1]] # "RUNNING",
         status' = [status EXCEPT ![r[1]] = "RUNNING"],
         attempts' = [attempts EXCEPT ![r[1]] = r[2]]
  PROVE  LeaseOwned'
<1> SUFFICES ASSUME NEW k \in Key, NEW s \in Run, lease'[k] = TaskHolder(s)
             PROVE  status'[s[1]] = "RUNNING" /\ attempts'[s[1]] = s[2]
  BY DEF LeaseOwned, Owned
<1>1. chain[r[1]] \in Task
  BY Pairs DEF TypeOK
<1>2. s = r \/ lease[k] = TaskHolder(s)
  BY <1>1, Holders DEF Grant, TypeOK
<1>3. CASE s = r
  BY <1>3, Pairs DEF TypeOK
<1>4. CASE lease[k] = TaskHolder(s)
  BY <1>4, Pairs DEF LeaseOwned, Owned, TypeOK
<1> QED
  BY <1>2, <1>3, <1>4

LEMMA LeaseOwnedStep == TypeInv /\ LeaseOwned /\ [Next]_vars => LeaseOwned'
<1> SUFFICES ASSUME TypeInv, LeaseOwned, [Next]_vars PROVE LeaseOwned'
  OBVIOUS
<1> USE DEF TypeInv
<1>1. ASSUME NEW t \in Task, Enqueue(t) \/ ClaimExhausted(t) PROVE LeaseOwned'
  BY <1>1, LeasesKept DEF Enqueue, ClaimExhausted, Offered, TypeOK
<1>2. ASSUME NEW t \in Task, AttemptsLeft(t), status[t] = "WAIT", NEW ks, ClaimRow(t, ks)
      PROVE LeaseOwned'
  <2> DEFINE r == <<t, attempts[t] + 1>>
  <2>1. r \in Run /\ r[1] = t /\ r[2] = attempts[t] + 1
    BY <1>2, NextAttempt
  <2>2. Grant(r, ks) /\ attempts' = [attempts EXCEPT ![t] = attempts[t] + 1]
    BY <1>2 DEF ClaimRow
  <2> QED
    BY <1>2, <2>1, <2>2, LeasesGranted DEF ClaimRow
<1>3. ASSUME NEW t \in Task, Claim(t) PROVE LeaseOwned'
  BY <1>2, <1>3 DEF Claim, Offered
<1>4. ASSUME NEW t \in Task, RecoverExpired(t) PROVE LeaseOwned'
  BY <1>4, LeasesDropped DEF RecoverExpired, TypeOK
<1>5. ASSUME NEW t \in Task, TryStart(t) PROVE LeaseOwned'
  <2> DEFINE r == <<t, 1>>
  <2>1. r \in Run /\ r[1] = t /\ r[2] = 1
    BY Bounds, Pairs
  <2>2. PICK f \in Choices(t) : Grant(r, Claimed(t, f))
    BY <1>5 DEF TryStart, StartRow
  <2> QED
    BY <1>5, <2>1, <2>2, LeasesGranted DEF TryStart, StartRow
<1>6. ASSUME NEW t \in Task, WriteWaiting(t) PROVE LeaseOwned'
  <2>1. CASE UNCHANGED db
    BY <2>1, LeasesKept DEF db
  <2>2. CASE ~UNCHANGED db
    <3>1. status[t] = "RUNNING" =>
            TaskLeases(<<t, attempts[t]>>) \subseteq RowLeases(t)
      BY DEF TaskLeases, RowLeases, StartedRows, TypeOK
    <3> QED
      BY <1>6, <2>2, <3>1, LeasesDropped DEF WriteWaiting, TypeOK
  <2> QED
    BY <2>1, <2>2
<1>7. ASSUME NEW t \in Task, InterruptRow(t, FALSE) \/ InterruptRow(t, TRUE)
      PROVE LeaseOwned'
  <2>1. CASE UNCHANGED db
    BY <2>1, LeasesKept DEF db
  <2>2. CASE ~UNCHANGED db
    <3>1. status[t] = "RUNNING" => TaskLeases(<<t, attempts[t]>>) \subseteq WholeChainLeases(t)
      BY Pairs DEF TaskLeases, WholeChainLeases, StartedRows, TypeOK
    <3> QED
      BY <1>7, <2>2, <3>1, LeasesDropped DEF InterruptRow, TypeOK
  <2> QED
    BY <2>1, <2>2
<1>8. ASSUME NEW t \in Task, CompleteRow(t), ~Collides(t) PROVE LeaseOwned'
  <2>1. \A u \in Task \ {t} : status[u] = "RUNNING" =>
            status'[u] = "RUNNING" /\ attempts'[u] = attempts[u]
    BY <1>8 DEF CompleteRow, Collides
  <2> QED
    BY <1>8, <2>1, LeasesDropped DEF CompleteRow
<1>9. ASSUME NEW t \in Task,
             FailRow(t) \/ RequeueRow(t, TRUE) \/ RequeueRow(t, FALSE)
      PROVE LeaseOwned'
  BY <1>9, LeasesDropped DEF FailRow, RequeueRow, TypeOK
<1>10. ASSUME NEW r \in Run, Settle(r) PROVE LeaseOwned'
  <2>1. CASE UNCHANGED db
    BY <2>1, LeasesKept DEF db
  <2>2. CASE ~UNCHANGED db
    BY <1>7, <1>8, <1>9, <1>10, <2>2, Pairs
    DEF Settle, Complete, Fail, Interrupt, SettleCancelled, LoseSettlement
  <2> QED
    BY <2>1, <2>2
<1>11. CASE RecoverAll
  BY <1>11, Holders DEF RecoverAll, Delete, LeaseOwned
<1>12. CASE Stop
  <2>1. CASE UNCHANGED db
    BY <2>1, LeasesKept DEF db
  <2> QED
    BY <1>2, <1>12, <2>1 DEF Stop, Offered
<1>13. CASE UNCHANGED <<status, attempts, lease>>
  BY <1>13, LeasesKept
<1> QED
  BY <1>1, <1>3, <1>4, <1>5, <1>6, <1>7, <1>10, <1>11, <1>12, <1>13
  DEF Next, vars, db, BecomeDue, ReadWaiting, ForceInterrupt, InterruptLeftover, LapseRow,
      BusinessReturns, BusinessRaises, BusinessCancelled, Refresh, LeaseLost, LapseChain,
      BeginScan, EndScan, Start, Crash

(* Whatever happens to a task or to the process, and at whatever moment,   *)
(* a lease taken for an attempt is gone as soon as its row leaves that     *)
(* attempt.                                                                *)
THEOREM NoLeaseLeftBehind == Spec => []LeaseOwned
<1>1. Init => LeaseOwned
  BY Holders DEF Init, LeaseOwned
<1>2. Spec => [](TypeInv /\ LeaseOwned)
  BY <1>1, TypeInit, TypeStep, LeaseOwnedStep, PTL DEF Spec
<1> QED
  BY <1>2, PTL

-----------------------------------------------------------------------------
(* One runner per task *)

(* OneRunner is not inductive: an absent row has no runner either, and     *)
(* recovery may put every RUNNING row back to WAIT only because a manager  *)
(* that starts has no runner but those of early run_exclusive calls.       *)
Alive(r) == pc[r] # "none"

RunnersOfRows ==
  \A r \in Run : Alive(r) =>
    /\ status[r[1]] \notin {"absent", "WAIT"}
    /\ status[r[1]] = "RUNNING" => attempts[r[1]] = r[2]
    /\ \A s \in Run : Alive(s) /\ s[1] = r[1] => s = r

ManagerStates ==
  /\ scanning => mgr = "up"
  /\ mgr = "down" => \A r \in Run : ~Alive(r)
  /\ mgr = "starting" => \A r \in Run : Alive(r) => r[1] \in Exclusive

RunInv == RunnersOfRows /\ ManagerStates

(* Attempt r of its task is the only one alive, or none of them is.        *)
LEMMA Unregistered ==
  ASSUME NEW t \in Task
  PROVE  ~Registered(t) <=> \A r \in Run : r[1] = t => ~Alive(r)
<1>1. ASSUME NEW r \in Run, r[1] = t, Alive(r) PROVE Registered(t)
  BY <1>1, Pairs DEF Registered, Alive
<1>2. ASSUME NEW n \in 1..AttemptLimit, pc[<<t, n>>] # "none"
      PROVE  \E r \in Run : r[1] = t /\ Alive(r)
  <2>1. <<t, n>> \in Run /\ <<t, n>>[1] = t
    BY Pairs
  <2> QED
    BY <1>2, <2>1 DEF Alive
<1> QED
  BY <1>1, <1>2 DEF Registered

(* A step that starts no runner, after which a row that was not waiting to *)
(* be created or claimed is WAIT only if none of its runners is left.      *)
LEMMA RunnersKept ==
  ASSUME RunnersOfRows,
         \A r \in Run : Alive(r)' => Alive(r),
         \A r \in Run : Alive(r)' =>
            \/ status'[r[1]] = status[r[1]] /\ attempts'[r[1]] = attempts[r[1]]
            \/ status'[r[1]] \in Terminal
  PROVE  RunnersOfRows'
BY DEF RunnersOfRows, Terminal

(* A step that starts the first runner of a row that had none.             *)
LEMMA RunnerLaunched ==
  ASSUME TypeOK, RunnersOfRows, NEW r \in Run, NEW ks, Launch(r, ks),
         status[r[1]] \in {"absent", "WAIT"},
         status' = [status EXCEPT ![r[1]] = "RUNNING"],
         attempts' = [attempts EXCEPT ![r[1]] = r[2]]
  PROVE  RunnersOfRows' /\ \A s \in Run : Alive(s)' => s = r \/ Alive(s)
<1>1. \A s \in Run : Alive(s)' => s = r \/ Alive(s)
  BY DEF Launch, Alive, TypeOK
<1>2. \A s \in Run : s[1] = r[1] => ~Alive(s)
  BY DEF RunnersOfRows
<1>3. \A s \in Run : s # r /\ Alive(s)' =>
        Alive(s) /\ status'[s[1]] = status[s[1]] /\ attempts'[s[1]] = attempts[s[1]]
  BY <1>1, <1>2, Pairs DEF TypeOK
<1>4. status'[r[1]] = "RUNNING" /\ attempts'[r[1]] = r[2]
  BY Pairs DEF TypeOK
<1> QED
  BY <1>1, <1>2, <1>3, <1>4 DEF RunnersOfRows

(* After Leave(r) every runner left is another one, of another task.       *)
LEMMA OthersStay ==
  ASSUME TypeOK, RunnersOfRows, NEW r \in Run, Alive(r), Leave(r)
  PROVE  \A s \in Run : Alive(s)' => Alive(s) /\ s[1] # r[1]
BY DEF TypeOK, RunnersOfRows, Leave, Alive

(* What a settling transaction does to the rows of other tasks.            *)
LEMMA SettledRows ==
  ASSUME TypeOK, NEW r \in Run, Settle(r)
  PROVE  \A u \in Task \ {r[1]} :
           /\ attempts'[u] = attempts[u]
           /\ status'[u] = status[u] \/ status[u] = "absent"
<1>1. CASE UNCHANGED db
  BY <1>1 DEF db
<1>2. CASE CompleteRow(r[1]) /\ ~Collides(r[1])
  BY <1>2 DEF CompleteRow, Collides, TypeOK
<1>3. CASE \/ FailRow(r[1]) \/ RequeueRow(r[1], TRUE) \/ RequeueRow(r[1], FALSE)
           \/ InterruptRow(r[1], TRUE) \/ InterruptRow(r[1], FALSE)
  BY <1>3 DEF FailRow, RequeueRow, InterruptRow, TypeOK, db
<1> QED
  BY <1>1, <1>2, <1>3
  DEF Settle, Complete, Fail, Interrupt, SettleCancelled, LoseSettlement

LEMMA RunStep == TypeInv /\ RunInv /\ [Next]_vars => RunInv'
<1> SUFFICES ASSUME TypeInv, RunInv, [Next]_vars PROVE RunInv'
  OBVIOUS
<1> USE DEF TypeInv, RunInv
<1>1. ASSUME NEW t \in Task,
             \/ Enqueue(t) \/ BecomeDue(t) \/ ClaimExhausted(t) \/ ReadWaiting(t)
             \/ WriteWaiting(t) \/ ForceInterrupt(t) \/ LapseRow(t)
      PROVE RunInv'
  <2>1. \A r \in Run : Alive(r)' <=> Alive(r)
    BY <1>1 DEF Enqueue, BecomeDue, ClaimExhausted, ReadWaiting, WriteWaiting,
                ForceInterrupt, LapseRow, mem, Alive, TypeOK
  <2>2. \A r \in Run : Alive(r) =>
          \/ status'[r[1]] = status[r[1]] /\ attempts'[r[1]] = attempts[r[1]]
          \/ status'[r[1]] \in Terminal
    BY <1>1, Pairs DEF Enqueue, BecomeDue, ClaimExhausted, Offered, ReadWaiting, WriteWaiting,
                ForceInterrupt, LapseRow, db, Terminal, TypeOK, RunnersOfRows
  <2>3. mgr' = mgr /\ scanning' = scanning
    BY <1>1 DEF Enqueue, BecomeDue, ClaimExhausted, ReadWaiting, WriteWaiting,
                ForceInterrupt, LapseRow, mem
  <2> QED
    BY <2>1, <2>2, <2>3, RunnersKept DEF ManagerStates
<1>2. ASSUME NEW t \in Task, Claim(t) PROVE RunInv'
  <2> DEFINE r == <<t, attempts[t] + 1>>
  <2>1. PICK f \in Choices(t) : ClaimRow(t, Claimed(t, f)) /\ Launch(r, Claimed(t, f))
    BY <1>2 DEF Claim
  <2>2. r \in Run /\ r[1] = t /\ r[2] = attempts[t] + 1
    BY <1>2, NextAttempt DEF Claim
  <2>3. RunnersOfRows'
    BY <1>2, <2>1, <2>2, RunnerLaunched DEF Claim, Offered, ClaimRow
  <2> QED
    BY <1>2, <2>3 DEF Claim, Offered, ManagerStates
<1>3. ASSUME NEW t \in Task, RecoverExpired(t) PROVE RunInv'
  <2>1. \A r \in Run : Alive(r) => r[1] # t
    BY <1>3, Unregistered DEF RecoverExpired, OwnerGone
  <2> QED
    BY <1>3, <2>1, RunnersKept, Pairs
    DEF RecoverExpired, mem, Alive, ManagerStates, TypeOK
<1>4. ASSUME NEW t \in Task, TryStart(t) PROVE RunInv'
  <2> DEFINE r == <<t, 1>>
  <2>1. r \in Run /\ r[1] = t /\ r[2] = 1
    BY Bounds, Pairs
  <2>2. PICK f \in Choices(t) : Launch(r, Claimed(t, f))
    BY <1>4 DEF TryStart, StartRow
  <2>3. RunnersOfRows' /\ \A s \in Run : Alive(s)' => s = r \/ Alive(s)
    BY <1>4, <2>1, <2>2, RunnerLaunched DEF TryStart, StartRow
  <2> QED
    BY <1>4, <2>1, <2>3 DEF TryStart, StartRow, ManagerStates
<1>5. ASSUME NEW t \in Task, InterruptLeftover(t) PROVE RunInv'
  <2>1. \A r \in Run : Alive(r) => r[1] # t
    BY <1>5, Unregistered DEF InterruptLeftover
  <2>2. \A u \in Task \ {t} : status'[u] = status[u] /\ attempts'[u] = attempts[u]
    BY <1>5 DEF InterruptLeftover, InterruptRow, TypeOK, db
  <2> QED
    BY <1>5, <2>1, <2>2, RunnersKept, Pairs DEF InterruptLeftover, mem, Alive, ManagerStates
<1>6. ASSUME NEW r \in Run,
             \/ BusinessReturns(r) \/ BusinessRaises(r) \/ BusinessCancelled(r)
             \/ LeaseLost(r) \/ Refresh(r)
      PROVE RunInv'
  <2>1. \A s \in Run : Alive(s)' <=> Alive(s)
    BY <1>6 DEF BusinessReturns, BusinessRaises, BusinessCancelled, LeaseLost, Refresh,
                mem, Alive, TypeOK
  <2>2. UNCHANGED <<status, attempts, mgr, scanning>>
    BY <1>6 DEF BusinessReturns, BusinessRaises, BusinessCancelled, LeaseLost, Refresh,
                mem, db
  <2> QED
    BY <2>1, <2>2, RunnersKept DEF ManagerStates
<1>7. ASSUME NEW r \in Run, Settle(r) PROVE RunInv'
  <2>1. Alive(r) /\ Leave(r) /\ mgr' = mgr /\ scanning' = scanning
    BY <1>7 DEF Settle, Complete, Fail, Interrupt, SettleCancelled, LoseSettlement, Alive
  <2>2. \A s \in Run : Alive(s)' => Alive(s) /\ s[1] # r[1]
    BY <2>1, OthersStay
  <2>3. \A s \in Run : Alive(s)' =>
          status'[s[1]] = status[s[1]] /\ attempts'[s[1]] = attempts[s[1]]
    BY <1>7, <2>2, SettledRows, Pairs DEF RunnersOfRows
  <2> QED
    BY <2>1, <2>2, <2>3, RunnersKept DEF ManagerStates
<1>8. ASSUME NEW k \in Key, LapseChain(k) PROVE RunInv'
  BY <1>8, RunnersKept DEF LapseChain, mem, Alive, ManagerStates
<1>9. CASE BeginScan \/ EndScan
  BY <1>9, RunnersKept DEF BeginScan, EndScan, db, Alive, ManagerStates
<1>10. CASE Start
  <2>1. \A r \in Run : ~Alive(r)
    BY <1>10, Pairs DEF Start, ManagerStates, Active, Alive
  <2> QED
    BY <1>10, <2>1 DEF Start, ManagerStates, RunnersOfRows, Alive
<1>11. CASE RecoverAll
  <2>1. \A r \in Run : Alive(r) =>
          \/ status'[r[1]] = status[r[1]] /\ attempts'[r[1]] = attempts[r[1]]
          \/ status'[r[1]] \in Terminal
    BY <1>11, Pairs DEF RecoverAll, ManagerStates, Terminal
  <2> QED
    BY <1>11, <2>1, RunnersKept DEF RecoverAll, Alive, ManagerStates
<1>12. CASE Stop
  <2>1. ASSUME NEW t \in Task, Offered(t), NEW ks, ClaimRow(t, ks) PROVE RunnersOfRows'
    <3>1. \A r \in Run : Alive(r) => r[1] # t
      BY <2>1 DEF Offered, RunnersOfRows
    <3> QED
      BY <1>12, <2>1, <3>1, RunnersKept, Pairs DEF Stop, ClaimRow, Alive, TypeOK
  <2>2. ASSUME UNCHANGED db PROVE RunnersOfRows'
    BY <1>12, <2>2, RunnersKept DEF Stop, db, Alive
  <2>3. RunnersOfRows'
    BY <1>12, <2>1, <2>2 DEF Stop
  <2> QED
    BY <1>12, <2>3 DEF Stop, ManagerStates
<1>13. CASE Crash
  BY <1>13 DEF Crash, RunnersOfRows, ManagerStates, Alive
<1>14. CASE UNCHANGED vars
  BY <1>14, RunnersKept DEF vars, db, mem, Alive, ManagerStates
<1> QED
  BY <1>1, <1>2, <1>3, <1>4, <1>5, <1>6, <1>7, <1>8, <1>9, <1>10, <1>11, <1>12, <1>13, <1>14
  DEF Next

(* No task ever has two runners, and none has a runner while its row waits *)
(* to be claimed, also when leases expire under a runner that stalls.      *)
THEOREM OneRunnerPerTask == Spec => []OneRunner
<1>1. Init => RunInv
  BY DEF Init, RunInv, RunnersOfRows, ManagerStates, Alive
<1>2. Spec => [](TypeInv /\ RunInv)
  BY <1>1, TypeInit, TypeStep, RunStep, PTL DEF Spec
<1>3. TypeInv /\ RunInv => OneRunner
  BY Pairs DEF RunInv, RunnersOfRows, OneRunner, Alive
<1> QED
  BY <1>2, <1>3, PTL

-----------------------------------------------------------------------------
(* Chains *)

(* A chain is named after the row that opened it, and a row that does not  *)
(* exist yet is in no other row's chain.                                   *)
ChainNames ==
  \A t \in Task :
    /\ status[t] = "absent" => chain[t] = t
    /\ status[t] # "absent" => status[chain[t]] # "absent"

ChainInv == LinearChains /\ ChainNames

(* A step in which no row becomes active.                                  *)
LEMMA ChainsKept ==
  ASSUME TypeOK, ChainInv, chain' = chain,
         \A t \in Task : status'[t] \in {"WAIT", "RUNNING"} => status[t] \in {"WAIT", "RUNNING"},
         \A t \in Task : status'[t] = "absent" <=> status[t] = "absent"
  PROVE  ChainInv'
BY DEF TypeOK, ChainInv, LinearChains, ChainNames

(* The same for a step that may only take one row out of the active ones.  *)
LEMMA RowEnds ==
  ASSUME TypeOK, ChainInv, chain' = chain, NEW t \in Task, status[t] # "absent",
         NEW s \in Terminal, status' = [status EXCEPT ![t] = s]
  PROVE  ChainInv'
BY ChainsKept DEF TypeOK, Terminal

(* A row is created with a chain of its own.                               *)
LEMMA ChainOpened ==
  ASSUME TypeOK, ChainInv, chain' = chain, NEW t \in Task, status[t] = "absent",
         NEW s \in {"WAIT", "RUNNING"}, status' = [status EXCEPT ![t] = s]
  PROVE  ChainInv'
BY DEF TypeOK, ChainInv, LinearChains, ChainNames

(* The next task of a task that succeeds takes its place in the chain.     *)
LEMMA ChainHandedOver ==
  ASSUME TypeOK, ChainInv, NEW t \in Task, status[t] = "RUNNING", ~Collides(t), CompleteRow(t)
  PROVE  ChainInv'
<1>1. \A u, v \in Successors[t] : u = v
  BY CallersAssumption
<1>2. \A u \in Successors[t] : u \in Task /\ status[u] = "absent" /\ u # t
  BY ConstantsAssumption DEF Collides
<1>3. \A u \in Task \ {t} : status[u] \in {"WAIT", "RUNNING"} => chain[u] # chain[t]
  BY DEF ChainInv, LinearChains
<1>4. \A u \in Task :
        /\ u \in Successors[t] => status'[u] = "WAIT" /\ chain'[u] = chain[t]
        /\ u = t => status'[u] = "SUCCEEDED" /\ chain'[u] = chain[u]
        /\ u \notin Successors[t] \cup {t} => status'[u] = status[u] /\ chain'[u] = chain[u]
  BY <1>2 DEF CompleteRow, TypeOK
<1>5. LinearChains'
  BY <1>1, <1>2, <1>3, <1>4 DEF LinearChains, ChainInv
<1>6. \A u \in Task : status[u] # "absent" => status'[u] # "absent"
  BY <1>4
<1>7. ChainNames'
  BY <1>2, <1>4, <1>6 DEF ChainNames, ChainInv, TypeOK
<1> QED
  BY <1>5, <1>7 DEF ChainInv

(* Reading a row for interruption proves that it exists.                   *)
ReadRows == \A t \in reading : status[t] # "absent"

LEMMA ChainStep == TypeInv /\ ChainInv /\ ReadRows /\ [Next]_vars => ChainInv' /\ ReadRows'
<1> SUFFICES ASSUME TypeInv, ChainInv, ReadRows, [Next]_vars PROVE ChainInv' /\ ReadRows'
  OBVIOUS
<1> USE DEF TypeInv
<1>1. ASSUME NEW t \in Task, Enqueue(t) \/ TryStart(t) PROVE ChainInv' /\ ReadRows'
  BY <1>1, ChainOpened DEF Enqueue, TryStart, StartRow, http, ReadRows, TypeOK
<1>2. ASSUME NEW t \in Task, Offered(t), NEW ks, ClaimRow(t, ks)
      PROVE ChainInv' /\ \A u \in Task : status'[u] = "absent" <=> status[u] = "absent"
  BY <1>2, ChainsKept DEF Offered, ClaimRow, TypeOK
<1>3. ASSUME NEW t \in Task, Claim(t) PROVE ChainInv' /\ ReadRows'
  BY <1>2, <1>3 DEF Claim, http, ReadRows, TypeOK
<1>4. ASSUME NEW t \in Task, ClaimExhausted(t) \/ WriteWaiting(t)
      PROVE ChainInv' /\ ReadRows'
  <2>1. status[t] # "absent" /\ reading' \subseteq reading
    BY <1>4 DEF ClaimExhausted, Offered, WriteWaiting, http, ReadRows
  <2>2. CASE UNCHANGED db
    BY <2>1, <2>2, ChainsKept DEF db, ReadRows
  <2>3. CASE ~UNCHANGED db
    <3>1. PICK s \in Terminal : status' = [status EXCEPT ![t] = s] /\ chain' = chain
      BY <1>4, <2>3 DEF ClaimExhausted, WriteWaiting, Terminal
    <3> QED
      BY <2>1, <3>1, RowEnds DEF ReadRows, TypeOK, Terminal
  <2> QED
    BY <2>2, <2>3
<1>5. ASSUME NEW t \in Task, RecoverExpired(t) PROVE ChainInv' /\ ReadRows'
  BY <1>5, ChainsKept DEF RecoverExpired, http, ReadRows, TypeOK
<1>6. ASSUME NEW t \in Task, ReadWaiting(t) PROVE ChainInv' /\ ReadRows'
  BY <1>6, ChainsKept DEF ReadWaiting, ReadRows, db, TypeOK
<1>7. ASSUME NEW t \in Task,
             \/ InterruptRow(t, TRUE) \/ InterruptRow(t, FALSE)
             \/ status[t] = "RUNNING" /\ FailRow(t)
             \/ status[t] = "RUNNING" /\ (RequeueRow(t, TRUE) \/ RequeueRow(t, FALSE))
      PROVE ChainInv' /\ \A u \in Task : status'[u] = "absent" <=> status[u] = "absent"
  BY <1>7, ChainsKept DEF InterruptRow, FailRow, RequeueRow, TypeOK, db
<1>8. ASSUME NEW t \in Task, InterruptLeftover(t) PROVE ChainInv' /\ ReadRows'
  BY <1>7, <1>8 DEF InterruptLeftover, ReadRows, TypeOK
<1>9. ASSUME NEW r \in Run, Settle(r) PROVE ChainInv' /\ ReadRows'
  <2>1. reading' = reading
    BY <1>9 DEF Settle, Complete, Fail, Interrupt, SettleCancelled, LoseSettlement, http
  <2>2. CASE UNCHANGED db
    BY <2>1, <2>2, ChainsKept DEF db, ReadRows
  <2>3. CASE Owned(r) /\ ~Collides(r[1]) /\ CompleteRow(r[1])
    BY <2>1, <2>3, ChainHandedOver, Pairs DEF Owned, CompleteRow, ReadRows, TypeOK
  <2>4. CASE \/ InterruptRow(r[1], TRUE) \/ InterruptRow(r[1], FALSE)
             \/ Owned(r) /\ FailRow(r[1])
             \/ Owned(r) /\ (RequeueRow(r[1], TRUE) \/ RequeueRow(r[1], FALSE))
    BY <1>7, <2>1, <2>4, Pairs DEF Owned, ReadRows, TypeOK
  <2> QED
    BY <1>9, <2>2, <2>3, <2>4
    DEF Settle, Complete, Fail, Interrupt, SettleCancelled, LoseSettlement
<1>10. CASE RecoverAll
  BY <1>10, ChainsKept DEF RecoverAll, http, ReadRows, TypeOK
<1>11. CASE Stop
  <2>1. CASE UNCHANGED db
    BY <1>11, <2>1, ChainsKept DEF Stop, http, ReadRows, db
  <2> QED
    BY <1>2, <1>11, <2>1 DEF Stop, http, ReadRows, TypeOK
<1>12. CASE UNCHANGED <<status, chain>> /\ reading' \subseteq reading
  BY <1>12, ChainsKept DEF ReadRows
<1> QED
  BY <1>1, <1>3, <1>4, <1>5, <1>6, <1>8, <1>9, <1>10, <1>11, <1>12
  DEF Next, vars, db, http, BecomeDue, ForceInterrupt, LapseRow,
      BusinessReturns, BusinessRaises, BusinessCancelled, Refresh, LeaseLost, LapseChain,
      BeginScan, EndScan, Start, Crash

(* A chain never forks: no completion, retry, recovery or concurrent       *)
(* enqueue of the same idempotency key leaves two of its tasks active.     *)
THEOREM ChainsAreLinear == Spec => []LinearChains
<1>1. Init => ChainInv /\ ReadRows
  BY DEF Init, ChainInv, LinearChains, ChainNames, ReadRows
<1>2. Spec => [](TypeInv /\ ChainInv /\ ReadRows)
  BY <1>1, TypeInit, TypeStep, ChainStep, PTL DEF Spec
<1> QED
  BY <1>2, PTL DEF ChainInv

-----------------------------------------------------------------------------
(* Leases of running attempts *)

(* Without the awkward timings, a runner's row is RUNNING and its keys and *)
(* its chain's key stay leased to it until it has settled.                 *)
Mine(s, k) == lease[k] \in {TaskHolder(s), ChainHolder(chain[s[1]])} /\ k \notin stale

Secured(s) ==
  /\ status[s[1]] = "RUNNING"
  /\ \A k \in held[s] : lease[k] = TaskHolder(s) /\ k \notin stale
  /\ Inheritable[s[1]] # NoKey =>
       /\ lease[Inheritable[s[1]]] = ChainHolder(chain[s[1]])
       /\ Inheritable[s[1]] \notin stale

KeysHeld == \A s \in Run : Alive(s) => Secured(s)

QuietStart == mgr = "starting" => \A s \in Run : ~Alive(s)

KeyInv == KeysHeld /\ QuietStart

(* A step that leaves alone the rows and the keys of the runners that stay.*)
LEMMA KeysKept ==
  ASSUME TypeOK, KeysHeld,
         \A s \in Run : Alive(s)' =>
            /\ Alive(s) /\ held'[s] = held[s]
            /\ status'[s[1]] = "RUNNING" /\ chain'[s[1]] = chain[s[1]]
            /\ \A k \in Key : Mine(s, k) => lease'[k] = lease[k] /\ k \notin stale'
  PROVE  KeysHeld'
<1> SUFFICES ASSUME NEW s \in Run, Alive(s)' PROVE Secured(s)'
  BY DEF KeysHeld
<1>1. Alive(s) /\ Secured(s)
  BY DEF KeysHeld
<1>2. \A k \in held'[s] : lease'[k] = TaskHolder(s) /\ k \notin stale'
  BY <1>1 DEF Secured, Mine, TypeOK
<1>3. Inheritable[s[1]] # NoKey => Inheritable[s[1]] \in Key
  BY ConstantsAssumption, Pairs
<1> QED
  BY <1>1, <1>2, <1>3 DEF Secured, Mine

(* Releasing the leases of an active row, and even those of its whole      *)
(* chain, takes nothing from the runners of other rows.                    *)
LEMMA KeysSpared ==
  ASSUME TypeOK, ChainInv, KeysHeld, NEW t \in Task, status[t] \in {"WAIT", "RUNNING"},
         NEW ks \in SUBSET WholeChainLeases(t), Delete(ks),
         \A s \in Run : Alive(s)' => Alive(s) /\ s[1] # t /\ held'[s] = held[s],
         \A u \in Task \ {t} : status[u] = "RUNNING" =>
            status'[u] = "RUNNING" /\ chain'[u] = chain[u]
  PROVE  KeysHeld'
<1> SUFFICES ASSUME NEW s \in Run, Alive(s)', NEW k \in Key, Mine(s, k)
             PROVE  k \notin ks
  <2>1. \A s \in Run : Alive(s)' => status[s[1]] = "RUNNING" /\ s[1] \in Task \ {t}
    BY Pairs DEF KeysHeld, Secured
  <2> QED
    BY <2>1, KeysKept DEF Delete, Mine
<1>1. status[s[1]] = "RUNNING" /\ s[1] \in Task \ {t}
  BY Pairs DEF KeysHeld, Secured
<1>2. chain[s[1]] # chain[t] /\ chain[s[1]] \in Task /\ chain[t] \in Task
  BY <1>1 DEF ChainInv, LinearChains, TypeOK
<1> QED
  BY <1>2, Holders, Pairs DEF WholeChainLeases, Mine

(* The leases of an attempt, and those of a chain, are among them.         *)
LEMMA SmallerReleases ==
  ASSUME NEW t \in Task
  PROVE  /\ LastChainLeases(t) \subseteq WholeChainLeases(t)
         /\ RowLeases(t) \subseteq WholeChainLeases(t)
         /\ \A n \in 1..AttemptLimit : TaskLeases(<<t, n>>) \subseteq RowLeases(t)
<1>1. LastChainLeases(t) \subseteq WholeChainLeases(t)
  BY DEF LastChainLeases, ChainLeases, WholeChainLeases
<1>2. \A n \in 1..AttemptLimit : TaskLeases(<<t, n>>) \subseteq RowLeases(t)
  BY DEF TaskLeases, RowLeases
<1>3. ASSUME NEW n \in 1..AttemptLimit, NEW k \in Key, lease[k] = TaskHolder(<<t, n>>)
      PROVE k \in WholeChainLeases(t)
  <2>1. <<t, n>> \in Run /\ <<t, n>>[1] = t
    BY Pairs
  <2> QED
    BY <1>3, <2>1 DEF WholeChainLeases
<1> QED
  BY <1>1, <1>2, <1>3 DEF RowLeases

(* A claim takes no key of another runner and secures those of its own.    *)
LEMMA KeysGranted ==
  ASSUME TypeOK, KeysHeld, NEW r \in Run, NEW f \in Choices(r[1]), ChainKeyOpen(r[1]),
         Grant(r, Claimed(r[1], f)), Launch(r, Claimed(r[1], f)),
         \A s \in Run : Alive(s) => s[1] # r[1],
         status' = [status EXCEPT ![r[1]] = "RUNNING"], chain' = chain
  PROVE  KeysHeld'
<1> DEFINE t == r[1]
           ks == Claimed(t, f)
<1>1. t \in Task /\ chain[t] \in Task
  BY Pairs DEF TypeOK
<1>2. \A k \in ks : k \in Key /\ ~Taken(k) /\ k # Inheritable[t]
  BY DEF Choices, Claimed
<1>3. Secured(r)'
  <2>1. held'[r] = ks
    BY DEF Launch, TypeOK
  <2>2. \A k \in ks : lease'[k] = TaskHolder(r) /\ k \notin stale'
    BY <1>2 DEF Grant
  <2>3. Inheritable[t] # NoKey =>
          lease'[Inheritable[t]] = ChainHolder(chain[t]) /\ Inheritable[t] \notin stale'
    BY <1>1, <1>2, ConstantsAssumption DEF Grant
  <2> QED
    BY <1>1, <2>1, <2>2, <2>3 DEF Secured, TypeOK
<1>4. ASSUME NEW s \in Run, s # r, Alive(s)' PROVE Secured(s)'
  <2>1. Alive(s) /\ held'[s] = held[s] /\ Secured(s)
    BY <1>4 DEF Launch, Alive, TypeOK, KeysHeld
  <2>2. s[1] \in Task /\ s[1] # t /\ chain[s[1]] \in Task
    BY <2>1, Pairs DEF TypeOK
  <2>3. ASSUME NEW k \in Key, Mine(s, k) PROVE lease'[k] = lease[k] /\ k \notin stale'
    <3>1. Taken(k)
      BY <2>2, <2>3, Holders DEF Mine, Taken
    <3>2. k \notin ks
      BY <1>2, <3>1
    <3>3. k = Inheritable[t] => lease[k] = ChainHolder(chain[t])
      BY <1>1, <3>1, ConstantsAssumption DEF ChainKeyOpen
    <3> QED
      BY <2>3, <3>2, <3>3 DEF Grant, Mine
  <2>4. \A k \in held'[s] : lease'[k] = TaskHolder(s) /\ k \notin stale'
    BY <2>1, <2>3 DEF Secured, Mine, TypeOK
  <2>5. Inheritable[s[1]] # NoKey => Inheritable[s[1]] \in Key
    BY <2>2, ConstantsAssumption
  <2> QED
    BY <1>1, <2>1, <2>2, <2>3, <2>4, <2>5 DEF Secured, Mine, TypeOK
<1> QED
  BY <1>3, <1>4 DEF KeysHeld

QueueInv == TypeInv /\ RunInv /\ ChainInv /\ ReadRows /\ KeyInv

LEMMA KeyStep == Env = {} /\ QueueInv /\ [Next]_vars => KeyInv'
<1> SUFFICES ASSUME Env = {}, QueueInv, [Next]_vars PROVE KeyInv'
  OBVIOUS
<1> USE DEF QueueInv, TypeInv, RunInv, KeyInv
<1>1. ASSUME NEW t \in Task,
             \/ Enqueue(t) \/ BecomeDue(t) \/ ClaimExhausted(t) \/ ReadWaiting(t)
             \/ ForceInterrupt(t)
      PROVE KeyInv'
  <2>1. \A s \in Run : Alive(s)' => Alive(s) /\ held'[s] = held[s]
    BY <1>1 DEF Enqueue, BecomeDue, ClaimExhausted, ReadWaiting, ForceInterrupt, mem, Alive, TypeOK
  <2>2. \A s \in Run : Alive(s) => status'[s[1]] = "RUNNING"
    BY <1>1, Pairs DEF KeysHeld, Secured, Enqueue, BecomeDue, ClaimExhausted, Offered,
                       ReadWaiting, ForceInterrupt, db, TypeOK
  <2>3. UNCHANGED <<chain, lease, stale, mgr>>
    BY <1>1 DEF Enqueue, BecomeDue, ClaimExhausted, ReadWaiting, ForceInterrupt, mem, db
  <2> QED
    BY <2>1, <2>2, <2>3, KeysKept DEF QuietStart, Mine
<1>2. ASSUME NEW t \in Task, Claim(t) PROVE KeyInv'
  <2> DEFINE r == <<t, attempts[t] + 1>>
  <2>1. PICK f \in Choices(t) : ClaimRow(t, Claimed(t, f)) /\ Launch(r, Claimed(t, f))
    BY <1>2 DEF Claim
  <2>2. r \in Run /\ r[1] = t
    BY <1>2, NextAttempt DEF Claim
  <2>3. \A s \in Run : Alive(s) => s[1] # t
    BY <1>2 DEF Claim, Offered, KeysHeld, Secured
  <2>4. KeysHeld'
    BY <1>2, <2>1, <2>2, <2>3, KeysGranted DEF Claim, ClaimRow
  <2> QED
    BY <1>2, <2>4 DEF Claim, Offered, ManagerStates, QuietStart
<1>3. ASSUME NEW t \in Task, TryStart(t) PROVE KeyInv'
  <2> DEFINE r == <<t, 1>>
  <2>1. r \in Run /\ r[1] = t
    BY Bounds, Pairs
  <2>2. PICK f \in Choices(t) : Grant(r, Claimed(t, f)) /\ Launch(r, Claimed(t, f))
    BY <1>3 DEF TryStart, StartRow
  <2>3. \A s \in Run : Alive(s) => s[1] # t
    BY <1>3 DEF TryStart, StartRow, KeysHeld, Secured
  <2>4. ChainKeyOpen(t)
    BY <1>3, CallersAssumption DEF TryStart, StartRow, ChainKeyOpen
  <2>5. KeysHeld'
    BY <1>3, <2>1, <2>2, <2>3, <2>4, KeysGranted DEF TryStart, StartRow
  <2> QED
    BY <1>3, <2>5 DEF TryStart, StartRow, QuietStart
<1>4. ASSUME NEW t \in Task, RecoverExpired(t) PROVE KeyInv'
  <2>1. \A s \in Run : Alive(s)' => Alive(s) /\ s[1] # t /\ held'[s] = held[s]
    BY <1>4, Unregistered DEF RecoverExpired, OwnerGone, mem, Alive
  <2>2. PICK ks \in SUBSET WholeChainLeases(t) : Delete(ks)
    BY <1>4, SmallerReleases DEF RecoverExpired, TypeOK, StartedRows
  <2>3. KeysHeld'
    BY <1>4, <2>1, <2>2, KeysSpared DEF RecoverExpired, TypeOK
  <2> QED
    BY <1>4, <2>3 DEF RecoverExpired, mem, QuietStart, Alive
<1>5. ASSUME NEW t \in Task, WriteWaiting(t) PROVE KeyInv'
  <2>1. UNCHANGED <<pc, held, mgr>>
    BY <1>5 DEF WriteWaiting, mem
  <2>2. CASE UNCHANGED db
    BY <2>1, <2>2, KeysKept DEF db, KeysHeld, Secured, Mine, Alive, QuietStart
  <2>3. CASE ~UNCHANGED db
    <3>1. status[t] = "WAIT"
      BY <1>5, <2>3 DEF WriteWaiting
    <3>2. PICK ks \in SUBSET WholeChainLeases(t) : Delete(ks)
      BY <1>5, <2>3, SmallerReleases DEF WriteWaiting
    <3>3. \A s \in Run : Alive(s) => s[1] # t
      BY <3>1 DEF KeysHeld, Secured
    <3>4. KeysHeld'
      BY <1>5, <2>1, <2>3, <3>1, <3>2, <3>3, KeysSpared DEF WriteWaiting, TypeOK, Alive
    <3> QED
      BY <2>1, <3>4 DEF QuietStart, Alive
  <2> QED
    BY <2>2, <2>3
<1>6. ASSUME NEW t \in Task, InterruptLeftover(t) PROVE KeyInv'
  <2>1. UNCHANGED <<pc, held, mgr>>
    BY <1>6 DEF InterruptLeftover, mem
  <2>2. CASE UNCHANGED db
    BY <2>1, <2>2, KeysKept DEF db, KeysHeld, Secured, Mine, Alive, QuietStart
  <2>3. CASE ~UNCHANGED db
    <3>1. \A s \in Run : Alive(s) => s[1] # t
      BY <1>6, Unregistered DEF InterruptLeftover
    <3>2. KeysHeld'
      BY <1>6, <2>1, <2>3, <3>1, KeysSpared
      DEF InterruptLeftover, InterruptRow, TypeOK, Alive
    <3> QED
      BY <2>1, <3>2 DEF QuietStart, Alive
  <2> QED
    BY <2>2, <2>3
<1>7. ASSUME NEW t \in Task, LapseRow(t) PROVE KeyInv'
  <2>1. \A s \in Run : Alive(s) => s[1] # t
    BY <1>7, Unregistered DEF LapseRow
  <2>2. <<t, attempts[t]>> \in Run /\ <<t, attempts[t]>>[1] = t
    BY <1>7, Pairs DEF LapseRow, StartedRows, TypeOK
  <2>3. \A s \in Run, k \in Key : Alive(s) /\ Mine(s, k) => k \notin stale'
    BY <1>7, <2>1, <2>2, Holders, Pairs DEF LapseRow, TaskLeases, Mine, TypeOK
  <2> QED
    BY <1>7, <2>3, KeysKept DEF LapseRow, mem, KeysHeld, Secured, Alive, QuietStart
<1>8. ASSUME NEW k \in Key, LapseChain(k) PROVE KeyInv'
  <2>1. PICK c \in Task : lease[k] = ChainHolder(c) /\
                          \A t \in Task : chain[t] = c => ~Registered(t)
    BY <1>8 DEF LapseChain
  <2>2. \A s \in Run : Alive(s) => ~Mine(s, k)
    BY <2>1, Unregistered, Holders, Pairs DEF Mine, TypeOK
  <2> QED
    BY <1>8, <2>2, KeysKept DEF LapseChain, mem, KeysHeld, Secured, Mine, Alive, QuietStart
<1>9. ASSUME NEW r \in Run,
             \/ BusinessReturns(r) \/ BusinessRaises(r) \/ BusinessCancelled(r)
             \/ LeaseLost(r) \/ Refresh(r)
      PROVE KeyInv'
  <2>1. \A s \in Run : Alive(s)' <=> Alive(s)
    BY <1>9 DEF BusinessReturns, BusinessRaises, BusinessCancelled, LeaseLost, Refresh,
                mem, Alive, TypeOK
  <2>2. UNCHANGED <<status, chain, lease, held, mgr>> /\ stale' \subseteq stale
    BY <1>9 DEF BusinessReturns, BusinessRaises, BusinessCancelled, LeaseLost, Refresh,
                mem, db
  <2> QED
    BY <2>1, <2>2, KeysKept DEF KeysHeld, Secured, Mine, QuietStart
<1>10. ASSUME NEW r \in Run, Settle(r) PROVE KeyInv'
  <2>1. Alive(r) /\ Leave(r) /\ mgr' = mgr
    BY <1>10 DEF Settle, Complete, Fail, Interrupt, SettleCancelled, LoseSettlement, Alive
  <2>2. \A s \in Run : Alive(s)' => Alive(s) /\ s[1] # r[1] /\ held'[s] = held[s]
    BY <2>1, OthersStay DEF Leave, TypeOK, Alive
  <2>3. r[1] \in Task /\ status[r[1]] = "RUNNING"
    BY <2>1, Pairs DEF KeysHeld, Secured
  <2>4. CASE UNCHANGED db
    BY <2>1, <2>2, <2>4, KeysKept DEF db, KeysHeld, Secured, Mine, QuietStart
  <2>5. CASE ~UNCHANGED db
    <3>1. \/ CompleteRow(r[1]) /\ ~Collides(r[1])
          \/ FailRow(r[1]) \/ RequeueRow(r[1], TRUE) \/ RequeueRow(r[1], FALSE)
          \/ InterruptRow(r[1], TRUE) \/ InterruptRow(r[1], FALSE)
      BY <1>10, <2>5
      DEF Settle, Complete, Fail, Interrupt, SettleCancelled, LoseSettlement
    <3>2. attempts[r[1]] \in 1..AttemptLimit
      BY <2>3 DEF TypeOK, StartedRows
    <3>3. PICK ks \in SUBSET WholeChainLeases(r[1]) : Delete(ks)
      BY <2>3, <2>5, <3>1, <3>2, SmallerReleases
      DEF CompleteRow, FailRow, RequeueRow, InterruptRow
    <3>4. \A u \in Task \ {r[1]} : status[u] = "RUNNING" =>
            status'[u] = "RUNNING" /\ chain'[u] = chain[u]
      BY <2>3, <3>1 DEF CompleteRow, Collides, FailRow, RequeueRow, InterruptRow, TypeOK, db
    <3>5. KeysHeld'
      BY <2>2, <2>3, <3>3, <3>4, KeysSpared
    <3> QED
      BY <2>1, <2>2, <3>5 DEF QuietStart
  <2> QED
    BY <2>4, <2>5
<1>11. CASE BeginScan \/ EndScan
  BY <1>11, KeysKept DEF BeginScan, EndScan, db, KeysHeld, Secured, Mine, Alive, QuietStart
<1>12. CASE Start \/ RecoverAll \/ Crash
  <2>1. \A s \in Run : ~Alive(s)'
    <3>1. CASE Start
      BY <3>1, Pairs DEF Start, ManagerStates, Active, Alive
    <3>2. CASE RecoverAll
      BY <3>2 DEF RecoverAll, QuietStart, Alive
    <3>3. CASE Crash
      BY <3>3 DEF Crash, Alive
    <3> QED
      BY <1>12, <3>1, <3>2, <3>3
  <2> QED
    BY <2>1 DEF KeysHeld, QuietStart
<1>13. CASE Stop
  <2>1. CASE UNCHANGED db
    BY <1>13, <2>1, KeysKept DEF Stop, db, KeysHeld, Secured, Mine, Alive, QuietStart
  <2>2. CASE ~UNCHANGED db
    <3>1. PICK t \in Task : Offered(t) /\ AttemptsLeft(t) /\ ChainKeyOpen(t) /\
                            \E f \in Choices(t) : ClaimRow(t, Claimed(t, f))
      BY <1>13, <2>2 DEF Stop
    <3>2. PICK f \in Choices(t) : ClaimRow(t, Claimed(t, f))
      BY <3>1
    <3> DEFINE r == <<t, attempts[t] + 1>>
    <3>3. r \in Run /\ r[1] = t /\ chain[t] \in Task
      BY <3>1, NextAttempt DEF TypeOK
    <3>4. \A s \in Run : Alive(s) => s[1] # t
      BY <3>1 DEF Offered, KeysHeld, Secured
    <3>5. ASSUME NEW s \in Run, Alive(s), NEW k \in Key, Mine(s, k)
          PROVE lease'[k] = lease[k] /\ k \notin stale'
      <4>1. Taken(k)
        BY <3>5, Holders, Pairs DEF Mine, Taken, TypeOK
      <4>2. k \notin Claimed(t, f)
        BY <4>1 DEF Claimed, Choices
      <4>3. k = Inheritable[t] => lease[k] = ChainHolder(chain[t])
        BY <3>1, <4>1, ConstantsAssumption DEF ChainKeyOpen
      <4> QED
        BY <3>2, <3>3, <3>5, <4>2, <4>3 DEF ClaimRow, Grant, Mine
    <3>6. \A s \in Run : Alive(s)' =>
            /\ Alive(s) /\ held'[s] = held[s]
            /\ status'[s[1]] = "RUNNING" /\ chain'[s[1]] = chain[s[1]]
      BY <1>13, <3>2, <3>4, Pairs DEF Stop, ClaimRow, Alive, KeysHeld, Secured, TypeOK
    <3> QED
      BY <1>13, <3>5, <3>6, KeysKept DEF Stop, QuietStart
  <2> QED
    BY <2>1, <2>2
<1>14. CASE UNCHANGED vars
  BY <1>14, KeysKept DEF vars, db, mem, KeysHeld, Secured, Mine, Alive, QuietStart
<1> QED
  BY <1>1, <1>2, <1>3, <1>4, <1>5, <1>6, <1>7, <1>8, <1>9, <1>10, <1>11, <1>12, <1>13, <1>14
  DEF Next

LEMMA InvInit == Init => QueueInv
<1>1. Init => RunInv /\ ChainInv /\ ReadRows /\ KeyInv
  BY DEF Init, RunInv, RunnersOfRows, ManagerStates, ChainInv, LinearChains, ChainNames,
         ReadRows, KeyInv, KeysHeld, QuietStart, Alive
<1> QED
  BY <1>1, TypeInit DEF QueueInv

LEMMA InvStep == Env = {} /\ QueueInv /\ [Next]_vars => QueueInv'
BY TypeStep, RunStep, ChainStep, KeyStep DEF QueueInv

LEMMA InvExclusion == QueueInv => Exclusion
<1> SUFFICES ASSUME QueueInv, NEW r \in Run, NEW s \in Run, Executing(r), Executing(s), r # s,
                    NEW k \in Uses(r), k \in Uses(s)
             PROVE  FALSE
  BY DEF Exclusion
<1>1. Alive(r) /\ Alive(s) /\ Secured(r) /\ Secured(s)
  BY DEF Executing, Alive, QueueInv, KeyInv, KeysHeld
<1>2. r[1] # s[1] /\ r[1] \in Task /\ s[1] \in Task
  BY <1>1, Pairs DEF QueueInv, RunInv, RunnersOfRows
<1>3. /\ chain[r[1]] # chain[s[1]]
      /\ chain[r[1]] \in Task /\ chain[s[1]] \in Task
  BY <1>1, <1>2 DEF Secured, QueueInv, TypeInv, TypeOK, ChainInv, LinearChains
<1>4. /\ lease[k] \in {TaskHolder(r), ChainHolder(chain[r[1]])}
      /\ lease[k] \in {TaskHolder(s), ChainHolder(chain[s[1]])}
  BY <1>1 DEF Uses, Secured
<1> QED
  BY <1>3, <1>4, Holders

(* Unless the process stalls for longer than a lease, a run_exclusive call *)
(* overtakes the recovery at start, or an interruption writes a row it has *)
(* read before somebody else changed it, two tasks in progress never use   *)
(* the same resource key.                                                  *)
THEOREM KeysAreExclusive ==
  ASSUME Env = {}
  PROVE  Spec => []Exclusion
<1>1. QueueInv /\ [Next]_vars => QueueInv'
  BY InvStep
<1> QED
  BY <1>1, InvInit, InvExclusion, PTL DEF Spec

-----------------------------------------------------------------------------
(* The refinement of ResourceMutex *)

(* A step after which the same attempts are in progress with the same keys. *)
LEMMA KeysStay ==
  ASSUME \A s \in Run : Executing(s)' <=> Executing(s),
         \A s \in Run : Executing(s) => held'[s] = held[s]
  PROVE  usedKeys' = usedKeys
BY DEF usedKeys, Uses

(* A step after which one of them is not: it lets all its keys go.          *)
LEMMA KeysReleased ==
  ASSUME NEW r \in Run, ~Executing(r)',
         \A s \in Run \ {r} : Executing(s)' <=> Executing(s),
         \A s \in Run \ {r} : Executing(s) => held'[s] = held[s]
  PROVE  Mutex!Release(r)
BY DEF usedKeys, Uses, Mutex!Release

(* A step that starts an attempt: by Exclusion nobody has one of its keys.  *)
LEMMA KeysAcquired ==
  ASSUME TypeOK, TypeOK', Exclusion', NEW r \in Run, NEW ks, Launch(r, ks), ~Alive(r)
  PROVE  Mutex!Acquire(r)
<1>1. \A s \in Run \ {r} : Executing(s)' <=> Executing(s)
  BY DEF Launch, Executing, TypeOK
<1>2. \A s \in Run \ {r} : held'[s] = held[s]
  BY DEF Launch, TypeOK
<1>3. ~Executing(r) /\ Executing(r)'
  BY DEF Launch, Executing, Alive, TypeOK
<1> DEFINE mine == Uses(r)'
<1>4. mine \in SUBSET Key
  BY ConstantsAssumption, Pairs DEF TypeOK, Uses
<1>5. \A s \in Run : usedKeys[s] \cap mine = {}
  <2> TAKE s \in Run
  <2>1. CASE Executing(s)
    <3>1. s # r /\ Executing(s)' /\ Uses(s)' = Uses(s) /\ usedKeys[s] = Uses(s)
      BY <1>1, <1>2, <1>3, <2>1 DEF Uses, usedKeys
    <3> QED
      BY <1>3, <3>1 DEF Exclusion
  <2>2. CASE ~Executing(s)
    BY <2>2 DEF usedKeys
  <2> QED
    BY <2>1, <2>2
<1>6. usedKeys' = [usedKeys EXCEPT ![r] = mine]
  BY <1>1, <1>2, <1>3 DEF usedKeys, Uses
<1>7. usedKeys[r] = {}
  BY <1>3 DEF usedKeys
<1> HIDE DEF mine
<1> QED
  BY <1>4, <1>5, <1>6, <1>7 DEF Mutex!Acquire

LEMMA MutexStep ==
  ASSUME QueueInv, TypeInv', Exclusion', [Next]_vars
  PROVE  [Mutex!Next]_usedKeys
<1> USE DEF QueueInv, TypeInv
<1>1. ASSUME NEW t \in Task, Claim(t) PROVE Mutex!Next
  <2> DEFINE r == <<t, attempts[t] + 1>>
  <2>1. r \in Run /\ r[1] = t
    BY <1>1, NextAttempt DEF Claim
  <2>2. ~Alive(r)
    BY <1>1, <2>1 DEF Claim, Offered, RunInv, RunnersOfRows
  <2>3. PICK ks : Launch(r, ks)
    BY <1>1 DEF Claim
  <2> QED
    BY <2>1, <2>2, <2>3, KeysAcquired DEF Mutex!Next
<1>2. ASSUME NEW t \in Task, TryStart(t) PROVE Mutex!Next
  <2> DEFINE r == <<t, 1>>
  <2>1. r \in Run /\ r[1] = t
    BY Bounds, Pairs
  <2>2. ~Alive(r)
    BY <1>2, <2>1 DEF TryStart, RunInv, RunnersOfRows
  <2>3. PICK ks : Launch(r, ks)
    BY <1>2 DEF TryStart
  <2> QED
    BY <2>1, <2>2, <2>3, KeysAcquired DEF Mutex!Next
<1>3. ASSUME NEW r \in Run, BusinessReturns(r) \/ BusinessRaises(r) \/ LeaseLost(r)
      PROVE  Mutex!Next
  BY <1>3, KeysReleased DEF BusinessReturns, BusinessRaises, LeaseLost, Executing, TypeOK, Mutex!Next
<1>4. ASSUME NEW r \in Run, Settle(r) PROVE Mutex!Next
  <2>1. Leave(r)
    BY <1>4 DEF Settle, Complete, Fail, Interrupt, SettleCancelled, LoseSettlement
  <2> QED
    BY <2>1, KeysReleased DEF Leave, Executing, TypeOK, Mutex!Next
<1>5. CASE Crash
  BY <1>5 DEF Crash, usedKeys, Executing, Mutex!Next, Mutex!ReleaseAll
<1>6. ASSUME NEW r \in Run, BusinessCancelled(r) PROVE usedKeys' = usedKeys
  BY <1>6, KeysStay DEF BusinessCancelled, Executing, TypeOK
<1>7. ASSUME NEW t \in Task, ForceInterrupt(t) PROVE usedKeys' = usedKeys
  BY <1>7, KeysStay DEF ForceInterrupt, Executing, TypeOK
<1>8. CASE UNCHANGED <<pc, held>>
  BY <1>8, KeysStay DEF Executing
<1> QED
  BY <1>1, <1>2, <1>3, <1>4, <1>5, <1>6, <1>7, <1>8
  DEF Next, vars, mem, Enqueue, BecomeDue, ClaimExhausted, RecoverExpired, ReadWaiting,
      WriteWaiting, InterruptLeftover, LapseRow, Refresh, LapseChain, BeginScan, EndScan,
      Start, RecoverAll, Stop

(* Outside the awkward timings the queue implements mutual exclusion of     *)
(* whole key sets: business code starts with all its keys or not at all,    *)
(* while nobody uses one of them, gains and loses none on the way, and      *)
(* lets all of them go at once, through retries, interruptions, recoveries  *)
(* and crashes.                                                             *)
THEOREM QueueRefinesMutex ==
  ASSUME Env = {}
  PROVE  Spec => MutualExclusion
<1>1. Init => QueueInv
  BY InvInit
<1>2. QueueInv /\ [Next]_vars => QueueInv'
  BY InvStep
<1>3. Init => Mutex!Init
  BY DEF Init, usedKeys, Executing, Mutex!Init
<1>4. QueueInv /\ [Next]_vars => [Mutex!Next]_usedKeys
  <2> SUFFICES ASSUME QueueInv, [Next]_vars PROVE [Mutex!Next]_usedKeys
    OBVIOUS
  <2>1. QueueInv'
    BY <1>2
  <2>2. TypeInv' /\ Exclusion'
    <3>1. (QueueInv => Exclusion)'
      BY InvExclusion, PTL
    <3> QED
      BY <2>1, <3>1 DEF QueueInv
  <2> QED
    BY <2>2, MutexStep
<1> QED
  BY <1>1, <1>2, <1>3, <1>4, PTL DEF Spec, MutualExclusion, Mutex!Spec

-----------------------------------------------------------------------------

(* The kinds of the tasks grow along a chain.                              *)
Kind == CHOOSE kind \in [Task -> 0..2] :
          \A t \in Task : \A u \in Successors[t] : kind[t] < kind[u]

LEMMA KindGrows == Kind \in [Task -> 0..2] /\ \A t \in Task : \A u \in Successors[t] : Kind[t] < Kind[u]
BY CallersAssumption DEF Kind

-----------------------------------------------------------------------------
(* Rows *)

(* A step that makes and completes no row.                                 *)
Unhurried ==
  /\ chain' = chain
  /\ \A t \in Task : /\ status'[t] = "absent" <=> status[t] = "absent"
                     /\ status'[t] = "SUCCEEDED" => status[t] = "SUCCEEDED"

(* A step that makes one row, in a chain of its own.                       *)
Made(t) ==
  /\ status[t] = "absent" /\ chain' = chain
  /\ \E s \in {"WAIT", "RUNNING"} : status' = [status EXCEPT ![t] = s]

(* A step that completes one and makes the next one of its chain.          *)
Finished(t) == status[t] = "RUNNING" /\ ~Collides(t) /\ CompleteRow(t)

LEMMA RowStep ==
  ASSUME TypeInv, ReadRows, [Next]_vars
  PROVE  Unhurried \/ \E t \in Task : Made(t) \/ Finished(t)
<1> USE DEF TypeInv, TypeOK, Unhurried
<1>1. ASSUME NEW t \in Task, Enqueue(t) \/ TryStart(t) PROVE Made(t)
  BY <1>1 DEF Enqueue, TryStart, StartRow, Made
<1>2. ASSUME NEW t \in Task, Offered(t), NEW ks, ClaimRow(t, ks) PROVE Unhurried
  BY <1>2 DEF Offered, ClaimRow
<1>3. ASSUME NEW t \in Task, Claim(t) PROVE Unhurried
  BY <1>2, <1>3 DEF Claim
<1>4. ASSUME NEW t \in Task, ClaimExhausted(t) \/ RecoverExpired(t) PROVE Unhurried
  BY <1>4 DEF ClaimExhausted, Offered, RecoverExpired
<1>5. ASSUME NEW t \in Task, WriteWaiting(t) PROVE Unhurried
  BY <1>5 DEF WriteWaiting, ReadRows, db
<1>6. ASSUME NEW t \in Task,
             \/ InterruptRow(t, TRUE) \/ InterruptRow(t, FALSE)
             \/ status[t] = "RUNNING" /\ FailRow(t)
             \/ status[t] = "RUNNING" /\ (RequeueRow(t, TRUE) \/ RequeueRow(t, FALSE))
      PROVE  Unhurried
  BY <1>6 DEF InterruptRow, FailRow, RequeueRow, db
<1>7. ASSUME NEW r \in Run, Settle(r) PROVE Unhurried \/ Finished(r[1])
  <2>1. r[1] \in Task
    BY Pairs
  <2>2. CASE UNCHANGED db
    BY <2>2 DEF db
  <2>3. CASE Owned(r) /\ ~Collides(r[1]) /\ CompleteRow(r[1])
    BY <2>3 DEF Owned, Finished
  <2>4. CASE \/ InterruptRow(r[1], TRUE) \/ InterruptRow(r[1], FALSE)
             \/ Owned(r) /\ FailRow(r[1])
             \/ Owned(r) /\ (RequeueRow(r[1], TRUE) \/ RequeueRow(r[1], FALSE))
    BY <1>6, <2>1, <2>4 DEF Owned
  <2> QED
    BY <1>7, <2>2, <2>3, <2>4
    DEF Settle, Complete, Fail, Interrupt, SettleCancelled, LoseSettlement
<1>8. CASE RecoverAll
  BY <1>8 DEF RecoverAll
<1>9. CASE Stop
  BY <1>2, <1>9 DEF Stop, db
<1>10. CASE UNCHANGED <<status, chain>>
  BY <1>10
<1>11. \A r \in Run : r[1] \in Task
  BY Pairs
<1> HIDE DEF Unhurried
<1> QED
  BY <1>1, <1>3, <1>4, <1>5, <1>6, <1>7, <1>8, <1>9, <1>10, <1>11
  DEF Next, vars, db, BecomeDue, ReadWaiting, ForceInterrupt, InterruptLeftover, LapseRow,
      BusinessReturns, BusinessRaises, BusinessCancelled, Refresh, LeaseLost, LapseChain,
      BeginScan, EndScan, Start, Crash

(* Nothing changes the outcome of a row.                                   *)
OutcomeKept == \A t \in Task : status[t] \in Terminal => status'[t] = status[t]

LEMMA OutcomeStep ==
  ASSUME "late" \notin Env, TypeInv, [Next]_vars
  PROVE  OutcomeKept
<1> USE DEF TypeInv, TypeOK, OutcomeKept, Terminal
<1>1. ASSUME NEW t \in Task, Enqueue(t) \/ TryStart(t) PROVE OutcomeKept
  BY <1>1 DEF Enqueue, TryStart, StartRow
<1>2. ASSUME NEW t \in Task, Offered(t), NEW ks, ClaimRow(t, ks) PROVE OutcomeKept
  BY <1>2 DEF Offered, ClaimRow
<1>3. ASSUME NEW t \in Task, Claim(t) PROVE OutcomeKept
  BY <1>2, <1>3 DEF Claim
<1>4. ASSUME NEW t \in Task, ClaimExhausted(t) \/ RecoverExpired(t) \/ WriteWaiting(t)
      PROVE  OutcomeKept
  BY <1>4 DEF ClaimExhausted, Offered, RecoverExpired, WriteWaiting, db
<1>5. ASSUME NEW t \in Task,
             \/ InterruptRow(t, TRUE) \/ InterruptRow(t, FALSE)
             \/ status[t] = "RUNNING" /\ FailRow(t)
             \/ status[t] = "RUNNING" /\ (RequeueRow(t, TRUE) \/ RequeueRow(t, FALSE))
             \/ Finished(t)
      PROVE  OutcomeKept
  BY <1>5 DEF InterruptRow, FailRow, RequeueRow, Finished, CompleteRow, Collides, db
<1>6. ASSUME NEW r \in Run, Settle(r) PROVE OutcomeKept
  <2>1. r[1] \in Task
    BY Pairs
  <2>2. CASE UNCHANGED db
    BY <2>2 DEF db
  <2>3. CASE \/ InterruptRow(r[1], TRUE) \/ InterruptRow(r[1], FALSE)
             \/ Owned(r) /\ FailRow(r[1])
             \/ Owned(r) /\ (RequeueRow(r[1], TRUE) \/ RequeueRow(r[1], FALSE))
             \/ Owned(r) /\ ~Collides(r[1]) /\ CompleteRow(r[1])
    BY <1>5, <2>1, <2>3 DEF Owned, Finished
  <2> QED
    BY <1>6, <2>2, <2>3
    DEF Settle, Complete, Fail, Interrupt, SettleCancelled, LoseSettlement
<1>7. CASE RecoverAll
  BY <1>7 DEF RecoverAll
<1>8. CASE Stop
  BY <1>2, <1>8 DEF Stop, db
<1>9. CASE UNCHANGED status
  BY <1>9
<1> HIDE DEF OutcomeKept
<1> QED
  BY <1>1, <1>3, <1>4, <1>5, <1>6, <1>7, <1>8, <1>9
  DEF Next, vars, db, BecomeDue, ReadWaiting, ForceInterrupt, InterruptLeftover, LapseRow,
      BusinessReturns, BusinessRaises, BusinessCancelled, Refresh, LeaseLost, LapseChain,
      BeginScan, EndScan, Start, Crash

(* Unless an interruption writes a row it has read before somebody else     *)
(* changed it, a finished row never changes again, whatever answers late,   *)
(* expires or restarts.                                                     *)
THEOREM OutcomesAreFinal ==
  ASSUME "late" \notin Env
  PROVE  Spec => Finality
<1>1. TypeInv /\ [Next]_vars => OutcomeKept
  BY OutcomeStep
<1>2. OutcomeKept => \A t \in Task : status[t] \in Terminal => status'[t] = status[t]
  BY DEF OutcomeKept
<1> QED
  BY <1>1, <1>2, TypeInit, TypeStep, PTL DEF Spec, Finality
-----------------------------------------------------------------------------
(* Chains *)

(* The rows of a chain are ordered by their kind, and all but the last have *)
(* succeeded.                                                               *)
Ordered ==
  \A t, v \in Task :
    t # v /\ status[t] # "absent" /\ status[v] # "absent" /\ chain[t] = chain[v] =>
      \/ status[t] = "SUCCEEDED" /\ Kind[t] < Kind[v]
      \/ status[v] = "SUCCEEDED" /\ Kind[v] < Kind[t]

HandoverInv == TypeInv /\ ChainInv /\ ReadRows /\ Ordered /\ Handover

(* A row that is made has its chain to itself.                              *)
LEMMA OrderedMade ==
  ASSUME TypeOK, ChainInv, Ordered, NEW t \in Task, Made(t)
  PROVE  Ordered'
<1>1. \A v \in Task \ {t} : status'[v] = status[v]
  BY DEF Made, TypeOK
<1>2. \A v \in Task : status[v] # "absent" => chain[v] # chain[t]
  BY DEF ChainInv, ChainNames, Made
<1>3. chain' = chain
  BY DEF Made
<1> QED
  BY <1>1, <1>2, <1>3 DEF Ordered

(* What a completion does to the rows.                                      *)
LEMMA FinishedRows ==
  ASSUME TypeOK, NEW t \in Task, Finished(t)
  PROVE  \A u \in Task :
           /\ u \in Successors[t] =>
                /\ status[u] = "absent" /\ u # t
                /\ status'[u] = "WAIT" /\ chain'[u] = chain[t] /\ Kind[t] < Kind[u]
           /\ u = t => status'[u] = "SUCCEEDED" /\ chain'[u] = chain[u]
           /\ u \notin Successors[t] \cup {t} => status'[u] = status[u] /\ chain'[u] = chain[u]
BY KindGrows DEF Finished, Collides, CompleteRow, TypeOK

LEMMA OrderedFinished ==
  ASSUME TypeOK, ChainInv, Ordered, NEW t \in Task, Finished(t)
  PROVE  Ordered'
<1>1. status[t] = "RUNNING" /\ \A u, v \in Successors[t] : u = v
  BY CallersAssumption DEF Finished
<1>2. \A u \in Task : Kind[u] \in Int
  BY KindGrows
<1>3. \A v \in Task \ {t} : status[v] # "absent" /\ chain[v] = chain[t] =>
        status[v] = "SUCCEEDED" /\ Kind[v] < Kind[t]
  BY <1>1 DEF Ordered
<1> SUFFICES ASSUME NEW v \in Task, NEW w \in Task, v # w,
                    status'[v] # "absent", status'[w] # "absent", chain'[v] = chain'[w]
             PROVE  \/ status'[v] = "SUCCEEDED" /\ Kind[v] < Kind[w]
                    \/ status'[w] = "SUCCEEDED" /\ Kind[w] < Kind[v]
  BY DEF Ordered
<1>4. CASE v \in Successors[t]
  <2>1. w \notin Successors[t] /\ chain'[v] = chain[t] /\ Kind[t] < Kind[v]
    BY <1>1, <1>4, FinishedRows
  <2>2. w = t \/ (status[w] = "SUCCEEDED" /\ status'[w] = "SUCCEEDED" /\ Kind[w] < Kind[t])
    BY <1>3, <2>1, FinishedRows
  <2> QED
    BY <1>2, <2>1, <2>2, FinishedRows
<1>5. CASE w \in Successors[t]
  <2>1. v \notin Successors[t] /\ chain'[w] = chain[t] /\ Kind[t] < Kind[w]
    BY <1>1, <1>5, FinishedRows
  <2>2. v = t \/ (status[v] = "SUCCEEDED" /\ status'[v] = "SUCCEEDED" /\ Kind[v] < Kind[t])
    BY <1>3, <2>1, FinishedRows
  <2> QED
    BY <1>2, <2>1, <2>2, FinishedRows
<1>6. CASE v \notin Successors[t] /\ w \notin Successors[t]
  <2>1. status[v] # "absent" /\ status[w] # "absent" /\ chain[v] = chain[w]
    BY <1>1, <1>6, FinishedRows
  <2> QED
    BY <1>6, <2>1, FinishedRows DEF Ordered
<1> QED
  BY <1>4, <1>5, <1>6

LEMMA HandoverStep ==
  ASSUME "late" \notin Env, HandoverInv, [Next]_vars
  PROVE  HandoverInv'
<1> USE DEF HandoverInv
<1>1. TypeInv' /\ ChainInv' /\ ReadRows'
  BY TypeStep, ChainStep
<1>2. TypeOK /\ TypeOK'
  BY <1>1 DEF TypeInv
<1>3. OutcomeKept
  BY OutcomeStep
<1>4. Ordered'
  <2>1. CASE Unhurried
    BY <1>3, <2>1 DEF Unhurried, OutcomeKept, Ordered, Terminal
  <2> QED
    BY <1>2, <2>1, RowStep, OrderedMade, OrderedFinished
<1>5. ASSUME NEW t \in Task, status'[t] = "SUCCEEDED", NEW u \in Successors[t]
      PROVE  status'[u] # "absent" /\ chain'[u] = chain'[t]
  <2>0. u \in Task
    BY ConstantsAssumption
  <2>1. CASE Unhurried
    BY <1>5, <2>0, <2>1 DEF Unhurried, Handover
  <2>2. ASSUME NEW w \in Task, Made(w) PROVE status'[u] # "absent" /\ chain'[u] = chain'[t]
    <3>1. status[t] = "SUCCEEDED"
      BY <1>2, <1>5, <2>2 DEF Made, TypeOK
    <3> QED
      BY <1>2, <2>0, <2>2, <3>1 DEF Made, Handover, TypeOK
  <2>3. ASSUME NEW w \in Task, Finished(w) PROVE status'[u] # "absent" /\ chain'[u] = chain'[t]
    <3>1. CASE t = w
      BY <1>2, <2>0, <2>3, <3>1, FinishedRows
    <3>2. CASE t # w
      <4>1. status[t] = "SUCCEEDED" /\ chain'[t] = chain[t]
        BY <1>2, <1>5, <2>3, <3>2, FinishedRows
      <4>2. status[u] # "absent" /\ chain[u] = chain[t]
        BY <4>1 DEF Handover
      <4> QED
        BY <1>2, <2>0, <2>3, <4>1, <4>2, FinishedRows
    <3> QED
      BY <3>1, <3>2
  <2> QED
    BY <2>1, <2>2, <2>3, RowStep
<1>6. ASSUME NEW t \in Task, NEW u \in Successors[t], status'[u] # "absent", chain'[u] = chain'[t]
      PROVE  status'[t] = "SUCCEEDED"
  <2>1. u \in Task /\ u # t /\ Kind[t] < Kind[u] /\ Kind[t] \in Int /\ Kind[u] \in Int
    BY ConstantsAssumption, CallersAssumption, KindGrows
  <2>2. status'[t] # "absent"
    BY <1>1, <1>6, <2>1 DEF ChainInv, ChainNames
  <2> QED
    BY <1>4, <1>6, <2>1, <2>2 DEF Ordered
<1>7. Handover'
  BY <1>5, <1>6 DEF Handover
<1> QED
  BY <1>1, <1>4, <1>7

(* With the same exception, the next task is in its parent's chain exactly  *)
(* when the parent has succeeded: the transaction that completes a task     *)
(* neither loses its next one nor leaves one behind for an attempt that     *)
(* lost its row, whoever else enqueues the same idempotency key.            *)
THEOREM NextTasksAreHandedOver ==
  ASSUME "late" \notin Env
  PROVE  Spec => []Handover
<1>1. Init => HandoverInv
  <2>1. Init => ChainInv /\ ReadRows /\ Ordered
    BY DEF Init, ChainInv, LinearChains, ChainNames, ReadRows, Ordered
  <2>2. Init => Handover
    BY ConstantsAssumption, CallersAssumption DEF Init, Handover
  <2> QED
    BY <2>1, <2>2, TypeInit DEF HandoverInv
<1>2. HandoverInv /\ [Next]_vars => HandoverInv'
  BY HandoverStep
<1>3. HandoverInv => Handover
  BY DEF HandoverInv
<1> QED
  BY <1>1, <1>2, <1>3, PTL DEF Spec
-----------------------------------------------------------------------------
(* The key of a chain *)

ChainGoesOn(c) == \E t \in Task : chain'[t] = c /\ status'[t] \in {"WAIT", "RUNNING"}

ChainKeysKept ==
  \A k \in Key, c \in Task :
    lease[k] = ChainHolder(c) /\ k \notin stale /\ ChainGoesOn(c) /\ mgr # "starting" =>
      lease'[k] = ChainHolder(c)

(* A deletion may take the keys of attempts and of chains that end.         *)
LEMMA KeysDeleted ==
  ASSUME TypeOK, NEW ks, Delete(ks),
         \A k \in ks \cap Key, c \in Task : lease[k] = ChainHolder(c) => ~ChainGoesOn(c)
  PROVE  ChainKeysKept
BY DEF ChainKeysKept, Delete, TypeOK

(* A claim takes no key of a chain but its own.                             *)
LEMMA KeysClaimed ==
  ASSUME TypeOK, NEW r \in Run, NEW f \in Choices(r[1]), ChainKeyOpen(r[1]),
         Grant(r, Claimed(r[1], f))
  PROVE  ChainKeysKept
<1> SUFFICES ASSUME NEW k \in Key, NEW c \in Task, lease[k] = ChainHolder(c), k \notin stale
             PROVE  lease'[k] = ChainHolder(c)
  BY DEF ChainKeysKept
<1>1. Taken(k)
  BY Holders DEF Taken
<1>2. k \notin Claimed(r[1], f)
  BY <1>1 DEF Claimed, Choices
<1>3. k = Inheritable[r[1]] => ChainHolder(chain[r[1]]) = ChainHolder(c)
  BY <1>1, ConstantsAssumption DEF ChainKeyOpen
<1> QED
  BY <1>2, <1>3 DEF Grant

(* The keys an attempt took for itself are no chain's.                      *)
LEMMA TaskKeys ==
  ASSUME NEW t \in Task, NEW n \in 1..AttemptLimit,
         NEW k \in TaskLeases(<<t, n>>) \cup RowLeases(t), NEW c \in Task
  PROVE  lease[k] # ChainHolder(c)
BY Holders, Pairs DEF TaskLeases, RowLeases

(* Those that go with the last task of a chain are the chain's that ends.   *)
LEMMA LastKeys ==
  ASSUME TypeOK, NEW t \in Task, chain' = chain,
         status'[t] \notin {"WAIT", "RUNNING"}, \A u \in Task \ {t} : status'[u] = status[u],
         NEW k \in LastChainLeases(t), NEW c \in Task, lease[k] = ChainHolder(c)
  PROVE  ~ChainGoesOn(c)
<1>1. c = chain[t] /\ ~ChainActive(t)
  BY Holders DEF LastChainLeases, ChainLeases, TypeOK
<1> QED
  BY <1>1 DEF ChainActive, ChainGoesOn

LEMMA ChainKeyStep ==
  ASSUME TypeInv, ChainInv, [Next]_vars
  PROVE  ChainKeysKept
<1> USE DEF TypeInv
<1>1. ASSUME NEW t \in Task, Claim(t) PROVE ChainKeysKept
  BY <1>1, NextAttempt, KeysClaimed DEF Claim, ClaimRow
<1>2. ASSUME NEW t \in Task, TryStart(t) PROVE ChainKeysKept
  <2>1. <<t, 1>> \in Run /\ <<t, 1>>[1] = t
    BY Bounds, Pairs
  <2>2. ChainKeyOpen(t)
    BY <1>2, CallersAssumption DEF TryStart, ChainKeyOpen
  <2> QED
    BY <1>2, <2>1, <2>2, KeysClaimed DEF TryStart, StartRow
<1>3. CASE Stop
  <2>1. CASE UNCHANGED db
    BY <2>1 DEF db, ChainKeysKept
  <2> QED
    BY <1>3, <2>1, NextAttempt, KeysClaimed DEF Stop, ClaimRow
<1>4. ASSUME NEW t \in Task, RecoverExpired(t) PROVE ChainKeysKept
  <2> DEFINE ended == t \in Exclusive \/ ~AttemptsLeft(t)
             ks == TaskLeases(<<t, attempts[t]>>) \cup IF ended THEN LastChainLeases(t) ELSE {}
  <2>1. Delete(ks)
    BY <1>4 DEF RecoverExpired
  <2>2. attempts[t] \in 1..AttemptLimit
    BY <1>4 DEF RecoverExpired, StartedRows, TypeOK
  <2>3. ended => status'[t] \notin {"WAIT", "RUNNING"}
    BY <1>4 DEF RecoverExpired, TypeOK
  <2>4. chain' = chain /\ \A u \in Task \ {t} : status'[u] = status[u]
    BY <1>4 DEF RecoverExpired, TypeOK
  <2>5. \A k \in ks, c \in Task : lease[k] = ChainHolder(c) => ~ChainGoesOn(c)
    BY <2>2, <2>3, <2>4, TaskKeys, LastKeys
  <2> HIDE DEF ks
  <2> QED
    BY <2>1, <2>5, KeysDeleted
<1>5. ASSUME NEW t \in Task, WriteWaiting(t) PROVE ChainKeysKept
  <2>1. CASE UNCHANGED db
    BY <2>1 DEF db, ChainKeysKept
  <2>2. CASE ~UNCHANGED db
    <3> DEFINE ks == RowLeases(t) \cup LastChainLeases(t)
    <3>1. Delete(ks) /\ chain' = chain /\ status' = [status EXCEPT ![t] = "INTERRUPTED"]
      BY <1>5, <2>2 DEF WriteWaiting
    <3>2. \A k \in ks, c \in Task : lease[k] = ChainHolder(c) => ~ChainGoesOn(c)
      BY <3>1, Bounds, TaskKeys, LastKeys DEF TypeOK
    <3> HIDE DEF ks
    <3> QED
      BY <3>1, <3>2, KeysDeleted
  <2> QED
    BY <2>1, <2>2
<1>6. ASSUME NEW t \in Task, InterruptRow(t, TRUE) \/ InterruptRow(t, FALSE) PROVE ChainKeysKept
  <2>1. CASE UNCHANGED db
    BY <2>1 DEF db, ChainKeysKept
  <2>2. CASE ~UNCHANGED db
    <3>1. /\ Delete(WholeChainLeases(t)) /\ chain' = chain
          /\ status[t] = "RUNNING" /\ status' = [status EXCEPT ![t] = "INTERRUPTED"]
      BY <1>6, <2>2 DEF InterruptRow
    <3>2. ASSUME NEW k \in WholeChainLeases(t), NEW c \in Task, lease[k] = ChainHolder(c)
          PROVE  ~ChainGoesOn(c)
      <4>1. c = chain[t]
        BY <3>2, Holders DEF WholeChainLeases, TypeOK
      <4> QED
        BY <3>1, <4>1 DEF ChainGoesOn, ChainInv, LinearChains, TypeOK
    <3> QED
      BY <3>1, <3>2, KeysDeleted
  <2> QED
    BY <2>1, <2>2
<1>7. ASSUME NEW t \in Task, status[t] = "RUNNING",
             RequeueRow(t, TRUE) \/ RequeueRow(t, FALSE)
      PROVE  ChainKeysKept
  <2>1. attempts[t] \in 1..AttemptLimit
    BY <1>7 DEF StartedRows, TypeOK
  <2> QED
    BY <1>7, <2>1, TaskKeys, KeysDeleted DEF RequeueRow
<1>8. ASSUME NEW t \in Task, status[t] = "RUNNING", FailRow(t) PROVE ChainKeysKept
  <2> DEFINE ks == TaskLeases(<<t, attempts[t]>>) \cup
                   IF AttemptsLeft(t) THEN {} ELSE LastChainLeases(t)
  <2>1. attempts[t] \in 1..AttemptLimit
    BY <1>8 DEF StartedRows, TypeOK
  <2>2. Delete(ks) /\ chain' = chain
    BY <1>8 DEF FailRow
  <2>3. ~AttemptsLeft(t) => status'[t] \notin {"WAIT", "RUNNING"}
    BY <1>8 DEF FailRow, TypeOK
  <2>4. \A u \in Task \ {t} : status'[u] = status[u]
    BY <1>8 DEF FailRow, TypeOK
  <2>5. \A k \in ks, c \in Task : lease[k] = ChainHolder(c) => ~ChainGoesOn(c)
    BY <2>1, <2>2, <2>3, <2>4, TaskKeys, LastKeys
  <2> HIDE DEF ks
  <2> QED
    BY <2>2, <2>5, KeysDeleted
<1>9. ASSUME NEW t \in Task, Finished(t) PROVE ChainKeysKept
  <2> DEFINE ks == TaskLeases(<<t, attempts[t]>>) \cup
                   IF Successors[t] = {} THEN LastChainLeases(t) ELSE {}
  <2>1. attempts[t] \in 1..AttemptLimit /\ Delete(ks)
    BY <1>9 DEF Finished, CompleteRow, StartedRows, TypeOK
  <2>2. Successors[t] = {} => /\ chain' = chain /\ status'[t] \notin {"WAIT", "RUNNING"}
                              /\ \A u \in Task \ {t} : status'[u] = status[u]
    BY <1>9 DEF Finished, CompleteRow, TypeOK
  <2>3. \A k \in ks, c \in Task : lease[k] = ChainHolder(c) => ~ChainGoesOn(c)
    BY <2>1, <2>2, TaskKeys, LastKeys
  <2> HIDE DEF ks
  <2> QED
    BY <2>1, <2>3, KeysDeleted
<1>10. ASSUME NEW r \in Run, Settle(r) PROVE ChainKeysKept
  <2>1. r[1] \in Task
    BY Pairs
  <2>2. CASE UNCHANGED db
    BY <2>2 DEF db, ChainKeysKept
  <2>3. CASE \/ InterruptRow(r[1], TRUE) \/ InterruptRow(r[1], FALSE)
             \/ Owned(r) /\ FailRow(r[1])
             \/ Owned(r) /\ (RequeueRow(r[1], TRUE) \/ RequeueRow(r[1], FALSE))
             \/ Owned(r) /\ ~Collides(r[1]) /\ CompleteRow(r[1])
    BY <1>6, <1>7, <1>8, <1>9, <2>1, <2>3 DEF Owned, Finished
  <2> QED
    BY <1>10, <2>2, <2>3
    DEF Settle, Complete, Fail, Interrupt, SettleCancelled, LoseSettlement
<1>11. CASE RecoverAll
  BY <1>11 DEF RecoverAll, ChainKeysKept
<1>12. CASE UNCHANGED lease
  BY <1>12 DEF ChainKeysKept
<1> QED
  BY <1>1, <1>2, <1>3, <1>4, <1>5, <1>6, <1>10, <1>11, <1>12
  DEF Next, vars, db, Enqueue, ClaimExhausted, BecomeDue, ReadWaiting, ForceInterrupt,
      InterruptLeftover, LapseRow, BusinessReturns, BusinessRaises, BusinessCancelled, Refresh,
      LeaseLost, LapseChain, BeginScan, EndScan, Start, Crash

(* A chain keeps its inheritable key from task to task, through failures,   *)
(* interruptions of other chains, recoveries and claims by others: only the *)
(* end of its lease or of the chain, or a restart, takes it away.           *)
THEOREM ChainsKeepTheirKeys == Spec => ChainKeyKept
<1>1. Init => ChainInv /\ ReadRows
  BY DEF Init, ChainInv, LinearChains, ChainNames, ReadRows
<1>2. TypeInv /\ ChainInv /\ [Next]_vars => ChainKeysKept
  BY ChainKeyStep
<1>3. ChainKeysKept =>
        \A k \in Key, c \in Task :
          /\ lease[k] = ChainHolder(c) /\ k \notin stale
          /\ \E t \in Task : chain'[t] = c /\ status'[t] \in {"WAIT", "RUNNING"}
          /\ mgr # "starting"
          => lease'[k] = ChainHolder(c)
  BY DEF ChainKeysKept, ChainGoesOn
<1> QED
  BY <1>1, <1>2, <1>3, TypeInit, TypeStep, ChainStep, PTL DEF Spec, ChainKeyKept
-----------------------------------------------------------------------------
(* Slots *)

Slots == Active(Task \ Exclusive)
Scrapes == {t \in Scrape : Registered(t)}

(* A scan counts the scrapes once, when it begins, and then those it starts:*)
(* it never counts fewer than there are.                                    *)
Counted == scanning => RunningScrapes <= scrapes

SlotInv == TypeInv /\ Capacity /\ Counted

(* Both are finite.                                                         *)
LEMMA SlotsFinite ==
  /\ IsFiniteSet(Slots) /\ Cardinality(Slots) \in Nat
  /\ IsFiniteSet(Scrapes) /\ Cardinality(Scrapes) \in Nat /\ RunningScrapes = Cardinality(Scrapes)
<1>1. IsFiniteSet(1..AttemptLimit)
  BY Bounds, FS_Interval
<1>2. IsFiniteSet(Run)
  BY <1>1, ConstantsAssumption, FS_Product DEF Run
<1>3. Slots \subseteq Run /\ Scrapes \subseteq Task
  BY ConstantsAssumption DEF Slots, Active, Scrapes
<1> QED
  BY <1>2, <1>3, ConstantsAssumption, FS_Subset, FS_CardinalityType DEF RunningScrapes, Scrapes

(* A set that gains at most one element grows by at most one.               *)
LEMMA GrowsByOne ==
  ASSUME NEW S, IsFiniteSet(S), NEW x, NEW T, T \subseteq S \cup {x}
  PROVE  /\ IsFiniteSet(T) /\ Cardinality(T) \in Nat
         /\ Cardinality(T) <= Cardinality(S) + 1
         /\ T \subseteq S => Cardinality(T) <= Cardinality(S)
<1>1. /\ IsFiniteSet(S \cup {x}) /\ Cardinality(S) \in Nat
      /\ Cardinality(S \cup {x}) \in {Cardinality(S), Cardinality(S) + 1}
  BY FS_AddElement, FS_CardinalityType
<1>2. IsFiniteSet(T) /\ Cardinality(T) <= Cardinality(S \cup {x}) /\ Cardinality(T) \in Nat
  BY <1>1, FS_Subset, FS_CardinalityType
<1>3. T \subseteq S => Cardinality(T) <= Cardinality(S)
  BY FS_Subset
<1> QED
  BY <1>1, <1>2, <1>3

(* The bound, in these terms.                                               *)
LEMMA SlotBounds ==
  /\ MaxConcurrent \in Nat /\ MaxScrape \in Nat
  /\ SlotInv => /\ Cardinality(Slots) <= MaxConcurrent /\ Cardinality(Scrapes) <= MaxScrape
                /\ RunningScrapes = Cardinality(Scrapes)
                /\ Cardinality(Slots) \in Nat /\ Cardinality(Scrapes) \in Nat
                /\ scanning => Cardinality(Scrapes) <= scrapes /\ scrapes \in Nat
  /\ Cardinality(Slots') <= MaxConcurrent /\ RunningScrapes' <= MaxScrape => Capacity'
BY SlotsFinite, ConstantsAssumption
DEF SlotInv, TypeInv, TypeOK, Capacity, Counted, Slots, Scrapes, RunningScrapes

(* A step that starts no attempt.                                           *)
LEMMA SlotsKept ==
  ASSUME SlotInv, \A r \in Run : Alive(r)' => Alive(r),
         scanning' => scanning /\ scrapes' = scrapes
  PROVE  Capacity' /\ Counted'
<1>1. Slots' \subseteq Slots
  BY DEF Slots, Active, Alive
<1>2. Scrapes' \subseteq Scrapes
  BY ConstantsAssumption, Bounds, Pairs DEF Scrapes, Registered, Alive
<1>3. Cardinality(Slots') \in Nat /\ Cardinality(Slots') <= Cardinality(Slots)
  BY <1>1, SlotsFinite, GrowsByOne
<1>4. Cardinality(Scrapes') \in Nat /\ Cardinality(Scrapes') <= Cardinality(Scrapes)
  BY <1>2, SlotsFinite, GrowsByOne
<1>5. RunningScrapes' = Cardinality(Scrapes')
  BY DEF RunningScrapes, Scrapes
<1> QED
  BY <1>3, <1>4, <1>5, SlotBounds DEF Counted

(* A step that starts one of an enqueued task, from a free slot of a scan,  *)
(* or an exclusive one, between two scans.                                  *)
LEMMA SlotTaken ==
  ASSUME SlotInv, NEW r \in Run, r[1] \notin Exclusive => FreeSlot,
         \A s \in Run : Alive(s)' => s = r \/ Alive(s),
         r[1] \in Scrape => RunningScrapes < MaxScrape
  PROVE  /\ Capacity'
         /\ RunningScrapes' \in Nat
         /\ RunningScrapes' <= RunningScrapes + 1
         /\ r[1] \notin Scrape => RunningScrapes' <= RunningScrapes
<1>1. Slots' \subseteq Slots \cup {r} /\ (r[1] \in Exclusive => Slots' \subseteq Slots)
  BY DEF Slots, Active, Alive
<1>2. Scrapes' \subseteq Scrapes \cup {r[1]} /\ (r[1] \notin Scrape => Scrapes' \subseteq Scrapes)
  <2> SUFFICES ASSUME NEW t \in Scrapes', t # r[1] PROVE t \in Scrapes
    BY DEF Scrapes
  <2>1. PICK n \in 1..AttemptLimit : pc'[<<t, n>>] # "none"
    BY DEF Scrapes, Registered
  <2>2. t \in Task /\ <<t, n>> \in Run /\ <<t, n>>[1] = t
    BY ConstantsAssumption, Pairs DEF Scrapes
  <2> QED
    BY <2>1, <2>2 DEF Scrapes, Registered, Alive
<1>3. /\ Cardinality(Slots') \in Nat /\ Cardinality(Slots') <= Cardinality(Slots) + 1
      /\ r[1] \in Exclusive => Cardinality(Slots') <= Cardinality(Slots)
  BY <1>1, SlotsFinite, GrowsByOne
<1>4. /\ Cardinality(Scrapes') \in Nat /\ Cardinality(Scrapes') <= Cardinality(Scrapes) + 1
      /\ r[1] \notin Scrape => Cardinality(Scrapes') <= Cardinality(Scrapes)
  BY <1>2, SlotsFinite, GrowsByOne
<1>5. RunningScrapes' = Cardinality(Scrapes')
  BY DEF RunningScrapes, Scrapes
<1>6. r[1] \notin Exclusive => Cardinality(Slots) < MaxConcurrent
  BY DEF FreeSlot, Slots
<1> QED
  BY <1>3, <1>4, <1>5, <1>6, SlotBounds

LEMMA SlotStep == SlotInv /\ [Next]_vars => SlotInv'
<1> SUFFICES ASSUME SlotInv, [Next]_vars PROVE Capacity' /\ Counted'
  BY TypeStep DEF SlotInv
<1>0. TypeInv /\ TypeOK
  BY DEF SlotInv, TypeInv
<1>1. ASSUME NEW t \in Task, Claim(t) PROVE Capacity' /\ Counted'
  <2> DEFINE r == <<t, attempts[t] + 1>>
  <2>1. r \in Run /\ r[1] = t
    BY <1>0, <1>1, NextAttempt DEF Claim
  <2>2. \A s \in Run : Alive(s)' => s = r \/ Alive(s)
    BY <1>0, <1>1, <2>1 DEF Claim, Launch, Alive, TypeOK
  <2>3. scanning /\ FreeSlot /\ (t \in Scrape => scrapes < MaxScrape)
    BY <1>1 DEF Claim, Offered
  <2>4. RunningScrapes <= scrapes /\ scrapes \in Nat /\ RunningScrapes \in Nat
    BY <1>0, <2>3, SlotsFinite DEF SlotInv, Counted, TypeOK
  <2>5. t \in Scrape => RunningScrapes < MaxScrape
    BY <2>3, <2>4, ConstantsAssumption
  <2>6. /\ Capacity' /\ RunningScrapes' \in Nat /\ RunningScrapes' <= RunningScrapes + 1
        /\ t \notin Scrape => RunningScrapes' <= RunningScrapes
    BY <2>1, <2>2, <2>3, <2>5, SlotTaken
  <2>7. scrapes' = IF t \in Scrape THEN scrapes + 1 ELSE scrapes
    BY <1>1 DEF Claim
  <2> QED
    BY <2>4, <2>6, <2>7 DEF Counted
<1>2. ASSUME NEW t \in Task, TryStart(t) PROVE Capacity' /\ Counted'
  <2> DEFINE r == <<t, 1>>
  <2>1. r \in Run /\ r[1] = t
    BY Bounds, Pairs
  <2>2. \A s \in Run : Alive(s)' => s = r \/ Alive(s)
    BY <1>0, <1>2, <2>1 DEF TryStart, Launch, Alive, TypeOK
  <2>3. t \in Exclusive /\ ~scanning' /\ (t \in Scrape => RunningScrapes < MaxScrape)
    BY <1>2 DEF TryStart
  <2> QED
    BY <2>1, <2>2, <2>3, SlotTaken DEF Counted
<1>3. CASE BeginScan
  <2>1. \A r \in Run : Alive(r)' <=> Alive(r)
    BY <1>3 DEF BeginScan, Alive
  <2>2. scrapes' = RunningScrapes /\ RunningScrapes' = RunningScrapes /\ RunningScrapes \in Nat
    BY <1>3, SlotsFinite DEF BeginScan, RunningScrapes, Registered
  <2>3. Capacity'
    BY <1>3 DEF BeginScan, SlotInv, Capacity, Active, RunningScrapes, Registered
  <2> QED
    BY <2>2, <2>3 DEF Counted
<1>4. CASE /\ \A r \in Run : Alive(r)' => Alive(r)
           /\ scanning' => scanning /\ scrapes' = scrapes
  BY <1>4, SlotsKept
<1>5. ASSUME NEW t \in Task, ForceInterrupt(t) PROVE Capacity' /\ Counted'
  BY <1>0, <1>4, <1>5 DEF ForceInterrupt, Alive, TypeOK
<1>6. ASSUME NEW r \in Run,
             BusinessReturns(r) \/ BusinessRaises(r) \/ BusinessCancelled(r) \/ LeaseLost(r)
      PROVE  Capacity' /\ Counted'
  BY <1>0, <1>4, <1>6 DEF BusinessReturns, BusinessRaises, BusinessCancelled, LeaseLost, Alive, TypeOK
<1>7. ASSUME NEW r \in Run, Settle(r) PROVE Capacity' /\ Counted'
  <2>1. Leave(r) /\ UNCHANGED <<scanning, scrapes>>
    BY <1>7 DEF Settle, Complete, Fail, Interrupt, SettleCancelled, LoseSettlement
  <2> QED
    BY <1>0, <1>4, <2>1 DEF Leave, Alive, TypeOK
<1>8. CASE EndScan \/ Stop \/ Crash
  BY <1>4, <1>8 DEF EndScan, Stop, Crash, Alive
<1>9. CASE UNCHANGED <<pc, scanning, scrapes>>
  BY <1>4, <1>9 DEF Alive
<1> QED
  BY <1>1, <1>2, <1>3, <1>5, <1>6, <1>7, <1>8, <1>9
  DEF Next, vars, mem, Enqueue, BecomeDue, ClaimExhausted, RecoverExpired, ReadWaiting,
      WriteWaiting, InterruptLeftover, LapseRow, Refresh, LapseChain, Start, RecoverAll

(* The scheduler never runs more tasks than it may, nor more scrapes        *)
(* together with run_exclusive: a scan's count stays good until it ends,    *)
(* because the admission lock keeps exclusive starts out of it.             *)
THEOREM SlotsAreBounded == Spec => []Capacity
<1>1. Init => SlotInv
  <2> SUFFICES ASSUME Init PROVE SlotInv
    OBVIOUS
  <2>1. Slots = {} /\ Scrapes = {} /\ ~scanning
    BY ConstantsAssumption, Pairs DEF Init, Slots, Active, Scrapes, Registered
  <2>2. Cardinality(Slots) = 0 /\ Cardinality(Scrapes) = 0
    BY <2>1, FS_EmptySet
  <2>3. Capacity
    BY <2>2, ConstantsAssumption DEF Capacity, RunningScrapes, Slots, Scrapes
  <2> QED
    BY <2>1, <2>3, TypeInit DEF SlotInv, Counted
<1>2. SlotInv => Capacity
  BY DEF SlotInv
<1> QED
  BY <1>1, <1>2, SlotStep, PTL DEF Spec
=============================================================================
