------------------------ MODULE PlaylistDownloadProofs ------------------------
(***************************************************************************)
(* Invariants of PlaylistDownload for any playlist, search results, bounds *)
(* and mishaps.  Three inductive invariants, each on top of the one before *)
(* it: the types, with what bounds the tasks of a track; what is known of  *)
(* the records the coroutines work on; and who is responsible for a track. *)
(***************************************************************************)
EXTENDS PlaylistDownload, WellFoundedInduction, TLAPS

(* A request of a track is with a coroutine of its own, with that of the   *)
(* whole playlist, waits as a task, or runs as one.                        *)
One(b) == IF b THEN 1 ELSE 0
Load(t) ==
  jobs[t] + One(at[t] # "idle") + One(ask[<<"one", t>>] # "none")
    + One(ask[<<"all", t>>] # "none" \/ all = "match")

Loaded ==
  /\ \A t \in Track : Load(t) <= requests
  /\ all # "wait" => \A t \in Track : ask[<<"all", t>>] = "none"

(* What the coroutines have got hold of: a task that tries a record has it  *)
(* for itself, nobody cleans it up, and it has no hash before it is         *)
(* recorded.                                                               *)
Holding ==
  /\ \A t \in Track :
       /\ cand[t] # None => rec[cand[t]] # "unused"
       /\ at[t] \in {"scrape", "add", "record", "bind", "join", "drop"} => cand[t] # None
       /\ at[t] \in {"scrape", "add", "record"} => cand[t] \notin hashed
       /\ at[t] \in {"bind", "join"} => copy[t] \in Following
       /\ Trying(t) => cand[t] \in live /\ sweep[cand[t]] = "none"
  /\ \A t, u \in Track : Trying(t) /\ Trying(u) /\ cand[t] = cand[u] => t = u
  /\ \A r \in Rec : /\ sweep[r] # "none" => rec[r] # "unused"
                    /\ sweep[r] = "delete" => r \notin hashed

(* A record has its hash as long as it is followed, and one whose status   *)
(* the tracks are told has one that a track can have.                      *)
Recorded ==
  /\ \A r \in Rec : rec[r] \in Following => r \in hashed
  /\ \A r \in hashed : rec[r] \in Following \cup Ended \cup {"absent", "candidate_cleanup_failed"}
  /\ report \subseteq hashed /\ deleting \subseteq hashed
  /\ \A r \in report :
       rec[r] \in {"refreshing_library", "library_refreshed", "candidate_cleanup_failed"}
                    \cup (Retryable \ {"not_found"})

TypeInv == TypeOK /\ Loaded /\ Holding /\ Recorded

-----------------------------------------------------------------------------
(* The record with the highest number is one of them. *)
LEMMA MaxType ==
  ASSUME NEW R \in SUBSET Rec, R # {}
  PROVE  Max(R) \in R
<1> DEFINE Below == OpToRel(<, Nat)
           Rest(r) == MaxRecords - r
           Rests == {Rest(r) : r \in R}
<1>1. /\ R \subseteq Nat /\ \A r \in R : Rest(r) \in Nat
      /\ \A r, s \in R : Rest(s) >= Rest(r) => r >= s
  BY PlaylistAssumption DEF Rec
<1>2. IsWellFoundedOn(Below, Nat)
  BY NatLessThanWellFounded
<1>3. \A i, k \in Nat : k < i => <<k, i>> \in Below
  BY DEF OpToRel
<1>4. Rests \subseteq Nat /\ Rests # {}
  BY <1>1
<1> HIDE DEF Below, Rests
<1>5. PICK i \in Rests : \A k \in Rests : ~ (<<k, i>> \in Below)
  BY <1>2, <1>4, WFMin, Zenon
<1>6. \A k \in Rests : k >= i
  <2> TAKE k \in Rests
  <2>1. i \in Nat /\ k \in Nat
    BY <1>4
  <2>2. ~ (k < i)
    BY <2>1, <1>3, <1>5, Zenon
  <2> QED
    BY <2>1, <2>2
<1>7. PICK r \in R : i = Rest(r)
  BY <1>5 DEF Rests
<1>8. \A s \in R : Rest(s) >= Rest(r)
  BY <1>6, <1>7 DEF Rests
<1>9. \A s \in R : r >= s
  BY <1>1, <1>8
<1> QED
  BY <1>9 DEF Max

LEMMA TypeInit == Init => TypeInv
<1> SUFFICES ASSUME Init PROVE TypeInv
  OBVIOUS
<1> USE PlaylistAssumption DEF Init
<1>1. (CHOOSE x \in Torrent : TRUE) \in Torrent
  OBVIOUS
<1>2. TypeOK
  BY <1>1 DEF TypeOK, Request, Retryable, Seeking, Following, Success, Trial, Ended, None
<1>3. Loaded
  BY DEF Loaded, Load, One, Request
<1>4. Holding
  BY DEF Holding, Trying, None
<1>5. Recorded
  BY DEF Recorded, Following
<1> QED
  BY <1>2, <1>3, <1>4, <1>5 DEF TypeInv

-----------------------------------------------------------------------------
(* Types *)

(* A task that works on a record has one, and at most MaxRequests tasks of  *)
(* a track are there or will be.                                           *)
LEMMA Handles ==
  ASSUME TypeOK, Loaded, Holding, NEW t \in Track
  PROVE  /\ Trying(t) \/ at[t] \in {"join", "drop"} => cand[t] \in Rec
         /\ at[t] \in {"bind", "join"} => copy[t] \in Following
         /\ at[t] # "idle" => jobs[t] < MaxRequests
         /\ \A q \in Request : ask[<<q, t>>] # "none" => jobs[t] < MaxRequests
<1>1. Trying(t) \/ at[t] \in {"join", "drop"} => cand[t] \in Rec
  BY DEF TypeOK, Holding, Trying
<1>2. at[t] \in {"bind", "join"} => copy[t] \in Following
  BY DEF Holding
<1>3. /\ jobs[t] \in Nat /\ requests \in Nat /\ requests <= MaxRequests /\ MaxRequests \in Nat
  BY PlaylistAssumption DEF TypeOK
<1>4. Load(t) <= requests
  BY DEF Loaded
<1>5. \/ at[t] # "idle" \/ ask[<<"one", t>>] # "none" \/ ask[<<"all", t>>] # "none"
      => jobs[t] < MaxRequests
  BY <1>3, <1>4 DEF Load, One
<1> QED
  BY <1>1, <1>2, <1>5 DEF Request

LEMMA GiveUpTypes ==
  ASSUME TypeOK, NEW t \in Track, cand[t] \in Rec, GiveUp(t)
  PROVE  live' \subseteq Rec /\ sweep' \in [Rec -> {"none", "check", "delete"}]
BY DEF TypeOK, GiveUp

LEMMA TypesKept ==
  ASSUME TypeInv, [Next]_vars
  PROVE  TypeOK'
<1> USE PlaylistAssumption
    DEF TypeInv, TypeOK, Retryable, Seeking, Following, Success, Trial, Ended,
        Goto, Told, Present, Complete, Mishap, Requested, Forget,
        playlist, records, asking, running, sweeping, telling, outside, history
<1>1. ASSUME NEW t \in Track, DownloadTrack(t) PROVE TypeOK'
  <2>1. ask' \in [Request \X Track -> {"none", "start", "create"}]
    BY <1>1 DEF DownloadTrack, Request
  <2> QED
    BY <1>1, <2>1 DEF DownloadTrack
<1>2. CASE DownloadAll
  BY <1>2 DEF DownloadAll
<1>3. CASE MatchAll
  <2>1. track' \in [Track -> {"absent", "pending", "interrupted", "candidate_cleanup_failed"}
                     \cup Retryable \cup Seeking \cup Following \cup Success]
    BY <1>3 DEF MatchAll, Matched
  <2>2. ask' \in [Request \X Track -> {"none", "start", "create"}]
    BY <1>3 DEF MatchAll
  <2> QED
    BY <1>3, <2>1, <2>2 DEF MatchAll
<1>4. CASE AllAsked
  BY <1>4 DEF AllAsked
<1>5. ASSUME NEW q \in Request, NEW t \in Track, Queue(q, t) PROVE TypeOK'
  <2>1. ask' \in [Request \X Track -> {"none", "start", "create"}]
    BY <1>5 DEF Queue
  <2>2. /\ track' = [track EXCEPT ![t] = "queue"] \/ track' = track
        /\ bound' = [bound EXCEPT ![t] = None] \/ bound' = bound
    BY <1>5 DEF Queue
  <2> QED
    BY <1>5, <2>1, <2>2 DEF Queue
<1>6. ASSUME NEW q \in Request, NEW t \in Track, Enqueue(q, t) PROVE TypeOK'
  <2>1. ask' \in [Request \X Track -> {"none", "start", "create"}]
    BY <1>6 DEF Enqueue
  <2>2. jobs' \in [Track -> 0..MaxRequests + 1]
    BY <1>6, Handles DEF Enqueue
  <2>3. gap' \subseteq Track /\ made' \subseteq Track
    BY <1>6 DEF Enqueue
  <2> QED
    BY <1>6, <2>1, <2>2, <2>3 DEF Enqueue
<1>7. ASSUME NEW t \in Track, Claim(t) PROVE TypeOK'
  BY <1>7 DEF Claim
<1>8. ASSUME NEW t \in Track, Check(t) PROVE TypeOK'
  <2>1. Carriers(t) # {} => Max(Carriers(t)) \in Rec /\ rec[Max(Carriers(t))] \in Following
    <3>1. Carriers(t) \subseteq Rec
      BY DEF Carriers
    <3> QED
      BY <3>1, MaxType, Zenon DEF Carriers
  <2>2. cand' \in [Track -> Rec \cup {None}] /\ copy' \in [Track -> {"none"} \cup Following]
    <3>1. CASE cand' = cand /\ copy' = copy
      BY <3>1
    <3>2. CASE /\ Carriers(t) # {} /\ cand' = [cand EXCEPT ![t] = Max(Carriers(t))]
               /\ copy' = [copy EXCEPT ![t] = rec[Max(Carriers(t))]]
      BY <2>1, <3>2
    <3> QED
      BY <1>8, <3>1, <3>2, Zenon DEF Check
  <2>3. exists' \subseteq Track
    BY <1>8 DEF Check
  <2>4. \/ track' = track
        \/ \E status \in Seeking \cup Success : track' = Told({t}, status)
    BY <1>8 DEF Check
  <2>5. \E step \in {"end", "join", "next"} : at' = [at EXCEPT ![t] = step]
    BY <1>8 DEF Check
  <2> QED
    BY <1>8, <2>2, <2>3, <2>4, <2>5 DEF Check
<1>9. ASSUME NEW t \in Track, NEW x \in Torrent, Try(t, x) PROVE TypeOK'
  BY <1>9 DEF Try, Untried
<1>10. ASSUME NEW t \in Track, NotFound(t) PROVE TypeOK'
  BY <1>10 DEF NotFound
<1>11. ASSUME NEW t \in Track, SearchFails(t) PROVE TypeOK'
  BY <1>11 DEF SearchFails
<1>12. ASSUME NEW t \in Track, Scrape(t) PROVE TypeOK'
  <2>1. cand[t] \in Rec \/ at[t] = "join"
    BY <1>12, Handles DEF Scrape, Trying
  <2>2. cand[t] \in Rec /\ Drop(t) => live' \subseteq Rec /\ sweep' \in [Rec -> {"none", "check", "delete"}]
    BY GiveUpTypes DEF Drop
  <2> QED
    BY <1>12, <2>1, <2>2 DEF Scrape, Drop
<1>13. ASSUME NEW t \in Track, Add(t) PROVE TypeOK'
  <2>1. cand[t] \in Rec \/ at[t] = "join"
    BY <1>13, Handles DEF Add, Trying
  <2>2. cand[t] \in Rec /\ Drop(t) => live' \subseteq Rec /\ sweep' \in [Rec -> {"none", "check", "delete"}]
    BY GiveUpTypes DEF Drop
  <2> QED
    BY <1>13, <2>1, <2>2 DEF Add, Drop
<1>14. ASSUME NEW t \in Track, Record(t) PROVE TypeOK'
  <2>1. cand[t] \in Rec \/ at[t] = "join"
    BY <1>14, Handles DEF Record, Trying
  <2>2. cand[t] \in Rec /\ Drop(t) => live' \subseteq Rec /\ sweep' \in [Rec -> {"none", "check", "delete"}]
    BY GiveUpTypes DEF Drop
  <2>3. \/ rec' = rec /\ hashed' = hashed /\ copy' = copy /\ Drop(t)
        \/ /\ rec' = [rec EXCEPT ![cand[t]] = "submitted"] /\ hashed' = hashed \cup {cand[t]}
           /\ copy' = [copy EXCEPT ![t] = "submitted"] /\ at' = [at EXCEPT ![t] = "bind"]
           /\ live' = live /\ sweep' = sweep
    BY <1>14, Zenon DEF Record, Goto, sweeping
  <2>4. UNCHANGED <<playlist, of, jobs, asking, tried, cand, telling, outside, history>>
    BY <1>14 DEF Record
  <2>5. CASE Drop(t) /\ UNCHANGED <<rec, hashed, copy>>
    BY <2>1, <2>2, <2>4, <2>5, <1>14 DEF Drop, Record
  <2>6. rec' = [rec EXCEPT ![cand[t]] = "submitted"] /\ hashed' = hashed \cup {cand[t]}
        => /\ rec' \in [Rec -> {"unused", "absent", "candidate_matched"} \cup Trial \cup Following \cup Ended]
           /\ hashed' \subseteq Rec
    BY <1>14, <2>1 DEF Record
  <2> QED
    <3>1. CASE /\ rec' = [rec EXCEPT ![cand[t]] = "submitted"] /\ hashed' = hashed \cup {cand[t]}
               /\ copy' = [copy EXCEPT ![t] = "submitted"] /\ at' = [at EXCEPT ![t] = "bind"]
               /\ live' = live /\ sweep' = sweep
      BY <3>1, <2>4, <2>6
    <3> QED
      BY <2>3, <2>5, <3>1, Zenon
<1>15. ASSUME NEW t \in Track, Bind(t) PROVE TypeOK'
  <2>1. cand[t] \in Rec /\ copy[t] \in Following
    BY <1>15, Handles DEF Bind, Trying
  <2> QED
    BY <1>15, <2>1 DEF Bind
<1>16. ASSUME NEW t \in Track, BindFails(t) PROVE TypeOK'
  <2>1. cand[t] \in Rec \/ at[t] = "join"
    BY <1>16, Handles DEF BindFails, Trying
  <2>2. cand[t] \in Rec /\ Drop(t) => live' \subseteq Rec /\ sweep' \in [Rec -> {"none", "check", "delete"}]
    BY GiveUpTypes DEF Drop
  <2> QED
    BY <1>16, <2>1, <2>2 DEF BindFails, Drop
<1>17. ASSUME NEW t \in Track, Dropped(t) \/ End(t) PROVE TypeOK'
  BY <1>17, SMTT(40) DEF Dropped, End
<1>18. ASSUME NEW r \in Rec, Inspect(r) \/ Remove(r) \/ Reconcile(r) PROVE TypeOK'
  BY <1>18 DEF Inspect, Remove, Reconcile
<1>19. ASSUME NEW r \in Rec, RemoveFails(r) PROVE TypeOK'
  BY <1>19 DEF RemoveFails, Followers
<1>20. ASSUME NEW r \in Rec, NEW status \in Following \cup Ended, Advance(r, status) PROVE TypeOK'
  BY <1>20 DEF Advance, Onward
<1>21. ASSUME NEW r \in Rec, RefreshSkipped(r) PROVE TypeOK'
  BY <1>21 DEF RefreshSkipped, Followers
<1>22. ASSUME NEW r \in Rec, Tell(r) PROVE TypeOK'
  BY <1>22 DEF Tell, Concluded, Unmatched, Followers, Recorded
<1>23. ASSUME NEW t \in Track, Interrupt(t) PROVE TypeOK'
  <2>1. Trying(t) => cand[t] \in Rec
    BY Handles
  <2>2. jobs' \in [Track -> 0..MaxRequests + 1]
    BY <1>23 DEF Interrupt
  <2>3. live' \subseteq Rec /\ sweep' \in [Rec -> {"none", "check", "delete"}]
    BY <1>23, <2>1, GiveUpTypes DEF Interrupt
  <2>4. orphan' \subseteq Torrent
    BY <1>23, <2>1 DEF Interrupt, Trying
  <2> QED
    BY <1>23, <2>2, <2>3, <2>4, SMTT(40) DEF Interrupt
<1>24. ASSUME NEW t \in Track, TellCut(t) PROVE TypeOK'
  BY <1>24 DEF TellCut
<1>25. ASSUME NEW r \in Rec, Delete(r) PROVE TypeOK'
  BY <1>25 DEF Delete, Concluded, Unmatched, Followers
<1>26. ASSUME NEW r \in Rec, Deleted(r) PROVE TypeOK'
  BY <1>26 DEF Deleted, Followers
<1>27. ASSUME NEW kept \in SUBSET Track, Import(kept) PROVE TypeOK'
  BY <1>27 DEF Import
<1>28. ASSUME NEW t \in Track, Gain(t) \/ Lose(t) PROVE TypeOK'
  BY <1>28 DEF Gain, Lose
<1>29. ASSUME NEW t \in Track, Match(t) PROVE TypeOK'
  BY <1>29 DEF Match, Matched
<1>30. CASE Crash
  <2>1. jobs' \in [Track -> 0..MaxRequests + 1]
    <3>1. \A t \in Track : at[t] # "idle" => jobs[t] + 1 \in 0..MaxRequests + 1
      BY Handles
    <3> QED
      BY <1>30, <3>1 DEF Crash
  <2>2. ask' \in [Request \X Track -> {"none", "start", "create"}]
    BY <1>30 DEF Crash
  <2>3. orphan' \subseteq Torrent
    <3>1. \A t \in Track : at[t] = "record" => cand[t] \in Rec
      BY Handles DEF Trying
    <3> QED
      BY <1>30, <3>1 DEF Crash
  <2> QED
    BY <1>30, <2>1, <2>2, <2>3 DEF Crash, Unfinished
<1>31. CASE UNCHANGED vars
  BY <1>31 DEF vars
<1> HIDE DEF TypeInv, TypeOK
<1> QED
  BY <1>1, <1>2, <1>3, <1>4, <1>5, <1>6, <1>7, <1>8, <1>9, <1>10, <1>11, <1>12, <1>13, <1>14, <1>15,
     <1>16, <1>17, <1>18, <1>19, <1>20, <1>21, <1>22, <1>23, <1>24, <1>25, <1>26, <1>27, <1>28, <1>29,
     <1>30, <1>31
  DEF Next, Ask, Run, Clean, Progress

-----------------------------------------------------------------------------
(* How many tasks there can be *)

(* A step that makes no request and no task, and begins no task.           *)
Unloaded ==
  /\ UNCHANGED <<jobs, ask, all, requests>>
  /\ \A t \in Track : at'[t] = "idle" \/ at[t] # "idle"

LEMMA LoadKept ==
  ASSUME TypeInv, [Next]_vars
  PROVE  Loaded'
<1> USE PlaylistAssumption DEF TypeInv, TypeOK, Loaded, Load, One
<1>1. CASE Unloaded
  BY <1>1 DEF Unloaded
<1>2. ASSUME NEW t \in Track, DownloadTrack(t) PROVE Loaded'
  BY <1>2 DEF DownloadTrack, Requested, Request, running
<1>3. CASE DownloadAll
  <2>1. /\ all = "none" /\ all' = "match" /\ requests' = requests + 1
        /\ UNCHANGED <<jobs, ask, at>>
    BY <1>3 DEF DownloadAll, Requested, running
  <2>2. ASSUME NEW t \in Track PROVE Load(t)' <= requests'
    <3> DEFINE rest == jobs[t] + One(at[t] # "idle") + One(ask[<<"one", t>>] # "none")
    <3>1. rest \in Nat /\ requests \in Nat
      OBVIOUS
    <3>2. ask[<<"all", t>>] = "none"
      BY <2>1
    <3>3. Load(t) = rest
      BY <2>1, <3>1, <3>2
    <3>4. Load(t)' = rest + 1
      BY <2>1, <3>1
    <3>5. Load(t) <= requests
      OBVIOUS
    <3> HIDE DEF rest, Load
    <3> QED
      BY <2>1, <3>1, <3>3, <3>4, <3>5
  <2> QED
    BY <2>1, <2>2
<1>4. CASE MatchAll
  BY <1>4 DEF MatchAll, Mishap, Request, running, history
<1>5. CASE AllAsked
  BY <1>5 DEF AllAsked, running, history
<1>6. ASSUME NEW q \in Request, NEW t \in Track, Queue(q, t) PROVE Loaded'
  BY <1>6 DEF Queue, Request, running, history
<1>7. ASSUME NEW q \in Request, NEW t \in Track, Enqueue(q, t) PROVE Loaded'
  BY <1>7 DEF Enqueue, Request, running
<1>8. ASSUME NEW t \in Track, Claim(t) PROVE Loaded'
  BY <1>8 DEF Claim, Goto, asking, history
<1>9. ASSUME NEW t \in Track, Interrupt(t) PROVE Loaded'
  BY <1>9 DEF Interrupt, Goto, Mishap, asking, running
<1>10. CASE Crash
  BY <1>10, SMTT(40) DEF Crash, Mishap, Request
<1>11. ASSUME NEW t \in Track,
              \/ Check(t) \/ (\E x \in Torrent : Try(t, x)) \/ NotFound(t) \/ SearchFails(t)
              \/ Scrape(t) \/ Add(t) \/ Record(t) \/ Bind(t) \/ BindFails(t) \/ Dropped(t) \/ End(t)
       PROVE Unloaded
  BY <1>11 DEF Unloaded, Check, Try, NotFound, SearchFails, Scrape, Add, Record, Bind, BindFails,
               Dropped, End, Drop, Goto, Mishap, asking, history
<1>12. ASSUME NEW r \in Rec,
              \/ Clean(r) \/ RemoveFails(r) \/ Progress(r) \/ RefreshSkipped(r)
              \/ Tell(r) \/ Delete(r) \/ Deleted(r)
       PROVE Unloaded
  BY <1>12 DEF Unloaded, Clean, Inspect, Remove, Reconcile, RemoveFails, Progress, Advance,
               RefreshSkipped, Tell, Delete, Deleted, Mishap, asking, running, history
<1>13. ASSUME NEW t \in Track,
              \/ TellCut(t) \/ Gain(t) \/ Lose(t) \/ Match(t)
              \/ Import(Track \ {t}) \/ Import(Track)
       PROVE Unloaded
  BY <1>13 DEF Unloaded, TellCut, Gain, Lose, Match, Import, Mishap, asking, running, history
<1>14. CASE UNCHANGED vars
  BY <1>14 DEF Unloaded, vars, asking, running, history
<1> HIDE DEF TypeInv, TypeOK, Loaded
<1> QED
  BY <1>1, <1>2, <1>3, <1>4, <1>5, <1>6, <1>7, <1>8, <1>9, <1>10, <1>11, <1>12, <1>13, <1>14
  DEF Next, Ask, Run

-----------------------------------------------------------------------------
(* Who works on which record *)

(* A step that touches nothing of this.                                    *)
Elsewhere == UNCHANGED <<at, cand, copy, rec, hashed, live, sweep>>

LEMMA OtherSteps ==
  ASSUME [Next]_vars
  PROVE  \/ Elsewhere
         \/ \E t \in Track : \/ Claim(t) \/ Run(t) \/ SearchFails(t) \/ BindFails(t) \/ Interrupt(t)
         \/ \E r \in Rec : \/ Clean(r) \/ RemoveFails(r) \/ Progress(r) \/ RefreshSkipped(r) \/ Deleted(r)
         \/ Crash
<1>1. CASE DownloadAll \/ Ask \/ UNCHANGED vars
  BY <1>1 DEF Elsewhere, DownloadAll, Ask, MatchAll, AllAsked, Queue, Enqueue, vars, records, running, sweeping
<1>2. ASSUME NEW t \in Track,
             \/ DownloadTrack(t) \/ TellCut(t) \/ Gain(t) \/ Lose(t) \/ Match(t)
             \/ Import(Track \ {t}) \/ Import(Track)
      PROVE Elsewhere
  BY <1>2 DEF Elsewhere, DownloadTrack, TellCut, Gain, Lose, Match, Import, records, running, sweeping
<1>3. ASSUME NEW r \in Rec, Tell(r) \/ Delete(r) PROVE Elsewhere
  BY <1>3 DEF Elsewhere, Tell, Delete, records, running, sweeping
<1> HIDE DEF Elsewhere
<1> QED
  BY <1>1, <1>2, <1>3 DEF Next

(* Whoever gives its record up does not try it any more.                   *)
LEMMA DropKept ==
  ASSUME TypeOK, Holding, NEW t \in Track, Trying(t), GiveUp(t), UNCHANGED <<rec, hashed>>,
         \/ Goto(t, "drop") /\ UNCHANGED <<cand, copy>>
         \/ Goto(t, "idle") /\ Forget({t})
  PROVE  Holding'
BY SMTT(40) DEF TypeOK, Holding, Trying, GiveUp, Goto, Forget, None

LEMMA DropHolds ==
  ASSUME TypeOK, Holding, NEW t \in Track, Trying(t), Drop(t), UNCHANGED <<rec, hashed, cand, copy>>
  PROVE  Holding'
BY DropKept DEF Drop

LEMMA HoldingKept ==
  ASSUME TypeInv, [Next]_vars
  PROVE  Holding'
<1> USE DEF TypeInv, TypeOK, Holding, Trying, Goto
<1>1. CASE Elsewhere
  BY <1>1 DEF Elsewhere
<1>2. ASSUME NEW t \in Track, Claim(t) \/ NotFound(t) \/ SearchFails(t) \/ Dropped(t) PROVE Holding'
  BY <1>2 DEF Claim, NotFound, SearchFails, Dropped, records, sweeping
<1>3. None \notin Rec
  BY DEF None, Rec
<1>4. ASSUME NEW t \in Track, Check(t) PROVE Holding'
  <2>1. Carriers(t) # {} => Max(Carriers(t)) \in Rec /\ rec[Max(Carriers(t))] \in Following
    <3>1. Carriers(t) \subseteq Rec
      BY DEF Carriers
    <3> QED
      BY <3>1, MaxType, Zenon DEF Carriers
  <2>2. CASE UNCHANGED <<cand, copy>> /\ \E step \in {"end", "next"} : at' = [at EXCEPT ![t] = step]
    BY <1>4, <2>2 DEF Check, records, sweeping
  <2>3. CASE /\ Carriers(t) # {} /\ cand' = [cand EXCEPT ![t] = Max(Carriers(t))]
             /\ copy' = [copy EXCEPT ![t] = rec[Max(Carriers(t))]]
             /\ at' = [at EXCEPT ![t] = "join"]
    BY <1>3, <1>4, <2>1, <2>3 DEF Check, Following, records, sweeping
  <2> QED
    BY <1>4, <2>2, <2>3, Zenon DEF Check
<1>5. ASSUME NEW t \in Track, NEW x \in Torrent, Try(t, x) PROVE Holding'
  <2>1. PICK r \in Rec :
          /\ rec[r] = "unused" /\ rec' = [rec EXCEPT ![r] = "pre_scraping"]
          /\ cand' = [cand EXCEPT ![t] = r] /\ live' = live \cup {r}
    BY <1>5 DEF Try
  <2>2. r \notin hashed /\ sweep[r] = "none" /\ r # None /\ \A u \in Track : cand[u] # r
    BY <1>3, <2>1 DEF Recorded, Following, Ended, Retryable
  <2>3. at' = [at EXCEPT ![t] = "scrape"] /\ UNCHANGED <<copy, hashed, sweep>>
    BY <1>5 DEF Try
  <2> QED
    BY <2>1, <2>2, <2>3
<1>6. ASSUME NEW t \in Track, Scrape(t) PROVE Holding'
  <2>1. CASE Drop(t) /\ UNCHANGED rec
    BY <1>6, <2>1, DropHolds DEF Scrape
  <2>2. CASE at' = [at EXCEPT ![t] = "add"] /\ rec' = [rec EXCEPT ![cand[t]] = "candidate_matched"]
             /\ UNCHANGED sweeping
    BY <1>6, <2>2 DEF Scrape, sweeping
  <2> QED
    BY <1>6, <2>1, <2>2, Zenon DEF Scrape
<1>7. ASSUME NEW t \in Track, Add(t) PROVE Holding'
  <2>1. CASE Drop(t)
    BY <1>7, <2>1, DropHolds DEF Add, records
  <2>2. CASE at' = [at EXCEPT ![t] = "record"] /\ UNCHANGED sweeping
    BY <1>7, <2>2 DEF Add, records, sweeping
  <2> QED
    BY <1>7, <2>1, <2>2, Zenon DEF Add
<1>8. ASSUME NEW t \in Track, Record(t) PROVE Holding'
  <2>1. CASE Drop(t) /\ UNCHANGED <<rec, hashed, copy>>
    BY <1>8, <2>1, DropHolds DEF Record
  <2>2. CASE /\ rec' = [rec EXCEPT ![cand[t]] = "submitted"] /\ hashed' = hashed \cup {cand[t]}
             /\ copy' = [copy EXCEPT ![t] = "submitted"] /\ at' = [at EXCEPT ![t] = "bind"]
             /\ UNCHANGED sweeping
    BY <1>8, <2>2 DEF Record, Following, sweeping
  <2> QED
    BY <1>8, <2>1, <2>2, Zenon DEF Record
<1>9. ASSUME NEW t \in Track, Bind(t) PROVE Holding'
  BY <1>9 DEF Bind, records
<1>10. ASSUME NEW t \in Track, BindFails(t) PROVE Holding'
  <2>1. CASE at[t] = "bind" /\ Drop(t)
    BY <1>10, <2>1, DropHolds DEF BindFails, records
  <2>2. CASE at' = [at EXCEPT ![t] = "end"] /\ UNCHANGED sweeping
    BY <1>10, <2>2 DEF BindFails, records, sweeping
  <2> QED
    BY <1>10, <2>1, <2>2, Zenon DEF BindFails
<1>11. ASSUME NEW t \in Track, End(t) PROVE Holding'
  BY <1>11 DEF End, Forget, None, records, sweeping
<1>12. ASSUME NEW t \in Track, Interrupt(t) PROVE Holding'
  BY <1>12, DropKept DEF Interrupt, Forget, None, records, running, sweeping
<1>13. ASSUME NEW r \in Rec, Clean(r) PROVE Holding'
  BY <1>13 DEF Clean, Inspect, Remove, Reconcile, Stale, Submitted, Trial, records, running
<1>14. ASSUME NEW r \in Rec, RemoveFails(r) PROVE Holding'
  BY <1>14 DEF RemoveFails, running
<1>15. ASSUME NEW r \in Rec, Progress(r) \/ RefreshSkipped(r) \/ Deleted(r) PROVE Holding'
  BY <1>15 DEF Progress, Advance, Onward, RefreshSkipped, Deleted, running, sweeping
<1>16. CASE Crash
  BY <1>16 DEF Crash, Forget, None, records
<1> HIDE DEF TypeInv, TypeOK, Holding
<1> QED
  BY <1>1, <1>2, <1>4, <1>5, <1>6, <1>7, <1>8, <1>9, <1>10, <1>11, <1>12, <1>13, <1>14, <1>15, <1>16,
     OtherSteps
  DEF Run

-----------------------------------------------------------------------------
(* What the records are *)

LEMMA RecordSteps ==
  ASSUME [Next]_vars
  PROVE  \/ UNCHANGED <<rec, hashed, report, deleting>>
         \/ \E t \in Track : (\E x \in Torrent : Try(t, x)) \/ Scrape(t) \/ Record(t)
         \/ \E r \in Rec : \/ Inspect(r) \/ Remove(r) \/ RemoveFails(r) \/ RefreshSkipped(r)
                           \/ Tell(r) \/ Delete(r) \/ Deleted(r)
                           \/ \E status \in Following \cup Ended : Advance(r, status)
         \/ Crash
<1>1. ASSUME NEW t \in Track,
              \/ DownloadTrack(t) \/ Claim(t) \/ Check(t) \/ NotFound(t) \/ SearchFails(t) \/ Add(t)
              \/ Bind(t) \/ BindFails(t) \/ Dropped(t) \/ End(t) \/ Interrupt(t) \/ TellCut(t)
              \/ Gain(t) \/ Lose(t) \/ Match(t) \/ Import(Track \ {t}) \/ Import(Track)
       PROVE UNCHANGED <<rec, hashed, report, deleting>>
  BY <1>1 DEF DownloadTrack, Claim, Check, NotFound, SearchFails, Add, Bind, BindFails, Dropped, End,
              Interrupt, TellCut, Gain, Lose, Match, Import, records, telling
<1>2. ASSUME DownloadAll \/ Ask \/ (\E r \in Rec : Reconcile(r)) \/ UNCHANGED vars
       PROVE UNCHANGED <<rec, hashed, report, deleting>>
  BY <1>2 DEF DownloadAll, Ask, MatchAll, AllAsked, Queue, Enqueue, Reconcile, vars, records, telling
<1> QED
  BY <1>1, <1>2 DEF Next, Run, Clean, Progress

LEMMA RecordedKept ==
  ASSUME TypeInv, [Next]_vars
  PROVE  Recorded'
<1> USE DEF TypeInv, TypeOK, Recorded, Following, Ended, Retryable, Trial
<1>1. ASSUME NEW t \in Track, NEW x \in Torrent, Try(t, x) PROVE Recorded'
  BY <1>1 DEF Try, telling
<1>2. ASSUME NEW t \in Track, Scrape(t) PROVE Recorded'
  <2>1. cand[t] \in Rec /\ cand[t] \notin hashed
    BY <1>2 DEF Scrape, Holding
  <2> QED
    BY <1>2, <2>1 DEF Scrape, telling
<1>3. ASSUME NEW t \in Track, Record(t) PROVE Recorded'
  BY <1>3 DEF Record, Holding, telling
<1>4. ASSUME NEW r \in Rec, Inspect(r) \/ Remove(r) \/ RemoveFails(r) PROVE Recorded'
  BY <1>4, SMTT(40) DEF Inspect, Submitted, Remove, RemoveFails, Holding, telling
<1>5. ASSUME NEW r \in Rec, NEW status, Advance(r, status) PROVE Recorded'
  BY <1>5 DEF Advance, Onward
<1>6. ASSUME NEW r \in Rec, RefreshSkipped(r) PROVE Recorded'
  BY <1>6 DEF RefreshSkipped, telling
<1>7. ASSUME NEW r \in Rec, Deleted(r) PROVE Recorded'
  BY <1>7 DEF Deleted
<1>8. ASSUME NEW r \in Rec, Tell(r) \/ Delete(r) PROVE Recorded'
  BY <1>8 DEF Tell, Delete, records
<1>9. CASE UNCHANGED <<rec, hashed, report, deleting>>
  BY <1>9
<1>10. CASE Crash
  BY <1>10 DEF Crash, records
<1> HIDE DEF TypeInv, TypeOK, Recorded
<1> QED
  BY <1>1, <1>2, <1>3, <1>4, <1>5, <1>6, <1>7, <1>8, <1>9, <1>10, RecordSteps

LEMMA TypeStep == TypeInv /\ [Next]_vars => TypeInv'
BY TypesKept, LoadKept, HoldingKept, RecordedKept DEF TypeInv

(* Whatever the interleaving of tasks, cleanups, polls, requests and       *)
(* mishaps, every variable keeps its type, no track has more tasks than    *)
(* there were requests, and every record that is tried has one task that   *)
(* tries it and no cleanup.                                                *)
THEOREM TypeCorrect == Spec => []TypeInv
BY TypeInit, TypeStep, PTL DEF Spec

-----------------------------------------------------------------------------
(* Records that go *)

LEMMA GoneStep ==
  ASSUME TypeInv, [Next]_vars, NEW r \in Rec, rec[r] # "absent", rec'[r] = "absent"
  PROVE  r \in deleting \/ sweep[r] = "delete"
<1> USE DEF TypeInv, TypeOK
<1>1. ASSUME NEW t \in Track, NEW x \in Torrent, Try(t, x) PROVE FALSE
  BY <1>1 DEF Try
<1>2. ASSUME NEW t \in Track, Scrape(t) \/ Record(t) PROVE FALSE
  BY <1>2 DEF Scrape, Record
<1>3. ASSUME NEW s \in Rec, Inspect(s) \/ RemoveFails(s) \/ RefreshSkipped(s) PROVE FALSE
  BY <1>3 DEF Inspect, RemoveFails, RefreshSkipped
<1>4. ASSUME NEW s \in Rec, Remove(s) \/ Deleted(s) PROVE s = r
  BY <1>4 DEF Remove, Deleted
<1>5. ASSUME NEW s \in Rec, NEW status \in Following \cup Ended, Advance(s, status) PROVE FALSE
  BY <1>5 DEF Advance, Onward, Following, Ended, Retryable
<1>6. ASSUME NEW s \in Rec, Tell(s) \/ Delete(s) \/ Crash PROVE FALSE
  BY <1>6 DEF Tell, Delete, Crash, records
<1> HIDE DEF TypeInv, TypeOK
<1> QED
  BY <1>1, <1>2, <1>3, <1>4, <1>5, <1>6, RecordSteps DEF Remove, Deleted

(* The cleanup deletes no record that an executor is still trying.         *)
THEOREM SweepsSpareTrials == Spec => SweepsOnlyAbandoned
<1> DEFINE Spared == \A r \in Rec : rec[r] # "absent" /\ rec'[r] = "absent" /\ r \notin deleting =>
                        ~ \E t \in Track : Trying(t) /\ cand[t] = r
<1>1. ASSUME TypeInv, [Next]_vars PROVE Spared
  BY <1>1, GoneStep DEF TypeInv, Holding
<1> QED
  BY <1>1, TypeCorrect, PTL DEF Spec, SweepsOnlyAbandoned

-----------------------------------------------------------------------------
(* Torrents in the downloader *)

(* A step that makes no torrent unknown.                                   *)
Kept ==
  /\ client' \subseteq client /\ orphan \subseteq orphan'
  /\ \A r \in hashed : r \in hashed' /\ of'[r] = of[r] /\ (rec[r] # "absent" => rec'[r] # "absent")
  /\ \A t \in Track : at[t] = "record" => at'[t] = "record" /\ of'[cand'[t]] = of[cand[t]]

LEMMA KeptStep ==
  ASSUME TypeInv, [Next]_vars
  PROVE  \/ Kept \/ Crash \/ \E r \in Rec : Deleted(r)
         \/ \E t \in Track : Add(t) \/ Record(t) \/ Interrupt(t)
<1> USE DEF TypeInv, TypeOK, Kept, Goto
<1>1. ASSUME NEW t \in Track, NEW x \in Torrent, Try(t, x) PROVE Kept
  <2>1. PICK r \in Rec :
          /\ rec[r] = "unused" /\ rec' = [rec EXCEPT ![r] = "pre_scraping"] /\ of' = [of EXCEPT ![r] = x]
          /\ cand' = [cand EXCEPT ![t] = r]
    BY <1>1 DEF Try
  <2>2. r \notin hashed
    BY <2>1 DEF Recorded, Following, Ended, Retryable
  <2>3. \A u \in Track : at[u] = "record" => u # t /\ cand[u] \in Rec /\ cand[u] # r
    BY <1>1, <2>1 DEF Try, Holding, None
  <2>4. \A u \in Track : at[u] = "record" => at'[u] = "record"
    BY <1>1 DEF Try
  <2> QED
    BY <1>1, <2>1, <2>2, <2>3, <2>4 DEF Try, outside, history
<1>2. ASSUME NEW t \in Track, Scrape(t) PROVE Kept
  BY <1>2 DEF Scrape, Drop, outside, history
<1>3. ASSUME NEW t \in Track, Check(t) PROVE Kept
  BY <1>3 DEF Check, outside, history, records
<1>4. ASSUME NEW t \in Track,
             Claim(t) \/ NotFound(t) \/ SearchFails(t) \/ Bind(t) \/ BindFails(t) \/ Dropped(t)
      PROVE Kept
  BY <1>4 DEF Claim, NotFound, SearchFails, Bind, BindFails, Dropped, Drop, Mishap, outside, history, records
<1>5. ASSUME NEW t \in Track, End(t) PROVE Kept
  BY <1>5 DEF End, Forget, outside, history, records
<1>6. ASSUME NEW r \in Rec, Inspect(r) \/ Reconcile(r) \/ RemoveFails(r) \/ RefreshSkipped(r) PROVE Kept
  BY <1>6 DEF Inspect, Reconcile, RemoveFails, RefreshSkipped, Mishap, outside, history, records, running
<1>7. ASSUME NEW r \in Rec, Remove(r) PROVE Kept
  BY <1>7 DEF Remove, Holding, outside, history, running
<1>8. ASSUME NEW r \in Rec, NEW status, Advance(r, status) PROVE Kept
  BY <1>8 DEF Advance, Onward, outside, history, running
<1>9. ASSUME NEW r \in Rec, Tell(r) \/ Delete(r) PROVE Kept
  BY <1>9 DEF Tell, Delete, Mishap, outside, history, records, running
<1>10. CASE DownloadAll \/ Ask \/ UNCHANGED vars
  BY <1>10, ZenonT(60) DEF DownloadAll, Ask, MatchAll, AllAsked, Queue, Enqueue, Mishap, Requested, vars, records,
               running, outside, history
<1>11. ASSUME NEW t \in Track,
              \/ DownloadTrack(t) \/ TellCut(t) \/ Gain(t) \/ Lose(t) \/ Match(t)
              \/ Import(Track \ {t}) \/ Import(Track)
       PROVE Kept
  BY <1>11 DEF DownloadTrack, TellCut, Gain, Lose, Match, Import, Mishap, Requested, records,
               running, outside, history
<1> HIDE DEF TypeInv, TypeOK, Kept
<1> QED
  BY <1>1, <1>2, <1>3, <1>4, <1>5, <1>6, <1>7, <1>8, <1>9, <1>10, <1>11
  DEF Next, Run, Clean, Progress

LEMMA KnownStep ==
  ASSUME TypeInv, TorrentsKnown, [Next]_vars
  PROVE  TorrentsKnown'
<1> USE DEF TypeInv, TypeOK, TorrentsKnown
<1>1. CASE Kept
  BY <1>1 DEF Kept
<1>2. ASSUME NEW t \in Track, Add(t) PROVE TorrentsKnown'
  BY <1>2 DEF Add, Drop, Goto, Mishap, records, history
<1>3. ASSUME NEW t \in Track, Record(t) PROVE TorrentsKnown'
  <2>1. cand[t] \in Rec
    BY <1>3, Handles DEF Record, Trying
  <2>2. \E r \in hashed' : of'[r] = of[cand[t]] /\ rec'[r] # "absent"
    BY <1>3, <2>1 DEF Record, Twin
  <2>3. \A r \in hashed : r \in hashed' /\ of'[r] = of[r] /\ (rec[r] # "absent" => rec'[r] # "absent")
    BY <1>3, <2>1 DEF Record
  <2>4. \A u \in Track \ {t} : at'[u] = at[u] /\ cand'[u] = cand[u] /\ of'[cand[u]] = of[cand[u]]
    BY <1>3 DEF Record, Drop, Goto
  <2>5. UNCHANGED <<client, orphan>>
    BY <1>3 DEF Record, outside, history
  <2> QED
    BY <2>2, <2>3, <2>4, <2>5
<1>4. ASSUME NEW t \in Track, Interrupt(t) PROVE TorrentsKnown'
  BY <1>4 DEF Interrupt, Goto, Forget, Mishap, records, running, outside
<1>5. ASSUME NEW r \in Rec, Deleted(r) PROVE TorrentsKnown'
  BY <1>5 DEF Deleted, Recorded, running, outside
<1>6. CASE Crash
  BY <1>6 DEF Crash, Mishap, records, outside
<1> HIDE DEF TypeInv, TypeOK, TorrentsKnown
<1> QED
  BY <1>1, <1>2, <1>3, <1>4, <1>5, <1>6, KeptStep

(* No cleanup, deletion or restart leaves a torrent in the downloader that *)
(* no record stands for, but the ones in orphan.                           *)
THEOREM TorrentsStayKnown == Spec => []TorrentsKnown
<1>1. Init => TorrentsKnown
  BY DEF Init, TorrentsKnown
<1> QED
  BY <1>1, KnownStep, TypeCorrect, PTL DEF Spec

-----------------------------------------------------------------------------
(* Tracks in progress *)

(* A task that is about to end answers for its track no more.              *)
Claimed(t) ==
  \/ jobs[t] > 0 \/ at[t] \notin {"idle", "end"} \/ t \in cut
  \/ \E q \in Request : ask[<<q, t>>] = "create"

SeekingInv == \A t \in Track \ gap : track[t] \in Seeking => Claimed(t)

FollowingInv ==
  /\ \A t \in exists : track[t] \notin Following
  /\ \A t \in Track \ gap : track[t] \in Following =>
       /\ bound[t] # None
       /\ rec[bound[t]] \in Following \/ bound[t] \in report

(* A step after which no track is in progress without a claim that was not *)
(* so before.                                                              *)
Answered ==
  /\ gap \subseteq gap'
  /\ \A u \in Track : track'[u] \in Seeking /\ ~Claimed(u)' => track[u] \in Seeking /\ ~Claimed(u)

(* Requests that are about to make a task go on doing so.                  *)
LEMMA StillAsked ==
  ASSUME TypeOK, NEW q \in Request, NEW t \in Track, NEW step, ask' = [ask EXCEPT ![<<q, t>>] = step],
         ask[<<q, t>>] # "create"
  PROVE  \A p \in Request, u \in Track : ask[<<p, u>>] = "create" => ask'[<<p, u>>] = "create"
BY DEF TypeOK

LEMMA AnsweredStep ==
  ASSUME TypeInv, [Next]_vars
  PROVE  \/ Answered \/ Crash
         \/ \E t \in Track : \/ End(t) \/ Interrupt(t) \/ TellCut(t)
                             \/ \E q \in Request : Queue(q, t) \/ Enqueue(q, t)
<1> USE DEF TypeInv, TypeOK, Claimed, Answered, Seeking, Goto, Told, Present, Mishap, Requested,
            playlist, asking, running, telling, history
<1>1. ASSUME NEW t \in Track, DownloadTrack(t) PROVE Answered
  <2>1. "one" \in Request
    BY DEF Request
  <2>2. \A p \in Request, u \in Track : ask[<<p, u>>] = "create" => ask'[<<p, u>>] = "create"
    BY <1>1, <2>1, StillAsked DEF DownloadTrack
  <2>3. UNCHANGED <<track, jobs, at, cut, gap>>
    BY <1>1 DEF DownloadTrack
  <2> QED
    BY <2>2, <2>3
<1>2. CASE DownloadAll \/ AllAsked
  BY <1>2 DEF DownloadAll, AllAsked
<1>3. CASE MatchAll
  <2>1. \A p \in Request, u \in Track : ask[<<p, u>>] = "create" => ask'[<<p, u>>] = "create"
    <3>1. all # "wait" => \A u \in Track : ask[<<"all", u>>] = "none"
      BY DEF Loaded
    <3> QED
      BY <1>3, <3>1 DEF MatchAll, Request
  <2>2. \A u \in Track : track'[u] \in Seeking => track[u] \in Seeking
    BY <1>3 DEF MatchAll, Matched
  <2>3. gap \subseteq gap' /\ UNCHANGED <<jobs, at, cut>>
    BY <1>3 DEF MatchAll
  <2> QED
    BY <2>1, <2>2, <2>3
<1>4. ASSUME NEW t \in Track, Claim(t) PROVE Answered
  BY <1>4 DEF Claim
<1>5. ASSUME NEW t \in Track, Check(t) PROVE Answered
  <2>1. \/ at' = [at EXCEPT ![t] = "join"] /\ UNCHANGED track
        \/ at' = [at EXCEPT ![t] = "end"] /\ track' = Told({t}, "existing")
        \/ at' = [at EXCEPT ![t] = "next"] /\ track' = Told({t}, "searching")
    BY <1>5 DEF Check
  <2>2. UNCHANGED <<jobs, cut, ask>> /\ gap \subseteq gap' /\ at[t] = "check"
    BY <1>5 DEF Check
  <2> QED
    BY <2>1, <2>2
<1>6. ASSUME NEW t \in Track, NEW x \in Torrent, Try(t, x) PROVE Answered
  BY <1>6 DEF Try
<1>7. ASSUME NEW t \in Track, NotFound(t) \/ SearchFails(t) \/ Dropped(t) PROVE Answered
  BY <1>7 DEF NotFound, SearchFails, Dropped
<1>8. ASSUME NEW t \in Track, Scrape(t) \/ Add(t) \/ Record(t) PROVE Answered
  <2>1. \E step \in {"add", "record", "bind", "drop"} : at' = [at EXCEPT ![t] = step]
    BY <1>8 DEF Scrape, Add, Record, Drop
  <2>2. UNCHANGED <<track, jobs, cut, ask>> /\ gap \subseteq gap'
    BY <1>8 DEF Scrape, Add, Record
  <2> QED
    BY <2>1, <2>2
<1>9. ASSUME NEW t \in Track, Bind(t) PROVE Answered
  BY <1>9, Handles DEF Bind, Following
<1>10. ASSUME NEW t \in Track, BindFails(t) PROVE Answered
  <2>1. \/ at' = [at EXCEPT ![t] = "drop"] /\ UNCHANGED track
        \/ at' = [at EXCEPT ![t] = "end"] /\ track' = Told({t}, "failed")
    BY <1>10 DEF BindFails, Drop
  <2>2. UNCHANGED <<jobs, cut, ask>> /\ gap \subseteq gap'
    BY <1>10 DEF BindFails
  <2> QED
    BY <2>1, <2>2
<1>11. ASSUME NEW r \in Rec, Clean(r) \/ RemoveFails(r) \/ Progress(r) PROVE Answered
  BY <1>11 DEF Clean, Inspect, Remove, Reconcile, RemoveFails, Progress, Advance
<1>12. ASSUME NEW r \in Rec, RefreshSkipped(r) \/ Deleted(r) PROVE Answered
  BY <1>12 DEF RefreshSkipped, Deleted
<1>13. ASSUME NEW r \in Rec, Tell(r) PROVE Answered
  <2>1. rec[r] \notin Seeking
    BY <1>13 DEF Tell, Recorded, Retryable
  <2> QED
    BY <1>13, <2>1 DEF Tell
<1>14. ASSUME NEW r \in Rec, Delete(r) PROVE Answered
  BY <1>14 DEF Delete
<1>15. ASSUME NEW t \in Track, Gain(t) \/ Lose(t) PROVE Answered
  BY <1>15 DEF Gain, Lose
<1>16. ASSUME NEW t \in Track, Match(t) PROVE Answered
  BY <1>16 DEF Match, Matched
<1>17. ASSUME NEW kept, Import(kept) PROVE Answered
  BY <1>17 DEF Import
<1>18. CASE UNCHANGED vars
  BY <1>18 DEF vars
<1> HIDE DEF TypeInv, TypeOK, Answered
<1> QED
  BY <1>1, <1>2, <1>3, <1>4, <1>5, <1>6, <1>7, <1>8, <1>9, <1>10, <1>11, <1>12, <1>13, <1>14, <1>15,
     <1>16, <1>17, <1>18
  DEF Next, Ask, Run

LEMMA SeekingStep ==
  ASSUME TypeInv, SeekingInv, [Next]_vars
  PROVE  SeekingInv'
<1> USE DEF TypeInv, TypeOK, SeekingInv, Claimed, Seeking, Goto, Told, Present, Mishap,
            playlist, asking, running, telling, history
<1>1. CASE Answered
  <2> HIDE DEF Claimed
  <2> QED
    BY <1>1 DEF Answered
<1>2. ASSUME NEW t \in Track, End(t) PROVE SeekingInv'
  BY <1>2 DEF End
<1>3. ASSUME NEW t \in Track, Interrupt(t) PROVE SeekingInv'
  BY <1>3 DEF Interrupt
<1>4. ASSUME NEW t \in Track, TellCut(t) PROVE SeekingInv'
  BY <1>4 DEF TellCut
<1>5. ASSUME NEW q \in Request, NEW t \in Track, Queue(q, t) PROVE SeekingInv'
  <2>1. track[t] = "absent" => ask' = [ask EXCEPT ![<<q, t>>] = "none"]
    BY <1>5 DEF Queue
  <2>2. track[t] # "absent" => ask' = [ask EXCEPT ![<<q, t>>] = "create"]
    BY <1>5 DEF Queue
  <2>3. \A p \in Request, u \in Track : ask[<<p, u>>] = "create" => ask'[<<p, u>>] = "create"
    BY <1>5, <2>1, <2>2, StillAsked DEF Queue
  <2>4. track[t] # "absent" => ask'[<<q, t>>] = "create"
    BY <2>2
  <2>5. UNCHANGED <<jobs, at, cut, gap>> /\ \A u \in Track \ {t} : track'[u] = track[u]
    BY <1>5 DEF Queue
  <2>6. track[t] = "absent" => track'[t] = track[t]
    BY <1>5 DEF Queue, Queueable
  <2> QED
    BY <2>3, <2>4, <2>5, <2>6, SMTT(40)
<1>6. ASSUME NEW q \in Request, NEW t \in Track, Enqueue(q, t) PROVE SeekingInv'
  <2>1. \A u \in Track \ {t} : \A p \in Request : ask'[<<p, u>>] = ask[<<p, u>>]
    BY <1>6 DEF Enqueue
  <2>2. jobs'[t] > 0 \/ at[t] \notin {"idle", "end"} \/ t \in gap'
    BY <1>6 DEF Enqueue
  <2>3. UNCHANGED <<track, at, cut>> /\ gap \subseteq gap' /\ \A u \in Track \ {t} : jobs'[u] = jobs[u]
    BY <1>6 DEF Enqueue
  <2>4. ASSUME NEW u \in Track \ {t} PROVE Claimed(u) => Claimed(u)'
    BY <2>1, <2>3
  <2>5. Claimed(t)' \/ t \in gap'
    BY <2>2, <2>3
  <2> HIDE DEF Claimed
  <2> QED
    BY <2>3, <2>4, <2>5
<1>7. CASE Crash
  <2>1. gap' = gap \cup Unfinished /\ UNCHANGED track
    BY <1>7 DEF Crash
  <2>2. \A u \in Track : at[u] # "idle" \/ jobs[u] > 0 => jobs'[u] > 0
    BY <1>7 DEF Crash
  <2> QED
    BY <2>1, <2>2 DEF Unfinished
<1> HIDE DEF TypeInv, TypeOK, SeekingInv
<1> QED
  BY <1>1, <1>2, <1>3, <1>4, <1>5, <1>6, <1>7, AnsweredStep

LEMMA FollowingStep ==
  ASSUME TypeInv, FollowingInv, [Next]_vars
  PROVE  FollowingInv'
<1> USE DEF TypeInv, TypeOK, FollowingInv, Following, Told, Present, Mishap, Requested,
            playlist, records, telling, history
<1>1. ASSUME NEW t \in Track, DownloadTrack(t) \/ Claim(t) \/ Dropped(t) \/ End(t)
      PROVE FollowingInv'
  BY <1>1 DEF DownloadTrack, Claim, Dropped, End
<1>2. CASE DownloadAll \/ AllAsked
  BY <1>2 DEF DownloadAll, AllAsked
<1>3. CASE MatchAll
  BY <1>3 DEF MatchAll, Matched
<1>4. ASSUME NEW q \in Request, NEW t \in Track, Queue(q, t) PROVE FollowingInv'
  BY <1>4 DEF Queue
<1>5. ASSUME NEW q \in Request, NEW t \in Track, Enqueue(q, t) PROVE FollowingInv'
  BY <1>5 DEF Enqueue
<1>6. ASSUME NEW t \in Track, Check(t) PROVE FollowingInv'
  BY <1>6 DEF Check
<1>7. ASSUME NEW t \in Track, NEW x \in Torrent, Try(t, x) PROVE FollowingInv'
  BY <1>7 DEF Try
<1>8. ASSUME NEW t \in Track, NotFound(t) \/ SearchFails(t) \/ BindFails(t) PROVE FollowingInv'
  BY <1>8 DEF NotFound, SearchFails, BindFails
<1>9. ASSUME NEW t \in Track, Scrape(t) PROVE FollowingInv'
  <2>1. cand[t] \in Rec /\ cand[t] \notin hashed
    BY <1>9 DEF Scrape, Holding
  <2>2. rec[cand[t]] \notin Following /\ cand[t] \notin report
    BY <2>1 DEF Recorded
  <2> QED
    BY <1>9, <2>1, <2>2 DEF Scrape
<1>10. ASSUME NEW t \in Track, Add(t) PROVE FollowingInv'
  BY <1>10 DEF Add
<1>11. ASSUME NEW t \in Track, Record(t) PROVE FollowingInv'
  BY <1>11 DEF Record
<1>12. ASSUME NEW t \in Track, Bind(t) PROVE FollowingInv'
  <2>1. cand[t] \in Rec /\ cand[t] # None
    BY <1>12, Handles DEF Bind, Trying, None, Rec
  <2> QED
    BY <1>12, <2>1 DEF Bind
<1>13. ASSUME NEW r \in Rec, Inspect(r) \/ Remove(r) PROVE FollowingInv'
  <2>1. rec' = rec \/ r \notin hashed
    BY <1>13 DEF Inspect, Remove, Submitted, Holding
  <2>2. r \notin hashed => rec[r] \notin Following /\ r \notin report
    BY DEF Recorded
  <2> QED
    BY <1>13, <2>1, <2>2 DEF Inspect, Remove
<1>14. ASSUME NEW r \in Rec, RemoveFails(r) PROVE FollowingInv'
  BY <1>14 DEF RemoveFails, Followers
<1>15. ASSUME NEW r \in Rec, Reconcile(r) PROVE FollowingInv'
  BY <1>15 DEF Reconcile
<1>16. ASSUME NEW r \in Rec, NEW status, Advance(r, status) PROVE FollowingInv'
  BY <1>16 DEF Advance
<1>17. ASSUME NEW r \in Rec, RefreshSkipped(r) PROVE FollowingInv'
  BY <1>17 DEF RefreshSkipped, Followers
<1>18. ASSUME NEW r \in Rec, Tell(r) PROVE FollowingInv'
  <2>1. \A t \in Track : bound[t] # r => track'[t] = track[t] /\ bound'[t] = bound[t]
    BY <1>18 DEF Tell, Unmatched, Followers
  <2>2. \A t \in exists : track'[t] = track[t]
    BY <1>18 DEF Tell, Unmatched
  <2>3. ASSUME NEW t \in Track, bound[t] = r, track'[t] \in Following
        PROVE  bound'[t] = r /\ rec[r] \in Following
    <3>1. t \notin exists /\ track[t] # "existing"
      BY <1>18, <2>3 DEF Tell, Unmatched
    <3>2. track'[t] = rec[r] \/ track[t] = "absent"
      BY <1>18, <2>3, <3>1 DEF Tell, Unmatched, Followers
    <3> QED
      BY <1>18, <2>3, <3>1, <3>2 DEF Tell
  <2>4. UNCHANGED <<exists, rec, gap>> /\ report' = report \ {r}
    BY <1>18 DEF Tell
  <2>5. r # None
    BY DEF Rec, None
  <2> QED
    BY <2>1, <2>2, <2>3, <2>4, <2>5
<1>19. ASSUME NEW r \in Rec, Delete(r) PROVE FollowingInv'
  BY <1>19 DEF Delete, Unmatched, Followers
<1>20. ASSUME NEW r \in Rec, Deleted(r) PROVE FollowingInv'
  BY <1>20 DEF Deleted, Followers
<1>21. ASSUME NEW t \in Track, Interrupt(t) \/ TellCut(t) PROVE FollowingInv'
  BY <1>21 DEF Interrupt, TellCut
<1>22. ASSUME NEW t \in Track, Gain(t) \/ Lose(t) PROVE FollowingInv'
  BY <1>22 DEF Gain, Lose
<1>23. ASSUME NEW t \in Track, Match(t) PROVE FollowingInv'
  BY <1>23 DEF Match, Matched
<1>24. ASSUME NEW kept, Import(kept) PROVE FollowingInv'
  BY <1>24 DEF Import
<1>25. CASE Crash
  <2>1. gap' = gap \cup Unfinished /\ UNCHANGED <<track, exists, bound, rec>>
    BY <1>25 DEF Crash
  <2> QED
    BY <2>1 DEF Unfinished
<1>26. CASE UNCHANGED vars
  BY <1>26 DEF vars
<1> HIDE DEF TypeInv, TypeOK, FollowingInv
<1> QED
  BY <1>1, <1>2, <1>3, <1>4, <1>5, <1>6, <1>7, <1>8, <1>9, <1>10, <1>11, <1>12, <1>13, <1>14, <1>15,
     <1>16, <1>17, <1>18, <1>19, <1>20, <1>21, <1>22, <1>23, <1>24, <1>25, <1>26
  DEF Next, Ask, Run, Clean, Progress

(* A track that is shown as in progress is somebody's responsibility, but  *)
(* the ones in gap; and so is not left to be found in progress forever.    *)
THEOREM TracksAreOwned == Spec => []Owned
<1>1. Init => SeekingInv /\ FollowingInv
  BY DEF Init, SeekingInv, FollowingInv, Seeking, Following
<1>2. SeekingInv /\ FollowingInv => Owned
  BY DEF SeekingInv, FollowingInv, Claimed, Owned
<1> QED
  BY <1>1, <1>2, SeekingStep, FollowingStep, TypeCorrect, PTL DEF Spec
=============================================================================
