--------------------------- MODULE PlaylistDownload ---------------------------
(***************************************************************************)
(* The download of a playlist: the tracks (playlist_tracks), the system    *)
(* tasks PLAYLIST_TRACK_DOWNLOAD that search a torrent for each of them,   *)
(* the candidate records (torrent_records) these create and clean up, and  *)
(* the progress of the submitted ones that the poll reports to the tracks. *)
(* The tasks follow the contract TaskQueue implements: one runner per      *)
(* artist's key, an attempt given back by a restart, an idempotency key    *)
(* for good. A single playlist is modelled. A step is a coroutine's work   *)
(* from one write of the database or call of a service to the next.        *)
(***************************************************************************)
EXTENDS Naturals, FiniteSets, FiniteSetsExt

CONSTANTS
  Track,        \* the tracks of the playlist
  Artist,       \* a function: the artist's key of each track
  Torrent,      \* the search results of all sites
  Holds,        \* a function: the tracks whose music each torrent has
  MaxRecords,   \* bound on the records that are ever created
  MaxRequests,  \* bound on the requests to download the playlist or a track
  MaxMishaps,   \* bound on what Env allows
  Env           \* what may happen besides in a behaviour: subsets of Awkward

(* "crash": the service restarts.                                          *)
(* "error": a call of a coroutine raises, or a deletion fails three times. *)
(* "user": tasks are interrupted, downloads deleted, the playlist imported *)
(*   anew, files removed from the library.                                 *)
(* "skip": the media server is disabled when a download ends.              *)
(* "slow": a record moves on while an executor holds a copy of its status. *)
(* "quick": a track's last task has ended when it is requested again in    *)
(*   the same second.                                                      *)
Awkward == {"crash", "error", "user", "skip", "slow", "quick"}

ASSUME PlaylistAssumption ==
  /\ DOMAIN Artist = Track
  /\ Torrent # {}
  /\ Holds \in [Torrent -> SUBSET Track]
  /\ MaxRecords \in Nat /\ MaxRequests \in Nat /\ MaxMishaps \in Nat
  /\ Env \subseteq SUBSET Awkward

VARIABLES
  \* the database
  plist,     \* status of the playlist
  track,     \* download_status of each track; "absent" if it has no row
  exists,    \* tracks with exists_in_library
  bound,     \* torrent_record_id of each track
  rec,       \* status of each record
  of,        \* the torrent each record was created for
  hashed,    \* records with submitted_at and the torrent's real hash
  jobs,      \* tasks of each track that wait
  \* the coroutines
  ask,       \* step of the coroutine of each request that enqueues a track
  all,       \* step of the request to download the playlist
  at,        \* step of the running task of each track
  tried,     \* the torrents it has tried
  cand,      \* the record it works on
  copy,      \* the status that it read of that record
  live,      \* _active_playlist_candidate_ids
  sweep,     \* step of the coroutine that cleans up each record
  report,    \* records whose new status the tracks have not been told yet
  cut,       \* tracks whose task was interrupted, to be told
  deleting,  \* records the delete request has told the tracks of
  \* the environment and the history
  library,   \* tracks the synchronised music library has
  client,    \* torrents the downloader has
  env, mishaps, requests,
  made,      \* tracks a task was ever created for
  gap,       \* tracks whose responsible coroutine was lost (see Owned)
  orphan     \* torrents that were added by a coroutine that then was lost

playlist == <<plist, track, exists, bound>>
records == <<rec, of, hashed>>
asking == <<ask, all>>
running == <<at, tried, cand, copy>>
sweeping == <<live, sweep>>
telling == <<report, cut, deleting>>
outside == <<library, client, env>>
history == <<mishaps, requests, made, gap, orphan>>
vars == <<playlist, records, jobs, asking, running, sweeping, telling, outside, history>>

Rec == 1..MaxRecords
None == 0
Request == {"one", "all"}

(* source_directory_not_found is one with failed, downloading with         *)
(* submitted, and completed with refreshing_library.                       *)
Retryable == {"failed", "not_found", "deleted"}
(* Of the active statuses, those a track has before and after it is bound. *)
Seeking == {"queue", "searching"}
Following == {"submitted", "refreshing_library"}
Success == {"existing", "library_refreshed"}

Trial == {"pre_scraping", "candidate_cleaning", "candidate_cleanup_failed"}
Ended == {"library_refreshed", "library_refresh_skipped"} \cup (Retryable \ {"not_found"})

TypeOK ==
  /\ plist \in {"synced", "downloading", "failed"}
  /\ track \in [Track -> {"absent", "pending", "interrupted", "candidate_cleanup_failed"}
                            \cup Retryable \cup Seeking \cup Following \cup Success]
  /\ exists \subseteq Track /\ bound \in [Track -> Rec \cup {None}]
  /\ rec \in [Rec -> {"unused", "absent", "candidate_matched"} \cup Trial \cup Following \cup Ended]
  /\ of \in [Rec -> Torrent] /\ hashed \subseteq Rec
  /\ jobs \in [Track -> 0..MaxRequests + 1]
  /\ ask \in [Request \X Track -> {"none", "start", "create"}]
  /\ all \in {"none", "match", "wait"}
  /\ at \in [Track -> {"idle", "check", "next", "scrape", "add", "record", "bind", "join", "drop", "end"}]
  /\ tried \in [Track -> SUBSET Torrent] /\ cand \in [Track -> Rec \cup {None}]
  /\ copy \in [Track -> {"none"} \cup Following]
  /\ live \subseteq Rec /\ sweep \in [Rec -> {"none", "check", "delete"}]
  /\ report \subseteq Rec /\ cut \subseteq Track /\ deleting \subseteq Rec
  /\ library \subseteq Track /\ client \subseteq Torrent /\ env \in Env
  /\ mishaps \in 0..MaxMishaps /\ requests \in 0..MaxRequests
  /\ made \subseteq Track /\ gap \subseteq Track /\ orphan \subseteq Torrent

Init ==
  /\ plist = "synced" /\ track = [t \in Track |-> "pending"]
  /\ exists = {} /\ bound = [t \in Track |-> None]
  /\ rec = [r \in Rec |-> "unused"] /\ of = [r \in Rec |-> CHOOSE x \in Torrent : TRUE]
  /\ hashed = {} /\ jobs = [t \in Track |-> 0]
  /\ ask = [q \in Request \X Track |-> "none"] /\ all = "none"
  /\ at = [t \in Track |-> "idle"] /\ tried = [t \in Track |-> {}]
  /\ cand = [t \in Track |-> None] /\ copy = [t \in Track |-> "none"]
  /\ live = {} /\ sweep = [r \in Rec |-> "none"]
  /\ report = {} /\ cut = {} /\ deleting = {}
  /\ library = {} /\ client = {} /\ env \in Env
  /\ mishaps = 0 /\ requests = 0 /\ made = {} /\ gap = {} /\ orphan = {}

-----------------------------------------------------------------------------
(* Rows of the playlist *)

CanStart(t) == t \notin exists /\ track[t] \in {"pending"} \cup Retryable

(* update_playlist_track: a row that has gone is not updated. *)
Present(ts) == {t \in ts : track[t] # "absent"}
Told(ts, status) == [t \in Track |-> IF t \in Present(ts) THEN status ELSE track[t]]

(* _playlist_has_active_downloads *)
Busy(tracks) == \E t \in Track : tracks[t] \in Seeking \cup Following

(* _update_playlist_download_completion, after the tracks were written. *)
Complete == plist' = IF plist = "downloading" /\ ~Busy(track') THEN "synced" ELSE plist

(* _apply_playlist_track_library_match. It keeps the status of a track     *)
(* that the library neither has nor had.                                   *)
Matched(t) ==
  CASE track[t] = "absent" -> "absent"
    [] track[t] # "absent" /\ t \in library -> "existing"
    [] track[t] = "existing" /\ t \notin library -> "pending"
    [] OTHER -> track[t]

Followers(r) == {t \in Track : bound[t] = r}

(* A mishap that the environment allows; tracks and torrents nobody is     *)
(* responsible for afterwards.                                             *)
Mishap(kind, tracks, torrents) ==
  /\ kind \in env /\ mishaps < MaxMishaps /\ mishaps' = mishaps + 1
  /\ gap' = gap \cup tracks /\ orphan' = orphan \cup torrents
  /\ UNCHANGED <<requests, made>>

-----------------------------------------------------------------------------
(* Requests *)

Requested == requests < MaxRequests /\ requests' = requests + 1 /\ UNCHANGED <<mishaps, made, gap, orphan>>

(* download_playlist_track *)
DownloadTrack(t) ==
  /\ Requested /\ ask[<<"one", t>>] = "none" /\ CanStart(t)
  /\ plist' = "downloading" /\ ask' = [ask EXCEPT ![<<"one", t>>] = "start"]
  /\ UNCHANGED <<track, exists, bound, records, jobs, all, running, sweeping, telling, outside>>

(* download_playlist; the request of a playlist that is being downloaded   *)
(* does nothing.                                                           *)
DownloadAll ==
  /\ Requested /\ all = "none" /\ ~(plist = "downloading" /\ Busy(track))
  /\ plist' = "downloading" /\ all' = "match"
  /\ UNCHANGED <<track, exists, bound, records, jobs, ask, running, sweeping, telling, outside>>

(* _download_playlist_tracks: the tracks are matched with the library and  *)
(* listed; or a call raises.                                               *)
MatchAll ==
  /\ all = "match"
  /\ \/ /\ track' = [t \in Track |-> Matched(t)]
        /\ exists' = Present(library) /\ all' = "wait"
        /\ ask' = [q \in Request \X Track |->
                     IF q[1] = "all" /\ q[2] \notin exists' /\ track'[q[2]] \in {"pending"} \cup Retryable
                     THEN "start" ELSE ask[q]]
        /\ UNCHANGED <<plist, history>>
     \/ /\ plist' = "failed" /\ all' = "none" /\ Mishap("error", {}, {})
        /\ UNCHANGED <<track, exists, ask>>
  /\ UNCHANGED <<bound, records, jobs, running, sweeping, telling, outside>>

AllAsked ==
  /\ all = "wait" /\ \A t \in Track : ask[<<"all", t>>] = "none"
  /\ all' = "none" /\ UNCHANGED track /\ Complete
  /\ UNCHANGED <<exists, bound, records, jobs, ask, running, sweeping, telling, outside, history>>

(* The statuses that _enqueue_playlist_track_download overwrites. *)
Queueable(t) ==
  /\ track[t] # "absent" /\ t \notin exists
  /\ track[t] \notin Following \cup {"library_refreshed"}

(* _enqueue_playlist_track_download, up to the creation of the task. *)
Queue(q, t) ==
  /\ ask[<<q, t>>] = "start"
  /\ ask' = [ask EXCEPT ![<<q, t>>] = IF track[t] = "absent" THEN "none" ELSE "create"]
  /\ IF Queueable(t)
     THEN track' = [track EXCEPT ![t] = "queue"] /\ bound' = [bound EXCEPT ![t] = None]
     ELSE UNCHANGED <<track, bound>>
  /\ UNCHANGED <<plist, exists, records, jobs, all, running, sweeping, telling, outside, history>>

(* The key of a task has its request's second: a second request for the    *)
(* track within it creates none.                                           *)
Enqueue(q, t) ==
  /\ ask[<<q, t>>] = "create" /\ ask' = [ask EXCEPT ![<<q, t>>] = "none"]
  /\ \/ jobs' = [jobs EXCEPT ![t] = @ + 1] /\ made' = made \cup {t} /\ UNCHANGED gap
     \/ /\ t \in made /\ UNCHANGED <<jobs, made>>
        /\ \/ (jobs[t] > 0 \/ at[t] \notin {"idle", "end"}) /\ UNCHANGED gap
           \/ "quick" \in env /\ jobs[t] = 0 /\ at[t] \in {"idle", "end"} /\ gap' = gap \cup {t}
  /\ UNCHANGED <<playlist, records, all, running, sweeping, telling, outside, mishaps, requests, orphan>>

-----------------------------------------------------------------------------
(* PlaylistTrackDownloadExecutor *)

Goto(t, step) == at' = [at EXCEPT ![t] = step]

(* What a coroutine knew goes with it. *)
Forget(ts) ==
  /\ tried' = [t \in Track |-> IF t \in ts THEN {} ELSE tried[t]]
  /\ cand' = [t \in Track |-> IF t \in ts THEN None ELSE cand[t]]
  /\ copy' = [t \in Track |-> IF t \in ts THEN "none" ELSE copy[t]]

(* The queue runs one task of each artist. *)
Claim(t) ==
  /\ jobs[t] > 0 /\ \A u \in Track : Artist[u] = Artist[t] => at[u] = "idle"
  /\ jobs' = [jobs EXCEPT ![t] = @ - 1] /\ Goto(t, "check")
  /\ UNCHANGED <<playlist, records, asking, tried, cand, copy, sweeping, telling, outside, history>>

(* list_active_download_task_items, _match_active_download_task_item *)
Carriers(t) == {r \in Rec : rec[r] \in Following /\ t \in Holds[of[r]]}

(* _check_and_download_playlist_track: the library has the track; a        *)
(* download has it; or it has to be searched.                              *)
Check(t) ==
  /\ at[t] = "check"
  /\ \/ /\ t \in library \/ track[t] = "absent"
        /\ track' = Told({t}, "existing") /\ exists' = exists \cup Present({t})
        /\ Goto(t, "end") /\ UNCHANGED <<cand, copy>>
     \/ /\ t \notin library /\ track[t] # "absent" /\ Carriers(t) # {}
        /\ LET r == Max(Carriers(t)) IN
             cand' = [cand EXCEPT ![t] = r] /\ copy' = [copy EXCEPT ![t] = rec[r]]
        /\ Goto(t, "join") /\ UNCHANGED <<track, exists>>
     \/ /\ t \notin library /\ track[t] # "absent" /\ Carriers(t) = {}
        /\ track' = Told({t}, "searching")
        /\ Goto(t, "next") /\ UNCHANGED <<exists, cand, copy>>
  /\ UNCHANGED <<plist, bound, records, jobs, asking, tried, sweeping, telling, outside, history>>

(* _iter_metadata_download_results_by_site: a result is tried once,        *)
(* whichever keyword and site it comes from.                               *)
Untried(t) == Torrent \ tried[t]

(* _execute_playlist_download: the next result, for which                  *)
(* _try_playlist_candidate_download creates a record, ...                  *)
Try(t, x) ==
  /\ at[t] = "next" /\ x \in Untried(t)
  /\ \E r \in Rec :
       /\ rec[r] = "unused" /\ \A s \in Rec : rec[s] = "unused" => r <= s
       /\ rec' = [rec EXCEPT ![r] = "pre_scraping"] /\ of' = [of EXCEPT ![r] = x]
       /\ cand' = [cand EXCEPT ![t] = r] /\ live' = live \cup {r}
  /\ tried' = [tried EXCEPT ![t] = @ \cup {x}] /\ Goto(t, "scrape")
  /\ UNCHANGED <<playlist, hashed, jobs, asking, copy, sweep, telling, outside, history>>

(* ... or no more of them, as the sites gave no others. *)
NotFound(t) ==
  /\ at[t] = "next" /\ Goto(t, "end")
  /\ track' = Told({t}, "not_found")
  /\ UNCHANGED <<plist, exists, bound, records, jobs, asking, tried, cand, copy, sweeping, telling,
                 outside, history>>

(* The search of the candidates raises. *)
SearchFails(t) ==
  /\ at[t] \in {"check", "next"} /\ Mishap("error", {}, {})
  /\ track' = Told({t}, "failed") /\ Goto(t, "end")
  /\ UNCHANGED <<plist, exists, bound, records, jobs, asking, tried, cand, copy, sweeping, telling, outside>>

(* The finally clause of _try_playlist_candidate_download. A cleanup that  *)
(* is under way is not started again.                                      *)
GiveUp(t) ==
  /\ live' = live \ {cand[t]}
  /\ sweep' = [sweep EXCEPT ![cand[t]] = IF @ = "none" THEN "check" ELSE @]

Drop(t) == GiveUp(t) /\ Goto(t, "drop")

(* _scrape_playlist_candidate_items: an item of the torrent is the track,  *)
(* or none is found to be.                                                 *)
Scrape(t) ==
  /\ at[t] = "scrape"
  /\ \/ /\ t \in Holds[of[cand[t]]] /\ rec' = [rec EXCEPT ![cand[t]] = "candidate_matched"]
        /\ Goto(t, "add") /\ UNCHANGED sweeping
     \/ Drop(t) /\ UNCHANGED rec
  /\ UNCHANGED <<playlist, of, hashed, jobs, asking, tried, cand, copy, telling, outside, history>>

(* _submit_playlist_candidate_to_downloader *)
Add(t) ==
  /\ at[t] = "add"
  /\ \/ client' = client \cup {of[cand[t]]} /\ Goto(t, "record") /\ UNCHANGED <<sweeping, history>>
     \/ Drop(t) /\ Mishap("error", {}, {}) /\ UNCHANGED client
  /\ UNCHANGED <<playlist, records, jobs, asking, tried, cand, copy, telling, library, env>>

Twin(r) == \E s \in hashed \ {r} : of[s] = of[r] /\ rec[s] # "absent"

(* The hash of a torrent is unique among the records. *)
Record(t) ==
  LET r == cand[t] IN
  /\ at[t] = "record"
  /\ IF Twin(r)
     THEN Drop(t) /\ UNCHANGED <<rec, hashed, copy>>
     ELSE /\ rec' = [rec EXCEPT ![r] = "submitted"] /\ hashed' = hashed \cup {r}
          /\ copy' = [copy EXCEPT ![t] = "submitted"] /\ Goto(t, "bind") /\ UNCHANGED sweeping
  /\ UNCHANGED <<playlist, of, jobs, asking, tried, cand, telling, outside, history>>

(* _bind_playlist_track_to_task *)
Bind(t) ==
  LET r == cand[t] IN
  /\ at[t] \in {"bind", "join"} /\ Goto(t, "end")
  /\ track' = Told({t}, copy[t]) /\ exists' = exists \ Present({t})
  /\ bound' = IF track[t] = "absent" THEN bound ELSE [bound EXCEPT ![t] = r]
  /\ live' = IF at[t] = "bind" THEN live \ {r} ELSE live
  /\ gap' = IF rec[r] \in Following \/ r \in report THEN gap ELSE gap \cup {t}
  /\ UNCHANGED <<plist, records, jobs, asking, tried, cand, copy, sweep, telling, outside,
                 mishaps, requests, made, orphan>>

(* The track's row cannot be written: the executor goes on to the next     *)
(* candidate, although this one is submitted; or it fails.                 *)
BindFails(t) ==
  /\ Mishap("error", {}, {})
  /\ \/ at[t] = "bind" /\ Drop(t) /\ UNCHANGED track
     \/ at[t] = "join" /\ Goto(t, "end") /\ track' = Told({t}, "failed") /\ UNCHANGED sweeping
  /\ UNCHANGED <<plist, exists, bound, records, jobs, asking, tried, cand, copy, telling, outside>>

(* The cleanup it awaits has ended. *)
Dropped(t) ==
  /\ at[t] = "drop" /\ sweep[cand[t]] = "none" /\ Goto(t, "next")
  /\ UNCHANGED <<playlist, records, jobs, asking, tried, cand, copy, sweeping, telling, outside, history>>

End(t) ==
  /\ at[t] = "end" /\ Goto(t, "idle") /\ Forget({t}) /\ UNCHANGED track /\ Complete
  /\ UNCHANGED <<exists, bound, records, jobs, asking, sweeping, telling, outside, history>>

-----------------------------------------------------------------------------
(* Cleaning up candidates *)

\* Slip: the candidate's hash is not looked at.
SubmittedRow(r) == rec[r] = "absent"

Submitted(r) == r \in hashed \/ rec[r] = "absent"

(* _cleanup_playlist_candidate *)
Inspect(r) ==
  /\ sweep[r] = "check"
  /\ IF Submitted(r)
     THEN sweep' = [sweep EXCEPT ![r] = "none"] /\ UNCHANGED rec
     ELSE sweep' = [sweep EXCEPT ![r] = "delete"] /\ rec' = [rec EXCEPT ![r] = "candidate_cleaning"]
  /\ UNCHANGED <<playlist, of, hashed, jobs, asking, running, live, telling, outside, history>>

Remove(r) ==
  /\ sweep[r] = "delete" /\ sweep' = [sweep EXCEPT ![r] = "none"]
  /\ rec' = [rec EXCEPT ![r] = "absent"]
  /\ UNCHANGED <<playlist, of, hashed, jobs, asking, running, live, telling, outside, history>>

(* Every attempt has failed, the reading of the record as well perhaps. A  *)
(* submitted one is marked too, and its progress followed no more.         *)
RemoveFails(r) ==
  /\ sweep[r] \in {"check", "delete"}
  /\ Mishap("error", IF rec[r] \in Following THEN Followers(r) ELSE {}, {})
  /\ sweep' = [sweep EXCEPT ![r] = "none"]
  /\ rec' = IF rec[r] = "absent" THEN rec ELSE [rec EXCEPT ![r] = "candidate_cleanup_failed"]
  /\ UNCHANGED <<playlist, of, hashed, jobs, asking, running, live, telling, outside>>

\* Slip: the reconciliation does not ask whether a coroutine has the candidate.
AnyStale == {r \in Rec \ hashed : rec[r] \in Trial /\ sweep[r] = "none"}

(* The records that _cleanup_stale_playlist_candidates takes. A candidate  *)
(* may be older than half an hour whatever its status.                     *)
Stale == {r \in Rec \ (hashed \cup live) : rec[r] \in Trial /\ sweep[r] = "none"}

Reconcile(r) ==
  /\ r \in Stale /\ sweep' = [sweep EXCEPT ![r] = "check"]
  /\ UNCHANGED <<playlist, records, jobs, asking, running, live, telling, outside, history>>

-----------------------------------------------------------------------------
(* The progress of submitted downloads *)

Onward(status) ==
  CASE status = "submitted" -> {"refreshing_library", "deleted"}
    [] status = "refreshing_library" -> {"library_refreshed", "failed"}
    [] OTHER -> {}

Held(r) == \E t \in Track : at[t] \in {"bind", "join"} /\ cand[t] = r

(* The poll and the tasks of the download (DownloadLifecycle) write its    *)
(* status, and then tell the tracks that are bound to it.                  *)
Advance(r, status) ==
  /\ r \in hashed /\ r \notin report /\ status \in Onward(rec[r])
  /\ Held(r) => "slow" \in env
  /\ rec' = [rec EXCEPT ![r] = status] /\ report' = report \cup {r}
  /\ UNCHANGED <<playlist, of, hashed, jobs, asking, running, sweeping, cut, deleting, outside, history>>

(* _finish_download_with_skipped_library_refresh_if_disabled tells none.   *)
RefreshSkipped(r) ==
  /\ rec[r] = "refreshing_library" /\ r \notin report /\ Mishap("skip", Followers(r), {})
  /\ Held(r) => "slow" \in env
  /\ rec' = [rec EXCEPT ![r] = "library_refresh_skipped"]
  /\ UNCHANGED <<playlist, of, hashed, jobs, asking, running, sweeping, telling, outside>>

\* Slip: the completion is left to the executors.
NotConcluded(r) == plist' = plist

(* The playlists of the tracks are looked at again. *)
Concluded(r) == IF Followers(r) # {} THEN Complete ELSE UNCHANGED plist

\* Slip: only the tracks that are shown as submitted are told.
ShownSubmitted(ts) == {t \in ts : t \notin exists /\ track[t] = "submitted"}

Unmatched(ts) == {t \in ts : t \notin exists /\ track[t] # "existing"}

(* _sync_playlist_tracks_for_download_task *)
Tell(r) ==
  /\ r \in report /\ report' = report \ {r}
  /\ LET told == Unmatched(Followers(r)) IN
       /\ track' = Told(told, rec[r])
       /\ bound' = [t \in Track |-> IF rec[r] = "deleted" /\ t \in told THEN None ELSE bound[t]]
  /\ Concluded(r)
  /\ UNCHANGED <<exists, records, jobs, asking, running, sweeping, cut, deleting, outside, history>>

-----------------------------------------------------------------------------
(* The user, the library and the restart *)

Trying(t) == at[t] \in {"scrape", "add", "record", "bind"}

(* The interrupt endpoint cancels the task of a track, which gives its     *)
(* candidate up; or it ends a task that waits. The track is told after.    *)
Interrupt(t) ==
  /\ Mishap("user", {}, IF at[t] = "record" THEN {of[cand[t]]} ELSE {})
  /\ cut' = cut \cup {t}
  /\ \/ /\ at[t] # "idle" /\ Goto(t, "idle") /\ Forget({t}) /\ UNCHANGED jobs
        /\ IF Trying(t) THEN GiveUp(t) ELSE UNCHANGED sweeping
     \/ jobs[t] > 0 /\ jobs' = [jobs EXCEPT ![t] = @ - 1] /\ UNCHANGED <<running, sweeping>>
  /\ UNCHANGED <<playlist, records, asking, report, deleting, outside>>

(* _sync_interrupted_system_task *)
TellCut(t) ==
  /\ t \in cut /\ cut' = cut \ {t}
  /\ track' = Told({t}, "interrupted")
  /\ IF track[t] = "absent" THEN UNCHANGED plist ELSE Complete
  /\ UNCHANGED <<exists, bound, records, jobs, asking, running, sweeping, report, deleting, outside, history>>

(* delete_download of a submitted record: the tracks are told, ...         *)
Delete(r) ==
  /\ r \in hashed /\ rec[r] # "absent" /\ r \notin deleting /\ Mishap("user", {}, {})
  /\ deleting' = deleting \cup {r}
  /\ client' \in {client, client \ {of[r]}}
  /\ LET told == Unmatched(Followers(r)) IN
       /\ track' = Told(told, "deleted")
       /\ bound' = [t \in Track |-> IF t \in told THEN None ELSE bound[t]]
  /\ Concluded(r)
  /\ UNCHANGED <<exists, records, jobs, asking, running, sweeping, report, cut, library, env>>

(* ... and the row goes. A track that was bound meanwhile is left with it. *)
Deleted(r) ==
  /\ r \in deleting /\ deleting' = deleting \ {r}
  /\ rec' = [rec EXCEPT ![r] = "absent"]
  /\ report' = report \ {r} /\ gap' = gap \cup Followers(r)
  /\ orphan' = IF \E s \in hashed \ {r} : of[s] = of[r] /\ rec[s] # "absent"
               THEN orphan ELSE orphan \cup ({of[r]} \cap client)
  /\ UNCHANGED <<playlist, of, hashed, jobs, asking, running, sweeping, cut, outside,
                 mishaps, requests, made>>

(* The playlist is imported anew: tracks leave it or come back.            *)
(* upsert_playlist resets its status, whatever is under way.               *)
Import(kept) ==
  /\ Mishap("user", {}, {})
  /\ plist' = "synced"
  /\ track' = [t \in Track |-> IF t \notin kept THEN "absent"
                               ELSE IF track[t] = "absent" THEN "pending" ELSE track[t]]
  /\ exists' = exists \cap kept
  /\ bound' = [t \in Track |-> IF t \in kept THEN bound[t] ELSE None]
  /\ UNCHANGED <<records, jobs, asking, running, sweeping, telling, outside>>

(* The library is synchronised: a download has put the track there, or its *)
(* file was removed. The matching of the tracks follows.                   *)
Gain(t) ==
  /\ t \notin library /\ \E r \in hashed : rec[r] \in Ended /\ t \in Holds[of[r]]
  /\ library' = library \cup {t}
  /\ UNCHANGED <<playlist, records, jobs, asking, running, sweeping, telling, client, env, history>>

Lose(t) ==
  /\ t \in library /\ Mishap("user", {}, {}) /\ library' = library \ {t}
  /\ UNCHANGED <<playlist, records, jobs, asking, running, sweeping, telling, client, env>>

(* _refresh_playlist_library_matches. It does not complete the playlist.   *)
Match(t) ==
  /\ track[t] # "absent" /\ ((t \in exists) # (t \in library) \/ track[t] # Matched(t))
  /\ track' = [track EXCEPT ![t] = Matched(t)]
  /\ exists' = (exists \ {t}) \cup (library \cap {t})
  /\ UNCHANGED <<plist, bound, records, jobs, asking, running, sweeping, telling, outside, history>>

(* All coroutines are lost; the tasks that ran wait again. What their      *)
(* coroutines had still to do for a track is not repeated.                 *)
Unfinished ==
  {t \in Track : \/ t \in cut
                 \/ \E q \in Request : ask[<<q, t>>] = "create"
                 \/ bound[t] \in report /\ rec[bound[t]] \notin Following}

Crash ==
  /\ Mishap("crash", Unfinished, {of[cand[t]] : t \in {u \in Track : at[u] = "record"}})
  /\ jobs' = [t \in Track |-> IF at[t] = "idle" THEN jobs[t] ELSE jobs[t] + 1]
  /\ at' = [t \in Track |-> "idle"] /\ all' = "none" /\ ask' = [x \in DOMAIN ask |-> "none"]
  /\ live' = {} /\ sweep' = [r \in Rec |-> "none"]
  /\ report' = {} /\ cut' = {} /\ deleting' = {}
  /\ Forget(Track) /\ UNCHANGED track /\ Complete
  /\ UNCHANGED <<exists, bound, records, outside>>

-----------------------------------------------------------------------------
(* Specification *)

Ask ==
  \/ MatchAll \/ AllAsked
  \/ \E q \in Request, t \in Track : Queue(q, t) \/ Enqueue(q, t)

(* The next step of the task of a track. *)
Run(t) ==
  \/ Check(t) \/ (\E x \in Torrent : Try(t, x)) \/ NotFound(t)
  \/ Scrape(t) \/ Add(t) \/ Record(t) \/ Bind(t) \/ Dropped(t) \/ End(t)

Clean(r) == Inspect(r) \/ Remove(r) \/ Reconcile(r)

Progress(r) == \E status \in Following \cup Ended : Advance(r, status)

Next ==
  \/ DownloadAll \/ Ask \/ Crash
  \/ \E t \in Track : \/ DownloadTrack(t) \/ Claim(t) \/ Run(t) \/ SearchFails(t) \/ BindFails(t)
                      \/ Interrupt(t) \/ TellCut(t) \/ Gain(t) \/ Lose(t) \/ Match(t)
  \/ \E r \in Rec : Clean(r) \/ RemoveFails(r) \/ Progress(r) \/ RefreshSkipped(r) \/ Tell(r)
                    \/ Delete(r) \/ Deleted(r)
  \/ \E t \in Track : Import(Track \ {t}) \/ Import(Track)

Spec == Init /\ [][Next]_vars

(* Coroutines return, the queue runs what it can, the reconciliation and   *)
(* the poll repeat, and every torrent ends sooner or later.                *)
Fairness ==
  /\ WF_vars(Ask)
  /\ \A t \in Track : WF_vars(Claim(t)) /\ WF_vars(Run(t)) /\ WF_vars(TellCut(t))
  /\ \A r \in Rec : WF_vars(Clean(r)) /\ WF_vars(Progress(r)) /\ WF_vars(Tell(r)) /\ WF_vars(Deleted(r))

FairSpec == Spec /\ Fairness

-----------------------------------------------------------------------------
(* Properties *)

(* A track that is shown as in progress, which the user cannot request     *)
(* again, is somebody's responsibility: a task, the coroutine that will    *)
(* create or report one, or a download that has not ended or whose end is  *)
(* being told. The tracks in gap are the ones the code is known to forget. *)
Owned ==
  \A t \in Track \ gap :
    /\ track[t] \in Seeking =>
         \/ jobs[t] > 0 \/ at[t] # "idle" \/ t \in cut
         \/ \E q \in Request : ask[<<q, t>>] = "create"
    /\ track[t] \in Following =>
         /\ bound[t] # None
         /\ rec[bound[t]] \in Following \/ bound[t] \in report

(* A torrent in the downloader has its record, which the cleanup of        *)
(* candidates never takes for a rejected one, unless the coroutine that    *)
(* added it was lost before it could write the hash.                       *)
TorrentsKnown ==
  \A x \in client \ orphan :
    \/ \E r \in hashed : of[r] = x /\ rec[r] # "absent"
    \/ \E t \in Track : at[t] = "record" /\ of[cand[t]] = x

(* The cleanup deletes no record that an executor is still trying, however *)
(* long this takes.                                                        *)
SweepsOnlyAbandoned ==
  [][\A r \in Rec : rec[r] # "absent" /\ rec'[r] = "absent" /\ r \notin deleting =>
       ~ \E t \in Track : Trying(t) /\ cand[t] = r]_vars

(* A playlist that is being downloaded ends, unless a track is forgotten.  *)
PlaylistEnds == plist = "downloading" ~> plist # "downloading" \/ gap # {}
=============================================================================
