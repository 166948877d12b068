------------------------------ MODULE LibrarySync ------------------------------
(***************************************************************************)
(* The music library: the table of the media server's songs that           *)
(* _sync_music_library_from_media_server keeps (music_library_tracks), the *)
(* matches of a playlist's rows with it, and the two-way synchronisation   *)
(* of the playlist with the playlist of the same name on the media server  *)
(* (_reconcile_playlist_with_media_server), which merges both with the     *)
(* baseline that the last synchronisation left. One playlist and one media *)
(* server are modelled; a row of the playlist wants one song. A step is a  *)
(* coroutine's work from one access to the database or the media server to *)
(* the next; a page of the enumeration has one song.                       *)
(***************************************************************************)
EXTENDS Naturals, FiniteSets

CONSTANTS
  N,           \* number of songs; the media server lists them in order
  Slots,       \* bound on the rows a reconciliation adds for one song
  Scope        \* bounds of a behaviour: the songs it has, what users and the
               \* media server do, and the crashes and errors

ASSUME LibraryAssumption ==
  /\ N \in Nat \ {0} /\ Slots \in Nat \ {0}
  /\ Scope \subseteq [songs : SUBSET (1..N), events : Nat, mishaps : Nat]

VARIABLES
  \* the media server
  server,    \* the songs it has
  remote,    \* how often each song is in its playlist
  there,     \* whether it has the playlist
  \* the database
  table,     \* songs with a row in music_library_tracks
  link,      \* state of each row of the playlist
  binding,   \* the playlist has a library sync binding
  base,      \* last_synced_song_ids of the binding, as counts
  recovery,  \* the setting MUSIC_LIBRARY_SYNC_RECOVERY_KEY
  \* the synchronisation of the library
  sync,      \* its step
  periodic,  \* its end is the first of the periodic loop
  full,      \* it matches all rows
  first,     \* refresh_all_playlist_matches of the periodic loop
  offset,    \* offset of the next page
  seen,      \* seen_ids
  changed,   \* the songs of changed_track_ids
  dels,      \* the rows that were matched with one of deleted_track_ids
  \* the other match of the rows, after a deletion or an import
  aside,     \* its step
  plan,      \* what each of the two matches is about to write
  \* the reconciliation of the playlist
  rec,       \* its step
  by,        \* who asked for it
  due,       \* another one waits for the lock
  got,       \* the counts that it read from the media server
  target,    \* the merged counts
  \* history
  left,      \* what is left of the behaviour's bounds
  behind,    \* songs whose rows a match was lost for or read too early for
  dropped,   \* songs that were removed from the media server's playlist there
  cutting,   \* songs of the baseline this reconciliation left out of that playlist
  torn,      \* songs one removed from it without writing a baseline, or that
             \* were matched after it had read what is matched
  added      \* songs a user added to it, and that nothing since disputes

media == <<server, remote, there>>
syncing == <<sync, periodic, full, first, offset, seen, changed, dels>>
merging == <<rec, by, due, got, target>>
history == <<left, behind, dropped, cutting, torn, added>>
vars == <<media, table, link, binding, base, recovery, syncing, aside, plan,
          merging, history>>

Song == 1..N
Count == 0..Slots + 1
(* <<s, 0>> is the row of song s that the import of the playlist made, the *)
(* other rows of s are those a reconciliation made.                        *)
Row == Song \X (0..Slots)
Nothing == [s \in Song |-> 0]
Keep == [row \in Row |-> "keep"]

TypeOK ==
  /\ server \subseteq Song /\ remote \in [Song -> Count] /\ there \in BOOLEAN
  /\ table \subseteq Song
  (* "dead": exists_in_library, but the matched row of the library is gone. *)
  /\ link \in [Row -> {"absent", "none", "dead", "live"}]
  /\ binding \in BOOLEAN /\ base \in [Song -> Count] /\ recovery \in BOOLEAN
  /\ sync \in {"idle", "page", "match", "write", "trigger", "all", "clear"}
  /\ periodic \in BOOLEAN /\ full \in BOOLEAN /\ first \in BOOLEAN
  /\ offset \in 0..N /\ seen \subseteq Song /\ changed \subseteq Song /\ dels \subseteq Row
  /\ aside \in {"idle", "match", "write"}
  /\ plan \in [{"sync", "aside"} -> [Row -> {"keep", "none", "dead", "live"}]]
  /\ rec \in {"idle", "read", "write", "insert", "rows", "base"}
  /\ by \in {"none", "trigger", "all", "aside", "auto", "once", "push"} /\ due \in BOOLEAN
  /\ got \in [Song -> Count] /\ target \in [Song -> Count]
  /\ left \in [songs : SUBSET Song, events : Nat, mishaps : Nat]
  /\ UNION {behind, dropped, cutting, torn, added} \subseteq Song

(* The songs that list_matched_playlist_library_tracks returns: an inner   *)
(* join, so a row whose match is gone is not there.                        *)
Local(rows) == [s \in Song |-> Cardinality({k \in 0..Slots : rows[<<s, k>>] = "live"})]

Init ==
  /\ left \in Scope
  /\ server \in SUBSET left.songs /\ table = server
  /\ link \in {[row \in Row |-> IF row[2] > 0 \/ row[1] \notin imported THEN "absent"
                                ELSE IF row[1] \in server THEN "live" ELSE "none"]
                 : imported \in SUBSET left.songs}
  /\ binding \in BOOLEAN /\ there = binding
  /\ base = (IF binding THEN Local(link) ELSE Nothing) /\ remote = base
  /\ recovery = FALSE /\ sync = "idle" /\ periodic = FALSE /\ full = FALSE /\ first = TRUE
  /\ offset = 0 /\ seen = {} /\ changed = {} /\ dels = {}
  /\ aside = "idle" /\ plan = [m \in {"sync", "aside"} |-> Keep]
  /\ rec = "idle" /\ by = "none" /\ due = FALSE /\ got = Nothing
  /\ target = Nothing
  /\ behind = {} /\ dropped = {} /\ cutting = {} /\ torn = {} /\ added = {}

-----------------------------------------------------------------------------
(* The table *)

Event == left.events > 0 /\ left' = [left EXCEPT !.events = @ - 1]
Mishap == left.mishaps > 0 /\ left' = [left EXCEPT !.mishaps = @ - 1]

(* Rows of playlists matched with a song whose row of the library goes.    *)
Unlinked(songs) ==
  [row \in Row |-> IF row[1] \in songs /\ link[row] = "live" THEN "dead" ELSE link[row]]

(* The same for what a match has read and not yet written. *)
Overtaken(songs) ==
  [m \in DOMAIN plan |->
     [row \in Row |-> IF row[1] \in songs /\ plan[m][row] = "live" THEN "dead" ELSE plan[m][row]]]

(* sync_music_library_track_page: new songs get a row, others keep theirs. *)
Upserted(songs) == table \cup songs

Matching == aside = "write" \/ sync = "write"

(* The songs of a change of the table that a match under way has not read. *)
Missed(songs) == IF Matching THEN songs ELSE {}

-----------------------------------------------------------------------------
(* The match of the rows *)

(* What _apply_playlist_track_library_match writes of the rows it reads;   *)
(* a row that is as it should be is not written.                           *)
Planned(rows) ==
  [row \in Row |->
     IF row \notin rows \/ link[row] = "absent" THEN "keep"
     ELSE IF row[1] \in table
          THEN IF link[row] = "live" THEN "keep" ELSE "live"
          ELSE IF link[row] = "none" THEN "keep" ELSE "none"]

Written(m) ==
  [row \in Row |-> IF link[row] = "absent" \/ plan[m][row] = "keep" THEN link[row]
                   ELSE plan[m][row]]

(* _trigger_playlist_library_auto_sync: a first synchronisation that is    *)
(* running counts as a binding (pending_playlist_library_sync_bindings).   *)
Bound == binding \/ (rec # "idle" /\ by = "auto")

(* Songs matched after a reconciliation has read what is matched. *)
Late(m) ==
  IF rec \in {"write", "insert", "rows"}
  THEN {s \in Song : \E k \in 0..Slots : link[<<s, k>>] # "live" /\ Written(m)[<<s, k>>] = "live"}
  ELSE {}

AsideMatch ==
  /\ aside = "match"
  /\ aside' = "write" /\ plan' = [plan EXCEPT !["aside"] = Planned(Row)]
  /\ UNCHANGED <<media, table, link, binding, base, recovery, syncing, merging, history>>

AsideWrite ==
  /\ aside = "write"
  /\ aside' = "idle" /\ plan' = [plan EXCEPT !["aside"] = Keep]
  /\ link' = Written("aside") /\ due' = (due \/ Bound) /\ torn' = torn \cup Late("aside")
  /\ UNCHANGED <<media, table, binding, base, recovery, syncing, rec, by, got, target, left, behind, dropped, cutting, added>>

(* _delete_music_library_tracks_for_media, when a file of the library is   *)
(* deleted or reorganised. Its bound is a song with a single row: each such *)
(* deletion during a reconciliation can double the rows of the song.       *)
DeleteMedia(s) ==
  /\ aside = "idle" /\ s \in table /\ Event
  /\ \A k \in 1..Slots : link[<<s, k>>] = "absent"
  /\ table' = table \ {s} /\ link' = Unlinked({s}) /\ plan' = Overtaken({s})
  /\ aside' = IF link' # link THEN "match" ELSE "idle"
  /\ behind' = behind \cup Missed({s}) /\ added' = added \ {s}
  /\ UNCHANGED <<media, binding, base, recovery, syncing, merging, dropped, cutting, torn>>

(* The playlist is imported anew and its source has gained or lost a song. *)
Import(s) ==
  /\ aside = "idle" /\ Event
  /\ aside' = "match"
  /\ link' = [link EXCEPT ![<<s, 0>>] = IF @ = "absent" THEN "none" ELSE "absent"]
  /\ added' = added \ {s}
  /\ UNCHANGED <<media, table, binding, base, recovery, syncing, plan, merging,
                 behind, dropped, cutting, torn>>

-----------------------------------------------------------------------------
(* The synchronisation of the library, under music_library_sync_lock *)

(* What a synchronisation knows goes with it. *)
Forget == periodic' = FALSE /\ full' = FALSE /\ offset' = 0 /\ seen' = {} /\ changed' = {} /\ dels' = {}

StartSync(p) ==
  /\ sync = "idle"
  /\ sync' = "page" /\ periodic' = (p /\ first) /\ full' = (recovery \/ (p /\ first))
  /\ recovery' = TRUE
  /\ UNCHANGED <<media, table, link, binding, base, first, offset, seen, changed, dels, aside, plan,
                 merging, history>>

(* The song at the offset; the media server's list shifts when it changes. *)
Page == {s \in server : Cardinality({x \in server : x < s}) = offset}

ReadPage(s) ==
  /\ sync = "page" /\ s \in Page /\ s \notin seen
  /\ offset' = offset + 1 /\ seen' = seen \cup {s}
  /\ table' = Upserted({s})
  /\ changed' = IF s \in table THEN changed ELSE changed \cup {s}
  /\ behind' = behind \cup Missed(table' \ table)
  /\ UNCHANGED <<media, link, binding, base, recovery, sync, periodic, full, first, dels, aside,
                 plan, merging, left, dropped, cutting, torn, added>>

(* "Music library pagination did not advance" *)
PageRepeated ==
  /\ sync = "page" /\ Page # {} /\ Page \subseteq seen
  /\ sync' = "idle" /\ Forget
  /\ UNCHANGED <<media, table, link, binding, base, recovery, first, aside, plan, merging, history>>

(* The page after the last, and delete_music_library_tracks_missing_from. *)
DeleteMissing ==
  /\ sync = "page" /\ Page = {}
  /\ sync' = "match"
  /\ table' = table \cap seen
  /\ link' = Unlinked(table \ seen) /\ plan' = Overtaken(table \ seen)
  /\ dels' = {row \in Row : link'[row] # link[row]}
  /\ behind' = behind \cup Missed(table \ seen)
  /\ UNCHANGED <<media, binding, base, recovery, periodic, full, first, offset, seen, changed, aside,
                 merging, left, dropped, cutting, torn, added>>

(* Slip: deletions do not count as changes. *)
AffectedByChange == IF full THEN Row ELSE {row \in Row : row[1] \in changed}

(* The rows that are matched again: all, or those of the changed songs.    *)
Affected ==
  IF full THEN Row
  ELSE {row \in Row : row[1] \in changed \/ (row \in dels /\ link[row] = "dead")}

SyncMatch ==
  /\ sync = "match"
  /\ sync' = "write" /\ plan' = [plan EXCEPT !["sync"] = Planned(Affected)]
  /\ behind' = IF full /\ aside # "write" THEN {} ELSE behind
  /\ UNCHANGED <<media, table, link, binding, base, recovery, periodic, full, first, offset, seen,
                 changed, dels, aside, merging, left, dropped, cutting, torn, added>>

SyncWrite ==
  /\ sync = "write"
  /\ sync' = IF Bound /\ \E row \in Affected : link[row] # "absent" THEN "trigger" ELSE "all"
  /\ link' = Written("sync") /\ plan' = [plan EXCEPT !["sync"] = Keep]
  /\ torn' = torn \cup Late("sync")
  /\ UNCHANGED <<media, table, binding, base, recovery, periodic, full, first, offset, seen, changed,
                 dels, aside, merging, left, behind, dropped, cutting, added>>

(* Nothing to synchronise, or the reconciliation it waited for has ended.  *)
Then(step) == CASE step = "trigger" -> "all" [] step = "all" -> "clear" [] OTHER -> step

SyncUnbound ==
  /\ sync \in {"trigger", "all"} /\ ~binding /\ rec = "idle"
  /\ sync' = Then(sync)
  /\ UNCHANGED <<media, table, link, binding, base, recovery, periodic, full, first, offset, seen,
                 changed, dels, aside, plan, merging, history>>

SyncClear ==
  /\ sync = "clear"
  /\ sync' = "idle" /\ recovery' = FALSE /\ Forget
  /\ first' = (first /\ ~periodic)
  /\ UNCHANGED <<media, table, link, binding, base, aside, plan, merging, history>>

-----------------------------------------------------------------------------
(* The reconciliation, under the lock of the playlist and the media server *)

Start(who) ==
  /\ rec = "idle"
  /\ rec' = "read"
  /\ by' = who /\ due' = (due /\ who # "aside")
  /\ UNCHANGED <<media, table, link, binding, base, recovery, syncing, aside, plan, got, target,
                 history>>

StartBound == \/ sync \in {"trigger", "all"} /\ binding /\ Start(sync)
              \/ due /\ binding /\ Start("aside")

NoneBound ==
  /\ rec = "idle" /\ due /\ ~binding
  /\ due' = FALSE
  /\ UNCHANGED <<media, table, link, binding, base, recovery, syncing, aside, plan, rec, by, got, target, history>>

(* sync_playlist_to_library: with auto_sync, without, and the mere push to *)
(* the media server when there is no binding.                              *)
Ask ==
  /\ Event
  /\ rec = "idle"
  /\ \E who \in {"auto", "once", "push"} :
       /\ who = "auto" \/ (who = "once") = binding
       /\ rec' = "read"
       /\ by' = who
  /\ UNCHANGED <<media, table, link, binding, base, recovery, syncing, aside, plan, due, got, target,
                 behind, dropped, cutting, torn, added>>

Automatic == by \in {"trigger", "all", "aside"}

MaxOf(x, y) == IF x > y THEN x ELSE y
Less(x, y) == IF x > y THEN x - y ELSE 0

(* Slip: the side of MusicPilot wins. *)
LocalWins(local, other) ==
  [s \in Song |-> Less(base[s] + Less(local[s], base[s]), Less(base[s], local[s]))]

(* _merged_playlist_song_counts: what either side added since the baseline *)
(* is added and what either side removed is removed.                       *)
Merged(local, other) ==
  [s \in Song |->
     Less(base[s] + MaxOf(Less(local[s], base[s]), Less(other[s], base[s])),
          MaxOf(Less(base[s], local[s]), Less(base[s], other[s])))]

(* Slip: a playlist that the media server does not have counts as emptied. *)
TargetWhenMissing(local, other) == Merged(local, other)

Target(local, other) == IF there THEN Merged(local, other) ELSE local

(* _sync_playlist_to_media_server: the rows alone. *)
ReadPush ==
  /\ rec = "read" /\ by = "push"
  /\ target' = Local(link) /\ rec' = "write"
  /\ UNCHANGED <<media, table, link, binding, base, recovery, syncing, aside, plan, by, due, got,
                 history>>

(* get_playlist and then the rows: a change between these two is as good   *)
(* as one before or after both.                                            *)
ReadBoth ==
  /\ rec = "read" /\ by # "push"
  /\ got' = remote
  /\ target' = Target(Local(link), remote)
  /\ rec' = IF Automatic /\ there /\ remote = target' THEN "insert" ELSE "write"
  /\ UNCHANGED <<media, table, link, binding, base, recovery, syncing, aside, plan, by, due, history>>

(* The end of a reconciliation: who waits for it goes on. *)
Finish ==
  /\ rec' = "idle" /\ by' = "none" /\ sync' = IF sync = by THEN Then(sync) ELSE sync
  /\ got' = Nothing /\ target' = Nothing /\ cutting' = {}

(* The media server ignores songs that it does not have. *)
Accepted == [s \in Song |-> IF s \in server THEN target[s] ELSE 0]

WriteRemote ==
  /\ rec = "write"
  /\ remote' = Accepted /\ there' = TRUE
  /\ dropped' = {s \in dropped : remote'[s] = 0}
  /\ IF by = "push" THEN Finish
     ELSE /\ rec' = "insert" /\ cutting' = {s \in Song : base[s] > 0 /\ remote'[s] = 0}
          /\ UNCHANGED <<sync, by, got, target>>
  /\ UNCHANGED <<server, table, link, binding, base, recovery, periodic, full, first, offset, seen,
                 changed, dels, aside, plan, due, left, behind, torn, added>>

(* sync_music_library_track_page for the songs of the remote playlist: new *)
(* ones are not told to the synchronisation of the library.                *)
InsertRemote ==
  /\ rec = "insert"
  /\ rec' = "rows"
  /\ table' = Upserted({s \in Song : got[s] > 0})
  /\ behind' = behind \cup (table' \ table)
  /\ UNCHANGED <<media, link, binding, base, recovery, syncing, aside, plan, by, due, got, target, left, dropped, cutting, torn, added>>

(* Slip: only rows that a reconciliation made are removed.                 *)
ExcessAdded(s) ==
  LET live == {k \in 1..Slots : link[<<s, k>>] = "live"}
  IN {k \in live : Cardinality({x \in live : x > k}) < Less(Cardinality(live), target[s])}

(* The rows of a song to remove: those of reconciliations first. *)
Excess(s) ==
  LET live == {k \in 0..Slots : link[<<s, k>>] = "live"}
  IN {k \in live : Cardinality({x \in live : x > k}) < Less(Cardinality(live), target[s])}
Lacking(s) ==
  LET absent == {k \in 1..Slots : link[<<s, k>>] = "absent"}
  IN {k \in absent : Cardinality({x \in absent : x < k}) < Less(target[s], Local(link)[s])}

Resolvable == \A s \in Song : target[s] > 0 => s \in table

ReconcileRows ==
  /\ rec = "rows" /\ Resolvable
  /\ rec' = "base"
  /\ link' = [row \in Row |-> IF row[2] \in Excess(row[1]) THEN "absent"
                              ELSE IF row[2] \in Lacking(row[1]) THEN "live" ELSE link[row]]
  /\ UNCHANGED <<media, table, binding, base, recovery, syncing, aside, plan, by, due, got, target, history>>

WriteBaseline ==
  /\ rec = "base" /\ Local(link) = target
  /\ Finish
  /\ binding' = (by # "once") /\ base' = IF by = "once" THEN Nothing ELSE target
  /\ dropped' = {s \in dropped : target[s] > 0 \/ s \notin server} /\ torn' = {}
  /\ UNCHANGED <<media, table, link, recovery, periodic, full, first, offset, seen, changed, dels,
                 aside, plan, due, left, behind, added>>

(* "missing playlist tracks" and "did not reach the merged sync state" *)
ReconcileStuck ==
  /\ \/ rec = "rows" /\ ~Resolvable
     \/ rec = "base" /\ Local(link) # target
  /\ Finish /\ torn' = torn \cup cutting /\ added' = added \ cutting
  /\ UNCHANGED <<media, table, link, binding, base, recovery, periodic, full, first, offset, seen,
                 changed, dels, aside, plan, due, left, behind, dropped>>

-----------------------------------------------------------------------------
(* Errors, crashes, users and the media server *)

SyncFails ==
  /\ sync \in {"page", "match", "write", "clear"} /\ Mishap
  /\ sync' = "idle" /\ Forget /\ plan' = [plan EXCEPT !["sync"] = Keep]
  /\ UNCHANGED <<media, table, link, binding, base, recovery, first, aside, merging, behind,
                 dropped, cutting, torn, added>>

(* Also after the playlist was saved: its visibility could not be set. *)
ReconcileFails ==
  /\ rec # "idle" /\ Mishap
  /\ Finish /\ torn' = torn \cup cutting /\ added' = added \ cutting
  /\ UNCHANGED <<media, table, link, binding, base, recovery, periodic, full, first, offset, seen,
                 changed, dels, aside, plan, due, behind, dropped>>

Unmatched == {s \in Song : \E k \in 0..Slots : link[<<s, k>>] \in {"none", "dead"}}

AsideFails ==
  /\ aside # "idle" /\ Mishap
  /\ aside' = "idle" /\ plan' = [plan EXCEPT !["aside"] = Keep]
  /\ behind' = behind \cup Unmatched
  /\ UNCHANGED <<media, table, link, binding, base, recovery, syncing, merging, dropped,
                 cutting, torn, added>>

Crash ==
  /\ Mishap
  /\ sync' = "idle" /\ Forget /\ first' = TRUE /\ aside' = "idle"
  /\ rec' = "idle" /\ by' = "none" /\ due' = FALSE /\ plan' = [m \in DOMAIN plan |-> Keep]
  /\ got' = Nothing /\ target' = Nothing
  /\ behind' = IF aside # "idle" THEN behind \cup Unmatched ELSE behind
  /\ cutting' = {} /\ torn' = torn \cup cutting /\ added' = added \ cutting
  /\ UNCHANGED <<media, table, link, binding, base, recovery, dropped>>

(* A file comes to the media server, or goes and leaves its playlists too. *)
ServerChanges(s) ==
  /\ Event
  /\ \/ s \notin server /\ server' = server \cup {s} /\ UNCHANGED <<remote, dropped, added>>
     \/ /\ s \in server /\ server' = server \ {s}
        /\ remote' = [remote EXCEPT ![s] = 0]
        /\ dropped' = dropped \cup {s} /\ added' = added \ {s}
  /\ UNCHANGED <<there, table, link, binding, base, recovery, syncing, aside, plan, merging,
                 behind, cutting, torn>>

(* A user of the media server edits its playlist. *)
UserEdits(s) ==
  /\ there /\ s \in server /\ Event
  /\ IF remote[s] > 0
     THEN /\ remote' = [remote EXCEPT ![s] = 0]
          /\ dropped' = dropped \cup {s} /\ added' = added \ {s}
     ELSE /\ remote' = [remote EXCEPT ![s] = 1] /\ dropped' = dropped
          /\ added' = IF binding /\ base[s] = 0 /\ rec # "write" THEN added \cup {s} ELSE added
  /\ UNCHANGED <<server, there, table, link, binding, base, recovery, syncing, aside, plan, merging,
                 behind, cutting, torn>>

UserDeletes ==
  /\ there /\ Event
  /\ there' = FALSE /\ remote' = Nothing /\ added' = {}
  /\ UNCHANGED <<server, table, link, binding, base, recovery, syncing, aside, plan, merging,
                 behind, dropped, cutting, torn>>

-----------------------------------------------------------------------------
SyncStep ==
  \/ \E s \in Song : ReadPage(s)
  \/ PageRepeated \/ DeleteMissing \/ SyncMatch \/ SyncWrite \/ SyncUnbound \/ SyncClear

RecStep ==
  \/ StartBound \/ NoneBound \/ ReadBoth \/ ReadPush \/ WriteRemote \/ InsertRemote
  \/ ReconcileRows \/ WriteBaseline \/ ReconcileStuck

Outside ==
  \/ \E s \in left.songs : DeleteMedia(s) \/ Import(s) \/ ServerChanges(s) \/ UserEdits(s)
  \/ Ask \/ UserDeletes

Next ==
  \/ \E p \in BOOLEAN : StartSync(p)
  \/ SyncStep \/ RecStep \/ AsideMatch \/ AsideWrite
  \/ SyncFails \/ ReconcileFails \/ AsideFails \/ Crash \/ Outside

(* The coroutines go on, and the periodic loop starts the next sync.       *)
Fairness ==
  /\ WF_vars(StartSync(TRUE)) /\ WF_vars(SyncStep) /\ WF_vars(RecStep)
  /\ WF_vars(AsideMatch \/ AsideWrite)

Spec == Init /\ [][Next]_vars /\ Fairness

-----------------------------------------------------------------------------
(* Properties *)

Settled == sync = "idle" /\ ~recovery /\ aside = "idle"

(* After a synchronisation of the library that ended well, a row of the    *)
(* playlist is matched exactly if the library has its song. The incremental *)
(* match, the recovery flag over a failed synchronisation and the match    *)
(* after a deletion together keep it so; songs that were added to the      *)
(* table or taken from it while a match was under way are left out.        *)
Fresh ==
  Settled => \A row \in Row :
    row[1] \notin behind => link[row] \in {"absent", IF row[1] \in table THEN "live" ELSE "none"}

(* A reconciliation deletes an imported row of the playlist only if its    *)
(* song was removed from the media server's playlist there, an earlier     *)
(* reconciliation removed it there and could not write the baseline, or    *)
(* the row was matched after the merge had read the rows.                  *)
DeletesOnlyDropped ==
  [][\A s \in Song : (rec = "rows" /\ rec' = "base" /\ link[<<s, 0>>] = "live" /\ link'[<<s, 0>>] = "absent")
        => s \in dropped \cup torn]_vars

(* A song that a user adds to the bound playlist on the media server, and  *)
(* that nobody removes, stays in it in the end, whatever enumeration of    *)
(* the library missed it, unless a match of the playlist was lost for it   *)
(* or overtaken.                                                           *)
AdditionsKept == <>[](\A s \in added \ behind : remote[s] > 0)

(* When users, files and errors come to rest, the playlist, the media      *)
(* server's playlist and the baseline of the binding agree for good.       *)
Converges == <>[](binding => remote = Local(link) /\ base = remote)

=============================================================================
