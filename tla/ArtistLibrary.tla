----------------------------- MODULE ArtistLibrary -----------------------------
(***************************************************************************)
(* The artists and their aliases (core/artist.py, its tables in            *)
(* infra/db/repositories.py and its requests in infra/api/app.py). Every   *)
(* organised file ensures its artists and then asks MusicBrainz for more   *)
(* aliases; a build of the library does so for all names known; users      *)
(* rename, give aliases, merge and clear. A step ends where another        *)
(* coroutine can run between a read and the write that relies on it.       *)
(***************************************************************************)
EXTENDS Naturals, FiniteSets

CONSTANTS
  Name,        \* the names of artists
  Candidates,  \* the names a name may stand for: itself in both scripts and,
               \* for one with a translation in brackets, the two parts
  Norm,        \* normalize_artist_name: one name for all its writings
  Chinese,     \* the names in Chinese characters without brackets
  Known,       \* the aliases that MusicBrainz has for a name
  Typed,       \* the names that users give
  Heard,       \* the names in media files, library and playlists
  Jobs,        \* how many requests there are at a time
  Starts,      \* bound on the requests
  Ids,         \* bound on the artists
  None

ASSUME ArtistAssumption ==
  /\ Candidates \in [Name -> SUBSET Name] /\ \A n \in Name : n \in Candidates[n]
  /\ Norm \in [Name -> Name] /\ \A n \in Name : Norm[Norm[n]] = Norm[n]
  /\ Known \in [Name -> SUBSET Name] /\ UNION {Chinese, Heard, Typed} \subseteq Name
  /\ Jobs \in Nat /\ Starts \in Nat /\ Ids \in Nat /\ None \notin Nat

VARIABLES
  artist,      \* table artists: the canonical names
  alias,       \* table artist_aliases
  enriched,    \* _musicbrainz_enriched_artist_ids
  creation,    \* _local_artist_creation_lock
  writing,     \* _alias_write_lock
  asking,      \* _musicbrainz_enrichment_lock
  job,         \* the requests
  starts       \* what is left of them

vars == <<artist, alias, enriched, creation, writing, asking, job, starts>>

Id == 1..Ids
Job == 1..Jobs
Idle == [pc |-> "idle", kind |-> "ensure", names |-> {}, name |-> None, id |-> 0,
         want |-> {}, safe |-> {}, todo |-> {}]
Row == [id : Id, alias : Name, source : {"auto", "user"}]
Request == [pc : {"idle", "find", "create", "local", "ask", "lookup", "more",
                  "write", "written", "update", "add", "merge"},
            kind : {"ensure", "build", "user"}, names : SUBSET Name,
            name : Name \cup {None}, id : Id \cup {0}, want : SUBSET Name,
            safe : SUBSET Name, todo : SUBSET SUBSET Name]

TypeOK ==
  /\ artist \in [Id -> Name \cup {None}] /\ alias \subseteq Row /\ enriched \subseteq Id
  /\ {creation, writing, asking} \subseteq Job \cup {None}
  /\ job \in [Job -> Request] /\ starts \in 0..Starts

Init ==
  /\ artist = [i \in Id |-> None] /\ alias = {} /\ enriched = {}
  /\ creation = None /\ writing = None /\ asking = None
  /\ job = [j \in Job |-> Idle] /\ starts = Starts

-----------------------------------------------------------------------------
(* Names *)

Least(I) == CHOOSE i \in I : \A k \in I : i <= k
There == {i \in Id : artist[i] # None}
All(names) == UNION {Candidates[n] : n \in names}

(* _preferred_canonical_name: a Chinese name in simplified characters. *)
Preferred(names, fallback) ==
  IF names \cap Chinese # {} THEN Norm[CHOOSE n \in names \cap Chinese : TRUE] ELSE fallback

(* list_artists_by_identity_candidates *)
Matches(names) ==
  {i \in There : (\E r \in alias : r.id = i /\ r.alias \in names)
                 \/ Norm[artist[i]] \in {Norm[n] : n \in names}}

\* Slip: the oldest of the artists, whatever it is called.
Oldest(ids, names, fallback) == Least(ids)
(* _select_identity_artist *)
Selected(ids, names, fallback) ==
  LET exact == {i \in ids : artist[i] = Preferred(names, fallback)}
  IN Least(IF exact # {} THEN exact ELSE ids)

Resolved(n) == IF Matches(Candidates[n]) = {} THEN 0
               ELSE Selected(Matches(Candidates[n]), Candidates[n], n)

(* _group_artist_identity_names: names that share a writing, and those     *)
(* that share one with them.                                               *)
Share(m, n) == {Norm[x] : x \in Candidates[m]} \cap {Norm[x] : x \in Candidates[n]} # {}
Closed(group, names) == \A m \in group, n \in names \ group : ~ Share(m, n)
Groups(names) ==
  {g \in SUBSET names \ {{}} :
     Closed(g, names) /\ \A h \in SUBSET g \ {{}, g} : ~ Closed(h, names)}

-----------------------------------------------------------------------------
(* Locks and requests *)

Take(lock, j) == lock = None /\ lock' = j
Give(lock, j) == lock' = IF lock = j THEN None ELSE lock
Set(j, r) == job' = [job EXCEPT ![j] = r]
Free(j) == \A k \in 1..j : job[k].pc = "idle" <=> k = j
Count == starts > 0 /\ starts' = starts - 1

Ensure(j, n) ==
  /\ Free(j) /\ Count
  /\ Set(j, [Idle EXCEPT !.pc = "find", !.names = {n}, !.name = n])
  /\ UNCHANGED <<artist, alias, enriched, creation, writing, asking>>

(* The groups of a build come one after another; only one build runs. *)
Turn(r) == IF r.todo = {} THEN {Idle}
           ELSE {[r EXCEPT !.pc = "find", !.names = g, !.todo = @ \ {g},
                           !.name = Preferred(All(g), CHOOSE n \in g : TRUE)] : g \in r.todo}
Build(j) ==
  /\ Free(j) /\ Count /\ Heard # {}
  /\ \A k \in Job : job[k].kind = "build" => job[k].pc = "idle"
  /\ \E r \in Turn([Idle EXCEPT !.kind = "build", !.todo = Groups(Heard)]) : Set(j, r)
  /\ UNCHANGED <<artist, alias, enriched, creation, writing, asking>>

Sought(r) == All(r.names \cup {r.name})

\* Slip: the lock is left out.
FindUnlocked(j) ==
  LET r == job[j]
      found == Matches(Sought(r))
  IN /\ r.pc = "find"
     /\ Set(j, IF found = {} THEN [r EXCEPT !.pc = "create"]
               ELSE [r EXCEPT !.pc = "local", !.want = Sought(r),
                              !.id = Selected(found, Sought(r), r.name)])
     /\ UNCHANGED <<artist, alias, enriched, creation, writing, asking, starts>>
(* _ensure_artist_local *)
Find(j) ==
  LET r == job[j]
      found == Matches(Sought(r))
  IN /\ r.pc = "find" /\ Take(creation, j)
     /\ Set(j, IF found = {} THEN [r EXCEPT !.pc = "create"]
               ELSE [r EXCEPT !.pc = "local", !.want = Sought(r),
                              !.id = Selected(found, Sought(r), r.name)])
     /\ UNCHANGED <<artist, alias, enriched, writing, asking, starts>>

(* The number after the greatest one in use, so that of an artist that was *)
(* merged into another one may come again.                                 *)
NextId == CHOOSE i \in 1..Ids + 1 : There \subseteq 1..i - 1 /\ (i > 1 => i - 1 \in There)
Create(j) ==
  LET r == job[j]
  IN /\ r.pc = "create" /\ NextId \in Id
     /\ artist' = [artist EXCEPT ![NextId] = Preferred(Sought(r), r.name)]
     /\ Set(j, [r EXCEPT !.pc = "local", !.id = NextId, !.want = Sought(r)])
     /\ UNCHANGED <<alias, enriched, creation, writing, asking, starts>>

(* _add_aliases_safely: not those the artist has, its name among them, nor *)
(* those of which another artist has a writing.                            *)
Has(i) == {artist[i]} \cup {r.alias : r \in {x \in alias : x.id = i}}
Owners(n) == {r.id : r \in {x \in alias : x.alias \in Candidates[n]}}
             \cup {i \in There : Norm[artist[i]] \in {Norm[m] : m \in Candidates[n]}}
Safe(i, names) == {n \in names \ Has(i) : Owners(n) \subseteq {i}}

\* Slip: another request may write between the check and the write.
CheckUnlocked(j) ==
  LET r == job[j]
  IN /\ r.pc \in {"local", "more"}
     /\ Set(j, [r EXCEPT !.pc = IF r.pc = "local" THEN "write" ELSE "written",
                         !.safe = Safe(r.id, r.want)])
     /\ UNCHANGED <<artist, alias, enriched, creation, writing, asking, starts>>
Check(j) ==
  LET r == job[j]
  IN /\ r.pc \in {"local", "more"} /\ Take(writing, j)
     /\ Set(j, [r EXCEPT !.pc = IF r.pc = "local" THEN "write" ELSE "written",
                         !.safe = Safe(r.id, r.want)])
     /\ UNCHANGED <<artist, alias, enriched, creation, asking, starts>>

Added(i, names, source) == alias \cup [id : {i}, alias : names, source : {source}]

(* Then the artist is read again: it may be gone, which fails the request. *)
Write(j) ==
  LET r == job[j]
  IN /\ r.pc = "write"
     /\ alias' = Added(r.id, r.safe, "auto")
     /\ Give(writing, j) /\ Give(creation, j)
     /\ Set(j, IF artist[r.id] = None THEN Idle
               ELSE [r EXCEPT !.pc = IF r.kind = "build" THEN "lookup" ELSE "ask",
                              !.want = {}, !.safe = {}])
     /\ UNCHANGED <<artist, enriched, asking, starts>>

(* _enrich_artist_from_musicbrainz, once for an artist. *)
Ask(j) ==
  /\ job[j].pc = "ask"
  /\ \/ job[j].id \in enriched /\ Set(j, Idle) /\ UNCHANGED asking
     \/ /\ job[j].id \notin enriched /\ Take(asking, j)
        /\ Set(j, [job[j] EXCEPT !.pc = "lookup"])
  /\ UNCHANGED <<artist, alias, enriched, creation, writing, starts>>

(* MusicBrainz answers, or does not in time. *)
Lookup(j) ==
  /\ job[j].pc = "lookup"
  /\ \E names \in {{}, Known[job[j].name]} : Set(j, [job[j] EXCEPT !.pc = "more", !.want = names])
  /\ UNCHANGED <<artist, alias, enriched, creation, writing, asking, starts>>

Enrich(j) ==
  LET r == job[j]
  IN /\ r.pc = "written"
     /\ alias' = Added(r.id, r.safe, "auto")
     /\ Give(writing, j) /\ Give(asking, j)
     /\ enriched' = IF r.kind = "build" THEN enriched ELSE enriched \cup {r.id}
     /\ \E next \in Turn([r EXCEPT !.id = 0, !.want = {}, !.safe = {}]) : Set(j, next)
     /\ UNCHANGED <<artist, creation, starts>>

(* _auto_build_artist_library gives up after some time. *)
Timeout(j) ==
  /\ job[j].kind = "build" /\ job[j].pc # "idle"
  /\ Give(writing, j) /\ Give(creation, j) /\ Set(j, Idle)
  /\ UNCHANGED <<artist, alias, enriched, asking, starts>>

-----------------------------------------------------------------------------
(* Users *)

Asked == [Idle EXCEPT !.kind = "user"]
Others(i, names) == Matches(All(names)) \ {i}

(* update_artist: a new name and other aliases *)
Update(j, i, n, names) ==
  /\ Free(j) /\ Count /\ i \in There /\ Take(creation, j)
  /\ Others(i, {n} \cup names) = {}
  /\ Set(j, [Asked EXCEPT !.pc = "update", !.id = i, !.name = n,
                          !.want = {m \in names : Norm[m] # Norm[n]}])
  /\ UNCHANGED <<artist, alias, enriched, writing, asking>>

Updated(j) ==
  LET r == job[j]
  IN /\ r.pc = "update"
     /\ IF artist[r.id] = None THEN UNCHANGED <<artist, alias>>
        ELSE /\ artist' = [artist EXCEPT ![r.id] = r.name]
             /\ alias' = {x \in alias : x.id # r.id}
                           \cup [id : {r.id}, alias : r.want \cup {r.name}, source : {"user"}]
     /\ Give(creation, j) /\ Set(j, Idle)
     /\ UNCHANGED <<enriched, writing, asking, starts>>

AddAlias(j, i, n) ==
  /\ Free(j) /\ Count /\ i \in There /\ Take(creation, j)
  /\ Others(i, {n}) = {}
  /\ Set(j, [Asked EXCEPT !.pc = "add", !.id = i, !.name = n])
  /\ UNCHANGED <<artist, alias, enriched, writing, asking>>

AliasAdded(j) ==
  LET r == job[j]
  IN /\ r.pc = "add"
     /\ alias' = IF \E x \in alias : x.id = r.id /\ x.alias = r.name THEN alias
                 ELSE Added(r.id, {r.name}, "user")
     /\ Give(creation, j) /\ Set(j, Idle)
     /\ UNCHANGED <<artist, enriched, writing, asking, starts>>

(* merge_artists: first the aliases, then the artist; no lock is taken. *)
Merge(j, target, source) ==
  /\ Free(j) /\ Count /\ target \in There /\ source \in There \ {target}
  /\ alias' = {IF r.id = source THEN [r EXCEPT !.id = target] ELSE r : r \in alias}
  /\ Set(j, [Asked EXCEPT !.pc = "merge", !.id = source, !.name = artist[source]])
  /\ UNCHANGED <<artist, enriched, creation, writing, asking>>

Merged(j) ==
  /\ job[j].pc = "merge"
  /\ artist' = [artist EXCEPT ![job[j].id] = None]
  /\ Set(j, Idle)
  /\ UNCHANGED <<alias, enriched, creation, writing, asking, starts>>

Clear ==
  /\ Count /\ There # {}
  /\ artist' = [i \in Id |-> None] /\ alias' = {}
  /\ UNCHANGED <<enriched, creation, writing, asking, job>>

Finds(j) ==
  Find(j) \/ Create(j) \/ Check(j) \/ Write(j) \/ Ask(j) \/ Lookup(j) \/ Enrich(j) \/ Timeout(j)
Edits(j) == Updated(j) \/ AliasAdded(j) \/ Merged(j)

Next ==
  \/ \E j \in Job : Finds(j) \/ Edits(j) \/ Build(j)
  \/ \E j \in Job, n \in Name : Ensure(j, n)
  \/ \E j \in Job, i \in Id, n \in Typed : AddAlias(j, i, n)
  \/ \E j \in Job, i \in Id, n, m \in Typed : Update(j, i, n, {m})
  \/ \E j \in Job, target, source \in Id : Merge(j, target, source)
  \/ Clear

Spec == Init /\ [][Next]_vars

-----------------------------------------------------------------------------
(* Properties *)

(* However scrapes, builds, renamings and merges interleave, no name has   *)
(* two artists in whichever of its writings.                               *)
OneArtistPerName == \A i, k \in There : Norm[artist[i]] = Norm[artist[k]] => i = k

(* An alias that no user gave belongs to one artist: the check for other   *)
(* owners and the write hold against every other scrape and build.         *)
AliasesOwned ==
  \A q, r \in alias : q.source = "auto" /\ r.source = "auto" /\ q.alias = r.alias => q.id = r.id

(* Once a name is known, scrapes, builds and lookups, which may still give *)
(* the name to another artist or find it missing before that, change the   *)
(* artist it resolves to only to the one who is called so: files of an     *)
(* artist keep going to one directory. A name of several, in brackets, is  *)
(* excepted; so is an alias no longer free when it is written, since who   *)
(* makes the artist of that name, or gives it the alias, holds another     *)
(* lock than who checks the alias. Even that does not take a name from the *)
(* artist that is called so.                                               *)
Plain(n) == \A m \in Candidates[n] : Candidates[m] = Candidates[n]
Called(n) == artist[Resolved(n)] = Preferred(Candidates[n], n)
StillFree(n) ==
  \A j \in Job : \A m \in job[j].safe \cap Candidates[n] : Owners(m) \subseteq {job[j].id}
StableCanonical ==
  [][(\E j \in Job : job[j].pc \notin {"idle", "update", "add", "merge"} /\ job[j] # job'[j])
       => \A n \in Name : Plain(n) /\ Resolved(n) # 0 /\ (Called(n) \/ StillFree(n)) =>
            Resolved(n)' = Resolved(n) \/ Called(n)']_vars

=============================================================================
