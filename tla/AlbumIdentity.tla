--------------------------- MODULE AlbumIdentity ---------------------------
(***************************************************************************)
(* How the files of one album get the tags a media server groups them by. *)
(* Before it writes tags, the organisation of a file takes the album's key *)
(* by a nested exclusive task, agrees with the files and the anchors that  *)
(* are already there on an identity, and keeps the key until its result is *)
(* recorded (infra/api/app.py 10563-11065, core/scraping.py 380-446).      *)
(*                                                                         *)
(* All directories here belong to one album. A file without an album text  *)
(* counts for it when its directory is named like the album, but its key   *)
(* is the directory's.                                                     *)
(*                                                                         *)
(* Abstracted: the three identifying values of a release (MusicBrainz id,  *)
(* version, date) are one, `id'; paths and texts are equal once they are   *)
(* normalised.                                                             *)
(***************************************************************************)
EXTENDS Integers, Sequences, FiniteSets

CONSTANTS
    Job,        \* organisations of one file each
    Place,      \* planned directories of the album
    Artist,     \* album artists
    Id,         \* identifying values of a release
    None,       \* no value
    Olds,       \* the sets of identities of files from before, one set to a directory
    Nameless,   \* may a file have no album text?
    Mishaps     \* interruptions and crashes

Identity == [artist : Artist, id : Id \cup {None}]

ASSUME AlbumAssumption ==
    /\ IsFiniteSet(Place) /\ Place # {} /\ "album" \notin Place
    /\ \A ids \in Olds : ids \subseteq Identity /\ IsFiniteSet(ids)
    /\ None \notin Job \cup Id \cup Identity
    /\ Mishaps \in Nat

VARIABLES
    old,        \* the identities of the files that were there before
    file,       \* files of the library: where, by whom, the identity in their tags
    listed,     \* those of them the synchronised library table has
    anchors,    \* rows of album_identity_anchors
    location,   \* rows of album_identity_locations: the anchor of a directory
    lock,       \* who holds an album key
    pc,         \* where each organisation is
    job,        \* what it has read and decided
    mishaps

vars == <<old, file, listed, anchors, location, lock, pc, job, mishaps>>

Album == "album"
Keys == {Album} \cup Place
Resolving == {"locate", "look", "view", "update", "choose", "bind", "create"}
\* `left': interrupted, with the nested task still waiting for its release.
Steps == {"idle", "waiting", "write", "record", "over", "left"} \cup Resolving

Maybe == Identity \cup {None}
Organisation == [place : Place, key : Keys, proposed : Maybe, anchor : Nat, known : Maybe,
                 physical : Maybe, server : Maybe, identity : Maybe]

Fresh == [place |-> CHOOSE p \in Place : TRUE, key |-> Album, proposed |-> None,
          anchor |-> 0, known |-> None, physical |-> None, server |-> None,
          identity |-> None]

Init ==
    /\ old \in [Place -> Olds]
    /\ file = UNION {{[place |-> p, by |-> i, tag |-> i] : i \in old[p]} : p \in Place}
    /\ listed \in {{}, file}
    /\ anchors = <<>>
    /\ location = [p \in Place |-> 0]
    /\ lock = [k \in Keys |-> None]
    /\ pc = [j \in Job |-> "idle"]
    /\ job = [j \in Job |-> Fresh]
    /\ mishaps = 0

---------------------------------------------------------------------------
(* The rules *)

In(fs, p) == {f \in fs : f.place = p}
Tagged(fs, i) == {f \in fs : f.tag = i}
Tags(fs) == {f.tag : f \in fs}

\* One value for all of them, or none.
Common(ids) == IF Cardinality(ids) = 1 THEN CHOOSE i \in ids : TRUE ELSE None

\* The artist of most of these files; ties go to the first name.
Majority(fs) ==
    LET Count(a) == Cardinality({f \in fs : f.tag.artist = a})
        most == {a \in Artist : \A b \in Artist : Count(a) >= Count(b)}
    IN  CHOOSE a \in most : TRUE

Physical(fs, proposed) ==
    IF fs = {} THEN proposed
    ELSE [artist |-> Majority(fs), id |-> Common({f.tag.id : f \in fs})]

Or(value, fallback) == IF value # None THEN value ELSE fallback

\* What the media server says of the files it has listed. An album whose
\* lookup fails gives its artist only, from the library table.
Served(known, failed, fallback) ==
    LET groups == Tags(known)
        Size(i) == Cardinality(Tagged(IF i \in failed THEN known ELSE file, i))
        first == CHOOSE i \in groups : \A k \in groups : Size(i) >= Size(k)
        ids == {IF i \in failed THEN None ELSE i.id : i \in groups}
    IN  IF groups = {} THEN None
        ELSE [artist |-> first.artist, id |-> Or(Common(ids), fallback.id)]

Compatible(v, w) == v = None \/ w = None \/ v = w

\* The only anchor the identity can stand for, 0 when there is none or a choice.
Safe(i) ==
    LET compatible == {n \in DOMAIN anchors : /\ anchors[n].artist = i.artist
                                              /\ Compatible(anchors[n].id, i.id)}
        exact == {n \in compatible : i.id # None /\ anchors[n].id = i.id}
        Only(s) == IF Cardinality(s) = 1 THEN CHOOSE n \in s : TRUE ELSE 0
    IN  IF Cardinality(exact) = 1 THEN Only(exact) ELSE Only(compatible)

---------------------------------------------------------------------------
(* One file *)

\* The key is the album text, or the directory of a file that has none.
KeyOf(named, p) == IF named THEN Album ELSE p

Begin(j, p, named, i) ==
    /\ pc[j] = "idle"
    /\ named \/ Nameless
    /\ pc' = [pc EXCEPT ![j] = "waiting"]
    /\ job' = [job EXCEPT ![j] = [Fresh EXCEPT !.place = p, !.key = KeyOf(named, p),
                                               !.proposed = i]]
    /\ UNCHANGED <<old, file, listed, anchors, location, lock, mishaps>>

\* Slip: nobody waits for a key.
AcquireAtOnce(j) ==
    /\ pc[j] = "waiting"
    /\ lock' = [lock EXCEPT ![job[j].key] = j]
    /\ pc' = [pc EXCEPT ![j] = "locate"]
    /\ UNCHANGED <<old, file, listed, anchors, location, job, mishaps>>

\* run_exclusive starts the nested task.
Acquire(j) ==
    /\ pc[j] = "waiting"
    /\ lock[job[j].key] = None
    /\ lock' = [lock EXCEPT ![job[j].key] = j]
    /\ pc' = [pc EXCEPT ![j] = "locate"]
    /\ UNCHANGED <<old, file, listed, anchors, location, job, mishaps>>

Locate(j) ==
    LET n == location[job[j].place] IN
    /\ pc[j] = "locate"
    /\ job' = [job EXCEPT ![j].anchor = n,
                          ![j].known = IF n = 0 THEN None ELSE anchors[n]]
    /\ pc' = [pc EXCEPT ![j] = "look"]
    /\ UNCHANGED <<old, file, listed, anchors, location, lock, mishaps>>

Look(j) ==
    /\ pc[j] = "look"
    /\ job' = [job EXCEPT ![j].physical =
                   Physical(In(file, job[j].place), job[j].proposed)]
    /\ pc' = [pc EXCEPT ![j] = "view"]
    /\ UNCHANGED <<old, file, listed, anchors, location, lock, mishaps>>

\* What has been decided is all that is needed from here.
Decided(j, i) == [job EXCEPT ![j].identity = i, ![j].anchor = 0, ![j].known = None,
                             ![j].physical = None, ![j].server = None]

\* The server's view decides how to go on; without one the anchor that was
\* read holds as it was read.
View(j) ==
    LET known == In(listed, job[j].place)
        fallback == Or(job[j].known, job[j].physical)
    IN
    /\ pc[j] = "view"
    /\ \E failed \in SUBSET Tags(known) :
         LET served == Served(known, failed, fallback) IN
         /\ job' = IF job[j].anchor # 0 /\ served = None THEN Decided(j, job[j].known)
                   ELSE [job EXCEPT ![j].server = served]
         /\ pc' = [pc EXCEPT ![j] =
                       IF job[j].anchor = 0 THEN "choose"
                       ELSE IF served = None THEN "write" ELSE "update"]
    /\ UNCHANGED <<old, file, listed, anchors, location, lock, mishaps>>

Update(j) ==
    /\ pc[j] = "update"
    /\ anchors' = [anchors EXCEPT ![job[j].anchor] = job[j].server]
    /\ job' = Decided(j, job[j].server)
    /\ pc' = [pc EXCEPT ![j] = "write"]
    /\ UNCHANGED <<old, file, listed, location, lock, mishaps>>

\* The identity a new location starts from.
Wanted(j) == Or(job[j].server, job[j].physical)

Choose(j) ==
    LET n == Safe(Wanted(j)) IN
    /\ pc[j] = "choose"
    /\ job' = [job EXCEPT ![j].anchor = n]
    /\ pc' = [pc EXCEPT ![j] = IF n = 0 THEN "create" ELSE "bind"]
    /\ UNCHANGED <<old, file, listed, anchors, location, lock, mishaps>>

\* Slip: the anchor that was meant is used, whatever the location has got.
SettleAsMeant(j, rows, n) ==
    /\ anchors' = rows
    /\ location' = [location EXCEPT ![job[j].place] = n]
    /\ job' = Decided(j, rows[n])

\* A location is bound once: whoever comes second gets the anchor it has.
Settle(j, rows, n) ==
    LET p == job[j].place IN
    IF location[p] = 0
    THEN /\ anchors' = rows
         /\ location' = [location EXCEPT ![p] = n]
         /\ job' = Decided(j, rows[n])
    ELSE /\ job' = Decided(j, anchors[location[p]])
         /\ UNCHANGED <<anchors, location>>

Bind(j) ==
    /\ pc[j] = "bind"
    /\ Settle(j, anchors, job[j].anchor)
    /\ pc' = [pc EXCEPT ![j] = "write"]
    /\ UNCHANGED <<old, file, listed, lock, mishaps>>

Create(j) ==
    /\ pc[j] = "create"
    /\ Settle(j, Append(anchors, Wanted(j)), Len(anchors) + 1)
    /\ pc' = [pc EXCEPT ![j] = "write"]
    /\ UNCHANGED <<old, file, listed, lock, mishaps>>

Written(j) == file \cup {[place |-> job[j].place, by |-> j, tag |-> job[j].identity]}

\* The file's tags are written and it comes to its directory, or it fails.
Write(j) ==
    /\ pc[j] = "write"
    /\ file' \in {file, Written(j)}
    /\ job' = Decided(j, None)
    /\ pc' = [pc EXCEPT ![j] = "record"]
    /\ UNCHANGED <<old, listed, anchors, location, lock, mishaps>>

\* Slip: the key is left to the process's end.
Kept(j) == lock

\* The album key of this organisation comes free.
Freed(j) == [k \in Keys |-> IF lock[k] = j THEN None ELSE lock[k]]

\* The result is recorded, whatever comes of it, and the key released. If the
\* nested task was interrupted meanwhile, the release raises.
Finish(j) ==
    /\ pc[j] = "record"
    /\ lock' = Freed(j)
    /\ pc' = [pc EXCEPT ![j] = "over"]
    /\ UNCHANGED <<old, file, listed, anchors, location, job, mishaps>>

---------------------------------------------------------------------------
(* What happens around it *)

Mishap == mishaps < Mishaps /\ mishaps' = mishaps + 1

\* The user interrupts the nested task: it gives up its key. The organisation
\* fails while it waits for an identity, and goes on once it has one.
InterruptLease(j) ==
    /\ Mishap
    /\ \E k \in Keys : lock[k] = j
    /\ lock' = Freed(j)
    /\ pc' = [pc EXCEPT ![j] = IF @ \in Resolving THEN "over" ELSE @]
    /\ job' = IF pc[j] \in Resolving THEN Decided(j, None) ELSE job
    /\ UNCHANGED <<old, file, listed, anchors, location>>

\* The user interrupts the organisation. While it waits for an identity, or
\* records its result, the key is given up.
InterruptFile(j) ==
    /\ Mishap
    /\ pc[j] \in {"waiting", "record"} \cup Resolving
    /\ lock' = Freed(j)
    /\ pc' = [pc EXCEPT ![j] = "over"]
    /\ job' = Decided(j, None)
    /\ UNCHANGED <<old, file, listed, anchors, location>>

\* Between the two nobody releases the key: the nested task waits, and renews
\* its lease. The thread that writes the tags may get to its end.
InterruptWrite(j) ==
    /\ Mishap
    /\ pc[j] = "write"
    /\ file' \in {file, Written(j)}
    /\ pc' = [pc EXCEPT ![j] = "left"]
    /\ job' = Decided(j, None)
    /\ UNCHANGED <<old, listed, anchors, location, lock>>

\* The process ends; the next one's recovery frees every key.
Crash ==
    /\ Mishap
    /\ lock' = [k \in Keys |-> None]
    /\ pc' = [j \in Job |-> IF pc[j] \in {"idle", "left"} THEN pc[j] ELSE "over"]
    /\ job' = [j \in Job |-> Decided(j, None)[j]]
    /\ UNCHANGED <<old, file, listed, anchors, location>>

Sync ==
    /\ listed' = file
    /\ UNCHANGED <<old, file, anchors, location, lock, pc, job, mishaps>>

Resolve(j) == Locate(j) \/ Look(j) \/ View(j) \/ Update(j) \/ Choose(j) \/ Bind(j) \/ Create(j)
Works(j) == Acquire(j) \/ Resolve(j) \/ Write(j) \/ Finish(j)

Next ==
    \/ \E j \in Job : Works(j) \/ InterruptLease(j) \/ InterruptFile(j) \/ InterruptWrite(j)
    \/ \E j \in Job, p \in Place, named \in BOOLEAN, i \in Identity : Begin(j, p, named, i)
    \/ Crash \/ Sync

Spec == Init /\ [][Next]_vars

\* The steps of a coroutine are taken; one that waits for a key polls for it.
FairSpec == Spec /\ \A j \in Job : WF_vars(Resolve(j) \/ Write(j) \/ Finish(j)) /\ SF_vars(Acquire(j))

---------------------------------------------------------------------------
(* Properties *)

TypeOK ==
    /\ \A f \in file : f.place \in Place /\ f.tag \in Identity
    /\ listed \subseteq file
    /\ anchors \in Seq(Identity)
    /\ location \in [Place -> 0 .. Len(anchors)]
    /\ lock \in [Keys -> Job \cup {None}]
    /\ pc \in [Job -> Steps]
    /\ job \in [Job -> Organisation]
    /\ mishaps \in 0 .. Mishaps

\* A directory that shares its anchor with no other.
Alone(p) == \A q \in Place \ {p} : location[q] = 0 \/ location[q] # location[p]

\* The files of one directory do not fall apart into two albums: if those
\* that were there before agree, and no other directory has a say in its
\* anchor, all its files carry one identity, whoever organised them under
\* whatever key, interrupted or not, with whatever view the library table had.
Agreed ==
    \A p \in Place : Cardinality(old[p]) <= 1 /\ Alone(p) => Cardinality(Tags(In(file, p))) <= 1

\* An album does not fall apart over its directories either: files that come
\* under the album's name, to directories that are new, by one artist and
\* with no two different ids among them, never get two anchors.
Together ==
    LET begun == {j \in Job : pc[j] # "idle"}
        proposed == {job[j].proposed : j \in begun}
    IN  (/\ \A p \in Place : old[p] = {}
         /\ \A j \in begun : job[j].key = Album
         /\ \A i, k \in proposed : Compatible(i.id, k.id))
        => \A m, n \in DOMAIN anchors : anchors[m].artist = anchors[n].artist => m = n

\* Whoever organises a file gets to an end, through interruptions and
\* crashes, unless the key it waits for was left behind by an interruption
\* of its holder's writing, with the nested task that nobody ends.
OrganisationEnds ==
    \A j \in Job :
        pc[j] # "idle" ~> \/ pc[j] \in {"over", "left"}
                         \/ \E k \in Job : lock[job[j].key] = k /\ pc[k] = "left"
============================================================================
