-------------------------- MODULE LibrarySyncProofs --------------------------
(***************************************************************************)
(* Proofs about LibrarySync.                                               *)
(***************************************************************************)
EXTENDS LibrarySync, FiniteSetTheorems, TLAPS

-----------------------------------------------------------------------------
(* Counts *)

(* A part of 0..Slots is finite and has at most Slots + 1 members.         *)
LEMMA SlotsCounted ==
  ASSUME NEW S \in SUBSET (0..Slots)
  PROVE  /\ IsFiniteSet(S) /\ Cardinality(S) \in Count
         /\ Cardinality(S) > 0 <=> S # {}
<1>1. Slots \in Nat
  BY LibraryAssumption
<1>2. IsFiniteSet(0..Slots) /\ Cardinality(0..Slots) = Slots + 1
  BY <1>1, FS_Interval
<1>3. IsFiniteSet(S) /\ Cardinality(S) <= Slots + 1
  BY <1>2, <1>1, FS_Subset
<1>4. Cardinality(S) \in Nat /\ (Cardinality(S) = 0 <=> S = {})
  BY <1>3, FS_CardinalityType, FS_EmptySet
<1> QED
  <2>1. Cardinality(S) \in 0..Slots + 1
    BY <1>1, <1>3, <1>4
  <2>2. Cardinality(S) > 0 <=> S # {}
    <3>1. Cardinality(S) > 0 <=> ~ (Cardinality(S) = 0)
      BY <1>4
    <3> QED
      BY <3>1, <1>4, Zenon
  <2> QED
    BY <1>3, <2>1, <2>2 DEF Count

(* What the inner join counts for a song is positive exactly if one of the *)
(* song's rows is matched with a row of the library that is there.         *)
LEMMA LocalCounts ==
  ASSUME NEW rows
  PROVE  /\ Local(rows) \in [Song -> Count]
         /\ \A s \in Song : Local(rows)[s] > 0 <=> \E k \in 0..Slots : rows[<<s, k>>] = "live"
<1>1. ASSUME NEW s \in Song
      PROVE  /\ Local(rows)[s] \in Count
             /\ Local(rows)[s] > 0 <=> \E k \in 0..Slots : rows[<<s, k>>] = "live"
  <2> DEFINE live == {k \in 0..Slots : rows[<<s, k>>] = "live"}
  <2>1. Local(rows)[s] = Cardinality(live)
    BY DEF Local
  <2>2. live \in SUBSET (0..Slots)
    OBVIOUS
  <2>3. Cardinality(live) \in Count /\ (Cardinality(live) > 0 <=> live # {})
    BY <2>2, SlotsCounted
  <2> QED
    BY <2>1, <2>3
<1>2. Local(rows) = [s \in Song |-> Local(rows)[s]]
  BY DEF Local
<1> QED
  BY <1>1, <1>2

(* A merge keeps every count within the bound of the three it merges.      *)
LEMMA MergedCounts ==
  ASSUME base \in [Song -> Count], NEW local \in [Song -> Count], NEW other \in [Song -> Count]
  PROVE  Merged(local, other) \in [Song -> Count]
<1>1. Slots \in Nat
  BY LibraryAssumption
<1>2. ASSUME NEW s \in Song PROVE Merged(local, other)[s] \in Count
  <2>1. base[s] \in Count /\ local[s] \in Count /\ other[s] \in Count
    OBVIOUS
  <2> QED
    BY <2>1, <1>1 DEF Merged, Less, MaxOf, Count
<1>3. Merged(local, other) = [s \in Song |-> Merged(local, other)[s]]
  BY DEF Merged
<1> QED
  BY <1>2, <1>3

(* The next page has a number below that of the songs.                     *)
LEMMA PageWithin ==
  ASSUME TypeOK, NEW s \in Page
  PROVE  offset \in 0..N - 1
<1>1. N \in Nat /\ s \in 1..N /\ s \in server /\ server \subseteq 1..N
  BY LibraryAssumption DEF TypeOK, Page, Song
<1> DEFINE before == {x \in server : x < s}
<1>2. before \subseteq 1..s - 1
  <2> SUFFICES ASSUME NEW x \in before PROVE x \in 1..s - 1
    OBVIOUS
  <2>1. x \in 1..N /\ x < s
    BY <1>1
  <2> QED
    BY <2>1, <1>1
<1>3. IsFiniteSet(1..s - 1) /\ Cardinality(1..s - 1) = s - 1
  BY <1>1, FS_Interval
<1>4. IsFiniteSet(before) /\ Cardinality(before) <= s - 1
  BY <1>2, <1>3, FS_Subset
<1>5. Cardinality(before) = offset
  BY DEF Page
<1> QED
  BY <1>1, <1>4, <1>5, FS_CardinalityType DEF TypeOK

-----------------------------------------------------------------------------
(* Types *)

LEMMA TypeInit == Init => TypeOK
<1> SUFFICES ASSUME Init PROVE TypeOK
  OBVIOUS
<1>1. N \in Nat \ {0} /\ Slots \in Nat \ {0}
      /\ Scope \subseteq [songs : SUBSET Song, events : Nat, mishaps : Nat]
  BY LibraryAssumption DEF Song
<1>2. left \in [songs : SUBSET Song, events : Nat, mishaps : Nat]
  BY <1>1 DEF Init
<1>3. server \subseteq Song /\ table \subseteq Song
  BY <1>2 DEF Init
<1>4. link \in [Row -> {"absent", "none", "dead", "live"}]
  BY DEF Init
<1>5. Nothing \in [Song -> Count]
  BY <1>1 DEF Nothing, Count
<1>6. base \in [Song -> Count] /\ remote \in [Song -> Count]
  BY <1>5, LocalCounts DEF Init
<1>7. Keep \in [Row -> {"keep", "none", "dead", "live"}]
  BY DEF Keep
<1>8. plan \in [{"sync", "aside"} -> [Row -> {"keep", "none", "dead", "live"}]]
  BY <1>7 DEF Init
<1>9. offset \in 0..N
  BY <1>1 DEF Init
<1>10. UNION {behind, dropped, cutting, torn, added} \subseteq Song
  BY DEF Init
<1>11. there \in BOOLEAN /\ binding \in BOOLEAN
  BY DEF Init
<1> QED
  BY <1>2, <1>3, <1>4, <1>5, <1>6, <1>8, <1>9, <1>10, <1>11 DEF Init, TypeOK

(* What a match plans and writes, and what a deletion leaves of it.        *)
LEMMA MatchTypes ==
  ASSUME TypeOK
  PROVE  /\ \A rows : Planned(rows) \in [Row -> {"keep", "none", "dead", "live"}]
         /\ \A m \in {"sync", "aside"} : Written(m) \in [Row -> {"absent", "none", "dead", "live"}]
         /\ \A songs : Unlinked(songs) \in [Row -> {"absent", "none", "dead", "live"}]
         /\ \A songs : Overtaken(songs) \in [{"sync", "aside"} -> [Row -> {"keep", "none", "dead", "live"}]]
         /\ Keep \in [Row -> {"keep", "none", "dead", "live"}]
         /\ Nothing \in [Song -> Count]
<1>1. Slots \in Nat
  BY LibraryAssumption
<1>2. link \in [Row -> {"absent", "none", "dead", "live"}]
      /\ plan \in [{"sync", "aside"} -> [Row -> {"keep", "none", "dead", "live"}]]
  BY DEF TypeOK
<1>3. \A rows : Planned(rows) \in [Row -> {"keep", "none", "dead", "live"}]
  BY DEF Planned
<1>4. \A m \in {"sync", "aside"} : Written(m) \in [Row -> {"absent", "none", "dead", "live"}]
  <2> SUFFICES ASSUME NEW m \in {"sync", "aside"}
               PROVE  Written(m) \in [Row -> {"absent", "none", "dead", "live"}]
    OBVIOUS
  <2>1. plan[m] \in [Row -> {"keep", "none", "dead", "live"}]
    BY <1>2
  <2> QED
    BY <1>2, <2>1 DEF Written
<1>5. \A songs : Unlinked(songs) \in [Row -> {"absent", "none", "dead", "live"}]
  BY <1>2 DEF Unlinked
<1>6. \A songs : Overtaken(songs) \in [{"sync", "aside"} -> [Row -> {"keep", "none", "dead", "live"}]]
  BY <1>2 DEF Overtaken
<1> QED
  BY <1>1, <1>3, <1>4, <1>5, <1>6 DEF Keep, Nothing, Count

(* The conjuncts of TypeOK, in groups that few actions change.             *)
Media ==
  /\ server \subseteq Song /\ remote \in [Song -> Count] /\ there \in BOOLEAN
  /\ table \subseteq Song /\ binding \in BOOLEAN /\ base \in [Song -> Count] /\ recovery \in BOOLEAN
Matches ==
  /\ link \in [Row -> {"absent", "none", "dead", "live"}] /\ aside \in {"idle", "match", "write"}
  /\ plan \in [{"sync", "aside"} -> [Row -> {"keep", "none", "dead", "live"}]]
Syncs ==
  /\ sync \in {"idle", "page", "match", "write", "trigger", "all", "clear"}
  /\ periodic \in BOOLEAN /\ full \in BOOLEAN /\ first \in BOOLEAN
  /\ offset \in 0..N /\ seen \subseteq Song /\ changed \subseteq Song /\ dels \subseteq Row
Merges ==
  /\ rec \in {"idle", "read", "write", "insert", "rows", "base"}
  /\ by \in {"none", "trigger", "all", "aside", "auto", "once", "push"} /\ due \in BOOLEAN
  /\ got \in [Song -> Count] /\ target \in [Song -> Count]
Traces ==
  /\ left \in [songs : SUBSET Song, events : Nat, mishaps : Nat]
  /\ behind \subseteq Song /\ dropped \subseteq Song /\ cutting \subseteq Song
  /\ torn \subseteq Song /\ added \subseteq Song

LEMMA TypeParts ==
  /\ TypeOK <=> Media /\ Matches /\ Syncs /\ Merges /\ Traces
  /\ TypeOK' <=> Media' /\ Matches' /\ Syncs' /\ Merges' /\ Traces'
<1>1. \A T : UNION {behind, dropped, cutting, torn, added} \subseteq T
        <=> /\ behind \subseteq T /\ dropped \subseteq T /\ cutting \subseteq T
            /\ torn \subseteq T /\ added \subseteq T
  OBVIOUS
<1>2. \A T : UNION {behind', dropped', cutting', torn', added'} \subseteq T
        <=> /\ behind' \subseteq T /\ dropped' \subseteq T /\ cutting' \subseteq T
            /\ torn' \subseteq T /\ added' \subseteq T
  OBVIOUS
<1>3. TypeOK <=> Media /\ Matches /\ Syncs /\ Merges /\ Traces
  BY <1>1 DEF TypeOK, Media, Matches, Syncs, Merges, Traces
<1>4. TypeOK' <=> Media' /\ Matches' /\ Syncs' /\ Merges' /\ Traces'
  BY <1>2 DEF TypeOK, Media, Matches, Syncs, Merges, Traces
<1> QED
  BY <1>3, <1>4

LEMMA MediaStep == TypeOK /\ [Next]_vars => Media'
<1> SUFFICES ASSUME TypeOK, [Next]_vars PROVE Media'
  OBVIOUS
<1>a. /\ TypeOK /\ N \in Nat \ {0} /\ Slots \in Nat \ {0} /\ left.songs \subseteq Song
      /\ Media /\ Matches /\ Syncs /\ Merges /\ Traces
  BY LibraryAssumption, TypeParts DEF Traces
<1>1. CASE PageRepeated \/ SyncMatch \/ SyncWrite \/ SyncUnbound \/ StartBound \/
           NoneBound \/ ReadBoth \/ ReadPush \/ ReconcileRows \/
           ReconcileStuck \/ AsideMatch \/ AsideWrite \/ SyncFails \/
           ReconcileFails \/ AsideFails \/ Crash \/ (\E s \in left.songs :
           Import(s)) \/ Ask \/ UNCHANGED vars
  <2>1. UNCHANGED <<server, remote, there, table, binding, base, recovery>>
    BY <1>1 DEF PageRepeated, SyncMatch, SyncWrite, SyncUnbound, StartBound,
         NoneBound, ReadBoth, ReadPush, ReconcileRows, ReconcileStuck,
         AsideMatch, AsideWrite, SyncFails, ReconcileFails, AsideFails,
         Crash, Import, Ask, Start, Mishap, Event, vars, media, syncing,
         merging, history
  <2> QED
    BY <1>a, <2>1 DEF Media
<1>2. ASSUME NEW p \in BOOLEAN, StartSync(p) PROVE Media'
  BY <1>a, <1>2, MatchTypes DEF Media, StartSync, media, syncing, merging, history
<1>3. ASSUME NEW s \in Song, ReadPage(s) PROVE Media'
  BY <1>a, <1>3, MatchTypes
     DEF Media, ReadPage, Upserted, media, syncing, merging, history
<1>4. CASE DeleteMissing
  BY <1>a, <1>4, MatchTypes DEF Media, DeleteMissing, media, syncing, merging, history
<1>5. CASE SyncClear
  BY <1>a, <1>5, MatchTypes DEF Media, SyncClear, media, syncing, merging, history
<1>6. CASE WriteRemote
  BY <1>a, <1>6, MatchTypes
     DEF Media, WriteRemote, Accepted, Count, Merges, media, syncing, merging, history
<1>7. CASE InsertRemote
  BY <1>a, <1>7, MatchTypes
     DEF Media, InsertRemote, Upserted, media, syncing, merging, history
<1>8. CASE WriteBaseline
  BY <1>a, <1>8, MatchTypes
     DEF Media, WriteBaseline, Merges, media, syncing, merging, history
<1>9. ASSUME NEW s \in left.songs, DeleteMedia(s) PROVE Media'
  BY <1>a, <1>9, MatchTypes DEF Media, DeleteMedia, media, syncing, merging, history
<1>10. ASSUME NEW s \in left.songs, ServerChanges(s) PROVE Media'
  BY <1>a, <1>10, MatchTypes
     DEF Media, ServerChanges, Count, media, syncing, merging, history
<1>11. ASSUME NEW s \in left.songs, UserEdits(s) PROVE Media'
  BY <1>a, <1>11, MatchTypes
     DEF Media, UserEdits, Count, media, syncing, merging, history
<1>12. CASE UserDeletes
  BY <1>a, <1>12, MatchTypes DEF Media, UserDeletes, media, syncing, merging, history
<1> QED
  BY <1>1, <1>2, <1>3, <1>4, <1>5, <1>6, <1>7, <1>8, <1>9, <1>10, <1>11, <1>12
     DEF Next, SyncStep, RecStep, Outside

LEMMA MatchesStep == TypeOK /\ [Next]_vars => Matches'
<1> SUFFICES ASSUME TypeOK, [Next]_vars PROVE Matches'
  OBVIOUS
<1>a. /\ TypeOK /\ N \in Nat \ {0} /\ Slots \in Nat \ {0} /\ left.songs \subseteq Song
      /\ Media /\ Matches /\ Syncs /\ Merges /\ Traces
  BY LibraryAssumption, TypeParts DEF Traces
<1>1. CASE (\E p \in BOOLEAN : StartSync(p)) \/ (\E s \in Song : ReadPage(s)) \/
           PageRepeated \/ SyncUnbound \/ SyncClear \/ StartBound \/
           NoneBound \/ ReadBoth \/ ReadPush \/ WriteRemote \/
           InsertRemote \/ WriteBaseline \/ ReconcileStuck \/
           ReconcileFails \/ (\E s \in left.songs : ServerChanges(s)) \/
           (\E s \in left.songs : UserEdits(s)) \/ Ask \/ UserDeletes \/
           UNCHANGED vars
  <2>1. UNCHANGED <<link, aside, plan>>
    BY <1>1 DEF StartSync, ReadPage, PageRepeated, SyncUnbound, SyncClear,
         StartBound, NoneBound, ReadBoth, ReadPush, WriteRemote,
         InsertRemote, WriteBaseline, ReconcileStuck, ReconcileFails,
         ServerChanges, UserEdits, Ask, UserDeletes, Start, Mishap, Event,
         Finish, vars, media, syncing, merging, history
  <2> QED
    BY <1>a, <2>1 DEF Matches
<1>2. CASE DeleteMissing
  BY <1>a, <1>2, MatchTypes DEF Matches, DeleteMissing, media, syncing, merging, history
<1>3. CASE SyncMatch
  BY <1>a, <1>3, MatchTypes DEF Matches, SyncMatch, media, syncing, merging, history
<1>4. CASE SyncWrite
  BY <1>a, <1>4, MatchTypes DEF Matches, SyncWrite, media, syncing, merging, history
<1>5. CASE ReconcileRows
  BY <1>a, <1>5, MatchTypes DEF Matches, ReconcileRows, media, syncing, merging, history
<1>6. CASE AsideMatch
  BY <1>a, <1>6, MatchTypes DEF Matches, AsideMatch, media, syncing, merging, history
<1>7. CASE AsideWrite
  BY <1>a, <1>7, MatchTypes DEF Matches, AsideWrite, media, syncing, merging, history
<1>8. CASE SyncFails
  BY <1>a, <1>8, MatchTypes DEF Matches, SyncFails, media, syncing, merging, history
<1>9. CASE AsideFails
  BY <1>a, <1>9, MatchTypes DEF Matches, AsideFails, media, syncing, merging, history
<1>10. CASE Crash
  BY <1>a, <1>10, MatchTypes DEF Matches, Crash, media, syncing, merging, history
<1>11. ASSUME NEW s \in left.songs, DeleteMedia(s) PROVE Matches'
  BY <1>a, <1>11, MatchTypes DEF Matches, DeleteMedia, media, syncing, merging, history
<1>12. ASSUME NEW s \in left.songs, Import(s) PROVE Matches'
  BY <1>a, <1>12, MatchTypes DEF Matches, Import, Row, media, syncing, merging, history
<1> QED
  BY <1>1, <1>2, <1>3, <1>4, <1>5, <1>6, <1>7, <1>8, <1>9, <1>10, <1>11, <1>12
     DEF Next, SyncStep, RecStep, Outside

LEMMA SyncsStep == TypeOK /\ [Next]_vars => Syncs'
<1> SUFFICES ASSUME TypeOK, [Next]_vars PROVE Syncs'
  OBVIOUS
<1>a. /\ TypeOK /\ N \in Nat \ {0} /\ Slots \in Nat \ {0} /\ left.songs \subseteq Song
      /\ Media /\ Matches /\ Syncs /\ Merges /\ Traces
  BY LibraryAssumption, TypeParts DEF Traces
<1>1. CASE StartBound \/ NoneBound \/ ReadBoth \/ ReadPush \/ InsertRemote \/
           ReconcileRows \/ AsideMatch \/ AsideWrite \/ AsideFails \/ (\E
           s \in left.songs : DeleteMedia(s)) \/ (\E s \in left.songs :
           Import(s)) \/ (\E s \in left.songs : ServerChanges(s)) \/ (\E s
           \in left.songs : UserEdits(s)) \/ Ask \/ UserDeletes \/
           UNCHANGED vars
  <2>1. UNCHANGED <<sync, periodic, full, first, offset, seen, changed, dels>>
    BY <1>1 DEF StartBound, NoneBound, ReadBoth, ReadPush, InsertRemote,
         ReconcileRows, AsideMatch, AsideWrite, AsideFails, DeleteMedia,
         Import, ServerChanges, UserEdits, Ask, UserDeletes, Start,
         Mishap, Event, vars, media, syncing, merging, history
  <2> QED
    BY <1>a, <2>1 DEF Syncs
<1>f. Forget => /\ periodic' \in BOOLEAN /\ full' \in BOOLEAN /\ offset' \in 0..N
                 /\ seen' \subseteq Song /\ changed' \subseteq Song /\ dels' \subseteq Row
  <2>1. Forget => offset' \in 0..N
    BY <1>a DEF Forget
  <2>2. Forget => periodic' \in BOOLEAN /\ full' \in BOOLEAN
    BY DEF Forget
  <2>3. Forget => seen' \subseteq Song /\ changed' \subseteq Song /\ dels' \subseteq Row
    BY Zenon DEF Forget
  <2> QED
    BY <2>1, <2>2, <2>3
<1>2. ASSUME NEW p \in BOOLEAN, StartSync(p) PROVE Syncs'
  BY <1>a, <1>2 DEF Syncs, StartSync, media, syncing, merging, history
<1>3. ASSUME NEW s \in Song, ReadPage(s) PROVE Syncs'
  BY <1>a, <1>3, PageWithin DEF Syncs, ReadPage, media, syncing, merging, history
<1>4. CASE PageRepeated
  BY <1>a, <1>4, <1>f DEF Syncs, PageRepeated, media, syncing, merging, history
<1>5. CASE DeleteMissing
  BY <1>a, <1>5 DEF Syncs, DeleteMissing, media, syncing, merging, history
<1>6. CASE SyncMatch
  BY <1>a, <1>6 DEF Syncs, SyncMatch, media, syncing, merging, history
<1>7. CASE SyncWrite
  BY <1>a, <1>7 DEF Syncs, SyncWrite, media, syncing, merging, history
<1>8. CASE SyncUnbound
  BY <1>a, <1>8 DEF Syncs, SyncUnbound, Then, media, syncing, merging, history
<1>9. CASE SyncClear
  BY <1>a, <1>9, <1>f DEF Syncs, SyncClear, media, syncing, merging, history
<1>10. CASE WriteRemote
  BY <1>a, <1>10 DEF Syncs, WriteRemote, Finish, Then, media, syncing, merging, history
<1>11. CASE WriteBaseline
  BY <1>a, <1>11
     DEF Syncs, WriteBaseline, Finish, Then, media, syncing, merging, history
<1>12. CASE ReconcileStuck
  BY <1>a, <1>12
     DEF Syncs, ReconcileStuck, Finish, Then, media, syncing, merging, history
<1>13. CASE SyncFails
  BY <1>a, <1>13, <1>f DEF Syncs, SyncFails, media, syncing, merging, history
<1>14. CASE ReconcileFails
  BY <1>a, <1>14
     DEF Syncs, ReconcileFails, Finish, Then, media, syncing, merging, history
<1>15. CASE Crash
  BY <1>a, <1>15, <1>f DEF Syncs, Crash, media, syncing, merging, history
<1> QED
  BY <1>1, <1>2, <1>3, <1>4, <1>5, <1>6, <1>7, <1>8, <1>9, <1>10, <1>11, <1>12,
      <1>13, <1>14, <1>15
     DEF Next, SyncStep, RecStep, Outside

LEMMA MergesStep == TypeOK /\ [Next]_vars => Merges'
<1> SUFFICES ASSUME TypeOK, [Next]_vars PROVE Merges'
  OBVIOUS
<1>a. /\ TypeOK /\ N \in Nat \ {0} /\ Slots \in Nat \ {0} /\ left.songs \subseteq Song
      /\ Media /\ Matches /\ Syncs /\ Merges /\ Traces
  BY LibraryAssumption, TypeParts DEF Traces
<1>1. CASE (\E p \in BOOLEAN : StartSync(p)) \/ (\E s \in Song : ReadPage(s)) \/
           PageRepeated \/ DeleteMissing \/ SyncMatch \/ SyncWrite \/
           SyncUnbound \/ SyncClear \/ AsideMatch \/ SyncFails \/
           AsideFails \/ (\E s \in left.songs : DeleteMedia(s)) \/ (\E s
           \in left.songs : Import(s)) \/ (\E s \in left.songs :
           ServerChanges(s)) \/ (\E s \in left.songs : UserEdits(s)) \/
           UserDeletes \/ UNCHANGED vars
  <2>1. UNCHANGED <<rec, by, due, got, target>>
    BY <1>1 DEF StartSync, ReadPage, PageRepeated, DeleteMissing, SyncMatch,
         SyncWrite, SyncUnbound, SyncClear, AsideMatch, SyncFails,
         AsideFails, DeleteMedia, Import, ServerChanges, UserEdits,
         UserDeletes, Mishap, vars, media, syncing, merging, history
  <2> QED
    BY <1>a, <2>1 DEF Merges
<1>2. CASE StartBound
  BY <1>a, <1>2, MatchTypes
     DEF Merges, StartBound, Start, media, syncing, merging, history
<1>3. CASE NoneBound
  BY <1>a, <1>3, MatchTypes DEF Merges, NoneBound, media, syncing, merging, history
<1>4. CASE ReadBoth
  BY <1>a, <1>4, MatchTypes, LocalCounts, MergedCounts
     DEF Merges, ReadBoth, Target, media, syncing, merging, history, Media
<1>5. CASE ReadPush
  BY <1>a, <1>5, MatchTypes, LocalCounts
     DEF Merges, ReadPush, media, syncing, merging, history
<1>6. CASE WriteRemote
  BY <1>a, <1>6, MatchTypes
     DEF Merges, WriteRemote, Finish, media, syncing, merging, history
<1>7. CASE InsertRemote
  BY <1>a, <1>7, MatchTypes DEF Merges, InsertRemote, media, syncing, merging, history
<1>8. CASE ReconcileRows
  BY <1>a, <1>8, MatchTypes DEF Merges, ReconcileRows, media, syncing, merging, history
<1>9. CASE WriteBaseline
  BY <1>a, <1>9, MatchTypes
     DEF Merges, WriteBaseline, Finish, media, syncing, merging, history
<1>10. CASE ReconcileStuck
  BY <1>a, <1>10, MatchTypes
     DEF Merges, ReconcileStuck, Finish, media, syncing, merging, history
<1>11. CASE AsideWrite
  BY <1>a, <1>11, MatchTypes
     DEF Merges, AsideWrite, Bound, media, syncing, merging, history
<1>12. CASE ReconcileFails
  BY <1>a, <1>12, MatchTypes
     DEF Merges, ReconcileFails, Finish, media, syncing, merging, history
<1>13. CASE Crash
  BY <1>a, <1>13, MatchTypes DEF Merges, Crash, media, syncing, merging, history
<1>14. CASE Ask
  BY <1>a, <1>14, MatchTypes DEF Merges, Ask, media, syncing, merging, history
<1> QED
  BY <1>1, <1>2, <1>3, <1>4, <1>5, <1>6, <1>7, <1>8, <1>9, <1>10, <1>11, <1>12,
      <1>13, <1>14
     DEF Next, SyncStep, RecStep, Outside

LEMMA TracesStep == TypeOK /\ [Next]_vars => Traces'
<1> SUFFICES ASSUME TypeOK, [Next]_vars PROVE Traces'
  OBVIOUS
<1>a. /\ TypeOK /\ N \in Nat \ {0} /\ Slots \in Nat \ {0} /\ left.songs \subseteq Song
      /\ Media /\ Matches /\ Syncs /\ Merges /\ Traces
  BY LibraryAssumption, TypeParts DEF Traces
<1>1. CASE (\E p \in BOOLEAN : StartSync(p)) \/ PageRepeated \/ SyncUnbound \/
           SyncClear \/ StartBound \/ NoneBound \/ ReadBoth \/ ReadPush \/
           ReconcileRows \/ AsideMatch \/ UNCHANGED vars
  <2>1. UNCHANGED <<left, behind, dropped, cutting, torn, added>>
    BY <1>1 DEF StartSync, PageRepeated, SyncUnbound, SyncClear, StartBound,
         NoneBound, ReadBoth, ReadPush, ReconcileRows, AsideMatch, Start,
         vars, media, syncing, merging, history
  <2> QED
    BY <1>a, <2>1 DEF Traces
<1>2. ASSUME NEW s \in Song, ReadPage(s) PROVE Traces'
  BY <1>a, <1>2, MatchTypes
     DEF Traces, ReadPage, Missed, Upserted, Media, media, syncing, merging, history
<1>3. CASE DeleteMissing
  BY <1>a, <1>3, MatchTypes
     DEF Traces, DeleteMissing, Missed, Media, media, syncing, merging, history
<1>4. CASE SyncMatch
  BY <1>a, <1>4, MatchTypes DEF Traces, SyncMatch, media, syncing, merging, history
<1>5. CASE SyncWrite
  BY <1>a, <1>5, MatchTypes
     DEF Traces, SyncWrite, Late, media, syncing, merging, history
<1>6. CASE WriteRemote
  BY <1>a, <1>6, MatchTypes
     DEF Traces, WriteRemote, Finish, media, syncing, merging, history
<1>7. CASE InsertRemote
  BY <1>a, <1>7, MatchTypes
     DEF Traces, InsertRemote, Upserted, Merges, media, syncing, merging, history
<1>8. CASE WriteBaseline
  BY <1>a, <1>8, MatchTypes
     DEF Traces, WriteBaseline, Finish, media, syncing, merging, history
<1>9. CASE ReconcileStuck
  BY <1>a, <1>9, MatchTypes
     DEF Traces, ReconcileStuck, Finish, media, syncing, merging, history
<1>10. CASE AsideWrite
  BY <1>a, <1>10, MatchTypes
     DEF Traces, AsideWrite, Late, media, syncing, merging, history
<1>11. CASE SyncFails
  BY <1>a, <1>11, MatchTypes
     DEF Traces, SyncFails, Mishap, media, syncing, merging, history
<1>12. CASE ReconcileFails
  BY <1>a, <1>12, MatchTypes
     DEF Traces, ReconcileFails, Mishap, Finish, media, syncing, merging, history
<1>13. CASE AsideFails
  BY <1>a, <1>13, MatchTypes
     DEF Traces, AsideFails, Mishap, Unmatched, media, syncing, merging, history
<1>14. CASE Crash
  BY <1>a, <1>14, MatchTypes
     DEF Traces, Crash, Mishap, Unmatched, media, syncing, merging, history
<1>15. ASSUME NEW s \in left.songs, DeleteMedia(s) PROVE Traces'
  BY <1>a, <1>15, MatchTypes
     DEF Traces, DeleteMedia, Event, Missed, media, syncing, merging, history
<1>16. ASSUME NEW s \in left.songs, Import(s) PROVE Traces'
  BY <1>a, <1>16, MatchTypes DEF Traces, Import, Event, media, syncing, merging, history
<1>17. ASSUME NEW s \in left.songs, ServerChanges(s) PROVE Traces'
  BY <1>a, <1>17, MatchTypes
     DEF Traces, ServerChanges, Event, media, syncing, merging, history
<1>18. ASSUME NEW s \in left.songs, UserEdits(s) PROVE Traces'
  BY <1>a, <1>18, MatchTypes
     DEF Traces, UserEdits, Event, media, syncing, merging, history
<1>19. CASE Ask
  BY <1>a, <1>19, MatchTypes DEF Traces, Ask, Event, media, syncing, merging, history
<1>20. CASE UserDeletes
  BY <1>a, <1>20, MatchTypes
     DEF Traces, UserDeletes, Event, media, syncing, merging, history
<1> QED
  BY <1>1, <1>2, <1>3, <1>4, <1>5, <1>6, <1>7, <1>8, <1>9, <1>10, <1>11, <1>12,
      <1>13, <1>14, <1>15, <1>16, <1>17, <1>18, <1>19, <1>20
     DEF Next, SyncStep, RecStep, Outside

(* TypeOK is an invariant: the songs, the rows and the counts stay those   *)
(* that there are, whatever the media server's list does while it is read. *)
THEOREM TypeCorrect == Spec => []TypeOK
<1>1. TypeOK /\ [Next]_vars => TypeOK'
  BY MediaStep, MatchesStep, SyncsStep, MergesStep, TracesStep, TypeParts
<1> QED
  BY TypeInit, <1>1, PTL DEF Spec

-----------------------------------------------------------------------------
(* The matches of the rows *)

Wanted(s) == IF s \in table THEN "live" ELSE "none"
Wrong(row) == link[row] \notin {"absent", Wanted(row[1])}

(* A row that is not matched as it should be is one that some match under  *)
(* way or the next synchronisation of the library will write.              *)
Cared(row) ==
  \/ aside = "match"
  \/ aside = "write" /\ plan["aside"][row] = Wanted(row[1])
  \/ sync = "idle" /\ recovery
  \/ sync = "page" /\ (full \/ row[1] \in changed)
  \/ sync = "match" /\ row \in Affected
  \/ sync = "write" /\ plan["sync"][row] = Wanted(row[1])

LiveRows == \A row \in Row : link[row] = "live" => row[1] \in table
LivePlans == \A m \in {"sync", "aside"} : \A row \in Row : plan[m][row] = "live" => row[1] \in table
Flagged == sync # "idle" => recovery
Resting == (aside # "write" => plan["aside"] = Keep) /\ (sync # "write" => plan["sync"] = Keep)
Caring == \A row \in Row : row[1] \notin behind =>
            /\ Wrong(row) => Cared(row)
            /\ \A m \in {"sync", "aside"} : plan[m][row] \in {"keep", Wanted(row[1])}

FreshInv == TypeOK /\ LiveRows /\ LivePlans /\ Flagged /\ Resting /\ Caring

(* It starts with an empty plan and with rows that fit the table.          *)
LEMMA FreshInit == Init => FreshInv
<1> SUFFICES ASSUME Init PROVE FreshInv
  OBVIOUS
<1>1. TypeOK
  BY TypeInit
<1>2. \A row \in Row : link[row] \in {"absent", Wanted(row[1])} /\ (link[row] = "live" => row[1] \in table)
  BY DEF Init, Wanted
<1>3. plan["sync"] = Keep /\ plan["aside"] = Keep /\ \A row \in Row : Keep[row] = "keep"
  BY DEF Init, Keep
<1> QED
  BY <1>1, <1>2, <1>3
     DEF Init, FreshInv, LiveRows, LivePlans, Flagged, Resting, Caring, Wrong

(* When everything is at rest nothing cares for a row any more.            *)
LEMMA FreshHolds == FreshInv => Fresh
<1> SUFFICES ASSUME FreshInv, Settled, NEW row \in Row, row[1] \notin behind
             PROVE  link[row] \in {"absent", Wanted(row[1])}
  BY DEF Fresh, Wanted
<1>1. ~ Cared(row)
  BY DEF Settled, Cared
<1> QED
  BY <1>1 DEF FreshInv, Caring, Wrong

(* A song lacks rows only if the merge wants it, so it is in the library.  *)
LEMMA LackingWanted ==
  ASSUME TypeOK, NEW s \in Song, NEW k \in Lacking(s)
  PROVE  target[s] > 0
<1> DEFINE absent == {i \in 1..Slots : link[<<s, i>>] = "absent"}
<1>1. Slots \in Nat
  BY LibraryAssumption
<1>2. Cardinality({x \in absent : x < k}) \in Nat
  <2>1. {x \in absent : x < k} \in SUBSET (0..Slots)
    BY <1>1
  <2>2. Cardinality({x \in absent : x < k}) \in Count
    BY <2>1, SlotsCounted
  <2> QED
    BY <2>2, <1>1 DEF Count
<1>3. Cardinality({x \in absent : x < k}) < Less(target[s], Local(link)[s])
  BY DEF Lacking
<1>4. target[s] \in Nat /\ Local(link)[s] \in Nat
  BY LocalCounts, <1>1 DEF TypeOK, Count
<1> QED
  BY <1>2, <1>3, <1>4 DEF Less

(* A row is matched, or about to be, only with a row of the library that   *)
(* is there: a deletion takes the matches back that it overtakes.          *)
LEMMA LiveStep == FreshInv /\ [Next]_vars => LiveRows' /\ LivePlans'
<1> DEFINE Goal == LiveRows' /\ LivePlans'
<1> SUFFICES ASSUME FreshInv, [Next]_vars PROVE Goal
  OBVIOUS
<1>a. /\ TypeOK /\ LiveRows /\ LivePlans
      /\ link \in [Row -> {"absent", "none", "dead", "live"}]
      /\ plan \in [{"sync", "aside"} -> [Row -> {"keep", "none", "dead", "live"}]]
      /\ table \subseteq Song /\ left.songs \subseteq Song
      /\ \A row \in Row : row[1] \in Song /\ row[2] \in 0..Slots /\ row = <<row[1], row[2]>>
  BY DEF FreshInv, TypeOK, Row
<1>1. CASE (\E p \in BOOLEAN : StartSync(p)) \/ PageRepeated \/ SyncUnbound \/
             SyncClear \/ StartBound \/ NoneBound \/ ReadBoth \/
             ReadPush \/ WriteRemote \/ WriteBaseline \/ ReconcileStuck
             \/ ReconcileFails \/ (\E s \in left.songs :
             ServerChanges(s)) \/ (\E s \in left.songs : UserEdits(s))
             \/ Ask \/ UserDeletes \/ UNCHANGED vars
  <2>1. UNCHANGED <<table, link, plan>>
    BY <1>1
       DEF StartSync, PageRepeated, SyncUnbound, Then, SyncClear, StartBound, Start,
           NoneBound, ReadBoth, ReadPush, WriteRemote, Finish,
           WriteBaseline, ReconcileStuck, ReconcileFails, Mishap,
           ServerChanges, Event, UserEdits, Ask, UserDeletes, vars, media,
           syncing, merging, history
  <2> QED
    BY <1>a, <2>1 DEF LiveRows, LivePlans
<1>2. ASSUME NEW s \in Song, ReadPage(s) PROVE Goal
  BY <1>a, <1>2 DEF ReadPage, Upserted, LiveRows, LivePlans
<1>3. CASE DeleteMissing
  BY <1>a, <1>3 DEF DeleteMissing, Unlinked, Overtaken, LiveRows, LivePlans
<1>4. CASE SyncMatch
  BY <1>a, <1>4 DEF SyncMatch, Planned, LiveRows, LivePlans
<1>5. CASE SyncWrite
  BY <1>a, <1>5 DEF SyncWrite, Written, Keep, LiveRows, LivePlans
<1>6. CASE InsertRemote
  BY <1>a, <1>6 DEF InsertRemote, Upserted, LiveRows, LivePlans
<1>7. CASE ReconcileRows
  BY <1>a, <1>7, LackingWanted DEF ReconcileRows, Resolvable, LiveRows, LivePlans
<1>8. CASE AsideMatch
  BY <1>a, <1>8 DEF AsideMatch, Planned, LiveRows, LivePlans
<1>9. CASE AsideWrite
  BY <1>a, <1>9 DEF AsideWrite, Written, Keep, LiveRows, LivePlans
<1>10. CASE SyncFails
  BY <1>a, <1>10 DEF SyncFails, Keep, LiveRows, LivePlans
<1>11. CASE AsideFails
  BY <1>a, <1>11 DEF AsideFails, Keep, LiveRows, LivePlans
<1>12. CASE Crash
  BY <1>a, <1>12 DEF Crash, Keep, LiveRows, LivePlans
<1>13. ASSUME NEW s \in left.songs, DeleteMedia(s) PROVE Goal
  BY <1>a, <1>13 DEF DeleteMedia, Unlinked, Overtaken, LiveRows, LivePlans
<1>14. ASSUME NEW s \in left.songs, Import(s) PROVE Goal
  BY <1>a, <1>14 DEF Import, LiveRows, LivePlans
<1> QED
  BY <1>a, <1>1, <1>2, <1>3, <1>4, <1>5, <1>6, <1>7, <1>8, <1>9, <1>10, <1>11,
      <1>12, <1>13, <1>14
     DEF Next, SyncStep, RecStep, Outside

(* A match plans nothing before it has read the rows and nothing after it  *)
(* has written them, and the recovery flag is up while a synchronisation   *)
(* of the library is under way.                                            *)
LEMMA RestingStep == FreshInv /\ [Next]_vars => Flagged' /\ Resting'
<1> DEFINE Goal == Flagged' /\ Resting'
<1> SUFFICES ASSUME FreshInv, [Next]_vars PROVE Goal
  OBVIOUS
<1>a. /\ Flagged /\ Resting
      /\ plan \in [{"sync", "aside"} -> [Row -> {"keep", "none", "dead", "live"}]]
  BY DEF FreshInv, TypeOK
<1>b. \A songs : \A m \in {"sync", "aside"} : plan[m] = Keep => Overtaken(songs)[m] = Keep
  <2> SUFFICES ASSUME NEW songs, NEW m \in {"sync", "aside"}, plan[m] = Keep
               PROVE  Overtaken(songs)[m] = Keep
    OBVIOUS
  <2>1. Overtaken(songs)[m] =
          [row \in Row |-> IF row[1] \in songs /\ Keep[row] = "live" THEN "dead" ELSE Keep[row]]
    BY <1>a DEF Overtaken
  <2>2. \A row \in Row : Keep[row] = "keep"
    BY DEF Keep
  <2> QED
    BY <2>1, <2>2 DEF Keep
<1>1. CASE (\E s \in Song : ReadPage(s)) \/ SyncUnbound \/ StartBound \/ NoneBound
             \/ ReadBoth \/ ReadPush \/ WriteRemote \/ InsertRemote \/
             ReconcileRows \/ WriteBaseline \/ ReconcileStuck \/
             ReconcileFails \/ (\E s \in left.songs : ServerChanges(s))
             \/ (\E s \in left.songs : UserEdits(s)) \/ Ask \/
             UserDeletes \/ UNCHANGED vars
  <2>1. /\ UNCHANGED <<aside, plan, recovery>>
        /\ (sync' = "idle") = (sync = "idle") /\ (sync' = "write") = (sync = "write")
    BY <1>1 DEF ReadPage, SyncUnbound, Then, StartBound, Start, NoneBound, ReadBoth,
           ReadPush, WriteRemote, Finish, InsertRemote, ReconcileRows,
           WriteBaseline, ReconcileStuck, ReconcileFails, Mishap,
           ServerChanges, Event, UserEdits, Ask, UserDeletes, vars, media,
           syncing, merging, history
  <2> QED
    BY <1>a, <2>1 DEF Flagged, Resting
<1>2. ASSUME NEW p \in BOOLEAN, StartSync(p) PROVE Goal
  BY <1>a, <1>2 DEF StartSync, Flagged, Resting, syncing
<1>3. CASE PageRepeated
  BY <1>a, <1>3 DEF PageRepeated, Flagged, Resting, syncing
<1>4. CASE DeleteMissing
  <2>1. /\ UNCHANGED <<aside, recovery>> /\ plan' = Overtaken(table \ seen)
        /\ sync = "page" /\ sync' = "match"
    BY <1>4 DEF DeleteMissing
  <2>2. /\ plan["sync"] = Keep => Overtaken(table \ seen)["sync"] = Keep
        /\ plan["aside"] = Keep => Overtaken(table \ seen)["aside"] = Keep
    BY <1>b
  <2> QED
    BY <1>a, <2>1, <2>2 DEF Flagged, Resting
<1>5. CASE SyncMatch
  BY <1>a, <1>5 DEF SyncMatch, Flagged, Resting, syncing
<1>6. CASE SyncWrite
  BY <1>a, <1>6 DEF SyncWrite, Flagged, Resting, syncing
<1>7. CASE SyncClear
  BY <1>a, <1>7 DEF SyncClear, Flagged, Resting, syncing
<1>8. CASE AsideMatch
  BY <1>a, <1>8 DEF AsideMatch, Flagged, Resting, syncing
<1>9. CASE AsideWrite
  BY <1>a, <1>9 DEF AsideWrite, Flagged, Resting, syncing
<1>10. CASE SyncFails
  BY <1>a, <1>10 DEF SyncFails, Flagged, Resting, syncing
<1>11. CASE AsideFails
  BY <1>a, <1>11 DEF AsideFails, Flagged, Resting, syncing
<1>12. CASE Crash
  BY <1>a, <1>12 DEF Crash, Flagged, Resting, syncing
<1>13. ASSUME NEW s \in left.songs, DeleteMedia(s) PROVE Goal
  <2>1. /\ UNCHANGED <<sync, recovery>> /\ plan' = Overtaken({s})
        /\ aside = "idle" /\ aside' # "write"
    BY <1>13 DEF DeleteMedia, syncing
  <2>2. /\ plan["sync"] = Keep => Overtaken({s})["sync"] = Keep
        /\ plan["aside"] = Keep => Overtaken({s})["aside"] = Keep
    BY <1>b
  <2> QED
    BY <1>a, <2>1, <2>2 DEF Flagged, Resting
<1>14. ASSUME NEW s \in left.songs, Import(s) PROVE Goal
  BY <1>a, <1>14 DEF Import, Flagged, Resting, syncing
<1> QED
  BY <1>a, <1>1, <1>2, <1>3, <1>4, <1>5, <1>6, <1>7, <1>8, <1>9, <1>10, <1>11,
      <1>12, <1>13, <1>14
     DEF Next, SyncStep, RecStep, Outside

(* Every step that unsettles a row leaves it with a match to come: the     *)
(* incremental one, the full one that the recovery flag or the periodic    *)
(* loop calls for, or the one after a deletion or an import.               *)
LEMMA CaringStep == FreshInv /\ [Next]_vars => Caring'
<1> SUFFICES ASSUME FreshInv, [Next]_vars PROVE Caring'
  OBVIOUS
<1>a. /\ LiveRows /\ Flagged /\ Resting /\ Caring
      /\ link \in [Row -> {"absent", "none", "dead", "live"}]
      /\ plan \in [{"sync", "aside"} -> [Row -> {"keep", "none", "dead", "live"}]]
      /\ table \subseteq Song /\ left.songs \subseteq Song
      /\ \A row \in Row : row[1] \in Song /\ row[2] \in 0..Slots /\ row = <<row[1], row[2]>>
      /\ \A row \in Row : Keep[row] = "keep"
  BY DEF FreshInv, TypeOK, Row, Keep
<1>b. \A rows : \A row \in Row :
        /\ Planned(rows)[row] \in {"keep", Wanted(row[1])}
        /\ row \in rows /\ Wrong(row) => Planned(rows)[row] = Wanted(row[1])
  BY <1>a DEF Planned, Wanted, Wrong, LiveRows
<1>c. \A m \in {"sync", "aside"} : \A row \in Row :
        /\ plan[m][row] = "keep" => Written(m)[row] = link[row]
        /\ plan[m][row] = Wanted(row[1]) => Written(m)[row] \in {"absent", Wanted(row[1])}
  BY <1>a DEF Written, Wanted
<1>1. CASE SyncUnbound \/ StartBound \/ NoneBound \/ ReadBoth \/ ReadPush \/
             WriteRemote \/ WriteBaseline \/ ReconcileStuck \/
             ReconcileFails \/ (\E s \in left.songs : ServerChanges(s))
             \/ (\E s \in left.songs : UserEdits(s)) \/ Ask \/
             UserDeletes \/ UNCHANGED vars
  <2>1. UNCHANGED <<link, table, plan, aside, behind, recovery, full, changed, dels>>
        /\ sync' \in {sync, Then(sync)}
    BY <1>1 DEF SyncUnbound, StartBound, Start, NoneBound, ReadBoth, ReadPush,
           WriteRemote, Finish, WriteBaseline, ReconcileStuck,
           ReconcileFails, Mishap, ServerChanges, Event, UserEdits, Ask,
           UserDeletes, vars, media, syncing, merging, history
  <2>2. sync' = sync \/ (sync \in {"trigger", "all"} /\ sync' \in {"all", "clear"})
    BY <2>1 DEF Then
  <2> QED
    BY <1>a, <2>1, <2>2 DEF Caring, Cared, Wrong, Wanted, Affected
<1>2. ASSUME NEW p \in BOOLEAN, StartSync(p) PROVE Caring'
  BY <1>a, <1>2
     DEF StartSync, Caring, Cared, Wrong, Wanted, media, syncing, merging, history
<1>3. ASSUME NEW s \in Song, ReadPage(s) PROVE Caring'
  BY <1>a, <1>3
     DEF ReadPage, Caring, Cared, Wrong, Wanted, Upserted, Missed, Matching,
         Resting, media, syncing, merging, history
<1>4. CASE PageRepeated
  BY <1>a, <1>4
     DEF PageRepeated, Caring, Cared, Wrong, Wanted, Flagged, media, syncing,
         merging, history
<1>5. CASE DeleteMissing
  BY <1>a, <1>5
     DEF DeleteMissing, Caring, Cared, Wrong, Wanted, Missed, Matching, Resting,
         Unlinked, Overtaken, Affected, media, syncing, merging, history
<1>6. CASE SyncMatch
  <2>1. /\ UNCHANGED <<link, table, aside, full, changed, dels, recovery>> /\ sync = "match" /\ sync' = "write"
        /\ plan' = [plan EXCEPT !["sync"] = Planned(Affected)]
        /\ behind' = IF full /\ aside # "write" THEN {} ELSE behind
    BY <1>6 DEF SyncMatch, syncing, history
  <2>2. plan'["sync"] = Planned(Affected) /\ plan'["aside"] = plan["aside"]
    BY <1>a, <2>1
  <2>3. CASE full /\ aside # "write"
    <3>1. Affected = Row /\ plan'["aside"] = Keep
      BY <1>a, <2>2, <2>3 DEF Affected, Resting
    <3> QED
      BY <1>a, <1>b, <2>1, <2>2, <3>1 DEF Caring, Cared, Wrong, Wanted
  <2>4. CASE ~ (full /\ aside # "write")
    <3>1. behind' = behind
      BY <2>1, <2>4
    <3> QED
      BY <1>a, <1>b, <2>1, <2>2, <3>1 DEF Caring, Cared, Wrong, Wanted
  <2> QED
    BY <2>3, <2>4
<1>7. CASE SyncWrite
  BY <1>a, <1>7, <1>c
     DEF SyncWrite, Caring, Cared, Wrong, Wanted, media, syncing, merging, history
<1>8. CASE SyncClear
  BY <1>a, <1>8
     DEF SyncClear, Caring, Cared, Wrong, Wanted, media, syncing, merging, history
<1>9. CASE InsertRemote
  BY <1>a, <1>9
     DEF InsertRemote, Caring, Cared, Wrong, Wanted, Upserted, Affected, media,
         syncing, merging, history
<1>10. CASE ReconcileRows
  <2>1. /\ UNCHANGED <<table, plan, aside, behind, recovery, sync, full, changed, dels>>
        /\ link' = [row \in Row |-> IF row[2] \in Excess(row[1]) THEN "absent"
                                    ELSE IF row[2] \in Lacking(row[1]) THEN "live" ELSE link[row]]
        /\ Resolvable
    BY <1>10 DEF ReconcileRows, syncing, history
  <2>2. \A row \in Row : \/ link'[row] = link[row]
                         \/ link'[row] = "absent"
                         \/ link'[row] = "live" /\ row[1] \in table
    <3>1. \A s \in Song : \A k \in Lacking(s) : s \in table
      BY <2>1, LackingWanted DEF FreshInv, Resolvable
    <3>2. ASSUME NEW row \in Row
          PROVE  \/ link'[row] = link[row]
                 \/ link'[row] = "absent"
                 \/ link'[row] = "live" /\ row[1] \in table
      <4>1. link'[row] = IF row[2] \in Excess(row[1]) THEN "absent"
                         ELSE IF row[2] \in Lacking(row[1]) THEN "live" ELSE link[row]
        BY <2>1
      <4>2. row[2] \in Lacking(row[1]) => row[1] \in table
        BY <1>a, <3>1
      <4> QED
        BY <4>1, <4>2, Zenon
    <3> QED
      BY <3>2
  <2> QED
    BY <1>a, <2>1, <2>2 DEF Caring, Cared, Wrong, Wanted, Affected
<1>11. CASE AsideMatch
  BY <1>a, <1>11, <1>b
     DEF AsideMatch, Caring, Cared, Wrong, Wanted, Affected, media, syncing,
         merging, history
<1>12. CASE AsideWrite
  BY <1>a, <1>12, <1>c
     DEF AsideWrite, Caring, Cared, Wrong, Wanted, Affected, media, syncing,
         merging, history
<1>13. CASE SyncFails
  BY <1>a, <1>13
     DEF SyncFails, Caring, Cared, Wrong, Wanted, Flagged, media, syncing,
         merging, history
<1>14. CASE AsideFails
  BY <1>a, <1>14, SMTT(40)
     DEF AsideFails, Caring, Cared, Wrong, Wanted, Affected, Unmatched, LiveRows,
         media, syncing, merging, history
<1>15. CASE Crash
  <2>1. /\ UNCHANGED <<link, table, recovery>> /\ sync' = "idle" /\ plan' = [m \in DOMAIN plan |-> Keep]
        /\ behind' = IF aside # "idle" THEN behind \cup Unmatched ELSE behind
    BY <1>15 DEF Crash
  <2>2. \A m \in {"sync", "aside"} : plan'[m] = Keep
    BY <1>a, <2>1
  <2>3. CASE aside = "idle"
    <3>1. behind' = behind
      BY <2>1, <2>3
    <3> QED
      BY <1>a, <2>1, <2>2, <2>3, <3>1 DEF Caring, Cared, Wrong, Wanted, Flagged
  <2>4. CASE aside # "idle"
    <3>1. \A row \in Row : row[1] \notin behind' => link[row] \in {"absent", "live"}
      BY <1>a, <2>1, <2>4 DEF Unmatched
    <3> QED
      BY <1>a, <2>1, <2>2, <3>1 DEF Caring, Wrong, Wanted, LiveRows
  <2> QED
    BY <2>3, <2>4
<1>16. ASSUME NEW s \in left.songs, DeleteMedia(s) PROVE Caring'
  BY <1>a, <1>16
     DEF DeleteMedia, Caring, Cared, Wrong, Wanted, Unlinked, Overtaken, Missed,
         Matching, Resting, Affected, media, syncing, merging, history
<1>17. ASSUME NEW s \in left.songs, Import(s) PROVE Caring'
  BY <1>a, <1>17
     DEF Import, Caring, Cared, Wrong, Wanted, Affected, media, syncing, merging,
         history
<1> QED
  BY <1>a, <1>1, <1>2, <1>3, <1>4, <1>5, <1>6, <1>7, <1>8, <1>9, <1>10, <1>11,
      <1>12, <1>13, <1>14, <1>15, <1>16, <1>17
     DEF Next, SyncStep, RecStep, Outside

LEMMA FreshStep == FreshInv /\ [Next]_vars => FreshInv'
<1> SUFFICES ASSUME FreshInv, [Next]_vars PROVE FreshInv'
  OBVIOUS
<1>1. TypeOK'
  BY MediaStep, MatchesStep, SyncsStep, MergesStep, TracesStep, TypeParts DEF FreshInv
<1> QED
  BY <1>1, LiveStep, RestingStep, CaringStep DEF FreshInv

(* After a synchronisation of the library that ended well every row of the *)
(* playlist is matched exactly if the library has its song, whatever was   *)
(* deleted, imported, interrupted or synchronised before.                  *)
THEOREM LibraryIsFresh == Spec => []Fresh
<1> QED
  BY FreshInit, FreshStep, FreshHolds, PTL DEF Spec

-----------------------------------------------------------------------------
(* What a reconciliation deletes *)

(* A song that the database, a merge or the media server's playlist names. *)
Named(s) == s \in table \/ base[s] > 0 \/ remote[s] > 0 \/ target[s] > 0 \/ got[s] > 0

Bindings ==
  /\ ~ binding => base = Nothing
  /\ by = "push" => ~ binding /\ rec \in {"read", "write"}
  /\ rec = "idle" <=> by = "none"
  /\ cutting # {} => rec \in {"insert", "rows", "base"}

(* What left the media server, and is still named, left its playlist too.  *)
GoneDropped == \A s \in Song : s \notin server /\ Named(s) => s \in dropped

(* What the baseline has and the playlist of the media server has not.     *)
CutDropped ==
  \A s \in Song :
    there /\ base[s] > 0 /\ remote[s] = 0 => s \in dropped \cup torn \cup cutting

(* What was wanted and the media server's playlist has not taken or lost.  *)
LostDropped ==
  \A s \in Song :
    there /\ rec \in {"insert", "rows", "base"} /\ target[s] > 0 /\ remote[s] = 0 => s \in dropped

(* What is not wanted although the playlist has it.                        *)
UnwantedDropped ==
  \A s \in Song :
    rec \in {"write", "insert", "rows"} /\ by # "push" /\ target[s] = 0 /\ Local(link)[s] > 0
      => s \in dropped \cup torn

DropInv == FreshInv /\ Bindings /\ GoneDropped /\ CutDropped /\ LostDropped /\ UnwantedDropped

LEMMA LocalListed ==
  ASSUME LiveRows, NEW s \in Song, Local(link)[s] > 0
  PROVE  s \in table
<1>1. PICK k \in 0..Slots : link[<<s, k>>] = "live"
  BY LocalCounts
<1>2. <<s, k>> \in Row
  BY DEF Row
<1> QED
  BY <1>1, <1>2 DEF LiveRows

LEMMA DropInit == Init => DropInv
<1> SUFFICES ASSUME Init PROVE DropInv
  OBVIOUS
<1>1. FreshInv /\ TypeOK
  BY FreshInit DEF FreshInv
<1>2. \A s \in Song : Nothing[s] = 0
  BY DEF Nothing
<1>3. \A s \in Song : Local(link)[s] > 0 => s \in table
  BY <1>1, LocalListed DEF FreshInv
<1>4. \A s \in Song : base[s] > 0 => s \in server
  BY <1>2, <1>3 DEF Init
<1>5. /\ server = table /\ remote = base /\ target = Nothing /\ got = Nothing /\ rec = "idle" /\ by = "none"
      /\ cutting = {} /\ (~ binding => base = Nothing)
  BY DEF Init
<1>6. GoneDropped
  BY <1>2, <1>4, <1>5 DEF GoneDropped, Named
<1>7. CutDropped
  BY <1>5 DEF CutDropped
<1> QED
  BY <1>1, <1>5, <1>6, <1>7 DEF DropInv, Bindings, LostDropped, UnwantedDropped

LEMMA BindingsStep == DropInv /\ [Next]_vars => Bindings'
<1> SUFFICES ASSUME DropInv, [Next]_vars PROVE Bindings'
  OBVIOUS
<1>a. Bindings /\ sync \in {"idle", "page", "match", "write", "trigger", "all", "clear"}
  BY DEF DropInv, FreshInv, TypeOK
<1>1. CASE (\E p \in BOOLEAN : StartSync(p)) \/ (\E s \in Song : ReadPage(s)) \/
             PageRepeated \/ DeleteMissing \/ SyncMatch \/ SyncWrite \/
             SyncUnbound \/ SyncClear \/ NoneBound \/ AsideMatch \/
             AsideWrite \/ SyncFails \/ AsideFails \/ (\E s \in
             left.songs : DeleteMedia(s)) \/ (\E s \in left.songs :
             Import(s)) \/ (\E s \in left.songs : ServerChanges(s)) \/
             (\E s \in left.songs : UserEdits(s)) \/ UserDeletes \/
             UNCHANGED vars
  <2>1. UNCHANGED <<binding, base, by, rec, cutting>>
    BY <1>1 DEF StartSync, ReadPage, PageRepeated, DeleteMissing, SyncMatch, SyncWrite,
           SyncUnbound, Then, SyncClear, NoneBound, AsideMatch,
           AsideWrite, SyncFails, Mishap, AsideFails, DeleteMedia, Event,
           Import, ServerChanges, UserEdits, UserDeletes, vars, media,
           syncing, merging, history
  <2> QED
    BY <1>a, <2>1 DEF Bindings
<1>2. CASE StartBound
  BY <1>a, <1>2 DEF StartBound, Start, Bindings, merging, history
<1>3. CASE ReadBoth
  BY <1>a, <1>3 DEF ReadBoth, Bindings, merging, history
<1>4. CASE ReadPush
  BY <1>a, <1>4 DEF ReadPush, Bindings, merging, history
<1>5. CASE WriteRemote
  BY <1>a, <1>5 DEF WriteRemote, Finish, Bindings, merging, history
<1>6. CASE InsertRemote
  BY <1>a, <1>6 DEF InsertRemote, Bindings, merging, history
<1>7. CASE ReconcileRows
  BY <1>a, <1>7 DEF ReconcileRows, Bindings, merging, history
<1>8. CASE WriteBaseline
  BY <1>a, <1>8 DEF WriteBaseline, Finish, Bindings, merging, history
<1>9. CASE ReconcileStuck
  BY <1>a, <1>9 DEF ReconcileStuck, Finish, Bindings, merging, history
<1>10. CASE ReconcileFails
  BY <1>a, <1>10 DEF ReconcileFails, Finish, Bindings, merging, history
<1>11. CASE Crash
  BY <1>a, <1>11 DEF Crash, Bindings, merging, history
<1>12. CASE Ask
  BY <1>a, <1>12 DEF Ask, Bindings, merging, history
<1> QED
  BY <1>1, <1>2, <1>3, <1>4, <1>5, <1>6, <1>7, <1>8, <1>9, <1>10, <1>11, <1>12
     DEF Next, SyncStep, RecStep, Outside

(* A merge names only what one of the three sides names, and leaves a song *)
(* out that the playlist has only if the media server's playlist lost it.  *)
LEMMA MergedNames ==
  ASSUME base \in [Song -> Count], NEW local \in [Song -> Count], NEW other \in [Song -> Count],
         NEW s \in Song
  PROVE  /\ Merged(local, other)[s] > 0 => base[s] > 0 \/ local[s] > 0 \/ other[s] > 0
         /\ Merged(local, other)[s] = 0 /\ local[s] > 0 => base[s] > 0 /\ other[s] = 0
<1>1. Slots \in Nat
  BY LibraryAssumption
<1>2. base[s] \in Nat /\ local[s] \in Nat /\ other[s] \in Nat
  BY <1>1 DEF Count
<1> QED
  BY <1>2 DEF Merged, Less, MaxOf

(* A song that the media server no longer has is named only where it was   *)
(* named when it went, and that counts as removed from its playlist.       *)
LEMMA GoneStep == DropInv /\ [Next]_vars => GoneDropped'
<1> DEFINE Goal == GoneDropped'
<1> SUFFICES ASSUME DropInv, [Next]_vars PROVE Goal
  OBVIOUS
<1>a. /\ LiveRows /\ Bindings /\ GoneDropped /\ CutDropped /\ LostDropped /\ UnwantedDropped
      /\ base \in [Song -> Count] /\ remote \in [Song -> Count]
      /\ target \in [Song -> Count] /\ got \in [Song -> Count]
      /\ left.songs \subseteq Song
  BY DEF DropInv, FreshInv, TypeOK
<1>b. Slots \in Nat /\ \A s \in Song : Nothing[s] = 0
  BY LibraryAssumption DEF Nothing
<1>1. CASE (\E p \in BOOLEAN : StartSync(p)) \/ PageRepeated \/ SyncMatch \/
             SyncWrite \/ SyncUnbound \/ SyncClear \/ StartBound \/
             NoneBound \/ ReconcileRows \/ AsideMatch \/ AsideWrite \/
             SyncFails \/ AsideFails \/ (\E s \in left.songs :
             Import(s)) \/ Ask \/ UNCHANGED vars
  <2>1. UNCHANGED <<server, dropped, table, base, remote, target, got>>
    BY <1>1 DEF StartSync, PageRepeated, SyncMatch, SyncWrite, SyncUnbound, Then,
           SyncClear, StartBound, Start, NoneBound, ReconcileRows,
           AsideMatch, AsideWrite, SyncFails, Mishap, AsideFails, Import,
           Event, Ask, vars, media, syncing, merging, history
  <2> QED
    BY <1>a, <2>1 DEF GoneDropped, Named
<1>2. ASSUME NEW s \in Song, ReadPage(s) PROVE Goal
  BY <1>a, <1>b, <1>2
     DEF ReadPage, Upserted, Page, GoneDropped, Named, Bindings, Count, media,
         syncing, merging, history
<1>3. CASE DeleteMissing
  BY <1>a, <1>b, <1>3
     DEF DeleteMissing, GoneDropped, Named, Bindings, Count, media, syncing,
         merging, history
<1>4. CASE ReadBoth
  <2>1. /\ UNCHANGED <<server, dropped, table, base, remote>> /\ got' = remote
        /\ target' = Target(Local(link), remote)
    BY <1>4 DEF ReadBoth, media, history
  <2>2. ASSUME NEW s \in Song, target'[s] > 0
        PROVE  Named(s)
    BY <1>a, <2>1, <2>2, LocalCounts, LocalListed, MergedNames DEF Target, Named
  <2> QED
    BY <1>a, <2>1, <2>2 DEF GoneDropped, Named
<1>5. CASE ReadPush
  BY <1>a, <1>b, <1>5, LocalListed, LocalCounts
     DEF ReadPush, GoneDropped, Named, Bindings, Count, media, syncing, merging, history
<1>6. CASE WriteRemote
  BY <1>a, <1>b, <1>6
     DEF WriteRemote, Finish, Accepted, GoneDropped, Named, Bindings, Count,
         media, syncing, merging, history
<1>7. CASE InsertRemote
  BY <1>a, <1>b, <1>7
     DEF InsertRemote, Upserted, GoneDropped, Named, Bindings, Count, media,
         syncing, merging, history
<1>8. CASE WriteBaseline
  BY <1>a, <1>b, <1>8
     DEF WriteBaseline, Finish, GoneDropped, Named, Bindings, Count, media,
         syncing, merging, history
<1>9. CASE ReconcileStuck
  BY <1>a, <1>b, <1>9
     DEF ReconcileStuck, Finish, GoneDropped, Named, Bindings, Count, media,
         syncing, merging, history
<1>10. CASE ReconcileFails
  BY <1>a, <1>b, <1>10
     DEF ReconcileFails, Finish, GoneDropped, Named, Bindings, Count, media,
         syncing, merging, history
<1>11. CASE Crash
  BY <1>a, <1>b, <1>11
     DEF Crash, GoneDropped, Named, Bindings, Count, media, syncing, merging, history
<1>12. ASSUME NEW s \in left.songs, DeleteMedia(s) PROVE Goal
  BY <1>a, <1>b, <1>12
     DEF DeleteMedia, GoneDropped, Named, Bindings, Count, media, syncing,
         merging, history
<1>13. ASSUME NEW s \in left.songs, ServerChanges(s) PROVE Goal
  BY <1>a, <1>b, <1>13
     DEF ServerChanges, GoneDropped, Named, Bindings, Count, media, syncing,
         merging, history
<1>14. ASSUME NEW s \in left.songs, UserEdits(s) PROVE Goal
  BY <1>a, <1>b, <1>14
     DEF UserEdits, GoneDropped, Named, Bindings, Count, media, syncing, merging,
         history
<1>15. CASE UserDeletes
  BY <1>a, <1>b, <1>15
     DEF UserDeletes, GoneDropped, Named, Bindings, Count, media, syncing,
         merging, history
<1> QED
  BY <1>a, <1>1, <1>2, <1>3, <1>4, <1>5, <1>6, <1>7, <1>8, <1>9, <1>10, <1>11,
      <1>12, <1>13, <1>14, <1>15
     DEF Next, SyncStep, RecStep, Outside

(* A song leaves the media server's playlist by a user or with its file,   *)
(* or by a reconciliation that does not get to write the baseline.         *)
LEMMA CutStep == DropInv /\ [Next]_vars => CutDropped'
<1> DEFINE Goal == CutDropped'
<1> SUFFICES ASSUME DropInv, [Next]_vars PROVE Goal
  OBVIOUS
<1>a. /\ LiveRows /\ Bindings /\ GoneDropped /\ CutDropped /\ LostDropped /\ UnwantedDropped
      /\ base \in [Song -> Count] /\ remote \in [Song -> Count]
      /\ target \in [Song -> Count] /\ got \in [Song -> Count]
      /\ left.songs \subseteq Song
  BY DEF DropInv, FreshInv, TypeOK
<1>b. Slots \in Nat /\ \A s \in Song : Nothing[s] = 0
  BY LibraryAssumption DEF Nothing
<1>1. CASE (\E p \in BOOLEAN : StartSync(p)) \/ (\E s \in Song : ReadPage(s)) \/
             PageRepeated \/ DeleteMissing \/ SyncMatch \/ SyncUnbound
             \/ SyncClear \/ StartBound \/ NoneBound \/ ReadBoth \/
             ReadPush \/ InsertRemote \/ ReconcileRows \/ AsideMatch \/
             SyncFails \/ AsideFails \/ (\E s \in left.songs :
             DeleteMedia(s)) \/ (\E s \in left.songs : Import(s)) \/ Ask
             \/ UNCHANGED vars
  <2>1. UNCHANGED <<there, base, remote, dropped, torn, cutting>>
    BY <1>1
       DEF StartSync, ReadPage, PageRepeated, DeleteMissing, SyncMatch, SyncUnbound,
           Then, SyncClear, StartBound, Start, NoneBound, ReadBoth,
           ReadPush, InsertRemote, ReconcileRows, AsideMatch, SyncFails,
           Mishap, AsideFails, DeleteMedia, Event, Import, Ask, vars,
           media, syncing, merging, history
  <2> QED
    BY <1>a, <2>1 DEF CutDropped
<1>2. CASE SyncWrite
  BY <1>a, <1>b, <1>2
     DEF SyncWrite, CutDropped, Bindings, Count, media, syncing, merging, history
<1>3. CASE WriteRemote
  BY <1>a, <1>b, <1>3
     DEF WriteRemote, Finish, Accepted, CutDropped, Bindings, Count, media,
         syncing, merging, history
<1>4. CASE WriteBaseline
  BY <1>a, <1>b, <1>4
     DEF LostDropped, WriteBaseline, Finish, CutDropped, Bindings, Count, media,
         syncing, merging, history
<1>5. CASE ReconcileStuck
  BY <1>a, <1>b, <1>5
     DEF ReconcileStuck, Finish, CutDropped, Bindings, Count, media, syncing,
         merging, history
<1>6. CASE AsideWrite
  BY <1>a, <1>b, <1>6
     DEF AsideWrite, CutDropped, Bindings, Count, media, syncing, merging, history
<1>7. CASE ReconcileFails
  BY <1>a, <1>b, <1>7
     DEF ReconcileFails, Finish, CutDropped, Bindings, Count, media, syncing,
         merging, history
<1>8. CASE Crash
  BY <1>a, <1>b, <1>8
     DEF Crash, CutDropped, Bindings, Count, media, syncing, merging, history
<1>9. ASSUME NEW s \in left.songs, ServerChanges(s) PROVE Goal
  BY <1>a, <1>b, <1>9
     DEF ServerChanges, CutDropped, Bindings, Count, media, syncing, merging, history
<1>10. ASSUME NEW s \in left.songs, UserEdits(s) PROVE Goal
  BY <1>a, <1>b, <1>10
     DEF UserEdits, CutDropped, Bindings, Count, media, syncing, merging, history
<1>11. CASE UserDeletes
  BY <1>a, <1>b, <1>11
     DEF UserDeletes, CutDropped, Bindings, Count, media, syncing, merging, history
<1> QED
  BY <1>a, <1>1, <1>2, <1>3, <1>4, <1>5, <1>6, <1>7, <1>8, <1>9, <1>10, <1>11
     DEF Next, SyncStep, RecStep, Outside

(* What a reconciliation wants in the media server's playlist is missing   *)
(* there only if the media server lost it.                                 *)
LEMMA LostStep == DropInv /\ [Next]_vars => LostDropped'
<1> DEFINE Goal == LostDropped'
<1> SUFFICES ASSUME DropInv, [Next]_vars PROVE Goal
  OBVIOUS
<1>a. /\ LiveRows /\ Bindings /\ GoneDropped /\ CutDropped /\ LostDropped /\ UnwantedDropped
      /\ base \in [Song -> Count] /\ remote \in [Song -> Count]
      /\ target \in [Song -> Count] /\ got \in [Song -> Count]
      /\ left.songs \subseteq Song
  BY DEF DropInv, FreshInv, TypeOK
<1>b. Slots \in Nat /\ \A s \in Song : Nothing[s] = 0
  BY LibraryAssumption DEF Nothing
<1>1. CASE (\E p \in BOOLEAN : StartSync(p)) \/ (\E s \in Song : ReadPage(s)) \/
             PageRepeated \/ DeleteMissing \/ SyncMatch \/ SyncWrite \/
             SyncUnbound \/ SyncClear \/ NoneBound \/ AsideMatch \/
             AsideWrite \/ SyncFails \/ AsideFails \/ (\E s \in
             left.songs : DeleteMedia(s)) \/ (\E s \in left.songs :
             Import(s)) \/ UNCHANGED vars
  <2>1. UNCHANGED <<there, rec, target, remote, dropped>>
    BY <1>1 DEF StartSync, ReadPage, PageRepeated, DeleteMissing, SyncMatch, SyncWrite,
           SyncUnbound, Then, SyncClear, NoneBound, AsideMatch,
           AsideWrite, SyncFails, Mishap, AsideFails, DeleteMedia, Event,
           Import, vars, media, syncing, merging, history
  <2> QED
    BY <1>a, <2>1 DEF LostDropped
<1>2. CASE StartBound
  BY <1>a, <1>b, <1>2
     DEF StartBound, Start, LostDropped, Bindings, Count, media, syncing,
         merging, history
<1>3. CASE ReadBoth
  BY <1>a, <1>b, <1>3
     DEF ReadBoth, LostDropped, Bindings, Count, media, syncing, merging, history
<1>4. CASE ReadPush
  BY <1>a, <1>b, <1>4
     DEF ReadPush, LostDropped, Bindings, Count, media, syncing, merging, history
<1>5. CASE WriteRemote
  BY <1>a, <1>b, <1>5
     DEF GoneDropped, Named, WriteRemote, Finish, Accepted, LostDropped,
         Bindings, Count, media, syncing, merging, history
<1>6. CASE InsertRemote
  BY <1>a, <1>b, <1>6
     DEF InsertRemote, Upserted, LostDropped, Bindings, Count, media, syncing,
         merging, history
<1>7. CASE ReconcileRows
  BY <1>a, <1>b, <1>7
     DEF ReconcileRows, LostDropped, Bindings, Count, media, syncing, merging, history
<1>8. CASE WriteBaseline
  BY <1>a, <1>b, <1>8
     DEF WriteBaseline, Finish, LostDropped, Bindings, Count, media, syncing,
         merging, history
<1>9. CASE ReconcileStuck
  BY <1>a, <1>b, <1>9
     DEF ReconcileStuck, Finish, LostDropped, Bindings, Count, media, syncing,
         merging, history
<1>10. CASE ReconcileFails
  BY <1>a, <1>b, <1>10
     DEF ReconcileFails, Finish, LostDropped, Bindings, Count, media, syncing,
         merging, history
<1>11. CASE Crash
  BY <1>a, <1>b, <1>11
     DEF Crash, LostDropped, Bindings, Count, media, syncing, merging, history
<1>12. ASSUME NEW s \in left.songs, ServerChanges(s) PROVE Goal
  BY <1>a, <1>b, <1>12
     DEF ServerChanges, LostDropped, Bindings, Count, media, syncing, merging, history
<1>13. ASSUME NEW s \in left.songs, UserEdits(s) PROVE Goal
  BY <1>a, <1>b, <1>13
     DEF UserEdits, LostDropped, Bindings, Count, media, syncing, merging, history
<1>14. CASE Ask
  BY <1>a, <1>b, <1>14
     DEF Ask, LostDropped, Bindings, Count, media, syncing, merging, history
<1>15. CASE UserDeletes
  BY <1>a, <1>b, <1>15
     DEF UserDeletes, LostDropped, Bindings, Count, media, syncing, merging, history
<1> QED
  BY <1>a, <1>1, <1>2, <1>3, <1>4, <1>5, <1>6, <1>7, <1>8, <1>9, <1>10, <1>11,
      <1>12, <1>13, <1>14, <1>15
     DEF Next, SyncStep, RecStep, Outside

(* A reconciliation leaves out a song that the playlist has only if the    *)
(* media server's playlist lost it since the last baseline.                *)
LEMMA UnwantedStep == DropInv /\ [Next]_vars => UnwantedDropped'
<1> DEFINE Goal == UnwantedDropped'
<1> SUFFICES ASSUME DropInv, [Next]_vars PROVE Goal
  OBVIOUS
<1>a. /\ LiveRows /\ Bindings /\ GoneDropped /\ CutDropped /\ LostDropped /\ UnwantedDropped
      /\ base \in [Song -> Count] /\ remote \in [Song -> Count]
      /\ target \in [Song -> Count] /\ got \in [Song -> Count]
      /\ left.songs \subseteq Song
  BY DEF DropInv, FreshInv, TypeOK
<1>b. Slots \in Nat /\ \A s \in Song : Nothing[s] = 0
  BY LibraryAssumption DEF Nothing
<1>c. /\ link \in [Row -> {"absent", "none", "dead", "live"}]
      /\ \A s \in Song : \A k \in 0..Slots : <<s, k>> \in Row
  BY DEF DropInv, FreshInv, TypeOK, Row
<1>1. CASE (\E p \in BOOLEAN : StartSync(p)) \/ (\E s \in Song : ReadPage(s)) \/
             PageRepeated \/ SyncMatch \/ SyncUnbound \/ SyncClear \/
             NoneBound \/ AsideMatch \/ SyncFails \/ AsideFails \/
             UserDeletes \/ UNCHANGED vars
  <2>1. UNCHANGED <<rec, by, target, link, dropped, torn>>
    BY <1>1 DEF StartSync, ReadPage, PageRepeated, SyncMatch, SyncUnbound, Then,
           SyncClear, NoneBound, AsideMatch, SyncFails, Mishap,
           AsideFails, UserDeletes, Event, vars, media, syncing, merging,
           history
  <2> QED
    BY <1>a, <2>1 DEF UnwantedDropped
<1>2. CASE DeleteMissing
  <2>1. \A s \in Song : \A k \in 0..Slots : link'[<<s, k>>] = "live" => link[<<s, k>>] = "live"
    BY <1>c, <1>2 DEF DeleteMissing, Unlinked
  <2>2. \A s \in Song : Local(link')[s] > 0 => Local(link)[s] > 0
    BY <2>1, LocalCounts
  <2>3. UNCHANGED <<rec, by, target, dropped, torn>>
    BY <1>2 DEF DeleteMissing, merging, history
  <2> QED
    BY <1>a, <2>2, <2>3 DEF UnwantedDropped
<1>3. CASE SyncWrite
  <2>1. UNCHANGED <<rec, by, target, dropped>> /\ link' = Written("sync") /\ torn' = torn \cup Late("sync")
    BY <1>3 DEF SyncWrite, merging, history
  <2>2. ASSUME NEW s \in Song, rec \in {"write", "insert", "rows"}, Local(link')[s] > 0
        PROVE  Local(link)[s] > 0 \/ s \in torn'
    <3>1. PICK k \in 0..Slots : link'[<<s, k>>] = "live"
      BY <2>2, LocalCounts
    <3> QED
      BY <2>1, <2>2, <3>1, LocalCounts DEF Late
  <2> QED
    BY <1>a, <2>1, <2>2 DEF UnwantedDropped
<1>4. CASE StartBound
  BY <1>a, <1>b, <1>4
     DEF StartBound, Start, UnwantedDropped, Bindings, Count, media, syncing,
         merging, history
<1>5. CASE ReadBoth
  <2>1. /\ UNCHANGED <<link, by, dropped, torn>> /\ target' = Target(Local(link), remote)
        /\ rec = "read"
    BY <1>5 DEF ReadBoth, merging, history
  <2>2. ASSUME NEW s \in Song, target'[s] = 0, Local(link)[s] > 0
        PROVE  there /\ base[s] > 0 /\ remote[s] = 0
    BY <1>a, <2>1, <2>2, LocalCounts, MergedNames DEF Target
  <2>3. cutting = {}
    BY <1>a, <2>1 DEF Bindings
  <2> QED
    BY <1>a, <2>1, <2>2, <2>3 DEF UnwantedDropped, CutDropped
<1>6. CASE ReadPush
  BY <1>a, <1>b, <1>6
     DEF ReadPush, UnwantedDropped, Bindings, Count, media, syncing, merging, history
<1>7. CASE WriteRemote
  BY <1>a, <1>b, <1>7
     DEF WriteRemote, Finish, Accepted, UnwantedDropped, Bindings, Count, media,
         syncing, merging, history
<1>8. CASE InsertRemote
  BY <1>a, <1>b, <1>8
     DEF InsertRemote, Upserted, UnwantedDropped, Bindings, Count, media,
         syncing, merging, history
<1>9. CASE ReconcileRows
  BY <1>a, <1>b, <1>9
     DEF ReconcileRows, UnwantedDropped, Bindings, Count, media, syncing,
         merging, history
<1>10. CASE WriteBaseline
  BY <1>a, <1>b, <1>10
     DEF WriteBaseline, Finish, UnwantedDropped, Bindings, Count, media, syncing,
         merging, history
<1>11. CASE ReconcileStuck
  BY <1>a, <1>b, <1>11
     DEF ReconcileStuck, Finish, UnwantedDropped, Bindings, Count, media,
         syncing, merging, history
<1>12. CASE AsideWrite
  <2>1. UNCHANGED <<rec, by, target, dropped>> /\ link' = Written("aside") /\ torn' = torn \cup Late("aside")
    BY <1>12 DEF AsideWrite, merging, history
  <2>2. ASSUME NEW s \in Song, rec \in {"write", "insert", "rows"}, Local(link')[s] > 0
        PROVE  Local(link)[s] > 0 \/ s \in torn'
    <3>1. PICK k \in 0..Slots : link'[<<s, k>>] = "live"
      BY <2>2, LocalCounts
    <3> QED
      BY <2>1, <2>2, <3>1, LocalCounts DEF Late
  <2> QED
    BY <1>a, <2>1, <2>2 DEF UnwantedDropped
<1>13. CASE ReconcileFails
  BY <1>a, <1>b, <1>13
     DEF ReconcileFails, Finish, UnwantedDropped, Bindings, Count, media,
         syncing, merging, history
<1>14. CASE Crash
  BY <1>a, <1>b, <1>14
     DEF Crash, UnwantedDropped, Bindings, Count, media, syncing, merging, history
<1>15. ASSUME NEW s \in left.songs, DeleteMedia(s) PROVE Goal
  <2>1. \A x \in Song : \A k \in 0..Slots : link'[<<x, k>>] = "live" => link[<<x, k>>] = "live"
    BY <1>c, <1>15 DEF DeleteMedia, Unlinked
  <2>2. \A x \in Song : Local(link')[x] > 0 => Local(link)[x] > 0
    BY <2>1, LocalCounts
  <2>3. UNCHANGED <<rec, by, target, dropped, torn>>
    BY <1>15 DEF DeleteMedia, merging, history
  <2> QED
    BY <1>a, <2>2, <2>3 DEF UnwantedDropped
<1>16. ASSUME NEW s \in left.songs, Import(s) PROVE Goal
  <2>1. \A x \in Song : \A k \in 0..Slots : link'[<<x, k>>] = "live" => link[<<x, k>>] = "live"
    BY <1>c, <1>16 DEF Import
  <2>2. \A x \in Song : Local(link')[x] > 0 => Local(link)[x] > 0
    BY <2>1, LocalCounts
  <2>3. UNCHANGED <<rec, by, target, dropped, torn>>
    BY <1>16 DEF Import, merging, history
  <2> QED
    BY <1>a, <2>2, <2>3 DEF UnwantedDropped
<1>17. ASSUME NEW s \in left.songs, ServerChanges(s) PROVE Goal
  BY <1>a, <1>b, <1>17
     DEF ServerChanges, UnwantedDropped, Bindings, Count, media, syncing,
         merging, history
<1>18. ASSUME NEW s \in left.songs, UserEdits(s) PROVE Goal
  BY <1>a, <1>b, <1>18
     DEF UserEdits, UnwantedDropped, Bindings, Count, media, syncing, merging, history
<1>19. CASE Ask
  BY <1>a, <1>b, <1>19
     DEF Ask, UnwantedDropped, Bindings, Count, media, syncing, merging, history
<1> QED
  BY <1>a, <1>1, <1>2, <1>3, <1>4, <1>5, <1>6, <1>7, <1>8, <1>9, <1>10, <1>11,
      <1>12, <1>13, <1>14, <1>15, <1>16, <1>17, <1>18, <1>19
     DEF Next, SyncStep, RecStep, Outside

LEMMA DropStep == DropInv /\ [Next]_vars => DropInv'
  BY FreshStep, BindingsStep, GoneStep, CutStep, LostStep, UnwantedStep DEF DropInv

(* The row that the import made is the last of its song's rows to go, so   *)
(* it goes only if nothing of the song is wanted.                          *)
LEMMA ImportedLast ==
  ASSUME TypeOK, NEW s \in Song, 0 \in Excess(s)
  PROVE  target[s] = 0
<1> DEFINE live == {k \in 0..Slots : link[<<s, k>>] = "live"}
<1>1. Slots \in Nat /\ target[s] \in Nat
  BY LibraryAssumption DEF TypeOK, Count
<1>2. 0 \in live /\ Cardinality({x \in live : x > 0}) < Less(Cardinality(live), target[s])
  BY DEF Excess
<1>3. {x \in live : x > 0} = live \ {0}
  BY <1>1
<1>4. IsFiniteSet(live) /\ Cardinality(live) \in Nat \ {0}
  <2>1. live \in SUBSET (0..Slots)
    OBVIOUS
  <2>2. IsFiniteSet(live) /\ Cardinality(live) \in Count /\ Cardinality(live) > 0
    BY <2>1, <1>2, SlotsCounted
  <2> QED
    BY <2>2, <1>1 DEF Count
<1>5. Cardinality(live \ {0}) = Cardinality(live) - 1
  BY <1>2, <1>4, FS_RemoveElement
<1>6. Cardinality({x \in live : x > 0}) = Cardinality(live) - 1
  BY <1>3, <1>5
<1> HIDE DEF live
<1> QED
  BY <1>1, <1>2, <1>4, <1>6 DEF Less

(* A reconciliation deletes an imported row of the playlist only if its    *)
(* song was removed from the media server's playlist, by its users, with   *)
(* its file or by an earlier reconciliation that failed, or if the row was *)
(* matched after the merge had read the rows.                              *)
THEOREM DeletionsAreMeant == Spec => DeletesOnlyDropped
<1> DEFINE Deletion == \A s \in Song :
             (rec = "rows" /\ rec' = "base" /\ link[<<s, 0>>] = "live" /\ link'[<<s, 0>>] = "absent")
               => s \in dropped \cup torn
<1>1. DropInv /\ [Next]_vars => Deletion
  <2> SUFFICES ASSUME DropInv, [Next]_vars, NEW s \in Song, rec = "rows", rec' = "base",
                      link[<<s, 0>>] = "live", link'[<<s, 0>>] = "absent"
               PROVE  s \in dropped \cup torn
    OBVIOUS
  <2>1. Slots \in Nat /\ TypeOK
    BY LibraryAssumption DEF DropInv, FreshInv
  <2>2. by # "push"
    BY DEF DropInv, Bindings
  <2>3. ReconcileRows
    BY DEF Next, SyncStep, RecStep, Outside, vars, media, syncing, merging, history,
           StartSync, ReadPage, PageRepeated, DeleteMissing, SyncMatch, SyncWrite, SyncUnbound, SyncClear,
           StartBound, Start, NoneBound, ReadBoth, ReadPush, WriteRemote, InsertRemote, WriteBaseline,
           ReconcileStuck, Finish, AsideMatch, AsideWrite, SyncFails, ReconcileFails, AsideFails, Crash,
           DeleteMedia, Import, ServerChanges, UserEdits, Ask, UserDeletes
  <2>4. <<s, 0>> \in Row
    BY <2>1 DEF Row
  <2>5. 0 \in Excess(s)
    BY <2>3, <2>4 DEF ReconcileRows
  <2>6. target[s] = 0
    BY <2>1, <2>5, ImportedLast
  <2>7. Local(link)[s] > 0
    BY <2>1, LocalCounts
  <2> QED
    BY <2>2, <2>6, <2>7 DEF DropInv, UnwantedDropped
<1> QED
  BY DropInit, DropStep, <1>1, PTL DEF Spec, DeletesOnlyDropped

=============================================================================
