------------------------- MODULE AlbumIdentityProofs -------------------------
(***************************************************************************)
(* Theorems about AlbumIdentity for any number of organisations,           *)
(* directories, artists and ids, and any files from before: whatever an    *)
(* organisation has read of a directory stays what the directory says      *)
(* (Agreement), and under the album's key a directory without an anchor    *)
(* gets the one of its artist (OneAlbum).                                  *)
(***************************************************************************)
EXTENDS AlbumIdentity, FiniteSetTheorems, TLAPS

(* Whoever is about to choose an identity holds the album's key.           *)
Held == \A j \in Job : pc[j] \in Resolving => lock[job[j].key] = j

(* What it has read and decided at each step: the anchor of its directory, *)
(* which stays bound once it is, or none; then an identity.                *)
Note(j) ==
    /\ pc[j] # "idle" => job[j].proposed \in Identity
    /\ pc[j] \in {"look", "view"} =>
         \/ job[j].anchor = 0 /\ job[j].known = None
         \/ /\ job[j].anchor # 0 /\ job[j].anchor = location[job[j].place]
            /\ job[j].known \in Identity
    /\ pc[j] = "update" => /\ job[j].anchor # 0 /\ job[j].anchor = location[job[j].place]
                           /\ job[j].known \in Identity /\ job[j].server \in Identity
    /\ pc[j] \in {"view", "choose", "bind", "create"} => job[j].physical \in Identity
    /\ pc[j] = "bind" => job[j].anchor \in DOMAIN anchors
    /\ pc[j] = "write" => job[j].identity \in Identity /\ location[job[j].place] # 0
Noted == \A j \in Job : Note(j)

TypeInv ==
  /\ TypeOK /\ Held /\ Noted
  /\ IsFiniteSet(file) /\ \A p \in Place : old[p] \subseteq Identity /\ IsFiniteSet(old[p])

-----------------------------------------------------------------------------
(* The rules *)

(* A function to numbers that a number bounds has a largest value.         *)
LEMMA Largest ==
  ASSUME NEW S, S # {}, NEW n \in Nat, NEW F \in [S -> Nat], \A x \in S : F[x] <= n
  PROVE  \E x \in S : \A y \in S : F[x] >= F[y]
<1> DEFINE Below == OpToRel(<, Nat)
           Rests == {n - F[x] : x \in S}
<1>1. \A x \in S : n - F[x] \in Nat
  OBVIOUS
<1>2. IsWellFoundedOn(Below, Nat)
  BY NatLessThanWellFounded
<1>3. \A i, k \in Nat : k < i => <<k, i>> \in Below
  BY DEF OpToRel
<1>4. Rests \subseteq Nat /\ Rests # {}
  BY <1>1
<1> HIDE DEF Below, Rests
<1>5. PICK i \in Rests : \A k \in Rests : ~ (<<k, i>> \in Below)
  BY <1>2, <1>4, WFMin, Zenon
<1>6. \A k \in Rests : k >= i
  <2> TAKE k \in Rests
  <2>1. i \in Nat /\ k \in Nat
    BY <1>4
  <2>2. ~ (k < i)
    BY <2>1, <1>3, <1>5, Zenon
  <2> QED BY <2>1, <2>2
<1>7. PICK x \in S : i = n - F[x]
  BY <1>5 DEF Rests
<1>8. \A y \in S : n - F[y] >= n - F[x]
  BY <1>6, <1>7 DEF Rests
<1>9. \A y \in S : F[x] >= F[y]
  BY <1>8
<1> QED BY <1>9

LEMMA CommonType ==
  ASSUME NEW ids
  PROVE  Common(ids) \in ids \cup {None}
<1>1. CASE Cardinality(ids) = 1 /\ ids # {}
  BY <1>1 DEF Common
<1>2. CASE ids = {}
  BY <1>2, FS_EmptySet DEF Common
<1>3. CASE Cardinality(ids) # 1
  BY <1>3 DEF Common
<1> QED BY <1>1, <1>2, <1>3

LEMMA CommonOfOne ==
  ASSUME NEW x
  PROVE  Common({x}) = x
BY FS_Singleton DEF Common

LEMMA MajorityType ==
  ASSUME NEW fs, IsFiniteSet(fs), NEW f \in fs, f.tag \in Identity
  PROVE  Majority(fs) \in Artist
<1> DEFINE Of(a) == {g \in fs : g.tag.artist = a}
           Count == [a \in Artist |-> Cardinality(Of(a))]
<1>1. f.tag.artist \in Artist
  BY DEF Identity
<1>2. \A a \in Artist : IsFiniteSet(Of(a)) /\ Cardinality(Of(a)) \in Nat /\ Cardinality(Of(a)) <= Cardinality(fs)
  <2> TAKE a \in Artist
  <2>1. Of(a) \in SUBSET fs
    OBVIOUS
  <2>2. IsFiniteSet(Of(a)) /\ Cardinality(Of(a)) <= Cardinality(fs)
    BY <2>1, FS_Subset
  <2> QED BY <2>2, FS_CardinalityType
<1>3. Cardinality(fs) \in Nat /\ Count \in [Artist -> Nat] /\ \A a \in Artist : Count[a] <= Cardinality(fs)
  BY <1>2, FS_CardinalityType
<1> HIDE DEF Of
<1>4. \E a \in Artist : \A b \in Artist : Count[a] >= Count[b]
  <2> HIDE DEF Count
  <2> QED BY <1>1, <1>3, Largest
<1>5. \E a \in Artist : \A b \in Artist : Cardinality(Of(a)) >= Cardinality(Of(b))
  BY <1>4
<1> QED BY <1>5 DEF Majority, Of

LEMMA PhysicalType ==
  ASSUME NEW fs, IsFiniteSet(fs), \A f \in fs : f.tag \in Identity, NEW i \in Identity
  PROVE  Physical(fs, i) \in Identity
<1>1. CASE fs = {}
  BY <1>1 DEF Physical
<1>2. CASE fs # {}
  <2>1. Majority(fs) \in Artist
    BY <1>2, MajorityType
  <2>2. \A x \in {f.tag.id : f \in fs} : x \in Id \cup {None}
    BY DEF Identity
  <2>3. Common({f.tag.id : f \in fs}) \in Id \cup {None}
    BY <2>2, CommonType
  <2> QED BY <1>2, <2>1, <2>3 DEF Physical, Identity
<1> QED BY <1>1, <1>2

(* Files with one identity have no other.                                  *)
LEMMA PhysicalOfOne ==
  ASSUME NEW fs, IsFiniteSet(fs), fs # {}, NEW t \in Identity, \A f \in fs : f.tag = t, NEW i
  PROVE  Physical(fs, i) = t
<1>1. {f.tag.id : f \in fs} = {t.id}
  OBVIOUS
<1>2. Majority(fs) = t.artist
  <2> DEFINE Of(a) == {g \in fs : g.tag.artist = a}
  <2>1. Of(t.artist) = fs /\ \A a \in Artist \ {t.artist} : Of(a) = {}
    OBVIOUS
  <2>2. Cardinality(fs) \in Nat /\ Cardinality(fs) > 0 /\ Cardinality({}) = 0
    BY FS_CardinalityType, FS_EmptySet
  <2>3. t.artist \in Artist
    BY DEF Identity
  <2>4. {a \in Artist : \A b \in Artist : Cardinality(Of(a)) >= Cardinality(Of(b))} = {t.artist}
    <3>1. Cardinality(Of(t.artist)) = Cardinality(fs)
      BY <2>1
    <3>2. \A a \in Artist \ {t.artist} : Cardinality(Of(a)) = 0
      BY <2>1, <2>2
    <3> HIDE DEF Of
    <3> QED BY <2>2, <2>3, <3>1, <3>2
  <2> QED BY <2>4 DEF Majority
<1> QED BY <1>1, <1>2, CommonOfOne DEF Physical, Identity

(* What the server says of an album is of an artist it has files of, and   *)
(* has an id of theirs or the one it would have without the server.        *)
LEMMA ServedType ==
  ASSUME IsFiniteSet(file), NEW known \in SUBSET file, \A f \in known : f.tag \in Identity,
         NEW failed, NEW fallback \in Identity
  PROVE  \/ Served(known, failed, fallback) = None
         \/ /\ Served(known, failed, fallback) \in Identity
            /\ \E f \in known : Served(known, failed, fallback).artist = f.tag.artist
            /\ \/ Served(known, failed, fallback).id = fallback.id
               \/ \E f \in known : Served(known, failed, fallback).id = f.tag.id
<1> DEFINE groups == Tags(known)
           Of(i) == Tagged(IF i \in failed THEN known ELSE file, i)
           Size == [i \in groups |-> Cardinality(Of(i))]
           first == CHOOSE i \in groups : \A k \in groups : Cardinality(Of(i)) >= Cardinality(Of(k))
           ids == {IF i \in failed THEN None ELSE i.id : i \in groups}
<1> SUFFICES ASSUME groups # {}
             PROVE  /\ [artist |-> first.artist, id |-> Or(Common(ids), fallback.id)] \in Identity
                    /\ \E f \in known : first.artist = f.tag.artist
                    /\ \/ Or(Common(ids), fallback.id) = fallback.id
                       \/ \E f \in known : Or(Common(ids), fallback.id) = f.tag.id
  BY DEF Served
<1>1. \A i \in groups : i \in Identity /\ \E f \in known : i = f.tag
  BY DEF Tags
<1>2. Cardinality(file) \in Nat /\ \A i \in groups : Cardinality(Of(i)) \in Nat /\ Cardinality(Of(i)) <= Cardinality(file)
  <2>1. \A i \in groups : Of(i) \in SUBSET file
    BY DEF Tagged
  <2>2. \A i \in groups : IsFiniteSet(Of(i)) /\ Cardinality(Of(i)) <= Cardinality(file)
    BY <2>1, FS_Subset
  <2> QED BY <2>2, FS_CardinalityType
<1>3. first \in groups
  <2>1. Size \in [groups -> Nat] /\ \A i \in groups : Size[i] <= Cardinality(file)
    BY <1>2
  <2> HIDE DEF groups, Of
  <2>2. \E i \in groups : \A k \in groups : Size[i] >= Size[k]
    <3> HIDE DEF Size
    <3> QED BY <1>2, <2>1, Largest
  <2>3. \E i \in groups : \A k \in groups : Cardinality(Of(i)) >= Cardinality(Of(k))
    BY <2>2
  <2> QED BY <2>3
<1>4. \A x \in ids : x = None \/ \E f \in known : x = f.tag.id
  BY <1>1
<1>5. Common(ids) = None \/ \E f \in known : Common(ids) = f.tag.id
  <2> HIDE DEF ids
  <2> QED BY <1>4, CommonType
<1>6. \A f \in known : f.tag.id \in Id \cup {None} /\ f.tag.artist \in Artist
  BY DEF Identity
<1>7. fallback.id \in Id \cup {None}
  BY DEF Identity
<1>8. first.artist \in Artist /\ \E f \in known : first.artist = f.tag.artist
  <2> HIDE DEF first
  <2> QED BY <1>1, <1>3, <1>6
<1> HIDE DEF first, ids
<1> QED BY <1>5, <1>6, <1>7, <1>8 DEF Or, Identity

(* A release with one identity has it for the server too.                  *)
LEMMA ServedOfOne ==
  ASSUME IsFiniteSet(file), NEW known \in SUBSET file, NEW t \in Identity,
         \A f \in known : f.tag = t, NEW failed
  PROVE  Served(known, failed, t) \in {None, t}
<1>1. \/ Served(known, failed, t) = None
      \/ /\ Served(known, failed, t) \in Identity
         /\ \E f \in known : Served(known, failed, t).artist = f.tag.artist
         /\ \/ Served(known, failed, t).id = t.id
            \/ \E f \in known : Served(known, failed, t).id = f.tag.id
  BY ServedType
<1>2. \A i \in Identity : i.artist = t.artist /\ i.id = t.id => i = t
  BY DEF Identity
<1> QED BY <1>1, <1>2

(* An identity gets no anchor only if there is none of its artist, as long *)
(* as there is one to an artist and their ids fit.                         *)
LEMMA SafeIsFound ==
  ASSUME anchors \in Seq(Identity), NEW i \in Identity,
         \A m, n \in DOMAIN anchors : anchors[m].artist = anchors[n].artist => m = n,
         \A n \in DOMAIN anchors : Compatible(anchors[n].id, i.id),
         NEW n \in DOMAIN anchors, anchors[n].artist = i.artist
  PROVE  Safe(i) = n
<1> DEFINE compatible == {m \in DOMAIN anchors : /\ anchors[m].artist = i.artist
                                                 /\ Compatible(anchors[m].id, i.id)}
           exact == {m \in compatible : i.id # None /\ anchors[m].id = i.id}
           Only(s) == IF Cardinality(s) = 1 THEN CHOOSE m \in s : TRUE ELSE 0
<1>1. compatible = {n}
  OBVIOUS
<1>2. Only({n}) = n
  BY FS_Singleton
<1>3. exact = {n} \/ exact = {}
  BY <1>1
<1>4. Cardinality({}) # 1
  BY FS_EmptySet
<1> HIDE DEF Only
<1>5. (IF Cardinality(exact) = 1 THEN Only(exact) ELSE Only(compatible)) = n
  BY <1>1, <1>2, <1>3, <1>4
<1> QED BY <1>5 DEF Safe, Only

LEMMA SafeType ==
  ASSUME NEW i
  PROVE  Safe(i) = 0 \/ Safe(i) \in DOMAIN anchors
<1> DEFINE compatible == {m \in DOMAIN anchors : /\ anchors[m].artist = i.artist
                                                 /\ Compatible(anchors[m].id, i.id)}
           exact == {m \in compatible : i.id # None /\ anchors[m].id = i.id}
           Only(s) == IF Cardinality(s) = 1 THEN CHOOSE m \in s : TRUE ELSE 0
<1>1. \A s \in SUBSET DOMAIN anchors : Only(s) = 0 \/ Only(s) \in DOMAIN anchors
  <2> TAKE s \in SUBSET DOMAIN anchors
  <2>1. CASE s = {}
    BY <2>1, FS_EmptySet
  <2>2. CASE s # {}
    BY <2>2
  <2> QED BY <2>1, <2>2
<1>2. exact \in SUBSET DOMAIN anchors /\ compatible \in SUBSET DOMAIN anchors
  OBVIOUS
<1> HIDE DEF Only
<1>3. Safe(i) = IF Cardinality(exact) = 1 THEN Only(exact) ELSE Only(compatible)
  BY DEF Safe, Only
<1> QED BY <1>1, <1>2, <1>3

-----------------------------------------------------------------------------
(* Types *)

LEMMA TypesInit == Init => TypeInv
<1> SUFFICES ASSUME Init PROVE TypeInv
  OBVIOUS
<1> USE AlbumAssumption DEF Init
<1> DEFINE Here(p) == {[place |-> p, by |-> i, tag |-> i] : i \in old[p]}
<1>1. \A p \in Place : old[p] \subseteq Identity /\ IsFiniteSet(old[p])
  OBVIOUS
<1>2. ASSUME NEW p \in Place PROVE IsFiniteSet(Here(p))
  <2> DEFINE F == [i \in old[p] |-> [place |-> p, by |-> i, tag |-> i]]
  <2>1. F \in Surjection(old[p], Here(p))
    BY DEF Surjection
  <2> QED BY <1>1, <2>1, FS_Surjection
<1>3. IsFiniteSet({Here(p) : p \in Place})
  <2> DEFINE F == [p \in Place |-> Here(p)]
  <2> HIDE DEF Here
  <2>1. F \in Surjection(Place, {Here(p) : p \in Place})
    BY DEF Surjection
  <2> QED BY <2>1, FS_Surjection
<1>4. file = UNION {Here(p) : p \in Place}
  OBVIOUS
<1>5. IsFiniteSet(file)
  <2> HIDE DEF Here
  <2>1. \A T \in {Here(p) : p \in Place} : IsFiniteSet(T)
    BY <1>2
  <2> QED BY <1>3, <1>4, <2>1, FS_UNION
<1>6. \A f \in file : f.place \in Place /\ f.tag \in Identity
  BY <1>1, <1>4
<1>7. Fresh \in Organisation /\ Fresh.proposed = None
  BY DEF Fresh, Organisation, Maybe, Keys
<1>8. anchors \in Seq(Identity) /\ Len(anchors) = 0
  OBVIOUS
<1>9. TypeOK
  BY <1>6, <1>7, <1>8 DEF TypeOK, Steps
<1>10. Held /\ Noted
  BY DEF Held, Noted, Note, Resolving
<1> QED BY <1>1, <1>5, <1>9, <1>10 DEF TypeInv

LEMMA DecidedFields ==
  ASSUME job \in [Job -> Organisation], NEW j \in Job, NEW i \in Maybe
  PROVE  /\ Decided(j, i) \in [Job -> Organisation]
         /\ Decided(j, i)[j].identity = i /\ Decided(j, i)[j].anchor = 0
         /\ Decided(j, i)[j].place = job[j].place /\ Decided(j, i)[j].key = job[j].key
         /\ Decided(j, i)[j].proposed = job[j].proposed
         /\ \A k \in Job \ {j} : Decided(j, i)[k] = job[k]
<1> DEFINE r == [job[j] EXCEPT !.identity = i, !.anchor = 0, !.known = None,
                               !.physical = None, !.server = None]
<1>1. job[j] \in Organisation /\ None \in Maybe
  BY DEF Maybe
<1>2. /\ r \in Organisation /\ r.identity = i /\ r.anchor = 0
      /\ r.place = job[j].place /\ r.key = job[j].key /\ r.proposed = job[j].proposed
  BY <1>1 DEF Organisation
<1>3. Decided(j, i) = [job EXCEPT ![j] = r]
  BY DEF Decided
<1> HIDE DEF r
<1> QED BY <1>2, <1>3

(* The first steps write down what they read.                              *)
LEMMA Reading ==
  ASSUME TypeInv, NEW j \in Job, Locate(j) \/ Look(j) \/ Choose(j)
  PROVE  /\ job' \in [Job -> Organisation]
         /\ \A k \in Job \ {j} : job'[k] = job[k] /\ pc'[k] = pc[k]
         /\ job'[j].place = job[j].place /\ job'[j].key = job[j].key
         /\ job'[j].proposed = job[j].proposed /\ job'[j].server = job[j].server
         /\ UNCHANGED <<old, file, listed, anchors, location, lock, mishaps>>
         /\ Locate(j) => /\ pc[j] = "locate" /\ pc'[j] = "look"
                         /\ job'[j].anchor = location[job[j].place]
                         /\ job'[j].known = IF job'[j].anchor = 0 THEN None ELSE anchors[job'[j].anchor]
         /\ Look(j) => /\ pc[j] = "look" /\ pc'[j] = "view"
                       /\ job'[j].anchor = job[j].anchor /\ job'[j].known = job[j].known
                       /\ job'[j].physical = Physical(In(file, job[j].place), job[j].proposed)
                       /\ job'[j].physical \in Identity
         /\ Choose(j) => /\ pc[j] = "choose" /\ pc'[j] = IF job'[j].anchor = 0 THEN "create" ELSE "bind"
                         /\ job'[j].anchor = Safe(Wanted(j)) /\ job'[j].physical = job[j].physical
                         /\ job'[j].anchor = 0 \/ job'[j].anchor \in DOMAIN anchors
<1> USE DEF TypeInv
<1>1. job[j] \in Organisation /\ job \in [Job -> Organisation] /\ pc \in [Job -> Steps]
  BY DEF TypeOK
<1>2. CASE Locate(j)
  <2>1. job[j].place \in Place /\ location[job[j].place] \in 0..Len(anchors) /\ Len(anchors) \in Nat
    BY <1>1 DEF Organisation, TypeOK
  <2>2. \A n \in 1..Len(anchors) : anchors[n] \in Identity
    BY DEF TypeOK
  <2> DEFINE n == location[job[j].place]
             v == IF n = 0 THEN None ELSE anchors[n]
  <2>3. n \in Nat /\ v \in Maybe
    BY <2>1, <2>2 DEF Maybe
  <2>4. job' = [job EXCEPT ![j].anchor = n, ![j].known = v]
    BY <1>2 DEF Locate
  <2> HIDE DEF n, v
  <2>5. /\ job' \in [Job -> Organisation] /\ \A k \in Job \ {j} : job'[k] = job[k]
        /\ job'[j].place = job[j].place /\ job'[j].key = job[j].key
        /\ job'[j].proposed = job[j].proposed /\ job'[j].server = job[j].server
        /\ job'[j].anchor = n /\ job'[j].known = v
    BY <1>1, <2>3, <2>4 DEF Organisation
  <2>6. \A k \in Job \ {j} : pc'[k] = pc[k]
    BY <1>1, <1>2 DEF Locate
  <2> QED BY <1>1, <1>2, <2>5, <2>6 DEF Locate, Look, Choose, n, v
<1>3. CASE Look(j)
  <2> DEFINE v == Physical(In(file, job[j].place), job[j].proposed)
  <2>1. In(file, job[j].place) \in SUBSET file
    BY DEF In
  <2>2. job[j].proposed \in Identity
    BY <1>3 DEF Look, Noted, Note
  <2>3. v \in Identity
    BY <2>1, <2>2, FS_Subset, PhysicalType DEF TypeOK
  <2>4. job' = [job EXCEPT ![j].physical = v]
    BY <1>3 DEF Look
  <2> HIDE DEF v
  <2>5. /\ job' \in [Job -> Organisation] /\ \A k \in Job \ {j} : job'[k] = job[k]
        /\ job'[j].place = job[j].place /\ job'[j].key = job[j].key
        /\ job'[j].proposed = job[j].proposed /\ job'[j].server = job[j].server
        /\ job'[j].anchor = job[j].anchor /\ job'[j].known = job[j].known /\ job'[j].physical = v
    BY <1>1, <2>3, <2>4 DEF Organisation, Maybe
  <2>6. \A k \in Job \ {j} : pc'[k] = pc[k]
    BY <1>1, <1>3 DEF Look
  <2> QED BY <1>1, <1>3, <2>3, <2>5, <2>6 DEF Locate, Look, Choose, v
<1>4. CASE Choose(j)
  <2> DEFINE n == Safe(Wanted(j))
  <2>1. n = 0 \/ n \in DOMAIN anchors
    BY SafeType
  <2>2. DOMAIN anchors \subseteq Nat
    BY DEF TypeOK
  <2>3. n \in Nat
    BY <2>1, <2>2
  <2>4. job' = [job EXCEPT ![j].anchor = n]
    BY <1>4 DEF Choose
  <2>5. pc'[j] = IF n = 0 THEN "create" ELSE "bind"
    BY <1>1, <1>4 DEF Choose
  <2> HIDE DEF n
  <2>6. /\ job' \in [Job -> Organisation] /\ \A k \in Job \ {j} : job'[k] = job[k]
        /\ job'[j].place = job[j].place /\ job'[j].key = job[j].key
        /\ job'[j].proposed = job[j].proposed /\ job'[j].server = job[j].server
        /\ job'[j].anchor = n /\ job'[j].physical = job[j].physical
    BY <1>1, <2>3, <2>4 DEF Organisation
  <2>7. \A k \in Job \ {j} : pc'[k] = pc[k]
    BY <1>1, <1>4 DEF Choose
  <2> QED BY <1>1, <1>4, <2>1, <2>5, <2>6, <2>7 DEF Locate, Look, Choose, n
<1> QED BY <1>2, <1>3, <1>4

(* What the server says, and the identity that holds without it.           *)
LEMMA Viewing ==
  ASSUME TypeInv, NEW j \in Job, View(j)
  PROVE  \E failed : \E fallback \in Identity, served \in Maybe :
           /\ fallback = IF job[j].anchor = 0 THEN job[j].physical ELSE job[j].known
           /\ served = Served(In(listed, job[j].place), failed, fallback)
           /\ pc[j] = "view" /\ \A k \in Job \ {j} : job'[k] = job[k] /\ pc'[k] = pc[k]
           /\ job' \in [Job -> Organisation]
           /\ job'[j].place = job[j].place /\ job'[j].key = job[j].key
           /\ job'[j].proposed = job[j].proposed
           /\ UNCHANGED <<old, file, listed, anchors, location, lock, mishaps>>
           /\ \/ /\ job[j].anchor # 0 /\ served = None
                 /\ pc'[j] = "write" /\ job'[j].identity = job[j].known
              \/ /\ IF job[j].anchor = 0 THEN pc'[j] = "choose" ELSE served # None /\ pc'[j] = "update"
                 /\ job'[j].server = served /\ job'[j].anchor = job[j].anchor
                 /\ job'[j].known = job[j].known /\ job'[j].physical = job[j].physical
<1> USE DEF TypeInv
<1>1. job[j] \in Organisation /\ job \in [Job -> Organisation] /\ pc \in [Job -> Steps] /\ pc[j] = "view"
  BY DEF TypeOK, View
<1> DEFINE known == In(listed, job[j].place)
           fallback == Or(job[j].known, job[j].physical)
<1>2. /\ job[j].physical \in Identity
      /\ \/ job[j].anchor = 0 /\ job[j].known = None
         \/ job[j].anchor # 0 /\ job[j].known \in Identity
  BY <1>1 DEF Noted, Note
<1>3. fallback \in Identity /\ fallback = IF job[j].anchor = 0 THEN job[j].physical ELSE job[j].known
  BY <1>2, AlbumAssumption DEF Or
<1> HIDE DEF fallback
<1>4. PICK failed : 
        /\ job' = IF job[j].anchor # 0 /\ Served(known, failed, fallback) = None
                  THEN Decided(j, job[j].known)
                  ELSE [job EXCEPT ![j].server = Served(known, failed, fallback)]
        /\ pc' = [pc EXCEPT ![j] = IF job[j].anchor = 0 THEN "choose"
                    ELSE IF Served(known, failed, fallback) = None THEN "write" ELSE "update"]
  BY DEF View, fallback
<1>5. Served(known, failed, fallback) \in Maybe
  <2>1. known \in SUBSET file /\ \A f \in known : f.tag \in Identity
    BY DEF In, TypeOK
  <2> QED BY <1>3, <2>1, ServedType DEF Maybe
<1>6. UNCHANGED <<old, file, listed, anchors, location, lock, mishaps>>
  BY DEF View
<1> DEFINE served == Served(known, failed, fallback)
<1>7. CASE job[j].anchor # 0 /\ served = None
  <2>1. job' = Decided(j, job[j].known) /\ pc' = [pc EXCEPT ![j] = "write"]
    BY <1>4, <1>7
  <2>2. job[j].known \in Maybe
    BY <1>2, <1>7 DEF Maybe
  <2> HIDE DEF served
  <2> QED BY <1>1, <1>3, <1>5, <1>6, <1>7, <2>1, <2>2, DecidedFields DEF served
<1>8. CASE ~(job[j].anchor # 0 /\ served = None)
  <2>1. /\ job' = [job EXCEPT ![j].server = served]
        /\ pc' = [pc EXCEPT ![j] = IF job[j].anchor = 0 THEN "choose" ELSE "update"]
    BY <1>4, <1>8
  <2> HIDE DEF served
  <2>2. /\ job' \in [Job -> Organisation] /\ \A k \in Job \ {j} : job'[k] = job[k]
        /\ job'[j].place = job[j].place /\ job'[j].key = job[j].key
        /\ job'[j].proposed = job[j].proposed /\ job'[j].server = served
        /\ job'[j].anchor = job[j].anchor /\ job'[j].known = job[j].known
        /\ job'[j].physical = job[j].physical
    BY <1>1, <1>5, <2>1 DEF Organisation, served
  <2>3. IF job[j].anchor = 0 THEN pc'[j] = "choose" ELSE served # None /\ pc'[j] = "update"
    BY <1>1, <1>8, <2>1
  <2>4. \A k \in Job \ {j} : pc'[k] = pc[k]
    BY <1>1, <2>1
  <2> QED BY <1>1, <1>3, <1>5, <1>6, <2>2, <2>3, <2>4 DEF served
<1> QED BY <1>7, <1>8

(* A directory gets an anchor, or keeps the one it has got.                *)
LEMMA Settling ==
  ASSUME TypeInv, NEW j \in Job, NEW p, p = job[j].place,
         NEW rows \in Seq(Identity), NEW n \in 1..Len(rows), Len(rows) \in Nat, Len(rows) >= Len(anchors)
  PROVE  Settle(j, rows, n) =>
         /\ job' \in [Job -> Organisation] /\ \A k \in Job \ {j} : job'[k] = job[k]
         /\ job'[j].place = p /\ job'[j].key = job[j].key /\ job'[j].proposed = job[j].proposed
         /\ anchors' \in Seq(Identity) /\ location' \in [Place -> 0..Len(anchors')]
         /\ Len(anchors) <= Len(anchors') /\ Len(anchors') \in Nat
         /\ location'[p] \in DOMAIN anchors'
         /\ job'[j].identity = anchors'[location'[p]]
         /\ \A q \in Place : location[q] # 0 => location'[q] = location[q]
         /\ \/ location[p] # 0 /\ anchors' = anchors /\ location' = location
            \/ location[p] = 0 /\ anchors' = rows /\ location' = [location EXCEPT ![p] = n]
<1>1. /\ job[j] \in Organisation /\ job \in [Job -> Organisation]
      /\ anchors \in Seq(Identity) /\ Len(anchors) \in Nat /\ location \in [Place -> 0..Len(anchors)]
  BY DEF TypeInv, TypeOK
<1>2. p \in Place
  BY <1>1 DEF Organisation
<1>3. CASE location[p] = 0
  <2>1. Settle(j, rows, n) =>
          anchors' = rows /\ location' = [location EXCEPT ![p] = n] /\ job' = Decided(j, rows[n])
    BY <1>3 DEF Settle
  <2>2. rows[n] \in Identity
    OBVIOUS
  <2>3. rows[n] \in Maybe
    BY <2>2 DEF Maybe
  <2>4. \A q \in Place : location[q] \in 0..Len(rows)
    BY <1>1
  <2>5. Settle(j, rows, n) => location' \in [Place -> 0..Len(rows)] /\ location'[p] = n
    BY <1>1, <1>2, <2>1, <2>4
  <2>6. Settle(j, rows, n) => \A q \in Place : location[q] # 0 => location'[q] = location[q]
    BY <1>1, <1>2, <1>3, <2>1
  <2>7. Settle(j, rows, n) =>
        /\ job' \in [Job -> Organisation] /\ \A k \in Job \ {j} : job'[k] = job[k]
        /\ job'[j].place = p /\ job'[j].key = job[j].key /\ job'[j].proposed = job[j].proposed
        /\ job'[j].identity = rows[n]
    BY <1>1, <2>1, <2>3, DecidedFields
  <2> QED BY <1>3, <2>1, <2>5, <2>6, <2>7
<1>4. CASE location[p] # 0
  <2>1. Settle(j, rows, n) => anchors' = anchors /\ location' = location /\ job' = Decided(j, anchors[location[p]])
    BY <1>4 DEF Settle
  <2>2. location[p] \in 1..Len(anchors)
    BY <1>1, <1>2, <1>4
  <2>3. anchors[location[p]] \in Maybe
    BY <1>1, <2>2 DEF Maybe
  <2>4. Settle(j, rows, n) =>
        /\ job' \in [Job -> Organisation] /\ \A k \in Job \ {j} : job'[k] = job[k]
        /\ job'[j].place = p /\ job'[j].key = job[j].key /\ job'[j].proposed = job[j].proposed
        /\ job'[j].identity = anchors[location[p]]
    BY <1>1, <2>1, <2>3, DecidedFields
  <2>5. location[p] \in DOMAIN anchors
    BY <1>1, <2>2
  <2>6. Settle(j, rows, n) =>
        /\ anchors' \in Seq(Identity) /\ location' \in [Place -> 0..Len(anchors')]
        /\ Len(anchors) <= Len(anchors') /\ Len(anchors') \in Nat
        /\ location'[p] \in DOMAIN anchors' /\ anchors'[location'[p]] = anchors[location[p]]
    BY <1>1, <2>1, <2>5
  <2> QED BY <1>4, <2>1, <2>4, <2>6, ZenonT(30)
<1> QED BY <1>3, <1>4

(* The identity is agreed: the anchor follows the server; or the directory *)
(* gets the anchor that was found, or a new one, unless it has got one.    *)
LEMMA Deciding ==
  ASSUME TypeInv, NEW j \in Job, Update(j) \/ Bind(j) \/ Create(j)
  PROVE  /\ job' \in [Job -> Organisation]
         /\ \A k \in Job \ {j} : job'[k] = job[k] /\ pc'[k] = pc[k]
         /\ job'[j].place = job[j].place /\ job'[j].key = job[j].key
         /\ job'[j].proposed = job[j].proposed
         /\ pc'[j] = "write" /\ UNCHANGED <<old, file, listed, lock, mishaps>>
         /\ anchors' \in Seq(Identity) /\ location' \in [Place -> 0..Len(anchors')]
         /\ Len(anchors) <= Len(anchors') /\ Len(anchors') \in Nat
         /\ location'[job[j].place] \in DOMAIN anchors'
         /\ job'[j].identity = anchors'[location'[job[j].place]]
         /\ \A p \in Place : location[p] # 0 => location'[p] = location[p]
         /\ \/ /\ pc[j] = "update" /\ location' = location /\ Len(anchors') = Len(anchors)
               /\ anchors'[location[job[j].place]] = job[j].server
               /\ \A n \in DOMAIN anchors : n # location[job[j].place] => anchors'[n] = anchors[n]
            \/ /\ pc[j] \in {"bind", "create"} /\ location[job[j].place] # 0
               /\ anchors' = anchors /\ location' = location
            \/ /\ pc[j] = "bind" /\ location[job[j].place] = 0 /\ anchors' = anchors
               /\ location' = [location EXCEPT ![job[j].place] = job[j].anchor]
            \/ /\ pc[j] = "create" /\ location[job[j].place] = 0
               /\ Len(anchors') = Len(anchors) + 1 /\ anchors'[Len(anchors) + 1] = Wanted(j)
               /\ \A n \in DOMAIN anchors : anchors'[n] = anchors[n]
               /\ location' = [location EXCEPT ![job[j].place] = Len(anchors) + 1]
<1> USE DEF TypeInv
<1>1. /\ job[j] \in Organisation /\ job \in [Job -> Organisation] /\ pc \in [Job -> Steps]
      /\ anchors \in Seq(Identity) /\ Len(anchors) \in Nat /\ location \in [Place -> 0..Len(anchors)]
  BY DEF TypeOK
<1> DEFINE p == job[j].place
<1>2. p \in Place
  BY <1>1 DEF Organisation
<1>3. CASE Update(j)
  <2>1. /\ location[p] # 0 /\ location[p] = job[j].anchor /\ location[p] \in 1..Len(anchors)
        /\ job[j].server \in Identity /\ pc[j] = "update"
    BY <1>1, <1>2, <1>3 DEF Update, Noted, Note
  <2>2. /\ anchors' = [anchors EXCEPT ![location[p]] = job[j].server]
        /\ job' = Decided(j, job[j].server) /\ pc' = [pc EXCEPT ![j] = "write"]
        /\ UNCHANGED <<old, file, listed, location, lock, mishaps>>
    BY <1>3, <2>1 DEF Update
  <2>3. /\ anchors' \in Seq(Identity) /\ Len(anchors') = Len(anchors)
        /\ anchors'[location[p]] = job[j].server
        /\ \A n \in DOMAIN anchors : n # location[p] => anchors'[n] = anchors[n]
    BY <1>1, <2>1, <2>2
  <2>4. job[j].server \in Maybe
    BY <2>1 DEF Maybe
  <2> QED BY <1>1, <1>2, <2>1, <2>2, <2>3, <2>4, DecidedFields
<1>5. CASE Bind(j)
  <2>1. job[j].anchor \in 1..Len(anchors) /\ pc[j] = "bind"
    BY <1>1, <1>5 DEF Bind, Noted, Note
  <2>2. /\ Settle(j, anchors, job[j].anchor) /\ pc' = [pc EXCEPT ![j] = "write"]
        /\ UNCHANGED <<old, file, listed, lock, mishaps>>
    BY <1>5 DEF Bind
  <2> QED BY <1>1, <2>1, <2>2, Settling
<1>6. CASE Create(j)
  <2>1. pc[j] = "create" /\ Wanted(j) \in Identity
    BY <1>1, <1>6, AlbumAssumption DEF Create, Noted, Note, Wanted, Or, Organisation, Maybe
  <2>2. PICK rows \in Seq(Identity) : rows = Append(anchors, Wanted(j))
    <3>1. Append(anchors, Wanted(j)) \in Seq(Identity)
      BY <1>1, <2>1
    <3> QED BY <3>1
  <2>3. /\ Len(rows) = Len(anchors) + 1 /\ rows[Len(anchors) + 1] = Wanted(j)
        /\ \A n \in DOMAIN anchors : rows[n] = anchors[n]
    BY <1>1, <2>1, <2>2
  <2>4. /\ Settle(j, rows, Len(anchors) + 1) /\ pc' = [pc EXCEPT ![j] = "write"]
        /\ UNCHANGED <<old, file, listed, lock, mishaps>>
    BY <1>6, <2>2 DEF Create
  <2>5. Len(anchors) + 1 \in 1..Len(rows) /\ Len(rows) >= Len(anchors) /\ Len(rows) \in Nat
    BY <1>1, <2>3
  <2>6. PICK m \in 1..Len(rows) : m = Len(anchors) + 1
    BY <2>5
  <2>7. Settle(j, rows, m)
    BY <2>4, <2>6
  <2>8. \A k \in Job \ {j} : pc'[k] = pc[k]
    BY <1>1, <2>4
  <2>9. pc'[j] = "write"
    BY <1>1, <2>4
  <2>10. p = job[j].place
    OBVIOUS
  <2> HIDE DEF p
  <2>11. /\ job' \in [Job -> Organisation] /\ \A k \in Job \ {j} : job'[k] = job[k]
         /\ job'[j].place = p /\ job'[j].key = job[j].key /\ job'[j].proposed = job[j].proposed
         /\ anchors' \in Seq(Identity) /\ location' \in [Place -> 0..Len(anchors')]
         /\ Len(anchors) <= Len(anchors') /\ Len(anchors') \in Nat
         /\ location'[p] \in DOMAIN anchors'
         /\ job'[j].identity = anchors'[location'[p]]
         /\ \A q \in Place : location[q] # 0 => location'[q] = location[q]
         /\ \/ location[p] # 0 /\ anchors' = anchors /\ location' = location
            \/ location[p] = 0 /\ anchors' = rows /\ location' = [location EXCEPT ![p] = m]
    BY <2>5, <2>7, <2>10, Settling
  <2>12. \/ pc[j] \in {"bind", "create"} /\ location[p] # 0 /\ anchors' = anchors /\ location' = location
         \/ /\ pc[j] = "create" /\ location[p] = 0
            /\ Len(anchors') = Len(anchors) + 1 /\ anchors'[Len(anchors) + 1] = Wanted(j)
            /\ \A n \in DOMAIN anchors : anchors'[n] = anchors[n]
            /\ location' = [location EXCEPT ![p] = Len(anchors) + 1]
    <3>1. CASE location[p] # 0
      BY <2>1, <2>11, <3>1
    <3>2. CASE location[p] = 0
      <4>1. anchors' = rows
        BY <2>11, <3>2
      <4>2. location' = [location EXCEPT ![p] = Len(anchors) + 1]
        BY <2>6, <2>11, <3>2
      <4>3. /\ Len(anchors') = Len(anchors) + 1 /\ anchors'[Len(anchors) + 1] = Wanted(j)
            /\ \A n \in DOMAIN anchors : anchors'[n] = anchors[n]
        BY <2>3, <4>1
      <4> QED BY <2>1, <3>2, <4>2, <4>3
    <3> QED BY <3>1, <3>2
  <2>13. UNCHANGED <<old, file, listed, lock, mishaps>>
    BY <2>4
  <2> QED BY <2>8, <2>9, <2>10, <2>11, <2>12, <2>13
<1> QED BY <1>3, <1>5, <1>6

(* What comes before and after the agreement, and around it.               *)
LEMMA Going ==
  ASSUME TypeInv, NEW j \in Job,
         Acquire(j) \/ Write(j) \/ Finish(j) \/ InterruptLease(j) \/ InterruptFile(j) \/ InterruptWrite(j)
  PROVE  /\ job' \in [Job -> Organisation]
         /\ \A k \in Job \ {j} : job'[k] = job[k] /\ pc'[k] = pc[k]
         /\ job'[j].place = job[j].place /\ job'[j].key = job[j].key
         /\ job'[j].proposed = job[j].proposed
         /\ pc'[j] = "idle" <=> pc[j] = "idle"
         /\ pc'[j] = "locate" => lock'[job[j].key] = j
         /\ pc'[j] # "locate" => pc'[j] \notin Resolving
         /\ pc'[j] = "write" => pc[j] = "write" /\ job' = job
         /\ \A k \in Job \ {j}, key \in Keys : lock[key] = k => lock'[key] = k
         /\ lock' \in [Keys -> Job \cup {None}]
         /\ UNCHANGED <<old, listed, anchors, location>>
         /\ file' = file \/ (pc[j] = "write" /\ file' = Written(j))
<1> USE DEF TypeInv
<1>1. /\ job[j] \in Organisation /\ job \in [Job -> Organisation] /\ pc \in [Job -> Steps]
      /\ lock \in [Keys -> Job \cup {None}] /\ job[j].key \in Keys
  BY DEF TypeOK, Organisation
<1>2. None \in Maybe /\ None \notin Job
  BY AlbumAssumption DEF Maybe
<1>3. /\ Freed(j) \in [Keys -> Job \cup {None}]
      /\ \A k \in Job \ {j}, key \in Keys : lock[key] = k => Freed(j)[key] = k
  BY <1>1 DEF Freed
<1>4. CASE Acquire(j)
  BY <1>1, <1>2, <1>4 DEF Acquire, Resolving
<1>5. CASE Write(j)
  BY <1>1, <1>2, <1>5, DecidedFields DEF Write, Resolving
<1>6. CASE Finish(j)
  BY <1>1, <1>3, <1>6 DEF Finish, Resolving
<1>7. CASE InterruptLease(j)
  BY <1>1, <1>2, <1>3, <1>7, DecidedFields DEF InterruptLease, Resolving
<1>8. CASE InterruptFile(j)
  BY <1>1, <1>2, <1>3, <1>8, DecidedFields DEF InterruptFile, Resolving
<1>9. CASE InterruptWrite(j)
  BY <1>1, <1>2, <1>9, DecidedFields DEF InterruptWrite, Resolving
<1> QED BY <1>4, <1>5, <1>6, <1>7, <1>8, <1>9

LEMMA Beginning ==
  ASSUME TypeInv, NEW j \in Job, NEW p \in Place, NEW named \in BOOLEAN, NEW i \in Identity, Begin(j, p, named, i)
  PROVE  /\ job' \in [Job -> Organisation]
         /\ \A k \in Job \ {j} : job'[k] = job[k] /\ pc'[k] = pc[k]
         /\ pc[j] = "idle" /\ pc'[j] = "waiting" /\ job'[j].place = p
         /\ job'[j].key = KeyOf(named, p) /\ job'[j].proposed = i
         /\ UNCHANGED <<old, file, listed, anchors, location, lock, mishaps>>
<1> DEFINE r == [Fresh EXCEPT !.place = p, !.key = KeyOf(named, p), !.proposed = i]
<1>1. job \in [Job -> Organisation] /\ pc \in [Job -> Steps]
  BY DEF TypeInv, TypeOK
<1>2. KeyOf(named, p) \in Keys /\ i \in Maybe
  BY DEF KeyOf, Keys, Maybe
<1>3. Fresh \in Organisation
  BY AlbumAssumption DEF Fresh, Organisation, Maybe, Keys
<1>4. r \in Organisation /\ r.place = p /\ r.key = KeyOf(named, p) /\ r.proposed = i
  BY <1>2, <1>3 DEF Organisation
<1>5. job' = [job EXCEPT ![j] = r] /\ pc' = [pc EXCEPT ![j] = "waiting"] /\ pc[j] = "idle"
  BY DEF Begin
<1> HIDE DEF r
<1>6. UNCHANGED <<old, file, listed, anchors, location, lock, mishaps>>
  BY DEF Begin
<1> QED BY <1>1, <1>4, <1>5, <1>6

LEMMA Crashing ==
  ASSUME TypeInv, Crash
  PROVE  /\ job' \in [Job -> Organisation]
         /\ \A j \in Job : /\ job'[j].place = job[j].place /\ job'[j].key = job[j].key
                           /\ job'[j].proposed = job[j].proposed
                           /\ pc'[j] \in {"idle", "left", "over"} /\ (pc'[j] = "idle" <=> pc[j] = "idle")
         /\ UNCHANGED <<old, file, listed, anchors, location>>
<1>1. job \in [Job -> Organisation] /\ pc \in [Job -> Steps] /\ None \in Maybe
  BY DEF TypeInv, TypeOK, Maybe
<1>2. job' = [j \in Job |-> Decided(j, None)[j]] /\ UNCHANGED <<old, file, listed, anchors, location>>
  BY DEF Crash
<1>3. \A j \in Job : /\ Decided(j, None)[j] \in Organisation
                     /\ Decided(j, None)[j].place = job[j].place /\ Decided(j, None)[j].key = job[j].key
                     /\ Decided(j, None)[j].proposed = job[j].proposed
  BY <1>1, DecidedFields
<1>4. /\ job' \in [Job -> Organisation]
      /\ \A j \in Job : /\ job'[j].place = job[j].place /\ job'[j].key = job[j].key
                        /\ job'[j].proposed = job[j].proposed
  BY <1>2, <1>3
<1>5. \A j \in Job : pc'[j] \in {"idle", "left", "over"} /\ (pc'[j] = "idle" <=> pc[j] = "idle")
  BY DEF Crash
<1> QED BY <1>2, <1>4, <1>5

(* What holds of an organisation stays while another one moves.            *)
LEMMA OthersKeep ==
  ASSUME TypeInv, NEW k \in Job, job'[k] = job[k], pc'[k] = pc[k],
         Len(anchors') \in Nat, Len(anchors) <= Len(anchors'), anchors' \in Seq(Identity),
         \A p \in Place : location[p] # 0 => location'[p] = location[p]
  PROVE  Note(k)'
<1>1. Note(k) /\ job[k].place \in Place /\ anchors \in Seq(Identity)
  BY DEF TypeInv, TypeOK, Noted, Organisation
<1>2. DOMAIN anchors \subseteq DOMAIN anchors'
  BY <1>1
<1> QED BY <1>1, <1>2 DEF Note

LEMMA PlainTypes == TypeInv /\ [Next]_vars => pc' \in [Job -> Steps] /\ mishaps' \in 0 .. Mishaps
<1> SUFFICES ASSUME TypeInv, [Next]_vars PROVE pc' \in [Job -> Steps] /\ mishaps' \in 0 .. Mishaps
  OBVIOUS
<1>1. pc \in [Job -> Steps] /\ mishaps \in 0 .. Mishaps /\ Mishaps \in Nat
  BY AlbumAssumption DEF TypeInv, TypeOK
<1>2. ASSUME NEW j \in Job, Works(j) PROVE pc' \in [Job -> Steps] /\ mishaps' \in 0 .. Mishaps
  BY <1>1, <1>2 DEF Works, Resolve, Acquire, Locate, Look, View, Update, Choose, Bind, Create,
                    Write, Finish, Steps, Resolving
<1>3. ASSUME NEW j \in Job, InterruptLease(j) \/ InterruptFile(j) \/ InterruptWrite(j)
      PROVE  pc' \in [Job -> Steps] /\ mishaps' \in 0 .. Mishaps
  BY <1>1, <1>3 DEF InterruptLease, InterruptFile, InterruptWrite, Mishap, Steps
<1>4. ASSUME NEW j \in Job, NEW p \in Place, NEW named \in BOOLEAN, NEW i \in Identity, Begin(j, p, named, i)
      PROVE  pc' \in [Job -> Steps] /\ mishaps' \in 0 .. Mishaps
  BY <1>1, <1>4 DEF Begin, Steps
<1>5. CASE Crash
  BY <1>1, <1>5 DEF Crash, Mishap, Steps
<1>6. CASE Sync \/ UNCHANGED vars
  BY <1>1, <1>6 DEF Sync, vars
<1> QED BY <1>2, <1>3, <1>4, <1>5, <1>6 DEF Next

LEMMA TypesNext == TypeInv /\ [Next]_vars => TypeInv'
<1> SUFFICES ASSUME TypeInv, [Next]_vars PROVE TypeInv'
  OBVIOUS
<1>1. pc' \in [Job -> Steps] /\ mishaps' \in 0 .. Mishaps
  BY PlainTypes
<1>2. /\ job \in [Job -> Organisation] /\ anchors \in Seq(Identity) /\ Len(anchors) \in Nat
      /\ location \in [Place -> 0 .. Len(anchors)] /\ lock \in [Keys -> Job \cup {None}]
      /\ listed \subseteq file /\ \A f \in file : f.place \in Place /\ f.tag \in Identity
      /\ pc \in [Job -> Steps] /\ Held /\ IsFiniteSet(file)
      /\ \A p \in Place : old[p] \subseteq Identity /\ IsFiniteSet(old[p])
      /\ \A k \in Job : job[k].key \in Keys /\ job[k].place \in Place
      /\ \A n \in 1..Len(anchors) : anchors[n] \in Identity
  BY DEF TypeInv, TypeOK, Organisation
<1>3. ASSUME NEW j \in Job, Locate(j) \/ Look(j) \/ Choose(j) PROVE TypeInv'
  <2>1. Held'
    BY <1>2, <1>3, Reading DEF Held, Resolving
  <2>2. \A k \in Job \ {j} : Note(k)'
    BY <1>2, <1>3, Reading, OthersKeep
  <2>3. Note(j)'
    BY <1>2, <1>3, Reading, SMTT(40) DEF TypeInv, Noted, Note
  <2>4. TypeOK'
    BY <1>1, <1>2, <1>3, Reading DEF TypeOK
  <2> QED BY <1>2, <1>3, <2>1, <2>2, <2>3, <2>4, Reading DEF TypeInv, Noted
<1>4. ASSUME NEW j \in Job, View(j) PROVE TypeInv'
  <2>1. PICK failed : \E fallback \in Identity, served \in Maybe :
           /\ fallback = IF job[j].anchor = 0 THEN job[j].physical ELSE job[j].known
           /\ served = Served(In(listed, job[j].place), failed, fallback)
           /\ pc[j] = "view" /\ \A k \in Job \ {j} : job'[k] = job[k] /\ pc'[k] = pc[k]
           /\ job' \in [Job -> Organisation]
           /\ job'[j].place = job[j].place /\ job'[j].key = job[j].key
           /\ job'[j].proposed = job[j].proposed
           /\ UNCHANGED <<old, file, listed, anchors, location, lock, mishaps>>
           /\ \/ /\ job[j].anchor # 0 /\ served = None
                 /\ pc'[j] = "write" /\ job'[j].identity = job[j].known
              \/ /\ IF job[j].anchor = 0 THEN pc'[j] = "choose" ELSE served # None /\ pc'[j] = "update"
                 /\ job'[j].server = served /\ job'[j].anchor = job[j].anchor
                 /\ job'[j].known = job[j].known /\ job'[j].physical = job[j].physical
    BY <1>4, Viewing
  <2>2. Held'
    BY <1>2, <2>1 DEF Held, Resolving
  <2>3. \A k \in Job \ {j} : Note(k)'
    BY <1>2, <2>1, OthersKeep
  <2>4. Note(j)'
    <3>1. Note(j)
      BY DEF TypeInv, Noted
    <3> QED BY <1>2, <2>1, <3>1 DEF Note, Maybe
  <2>5. TypeOK'
    BY <1>1, <1>2, <2>1 DEF TypeOK
  <2> QED BY <1>2, <2>1, <2>2, <2>3, <2>4, <2>5 DEF TypeInv, Noted
<1>5. ASSUME NEW j \in Job, Update(j) \/ Bind(j) \/ Create(j) PROVE TypeInv'
  <2>1. Held'
    BY <1>2, <1>5, Deciding DEF Held, Resolving
  <2>2. /\ \A k \in Job \ {j} : job'[k] = job[k] /\ pc'[k] = pc[k]
        /\ Len(anchors') \in Nat /\ Len(anchors) <= Len(anchors') /\ anchors' \in Seq(Identity)
        /\ \A p \in Place : location[p] # 0 => location'[p] = location[p]
    BY <1>5, Deciding
  <2>3. \A k \in Job \ {j} : Note(k)'
    BY <2>2, OthersKeep
  <2>4. Note(j)'
    <3>1. /\ job'[j].place = job[j].place /\ job'[j].proposed = job[j].proposed /\ pc'[j] = "write"
          /\ location'[job[j].place] \in DOMAIN anchors'
          /\ job'[j].identity = anchors'[location'[job[j].place]]
      BY <1>5, Deciding
    <3>2. pc[j] # "idle"
      BY <1>5 DEF Update, Bind, Create
    <3>3. job[j].proposed \in Identity
      BY <3>2 DEF TypeInv, Noted, Note
    <3> QED BY <2>2, <3>1, <3>3 DEF Note
  <2>5. TypeOK'
    <3>1. UNCHANGED <<file, listed, lock>> /\ job' \in [Job -> Organisation] /\ location' \in [Place -> 0 .. Len(anchors')]
      BY <1>5, Deciding
    <3> QED BY <1>1, <1>2, <2>2, <3>1 DEF TypeOK
  <2>6. UNCHANGED <<old, file>>
    BY <1>5, Deciding
  <2> QED BY <1>2, <2>1, <2>3, <2>4, <2>5, <2>6 DEF TypeInv, Noted
<1>6. ASSUME NEW j \in Job,
             Acquire(j) \/ Write(j) \/ Finish(j) \/ InterruptLease(j) \/ InterruptFile(j) \/ InterruptWrite(j)
      PROVE  TypeInv'
  <2>1. Held'
    BY <1>2, <1>6, Going DEF Held, Resolving
  <2>2. \A k \in Job \ {j} : Note(k)'
    BY <1>2, <1>6, Going, OthersKeep
  <2>3. Note(j)'
    <3>1. Note(j)
      BY DEF TypeInv, Noted
    <3> QED BY <1>2, <1>6, <3>1, Going DEF Note, Resolving
  <2>4. IsFiniteSet(file') /\ \A f \in file' : f \in file \/ (f.place \in Place /\ f.tag \in Identity)
    <3>1. CASE file' = file
      BY <1>2, <3>1
    <3>2. CASE pc[j] = "write" /\ file' = Written(j)
      <4>1. job[j].identity \in Identity
        BY <3>2 DEF TypeInv, Noted, Note
      <4> DEFINE f == [place |-> job[j].place, by |-> j, tag |-> job[j].identity]
      <4>2. file' = file \cup {f} /\ f.place \in Place /\ f.tag \in Identity
        BY <1>2, <3>2, <4>1 DEF Written
      <4> HIDE DEF f
      <4> QED BY <1>2, <4>2, FS_AddElement
    <3> QED BY <1>6, <3>1, <3>2, Going
  <2>5. file \subseteq file'
    BY <1>6, Going DEF Written
  <2>6. TypeOK'
    BY <1>1, <1>2, <1>6, <2>4, <2>5, Going DEF TypeOK
  <2> QED BY <1>2, <1>6, <2>1, <2>2, <2>3, <2>4, <2>6, Going DEF TypeInv, Noted
<1>7. ASSUME NEW j \in Job, NEW p \in Place, NEW named \in BOOLEAN, NEW i \in Identity, Begin(j, p, named, i)
      PROVE  TypeInv'
  <2>1. Held'
    BY <1>2, <1>7, Beginning DEF Held, Resolving
  <2>2. \A k \in Job \ {j} : Note(k)'
    BY <1>2, <1>7, Beginning, OthersKeep
  <2>3. Note(j)'
    BY <1>7, Beginning DEF Note
  <2>4. TypeOK'
    BY <1>1, <1>2, <1>7, Beginning DEF TypeOK
  <2> QED BY <1>2, <1>7, <2>1, <2>2, <2>3, <2>4, Beginning DEF TypeInv, Noted
<1>8. CASE Crash
  <2>1. Held'
    BY <1>8, Crashing DEF Held, Resolving
  <2>2. Noted'
    BY <1>8, Crashing DEF TypeInv, Noted, Note
  <2>3. lock' \in [Keys -> Job \cup {None}]
    BY <1>8 DEF Crash
  <2>4. TypeOK'
    BY <1>1, <1>2, <1>8, <2>3, Crashing DEF TypeOK
  <2> QED BY <1>2, <1>8, <2>1, <2>2, <2>4, Crashing DEF TypeInv
<1>9. CASE Sync
  BY <1>1, <1>2, <1>9 DEF Sync, TypeInv, TypeOK, Held, Noted, Note
<1>10. CASE UNCHANGED vars
  BY <1>10 DEF vars, TypeInv, TypeOK, Held, Noted, Note
<1> QED BY <1>3, <1>4, <1>5, <1>6, <1>7, <1>8, <1>9, <1>10 DEF Next, Works, Resolve

(* The variables keep their types, and what an organisation has read and   *)
(* decided fits the step it is at: it holds the key while it chooses, the  *)
(* anchor it has found is the one its directory is bound to, and what it   *)
(* writes comes from a bound directory.                                    *)
THEOREM TypeCorrect == Spec => []TypeInv
BY TypesInit, TypesNext, PTL DEF Spec

-----------------------------------------------------------------------------
(* The files of one directory *)

(* What a directory says the identity is: its anchor, or the files that    *)
(* were there before.                                                      *)
Said(p) == IF location[p] # 0 THEN {anchors[location[p]]} ELSE old[p]

Clear(p) == Cardinality(old[p]) <= 1 /\ Alone(p)

(* Whoever works on a clear directory goes by what the directory says.     *)
Follows(j) ==
  LET p == job[j].place IN
  /\ pc[j] \in {"look", "view", "update"} /\ job[j].anchor # 0 => job[j].known \in Said(p)
  /\ pc[j] = "update" => job[j].server \in Said(p)
  /\ pc[j] = "write" => job[j].identity \in Said(p)
  /\ location[p] = 0 /\ old[p] # {} =>
       /\ pc[j] \in {"view", "choose", "bind", "create"} => job[j].physical \in old[p]
       /\ pc[j] \in {"choose", "bind", "create"} => job[j].server \in old[p] \cup {None}

(* Every anchor is the anchor of some directory.                           *)
Anchored == \A n \in DOMAIN anchors : \E p \in Place : location[p] = n

OldKept == \A p \in Place : \A i \in old[p] : [place |-> p, by |-> i, tag |-> i] \in file

Guided(p) ==
  Clear(p) => /\ \A f \in In(file, p) : f.tag \in Said(p)
              /\ \A j \in Job : job[j].place = p => Follows(j)

Agreement == Anchored /\ OldKept /\ \A p \in Place : Guided(p)

LEMMA OneOfOne ==
  ASSUME NEW S, IsFiniteSet(S), Cardinality(S) <= 1, NEW x \in S
  PROVE  S = {x}
<1>1. Cardinality(S) \in Nat /\ Cardinality(S \ {x}) = Cardinality(S) - 1 /\ IsFiniteSet(S \ {x})
  BY FS_RemoveElement, FS_CardinalityType
<1>2. Cardinality(S \ {x}) \in Nat
  BY <1>1, FS_CardinalityType
<1>3. Cardinality(S \ {x}) = 0
  BY <1>1, <1>2
<1>4. S \ {x} = {}
  BY <1>1, <1>3, FS_EmptySet
<1> QED BY <1>4

(* A clear directory says one thing at most.                               *)
LEMMA SaidOnce ==
  ASSUME TypeInv, NEW p \in Place, Cardinality(old[p]) <= 1
  PROVE  /\ Said(p) \subseteq Identity /\ IsFiniteSet(Said(p)) /\ Cardinality(Said(p)) <= 1
         /\ \A x \in Said(p) : Said(p) = {x}
<1>1. /\ old[p] \subseteq Identity /\ IsFiniteSet(old[p])
      /\ anchors \in Seq(Identity) /\ location \in [Place -> 0 .. Len(anchors)]
  BY DEF TypeInv, TypeOK
<1>2. CASE location[p] # 0
  <2>1. location[p] \in 1..Len(anchors) /\ anchors[location[p]] \in Identity
    BY <1>1, <1>2
  <2>2. PICK t \in Identity : t = anchors[location[p]]
    BY <2>1
  <2>3. Said(p) = {t}
    BY <1>2, <2>2 DEF Said
  <2>4. IsFiniteSet({t}) /\ Cardinality({t}) = 1
    BY FS_Singleton
  <2> QED BY <2>3, <2>4
<1>3. CASE location[p] = 0
  BY <1>1, <1>3, OneOfOne DEF Said
<1> QED BY <1>2, <1>3

LEMMA AgreementInit == Init => Agreement
<1> SUFFICES ASSUME Init PROVE Agreement
  OBVIOUS
<1>1. Anchored
  BY DEF Init, Anchored
<1>2. \A p \in Place : \A i \in old[p] : [place |-> p, by |-> i, tag |-> i] \in file
  BY DEF Init
<1>3. \A p \in Place : \A f \in In(file, p) : f.tag \in old[p]
  BY DEF Init, In
<1>4. \A j \in Job : Follows(j)
  BY DEF Init, Follows
<1>5. \A p \in Place : Said(p) = old[p]
  BY DEF Init, Said
<1> QED BY <1>1, <1>2, <1>3, <1>4, <1>5 DEF Agreement, OldKept, Guided

(* Where nothing is decided a directory says what it said.                 *)
LEMMA SaidStays ==
  UNCHANGED <<old, anchors, location>>
    => (\A p \in Place : (Said(p))' = Said(p) /\ (Clear(p)' <=> Clear(p))) /\ (Anchored' <=> Anchored)
BY DEF Said, Clear, Alone, Anchored

LEMMA FollowsStays ==
  ASSUME NEW k \in Job, job'[k] = job[k], pc'[k] = pc[k], UNCHANGED <<old, anchors, location>>, Follows(k)
  PROVE  Follows(k)'
BY DEF Follows, Said

(* The directory may get another say only from an organisation that finds  *)
(* it without an anchor, and gives it a new one.                           *)
LEMMA SaidDecided ==
  ASSUME TypeInv, Agreement, NEW j \in Job, Update(j) \/ Bind(j) \/ Create(j), NEW p \in Place, Clear(p)'
  PROVE  /\ Clear(p)
         /\ \/ (Said(p))' = Said(p) /\ location'[p] = location[p]
            \/ /\ job[j].place = p /\ pc[j] = "create" /\ location[p] = 0 /\ location'[p] # 0
               /\ (Said(p))' = {Wanted(j)}
<1> DEFINE q == job[j].place
<1>1. /\ location \in [Place -> 0 .. Len(anchors)] /\ Len(anchors) \in Nat /\ q \in Place
      /\ anchors \in Seq(Identity) /\ job[j] \in Organisation
  BY DEF TypeInv, TypeOK, Organisation
<1>2. \A r \in Place : location[r] # 0 => location'[r] = location[r]
  BY Deciding
<1>3. old' = old
  BY Deciding
<1>4. Clear(p)
  <2>1. \A r \in Place \ {p} : location'[r] = 0 \/ location'[r] # location'[p]
    BY DEF Clear, Alone
  <2>2. \A r \in Place \ {p} : location[r] = 0 \/ location[r] # location[p]
    BY <1>2, <2>1
  <2> QED BY <1>3, <2>2 DEF Clear, Alone
<1>5. CASE pc[j] = "update" /\ location' = location /\ anchors'[location[q]] = job[j].server
           /\ \A n \in DOMAIN anchors : n # location[q] => anchors'[n] = anchors[n]
  <2>1. location[q] # 0
    BY <1>5 DEF TypeInv, Noted, Note
  <2>2. CASE p = q
    <3>1. job[j].server \in Said(p)
      BY <1>4, <1>5, <2>2 DEF Agreement, Guided, Follows
    <3> QED BY <1>4, <1>5, <2>1, <2>2, <3>1 DEF Said
  <2>3. CASE p # q /\ location[p] # 0
    <3>1. location[p] # location[q] /\ location[p] \in DOMAIN anchors
      BY <1>1, <1>4, <2>1, <2>3 DEF Clear, Alone
    <3> QED BY <1>4, <1>5, <2>3, <3>1 DEF Said
  <2>4. CASE location[p] = 0
    BY <1>3, <1>4, <1>5, <2>4 DEF Said
  <2> QED BY <2>2, <2>3, <2>4
<1>6. CASE pc[j] \in {"bind", "create"} /\ anchors' = anchors /\ location' = location
  BY <1>3, <1>4, <1>6 DEF Said
<1>7. CASE pc[j] = "bind" /\ location[q] = 0 /\ anchors' = anchors /\ location' = [location EXCEPT ![q] = job[j].anchor]
  <2>1. PICK r \in Place : location[r] = job[j].anchor
    BY <1>7 DEF TypeInv, Noted, Note, Agreement, Anchored
  <2>2. job[j].anchor # 0
    BY <1>1, <1>7 DEF TypeInv, Noted, Note
  <2>3. p # q
    BY <1>1, <1>7, <2>1, <2>2 DEF Clear, Alone
  <2> QED BY <1>1, <1>3, <1>4, <1>7, <2>3 DEF Said
<1>8. CASE /\ pc[j] = "create" /\ location[q] = 0 /\ anchors'[Len(anchors) + 1] = Wanted(j)
           /\ \A n \in DOMAIN anchors : anchors'[n] = anchors[n]
           /\ location' = [location EXCEPT ![q] = Len(anchors) + 1]
  <2>1. CASE p = q
    BY <1>1, <1>4, <1>8, <2>1 DEF Said
  <2>2. CASE p # q
    <3>1. location'[p] = location[p] /\ (location[p] # 0 => location[p] \in DOMAIN anchors)
      BY <1>1, <1>8, <2>2
    <3> QED BY <1>3, <1>4, <1>8, <3>1 DEF Said
  <2> QED BY <2>1, <2>2
<1>9. \/ pc[j] = "update" /\ location' = location /\ anchors'[location[q]] = job[j].server
           /\ \A n \in DOMAIN anchors : n # location[q] => anchors'[n] = anchors[n]
      \/ pc[j] \in {"bind", "create"} /\ anchors' = anchors /\ location' = location
      \/ pc[j] = "bind" /\ location[q] = 0 /\ anchors' = anchors /\ location' = [location EXCEPT ![q] = job[j].anchor]
      \/ /\ pc[j] = "create" /\ location[q] = 0 /\ anchors'[Len(anchors) + 1] = Wanted(j)
         /\ \A n \in DOMAIN anchors : anchors'[n] = anchors[n]
         /\ location' = [location EXCEPT ![q] = Len(anchors) + 1]
  BY Deciding
<1> QED BY <1>5, <1>6, <1>7, <1>8, <1>9

LEMMA AgreementReading ==
  ASSUME TypeInv, Agreement, NEW j \in Job, Locate(j) \/ Look(j) \/ Choose(j)
  PROVE  Agreement'
<1>1. /\ location \in [Place -> 0 .. Len(anchors)] /\ job[j].place \in Place
      /\ IsFiniteSet(file) /\ \A f \in file : f.tag \in Identity
      /\ \A q \in Place : old[q] \subseteq Identity /\ IsFiniteSet(old[q])
  BY DEF TypeInv, TypeOK, Organisation
<1>2. UNCHANGED <<old, file, anchors, location>> /\ job'[j].place = job[j].place
  BY Reading
<1>3. (\A q \in Place : (Said(q))' = Said(q) /\ (Clear(q)' <=> Clear(q))) /\ (Anchored' <=> Anchored)
  BY <1>2, SaidStays
<1>4. \A k \in Job \ {j} : job'[k] = job[k] /\ pc'[k] = pc[k]
  BY Reading
<1> DEFINE p == job[j].place
<1>5. ASSUME Clear(p), Follows(j), \A f \in In(file, p) : f.tag \in Said(p)
      PROVE  Follows(j)'
  <2>1. CASE Locate(j)
    <3>1. /\ pc'[j] = "look" /\ job'[j].anchor = location[p]
          /\ job'[j].known = IF job'[j].anchor = 0 THEN None ELSE anchors[job'[j].anchor]
      BY <2>1, Reading
    <3> QED BY <1>2, <3>1 DEF Follows, Said
  <2>2. CASE Look(j)
    <3>1. /\ pc[j] = "look" /\ pc'[j] = "view"
          /\ job'[j].anchor = job[j].anchor /\ job'[j].known = job[j].known
          /\ job'[j].physical = Physical(In(file, p), job[j].proposed)
      BY <2>2, Reading
    <3>2. ASSUME location[p] = 0, old[p] # {} PROVE job'[j].physical \in old[p]
      <4>1. PICK t \in old[p] : TRUE
        BY <3>2
      <4>2. Said(p) = {t} /\ old[p] = {t} /\ t \in Identity
        BY <1>1, <1>5, <3>2, <4>1, SaidOnce DEF Clear, Said
      <4>3. In(file, p) # {} /\ IsFiniteSet(In(file, p))
        <5>1. [place |-> p, by |-> t, tag |-> t] \in In(file, p)
          BY <1>1, <4>1 DEF Agreement, OldKept, In
        <5>2. In(file, p) \in SUBSET file
          BY DEF In
        <5> QED BY <1>1, <5>1, <5>2, FS_Subset
      <4>4. \A f \in In(file, p) : f.tag = t
        BY <1>5, <4>2
      <4>5. Physical(In(file, p), job[j].proposed) = t
        BY <4>2, <4>3, <4>4, PhysicalOfOne
      <4> QED BY <3>1, <4>1, <4>5
    <3> QED BY <1>2, <1>5, <3>1, <3>2 DEF Follows, Said
  <2>3. CASE Choose(j)
    <3>1. /\ pc[j] = "choose" /\ pc'[j] \in {"create", "bind"}
          /\ job'[j].physical = job[j].physical /\ job'[j].server = job[j].server
      BY <2>3, Reading
    <3> QED BY <1>2, <1>5, <3>1 DEF Follows, Said
  <2> QED BY <2>1, <2>2, <2>3
<1>6. ASSUME NEW q \in Place PROVE Guided(q)'
  <2>1. ASSUME Clear(q)'
        PROVE  (\A f \in In(file, q) : f.tag \in Said(q))' /\ \A k \in Job : job'[k].place = q => Follows(k)'
    <3>1. /\ \A f \in In(file, q) : f.tag \in Said(q)
          /\ \A k \in Job : job[k].place = q => Follows(k)
      BY <1>3, <2>1 DEF Agreement, Guided
    <3>2. (\A f \in In(file, q) : f.tag \in Said(q))'
      BY <1>2, <1>3, <3>1 DEF In
    <3>3. ASSUME NEW k \in Job \ {j}, job'[k].place = q PROVE Follows(k)'
      BY <1>2, <1>4, <3>1, <3>3, FollowsStays
    <3>4. ASSUME job'[j].place = q PROVE Follows(j)'
      BY <1>2, <1>3, <1>5, <2>1, <3>1, <3>4
    <3> QED BY <3>2, <3>3, <3>4
  <2> QED BY <2>1 DEF Guided
<1> QED BY <1>2, <1>3, <1>6 DEF Agreement, OldKept

LEMMA AgreementViewing ==
  ASSUME TypeInv, Agreement, NEW j \in Job, View(j)
  PROVE  Agreement'
<1>1. PICK failed : \E fallback \in Identity, served \in Maybe :
           /\ fallback = IF job[j].anchor = 0 THEN job[j].physical ELSE job[j].known
           /\ served = Served(In(listed, job[j].place), failed, fallback)
           /\ pc[j] = "view" /\ \A k \in Job \ {j} : job'[k] = job[k] /\ pc'[k] = pc[k]
           /\ job' \in [Job -> Organisation]
           /\ job'[j].place = job[j].place /\ job'[j].key = job[j].key
           /\ job'[j].proposed = job[j].proposed
           /\ UNCHANGED <<old, file, listed, anchors, location, lock, mishaps>>
           /\ \/ /\ job[j].anchor # 0 /\ served = None
                 /\ pc'[j] = "write" /\ job'[j].identity = job[j].known
              \/ /\ IF job[j].anchor = 0 THEN pc'[j] = "choose" ELSE served # None /\ pc'[j] = "update"
                 /\ job'[j].server = served /\ job'[j].anchor = job[j].anchor
                 /\ job'[j].known = job[j].known /\ job'[j].physical = job[j].physical
  BY Viewing
<1> DEFINE p == job[j].place
<1>2. PICK fallback \in Identity, served \in Maybe :
           /\ fallback = IF job[j].anchor = 0 THEN job[j].physical ELSE job[j].known
           /\ served = Served(In(listed, p), failed, fallback)
           /\ pc[j] = "view" /\ \A k \in Job \ {j} : job'[k] = job[k] /\ pc'[k] = pc[k]
           /\ job'[j].place = job[j].place
           /\ UNCHANGED <<old, file, anchors, location>>
           /\ \/ /\ job[j].anchor # 0 /\ served = None
                 /\ pc'[j] = "write" /\ job'[j].identity = job[j].known
              \/ /\ IF job[j].anchor = 0 THEN pc'[j] = "choose" ELSE served # None /\ pc'[j] = "update"
                 /\ job'[j].server = served /\ job'[j].anchor = job[j].anchor
                 /\ job'[j].known = job[j].known /\ job'[j].physical = job[j].physical
  BY <1>1
<1>3. (\A q \in Place : (Said(q))' = Said(q) /\ (Clear(q)' <=> Clear(q))) /\ (Anchored' <=> Anchored)
  BY <1>2, SaidStays
<1>4. /\ p \in Place /\ listed \subseteq file /\ IsFiniteSet(file)
      /\ location \in [Place -> 0 .. Len(anchors)] /\ \A f \in file : f.tag \in Identity
  BY DEF TypeInv, TypeOK, Organisation
<1>5. ASSUME Clear(p), Follows(j), \A f \in In(file, p) : f.tag \in Said(p)
      PROVE  Follows(j)'
  <2>1. In(listed, p) \in SUBSET file /\ \A f \in In(listed, p) : f.tag \in Said(p)
    BY <1>4, <1>5 DEF In
  <2>2. fallback \in Said(p) => served \in {None, fallback}
    <3>1. fallback \in Said(p) => Said(p) = {fallback}
      BY <1>4, <1>5, SaidOnce DEF Clear
    <3>2. fallback \in Said(p) => \A f \in In(listed, p) : f.tag = fallback
      BY <2>1, <3>1
    <3> QED BY <1>2, <1>4, <2>1, <3>2, ServedOfOne
  <2>3. CASE job[j].anchor # 0
    <3>1. fallback \in Said(p) /\ job[j].known \in Said(p) /\ location[p] # 0
      BY <1>2, <1>5, <2>3 DEF Follows, TypeInv, Noted, Note
    <3> QED BY <1>2, <2>2, <2>3, <3>1 DEF Follows, Said
  <2>4. CASE job[j].anchor = 0
    <3>1. location[p] = 0 /\ old[p] # {} => fallback \in old[p] /\ job[j].physical \in old[p] /\ fallback \in Said(p)
      BY <1>2, <1>5, <2>4 DEF Follows, Said
    <3> QED BY <1>2, <2>2, <2>4, <3>1 DEF Follows, Said
  <2> QED BY <2>3, <2>4
<1>6. ASSUME NEW q \in Place PROVE Guided(q)'
  <2>1. ASSUME Clear(q)'
        PROVE  (\A f \in In(file, q) : f.tag \in Said(q))' /\ \A k \in Job : job'[k].place = q => Follows(k)'
    <3>1. /\ \A f \in In(file, q) : f.tag \in Said(q)
          /\ \A k \in Job : job[k].place = q => Follows(k)
      BY <1>3, <2>1 DEF Agreement, Guided
    <3>2. (\A f \in In(file, q) : f.tag \in Said(q))'
      BY <1>2, <1>3, <3>1 DEF In
    <3>3. ASSUME NEW k \in Job \ {j}, job'[k].place = q PROVE Follows(k)'
      BY <1>2, <3>1, <3>3, FollowsStays
    <3>4. ASSUME job'[j].place = q PROVE Follows(j)'
      BY <1>2, <1>3, <1>5, <2>1, <3>1, <3>4
    <3> QED BY <3>2, <3>3, <3>4
  <2> QED BY <2>1 DEF Guided
<1> QED BY <1>2, <1>3, <1>6 DEF Agreement, OldKept

LEMMA AgreementDeciding ==
  ASSUME TypeInv, Agreement, NEW j \in Job, Update(j) \/ Bind(j) \/ Create(j)
  PROVE  Agreement'
<1>1. /\ job[j].place \in Place /\ anchors \in Seq(Identity) /\ Len(anchors) \in Nat
      /\ location \in [Place -> 0 .. Len(anchors)]
  BY DEF TypeInv, TypeOK, Organisation
<1> DEFINE p == job[j].place
<1>2. /\ UNCHANGED <<old, file>> /\ job'[j].place = p /\ pc'[j] = "write"
      /\ \A k \in Job \ {j} : job'[k] = job[k] /\ pc'[k] = pc[k]
      /\ location'[p] \in DOMAIN anchors' /\ job'[j].identity = anchors'[location'[p]]
      /\ anchors' \in Seq(Identity) /\ location' \in [Place -> 0 .. Len(anchors')]
      /\ \A q \in Place : location[q] # 0 => location'[q] = location[q]
  BY Deciding
<1>3. Anchored'
  <2>1. Anchored
    BY DEF Agreement
  <2>2. ASSUME NEW n \in DOMAIN anchors, n \in DOMAIN anchors' PROVE \E q \in Place : location'[q] = n
    <3>1. PICK q \in Place : location[q] = n
      BY <2>1 DEF Anchored
    <3>2. location[q] # 0
      BY <1>1, <3>1
    <3> QED BY <1>2, <3>1, <3>2
  <2>3. \/ DOMAIN anchors' = DOMAIN anchors
        \/ Len(anchors') = Len(anchors) + 1 /\ location' = [location EXCEPT ![p] = Len(anchors) + 1]
    <3>1. DOMAIN anchors = 1..Len(anchors) /\ DOMAIN anchors' = 1..Len(anchors')
      BY <1>1, <1>2
    <3>2. \/ Len(anchors') = Len(anchors)
          \/ Len(anchors') = Len(anchors) + 1 /\ location' = [location EXCEPT ![p] = Len(anchors) + 1]
      BY Deciding
    <3> QED BY <3>1, <3>2
  <2>4. CASE DOMAIN anchors' = DOMAIN anchors
    BY <2>2, <2>4 DEF Anchored
  <2>5. CASE Len(anchors') = Len(anchors) + 1 /\ location' = [location EXCEPT ![p] = Len(anchors) + 1]
    <3>1. location'[p] = Len(anchors) + 1
      BY <1>1, <2>5
    <3>2. \A n \in DOMAIN anchors' : n \in DOMAIN anchors \/ n = Len(anchors) + 1
      BY <1>1, <1>2, <2>5
    <3> QED BY <1>1, <2>2, <3>1, <3>2 DEF Anchored
  <2> QED BY <2>3, <2>4, <2>5
<1>4. ASSUME NEW q \in Place PROVE Guided(q)'
  <2>1. ASSUME Clear(q)'
        PROVE  (\A f \in In(file, q) : f.tag \in Said(q))' /\ \A k \in Job : job'[k].place = q => Follows(k)'
    <3>1. /\ Clear(q)
          /\ \/ (Said(q))' = Said(q) /\ location'[q] = location[q]
             \/ /\ p = q /\ pc[j] = "create" /\ location[q] = 0 /\ location'[q] # 0
                /\ (Said(q))' = {Wanted(j)}
      BY <2>1, SaidDecided
    <3>2. /\ \A f \in In(file, q) : f.tag \in Said(q)
          /\ \A k \in Job : job[k].place = q => Follows(k)
      BY <3>1 DEF Agreement, Guided
    <3>3. (\A f \in In(file, q) : f.tag \in Said(q))'
      <4>1. CASE (Said(q))' = Said(q)
        BY <1>2, <3>2, <4>1 DEF In
      <4>2. CASE p = q /\ pc[j] = "create" /\ location[q] = 0 /\ (Said(q))' = {Wanted(j)}
        <5>1. ASSUME NEW f \in In(file, q) PROVE f.tag = Wanted(j)
          <6>1. f.tag \in old[q] /\ Said(q) = old[q]
            BY <3>2, <4>2 DEF Said
          <6>2. Wanted(j) \in old[q]
            BY <3>2, <4>2, <6>1 DEF Follows, Wanted, Or
          <6> QED BY <3>1, <6>1, <6>2, SaidOnce DEF Clear
        <5> QED BY <1>2, <4>2, <5>1 DEF In
      <4> QED BY <3>1, <4>1, <4>2
    <3>4. ASSUME NEW k \in Job \ {j}, job'[k].place = q PROVE Follows(k)'
      <4>1. job'[k] = job[k] /\ pc'[k] = pc[k] /\ job[k].place = q /\ Follows(k)
        BY <1>2, <3>2, <3>4
      <4>2. CASE (Said(q))' = Said(q) /\ location'[q] = location[q]
        BY <1>2, <4>1, <4>2 DEF Follows
      <4>3. CASE location[q] = 0 /\ location'[q] # 0
        BY <4>1, <4>3 DEF Follows, TypeInv, Noted, Note
      <4> QED BY <3>1, <4>2, <4>3
    <3>5. ASSUME p = q PROVE Follows(j)'
      <4>1. location'[p] # 0
        BY <1>2
      <4> QED BY <1>2, <4>1 DEF Follows, Said
    <3> QED BY <1>2, <3>3, <3>4, <3>5
  <2> QED BY <2>1 DEF Guided
<1> QED BY <1>2, <1>3, <1>4 DEF Agreement, OldKept

LEMMA AgreementNext == TypeInv /\ Agreement /\ [Next]_vars => Agreement'
<1> SUFFICES ASSUME TypeInv, Agreement, [Next]_vars PROVE Agreement'
  OBVIOUS
<1>1. ASSUME NEW j \in Job,
             Acquire(j) \/ Write(j) \/ Finish(j) \/ InterruptLease(j) \/ InterruptFile(j) \/ InterruptWrite(j)
      PROVE  Agreement'
  <2> DEFINE p == job[j].place
  <2>1. /\ UNCHANGED <<old, anchors, location>> /\ job'[j].place = p
        /\ \A k \in Job \ {j} : job'[k] = job[k] /\ pc'[k] = pc[k]
        /\ pc'[j] # "locate" => pc'[j] \notin Resolving
        /\ pc'[j] = "write" => pc[j] = "write" /\ job' = job
        /\ file' = file \/ (pc[j] = "write" /\ file' = Written(j))
    BY <1>1, Going
  <2>2. (\A q \in Place : (Said(q))' = Said(q) /\ (Clear(q)' <=> Clear(q))) /\ (Anchored' <=> Anchored)
    BY <2>1, SaidStays
  <2>3. ASSUME NEW q \in Place PROVE Guided(q)'
    <3>1. ASSUME Clear(q)'
          PROVE  (\A f \in In(file, q) : f.tag \in Said(q))' /\ \A k \in Job : job'[k].place = q => Follows(k)'
      <4>1. /\ \A f \in In(file, q) : f.tag \in Said(q)
            /\ \A k \in Job : job[k].place = q => Follows(k)
        BY <2>2, <3>1 DEF Agreement, Guided
      <4>2. (\A f \in In(file, q) : f.tag \in Said(q))'
        <5>1. CASE file' = file
          BY <2>2, <4>1, <5>1 DEF In
        <5>2. CASE pc[j] = "write" /\ file' = Written(j)
          BY <2>2, <4>1, <5>2 DEF In, Written, Follows
        <5> QED BY <2>1, <5>1, <5>2
      <4>3. ASSUME NEW k \in Job \ {j}, job'[k].place = q PROVE Follows(k)'
        BY <2>1, <4>1, <4>3, FollowsStays
      <4>4. ASSUME job'[j].place = q PROVE Follows(j)'
        BY <2>1, <4>1, <4>4 DEF Follows, Resolving, Said
      <4> QED BY <4>2, <4>3, <4>4
    <3> QED BY <3>1 DEF Guided
  <2>4. file \subseteq file'
    BY <2>1 DEF Written
  <2> QED BY <2>1, <2>2, <2>3, <2>4 DEF Agreement, OldKept
<1>2. ASSUME NEW j \in Job, NEW p \in Place, NEW named \in BOOLEAN, NEW i \in Identity, Begin(j, p, named, i)
      PROVE  Agreement'
  <2>1. /\ UNCHANGED <<old, file, anchors, location>> /\ pc'[j] = "waiting"
        /\ \A k \in Job \ {j} : job'[k] = job[k] /\ pc'[k] = pc[k]
    BY <1>2, Beginning
  <2>2. (\A q \in Place : (Said(q))' = Said(q) /\ (Clear(q)' <=> Clear(q))) /\ (Anchored' <=> Anchored)
    BY <2>1, SaidStays
  <2>3. Follows(j)'
    BY <2>1 DEF Follows
  <2>4. \A k \in Job \ {j} : job'[k].place = job[k].place /\ (Follows(k) => Follows(k)')
    BY <2>1, FollowsStays
  <2>5. \A q \in Place : Guided(q)'
    BY <2>1, <2>2, <2>3, <2>4 DEF Agreement, Guided, In
  <2> QED BY <2>1, <2>2, <2>5 DEF Agreement, OldKept
<1>3. CASE Crash
  <2>1. UNCHANGED <<old, file, anchors, location>>
    BY <1>3, Crashing
  <2>2. (\A q \in Place : (Said(q))' = Said(q) /\ (Clear(q)' <=> Clear(q))) /\ (Anchored' <=> Anchored)
    BY <2>1, SaidStays
  <2>3. \A k \in Job : Follows(k)'
    BY <1>3, Crashing DEF Follows
  <2>4. \A q \in Place : Guided(q)'
    BY <2>1, <2>2, <2>3 DEF Agreement, Guided, In
  <2> QED BY <2>1, <2>2, <2>4 DEF Agreement, OldKept
<1>4. CASE Sync \/ UNCHANGED vars
  <2>1. UNCHANGED <<old, file, anchors, location, pc, job>>
    BY <1>4 DEF Sync, vars
  <2>2. (\A q \in Place : (Said(q))' = Said(q) /\ (Clear(q)' <=> Clear(q))) /\ (Anchored' <=> Anchored)
    BY <2>1, SaidStays
  <2>3. \A k \in Job : job'[k] = job[k] /\ (Follows(k) => Follows(k)')
    BY <2>1, FollowsStays
  <2>4. \A q \in Place : Guided(q)'
    BY <2>1, <2>2, <2>3 DEF Agreement, Guided, In
  <2> QED BY <2>1, <2>2, <2>4 DEF Agreement, OldKept
<1> QED BY <1>1, <1>2, <1>3, <1>4, AgreementReading, AgreementViewing, AgreementDeciding
        DEF Next, Works, Resolve

LEMMA AgreementAgrees == TypeInv /\ Agreement => Agreed
<1> SUFFICES ASSUME TypeInv, Agreement, NEW p \in Place, Cardinality(old[p]) <= 1 /\ Alone(p)
             PROVE  Cardinality(Tags(In(file, p))) <= 1
  BY DEF Agreed
<1>1. Tags(In(file, p)) \in SUBSET Said(p)
  BY DEF Agreement, Guided, Clear, Tags
<1>2. IsFiniteSet(Said(p)) /\ Cardinality(Said(p)) <= 1
  BY SaidOnce
<1>3. /\ Cardinality(Tags(In(file, p))) <= Cardinality(Said(p)) /\ IsFiniteSet(Tags(In(file, p)))
  BY <1>1, <1>2, FS_Subset
<1>4. Cardinality(Said(p)) \in Nat /\ Cardinality(Tags(In(file, p))) \in Nat
  BY <1>2, <1>3, FS_CardinalityType
<1> QED BY <1>2, <1>3, <1>4

(* The files of one directory do not fall apart into two albums, whoever   *)
(* organises them: an anchor is only written by who was told the same by   *)
(* the directory, and nobody writes tags before its directory has one.     *)
THEOREM DirectoriesAgree == Spec => []Agreed
<1>1. Init => TypeInv /\ Agreement
  BY TypesInit, AgreementInit
<1>2. (TypeInv /\ Agreement) /\ [Next]_vars => (TypeInv /\ Agreement)'
  BY TypesNext, AgreementNext
<1>3. TypeInv /\ Agreement => Agreed
  BY AgreementAgrees
<1> QED BY <1>1, <1>2, <1>3, PTL DEF Spec

-----------------------------------------------------------------------------
(* One album over its directories *)

Begun == {j \in Job : pc[j] # "idle"}

(* The files come under the album's name to new directories, with ids that *)
(* fit one another.                                                        *)
Fits ==
  /\ \A p \in Place : old[p] = {}
  /\ \A j \in Begun : job[j].key = Album
  /\ \A i, k \in {job[j].proposed : j \in Begun} : Compatible(i.id, k.id)

OneAnchor == \A m, n \in DOMAIN anchors : anchors[m].artist = anchors[n].artist => m = n

(* No id comes from elsewhere.                                             *)
Ids == {None} \cup {job[j].proposed.id : j \in Begun}

(* The identity is one of the anchor's artist, and of the ids there are.   *)
Of(p, i) == location[p] # 0 /\ i.artist = anchors[location[p]].artist /\ i.id \in Ids

(* Whoever has found a directory without an anchor still finds it so, and  *)
(* wants what its own file says; whoever creates an anchor has found none  *)
(* of its artist.                                                          *)
Belongs(j) ==
  LET p == job[j].place
      unbound == pc[j] \in {"choose", "bind", "create"}
  IN
  /\ pc[j] \in {"look", "view", "update"} /\ job[j].anchor # 0 => Of(p, job[j].known)
  /\ pc[j] = "update" => Of(p, job[j].server)
  /\ pc[j] = "write" => Of(p, job[j].identity)
  /\ unbound \/ (pc[j] \in {"look", "view"} /\ job[j].anchor = 0) => location[p] = 0
  /\ unbound \/ (pc[j] = "view" /\ job[j].anchor = 0) => job[j].physical = job[j].proposed
  /\ unbound => job[j].server = None
  /\ pc[j] = "create" => \A n \in DOMAIN anchors : anchors[n].artist # job[j].proposed.artist

OneAlbum ==
  /\ OneAnchor /\ \A n \in DOMAIN anchors : anchors[n].id \in Ids
  /\ \A f \in file : Of(f.place, f.tag)
  /\ \A j \in Job : Belongs(j)

LEMMA OneAlbumInit == Init /\ Fits => OneAlbum
<1> SUFFICES ASSUME Init, Fits PROVE OneAlbum
  OBVIOUS
<1>1. anchors = <<>> /\ DOMAIN anchors = {}
  BY DEF Init
<1>2. file = {}
  BY DEF Init, Fits
<1>3. \A j \in Job : Belongs(j)
  BY DEF Init, Belongs
<1> QED BY <1>1, <1>2, <1>3 DEF OneAlbum, OneAnchor

(* Who has begun has, and keeps its key and what it proposed.              *)
LEMMA Keeping ==
  ASSUME TypeInv, [Next]_vars
  PROVE  /\ UNCHANGED old
         /\ \A j \in Begun : j \in Begun' /\ job'[j].key = job[j].key /\ job'[j].proposed = job[j].proposed
<1> DEFINE Kept1(j) == pc'[j] # "idle" /\ job'[j].key = job[j].key /\ job'[j].proposed = job[j].proposed
<1>1. ASSUME NEW j \in Job, Locate(j) \/ Look(j) \/ Choose(j)
      PROVE  UNCHANGED old /\ \A k \in Begun : Kept1(k)
  BY <1>1, Reading DEF Begun
<1>2. ASSUME NEW j \in Job, View(j) PROVE UNCHANGED old /\ \A k \in Begun : Kept1(k)
  BY <1>2, Viewing DEF Begun
<1>3. ASSUME NEW j \in Job, Update(j) \/ Bind(j) \/ Create(j) PROVE UNCHANGED old /\ \A k \in Begun : Kept1(k)
  <2>1. /\ UNCHANGED old /\ pc'[j] = "write" /\ \A k \in Job \ {j} : job'[k] = job[k] /\ pc'[k] = pc[k]
        /\ job'[j].key = job[j].key /\ job'[j].proposed = job[j].proposed
    BY <1>3, Deciding
  <2> QED BY <2>1 DEF Begun
<1>4. ASSUME NEW j \in Job,
             Acquire(j) \/ Write(j) \/ Finish(j) \/ InterruptLease(j) \/ InterruptFile(j) \/ InterruptWrite(j)
      PROVE  UNCHANGED old /\ \A k \in Begun : Kept1(k)
  <2>1. /\ UNCHANGED old /\ (pc'[j] = "idle" <=> pc[j] = "idle")
        /\ \A k \in Job \ {j} : job'[k] = job[k] /\ pc'[k] = pc[k]
        /\ job'[j].key = job[j].key /\ job'[j].proposed = job[j].proposed
    BY <1>4, Going
  <2> QED BY <2>1 DEF Begun
<1>5. ASSUME NEW j \in Job, NEW p \in Place, NEW named \in BOOLEAN, NEW i \in Identity, Begin(j, p, named, i)
      PROVE  UNCHANGED old /\ \A k \in Begun : Kept1(k)
  <2>1. UNCHANGED old /\ pc[j] = "idle" /\ \A k \in Job \ {j} : job'[k] = job[k] /\ pc'[k] = pc[k]
    BY <1>5, Beginning
  <2> QED BY <2>1 DEF Begun
<1>6. ASSUME Crash PROVE UNCHANGED old /\ \A k \in Begun : Kept1(k)
  BY <1>6, Crashing DEF Begun
<1>7. ASSUME Sync \/ UNCHANGED vars PROVE UNCHANGED old /\ \A k \in Begun : Kept1(k)
  BY <1>7 DEF Sync, vars, Begun
<1>8. UNCHANGED old /\ \A k \in Begun : Kept1(k)
  <2> HIDE DEF Kept1
  <2> QED BY <1>1, <1>2, <1>3, <1>4, <1>5, <1>6, <1>7 DEF Next, Works, Resolve
<1> QED BY <1>8 DEF Begun

(* What fits has fitted all along, and the ids that were there stay.       *)
LEMMA FitsBefore ==
  ASSUME TypeInv, [Next]_vars, Fits'
  PROVE  Fits /\ Ids \subseteq Ids'
<1>1. /\ UNCHANGED old
      /\ \A j \in Begun : j \in Begun' /\ job'[j].key = job[j].key /\ job'[j].proposed = job[j].proposed
  BY Keeping
<1>2. {job[j].proposed : j \in Begun} \subseteq {job'[j].proposed : j \in Begun'}
  BY <1>1
<1>3. Ids \subseteq Ids'
  BY <1>1 DEF Ids
<1> QED BY <1>1, <1>2, <1>3 DEF Fits

LEMMA IdsFit ==
  ASSUME Fits, NEW v \in Ids, NEW w \in Ids
  PROVE  Compatible(v, w)
BY DEF Fits, Ids, Compatible

(* One organisation chooses at a time.                                     *)
LEMMA OneChooses ==
  ASSUME TypeInv, Fits, NEW j \in Job, NEW k \in Job, pc[j] \in Resolving, pc[k] \in Resolving
  PROVE  j = k
<1>1. j \in Begun /\ k \in Begun
  BY DEF Begun, Resolving
<1>2. job[j].key = Album /\ job[k].key = Album
  BY <1>1 DEF Fits
<1> QED BY <1>2 DEF TypeInv, Held

(* Anchors keep their artists, and directories their anchors.              *)
Lasting ==
  /\ \A p \in Place : location[p] # 0 => location'[p] = location[p]
  /\ \A n \in DOMAIN anchors : anchors'[n].artist = anchors[n].artist
  /\ Ids \subseteq Ids'

LEMMA OfLasts ==
  ASSUME TypeInv, Lasting, NEW p \in Place, NEW i, Of(p, i)
  PROVE  Of(p, i)'
<1>1. location[p] \in DOMAIN anchors
  BY DEF TypeInv, TypeOK, Of
<1> QED BY <1>1 DEF Of, Lasting

LEMMA BelongsLasts ==
  ASSUME TypeInv, Lasting, NEW k \in Job, Belongs(k), job'[k] = job[k], pc'[k] = pc[k],
         pc[k] \in Resolving => UNCHANGED <<anchors, location>>
  PROVE  Belongs(k)'
<1>1. job[k].place \in Place
  BY DEF TypeInv, TypeOK, Organisation
<1>2. CASE pc[k] \in Resolving
  <2>1. Ids \subseteq Ids' /\ UNCHANGED <<anchors, location>>
    BY <1>2 DEF Lasting
  <2> QED BY <1>1, <1>2, <2>1 DEF Belongs, Of
<1>3. CASE pc[k] \notin Resolving
  <2>1. pc[k] = "write" => Of(job[k].place, job[k].identity)
    BY DEF Belongs
  <2>2. pc[k] = "write" => (Of(job[k].place, job[k].identity))'
    <3>1. PICK p \in Place : p = job[k].place
      BY <1>1
    <3>2. PICK i : i = job[k].identity
      OBVIOUS
    <3>3. pc[k] = "write" => Of(p, i)'
      BY <2>1, <3>1, <3>2, OfLasts
    <3> QED BY <3>1, <3>2, <3>3 DEF Of
  <2> QED BY <1>3, <2>2 DEF Belongs, Resolving
<1> QED BY <1>2, <1>3

(* A step that decides nothing leaves the others as they were.             *)
LEMMA OneMoves ==
  ASSUME TypeInv, OneAlbum, Ids \subseteq Ids', UNCHANGED <<anchors, location>>, NEW j \in Job,
         \A k \in Job \ {j} : job'[k] = job[k] /\ pc'[k] = pc[k],
         Belongs(j)', \A f \in file' : f \in file \/ Of(f.place, f.tag)'
  PROVE  OneAlbum'
<1>1. Lasting
  BY DEF Lasting
<1>2. \A k \in Job \ {j} : Belongs(k)'
  BY <1>1, BelongsLasts DEF OneAlbum
<1>3. \A f \in file : Of(f.place, f.tag)'
  BY <1>1, OfLasts DEF OneAlbum, TypeInv, TypeOK
<1>4. (OneAnchor /\ \A n \in DOMAIN anchors : anchors[n].id \in Ids)'
  BY DEF OneAlbum, OneAnchor
<1>5. \A k \in Job : Belongs(k)'
  BY <1>2
<1>6. (\A f \in file : Of(f.place, f.tag))'
  BY <1>3
<1> QED BY <1>4, <1>5, <1>6 DEF OneAlbum

(* A directory without an anchor is empty.                                 *)
LEMMA UnboundIsEmpty ==
  ASSUME OneAlbum, NEW p, location[p] = 0
  PROVE  In(file, p) = {}
BY DEF OneAlbum, In, Of

LEMMA ProposedId ==
  ASSUME NEW j \in Begun
  PROVE  job[j].proposed.id \in Ids
BY DEF Ids

(* How an organisation of the album comes to its next step.                *)
LEMMA BelongsNext ==
  ASSUME Ids \subseteq Ids', UNCHANGED <<anchors, location>>, NEW j \in Job, NEW p, job'[j].place = p,
         \/ /\ pc'[j] = "look" /\ job'[j].anchor = location[p]
            /\ location[p] # 0 => Of(p, job'[j].known)
         \/ /\ pc'[j] = "view"
            /\ \/ Of(p, job'[j].known) /\ job'[j].anchor # 0
               \/ location[p] = 0 /\ job'[j].anchor = 0 /\ job'[j].physical = job'[j].proposed
         \/ pc'[j] = "update" /\ Of(p, job'[j].known) /\ Of(p, job'[j].server)
         \/ pc'[j] = "write" /\ Of(p, job'[j].identity)
         \/ /\ pc'[j] \in {"choose", "bind", "create"} /\ location[p] = 0
            /\ job'[j].physical = job'[j].proposed /\ job'[j].server = None
            /\ pc'[j] = "create" => \A n \in DOMAIN anchors : anchors[n].artist # job'[j].proposed.artist
  PROVE  Belongs(j)'
<1>1. CASE pc'[j] = "look" /\ job'[j].anchor = location[p] /\ (location[p] # 0 => Of(p, job'[j].known))
  BY <1>1 DEF Belongs, Of
<1>2. CASE /\ pc'[j] = "view"
           /\ \/ Of(p, job'[j].known) /\ job'[j].anchor # 0
              \/ location[p] = 0 /\ job'[j].anchor = 0 /\ job'[j].physical = job'[j].proposed
  BY <1>2 DEF Belongs, Of
<1>3. CASE pc'[j] = "update" /\ Of(p, job'[j].known) /\ Of(p, job'[j].server)
  BY <1>3 DEF Belongs, Of
<1>4. CASE pc'[j] = "write" /\ Of(p, job'[j].identity)
  BY <1>4 DEF Belongs, Of
<1>5. CASE /\ pc'[j] \in {"choose", "bind", "create"} /\ location[p] = 0
           /\ job'[j].physical = job'[j].proposed /\ job'[j].server = None
           /\ pc'[j] = "create" => \A n \in DOMAIN anchors : anchors[n].artist # job'[j].proposed.artist
  BY <1>5 DEF Belongs
<1> QED BY <1>1, <1>2, <1>3, <1>4, <1>5

LEMMA OneAlbumReading ==
  ASSUME TypeInv, Fits, OneAlbum, NEW j \in Job, Locate(j) \/ Look(j) \/ Choose(j), Ids \subseteq Ids'
  PROVE  OneAlbum'
<1> DEFINE p == job[j].place
<1>1. /\ UNCHANGED <<file, anchors, location>> /\ job'[j].place = p /\ job'[j].proposed = job[j].proposed
      /\ job'[j].server = job[j].server /\ \A k \in Job \ {j} : job'[k] = job[k] /\ pc'[k] = pc[k]
  BY Reading
<1>2. Belongs(j)
  BY DEF OneAlbum
<1>3. /\ location \in [Place -> 0 .. Len(anchors)] /\ Len(anchors) \in Nat /\ anchors \in Seq(Identity)
      /\ p \in Place
  BY DEF TypeInv, TypeOK, Organisation
<1>4. ASSUME Locate(j) PROVE Belongs(j)'
  <2>1. /\ pc'[j] = "look" /\ job'[j].anchor = location[p]
        /\ job'[j].known = IF job'[j].anchor = 0 THEN None ELSE anchors[job'[j].anchor]
    BY <1>4, Reading
  <2>2. location[p] # 0 => anchors[location[p]].id \in Ids
    BY <1>3 DEF OneAlbum
  <2>3. location[p] # 0 => Of(p, job'[j].known)
    BY <2>1, <2>2 DEF Of
  <2> QED BY <1>1, <2>1, <2>3, BelongsNext
<1>5. ASSUME Look(j) PROVE Belongs(j)'
  <2>1. /\ pc[j] = "look" /\ pc'[j] = "view"
        /\ job'[j].anchor = job[j].anchor /\ job'[j].known = job[j].known
        /\ job'[j].physical = Physical(In(file, p), job[j].proposed)
    BY <1>5, Reading
  <2>2. job[j].anchor = 0 => location[p] = 0 /\ job'[j].physical = job[j].proposed
    BY <1>2, <2>1, UnboundIsEmpty DEF Belongs, Physical
  <2>3. job[j].anchor # 0 => Of(p, job'[j].known)
    BY <1>2, <2>1 DEF Belongs
  <2> QED BY <1>1, <2>1, <2>2, <2>3, BelongsNext
<1>6. ASSUME Choose(j) PROVE Belongs(j)'
  <2>1. /\ pc[j] = "choose" /\ pc'[j] = IF job'[j].anchor = 0 THEN "create" ELSE "bind"
        /\ job'[j].anchor = Safe(Wanted(j)) /\ job'[j].physical = job[j].physical
    BY <1>6, Reading
  <2>2. j \in Begun /\ job[j].proposed \in Identity
    BY <2>1 DEF Begun, TypeInv, Noted, Note
  <2>3. Wanted(j) = job[j].proposed /\ Wanted(j) \in Identity /\ location[p] = 0
    BY <1>2, <2>1, <2>2 DEF Belongs, Wanted, Or
  <2>4. ASSUME NEW n \in DOMAIN anchors, anchors[n].artist = Wanted(j).artist PROVE job'[j].anchor = n
    <3>1. \A m \in DOMAIN anchors : Compatible(anchors[m].id, Wanted(j).id)
      BY <2>2, <2>3, IdsFit, ProposedId DEF OneAlbum
    <3>2. \A m, l \in DOMAIN anchors : anchors[m].artist = anchors[l].artist => m = l
      BY DEF OneAlbum, OneAnchor
    <3> QED BY <1>3, <2>1, <2>3, <2>4, <3>1, <3>2, SafeIsFound
  <2>5. \A n \in DOMAIN anchors : n # 0
    BY <1>3
  <2>6. pc'[j] = "create" => \A n \in DOMAIN anchors : anchors[n].artist # job[j].proposed.artist
    BY <2>1, <2>3, <2>4, <2>5
  <2>7. job[j].physical = job[j].proposed /\ job[j].server = None
    BY <1>2, <2>1 DEF Belongs
  <2> QED BY <1>1, <2>1, <2>3, <2>6, <2>7, BelongsNext
<1>7. Belongs(j)'
  BY <1>4, <1>5, <1>6
<1> QED BY <1>1, <1>7, OneMoves

LEMMA OneAlbumViewing ==
  ASSUME TypeInv, Fits, OneAlbum, NEW j \in Job, View(j), Ids \subseteq Ids'
  PROVE  OneAlbum'
<1>1. PICK failed : \E fallback \in Identity, served \in Maybe :
           /\ fallback = IF job[j].anchor = 0 THEN job[j].physical ELSE job[j].known
           /\ served = Served(In(listed, job[j].place), failed, fallback)
           /\ pc[j] = "view" /\ \A k \in Job \ {j} : job'[k] = job[k] /\ pc'[k] = pc[k]
           /\ job' \in [Job -> Organisation]
           /\ job'[j].place = job[j].place /\ job'[j].key = job[j].key
           /\ job'[j].proposed = job[j].proposed
           /\ UNCHANGED <<old, file, listed, anchors, location, lock, mishaps>>
           /\ \/ /\ job[j].anchor # 0 /\ served = None
                 /\ pc'[j] = "write" /\ job'[j].identity = job[j].known
              \/ /\ IF job[j].anchor = 0 THEN pc'[j] = "choose" ELSE served # None /\ pc'[j] = "update"
                 /\ job'[j].server = served /\ job'[j].anchor = job[j].anchor
                 /\ job'[j].known = job[j].known /\ job'[j].physical = job[j].physical
  BY Viewing
<1> DEFINE p == job[j].place
<1>2. PICK fallback \in Identity, served \in Maybe :
           /\ fallback = IF job[j].anchor = 0 THEN job[j].physical ELSE job[j].known
           /\ served = Served(In(listed, p), failed, fallback)
           /\ pc[j] = "view" /\ \A k \in Job \ {j} : job'[k] = job[k] /\ pc'[k] = pc[k]
           /\ job'[j].place = p /\ job'[j].proposed = job[j].proposed
           /\ UNCHANGED <<file, anchors, location>>
           /\ \/ /\ job[j].anchor # 0 /\ served = None
                 /\ pc'[j] = "write" /\ job'[j].identity = job[j].known
              \/ /\ IF job[j].anchor = 0 THEN pc'[j] = "choose" ELSE served # None /\ pc'[j] = "update"
                 /\ job'[j].server = served /\ job'[j].anchor = job[j].anchor
                 /\ job'[j].known = job[j].known /\ job'[j].physical = job[j].physical
  BY <1>1
<1>3. Belongs(j)
  BY DEF OneAlbum
<1>4. In(listed, p) \in SUBSET file /\ IsFiniteSet(file) /\ \A f \in In(listed, p) : f.tag \in Identity /\ f.place = p
  BY DEF TypeInv, TypeOK, In
<1>5. ASSUME job[j].anchor = 0 PROVE Belongs(j)'
  <2>1. location[p] = 0 /\ job[j].physical = job[j].proposed
    BY <1>2, <1>3, <1>5 DEF Belongs
  <2>2. In(listed, p) = {}
    BY <1>4, <2>1, UnboundIsEmpty DEF In
  <2>3. served = None
    BY <1>2, <2>2 DEF Served, Tags
  <2> QED BY <1>2, <1>5, <2>1, <2>3, BelongsNext
<1>6. ASSUME job[j].anchor # 0 PROVE Belongs(j)'
  <2>1. Of(p, job[j].known) /\ fallback = job[j].known
    BY <1>2, <1>3, <1>6 DEF Belongs
  <2>2. \A f \in In(listed, p) : Of(p, f.tag)
    BY <1>4 DEF OneAlbum
  <2>3. served = None \/ Of(p, served)
    <3>1. \/ served = None
          \/ /\ served \in Identity /\ \E f \in In(listed, p) : served.artist = f.tag.artist
             /\ served.id = fallback.id \/ \E f \in In(listed, p) : served.id = f.tag.id
      BY <1>2, <1>4, ServedType
    <3> QED BY <2>1, <2>2, <3>1 DEF Of
  <2> QED BY <1>2, <1>6, <2>1, <2>3, BelongsNext
<1>7. Belongs(j)'
  BY <1>5, <1>6
<1> QED BY <1>2, <1>7, OneMoves

LEMMA OneAlbumDeciding ==
  ASSUME TypeInv, Fits, OneAlbum, NEW j \in Job, Update(j) \/ Bind(j) \/ Create(j), Ids \subseteq Ids'
  PROVE  OneAlbum'
<1> DEFINE p == job[j].place
<1>1. /\ p \in Place /\ anchors \in Seq(Identity) /\ Len(anchors) \in Nat
      /\ location \in [Place -> 0 .. Len(anchors)]
  BY DEF TypeInv, TypeOK, Organisation
<1>2. /\ file' = file /\ job'[j].place = p /\ pc'[j] = "write"
      /\ \A k \in Job \ {j} : job'[k] = job[k] /\ pc'[k] = pc[k]
      /\ location'[p] \in DOMAIN anchors' /\ job'[j].identity = anchors'[location'[p]]
      /\ anchors' \in Seq(Identity) /\ Len(anchors') \in Nat
      /\ \A q \in Place : location[q] # 0 => location'[q] = location[q]
  BY Deciding
<1>3. Belongs(j) /\ pc[j] \in {"update", "bind", "create"} /\ j \in Begun
  BY DEF OneAlbum, Update, Bind, Create, Begun
<1>4. /\ \A n \in DOMAIN anchors : anchors'[n].artist = anchors[n].artist
      /\ (OneAnchor)'
      /\ \A n \in DOMAIN anchors' : anchors'[n].id \in Ids
  <2>1. CASE pc[j] = "update"
    <3>1. /\ Len(anchors') = Len(anchors) /\ anchors'[location[p]] = job[j].server
          /\ \A n \in DOMAIN anchors : n # location[p] => anchors'[n] = anchors[n]
      BY <2>1, Deciding
    <3>2. Of(p, job[j].server)
      BY <1>3, <2>1 DEF Belongs
    <3>3. DOMAIN anchors' = DOMAIN anchors
      BY <1>1, <1>2, <3>1
    <3> QED BY <3>1, <3>2, <3>3, SMTT(40) DEF OneAlbum, OneAnchor, Of
  <2>2. CASE anchors' = anchors
    BY <2>2 DEF OneAlbum, OneAnchor
  <2>3. CASE /\ pc[j] = "create" /\ Len(anchors') = Len(anchors) + 1 /\ anchors'[Len(anchors) + 1] = Wanted(j)
             /\ \A n \in DOMAIN anchors : anchors'[n] = anchors[n]
    <3>1. Wanted(j) = job[j].proposed
      BY <1>3, <2>3 DEF Belongs, Wanted, Or
    <3>2. \A n \in DOMAIN anchors : anchors[n].artist # job[j].proposed.artist
      BY <1>3, <2>3 DEF Belongs
    <3>3. DOMAIN anchors' = DOMAIN anchors \cup {Len(anchors) + 1}
      BY <1>1, <1>2, <2>3
    <3>4. job[j].proposed.id \in Ids
      BY <1>3, ProposedId
    <3> QED BY <2>3, <3>1, <3>2, <3>3, <3>4 DEF OneAlbum, OneAnchor
  <2>4. \/ pc[j] = "update" \/ anchors' = anchors
        \/ /\ pc[j] = "create" /\ Len(anchors') = Len(anchors) + 1 /\ anchors'[Len(anchors) + 1] = Wanted(j)
           /\ \A n \in DOMAIN anchors : anchors'[n] = anchors[n]
    BY Deciding
  <2> QED BY <2>1, <2>2, <2>3, <2>4
<1>5. Lasting
  BY <1>2, <1>4 DEF Lasting
<1>6. \A k \in Job \ {j} : Belongs(k)'
  <2>1. ASSUME NEW k \in Job \ {j} PROVE Belongs(k) /\ pc[k] \notin Resolving
    BY <1>3, <2>1, OneChooses DEF OneAlbum, Resolving
  <2> QED BY <1>2, <1>5, <2>1, BelongsLasts
<1>7. Belongs(j)'
  <2>1. location'[p] # 0 /\ anchors'[location'[p]].id \in Ids'
    BY <1>2, <1>4
  <2> QED BY <1>2, <2>1 DEF Belongs, Of
<1>8. \A f \in file : Of(f.place, f.tag)'
  BY <1>5, OfLasts DEF OneAlbum, TypeInv, TypeOK
<1>9. \A k \in Job : Belongs(k)'
  BY <1>6, <1>7
<1>10. (\A n \in DOMAIN anchors : anchors[n].id \in Ids)' /\ (\A f \in file : Of(f.place, f.tag))'
  BY <1>2, <1>4, <1>8
<1> QED BY <1>4, <1>9, <1>10 DEF OneAlbum

LEMMA OneAlbumNext == TypeInv /\ Fits /\ OneAlbum /\ [Next]_vars /\ Fits' => OneAlbum'
<1> SUFFICES ASSUME TypeInv, Fits, OneAlbum, [Next]_vars, Fits' PROVE OneAlbum'
  OBVIOUS
<1>1. Ids \subseteq Ids'
  BY FitsBefore
<1>2. ASSUME NEW j \in Job,
             Acquire(j) \/ Write(j) \/ Finish(j) \/ InterruptLease(j) \/ InterruptFile(j) \/ InterruptWrite(j)
      PROVE  OneAlbum'
  <2>1. /\ UNCHANGED <<anchors, location>> /\ job'[j].place = job[j].place
        /\ \A k \in Job \ {j} : job'[k] = job[k] /\ pc'[k] = pc[k]
        /\ pc'[j] # "locate" => pc'[j] \notin Resolving
        /\ pc'[j] = "write" => pc[j] = "write" /\ job' = job
        /\ file' = file \/ (pc[j] = "write" /\ file' = Written(j))
    BY <1>2, Going
  <2>2. pc[j] = "write" => Of(job[j].place, job[j].identity)
    BY DEF OneAlbum, Belongs
  <2>3. Belongs(j)'
    BY <1>1, <2>1, <2>2 DEF Belongs, Of, Resolving
  <2>4. \A f \in file' : f \in file \/ Of(f.place, f.tag)'
    BY <1>1, <2>1, <2>2 DEF Written, Of
  <2> QED BY <1>1, <2>1, <2>3, <2>4, OneMoves
<1>3. ASSUME NEW j \in Job, NEW p \in Place, NEW named \in BOOLEAN, NEW i \in Identity, Begin(j, p, named, i)
      PROVE  OneAlbum'
  <2>1. /\ UNCHANGED <<file, anchors, location>> /\ pc'[j] = "waiting"
        /\ \A k \in Job \ {j} : job'[k] = job[k] /\ pc'[k] = pc[k]
    BY <1>3, Beginning
  <2>2. Belongs(j)'
    BY <2>1 DEF Belongs
  <2> QED BY <1>1, <2>1, <2>2, OneMoves
<1>4. CASE Crash
  <2>1. UNCHANGED <<file, anchors, location>>
    BY <1>4, Crashing
  <2>2. \A k \in Job : Belongs(k)'
    BY <1>4, Crashing DEF Belongs
  <2> QED BY <1>1, <2>1, <2>2 DEF OneAlbum, OneAnchor, Of
<1>5. CASE Sync \/ UNCHANGED vars
  BY <1>5, SMTT(40) DEF Sync, vars, OneAlbum, OneAnchor, Of, Ids, Begun, Belongs
<1> QED BY <1>1, <1>2, <1>3, <1>4, <1>5, OneAlbumReading, OneAlbumViewing, OneAlbumDeciding
        DEF Next, Works, Resolve

(* An album does not fall apart over new directories: who holds its key    *)
(* and finds no anchor for its directory finds the one of its artist.      *)
THEOREM AlbumsStayTogether == Spec => []Together
<1>1. Init => TypeInv /\ (Fits => OneAlbum)
  BY TypesInit, OneAlbumInit
<1>2. (TypeInv /\ (Fits => OneAlbum)) /\ [Next]_vars => (TypeInv /\ (Fits => OneAlbum))'
  BY TypesNext, FitsBefore, OneAlbumNext
<1>3. TypeInv /\ (Fits => OneAlbum) => Together
  BY DEF Together, Fits, OneAlbum, OneAnchor, Begun
<1> QED BY <1>1, <1>2, <1>3, PTL DEF Spec
=============================================================================
