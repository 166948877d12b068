--------------------------- MODULE ArtistLibraryProofs ---------------------------
(* Theorems about ArtistLibrary, for every set of names, whatever they may  *)
(* stand for, and any number of requests and artists.  The second half is   *)
(* about SiteSearch, whose results are filtered by an artist's names.       *)
EXTENDS ArtistLibrary, SiteSearch, FiniteSetTheorems, WellFoundedInduction, TLAPS

(* A request under way has a name, one that found or made an artist has its *)
(* number, and no group of a build is empty.                                *)
Named(r) ==
  /\ r.pc # "idle" => r.name \in Name
  /\ r.pc \notin {"idle", "find", "create"} => r.id \in Id
  /\ {} \notin r.todo

TypeInv == TypeOK /\ \A j \in Job : Named(job[j])

(* The lock on creation is held from the search for an artist to the write *)
(* that relies on its outcome.                                              *)
CreationHeld == \A j \in Job : job[j].pc \in {"create", "update", "add"} => creation = j

(* What the search found is still so: nobody has a writing of the name.     *)
Unused(names, i) == \A k \in There \ {i} : Norm[artist[k]] \notin {Norm[n] : n \in names}
StillUnused ==
  \A j \in Job : /\ job[j].pc = "create" => Unused(Sought(job[j]), 0)
                 /\ job[j].pc = "update" => Unused({job[j].name}, job[j].id)

(* The same for the lock on aliases and the aliases found safe.             *)
WritingHeld == \A j \in Job : job[j].pc \in {"write", "written"} => writing = j
StillSafe ==
  \A j \in Job : job[j].pc \in {"write", "written"} =>
    \A x \in alias : x.source = "auto" => x.alias \notin job[j].safe

NameInv == TypeInv /\ CreationHeld /\ StillUnused /\ OneArtistPerName
AliasInv == TypeInv /\ WritingHeld /\ StillSafe /\ AliasesOwned

-----------------------------------------------------------------------------
(* Facts about the helpers *)

(* The least of some numbers is one of them and no greater than any.        *)
LEMMA LeastNumber ==
  ASSUME NEW I \in SUBSET Nat, I # {}
  PROVE  Least(I) \in I /\ \A k \in I : Least(I) <= k
<1> DEFINE Below == OpToRel(<, Nat)
<1>1. IsWellFoundedOn(Below, Nat)
  BY NatLessThanWellFounded
<1>2. \A i, k \in Nat : k < i => <<k, i>> \in Below
  BY DEF OpToRel
<1> HIDE DEF Below
<1>3. PICK i \in I : \A k \in I : ~ (<<k, i>> \in Below)
  BY <1>1, WFMin, Zenon
<1>4. \A k \in I : i <= k
  <2> TAKE k \in I
  <2>1. i \in Nat /\ k \in Nat
    OBVIOUS
  <2>2. ~ (k < i)
    BY <2>1, <1>2, <1>3, Zenon
  <2> QED
    BY <2>1, <2>2
<1> QED
  BY <1>4 DEF Least

(* So the least of some artists is one of them.                             *)
LEMMA LeastType ==
  ASSUME NEW I \in SUBSET Id, I # {}
  PROVE  Least(I) \in I
<1>1. I \in SUBSET Nat
  BY ArtistAssumption DEF Id
<1> QED
  BY <1>1, LeastNumber

(* A later artist does not change which is the oldest.                      *)
LEMMA LeastKept ==
  ASSUME NEW I \in SUBSET Id, I # {}, NEW i \in Id, \A k \in I : k < i
  PROVE  Least(I \cup {i}) = Least(I)
<1>1. I \in SUBSET Nat /\ I \cup {i} \in SUBSET Nat
  BY ArtistAssumption DEF Id
<1>2. Least(I) \in I /\ \A k \in I : Least(I) <= k
  BY <1>1, LeastNumber
<1>3. Least(I \cup {i}) \in I \cup {i} /\ \A k \in I \cup {i} : Least(I \cup {i}) <= k
  BY <1>1, LeastNumber
<1>4. PICK x \in I : x = Least(I)
  BY <1>2
<1>5. PICK y \in I \cup {i} : y = Least(I \cup {i})
  BY <1>3
<1>6. x \in Nat /\ y \in Nat /\ i \in Nat /\ x < i /\ y <= x
  BY <1>1, <1>3, <1>5
<1>7. y \in I
  BY <1>6
<1>8. x <= y
  BY <1>2, <1>4, <1>7
<1> QED
  BY <1>4, <1>5, <1>6, <1>8

(* So is the one selected.                                                  *)
LEMMA SelectedType ==
  ASSUME NEW I \in SUBSET Id, I # {}, NEW names, NEW fallback
  PROVE  Selected(I, names, fallback) \in I
<1> DEFINE exact == {i \in I : artist[i] = Preferred(names, fallback)}
<1>1. CASE exact # {}
  BY <1>1, LeastType DEF Selected
<1>2. CASE exact = {}
  BY <1>2, LeastType DEF Selected
<1> QED
  BY <1>1, <1>2

(* The names that some names may stand for are names, these among them.     *)
LEMMA AllType ==
  ASSUME NEW names \in SUBSET Name
  PROVE  All(names) \in SUBSET Name /\ names \subseteq All(names)
BY ArtistAssumption DEF All

(* The name preferred is a name and a writing of one of those given.        *)
LEMMA PreferredType ==
  ASSUME NEW names \in SUBSET Name, NEW fallback \in Name
  PROVE  /\ Preferred(names, fallback) \in Name
         /\ fallback \in names =>
              Norm[Preferred(names, fallback)] \in {Norm[n] : n \in names}
<1>1. CASE names \cap Chinese # {}
  <2> DEFINE c == CHOOSE n \in names \cap Chinese : TRUE
  <2>1. c \in names
    BY <1>1
  <2>2. Norm[c] \in Name /\ Norm[Norm[c]] = Norm[c]
    BY <2>1, ArtistAssumption
  <2> QED
    BY <1>1, <2>1, <2>2 DEF Preferred
<1>2. CASE names \cap Chinese = {}
  BY <1>2 DEF Preferred
<1> QED
  BY <1>1, <1>2
(* Setting one request leaves the others.                                   *)
LEMMA SetType ==
  ASSUME TypeInv, NEW j \in Job, NEW r \in Request, Named(r), Set(j, r)
  PROVE  /\ job' \in [Job -> Request] /\ \A k \in Job : Named(job'[k])
         /\ job'[j] = r /\ \A k \in Job \ {j} : job'[k] = job[k]
BY DEF TypeInv, TypeOK, Set

(* Nobody at rest has anything to answer for.                               *)
LEMMA IdleType ==
  /\ Idle \in Request /\ Named(Idle) /\ Idle.pc = "idle"
  /\ Asked \in Request /\ Named(Asked) /\ Asked.pc = "idle"
BY DEF Idle, Asked, Request, Named

(* A lock is given back only by the request that has it.                    *)
LEMMA Locks ==
  ASSUME TypeInv, NEW j \in Job
  PROVE  /\ j # None
         /\ Take(creation, j) => creation' \in Job \cup {None}
         /\ Give(creation, j) => creation' \in {creation, None} /\ (creation # j => creation' = creation)
         /\ Take(writing, j) => writing' \in Job \cup {None}
         /\ Give(writing, j) => writing' \in {writing, None} /\ (writing # j => writing' = writing)
         /\ Take(asking, j) => asking' \in Job \cup {None}
         /\ Give(asking, j) => asking' \in {asking, None}
BY ArtistAssumption DEF TypeInv, TypeOK, Job, Take, Give

(* The names a request is about are names.                                  *)
LEMMA SoughtType ==
  ASSUME NEW r \in Request, r.name \in Name
  PROVE  Sought(r) \in SUBSET Name /\ r.name \in Sought(r)
<1>1. r.names \cup {r.name} \in SUBSET Name
  BY DEF Request
<1> QED
  BY <1>1, AllType DEF Sought

(* A build that goes on goes on with names, or is at rest.                  *)
LEMMA TurnType ==
  ASSUME NEW r \in Request, {} \notin r.todo, NEW next \in Turn(r)
  PROVE  next \in Request /\ Named(next) /\ next.pc \in {"idle", "find"}
<1>1. CASE r.todo = {}
  BY <1>1, IdleType DEF Turn
<1>2. CASE r.todo # {}
  <2>1. PICK g \in r.todo :
          next = [r EXCEPT !.pc = "find", !.names = g, !.todo = @ \ {g},
                           !.name = Preferred(All(g), CHOOSE n \in g : TRUE)]
    BY <1>2 DEF Turn
  <2>2. g \in SUBSET Name /\ g # {}
    BY DEF Request
  <2>3. (CHOOSE n \in g : TRUE) \in Name
    BY <2>2
  <2>4. Preferred(All(g), CHOOSE n \in g : TRUE) \in Name
    BY <2>2, <2>3, AllType, PreferredType
  <2> QED
    BY <2>1, <2>2, <2>4 DEF Request, Named
<1> QED
  BY <1>1, <1>2

(* The artists found are artists.                                           *)
LEMMA MatchesType ==
  ASSUME NEW names
  PROVE  Matches(names) \in SUBSET Id
BY DEF Matches, There

(* The aliases written are rows of the table.                               *)
LEMMA AddedType ==
  ASSUME TypeInv, NEW i \in Id, NEW names \in SUBSET Name, NEW source \in {"auto", "user"}
  PROVE  Added(i, names, source) \subseteq Row
BY DEF TypeInv, TypeOK, Added, Row

-----------------------------------------------------------------------------
(* Type correctness *)

LEMMA TypeInit == Init => TypeInv
<1> SUFFICES ASSUME Init PROVE TypeInv
  OBVIOUS
<1>1. job \in [Job -> Request] /\ \A j \in Job : Named(job[j])
  BY IdleType DEF Init
<1>2. starts \in 0..Starts
  BY ArtistAssumption DEF Init
<1> QED
  BY <1>1, <1>2 DEF Init, TypeInv, TypeOK

LEMMA TypeStep == TypeInv /\ [Next]_vars => TypeInv'
<1> SUFFICES ASSUME TypeInv, [Next]_vars PROVE TypeInv'
  OBVIOUS
<1> USE DEF TypeInv
<1>0. starts \in Nat /\ Starts \in Nat /\ (Count => starts' \in 0..Starts)
  BY ArtistAssumption DEF TypeOK, Count
<1>1. ASSUME NEW j \in Job, Find(j) PROVE TypeInv'
  <2> DEFINE r == job[j]
             found == Matches(Sought(r))
             made == [r EXCEPT !.pc = "create"]
             met == [r EXCEPT !.pc = "local", !.want = Sought(r),
                              !.id = Selected(found, Sought(r), r.name)]
  <2>1. r \in Request /\ Named(r) /\ r.pc = "find" /\ r.name \in Name
    BY <1>1 DEF TypeOK, Named, Find
  <2>2. Sought(r) \in SUBSET Name
    BY <2>1, SoughtType
  <2>3. made \in Request /\ Named(made)
    BY <2>1 DEF Request, Named
  <2>4. found # {} => Selected(found, Sought(r), r.name) \in Id
    BY MatchesType, SelectedType
  <2>5. found # {} => met \in Request /\ Named(met)
    BY <2>1, <2>2, <2>4 DEF Request, Named
  <2>6. PICK s \in Request : Named(s) /\ Set(j, s)
    BY <1>1, <2>3, <2>5 DEF Find
  <2> QED
    BY <1>1, <2>6, SetType, Locks DEF TypeOK, Find
<1>2. ASSUME NEW j \in Job, Create(j) PROVE TypeInv'
  <2> DEFINE r == job[j]
             s == [r EXCEPT !.pc = "local", !.id = NextId, !.want = Sought(r)]
  <2>1. r \in Request /\ Named(r) /\ r.pc = "create" /\ r.name \in Name
    BY <1>2 DEF TypeOK, Named, Create
  <2>2. Sought(r) \in SUBSET Name /\ Preferred(Sought(r), r.name) \in Name
    BY <2>1, SoughtType, PreferredType
  <2>3. NextId \in Id /\ artist' \in [Id -> Name \cup {None}]
    BY <1>2, <2>2 DEF TypeOK, Create
  <2>4. s \in Request /\ Named(s)
    BY <2>1, <2>2, <2>3 DEF Request, Named
  <2>5. Set(j, s)
    BY <1>2 DEF Create
  <2> QED
    BY <1>2, <2>3, <2>4, <2>5, SetType DEF TypeOK, Create
<1>3. ASSUME NEW j \in Job, Check(j) PROVE TypeInv'
  <2> DEFINE r == job[j]
             s == [r EXCEPT !.pc = IF r.pc = "local" THEN "write" ELSE "written",
                            !.safe = Safe(r.id, r.want)]
  <2>1. r \in Request /\ Named(r) /\ r.pc \in {"local", "more"}
    BY <1>3 DEF TypeOK, Check
  <2>2. s \in Request /\ Named(s)
    BY <2>1 DEF Request, Named, Safe
  <2>3. Set(j, s)
    BY <1>3 DEF Check
  <2> QED
    BY <1>3, <2>2, <2>3, SetType, Locks DEF TypeOK, Check
<1>4. ASSUME NEW j \in Job, Write(j) PROVE TypeInv'
  <2> DEFINE r == job[j]
             s == [r EXCEPT !.pc = IF r.kind = "build" THEN "lookup" ELSE "ask",
                            !.want = {}, !.safe = {}]
  <2>1. r \in Request /\ Named(r) /\ r.pc = "write" /\ r.id \in Id /\ r.safe \in SUBSET Name
    BY <1>4 DEF TypeOK, Named, Request, Write
  <2>2. s \in Request /\ Named(s)
    BY <2>1 DEF Request, Named
  <2>3. Set(j, s) \/ Set(j, Idle)
    BY <1>4 DEF Write
  <2>4. alias' \subseteq Row
    BY <1>4, <2>1, AddedType DEF Write
  <2>5. job' \in [Job -> Request] /\ \A k \in Job : Named(job'[k])
    BY <2>2, <2>3, SetType, IdleType
  <2> QED
    BY <1>4, <2>4, <2>5, Locks DEF TypeOK, Write
<1>5. ASSUME NEW j \in Job, Ask(j) PROVE TypeInv'
  <2> DEFINE s == [job[j] EXCEPT !.pc = "lookup"]
  <2>1. s \in Request /\ Named(s)
    BY <1>5 DEF TypeOK, Request, Named, Ask
  <2>2. (Set(j, Idle) /\ UNCHANGED asking) \/ (Set(j, s) /\ Take(asking, j))
    BY <1>5 DEF Ask
  <2>3. job' \in [Job -> Request] /\ \A k \in Job : Named(job'[k])
    BY <2>1, <2>2, SetType, IdleType
  <2>4. asking' \in Job \cup {None}
    BY <2>2, Locks DEF TypeOK
  <2> QED
    BY <1>5, <2>3, <2>4 DEF TypeOK, Ask
<1>6. ASSUME NEW j \in Job, Lookup(j) PROVE TypeInv'
  <2>1. PICK names \in {{}, Known[job[j].name]} :
          Set(j, [job[j] EXCEPT !.pc = "more", !.want = names])
    BY <1>6 DEF Lookup
  <2> DEFINE s == [job[j] EXCEPT !.pc = "more", !.want = names]
  <2>2. job[j] \in Request /\ Named(job[j]) /\ job[j].pc = "lookup" /\ names \in SUBSET Name
    BY <1>6, ArtistAssumption DEF TypeOK, Named, Lookup
  <2>3. s \in Request /\ Named(s)
    BY <2>2 DEF Request, Named
  <2> QED
    BY <1>6, <2>1, <2>3, SetType DEF TypeOK, Lookup
<1>7. ASSUME NEW j \in Job, Enrich(j) PROVE TypeInv'
  <2> DEFINE r == job[j]
             s == [r EXCEPT !.id = 0, !.want = {}, !.safe = {}]
  <2>1. r \in Request /\ Named(r) /\ r.id \in Id /\ r.safe \in SUBSET Name
    BY <1>7 DEF TypeOK, Named, Request, Enrich
  <2>2. s \in Request /\ {} \notin s.todo
    BY <2>1 DEF Request, Named
  <2>3. PICK next \in Turn(s) : Set(j, next)
    BY <1>7 DEF Enrich
  <2>4. next \in Request /\ Named(next)
    BY <2>2, <2>3, TurnType
  <2>5. alias' \subseteq Row /\ enriched' \subseteq Id
    BY <1>7, <2>1, AddedType DEF TypeOK, Enrich
  <2> QED
    BY <1>7, <2>3, <2>4, <2>5, SetType, Locks DEF TypeOK, Enrich
<1>8. ASSUME NEW j \in Job, Timeout(j) PROVE TypeInv'
  <2>1. job' \in [Job -> Request] /\ \A k \in Job : Named(job'[k])
    BY <1>8, SetType, IdleType DEF Timeout
  <2> QED
    BY <1>8, <2>1, Locks DEF TypeOK, Timeout
<1>9. ASSUME NEW j \in Job, Updated(j) PROVE TypeInv'
  <2> DEFINE r == job[j]
  <2>1. r \in Request /\ r.id \in Id /\ r.name \in Name /\ r.want \in SUBSET Name
    BY <1>9 DEF TypeOK, Named, Request, Updated
  <2>2. job' \in [Job -> Request] /\ \A k \in Job : Named(job'[k])
    BY <1>9, SetType, IdleType DEF Updated
  <2>3. [id : {r.id}, alias : r.want \cup {r.name}, source : {"user"}] \subseteq Row
    BY <2>1 DEF Row
  <2>4. artist' \in [Id -> Name \cup {None}] /\ alias' \subseteq Row
    BY <1>9, <2>1, <2>3 DEF TypeOK, Updated
  <2> QED
    BY <1>9, <2>2, <2>4, Locks DEF TypeOK, Updated
<1>10. ASSUME NEW j \in Job, AliasAdded(j) PROVE TypeInv'
  <2> DEFINE r == job[j]
  <2>1. r \in Request /\ r.id \in Id /\ r.name \in Name
    BY <1>10 DEF TypeOK, Named, Request, AliasAdded
  <2>2. job' \in [Job -> Request] /\ \A k \in Job : Named(job'[k])
    BY <1>10, SetType, IdleType DEF AliasAdded
  <2>3. alias' \subseteq Row
    BY <1>10, <2>1, AddedType DEF TypeOK, AliasAdded
  <2> QED
    BY <1>10, <2>2, <2>3, Locks DEF TypeOK, AliasAdded
<1>11. ASSUME NEW j \in Job, Merged(j) PROVE TypeInv'
  <2>1. job' \in [Job -> Request] /\ \A k \in Job : Named(job'[k])
    BY <1>11, SetType, IdleType DEF Merged
  <2> QED
    BY <1>11, <2>1 DEF TypeOK, Merged
<1>12. ASSUME NEW j \in Job, Build(j) PROVE TypeInv'
  <2> DEFINE s == [Idle EXCEPT !.kind = "build", !.todo = Groups(Heard)]
  <2>1. Groups(Heard) \in SUBSET SUBSET Name /\ {} \notin Groups(Heard)
    BY ArtistAssumption DEF Groups
  <2>2. s \in Request /\ {} \notin s.todo
    BY <2>1 DEF Idle, Request
  <2>3. PICK next \in Turn(s) : Set(j, next)
    BY <1>12 DEF Build
  <2>4. next \in Request /\ Named(next)
    BY <2>2, <2>3, TurnType
  <2> QED
    BY <1>0, <1>12, <2>3, <2>4, SetType DEF TypeOK, Build
<1>13. ASSUME NEW j \in Job, NEW n \in Name, Ensure(j, n) PROVE TypeInv'
  <2> DEFINE s == [Idle EXCEPT !.pc = "find", !.names = {n}, !.name = n]
  <2>1. s \in Request /\ Named(s)
    BY DEF Idle, Request, Named
  <2>2. Set(j, s)
    BY <1>13 DEF Ensure
  <2> QED
    BY <1>0, <1>13, <2>1, <2>2, SetType DEF TypeOK, Ensure
<1>14. ASSUME NEW j \in Job, NEW i \in Id, NEW n \in Typed, AddAlias(j, i, n) PROVE TypeInv'
  <2> DEFINE s == [Asked EXCEPT !.pc = "add", !.id = i, !.name = n]
  <2>1. s \in Request /\ Named(s)
    BY ArtistAssumption DEF Asked, Idle, Request, Named
  <2>2. Set(j, s)
    BY <1>14 DEF AddAlias
  <2> QED
    BY <1>0, <1>14, <2>1, <2>2, SetType, Locks DEF TypeOK, AddAlias
<1>15. ASSUME NEW j \in Job, NEW i \in Id, NEW n \in Typed, NEW m \in Typed, Update(j, i, n, {m})
       PROVE  TypeInv'
  <2> DEFINE w == {x \in {m} : Norm[x] # Norm[n]}
             s == [Asked EXCEPT !.pc = "update", !.id = i, !.name = n, !.want = w]
  <2>1. w \in SUBSET Name /\ n \in Name
    BY ArtistAssumption
  <2>2. s \in Request /\ Named(s)
    BY <2>1 DEF Asked, Idle, Request, Named
  <2>3. Set(j, s)
    BY <1>15 DEF Update
  <2> QED
    BY <1>0, <1>15, <2>2, <2>3, SetType, Locks DEF TypeOK, Update
<1>16. ASSUME NEW j \in Job, NEW target \in Id, NEW source \in Id, Merge(j, target, source)
       PROVE  TypeInv'
  <2> DEFINE s == [Asked EXCEPT !.pc = "merge", !.id = source, !.name = artist[source]]
  <2>1. artist[source] \in Name
    BY <1>16 DEF TypeOK, There, Merge
  <2>2. s \in Request /\ Named(s)
    BY <2>1 DEF Asked, Idle, Request, Named
  <2>3. Set(j, s)
    BY <1>16 DEF Merge
  <2>4. alias' \subseteq Row
    BY <1>16 DEF TypeOK, Row, Merge
  <2> QED
    BY <1>0, <1>16, <2>2, <2>3, <2>4, SetType DEF TypeOK, Merge
<1>17. CASE Clear
  BY <1>0, <1>17 DEF TypeOK, Named, Clear
<1>18. CASE UNCHANGED vars
  BY <1>18 DEF vars, TypeOK, Named, Row, There
<1> QED
  BY <1>1, <1>2, <1>3, <1>4, <1>5, <1>6, <1>7, <1>8, <1>9, <1>10, <1>11, <1>12, <1>13,
     <1>14, <1>15, <1>16, <1>17, <1>18 DEF Next, Finds, Edits

(* Whatever scrapes, builds and users do, every table, lock and request     *)
(* holds what it may hold; one under way has the name or the artist that    *)
(* its next step reads.                                                     *)
THEOREM TypeCorrect == Spec => []TypeInv
BY TypeInit, TypeStep, PTL DEF Spec

-----------------------------------------------------------------------------
(* The locks *)

(* What one request does to the locks and the requests: the others keep     *)
(* theirs, it has the lock where its place calls for one, and it comes to   *)
(* the steps that rely on a search or a check by that search or check.      *)
Moves(j) ==
  /\ \A k \in Job \ {j} : /\ job'[k] = job[k]
                          /\ creation = k => creation' = k
                          /\ writing = k => writing' = k
  /\ job'[j].pc \in {"create", "update", "add"} => creation' = j
  /\ job'[j].pc \in {"write", "written"} => writing' = j /\ Check(j)
  /\ job'[j].pc \in {"create", "update"} =>
       Find(j) \/ \E i \in Id, n, m \in Typed : Update(j, i, n, {m})

LEMMA MovesStep ==
  ASSUME TypeInv, [Next]_vars
  PROVE  (\E j \in Job : Moves(j)) \/ UNCHANGED <<job, creation, writing>>
<1>0. \A k \in Job : k # None
  BY Locks
<1> USE DEF TypeInv, TypeOK, Set, Give, Take, Moves
<1>1. ASSUME NEW j \in Job, Find(j) PROVE Moves(j)
  BY <1>0, <1>1 DEF Find, Request
<1>2. ASSUME NEW j \in Job, Create(j) PROVE Moves(j)
  BY <1>0, <1>2 DEF Create, Request
<1>3. ASSUME NEW j \in Job, Check(j) PROVE Moves(j)
  BY <1>0, <1>3 DEF Check, Request
<1>4. ASSUME NEW j \in Job, Write(j) PROVE Moves(j)
  BY <1>0, <1>4 DEF Write, Request, Idle
<1>5. ASSUME NEW j \in Job, Ask(j) PROVE Moves(j)
  BY <1>0, <1>5 DEF Ask, Request, Idle
<1>6. ASSUME NEW j \in Job, Lookup(j) PROVE Moves(j)
  BY <1>0, <1>6 DEF Lookup, Request
<1>7. ASSUME NEW j \in Job, Enrich(j) PROVE Moves(j)
  <2> DEFINE s == [job[j] EXCEPT !.id = 0, !.want = {}, !.safe = {}]
  <2>0. job[j] \in Request /\ Named(job[j])
    OBVIOUS
  <2>1. s \in Request /\ {} \notin s.todo
    BY <2>0 DEF Request, Named
  <2>2. PICK next \in Turn(s) : Set(j, next)
    BY <1>7 DEF Enrich
  <2>3. next.pc \in {"idle", "find"}
    BY <2>1, <2>2, TurnType
  <2> QED
    BY <1>0, <1>7, <2>2, <2>3 DEF Enrich
<1>8. ASSUME NEW j \in Job, Timeout(j) PROVE Moves(j)
  BY <1>0, <1>8 DEF Timeout, Idle
<1>9. ASSUME NEW j \in Job, Updated(j) PROVE Moves(j)
  BY <1>0, <1>9 DEF Updated, Idle
<1>10. ASSUME NEW j \in Job, AliasAdded(j) PROVE Moves(j)
  BY <1>0, <1>10 DEF AliasAdded, Idle
<1>11. ASSUME NEW j \in Job, Merged(j) PROVE Moves(j)
  BY <1>0, <1>11 DEF Merged, Idle
<1>12. ASSUME NEW j \in Job, Build(j) PROVE Moves(j)
  <2> DEFINE s == [Idle EXCEPT !.kind = "build", !.todo = Groups(Heard)]
  <2>1. s \in Request /\ {} \notin s.todo
    BY ArtistAssumption DEF Groups, Idle, Request
  <2>2. PICK next \in Turn(s) : Set(j, next)
    BY <1>12 DEF Build
  <2>3. next.pc \in {"idle", "find"}
    BY <2>1, <2>2, TurnType
  <2> QED
    BY <1>0, <1>12, <2>2, <2>3 DEF Build
<1>13. ASSUME NEW j \in Job, NEW n \in Name, Ensure(j, n) PROVE Moves(j)
  BY <1>0, <1>13 DEF Ensure, Idle
<1>14. ASSUME NEW j \in Job, NEW i \in Id, NEW n \in Typed, AddAlias(j, i, n) PROVE Moves(j)
  BY <1>0, <1>14 DEF AddAlias, Asked, Idle
<1>15. ASSUME NEW j \in Job, NEW i \in Id, NEW n \in Typed, NEW m \in Typed, Update(j, i, n, {m})
       PROVE  Moves(j)
  BY <1>0, <1>15 DEF Update, Asked, Idle
<1>16. ASSUME NEW j \in Job, NEW target \in Id, NEW source \in Id, Merge(j, target, source)
       PROVE  Moves(j)
  BY <1>0, <1>16 DEF Merge, Asked, Idle
<1>17. CASE Clear
  BY <1>17 DEF Clear
<1>18. CASE UNCHANGED vars
  BY <1>18 DEF vars
<1> HIDE DEF TypeInv, TypeOK, Set, Give, Take, Moves
<1> QED
  BY <1>1, <1>2, <1>3, <1>4, <1>5, <1>6, <1>7, <1>8, <1>9, <1>10, <1>11, <1>12, <1>13,
     <1>14, <1>15, <1>16, <1>17, <1>18 DEF Next, Finds, Edits

LEMMA CreationStep == TypeInv /\ CreationHeld /\ [Next]_vars => CreationHeld'
BY MovesStep DEF CreationHeld, Moves

LEMMA WritingStep == TypeInv /\ WritingHeld /\ [Next]_vars => WritingHeld'
BY MovesStep DEF WritingHeld, Moves

-----------------------------------------------------------------------------
(* One artist for a name *)

(* Nothing but these two gives an artist a name.                            *)
LEMMA ArtistStep ==
  ASSUME TypeInv, [Next]_vars
  PROVE  (\E j \in Job : Create(j) \/ Updated(j)) \/ \A i \in Id : artist'[i] \in {artist[i], None}
<1>1. ASSUME NEW j \in Job, Merged(j) PROVE \A i \in Id : artist'[i] \in {artist[i], None}
  BY <1>1 DEF TypeInv, TypeOK, Merged
<1>2. CASE Clear
  BY <1>2 DEF Clear
<1> QED
  BY <1>1, <1>2 DEF Next, Finds, Edits, Find, Check, Write, Ask, Lookup, Enrich, Timeout,
                    AliasAdded, Build, Ensure, AddAlias, Update, Merge, vars

LEMMA UnusedStep ==
  ASSUME TypeInv, CreationHeld, StillUnused, [Next]_vars
  PROVE  StillUnused'
<1> SUFFICES ASSUME NEW k \in Job, job'[k].pc \in {"create", "update"}
             PROVE  /\ job'[k].pc = "create" => Unused(Sought(job[k]), 0)'
                    /\ job'[k].pc = "update" => Unused({job[k].name}, job[k].id)'
  BY DEF StillUnused
<1> USE DEF TypeInv, TypeOK
<1>1. ASSUME NEW j \in Job, Create(j) \/ Updated(j) PROVE FALSE
  <2>1. job[j] \in Request /\ job[j].pc \in {"create", "update"}
    BY <1>1 DEF Create, Updated
  <2>2. ASSUME Create(j) PROVE job'[j].pc = "local"
    BY <2>1, <2>2 DEF Create, Set, Request
  <2>3. ASSUME Updated(j) PROVE job'[j].pc = "idle"
    BY <2>3 DEF Updated, Set, Idle
  <2>4. job'[k] = job[k] /\ k # j
    BY <1>1, <2>2, <2>3 DEF Create, Updated, Set
  <2> QED
    BY <2>1, <2>4 DEF CreationHeld
<1>2. \A i \in Id : artist'[i] \in {artist[i], None}
  BY <1>1, ArtistStep
<1>3. CASE job'[k] = job[k]
  BY <1>2, <1>3 DEF StillUnused, Unused, There, Sought
<1>4. CASE Find(k)
  <2>1. artist' = artist /\ Matches(Sought(job[k])) = {}
    BY <1>4 DEF Find, Set, Request
  <2>2. job'[k] = [job[k] EXCEPT !.pc = "create"]
    BY <1>4, <2>1 DEF Find, Set
  <2>3. Sought(job'[k]) = Sought(job[k]) /\ job'[k].pc = "create"
    BY <2>2 DEF Sought, Request
  <2> QED
    BY <2>1, <2>3 DEF Unused, Matches, There
<1>5. ASSUME NEW i \in Id, NEW n \in Typed, NEW m \in Typed, Update(k, i, n, {m})
      PROVE  job'[k].pc = "update" /\ Unused({job[k].name}, job[k].id)'
  <2>1. {n, m} \in SUBSET Name
    BY ArtistAssumption
  <2>2. n \in All({n, m}) /\ Matches(All({n, m})) \ {i} = {} /\ artist' = artist
    BY <1>5, <2>1, AllType DEF Update, Others
  <2>3. job'[k].name = n /\ job'[k].id = i /\ job'[k].pc = "update"
    BY <1>5 DEF Update, Set, Asked, Idle
  <2> QED
    BY <2>2, <2>3 DEF Unused, Matches, There
<1>6. job'[k] = job[k] \/ Find(k) \/ \E i \in Id, n, m \in Typed : Update(k, i, n, {m})
  BY MovesStep DEF Moves
<1> QED
  BY <1>3, <1>4, <1>5, <1>6

LEMMA NameStep ==
  ASSUME TypeInv, StillUnused, OneArtistPerName, [Next]_vars
  PROVE  OneArtistPerName'
<1> USE DEF TypeInv, TypeOK
<1>1. ASSUME NEW j \in Job, Create(j) PROVE OneArtistPerName'
  <2> DEFINE n == Preferred(Sought(job[j]), job[j].name)
  <2>1. job[j] \in Request /\ job[j].name \in Name /\ job[j].pc = "create"
    BY <1>1 DEF Create, Named
  <2>2. n \in Name /\ Norm[n] \in {Norm[m] : m \in Sought(job[j])}
    BY <2>1, SoughtType, PreferredType
  <2>3. \A k \in There : Norm[artist[k]] # Norm[n]
    BY <2>1, <2>2 DEF StillUnused, Unused, There, Id
  <2>4. \A k \in Id : artist'[k] = IF k = NextId THEN n ELSE artist[k]
    BY <1>1 DEF Create
  <2> QED
    BY <2>3, <2>4 DEF OneArtistPerName, There
<1>2. ASSUME NEW j \in Job, Updated(j) PROVE OneArtistPerName'
  <2>1. \A k \in There \ {job[j].id} : Norm[artist[k]] # Norm[job[j].name]
    BY <1>2 DEF StillUnused, Unused, Updated
  <2>2. artist' = artist \/ artist' = [artist EXCEPT ![job[j].id] = job[j].name]
    BY <1>2 DEF Updated
  <2> QED
    BY <2>1, <2>2 DEF OneArtistPerName, There
<1>3. CASE \A i \in Id : artist'[i] \in {artist[i], None}
  BY <1>3 DEF OneArtistPerName, There
<1> QED
  BY <1>1, <1>2, <1>3, ArtistStep

(* However scrapes, builds, renamings, merges and clearings interleave, no  *)
(* name has two artists in whichever of its writings: the lock on creation  *)
(* is enough for every number of requests and every relation of names.      *)
THEOREM NamesAreUnique == Spec => []OneArtistPerName
<1>1. Init => NameInv
  BY TypeInit DEF Init, Idle, NameInv, CreationHeld, StillUnused, OneArtistPerName, There
<1>2. NameInv /\ [Next]_vars => NameInv'
  BY TypeStep, CreationStep, UnusedStep, NameStep DEF NameInv
<1>3. NameInv => OneArtistPerName
  BY DEF NameInv
<1> QED
  BY <1>1, <1>2, <1>3, PTL DEF Spec

-----------------------------------------------------------------------------
(* One artist for an alias *)

(* An alias is written by a request that may, given by a user, moved with   *)
(* its artist, or taken away.                                               *)
Written(j) == (Write(j) \/ Enrich(j)) /\ job[j].pc \in {"write", "written"}
              /\ alias' = Added(job[j].id, job[j].safe, "auto")
Given == \A x \in alias' : x \in alias \/ x.source = "user"
Moved == \E target, source \in Id :
           alias' = {IF x.id = source THEN [x EXCEPT !.id = target] ELSE x : x \in alias}

LEMMA AliasStep ==
  ASSUME TypeInv, [Next]_vars
  PROVE  (\E j \in Job : Written(j)) \/ Given \/ Moved
<1>1. ASSUME NEW j \in Job, Write(j) \/ Enrich(j) PROVE Written(j)
  BY <1>1 DEF Written, Write, Enrich
<1>2. ASSUME NEW j \in Job, Updated(j) \/ AliasAdded(j) PROVE Given
  BY <1>2 DEF Given, Updated, AliasAdded, Added
<1>3. ASSUME NEW j \in Job, NEW target \in Id, NEW source \in Id, Merge(j, target, source)
      PROVE  Moved
  BY <1>3 DEF Moved, Merge
<1>4. CASE UNCHANGED alias \/ Clear
  BY <1>4 DEF Given, Clear
<1> QED
  BY <1>1, <1>2, <1>3, <1>4 DEF Next, Finds, Edits, Find, Create, Check, Ask, Lookup, Timeout,
                                 Merged, Build, Ensure, AddAlias, Update, vars
(* An alias found safe is in no row.                                        *)
LEMMA SafeType ==
  ASSUME NEW i, NEW names \in SUBSET Name, NEW n \in Safe(i, names)
  PROVE  n \in Name /\ \A x \in alias : x.alias # n
BY ArtistAssumption DEF Safe, Has, Owners

LEMMA SafeStep ==
  ASSUME TypeInv, WritingHeld, StillSafe, [Next]_vars
  PROVE  StillSafe'
<1> SUFFICES ASSUME NEW k \in Job, job'[k].pc \in {"write", "written"},
                    NEW x \in alias', x.source = "auto"
             PROVE  x.alias \notin job'[k].safe
  BY DEF StillSafe
<1> USE DEF TypeInv, TypeOK
<1>1. ASSUME NEW j \in Job, Written(j) PROVE job'[k] # job[k]
  <2>1. job[k].pc \in {"write", "written"} => k = j
    BY <1>1 DEF WritingHeld, Written
  <2>2. job'[j].pc \notin {"write", "written"}
    <3>1. job[j] \in Request /\ Named(job[j])
      OBVIOUS
    <3>2. ASSUME Write(j) PROVE job'[j].pc \in {"idle", "lookup", "ask"}
      BY <3>1, <3>2 DEF Write, Set, Idle, Request
    <3>3. ASSUME Enrich(j) PROVE job'[j].pc \in {"idle", "find"}
      <4> DEFINE s == [job[j] EXCEPT !.id = 0, !.want = {}, !.safe = {}]
      <4>1. s \in Request /\ {} \notin s.todo
        BY <3>1 DEF Request, Named
      <4> QED
        BY <3>3, <4>1, TurnType DEF Enrich, Set
    <3> QED
      BY <1>1, <3>2, <3>3 DEF Written
  <2> QED
    BY <2>1, <2>2
<1>2. CASE job'[k] = job[k]
  <2>1. \A y \in alias : y.source = "auto" => y.alias \notin job[k].safe
    BY <1>2 DEF StillSafe
  <2>2. CASE Given
    BY <1>2, <2>1, <2>2 DEF Given
  <2>3. CASE Moved
    BY <1>2, <2>1, <2>3 DEF Moved, Row
  <2> QED
    BY <1>1, <1>2, <2>2, <2>3, AliasStep
<1>3. CASE Check(k)
  <2> DEFINE s == [job[k] EXCEPT !.pc = IF job[k].pc = "local" THEN "write" ELSE "written",
                                 !.safe = Safe(job[k].id, job[k].want)]
  <2>1. job[k] \in Request /\ job[k].want \in SUBSET Name
    BY DEF Request
  <2>2. s.safe = Safe(job[k].id, job[k].want)
    BY <2>1 DEF Request
  <2>3. alias' = alias /\ job'[k] = s
    BY <1>3 DEF Check, Set
  <2> QED
    BY <2>1, <2>2, <2>3, SafeType
<1> QED
  BY <1>2, <1>3, MovesStep DEF Moves

LEMMA OwnedStep ==
  ASSUME TypeInv, StillSafe, AliasesOwned, [Next]_vars
  PROVE  AliasesOwned'
<1>1. ASSUME NEW j \in Job, Written(j) PROVE AliasesOwned'
  <2>1. \A x \in alias : x.source = "auto" => x.alias \notin job[j].safe
    BY <1>1 DEF StillSafe, Written
  <2>2. \A x \in alias' : x \in alias \/ (x.id = job[j].id /\ x.alias \in job[j].safe)
    BY <1>1 DEF Written, Added
  <2> QED
    BY <2>1, <2>2 DEF AliasesOwned
<1>2. CASE Given
  BY <1>2 DEF Given, AliasesOwned
<1>3. CASE Moved
  BY <1>3 DEF Moved, AliasesOwned, TypeInv, TypeOK, Row
<1> QED
  BY <1>1, <1>2, <1>3, AliasStep

(* An alias that no user gave belongs to one artist: no scrape, build,      *)
(* lookup, renaming or merge comes between the check for other owners and   *)
(* the write that relies on it.                                             *)
THEOREM AliasesAreOwned == Spec => []AliasesOwned
<1>1. Init => AliasInv
  BY TypeInit DEF Init, Idle, AliasInv, WritingHeld, StillSafe, AliasesOwned
<1>2. AliasInv /\ [Next]_vars => AliasInv'
  BY TypeStep, WritingStep, SafeStep, OwnedStep DEF AliasInv
<1>3. AliasInv => AliasesOwned
  BY DEF AliasInv
<1> QED
  BY <1>1, <1>2, <1>3, PTL DEF Spec

-----------------------------------------------------------------------------
(* One artist for a name known *)

(* The writings of n, the artists that have one and those who are called so. *)
Matching(n) == Matches(Candidates[n])
Namesakes(n) == {i \in Matching(n) : artist[i] = Preferred(Candidates[n], n)}

LEMMA ResolvedCases ==
  ASSUME NEW n
  PROVE  /\ Matching(n) = {} => Resolved(n) = 0
         /\ Namesakes(n) # {} => Resolved(n) = Least(Namesakes(n))
         /\ Matching(n) # {} /\ Namesakes(n) = {} => Resolved(n) = Least(Matching(n))
BY DEF Resolved, Selected, Matching, Namesakes

(* The artist that a name resolves to is one of those found.                *)
LEMMA ResolvedType ==
  ASSUME NEW n, Resolved(n) # 0
  PROVE  /\ Matching(n) # {} /\ Resolved(n) \in Matching(n)
         /\ Called(n) <=> Namesakes(n) # {}
<1>1. Matching(n) \in SUBSET Id /\ Namesakes(n) \in SUBSET Id
  BY MatchesType DEF Matching, Namesakes
<1>2. Matching(n) # {}
  BY ResolvedCases
<1>3. CASE Namesakes(n) # {}
  BY <1>1, <1>3, ResolvedCases, LeastType DEF Namesakes, Called
<1>4. CASE Namesakes(n) = {}
  BY <1>1, <1>2, <1>4, ResolvedCases, LeastType DEF Namesakes, Called
<1> QED
  BY <1>2, <1>3, <1>4

(* The preferred writing of a name is a writing of it.                      *)
LEMMA PreferredWriting ==
  ASSUME NEW n \in Name
  PROVE  Preferred(Candidates[n], n) \in Name
         /\ Norm[Preferred(Candidates[n], n)] \in {Norm[m] : m \in Candidates[n]}
BY ArtistAssumption, PreferredType

(* The same artists of the same names are found: the name keeps its artist. *)
LEMMA ResolvedKept ==
  ASSUME NEW n, Matching(n)' = Matching(n), \A i \in Matching(n) : artist'[i] = artist[i]
  PROVE  Resolved(n)' = Resolved(n)
<1>1. Namesakes(n)' = Namesakes(n)
  BY DEF Namesakes, Preferred
<1> QED
  BY <1>1 DEF Resolved, Selected, Matching, Namesakes

(* A number is always left for the next artist; it is greater than those in *)
(* use.                                                                     *)
LEMMA NextIdType == NextId \in 1..Ids + 1 /\ There \subseteq 1..NextId - 1
<1> DEFINE above == {i \in 1..Ids + 1 : There \subseteq 1..i - 1}
           u == Least(above)
<1>1. Ids \in Nat /\ There \subseteq 1..Ids
  BY ArtistAssumption DEF There, Id
<1>2. Ids + 1 \in above
  BY <1>1
<1>3. above \in SUBSET Nat
  BY <1>1
<1>4. u \in above /\ \A k \in above : u <= k
  BY <1>2, <1>3, LeastNumber
<1> HIDE DEF u
<1>5. u > 1 => u - 1 \in There
  <2> SUFFICES ASSUME u > 1, u - 1 \notin There PROVE FALSE
    OBVIOUS
  <2>1. u \in 1..Ids + 1 /\ u - 1 \in 1..Ids + 1
    BY <1>1, <1>4
  <2>2. There \subseteq 1..(u - 1) - 1
    BY <1>1, <1>4, <2>1
  <2> QED
    BY <1>4, <2>1, <2>2
<1> QED
  BY <1>4, <1>5 DEF NextId

(* A new artist takes a name only if it is called so.                       *)
LEMMA CreateKeeps ==
  ASSUME TypeInv, NEW j \in Job, Create(j), NEW n \in Name, Resolved(n) # 0
  PROVE  Resolved(n)' = Resolved(n) \/ Called(n)'
<1> DEFINE new == NextId
           P == Preferred(Candidates[n], n)
<1>1. new \in Id /\ new \notin There /\ \A k \in There : k < new
  BY ArtistAssumption, NextIdType DEF Create, Id
<1>2. \A k \in Id \ {new} : artist'[k] = artist[k]
  BY <1>1 DEF Create, TypeInv, TypeOK
<1>3. alias' = alias /\ \A k \in There : k \in Id \ {new}
  BY <1>1 DEF Create, There
<1>4. Matching(n) \subseteq There
  BY DEF Matching, Matches
<1>5. Matching(n)' = Matching(n) \/ Matching(n)' = Matching(n) \cup {new}
  BY <1>2, <1>3 DEF Matching, Matches, There
<1>6. Matching(n) # {}
  BY ResolvedType
<1>7. \A k \in Matching(n) : artist'[k] = artist[k]
  BY <1>2, <1>3, <1>4
<1>8. P' = P
  BY DEF Preferred
<1> HIDE DEF new, P
<1>9. CASE Matching(n)' = Matching(n)
  BY <1>7, <1>9, ResolvedKept
<1>10. CASE Matching(n)' = Matching(n) \cup {new}
  <2> DEFINE N == Namesakes(n)
  <2>1. N \in SUBSET Id /\ N \subseteq There /\ Matching(n) \in SUBSET Id
    BY <1>4, MatchesType DEF Matching, Namesakes, There
  <2>2. N' = IF artist'[new] = P THEN N \cup {new} ELSE N
    BY <1>1, <1>4, <1>7, <1>8, <1>10 DEF Namesakes, P
  <2>3. Resolved(n)' = Least(IF N' # {} THEN N' ELSE Matching(n)')
    BY <1>10 DEF Resolved, Selected, Matching, Namesakes
  <2>4. \A k \in Matching(n) \cup N : k < new
    BY <1>1, <1>4, <2>1
  <2> HIDE DEF N
  <2>5. CASE N # {}
    <3>1. Least(N \cup {new}) = Least(N)
      BY <1>1, <2>1, <2>4, <2>5, LeastKept
    <3>2. Resolved(n) = Least(N)
      BY <2>5, ResolvedCases DEF N
    <3> QED
      BY <2>2, <2>3, <2>5, <3>1, <3>2
  <2>6. CASE N = {} /\ artist'[new] = P
    <3>1. Least({new}) = new
      BY <1>1, LeastType
    <3> QED
      BY <1>8, <2>2, <2>3, <2>6, <3>1 DEF Called, P
  <2>7. CASE N = {} /\ artist'[new] # P
    <3>1. Least(Matching(n) \cup {new}) = Least(Matching(n))
      BY <1>1, <1>6, <2>1, <2>4, LeastKept
    <3>2. Resolved(n) = Least(Matching(n))
      BY <1>6, <2>7, ResolvedCases DEF N
    <3> QED
      BY <1>10, <2>2, <2>3, <2>7, <3>1, <3>2
  <2> QED
    BY <2>5, <2>6, <2>7
<1> QED
  BY <1>5, <1>9, <1>10

(* Aliases written take a name from nobody who is called so, and from       *)
(* nobody at all if they are as free as they were when they were checked.   *)
LEMMA WriteKeeps ==
  ASSUME TypeInv, NEW j \in Job, Written(j), artist' = artist,
         NEW n \in Name, Plain(n), Resolved(n) # 0, Called(n) \/ StillFree(n)
  PROVE  Resolved(n)' = Resolved(n)
<1> DEFINE i == job[j].id
           P == Preferred(Candidates[n], n)
<1>1. Matching(n) \subseteq Matching(n)' /\ Matching(n)' \subseteq Matching(n) \cup {i}
  BY DEF Written, Added, Matching, Matches, There
<1>2. Matching(n)' # Matching(n) => \E m \in job[j].safe : m \in Candidates[n]
  BY DEF Written, Added, Matching, Matches, There
<1>3. Resolved(n) \in Matching(n)
  BY ResolvedType
<1>4. CASE Matching(n)' = Matching(n)
  BY <1>4, ResolvedKept
<1>5. CASE Matching(n)' # Matching(n) /\ StillFree(n)
  <2>1. PICK m \in job[j].safe \cap Candidates[n] : Owners(m) \subseteq {i}
    BY <1>2, <1>5 DEF StillFree
  <2>2. Candidates[m] = Candidates[n]
    BY <2>1 DEF Plain
  <2>3. Matching(n) \subseteq Owners(m)
    BY <2>2 DEF Matching, Matches, Owners
  <2>4. i \in Matching(n)
    BY <1>3, <2>1, <2>3
  <2> QED
    BY <1>1, <1>5, <2>4
<1>6. CASE Called(n)
  <2>1. \A k \in There : artist[k] = P => k \in Matching(n)
    BY PreferredWriting DEF Matching, Matches
  <2>2. Matching(n)' \subseteq There
    BY DEF Matching, Matches, There
  <2>3. Namesakes(n)' = Namesakes(n)
    BY <1>1, <2>1, <2>2 DEF Namesakes, Preferred
  <2>4. Namesakes(n) # {}
    BY <1>6, ResolvedType
  <2>5. Matching(n)' # {} /\ Matching(n) # {}
    BY <1>1, <1>3
  <2>6. Resolved(n) = Least(Namesakes(n)) /\ Resolved(n)' = Least(Namesakes(n)')
    BY <2>3, <2>4, <2>5 DEF Resolved, Selected, Matching, Namesakes
  <2> QED
    BY <2>3, <2>6
<1> QED
  BY <1>4, <1>5, <1>6

(* What scrapes, builds and lookups do to the tables.                       *)
LEMMA FinderStep ==
  ASSUME TypeInv, [Next]_vars, NEW k \in Job,
         job[k].pc \notin {"idle", "update", "add", "merge"}, job'[k] # job[k]
  PROVE  \/ \E j \in Job : Create(j) \/ (Written(j) /\ artist' = artist)
         \/ UNCHANGED <<artist, alias>>
<1> USE DEF TypeInv, TypeOK, Set
<1>1. ASSUME NEW j \in Job, Write(j) \/ Enrich(j) PROVE Written(j) /\ artist' = artist
  BY <1>1 DEF Written, Write, Enrich
<1>2. ASSUME NEW j \in Job, Edits(j) PROVE FALSE
  BY <1>2 DEF Edits, Updated, AliasAdded, Merged
<1>3. ASSUME NEW j \in Job, NEW target \in Id, NEW source \in Id, Merge(j, target, source)
      PROVE  FALSE
  <2>1. job[j].pc = "idle"
    BY <1>3 DEF Merge, Free, Job
  <2> QED
    BY <1>3, <2>1 DEF Merge
<1>4. ASSUME Clear PROVE FALSE
  BY <1>4 DEF Clear
<1> QED
  BY <1>1, <1>2, <1>3, <1>4 DEF Next, Finds, Find, Check, Ask, Lookup, Timeout,
                                 Build, Ensure, AddAlias, Update, vars

(* A name that is known keeps its artist while files are scraped, whatever  *)
(* aliases come in, or goes to the one who is called so. It takes no more   *)
(* than the choice of the namesake before the oldest, the numbers of new    *)
(* artists, and the check of an alias against all the writings of its name. *)
THEOREM NamesStay == Spec => StableCanonical
<1> DEFINE Stays ==
      (\E j \in Job : job[j].pc \notin {"idle", "update", "add", "merge"} /\ job[j] # job'[j])
        => \A n \in Name : Plain(n) /\ Resolved(n) # 0 /\ (Called(n) \/ StillFree(n)) =>
             Resolved(n)' = Resolved(n) \/ Called(n)'
<1>1. TypeInv /\ [Next]_vars => Stays
  <2> SUFFICES ASSUME TypeInv, [Next]_vars, NEW k \in Job,
                      job[k].pc \notin {"idle", "update", "add", "merge"}, job'[k] # job[k],
                      NEW n \in Name, Plain(n), Resolved(n) # 0, Called(n) \/ StillFree(n)
               PROVE  Resolved(n)' = Resolved(n) \/ Called(n)'
    OBVIOUS
  <2>1. CASE UNCHANGED <<artist, alias>>
    BY <2>1, ResolvedKept DEF Matching, Matches, There
  <2>2. ASSUME NEW j \in Job, Create(j) PROVE Resolved(n)' = Resolved(n) \/ Called(n)'
    BY <2>2, CreateKeeps
  <2>3. ASSUME NEW j \in Job, Written(j), artist' = artist PROVE Resolved(n)' = Resolved(n)
    BY <2>3, WriteKeeps
  <2> QED
    BY <2>1, <2>2, <2>3, FinderStep
<1> QED
  BY TypeInit, TypeStep, <1>1, PTL DEF Spec, StableCanonical

-----------------------------------------------------------------------------
(* SITE SEARCH.  The rest of the module is about SiteSearch, for all sites, *)
(* keywords, answers and filters.                                           *)

\* A site the search asks.
Searches(s) == Searched /\ s \in sites

SearchTypes ==
  /\ Searched => sites \subseteq Site
  /\ words \subseteq Keyword
  /\ at \in [Query -> {"wait", "asked", "filter", "over"}]
  /\ batch \in [Query -> SUBSET Result]
  /\ site \in [Site -> {"begin", "keywords", "filter", "over", "raised"}]
  /\ got \in [Site -> SUBSET Result] /\ count \in [Site -> Nat]
  /\ errors \in [Site -> SUBSET Keyword]
  /\ states \in [Site -> State \cup {Absent}]
  /\ active \in [Keyword -> Int] /\ completed \in Int /\ failed \subseteq Site

(* Only what the search asks for moves, and an answer stays.                *)
Asking ==
  /\ ~Searched => words = {}
  /\ \A s \in Site : ~Searches(s) => site[s] = "begin" /\ states[s] = Absent
  /\ \A s \in Site, k \in Keyword : at[<<s, k>>] # "wait" => site[s] # "begin" /\ k \in words
  /\ \A s \in Site : got[s] \subseteq UNION {Found[s][k] : k \in words}
  /\ \A s \in Site, k \in Keyword :
       at[<<s, k>>] \in {"filter", "over"} => k \in errors[s] \/ Found[s][k] \subseteq got[s]
  /\ done => Searched /\ \A s \in sites : site[s] = "over"

(* A site that is over without a failure shows all that it found.           *)
Whole(s) == site[s] = "over" /\ s \notin failed
Showing ==
  \A s \in Site :
    /\ site[s] = "filter" \/ Whole(s) => Over(s)
    /\ Whole(s) => states[s] = Completed(s, OfArtist(Passing(got[s])))

Working(k) == {s \in Site : at[<<s, k>>] \in {"asked", "filter"}}
Counting ==
  /\ completed = Cardinality({s \in Site : site[s] = "over"})
  /\ \A k \in Keyword : active[k] = Cardinality(Working(k))

Totalled ==
  /\ ~done => totals = Totals(states)
  /\ done /\ failed = {} =>
       totals = [Totals(states) EXCEPT !.rawCount = Cardinality(Totals(states).raw)]

(* What a site answers are results; and they are finitely many.             *)
LEMMA Results == \A s \in Site, k \in Keyword : Found[s][k] \subseteq Result
BY DEF Result

LEMMA ResultsAreFinite == IsFiniteSet(Result)
<1> DEFINE f == [q \in Query |-> Found[q[1]][q[2]]]
           R == {f[q] : q \in Query}
<1>1. IsFiniteSet(Query)
  BY AnswersAreOfSites, FS_Product DEF Query
<1>2. f \in Surjection(Query, R)
  <2>1. f \in [Query -> R]
    OBVIOUS
  <2> QED
    BY <2>1 DEF Surjection
<1>3. IsFiniteSet(R)
  BY <1>1, <1>2, FS_Surjection, Zenon DEF ExistsSurjection
<1>4. \A T \in R : IsFiniteSet(T)
  BY AnswersAreOfSites DEF Query
<1>5. Result = UNION R
  <2>1. ASSUME NEW s \in Site, NEW k \in Keyword
        PROVE  Found[s][k] \in R
    <3>1. <<s, k>> \in Query /\ f[<<s, k>>] = Found[s][k]
      BY DEF Query
    <3> QED
      BY <3>1
  <2>2. ASSUME NEW T \in R
        PROVE  \E s \in Site, k \in Keyword : T = Found[s][k]
    <3>1. PICK q \in Query : T = Found[q[1]][q[2]]
      OBVIOUS
    <3> QED
      BY <3>1 DEF Query
  <2> HIDE DEF R
  <2> QED
    BY <2>1, <2>2 DEF Result
<1> HIDE DEF R
<1> QED
  BY <1>3, <1>4, <1>5, FS_UNION

(* What the coroutines write is typed.                                      *)
LEMMA ShownIsState ==
  ASSUME SearchTypes, NEW s \in Site
  PROVE  /\ \A R \in SUBSET Result : Progress(s, OfArtist(R)) \in State
         /\ Completed(s, OfArtist(Passing(got[s]))) \in State
         /\ Completed(s, {}) \in State
<1>1. got[s] \in SUBSET Result /\ errors[s] \in SUBSET Keyword /\ count[s] \in Nat
  BY DEF SearchTypes
<1>2. \A R \in SUBSET Result : OfArtist(R) \in SUBSET Result /\ Passing(R) \in SUBSET Result
  BY DEF OfArtist, Passing
<1>3. Cardinality(got[s]) \in Nat
  BY <1>1, ResultsAreFinite, FS_Subset, FS_CardinalityType
<1>4. \A c, R : c \in Nat /\ R \in SUBSET Result =>
        [raw |-> got[s], complete |-> TRUE, rawCount |-> c, errors |-> errors[s], results |-> R] \in State
  BY <1>1 DEF State
<1>5. \A R \in SUBSET Result :
        [raw |-> {}, complete |-> FALSE, rawCount |-> count[s], results |-> R, errors |-> errors[s]] \in State
  BY <1>1 DEF State
<1>6. \A R \in SUBSET Result : Progress(s, OfArtist(R)) \in State
  BY <1>2, <1>5 DEF Progress
<1>7. \A R \in SUBSET Result : Completed(s, R) \in State
  BY <1>3, <1>4, Zenon DEF Completed
<1> QED
  BY <1>1, <1>2, <1>6, <1>7

(* The number of answers is one.                                            *)
LEMMA AnswerIsTyped ==
  ASSUME NEW s \in Site, NEW k \in Keyword
  PROVE  Cardinality(Found[s][k]) \in Nat /\ Found[s][k] \subseteq Result
BY AnswersAreOfSites, FS_CardinalityType, Results

(* Every step of the search keeps each part of the invariant.               *)
LEMMA SearchTypesStep ==
  ASSUME SearchTypes, Asking, [SearchNext]_searchVars
  PROVE  SearchTypes'
<1>1. CASE UNCHANGED <<search, task>>
  BY <1>1 DEF search, task, SearchTypes, Searched
<1>2. ASSUME NEW ss \in SUBSET Site, NEW ks \in SUBSET Keyword, Start(ss, ks)
      PROVE  SearchTypes'
  BY <1>2 DEF Start, task, SearchTypes, Searched
<1>3. ASSUME NEW s \in Site, SiteStep(s)
      PROVE  SearchTypes'
  <2>1. CASE SiteBegins(s)
    <3>1. Completed(s, {}) \in State
      BY ShownIsState
    <3> QED
      BY <2>1, <3>1 DEF SiteBegins, Rebuild, SearchTypes, Searched
  <2>2. CASE SiteRaises(s) \/ SiteCollects(s)
    BY <2>2 DEF SiteRaises, SiteCollects, task, SearchTypes, Searched
  <2>3. CASE SiteDone(s)
    <3>1. Completed(s, OfArtist(Passing(got[s]))) \in State
      BY ShownIsState
    <3> QED
      BY <2>3, <3>1 DEF SiteDone, Rebuild, SearchTypes, Searched
  <2>4. CASE SiteFailed(s)
    BY <2>4 DEF SiteFailed, SearchTypes, Searched
  <2> QED
    BY <1>3, <2>1, <2>2, <2>3, <2>4 DEF SiteStep
<1>4. ASSUME NEW s \in Site, NEW k \in Keyword, KeywordStep(s, k)
      PROVE  SearchTypes'
  <2>0. <<s, k>> \in Query
    BY DEF Query
  <2>1. CASE KeywordStarts(s, k)
    BY <2>0, <2>1 DEF KeywordStarts, SearchTypes, Searched
  <2>2. CASE KeywordAnswered(s, k)
    <3>1. /\ \/ got' = [got EXCEPT ![s] = @ \cup Found[s][k]]
                /\ count' = [count EXCEPT ![s] = @ + Cardinality(Found[s][k])]
                /\ UNCHANGED errors
             \/ errors' = [errors EXCEPT ![s] = @ \cup {k}] /\ UNCHANGED <<got, count>>
          /\ at' = [at EXCEPT ![<<s, k>>] = "filter"]
          /\ batch' = [batch EXCEPT ![<<s, k>>] = Passing(got'[s])]
          /\ UNCHANGED <<sites, words, site, states, active, completed, failed>>
      BY <2>2 DEF KeywordAnswered, task
    <3>2. Cardinality(Found[s][k]) \in Nat /\ Found[s][k] \subseteq Result
      BY AnswerIsTyped
    <3>3. got' \in [Site -> SUBSET Result] /\ count' \in [Site -> Nat] /\ errors' \in [Site -> SUBSET Keyword]
      BY <3>1, <3>2 DEF SearchTypes
    <3>4. Passing(got'[s]) \in SUBSET Result
      BY <3>3 DEF Passing
    <3> QED
      BY <2>0, <3>1, <3>3, <3>4 DEF SearchTypes, Searched
  <2>3. CASE KeywordPublishes(s, k)
    <3>1. Progress(s, OfArtist(batch[<<s, k>>])) \in State
      BY <2>0, ShownIsState DEF SearchTypes
    <3> QED
      BY <2>0, <2>3, <3>1 DEF KeywordPublishes, Rebuild, Finished, SearchTypes, Searched
  <2>4. CASE KeywordRaises(s, k)
    BY <2>0, <2>4 DEF KeywordRaises, Finished, SearchTypes, Searched
  <2> QED
    BY <1>4, <2>1, <2>2, <2>3, <2>4 DEF KeywordStep
<1>5. CASE Finish
  BY <1>5 DEF Finish, search, SearchTypes, Searched
<1>6. ASSUME NEW c \in Client, Open(c) \/ StreamStep(c) \/ Leaves(c)
      PROVE  UNCHANGED <<search, task>>
  BY <1>6 DEF Open, StreamStep, Follows, Sends, Leaves
<1>7. CASE UNCHANGED searchVars
  BY <1>1, <1>7 DEF searchVars
<1> QED
  BY <1>1, <1>2, <1>3, <1>4, <1>5, <1>6, <1>7 DEF SearchNext

LEMMA AskingStep ==
  ASSUME SearchTypes, Asking, [SearchNext]_searchVars
  PROVE  Asking'
<1>1. CASE UNCHANGED <<search, task>>
  BY <1>1 DEF search, task, Asking, Searches, Searched
<1>2. ASSUME NEW ss \in SUBSET Site, NEW ks \in SUBSET Keyword, Start(ss, ks)
      PROVE  Asking'
  <2>1. Searched' /\ ~Searched
    BY <1>2, AnswersAreOfSites DEF Start, Searched
  <2>2. /\ UNCHANGED <<at, site, got, errors, states, done>>
        /\ \A s \in Site : site[s] = "begin" /\ states[s] = Absent /\ got[s] = {}
        /\ \A s \in Site, k \in Keyword : at[<<s, k>>] = "wait"
        /\ ~done
    BY <1>2, <2>1 DEF Start, task, Asking, Searches
  <2> QED
    BY <2>1, <2>2 DEF Asking
<1>3. ASSUME NEW s \in Site, SiteStep(s)
      PROVE  Asking'
  <2>1. /\ UNCHANGED <<sites, words, at, got, errors, done>>
        /\ \A t \in Site \ {s} : site'[t] = site[t] /\ states'[t] = states[t]
        /\ site'[s] # "begin" /\ Searches(s) /\ site[s] # "over"
    <3>1. CASE SiteBegins(s)
      BY <3>1 DEF SiteBegins, Rebuild, SearchTypes, Searches, Asking
    <3>2. CASE SiteRaises(s) \/ SiteCollects(s)
      BY <3>2 DEF SiteRaises, SiteCollects, task, SearchTypes, Searches, Asking
    <3>3. CASE SiteDone(s) \/ SiteFailed(s)
      BY <3>3 DEF SiteDone, SiteFailed, Rebuild, SearchTypes, Searches, Asking
    <3> QED
      BY <1>3, <3>1, <3>2, <3>3 DEF SiteStep
  <2>2. ~done
    BY <2>1 DEF Asking, Searches
  <2> QED
    BY <2>1, <2>2 DEF Asking, Searches, Searched
<1>4. ASSUME NEW s \in Site, NEW k \in Keyword, KeywordStep(s, k)
      PROVE  Asking'
  <2>0. <<s, k>> \in Query /\ \A t \in Site, l \in Keyword : <<t, l>> \in Query
    BY DEF Query
  <2>1. CASE KeywordStarts(s, k)
    <3>1. /\ UNCHANGED <<sites, words, site, got, errors, states, done>>
          /\ at' = [at EXCEPT ![<<s, k>>] = "asked"]
          /\ site[s] # "begin" /\ k \in words
      BY <2>1 DEF KeywordStarts
    <3>2. \A t \in Site, l \in Keyword :
            at'[<<t, l>>] = IF t = s /\ l = k THEN "asked" ELSE at[<<t, l>>]
      BY <2>0, <3>1 DEF SearchTypes
    <3> QED
      BY <3>1, <3>2 DEF Asking, Searches, Searched
  <2>2. CASE KeywordAnswered(s, k)
    <3>1. /\ \/ got' = [got EXCEPT ![s] = @ \cup Found[s][k]] /\ UNCHANGED errors
             \/ errors' = [errors EXCEPT ![s] = @ \cup {k}] /\ UNCHANGED got
          /\ at' = [at EXCEPT ![<<s, k>>] = "filter"] /\ at[<<s, k>>] = "asked"
          /\ UNCHANGED <<sites, words, site, states, done>>
      BY <2>2 DEF KeywordAnswered, task
    <3>2. \A t \in Site, l \in Keyword :
            at'[<<t, l>>] = IF t = s /\ l = k THEN "filter" ELSE at[<<t, l>>]
      BY <2>0, <3>1 DEF SearchTypes
    <3>3. /\ \A t \in Site : got[t] \subseteq got'[t] /\ errors[t] \subseteq errors'[t]
          /\ \A t \in Site : got'[t] = got[t] \/ (t = s /\ got'[t] = got[t] \cup Found[s][k])
          /\ k \in errors'[s] \/ Found[s][k] \subseteq got'[s]
      BY <3>1 DEF SearchTypes
    <3>4. k \in words /\ site[s] # "begin"
      BY <3>1 DEF Asking
    <3> QED
      BY <3>1, <3>2, <3>3, <3>4 DEF Asking, Searches, Searched
  <2>3. CASE KeywordPublishes(s, k) \/ KeywordRaises(s, k)
    <3>1. /\ at' = [at EXCEPT ![<<s, k>>] = "over"] /\ at[<<s, k>>] = "filter"
          /\ UNCHANGED <<sites, words, got, errors, done>>
          /\ \A t \in Site \ {s} : site'[t] = site[t] /\ states'[t] = states[t]
          /\ site'[s] = site[s] \/ (site[s] = "keywords" /\ site'[s] = "raised")
      BY <2>3 DEF KeywordPublishes, KeywordRaises, Finished, Rebuild, SearchTypes
    <3>2. \A t \in Site, l \in Keyword :
            at'[<<t, l>>] = IF t = s /\ l = k THEN "over" ELSE at[<<t, l>>]
      BY <2>0, <3>1 DEF SearchTypes
    <3>3. k \in words /\ site[s] # "begin" /\ Searches(s)
      BY <3>1 DEF Asking
    <3>4. \A t \in Site : /\ site'[t] = "begin" <=> site[t] = "begin"
                          /\ site[t] = "over" => site'[t] = "over"
      BY <3>1, <3>3
    <3>5. \A t \in Site, l \in Keyword : at'[<<t, l>>] \in {"filter", "over"} =>
            l \in errors[t] \/ Found[t][l] \subseteq got[t]
      BY <3>1, <3>2 DEF Asking
    <3>6. \A t \in Site : ~Searches(t)' => site'[t] = "begin" /\ states'[t] = Absent
      BY <3>1, <3>3 DEF Asking, Searches, Searched
    <3>7. done' => Searched' /\ \A t \in sites' : site'[t] = "over"
      BY <3>1, <3>4 DEF Asking, SearchTypes, Searched
    <3>8. \A t \in Site, l \in Keyword : at'[<<t, l>>] # "wait" => site'[t] # "begin" /\ l \in words
      BY <3>1, <3>2, <3>3, <3>4 DEF Asking
    <3> QED
      BY <3>1, <3>5, <3>6, <3>7, <3>8 DEF Asking, Searched
  <2> QED
    BY <1>4, <2>1, <2>2, <2>3 DEF KeywordStep
<1>5. CASE Finish
  BY <1>5 DEF Finish, search, Asking, Searches, Searched
<1>6. ASSUME NEW c \in Client, Open(c) \/ StreamStep(c) \/ Leaves(c)
      PROVE  UNCHANGED <<search, task>>
  BY <1>6 DEF Open, StreamStep, Follows, Sends, Leaves
<1>7. CASE UNCHANGED searchVars
  BY <1>1, <1>7 DEF searchVars
<1> QED
  BY <1>1, <1>2, <1>3, <1>4, <1>5, <1>6, <1>7 DEF SearchNext

(* A keyword under way is one of a site that is not over, unless it failed. *)
LEMMA UnderWay ==
  ASSUME SearchTypes, Asking, Showing, NEW s \in Site, NEW k \in Keyword,
         at[<<s, k>>] \in {"asked", "filter"}
  PROVE  site[s] # "filter" /\ ~Whole(s) /\ site[s] # "begin"
BY DEF Asking, Showing, Over

LEMMA ShowingStep ==
  ASSUME SearchTypes, Asking, Showing, [SearchNext]_searchVars
  PROVE  Showing'
<1>1. CASE UNCHANGED <<search, task>>
  BY <1>1 DEF search, task, Showing, Whole, Over, Completed
<1>2. ASSUME NEW ss \in SUBSET Site, NEW ks \in SUBSET Keyword, Start(ss, ks)
      PROVE  Showing'
  <2>1. \A s \in Site : site'[s] = "begin"
    BY <1>2 DEF Start, Asking, Searches
  <2> QED
    BY <2>1 DEF Showing, Whole
<1>3. ASSUME NEW s \in Site, SiteStep(s)
      PROVE  Showing'
  <2>1. /\ UNCHANGED <<sites, words, at, got, errors>> /\ failed \subseteq failed'
        /\ \A t \in Site \ {s} : site'[t] = site[t] /\ states'[t] = states[t] /\ (t \in failed' <=> t \in failed)
    <3>1. CASE SiteBegins(s)
      BY <3>1 DEF SiteBegins, Rebuild, SearchTypes
    <3>2. CASE SiteRaises(s) \/ SiteCollects(s)
      BY <3>2 DEF SiteRaises, SiteCollects, task, SearchTypes
    <3>3. CASE SiteDone(s) \/ SiteFailed(s)
      BY <3>3 DEF SiteDone, SiteFailed, Rebuild, SearchTypes
    <3> QED
      BY <1>3, <3>1, <3>2, <3>3 DEF SiteStep
  <2>2. \A t \in Site : (Over(t)' <=> Over(t)) /\ \A R : Completed(t, R)' = Completed(t, R)
    BY <2>1 DEF Over, Completed
  <2>3. /\ site'[s] = "filter" \/ Whole(s)' => Over(s)
        /\ Whole(s)' => states'[s] = Completed(s, OfArtist(Passing(got[s])))
    <3>1. CASE SiteBegins(s)
      <4>1. CASE words = {}
        <5>1. site'[s] = "over" /\ states'[s] = Completed(s, {})
          BY <3>1, <4>1 DEF SiteBegins, Rebuild, SearchTypes
        <5>2. got[s] = {}
          BY <4>1 DEF Asking
        <5>3. OfArtist(Passing(got[s])) = {}
          BY <5>2 DEF OfArtist, Passing
        <5>4. Over(s)
          BY <4>1 DEF Over
        <5> QED
          BY <5>1, <5>3, <5>4
      <4>2. CASE words # {}
        BY <3>1, <4>2 DEF SiteBegins, SearchTypes, Whole
      <4> QED
        BY <4>1, <4>2
    <3>2. CASE SiteRaises(s) \/ SiteCollects(s)
      BY <3>2 DEF SiteRaises, SiteCollects, SearchTypes, Whole
    <3>3. CASE SiteDone(s)
      BY <3>3 DEF SiteDone, Rebuild, SearchTypes, Showing
    <3>4. CASE SiteFailed(s)
      BY <3>4 DEF SiteFailed, SearchTypes, Whole
    <3> QED
      BY <1>3, <3>1, <3>2, <3>3, <3>4 DEF SiteStep
  <2>4. \A t \in Site : (Whole(t)' <=> site'[t] = "over" /\ t \notin failed')
    BY DEF Whole
  <2>5. ASSUME NEW t \in Site
        PROVE  /\ site'[t] = "filter" \/ Whole(t)' => Over(t)
               /\ Whole(t)' => states'[t] = Completed(t, OfArtist(Passing(got[t])))
    BY <2>1, <2>3, <2>4 DEF Showing, Whole
  <2>6. \A t \in Site : (OfArtist(Passing(got[t])))' = OfArtist(Passing(got[t]))
    BY <2>1 DEF OfArtist, Passing
  <2>7. \A t \in Site : Completed(t, OfArtist(Passing(got[t])))' = Completed(t, OfArtist(Passing(got[t])))
    BY <2>1, <2>6 DEF Completed
  <2> QED
    BY <2>2, <2>5, <2>7 DEF Showing
<1>4. ASSUME NEW s \in Site, NEW k \in Keyword, KeywordStep(s, k)
      PROVE  Showing'
  <2>0. <<s, k>> \in Query /\ \A t \in Site, l \in Keyword : <<t, l>> \in Query
    BY DEF Query
  <2>1. /\ UNCHANGED <<sites, words, failed>>
        /\ \A t \in Site \ {s} : /\ site'[t] = site[t] /\ states'[t] = states[t]
                                 /\ got'[t] = got[t] /\ errors'[t] = errors[t]
        /\ \A t \in Site, l \in Keyword : t # s => at'[<<t, l>>] = at[<<t, l>>]
        /\ site'[s] = site[s] \/ site'[s] = "raised"
        /\ at[<<s, k>>] \in {"asked", "filter"} \/
             (UNCHANGED <<states, got, errors, site>> /\ at[<<s, k>>] = "wait" /\ k \in words)
    <3>1. CASE KeywordStarts(s, k)
      BY <2>0, <3>1 DEF KeywordStarts, SearchTypes
    <3>2. CASE KeywordAnswered(s, k)
      BY <2>0, <3>2 DEF KeywordAnswered, task, SearchTypes
    <3>3. CASE KeywordPublishes(s, k) \/ KeywordRaises(s, k)
      BY <2>0, <3>3 DEF KeywordPublishes, KeywordRaises, Finished, Rebuild, SearchTypes
    <3> QED
      BY <1>4, <3>1, <3>2, <3>3 DEF KeywordStep
  <2>2. site[s] # "filter" /\ ~Whole(s)
    BY <2>1, UnderWay DEF Showing, Over
  <2>3. site'[s] # "filter" /\ ~Whole(s)'
    BY <2>1, <2>2 DEF Whole
  <2>4. ASSUME NEW t \in Site, t # s
        PROVE  /\ (Whole(t)' <=> Whole(t)) /\ (Over(t)' <=> Over(t))
               /\ Completed(t, OfArtist(Passing(got[t])))' = Completed(t, OfArtist(Passing(got[t])))
    <3>1. got'[t] = got[t] /\ errors'[t] = errors[t] /\ site'[t] = site[t] /\ failed' = failed
      BY <2>1, <2>4
    <3>2. \A l \in words : at'[<<t, l>>] = at[<<t, l>>]
      BY <2>1, <2>4 DEF SearchTypes
    <3> QED
      BY <2>1, <3>1, <3>2 DEF Whole, Over, Completed, OfArtist, Passing
  <2> QED
    BY <2>1, <2>3, <2>4 DEF Showing
<1>5. CASE Finish
  BY <1>5 DEF Finish, search, Showing, Whole, Over, Completed
<1>6. ASSUME NEW c \in Client, Open(c) \/ StreamStep(c) \/ Leaves(c)
      PROVE  UNCHANGED <<search, task>>
  BY <1>6 DEF Open, StreamStep, Follows, Sends, Leaves
<1>7. CASE UNCHANGED searchVars
  BY <1>1, <1>7 DEF searchVars
<1> QED
  BY <1>1, <1>2, <1>3, <1>4, <1>5, <1>6, <1>7 DEF SearchNext

(* What enters a finite set adds one to its number.                         *)
LEMMA OneMore ==
  ASSUME NEW T, IsFiniteSet(T), NEW A \in SUBSET T, NEW x \in T
  PROVE  /\ Cardinality(A) \in Nat
         /\ x \notin A => Cardinality(A \cup {x}) = Cardinality(A) + 1
         /\ x \in A => Cardinality(A \ {x}) = Cardinality(A) - 1
BY FS_Subset, FS_AddElement, FS_RemoveElement, FS_CardinalityType

LEMMA CountingStep ==
  ASSUME SearchTypes, Asking, Counting, [SearchNext]_searchVars
  PROVE  Counting'
<1> DEFINE Past == {s \in Site : site[s] = "over"}
<1>0. IsFiniteSet(Site)
  BY AnswersAreOfSites
<1>1. CASE UNCHANGED <<at, active, completed>> /\ Past' = Past
  BY <1>1 DEF Counting, Working
<1>2. ASSUME NEW s \in Site, SiteStep(s)
      PROVE  Counting'
  <2>1. UNCHANGED <<at, active>> /\ \A t \in Site \ {s} : site'[t] = site[t]
    BY <1>2 DEF SiteStep, SiteBegins, SiteRaises, SiteCollects, SiteDone, SiteFailed,
       task, SearchTypes
  <2>2. \/ completed' = completed + 1 /\ site[s] # "over" /\ site'[s] = "over"
        \/ completed' = completed /\ site[s] # "over" /\ site'[s] # "over"
    BY <1>2 DEF SiteStep, SiteBegins, SiteRaises, SiteCollects, SiteDone, SiteFailed,
       task, SearchTypes
  <2>3. completed' = Cardinality(Past')
    <3>1. CASE completed' = completed + 1 /\ site[s] # "over" /\ site'[s] = "over"
      <4>1. Past' = Past \cup {s} /\ s \notin Past
        BY <2>1, <3>1
      <4> QED
        BY <1>0, <3>1, <4>1, OneMore DEF Counting
    <3>2. CASE completed' = completed /\ site[s] # "over" /\ site'[s] # "over"
      <4>1. Past' = Past
        BY <2>1, <3>2
      <4> QED
        BY <3>2, <4>1 DEF Counting
    <3> QED
      BY <2>2, <3>1, <3>2
  <2> QED
    BY <2>1, <2>3 DEF Counting, Working
<1>3. ASSUME NEW s \in Site, NEW k \in Keyword, KeywordStep(s, k)
      PROVE  Counting'
  <2>0. <<s, k>> \in Query /\ \A t \in Site, l \in Keyword : <<t, l>> \in Query
    BY DEF Query
  <2>1. completed' = completed /\ Past' = Past
    <3>1. completed' = completed /\ \A t \in Site : site'[t] = "over" <=> site[t] = "over"
      BY <1>3 DEF KeywordStep, KeywordStarts, KeywordAnswered, KeywordPublishes,
         KeywordRaises, Finished, task, SearchTypes
    <3> QED
      BY <3>1
  <2>2. /\ \A t \in Site, l \in Keyword : t # s \/ l # k => at'[<<t, l>>] = at[<<t, l>>]
        /\ \A l \in Keyword \ {k} : active'[l] = active[l]
        /\ \/ at[<<s, k>>] = "wait" /\ at'[<<s, k>>] = "asked" /\ active'[k] = active[k] + 1
           \/ at[<<s, k>>] = "asked" /\ at'[<<s, k>>] = "filter" /\ active'[k] = active[k]
           \/ at[<<s, k>>] = "filter" /\ at'[<<s, k>>] = "over" /\ active'[k] = active[k] - 1
    <3>1. CASE KeywordStarts(s, k)
      BY <2>0, <3>1 DEF KeywordStarts, SearchTypes
    <3>2. CASE KeywordAnswered(s, k)
      BY <2>0, <3>2 DEF KeywordAnswered, task, SearchTypes
    <3>3. CASE KeywordPublishes(s, k) \/ KeywordRaises(s, k)
      BY <2>0, <3>3 DEF KeywordPublishes, KeywordRaises, Finished, Rebuild, SearchTypes
    <3> QED
      BY <1>3, <3>1, <3>2, <3>3 DEF KeywordStep
  <2>3. \A l \in Keyword \ {k} : Working(l)' = Working(l)
    BY <2>2 DEF Working
  <2>4. active'[k] = Cardinality(Working(k)')
    <3>1. CASE at[<<s, k>>] = "wait" /\ at'[<<s, k>>] = "asked" /\ active'[k] = active[k] + 1
      <4>1. Working(k)' = Working(k) \cup {s} /\ s \notin Working(k) /\ Working(k) \in SUBSET Site
        BY <2>2, <3>1 DEF Working
      <4> QED
        BY <1>0, <3>1, <4>1, OneMore DEF Counting
    <3>2. CASE at[<<s, k>>] = "asked" /\ at'[<<s, k>>] = "filter" /\ active'[k] = active[k]
      <4>1. Working(k)' = Working(k)
        BY <2>2, <3>2 DEF Working
      <4> QED
        BY <3>2, <4>1 DEF Counting
    <3>3. CASE at[<<s, k>>] = "filter" /\ at'[<<s, k>>] = "over" /\ active'[k] = active[k] - 1
      <4>1. Working(k)' = Working(k) \ {s} /\ s \in Working(k) /\ Working(k) \in SUBSET Site
        BY <2>2, <3>3 DEF Working
      <4> QED
        BY <1>0, <3>3, <4>1, OneMore DEF Counting
    <3> QED
      BY <2>2, <3>1, <3>2, <3>3
  <2> QED
    BY <2>1, <2>2, <2>3, <2>4 DEF Counting
<1>4. ASSUME NEW ss \in SUBSET Site, NEW ks \in SUBSET Keyword, Start(ss, ks)
      PROVE  Counting'
  BY <1>1, <1>4 DEF Start, task
<1>5. CASE Finish
  BY <1>1, <1>5 DEF Finish, search
<1>6. ASSUME NEW c \in Client, Open(c) \/ StreamStep(c) \/ Leaves(c)
      PROVE  Counting'
  BY <1>1, <1>6 DEF Open, StreamStep, Follows, Sends, Leaves, search, task
<1>7. CASE UNCHANGED searchVars
  BY <1>1, <1>7 DEF searchVars, search, task
<1> QED
  BY <1>2, <1>3, <1>4, <1>5, <1>6, <1>7 DEF SearchNext

LEMMA TotalledStep ==
  ASSUME SearchTypes, Asking, Showing, Totalled, [SearchNext]_searchVars
  PROVE  Totalled'
<1>2. CASE UNCHANGED <<states, totals, done>> /\ failed \subseteq failed'
  BY <1>2 DEF Totalled, Totals
<1>3. ASSUME NEW s \in Site, SiteStep(s)
      PROVE  Totalled'
  <2>1. ~done /\ done' = done
    <3>1. Searches(s) /\ site[s] # "over" /\ done' = done
      BY <1>3 DEF SiteStep, SiteBegins, SiteRaises, SiteCollects, SiteDone, SiteFailed,
         task, Asking, Searches
    <3> QED
      BY <3>1 DEF Asking, Searches
  <2>2. UNCHANGED <<states, totals>> \/ totals' = Totals(states')
    BY <1>3 DEF SiteStep, SiteBegins, SiteRaises, SiteCollects, SiteDone, SiteFailed,
       task, Rebuild
  <2> QED
    BY <2>1, <2>2 DEF Totalled
<1>4. ASSUME NEW s \in Site, NEW k \in Keyword, KeywordStep(s, k)
      PROVE  Totalled'
  <2>1. UNCHANGED <<done, failed>>
    BY <1>4 DEF KeywordStep, KeywordStarts, KeywordAnswered, KeywordPublishes,
         KeywordRaises, task
  <2>2. \/ UNCHANGED <<states, totals>>
        \/ totals' = Totals(states') /\ at[<<s, k>>] = "filter"
    BY <1>4 DEF KeywordStep, KeywordStarts, KeywordAnswered, KeywordPublishes,
         KeywordRaises, task, Rebuild
  <2>3. ASSUME at[<<s, k>>] = "filter", done
        PROVE  failed # {}
    <3>1. site[s] # "begin" /\ ~Whole(s)
      BY <2>3, UnderWay
    <3>2. Searches(s)
      BY <3>1 DEF Asking
    <3>3. site[s] = "over"
      BY <2>3, <3>2 DEF Asking, Searches
    <3> QED
      BY <3>1, <3>3 DEF Whole
  <2> QED
    BY <2>1, <2>2, <2>3 DEF Totalled
<1>5. CASE Finish
  BY <1>5 DEF Finish, search, Totalled, Totals
<1>6. ASSUME NEW ss \in SUBSET Site, NEW ks \in SUBSET Keyword, Start(ss, ks)
      PROVE  Totalled'
  BY <1>2, <1>6 DEF Start, task
<1>7. ASSUME NEW c \in Client, Open(c) \/ StreamStep(c) \/ Leaves(c)
      PROVE  Totalled'
  BY <1>2, <1>7 DEF Open, StreamStep, Follows, Sends, Leaves, search, task
<1>8. CASE UNCHANGED searchVars
  BY <1>2, <1>8 DEF searchVars, search, task
<1> QED
  BY <1>3, <1>4, <1>5, <1>6, <1>7, <1>8 DEF SearchNext

\* U has what R gives each of D, and P has it site by site; no two have one.
Together(U, D, R) == \A x : x \in U <=> \E s \in D : x \in R[s]
SiteBySite(P, D, R) == \A p : p \in P <=> \E s \in D : \E x \in R[s] : p = <<s, x>>
Apart(D, R) == \A s, t \in D : s # t => R[s] \cap R[t] = {}

(* What is disjoint counts as much site by site as together.                *)
LEMMA CountedOnce ==
  ASSUME NEW D, NEW R, NEW U, NEW P, IsFiniteSet(U),
         Together(U, D, R), SiteBySite(P, D, R), Apart(D, R)
  PROVE  Cardinality(P) = Cardinality(U)
<1> USE DEF Together, SiteBySite, Apart
<1> DEFINE f == [x \in U |-> <<CHOOSE s \in D : x \in R[s], x>>]
<1>1. \A x \in U : f[x] \in P /\ f[x][2] = x
  <2> TAKE x \in U
  <2>1. \E s \in D : x \in R[s]
    OBVIOUS
  <2>2. (CHOOSE s \in D : x \in R[s]) \in D /\ x \in R[CHOOSE s \in D : x \in R[s]]
    BY <2>1, Zenon
  <2> DEFINE t == CHOOSE s \in D : x \in R[s]
  <2>3. f[x] = <<t, x>> /\ t \in D /\ x \in R[t]
    BY <2>2
  <2> HIDE DEF t, f
  <2> QED
    BY <2>3
<1>2. \A p \in P : \E x \in U : f[x] = p
  <2> TAKE p \in P
  <2>1. PICK s \in D : \E x \in R[s] : p = <<s, x>>
    OBVIOUS
  <2>2. p = <<s, p[2]>> /\ p[2] \in R[s] /\ p[2] \in U
    BY <2>1
  <2>3. \A t \in D : p[2] \in R[t] => t = s
    BY <2>2
  <2> DEFINE t == CHOOSE t \in D : p[2] \in R[t]
  <2>4. t \in D /\ p[2] \in R[t]
    BY <2>2, Zenon
  <2>5. f[p[2]] = <<t, p[2]>>
    BY <2>2
  <2> HIDE DEF t, f
  <2> QED
    BY <2>2, <2>3, <2>4, <2>5
<1>3. f \in [U -> P]
  <2>1. f = [x \in U |-> f[x]]
    OBVIOUS
  <2> HIDE DEF f
  <2> QED
    BY <1>1, <2>1
<1> HIDE DEF f
<1>4. f \in Bijection(U, P)
  <2>1. \A x, y \in U : f[x] = f[y] => x = y
    BY <1>1
  <2>2. f \in Injection(U, P)
    BY <1>3, <2>1 DEF Injection, IsInjective
  <2>3. f \in Surjection(U, P)
    BY <1>2, <1>3 DEF Surjection
  <2> QED
    BY <2>2, <2>3 DEF Bijection
<1>5. ExistsBijection(U, P)
  BY <1>4 DEF ExistsBijection
<1> QED
  BY <1>5, FS_Bijection

\* What a site shows in the end.
Shown(s) == OfArtist(Passing(got[s]))

(* The totals of sites that are all complete.                               *)
LEMMA FinalTotals ==
  ASSUME SearchTypes, Asking, Showing, Searched, done, failed = {}
  PROVE  LET all == UNION {got[s] : s \in sites}
             T   == Totals(states)
         IN /\ T.raw = all
            /\ T.filtered = Cardinality(OfArtist(Passing(all)))
            /\ T.results = OfArtist(Passing(all))
<1> DEFINE all == UNION {got[s] : s \in sites}
           T == Totals(states)
           R == [s \in sites |-> Shown(s)]
<1>1. /\ sites \subseteq Site
      /\ \A s \in sites : states[s] = Completed(s, Shown(s))
      /\ \A s \in Site \ sites : states[s] = Absent
  BY DEF SearchTypes, Asking, Showing, Whole, Searches, Shown
<1>2. \A s \in sites : states[s] # Absent
  <2>1. \A s \in Site : Completed(s, Shown(s)) \in State
    BY ShownIsState DEF Shown
  <2> QED
    BY <1>1, <2>1, AnswersAreOfSites
<1>3. {s \in Site : states[s] # Absent} = sites
  BY <1>1, <1>2
<1>4. \A s \in sites : /\ states[s].raw = got[s] /\ states[s].complete = TRUE
                       /\ states[s].results = Shown(s) /\ R[s] = Shown(s)
  <2>1. \A s, Q : /\ Completed(s, Q).raw = got[s] /\ Completed(s, Q).complete = TRUE
                  /\ Completed(s, Q).results = Q
    BY DEF Completed
  <2>2. \A s \in sites : R[s] = Shown(s)
    OBVIOUS
  <2> QED
    BY <1>1, <2>1, <2>2
<1>5. {s \in sites : states[s].complete} = sites
  BY <1>4
<1>6. /\ T.raw = UNION {states[s].raw : s \in sites}
      /\ T.filtered = Cardinality(UNION {{s} \X states[s].results : s \in sites})
      /\ T.results = UNION {states[s].results : s \in sites}
  BY <1>3, <1>5 DEF Totals
<1> HIDE DEF T, R
<1>7. /\ {states[s].raw : s \in sites} = {got[s] : s \in sites}
      /\ {{s} \X states[s].results : s \in sites} = {{s} \X R[s] : s \in sites}
      /\ {states[s].results : s \in sites} = {R[s] : s \in sites}
  BY <1>4
<1>8. UNION {R[s] : s \in sites} = OfArtist(Passing(all))
  <2>1. \A Q, x : x \in OfArtist(Passing(Q)) <=> x \in Q /\ x \in OfArtist(Passing({x}))
    BY DEF OfArtist, Passing
  <2>2. \A x : x \in UNION {R[s] : s \in sites} <=> \E s \in sites : x \in OfArtist(Passing(got[s]))
    BY <1>4 DEF Shown
  <2>3. \A x : x \in all <=> \E s \in sites : x \in got[s]
    OBVIOUS
  <2> HIDE DEF all
  <2>4. \A x : x \in UNION {R[s] : s \in sites} <=> x \in OfArtist(Passing(all))
    BY <2>1, <2>2, <2>3
  <2> QED
    BY <2>4
<1>9. IsFiniteSet(UNION {R[s] : s \in sites})
  <2>1. UNION {R[s] : s \in sites} \subseteq Result
    <3>1. \A s \in sites : got[s] \subseteq Result
      BY <1>1 DEF SearchTypes
    <3>2. \A s \in sites : R[s] \subseteq got[s]
      BY <1>4 DEF Shown, OfArtist, Passing
    <3> QED
      BY <3>1, <3>2
  <2> QED
    BY <2>1, ResultsAreFinite, FS_Subset
<1>10. \A s, t \in sites : s # t => R[s] \cap R[t] = {}
  <2>1. \A s \in sites : R[s] \subseteq UNION {Found[s][k] : k \in Keyword}
    <3>1. \A s \in sites : R[s] \subseteq got[s]
      BY <1>4 DEF Shown, OfArtist, Passing
    <3>2. \A s \in sites : got[s] \subseteq UNION {Found[s][k] : k \in words} /\ words \subseteq Keyword
      BY <1>1 DEF Asking, SearchTypes
    <3> QED
      BY <3>1, <3>2
  <2>2. \A s, t \in sites : s # t => \A k, l \in Keyword : Found[s][k] \cap Found[t][l] = {}
    BY <1>1, AnswersAreOfSites
  <2> QED
    BY <2>1, <2>2
<1>11. Cardinality(UNION {{s} \X R[s] : s \in sites}) = Cardinality(UNION {R[s] : s \in sites})
  <2> DEFINE U == UNION {R[s] : s \in sites}
             P == UNION {{s} \X R[s] : s \in sites}
  <2>1. \A x : x \in U <=> \E s \in sites : x \in R[s]
    OBVIOUS
  <2>2. \A p : p \in P <=> \E s \in sites : \E x \in R[s] : p = <<s, x>>
    OBVIOUS
  <2>3. IsFiniteSet(U)
    BY <1>9
  <2> HIDE DEF U, P
  <2>4. Together(U, sites, R) /\ SiteBySite(P, sites, R) /\ Apart(sites, R)
    BY <1>10, <2>1, <2>2, Zenon DEF Together, SiteBySite, Apart
  <2>5. Cardinality(P) = Cardinality(U)
    BY <2>3, <2>4, CountedOnce
  <2> QED
    BY <2>5 DEF U, P
<1>12. T.filtered = Cardinality(OfArtist(Passing(all)))
  BY <1>6, <1>7, <1>8, <1>11
<1> QED
  BY <1>6, <1>7, <1>8, <1>12 DEF T

(* When all sites are over, the totals are those of all answers.            *)
LEMMA ResultsAreFinal ==
  ASSUME SearchTypes, Asking, Showing, Counting, Totalled
  PROVE  FinalResults
<1> SUFFICES ASSUME Searched, done, failed = {}
             PROVE  LET all == UNION {got[s] : s \in sites}
                    IN /\ \A s \in sites, k \in words : k \in errors[s] \/ Found[s][k] \subseteq got[s]
                       /\ totals = [raw      |-> all,
                                    rawCount |-> Cardinality(all),
                                    filtered |-> Cardinality(OfArtist(Passing(all))),
                                    results  |-> OfArtist(Passing(all))]
                       /\ completed = Cardinality(sites)
                       /\ \A k \in Keyword : active[k] = 0
  BY DEF FinalResults
<1> DEFINE all == UNION {got[s] : s \in sites}
<1>1. sites \subseteq Site /\ words \subseteq Keyword
  BY DEF SearchTypes
<1>2. \A s \in sites : Whole(s) /\ Over(s)
  BY <1>1 DEF Asking, Showing, Whole
<1>3. \A s \in sites, k \in words : k \in errors[s] \/ Found[s][k] \subseteq got[s]
  BY <1>1, <1>2 DEF Over, Asking
<1>4. \A s \in Site \ sites : site[s] = "begin"
  BY DEF Asking, Searches
<1>5. completed = Cardinality(sites)
  <2>1. {s \in Site : site[s] = "over"} = sites
    BY <1>1, <1>2, <1>4 DEF Whole
  <2> QED
    BY <2>1 DEF Counting
<1>6. \A k \in Keyword : active[k] = 0
  <2> TAKE k \in Keyword
  <2>1. Working(k) = {}
    BY <1>2, <1>4, UnderWay DEF Working, Whole
  <2> QED
    BY <2>1, FS_EmptySet DEF Counting
<1>7. totals = [raw      |-> all,
                rawCount |-> Cardinality(all),
                filtered |-> Cardinality(OfArtist(Passing(all))),
                results  |-> OfArtist(Passing(all))]
  <2> DEFINE T == Totals(states)
             F == Cardinality(OfArtist(Passing(all)))
  <2>1. /\ T.raw = all /\ T.filtered = F
        /\ T.results = OfArtist(Passing(all))
    BY FinalTotals
  <2>2. T = [raw |-> T.raw, rawCount |-> T.rawCount, filtered |-> T.filtered, results |-> T.results]
    BY DEF Totals
  <2>3. totals = [T EXCEPT !.rawCount = Cardinality(T.raw)]
    BY DEF Totalled
  <2> HIDE DEF T, F, all
  <2>4. totals = [raw |-> T.raw, rawCount |-> Cardinality(T.raw), filtered |-> T.filtered,
                  results |-> T.results]
    BY <2>2, <2>3
  <2> QED
    BY <2>1, <2>4 DEF F
<1> QED
  BY <1>3, <1>5, <1>6, <1>7

(* What holds throughout a search.                                          *)
SearchInv == SearchTypes /\ Asking /\ Showing /\ Counting /\ Totalled

(* It holds before the search.                                              *)
LEMMA SearchBegins ==
  ASSUME SearchInit
  PROVE  SearchInv
<1>1. /\ ~Searched /\ words = {} /\ ~done /\ completed = 0 /\ failed = {}
      /\ at = [q \in Query |-> "wait"] /\ batch = [q \in Query |-> {}]
      /\ site = [s \in Site |-> "begin"] /\ got = [s \in Site |-> {}]
      /\ count = [s \in Site |-> 0] /\ errors = [s \in Site |-> {}]
      /\ states = [s \in Site |-> Absent] /\ active = [k \in Keyword |-> 0]
  BY DEF SearchInit, Searched
<1>2. SearchTypes
  BY <1>1 DEF SearchTypes
<1>3. Asking /\ Showing
  BY <1>1 DEF Asking, Showing, Searches, Whole, Query
<1>4. Counting
  <2>1. {s \in Site : site[s] = "over"} = {} /\ \A k \in Keyword : Working(k) = {}
    BY DEF SearchInit, Query, Working
  <2> QED
    BY <2>1, FS_EmptySet DEF SearchInit, Counting
<1>5. Totalled
  <2>1. ~done /\ totals = Nothing /\ \A s \in Site : states[s] = Absent
    BY DEF SearchInit
  <2>2. {s \in Site : states[s] # Absent} = {}
    BY <2>1
  <2>3. Cardinality({}) = 0
    BY FS_EmptySet
  <2>4. Totals(states) = Nothing
    <3>2. /\ Totals(states).raw = {} /\ Totals(states).results = {}
          /\ Totals(states).filtered = Cardinality({})
      BY <2>2 DEF Totals
    <3>3. Totals(states).rawCount = Cardinality({}) + Cardinality({})
      BY <2>2 DEF Totals
    <3>4. Totals(states) = [raw |-> Totals(states).raw, rawCount |-> Totals(states).rawCount,
           filtered |-> Totals(states).filtered, results |-> Totals(states).results]
      BY DEF Totals
    <3> QED
      BY <2>3, <3>2, <3>3, <3>4 DEF Nothing
  <2> QED
    BY <2>1, <2>4 DEF Totalled
<1> QED
  BY <1>2, <1>3, <1>4, <1>5 DEF SearchInv

(* Once a search is over and no site's coroutine failed, its totals,        *)
(* counters and results are those of all answers of its sites               *)
(* (_rebuild_search_totals, site_progress, site_done and finish of          *)
(* MetadataSiteSearchTask): whatever order the keywords' progress is        *)
(* published in, no older snapshot of a site outlives its end, nothing is   *)
(* counted twice and no keyword stays active.                               *)
THEOREM TotalsAreFinal == SearchSpec => []FinalResults
<1>1. SearchInit => SearchInv
  BY SearchBegins
<1>2. SearchInv /\ [SearchNext]_searchVars => SearchInv'
  BY SearchTypesStep, AskingStep, ShowingStep, CountingStep, TotalledStep DEF SearchInv
<1>3. SearchInv => FinalResults
  BY ResultsAreFinal DEF SearchInv
<1> QED
  BY <1>1, <1>2, <1>3, PTL DEF SearchSpec
=============================================================================
